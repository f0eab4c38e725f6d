------------------------------ MODULE AtomicFile ------------------------------
(***************************************************************************)
(* fs_atomic.rs: a save writes a temporary file beside the destination and *)
(* renames it over it.  A file that is open is named by its writer and its *)
(* contents are in written; a closed file stands for its contents.  So one *)
(* writer may rename or remove a file another one has open, as both        *)
(* Windows and Unix allow for files opened the way the code opens them.    *)
(***************************************************************************)
EXTENDS Integers, FiniteSets

CONSTANTS Writers,  \* the threads of this and of other instances of the app
          Payloads, \* what they save
          MaxTemps, \* temporary names tried by a save: 64 in the code
          MaxSpoils, \* bound on the crashes and failed removals of a behaviour
          Missing,   \* there is no such file
          Torn,      \* contents that are not the whole of any payload
          None       \* no file

ASSUME BoundsAssumption == MaxTemps \in Nat \ {0} /\ MaxSpoils \in Nat
ASSUME PayloadsAssumption ==
    /\ {Missing, Torn, None} \cap (Payloads \cup Writers) = {}
    /\ Payloads \cap Writers = {}
    /\ Missing # Torn /\ Missing # None /\ Torn # None

Names == 0 .. MaxTemps - 1
Closed == Payloads \cup {Torn}

VARIABLES dest,    \* the destination: a file, or Missing
          temps,   \* the file under each temporary name, None when there is none
          step,    \* where each writer is in write_bytes_atomically
          payload, \* what it saves
          name,    \* the temporary name it reserved
          written, \* the contents of the file it has open
          synced,  \* whether those are on the disk
          outcome, \* how its last save ended
          spoils   \* crashes and failed removals so far

fileVars == <<dest, temps, step, payload, name, written, synced, outcome, spoils>>

Steps == {"idle", "reserve", "create", "write", "sync", "replace", "return", "clean"}

FileInit ==
    /\ dest \in Payloads \cup {Missing}
    /\ temps = [n \in Names |-> None]
    /\ step = [w \in Writers |-> "idle"]
    /\ payload = [w \in Writers |-> Missing]
    /\ name = [w \in Writers |-> 0]
    /\ written = [w \in Writers |-> Torn]
    /\ synced = [w \in Writers |-> FALSE]
    /\ outcome = [w \in Writers |-> "none"]
    /\ spoils = 0

(* What a reader of a file finds. *)
Holds(f) == IF f \in Writers THEN written[f] ELSE f

(* The writers of ws close their files, which keep the contents c. *)
Closing(f, ws, c) == IF f \in ws THEN c[f] ELSE f

-------------------------------------------------------------------------------
(* A save begins: the directory is created first, and nothing is left behind
   when that fails. *)
BeginSave(w, p) ==
    /\ step[w] = "idle"
    /\ step' = [step EXCEPT ![w] = "reserve"]
    /\ payload' = [payload EXCEPT ![w] = p]
    /\ outcome' = [outcome EXCEPT ![w] = "none"]
    /\ UNCHANGED <<dest, temps, name, written, synced, spoils>>

Ended(w, how) ==
    /\ step' = [step EXCEPT ![w] = "idle"]
    /\ payload' = [payload EXCEPT ![w] = Missing]
    /\ outcome' = [outcome EXCEPT ![w] = how]

(* reserve_temp_path only looks for a name nobody uses. *)
Reserve(w) ==
    /\ step[w] = "reserve"
    /\ \E n \in Names :
          /\ temps[n] = None
          /\ \A m \in Names : m < n => temps[m] # None
          /\ name' = [name EXCEPT ![w] = n]
    /\ step' = [step EXCEPT ![w] = "create"]
    /\ UNCHANGED <<dest, temps, payload, written, synced, outcome, spoils>>

(* All the names are taken by what earlier saves left, or the directory could
   not be created: the save fails before it opens anything. *)
ReserveFails(w) ==
    /\ step[w] = "reserve"
    /\ Ended(w, "failed")
    /\ UNCHANGED <<dest, temps, name, written, synced, spoils>>

(* create_new: the open fails when the name is in use by now. *)
Create(w) ==
    /\ step[w] = "create"
    /\ temps[name[w]] = None
    /\ temps' = [temps EXCEPT ![name[w]] = w]
    /\ written' = [written EXCEPT ![w] = Torn]
    /\ synced' = [synced EXCEPT ![w] = FALSE]
    /\ step' = [step EXCEPT ![w] = "write"]
    /\ UNCHANGED <<dest, payload, name, outcome, spoils>>

(* A bug: the file is renamed before it is on the disk. *)
WriteUnsynced(w) ==
    /\ step[w] = "write"
    /\ written' = [written EXCEPT ![w] = payload[w]]
    /\ step' = [step EXCEPT ![w] = "replace"]
    /\ UNCHANGED <<dest, temps, payload, name, synced, outcome, spoils>>

Write(w) ==
    /\ step[w] = "write"
    /\ written' = [written EXCEPT ![w] = payload[w]]
    /\ step' = [step EXCEPT ![w] = "sync"]
    /\ UNCHANGED <<dest, temps, payload, name, synced, outcome, spoils>>

Sync(w) ==
    /\ step[w] = "sync"
    /\ synced' = [synced EXCEPT ![w] = TRUE]
    /\ step' = [step EXCEPT ![w] = "replace"]
    /\ UNCHANGED <<dest, temps, payload, name, written, outcome, spoils>>

(* The rename moves whatever file has the name now. *)
Replace(w) ==
    /\ step[w] = "replace"
    /\ temps[name[w]] # None
    /\ dest' = temps[name[w]]
    /\ temps' = [temps EXCEPT ![name[w]] = None]
    /\ step' = [step EXCEPT ![w] = "return"]
    /\ UNCHANGED <<payload, name, written, synced, outcome, spoils>>

(* Leaving the closure closes the file: it keeps what was written to it. *)
Closes(w) ==
    /\ dest' = Closing(dest, {w}, written)
    /\ temps' = [n \in Names |-> Closing(temps[n], {w}, written)]

Return(w) ==
    /\ step[w] = "return"
    /\ Closes(w)
    /\ Ended(w, "ok")
    /\ UNCHANGED <<name, written, synced, spoils>>

(* A bug: a failed save leaves its file. *)
FailsAtOnce(w) ==
    /\ step[w] \in {"create", "write", "sync", "replace"}
    /\ Closes(w)
    /\ Ended(w, "failed")
    /\ UNCHANGED <<name, written, synced, spoils>>

(* Any of the calls fails: the disk is full, the name is in use, the rename is
   refused, the name is gone. *)
Fails(w) ==
    /\ step[w] \in {"create", "write", "sync", "replace"}
    /\ Closes(w)
    /\ step' = [step EXCEPT ![w] = "clean"]
    /\ UNCHANGED <<payload, name, written, synced, outcome, spoils>>

(* After any failure the name is removed, whoever created the file it stands
   for; a failure to remove it is ignored. *)
Clean(w) ==
    /\ step[w] = "clean"
    /\ \/ temps' = [temps EXCEPT ![name[w]] = None] /\ UNCHANGED spoils
       \/ spoils < MaxSpoils /\ spoils' = spoils + 1 /\ UNCHANGED temps
    /\ Ended(w, "failed")
    /\ UNCHANGED <<dest, name, written, synced>>

(* The machine stops: what was not synced may be lost, nothing is removed. *)
Crash ==
    /\ spoils < MaxSpoils
    /\ \E w \in Writers : step[w] # "idle"
    /\ spoils' = spoils + 1
    /\ LET kept == [w \in Writers |-> IF synced[w] THEN written[w] ELSE Torn]
       IN /\ dest' = Closing(dest, Writers, kept)
          /\ temps' = [n \in Names |-> Closing(temps[n], Writers, kept)]
    /\ step' = [w \in Writers |-> "idle"]
    /\ payload' = [w \in Writers |-> Missing]
    /\ outcome' = [w \in Writers |-> "none"]
    /\ UNCHANGED <<name, written, synced>>

WriterStep(w) ==
    \/ \E p \in Payloads : BeginSave(w, p)
    \/ Reserve(w) \/ ReserveFails(w) \/ Create(w) \/ Write(w) \/ Sync(w)
    \/ Replace(w) \/ Return(w) \/ Fails(w) \/ Clean(w)

FileNext == Crash \/ \E w \in Writers : WriterStep(w)

FileSpec == FileInit /\ [][FileNext]_fileVars
===============================================================================
