----------------------------- MODULE ContextPacks -----------------------------
(***************************************************************************)
(* context_pack.rs: the context packs are one JSON file.  Every operation  *)
(* loads it all; an operation that changes something saves it all, in one  *)
(* step as SoleWriter shows.  Commands run one at a time on the main       *)
(* thread of an instance of the app; the pipelines load the active pack on *)
(* threads of their own.  A file that cannot be read or parsed is renamed  *)
(* to a backup named by the second, by whoever finds it so.                *)
(*                                                                         *)
(* A pack is its id and whether it is active; titles, contents and times   *)
(* are left out.                                                           *)
(***************************************************************************)
EXTENDS Integers, FiniteSets

CONSTANTS PackIds,    \* ids that pass validate_id
          MainThreads,\* one for each instance of the app
          Pipelines,  \* threads that load the active pack for a prompt
          MaxFaults,  \* bound on corruptions and read errors of a behaviour
          MaxSeconds  \* bound on the seconds of the clock

ASSUME PacksBoundsAssumption == MaxFaults \in Nat /\ MaxSeconds \in Nat

VARIABLES packsFile, \* the store on disk, Missing or Torn
          backups,   \* the file quarantined in each second
          second,    \* the clock, as the backup names show it
          task,      \* what each thread is doing
          faults,
          owned,     \* history: the ids the user saved and did not delete
          clobbered  \* history: ids in a backup another backup replaced

packVars == <<packsFile, backups, second, task, faults, owned, clobbered>>

Threads == MainThreads \cup Pipelines
Packs == [id : PackIds, active : BOOLEAN]
Stores == SUBSET Packs
EmptyStore == {}
Ids(store) == {p.id : p \in store}
File(store) == [is |-> "store", store |-> store]
NoFile == [is |-> "missing", store |-> EmptyStore]
Damaged == [is |-> "torn", store |-> EmptyStore]
Files == [is : {"store", "missing", "torn"}, store : Stores]
Idle == [at |-> "idle"]

PacksInit ==
    /\ packsFile = NoFile
    /\ backups = [s \in 0 .. MaxSeconds |-> NoFile]
    /\ second = 0
    /\ task = [t \in Threads |-> Idle]
    /\ faults = 0
    /\ owned = {}
    /\ clobbered = {}

-------------------------------------------------------------------------------
(* What the operations make of a store. *)

Deactivated(store) == {[id |-> p.id, active |-> FALSE] : p \in store}
Without(store, id) == {p \in store : p.id # id}

(* A bug: saving an active pack leaves the others as they are. *)
SavedOnly(store, pack) == Without(store, pack.id) \cup {pack}

Saved(store, pack) ==
    (IF pack.active THEN Deactivated(Without(store, pack.id)) ELSE Without(store, pack.id))
        \cup {pack}

Activated(store, id) ==
    Deactivated(Without(store, id)) \cup {[id |-> id, active |-> TRUE]}

Operations ==
    [op : {"save"}, pack : Packs, sound : BOOLEAN]
        \cup [op : {"delete", "activate"}, id : PackIds]
        \cup [op : {"deactivate", "list"}]

(* The errors found before anything is loaded: validate_pack, validate_id. *)
Refused(o) == o.op = "save" /\ ~o.sound

(* What the operation saves, if it saves. *)
Result(o, store) ==
    CASE o.op = "save"       -> Saved(store, o.pack)
      [] o.op = "delete"     -> Without(store, o.id)
      [] o.op = "activate"   -> Activated(store, o.id)
      [] o.op = "deactivate" -> Deactivated(store)

(* list, get and status save nothing, nor does an id that is not found. *)
Saves(o, store) ==
    /\ o.op # "list"
    /\ o.op \in {"delete", "activate"} => o.id \in Ids(store)

(* What the user owns after the operation was saved. *)
OwnedAfter(o) ==
    CASE o.op = "save"   -> owned \cup {o.pack.id}
      [] o.op = "delete" -> owned \ {o.id}
      [] OTHER           -> owned

-------------------------------------------------------------------------------
(* load_store_at_path, in the two steps another thread can come between. *)

Loads(t, next) == task' = [task EXCEPT ![t] = next]

(* A bug: a file that cannot be read counts as an empty store and stays. *)
ReadIntoEmpty(t, o) ==
    /\ Loads(t, [at |-> "loaded", op |-> o,
                 store |-> IF faults = MaxFaults THEN packsFile.store ELSE EmptyStore])
    /\ UNCHANGED faults

(* The read: a store, the default for a missing file, or a file to quarantine
   because it does not parse or the read itself failed. *)
ReadInto(t, o) ==
    \/ /\ packsFile = NoFile
       /\ Loads(t, [at |-> "loaded", op |-> o, store |-> EmptyStore])
       /\ UNCHANGED faults
    \/ /\ packsFile.is = "store"
       /\ Loads(t, [at |-> "loaded", op |-> o, store |-> packsFile.store])
       /\ UNCHANGED faults
    \/ /\ packsFile = Damaged
       /\ Loads(t, [at |-> "quarantine", op |-> o])
       /\ UNCHANGED faults
    \/ /\ packsFile # NoFile /\ faults < MaxFaults
       /\ Loads(t, [at |-> "quarantine", op |-> o])
       /\ faults' = faults + 1

Starts(t, o) ==
    /\ task[t].at = "idle"
    /\ ~Refused(o)
    /\ ReadInto(t, o)
    /\ UNCHANGED <<packsFile, backups, second, owned, clobbered>>

(* The rename takes whatever is there by now; its failure is ignored.  Two
   quarantines of one second have one backup name. *)
Quarantine(t) ==
    /\ task[t].at = "quarantine"
    /\ IF packsFile = NoFile
       THEN UNCHANGED <<packsFile, backups, clobbered>>
       ELSE /\ packsFile' = NoFile
            /\ backups' = [backups EXCEPT ![second] = packsFile]
            /\ clobbered' = clobbered \cup Ids(backups[second].store)
    /\ Loads(t, [at |-> "loaded", op |-> task[t].op, store |-> EmptyStore])
    /\ UNCHANGED <<second, faults, owned>>

(* The command ends: it saves the whole store it loaded, as it changed it. *)
CommandSaves(t) ==
    /\ t \in MainThreads
    /\ task[t].at = "loaded"
    /\ Saves(task[t].op, task[t].store)
    /\ packsFile' = File(Result(task[t].op, task[t].store))
    /\ owned' = OwnedAfter(task[t].op)
    /\ Loads(t, Idle)
    /\ UNCHANGED <<backups, second, faults, clobbered>>

(* A command that saves nothing or whose save fails; a pipeline, which takes
   the active pack of what it loaded. *)
Ends(t) ==
    /\ task[t].at = "loaded"
    /\ Loads(t, Idle)
    /\ UNCHANGED <<packsFile, backups, second, faults, owned, clobbered>>

(* Something outside the app damages the file. *)
Corrupts ==
    /\ packsFile.is = "store"
    /\ faults < MaxFaults
    /\ faults' = faults + 1
    /\ packsFile' = Damaged
    /\ owned' = owned \ Ids(packsFile.store)
    /\ UNCHANGED <<backups, second, task, clobbered>>

Ticks ==
    /\ second < MaxSeconds
    /\ second' = second + 1
    /\ UNCHANGED <<packsFile, backups, task, faults, owned, clobbered>>

PacksNext ==
    \/ Corrupts \/ Ticks
    \/ \E t \in MainThreads, o \in Operations : Starts(t, o)
    \/ \E t \in Pipelines : Starts(t, [op |-> "list"])
    \/ \E t \in Threads : Quarantine(t) \/ CommandSaves(t) \/ Ends(t)

PacksSpec == PacksInit /\ [][PacksNext]_packVars

-------------------------------------------------------------------------------
(* The type invariant. *)
PacksTypeOK ==
    /\ packsFile \in Files
    /\ backups \in [0 .. MaxSeconds -> Files]
    /\ second \in 0 .. MaxSeconds
    /\ task \in [Threads -> {Idle} \cup [at : {"quarantine"}, op : Operations]
                    \cup [at : {"loaded"}, op : Operations, store : Stores]]
    /\ faults \in 0 .. MaxFaults
    /\ owned \subseteq PackIds
    /\ clobbered \subseteq PackIds

(* Whatever the instances interleave and however often the file is
   quarantined, every store on disk, in a backup or in the hands of a command
   has each id once and at most one active pack: the pack of the prompt is the
   one the user sees as active (context_pack.rs:353, :390, :419). *)
WellKept(store) ==
    /\ \A p, q \in store : p.id = q.id => p = q
    /\ \A p, q \in store : p.active /\ q.active => p = q

OneActivePack ==
    /\ WellKept(packsFile.store)
    /\ \A s \in 0 .. MaxSeconds : WellKept(backups[s].store)
    /\ \A t \in Threads : task[t].at = "loaded" => WellKept(task[t].store)

(* With one instance, a pack the user saved and did not delete is in the file
   or in a backup, unless two files were quarantined in the same second
   (context_pack.rs:226): a failed or stale read never destroys it. *)
SavedPackSurvives ==
    owned \subseteq Ids(packsFile.store) \cup clobbered
                  \cup UNION {Ids(backups[s].store) : s \in 0 .. MaxSeconds}
===============================================================================
