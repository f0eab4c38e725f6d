------------------------------ MODULE SoleWriter ------------------------------
(***************************************************************************)
(* One thread of one instance of the app saves a file: the settings, the   *)
(* context packs and the reports are saved by commands that run one at a   *)
(* time on the main thread.  Then write_bytes_atomically is a register.    *)
(***************************************************************************)
EXTENDS AtomicFile

CONSTANT Saver

ASSUME SaverAssumption == Writers = {Saver}

(* How the file's state shows as a register's. *)
Saving == IF step[Saver] = "idle" THEN "no"
          ELSE IF step[Saver] = "return" THEN "took" ELSE "open"

Register == INSTANCE AtomicRegister WITH
    Contents <- Payloads, value <- Holds(dest), saving <- Saving,
    asked <- payload[Saver], result <- outcome[Saver]

(* write_bytes_atomically (fs_atomic.rs:5) implements the register: whatever
   fails and wherever it crashes, readers find the old contents or the new,
   and the result says which. *)
ImplementsRegister == Register!Spec

(* Temporary files are left behind only by a crash or a failed removal
   (fs_atomic.rs:22), one by each: the 64 names of reserve_temp_path last for
   64 of them. *)
Leftovers == {n \in Names : temps[n] \in Closed}

LeftoversAreSpoils ==
    Cardinality(Leftovers) <= spoils + (IF step[Saver] = "clean" THEN 1 ELSE 0)

(* The type invariant of the file and of its saver. *)
FileTypeOK ==
    /\ dest \in Closed \cup Writers \cup {Missing}
    /\ temps \in [Names -> Closed \cup Writers \cup {None}]
    /\ step \in [Writers -> Steps]
    /\ payload \in [Writers -> Payloads \cup {Missing}]
    /\ name \in [Writers -> Names]
    /\ written \in [Writers -> Closed]
    /\ synced \in [Writers -> BOOLEAN]
    /\ outcome \in [Writers -> {"none", "ok", "failed"}]
    /\ spoils \in 0 .. MaxSpoils
===============================================================================
