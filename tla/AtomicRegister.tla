---------------------------- MODULE AtomicRegister ----------------------------
(***************************************************************************)
(* What a caller of write_bytes_atomically may rely on: the file is a      *)
(* register that a save replaces in one step or leaves alone.  A save that *)
(* reports success has replaced it, one that reports a failure has not,    *)
(* and a crash in the middle leaves the old contents or the new.           *)
(***************************************************************************)
CONSTANTS Contents, Missing

VARIABLES value,  \* what a reader of the file finds
          saving, \* "no", "open" (not replaced yet), "took" (replaced)
          asked,  \* the contents the save in progress is to put
          result  \* how the last save ended: "none" when it has not

vars == <<value, saving, asked, result>>

Init == /\ value \in Contents \cup {Missing}
        /\ saving = "no"
        /\ asked = Missing
        /\ result = "none"

(* A caller starts a save. *)
Ask(c) == /\ saving = "no"
          /\ saving' = "open"
          /\ asked' = c
          /\ result' = "none"
          /\ UNCHANGED value

(* The save takes effect. *)
Take == /\ saving = "open"
        /\ saving' = "took"
        /\ value' = asked
        /\ UNCHANGED <<asked, result>>

(* The save returns, with success exactly when it took effect. *)
Return == /\ saving # "no"
          /\ result' = IF saving = "took" THEN "ok" ELSE "failed"
          /\ saving' = "no"
          /\ asked' = Missing
          /\ UNCHANGED value

(* The process ends in the middle of the save: nobody learns how it went. *)
Crash == /\ saving # "no"
         /\ saving' = "no"
         /\ asked' = Missing
         /\ result' = "none"
         /\ UNCHANGED value

Next == (\E c \in Contents : Ask(c)) \/ Take \/ Return \/ Crash

Spec == Init /\ [][Next]_vars
===============================================================================
