-------------------------- MODULE CancelledResult --------------------------
(***************************************************************************)
(* HotkeyController with the history of what the user cancelled, to hold   *)
(* it against the promise of cancelPipeline (pipelineActions.ts 142-147).  *)
(***************************************************************************)
EXTENDS HotkeyController

VARIABLE cancelled  \* history: the runs active when the user cancelled

historyVars == <<vars, cancelled>>

HistoryInit == Init /\ cancelled = {}

HistoryNext ==
    /\ Next
    /\ cancelled' = IF activeRun' = CancelId /\ activeRun \in RunIds \cup RetryIds
                    THEN cancelled \cup {activeRun} ELSE cancelled

HistorySpec == HistoryInit /\ [][HistoryNext]_historyVars

\* "The backend request continues to completion, but its result is discarded
\* (runId mismatch)": the card of a cancelled run is never shown.
CancelledResultDiscarded ==
    [][ \A j \in Slots :
          jobs[j].pc = "ok" /\ jobs'[j].pc = "askOk"
              => jobs[j].run \notin cancelled ]_historyVars

=============================================================================
