-------------------------- MODULE MCCaptureClient --------------------------
(* Two short utterances that fit the context together. *)
EXTENDS CaptureClient

MCTexts == RunIds
MCWordsOf == [t \in RunIds |-> 2]
MCCharsOf == [t \in RunIds |-> 1]
MCRetryIds == {MaxRuns + 1}

=============================================================================
