------------------------ MODULE MCHotkeyController ------------------------
(* Short utterances that fit the context together. *)
EXTENDS HotkeyController

MCTexts == RunIds
MCWordsOf == [t \in RunIds |-> 2]
MCCharsOf == [t \in RunIds |-> 1]
MCRetryIds == (MaxRuns + 1)..(MaxRuns + MaxRetries)

=============================================================================
