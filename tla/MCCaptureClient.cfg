\* The backend under a free client: 2 recordings, 2 commands in flight.
CONSTANTS
    MaxRuns = 2
    MaxJobs = 2
    RetryIds <- MCRetryIds
    Outside = {"clock", "tray"}
    Texts <- MCTexts
    WordsOf <- MCWordsOf
    CharsOf <- MCCharsOf
    MaxEntries = 2
    MaxChars = 2
    Kinds = {"stop", "retry"}
    Owners = {0}
    Prompt = TRUE
SPECIFICATION ClientSpec
CHECK_DEADLOCK FALSE
INVARIANTS
    BackendTypeOK
    RecordingHasOwner
    RunTakenOnce
