\* The backend under a free client: one command in flight at a time, with
\* interview sessions, and liveness.
CONSTANTS
    MaxRuns = 2
    MaxJobs = 1
    RetryIds <- MCRetryIds
    Outside = {"clock", "tray", "interviews"}
    Texts <- MCTexts
    WordsOf <- MCWordsOf
    CharsOf <- MCCharsOf
    MaxEntries = 2
    MaxChars = 2
    Kinds = {"stop", "retry", "answer"}
    Owners = {0}
    Prompt = TRUE
SPECIFICATION ClientSpec
CHECK_DEADLOCK FALSE
INVARIANTS
    CommittedOnce
PROPERTIES
    EveryCallReturns
    
