\* Two captures and a retry: liveness.
CONSTANTS
    MaxRuns = 2
    MaxJobs = 2
    RetryIds <- MCRetryIds
    Outside = {}
    Texts <- MCTexts
    WordsOf <- MCWordsOf
    CharsOf <- MCCharsOf
    MaxEntries = 2
    MaxChars = 2
    Kinds = {"stop", "retry", "answer"}
    Owners = {1}
    Prompt = FALSE
    MaxRetries = 1
    MaxRegs = 1
    SetupMissing = FALSE
    SavesSettings = FALSE
    Bilingual = FALSE
    Ordered = TRUE
SPECIFICATION FairSpec
CHECK_DEADLOCK FALSE
PROPERTIES
    ProcessingEnds
