\* A cancelled pipeline.
CONSTANTS
    MaxRuns = 1
    MaxJobs = 2
    RetryIds <- MCRetryIds
    Outside = {}
    Texts <- MCTexts
    WordsOf <- MCWordsOf
    CharsOf <- MCCharsOf
    MaxEntries = 2
    MaxChars = 2
    Kinds = {"stop", "retry", "answer"}
    Owners = {1}
    Prompt = FALSE
    MaxRetries = 1
    MaxRegs = 1
    SetupMissing = FALSE
    SavesSettings = FALSE
    Bilingual = FALSE
    Ordered = TRUE
SPECIFICATION HistorySpec
CHECK_DEADLOCK FALSE
PROPERTIES
    CancelledResultDiscarded
