\* The shortcut is registered anew while it is in use.
CONSTANTS
    MaxRuns = 1
    MaxJobs = 2
    RetryIds <- MCRetryIds
    Outside = {}
    Texts <- MCTexts
    WordsOf <- MCWordsOf
    CharsOf <- MCCharsOf
    MaxEntries = 2
    MaxChars = 2
    Kinds = {"stop", "retry", "answer"}
    Owners = {1, 2}
    Prompt = FALSE
    MaxRetries = 0
    MaxRegs = 2
    SetupMissing = TRUE
    SavesSettings = TRUE
    Bilingual = FALSE
    Ordered = FALSE
SPECIFICATION Spec
CHECK_DEADLOCK FALSE
PROPERTIES
    ImplementsClient
