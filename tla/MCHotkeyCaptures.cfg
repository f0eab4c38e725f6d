\* Two captures and a retry, at any time.
CONSTANTS
    MaxRuns = 2
    MaxJobs = 2
    RetryIds <- MCRetryIds
    Outside = {"tray"}
    Texts <- MCTexts
    WordsOf <- MCWordsOf
    CharsOf <- MCCharsOf
    MaxEntries = 2
    MaxChars = 2
    Kinds = {"stop", "retry", "answer"}
    Owners = {1}
    Prompt = FALSE
    MaxRetries = 1
    MaxRegs = 1
    SetupMissing = TRUE
    SavesSettings = FALSE
    Bilingual = FALSE
    Ordered = TRUE
SPECIFICATION Spec
CHECK_DEADLOCK FALSE
INVARIANTS
    TypeOK
    ArmedMeansHeld
    
    MemoryInCaptureOrder
PROPERTIES
    CancelKeepsQuiet
