\* Two captures, the bilingual mode changing between press and release, and
\* results that overtake events.
CONSTANTS
    MaxRuns = 2
    MaxJobs = 2
    RetryIds <- MCRetryIds
    Outside = {}
    Texts <- MCTexts
    WordsOf <- MCWordsOf
    CharsOf <- MCCharsOf
    MaxEntries = 2
    MaxChars = 2
    Kinds = {"stop", "retry", "answer"}
    Owners = {1}
    Prompt = FALSE
    MaxRetries = 0
    MaxRegs = 1
    SetupMissing = TRUE
    SavesSettings = FALSE
    Bilingual = TRUE
    Ordered = FALSE
SPECIFICATION FairSpec
CHECK_DEADLOCK FALSE
PROPERTIES
    HotkeyReturns
    AnswerDelivered
