\* One saver with crashes; two packs, the main thread and a pipeline; settings
\* files of two versions; three interviews over three days.  Five utterances in the
\* window.  Budgets of 9 and 12 seconds, pauses of 0.5 seconds and up.  A capture of two
\* ticks at most, of a device two ticks behind.  Two answers in three sessions.
CONSTANTS
    Writers = {saver}
    Saver = saver
    Payloads = {old, new}
    MaxTemps = 3
    MaxSpoils = 3
    Missing = Missing
    Torn = Torn
    None = None
    PackIds = {p1, p2}
    MainThreads = {main}
    Pipelines = {pipeline}
    MaxFaults = 2
    MaxSeconds = 1
    Page = page
    Loaders = {loader}
    Versions = {8, 9}
    MaxDamage = 1
    MaxSessions = 3
    MaxQuestions = 2
    MaxDays = 3
    Retentions = {0, 1}
    MaxDamages = 1
    Texts <- MCTexts
    WordsOf <- MCWordsOf
    CharsOf <- MCCharsOf
    MaxEntries = 3
    MaxChars = 15
    MaxSpoken = 5
    Budget <- MCBudget
    Timeout = 40
    BasePause = 1
    MaxPause = 3
    Durations = {1, 8}
    LettersPerWord = 7
    Heards <- MCHeards
    Profiles <- MCProfiles
    Replies <- MCReplies
    Interviews <- MCInterviews
    StartTimeout = 1
    MaxCapture = 2
    StopDrain = 2
    Latency = 2
    MaxLag = 1
    Horizon = 10
    Answers = {1, 2}
    Restarts = 2
    Bodies <- MCBodies
    MaxQueue = 1
SPECIFICATION MCSpec
CHECK_DEADLOCK FALSE
INVARIANTS
    LeftoversAreSpoils
    OneActivePack
    
    SavedIsLoaded
    UpgradeKeepsChoices
    ReportedOnce
    TypeOK
    WindowIsLongestSuffix
    ActiveImpliesRetry
    RequestsKeepBudget
    TelemetryIsTrue
    CardIsSound
    FailsOnlyIrreparable
    TailIsKept
    RecorderIsBounded
    StreamShownAsSent
PROPERTIES
    ImplementsRegister
    SaveKeepsRoute
    QuestionsReported
