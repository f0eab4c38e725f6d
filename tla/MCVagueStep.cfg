\* A vague next step when the talk is of a blocker or a document.
CONSTANTS
    Budget <- MCBudget
    Timeout = 40
    BasePause = 1
    MaxPause = 3
    Durations = {1, 8}
    LettersPerWord = 7
    Heards <- MCHeards
    Profiles <- MCProfiles
    Replies <- MCReplies
    Interviews <- MCInterviews
SPECIFICATION AnalysisSpec
CHECK_DEADLOCK FALSE
INVARIANTS
    VagueStepRepaired
