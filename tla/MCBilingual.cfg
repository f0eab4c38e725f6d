\* Three utterances in one session; two sessions and two commands at once, three
\* in all, where a session may lose one connection and go on.
CONSTANTS
    MaxFinals = 3
    MaxSegments = 2
    Window = 1
    MaxStored = 2
    MaxAnswers = 1
    MaxStream = 1
    Wall = 9
    Sessions = {1, 2}
    Commands = {c1, c2}
    MaxCalls = 3
    MaxWsRetries = 1
    ChannelSize = 1
    None = None
SPECIFICATION Spec
CHECK_DEADLOCK FALSE
INVARIANTS
    TranslatedInOrder
    
    
PROPERTIES
    CommandsReturn
    LostSessionEnds
    BatcherCatchesUp
