\* One session that may lose three connections, started and stopped.
CONSTANTS
    Sessions = {1}
    Commands = {c1}
    MaxCalls = 2
    MaxWsRetries = 3
    ChannelSize = 1
    None = None
SPECIFICATION DisplaySpec
CHECK_DEADLOCK FALSE
INVARIANTS
    ExhaustedShowsDegraded
