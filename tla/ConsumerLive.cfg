SPECIFICATION FairSpec
CONSTANTS
    p1 = p1
    p2 = p2
    w1 = w1
    w2 = w2
    NoMsg = NoMsg
    Partitions = {p1}
    Workers = {w1}
    Log <- PairLog
    JobBuffer = 1
    MaxRetries = 1
    CanPanic = FALSE
    MaxOutages = 1
    MaxRebalances = 1
    MaxRestarts = 0
PROPERTIES
    ShutdownTerminates
    EveryMessageReached
    ResumesAfterOutage
    OutageNoticed
