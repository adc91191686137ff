SPECIFICATION Spec
CONSTANTS
    p1 = p1
    p2 = p2
    w1 = w1
    w2 = w2
    NoMsg = NoMsg
    Partitions = {p1}
    Workers = {w1, w2}
    Log <- OvertakingLog
    JobBuffer = 2
    MaxRetries = 2
    CanPanic = FALSE
    MaxOutages = 1
    MaxRebalances = 1
    MaxRestarts = 1
SYMMETRY WorkerSymmetry
INVARIANTS
    DeliveryInv
    NoSilentLoss
    NoSelfConflict
PROPERTIES
    ImplementsConsumerRun
    ImplementsDelivery
