SPECIFICATION Spec
CONSTANTS
    p1 = p1
    p2 = p2
    w1 = w1
    w2 = w2
    NoMsg = NoMsg
    Partitions = {p1, p2}
    Workers = {w1}
    Log <- TwoPartitionLog
    JobBuffer = 1
    MaxRetries = 1
    CanPanic = TRUE
    MaxOutages = 0
    MaxRebalances = 2
    MaxRestarts = 0
SYMMETRY WorkerSymmetry
INVARIANTS
    TypeOK
    PauseFlagsAgree
    CommitOnlyAfterHandling
