SPECIFICATION Spec
CONSTANTS
    Direct = 2
    InFile = 0
INVARIANTS
    SignalReachesFlush
