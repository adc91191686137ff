SPECIFICATION Spec
CONSTANTS
    r1 = r1
    r2 = r2
    NoOrder = NoOrder
    Orders <- MCOrders
    EntryCountCap = 2
    EntrySizeCap = 139
    Requests = {r1, r2}
    PreloadSize = 2
SYMMETRY RequestSymmetry
INVARIANTS
    TypeOK
    CacheConsistent
    CacheCoherent
    EntrySizeBounded
    AnswersMatchStore
    RecencyKept
    PreloadKeepsLatest
    SizeOfCovers
PROPERTIES
    ImplementsOrderReads
