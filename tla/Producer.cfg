SPECIFICATION FairSpec
CONSTANTS
    Direct = 2
    InFile = 2
INVARIANTS
    TypeOK
    CounterExact
    MainLeavesNothing
PROPERTIES
    ProducerEnds
