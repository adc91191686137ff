SPECIFICATION FairSpec
CONSTANTS
    c1 = c1
    c2 = c2
    c3 = c3
    NoOrder = NoOrder
    Orders <- MCOrders
    Callers = {c1, c2, c3}
    MaxOpen = 2
INVARIANTS
    StoreInv
    AllOrNothing
    NoCircularWait
PROPERTIES
    ImplementsOrderStore
    CommitsAddRows
    InsertReturns
