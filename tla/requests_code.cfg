CONSTANTS
    r1 = r1
    r2 = r2
    r3 = r3
    u1 = u1
    Requests = {r1, r2, r3}
    Recipients = {u1}
    Dates <- TwoDays
    NoOrder = NoOrder
    InitialVersion <- CodeInitialVersion
SPECIFICATION Spec
SYMMETRY RequestSymmetry
CHECK_DEADLOCK FALSE
INVARIANTS
    TypeOK
    ToldOrderIsStored
    DuplicatesOverlap
    OrdersStayAsPlaced
PROPERTIES
    OrdersAreWrittenOnce
