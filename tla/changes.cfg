CONSTANTS
    r1 = r1
    r2 = r2
    o1 = o1
    Requests = {r1, r2}
    Orders = {o1}
    Slots <- AllSlots
    Items = {"b1", "f1", "f2", "m1"}
    Nothing = "nothing"
    Provider = "provider"
    ClassOf <- ClassOfItem
    Bars <- BarsOfItem
    MaxEdits = 2
    InitialVersion <- InitialVersionOfZero
SPECIFICATION Spec
SYMMETRY RequestSymmetry
CHECK_DEADLOCK FALSE
INVARIANTS
    TypeOK
    BarredStayOut
    AddedWasOnOffer
PROPERTIES
    RefusedForCause
