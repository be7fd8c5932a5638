CONSTANTS
    r1 = r1
    r2 = r2
    r3 = r3
    Requests = {r1, r2, r3}
    Items = {"b1", "o1", "p1", "f1", "g1", "c1"}
    ClassOf <- ClassOfItem
    UtcShifts <- UtcOrEast
    Dates <- TwoDates
    NamedDays <- MondayAndSaturday
    Meals = {"Sandwich"}
    NoMeal = NoMeal
    InitialVersion <- CodeInitialVersion
SPECIFICATION Spec
SYMMETRY RequestSymmetry
CHECK_DEADLOCK FALSE
INVARIANTS
    TypeOK
    OneCreator
    MenuStaysAsCreated
    DatesOfFillingsAsNamed
PROPERTIES
    MenuIsWrittenOnce
