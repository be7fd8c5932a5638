CONSTANTS
    o1 = o1
    i1 = i1
    d1 = d1
    d2 = d2
    Orders = {o1}
    Slots <- FillingOnly
    Items = {i1}
    Nothing = Nothing
    Daemons = {d1, d2}
    BufferSize = 1
    Unknown = {i1}
    Late <- StartedEarly
    Faults <- EverythingFails
    MaxFaults = 2
    MaxLog = 3
    Absent = Absent
    NoWork = NoWork
SPECIFICATION Spec
SYMMETRY DaemonSymmetry
CHECK_DEADLOCK FALSE
INVARIANTS
    TypeOK
    AckedOrderIsVisible
PROPERTIES
    CreatedByOrderAdded
