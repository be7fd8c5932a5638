CONSTANTS
    o1 = o1
    o2 = o2
    i1 = i1
    i2 = i2
    d1 = d1
    Orders = {o1, o2}
    Slots <- FillingOnly
    Items = {i1, i2}
    Nothing = Nothing
    Daemons = {d1}
    BufferSize = 2
    Unknown = {i2}
    Late <- StartedEarly
    Faults <- EventStoreRestarts
    MaxFaults = 2
    MaxLog = 3
    Absent = Absent
    NoWork = NoWork
SPECIFICATION FairSpec
CHECK_DEADLOCK FALSE
PROPERTIES
    ReadersSeeHistory
    Converges
