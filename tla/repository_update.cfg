CONSTANTS
    c1 = c1
    c2 = c2
    Clients = {c1, c2}
    a1 = a1
    Aggregates = {a1}
    NoAggregate = NoAggregate
    InitialVersion <- CodeInitialVersion
    ReadPageSize = 2
    WritePageSize = 3
    MaxInt = 50
    MaxLong = 60
    Targets <- AskedVersions
    MaxEvents = 5
SPECIFICATION Spec
SYMMETRY ClientSymmetry
INVARIANTS
    UpToDateSaveAccepted
