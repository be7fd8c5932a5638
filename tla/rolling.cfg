CONSTANTS
    l1 = l1
    l2 = l2
    Loggers = {l1, l2}
    MaxFileSize = 2
    Keep = 2
    Lengths = {1}
    BytesPerChar = 2
    Preamble = 1
    LastDay = 2
    MaxLines = 5
    MaxStuck = 1
    NoFile = NoFile
SPECIFICATION Spec
CHECK_DEADLOCK FALSE
SYMMETRY LoggerSymmetry
INVARIANTS
    TypeOK
    HoldsTheLatest
    NamesFollowLines
    ArchiveBounded
    FileSizeBounded
PROPERTIES
    RollsWhenFull
