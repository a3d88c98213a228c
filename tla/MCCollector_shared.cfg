SPECIFICATION Spec
CONSTANTS
    Capacity = 2
    DLQCapacity = 1
    MayEvict = FALSE
    Consumers = {s1, s2, s3}
    Collectors = {k1, k2}
    Readings = {good, bad}
    Unparseable = {bad}
    Poison = {}
    BatchSize = 2
    Credit = 3
    MaxMsgs = 2
    MaxFaults = 1
    MaxExpired = 1
CHECK_DEADLOCK FALSE
SYMMETRY Symmetry
INVARIANTS
    TypeOK
    AckedIsDurable
    RowOnce
