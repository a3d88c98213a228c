SPECIFICATION FairSpec
CONSTANTS
    Capacity = 3
    DLQCapacity = 1
    MayEvict = FALSE
    Consumers = {s1, s2}
    Collectors = {k1}
    Readings = {good, worse}
    Unparseable = {}
    Poison = {worse}
    BatchSize = 3
    Credit = 3
    MaxMsgs = 3
    MaxFaults = 1
    MaxExpired = 0
CHECK_DEADLOCK FALSE
INVARIANTS
    AckedIsDurable
    OnlyPoisonDeadLettered
    BisectCoversBatch
PROPERTIES
    EveryMessageSettles
