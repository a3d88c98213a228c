SPECIFICATION FairSpec
CONSTANTS
    Capacity = 1
    DLQCapacity = 1
    MayEvict = FALSE
    Consumers = {s1}
    Collectors = {k1}
    Readings = {good}
    Unparseable = {}
    Poison = {}
    BatchSize = 1
    Credit = 1
    MaxMsgs = 1
    MaxFaults = 0
    MaxExpired = 1
CHECK_DEADLOCK FALSE
PROPERTIES
    StreamKeepsFlowing
