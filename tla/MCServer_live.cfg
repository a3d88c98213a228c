SPECIFICATION FairSpec
CONSTANTS
    Capacity = 1
    DLQCapacity = 1
    MayEvict = FALSE
    Consumers = {s1}
    Producers = {p1, p2}
    Requests = {0}
    DefaultCredit = 1
    CreditCeiling = 2
    MaxMsgs = 2
    MaxBatch = 2
    MaxExpired = 1
    MaxReplays = 1
    MaxStrays = 0
    MayDrain = TRUE
    MayForce = TRUE
CHECK_DEADLOCK FALSE
PROPERTIES
    WorkIsTaken
    StopCompletes
