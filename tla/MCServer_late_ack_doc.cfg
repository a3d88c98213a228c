SPECIFICATION Spec
CONSTANTS
    Capacity = 1
    DLQCapacity = 1
    MayEvict = FALSE
    Consumers = {s1}
    Producers = {p1}
    Requests = {2}
    DefaultCredit = 1
    CreditCeiling = 2
    MaxMsgs = 1
    MaxBatch = 2
    MaxExpired = 1
    MaxReplays = 0
    MaxStrays = 0
    MayDrain = FALSE
    MayForce = FALSE
CHECK_DEADLOCK FALSE
PROPERTIES
    LateAckIsNoOp
