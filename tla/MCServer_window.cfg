SPECIFICATION Spec
CONSTANTS
    Capacity = 2
    DLQCapacity = 1
    MayEvict = TRUE
    Consumers = {s1}
    Producers = {p1}
    Requests = {5}
    DefaultCredit = 1
    CreditCeiling = 2
    MaxMsgs = 3
    MaxBatch = 2
    MaxExpired = 1
    MaxReplays = 0
    MaxStrays = 1
    MayDrain = FALSE
    MayForce = FALSE
CHECK_DEADLOCK FALSE
INVARIANTS
    CreditConserved
    WindowBound
    CountersAccount
