SPECIFICATION Spec
CONSTANTS
    Capacity = 1
    DLQCapacity = 1
    MayEvict = FALSE
    Consumers = {s1, s2}
    Producers = {p1}
    Requests = {0}
    DefaultCredit = 1
    CreditCeiling = 2
    MaxMsgs = 2
    MaxBatch = 2
    MaxExpired = 1
    MaxReplays = 1
    MaxStrays = 0
    MayDrain = FALSE
    MayForce = FALSE
CHECK_DEADLOCK FALSE
SYMMETRY StreamSymmetry
INVARIANTS
    TypeOK
    CreditConserved
    NoMissedWakeup
    LeasesHaveHandlers
    ConfirmedNotReleased
