SPECIFICATION FairSpec
CONSTANTS
    Policy = "block"
    Capacity = 1
    DLQCapacity = 1
    MaxDeliveries = 2
    LeaseTTL = 1
    RetryBackoffBase = 1
    RetryBackoffMax = 1
    MaxMsgs = 3
    MaxRejects = 2
    MaxDeadLetters = 2
    MaxTime = 2
    Consumers = {c1, c2}
    Producers = {p1, p2}
INVARIANTS
    NoSleepWithRoom
PROPERTIES
    ExpiredLeaseReclaimed
    EnqueueReturns
