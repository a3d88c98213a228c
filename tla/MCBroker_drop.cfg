SPECIFICATION Spec
CONSTANTS
    Policy = "drop-oldest"
    Capacity = 2
    DLQCapacity = 1
    MaxDeliveries = 2
    LeaseTTL = 1
    RetryBackoffBase = 1
    RetryBackoffMax = 2
    MaxMsgs = 3
    MaxRejects = 1
    MaxDeadLetters = 2
    MaxTime = 3
    Consumers = {c1, c2}
    Producers = {p1}
SYMMETRY ConsumerSymmetry
INVARIANTS
    TypeOK
    Budget
    Custody
    DeliveryCounts
    LossAccounted
    LoopsSeeLeases
PROPERTIES
    ImplementsStore
