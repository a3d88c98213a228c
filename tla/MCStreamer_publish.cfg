\* One streamer publishes four rows, one of them bad, in a full and a partial
\* batch, to a store with room for one message, which it evicts unless it is leased
\* or retried, and one consumer; one dead letter may be replayed; the process is
\* restarted once, by a drain or a crash; one call breaks or one cancellation.
SPECIFICATION FairSpec
CONSTANTS
    Capacity = 1
    DLQCapacity = 1
    Consumers = {c1}
    StallTicks = 2
    Policies = {"drop-oldest"}
    MaxRuns = 2
    MaxReplays = 1
    Streamers = {s1}
    Rows = 4
    Bad <- SecondRow
    BatchSize = 2
    MaxPasses = 1
    MaxFaults = 1
INVARIANTS
    TypeOK
    NothingSkipped
    CopiesBounded
    CompleteDrainIsClean
    StallNeedsSilence
PROPERTY
    EveryRowPublished
