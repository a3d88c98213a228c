\* As MCGateway_reads: a late row falls into a page the walk has left.
SPECIFICATION Spec
CONSTANTS
    Metrics <- TwoMetrics
    Retention = 1
    Ahead = 2
    Migrated = 1
    Skew = 1
    FirstDay = 1
    LastDay = 3
    MaxStored = 3
    Windows <- UpToFirstDay
    Asked = {1, 9}
    MaxRows = 2
INVARIANT
    EarlierPagesStable
