\* Two metrics a day, up to three rows at a time, pages of one row or two.
SPECIFICATION Spec
CONSTANTS
    Metrics <- TwoMetrics
    Retention = 1
    Ahead = 2
    Migrated = 1
    Skew = 1
    FirstDay = 1
    LastDay = 3
    MaxStored = 3
    Windows <- UpToFirstDay
    Asked = {1, 9}
    MaxRows = 2
INVARIANTS
    TypeOK
    OldRowsOnlyInDefault
    PunctualNeverWedges
    CursorNeverRepeats
    WalkComplete
    TotalExplainsHasNext
PROPERTY
    InWindowSurvive
