SPECIFICATION FairSpec
CONSTANTS
    Id = {i1, i2}
    Source = {web, api}
    MaxTime = 5
    HourLen = 2
    Retention = 1
    BatchSize = 1
    MaxFaults = 2
INVARIANTS
    TypeOK
    RetentionPromise
    UnreadExplained
    ColdWellPlaced
PROPERTIES
    DrainOnlyArchived
    OldEventsLeaveHot
    OldEventsReachCold
