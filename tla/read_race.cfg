SPECIFICATION SteadyReadSpec
CONSTANTS
    Id = {i1, i2}
    Source = {1}
    Nightly = {}
    MaxTime = 4
    HourLen = 2
    Retention = 1
    BatchSize = 2
    MaxFaults = 0
    Sinces <- ColdSinces
    Untils <- AnyUntil
    Limits = {2}
    Filters = {0}
    ColdCap = 2
INVARIANTS
    StoredNotSkipped
