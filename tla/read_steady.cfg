SPECIFICATION SteadyReadSpec
CONSTANTS
    Id = {i1, i2}
    Source = {1, 2}
    Nightly = {}
    MaxTime = 4
    HourLen = 2
    Retention = 1
    BatchSize = 2
    MaxFaults = 0
    Sinces <- MCSinces
    Untils <- AnyUntil
    Limits = {1}
    Filters = {1}
    ColdCap = 2
SYMMETRY Symmetry
INVARIANTS
    ColdNotSkipped
    HotWalkComplete
