SPECIFICATION ReadSpec
CONSTANTS
    Id = {i1, i2}
    Source = {1}
    Nightly = {}
    MaxTime = 3
    HourLen = 1
    Retention = 1
    BatchSize = 2
    MaxFaults = 1
    Sinces <- MCSinces
    Untils <- MCUntils
    Limits = {2}
    Filters = {0}
    ColdCap = 2
SYMMETRY Symmetry
INVARIANTS
    ReadTypeOK
    HotNotSkipped
    DuplicateIsBoundary
