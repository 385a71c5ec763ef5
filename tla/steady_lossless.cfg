SPECIFICATION SteadySpec
CONSTANTS
    Id = {i1, i2}
    Source = {web}
    Nightly = {}
    MaxTime = 5
    HourLen = 2
    Retention = 1
    BatchSize = 2
    MaxFaults = 0
INVARIANTS
    NothingLost
