SPECIFICATION SteadySpec
CONSTANTS
    Id = {i1, i2, i3}
    Source = {web, api}
    Nightly = {api}
    MaxTime = 6
    HourLen = 2
    Retention = 1
    BatchSize = 1
    MaxFaults = 2
SYMMETRY Symmetry
INVARIANTS
    HotIsSuffix
    NothingMissed
    LostToLaterPart
    OverlapIsBoundary
PROPERTIES
    DurableSpec
    RetryKeepsCopies
