SPECIFICATION Spec
CONSTANTS
    None = None
    Upper <- MCUpper
    Rounded <- MCRounded
    Environs <- MCEnvirons
    Client = {c1}
    Batches <- MCBatches
    Bearers <- MCBearers
    Params <- MCParams
    Times <- MCTimes
    HourLen <- MCHourLen
    MaxAttempts = 2
    MaxSeedings = 2
INVARIANTS
    Attributed
    NoSilentAuthOff
    AnswerIsTrue
    SeedsFirstAndOnce
    TiersAgree
    StoresAgree
    ListingCovers
    NoDeadSuggestions
PROPERTIES
    NothingDiscarded
