SPECIFICATION FairSpec
CONSTANTS
    None = None
    Upper <- MCUpper
    Rounded <- MCRounded
    Req = {r1, r2}
    Row <- MCRow
    Rank <- MCRank
    FieldLimit <- MCFieldLimit
    TTL = 1
    TicksPerSec = 2
    Latency = 1
PROPERTIES
    SuggestionsLag
    CacheConverges
