SPECIFICATION FairSpec
CONSTANTS
    Req = {r1, r2}
    TTL = 2
    Latency = 1
    Troubles = {"WrongRegion", "AccessDenied"}
PROPERTIES
    OutageBound
    OutageExplained
    OutageReported
    RecoveryReported
