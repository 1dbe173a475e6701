SPECIFICATION FairSpec
CONSTANTS
    old = old
    new = new
    c1 = c1
    c2 = c2
    Nobody = Nobody
    Instances = {old, new}
    Calls = {c1, c2}
    Http2 = {c2}
    MaxAttempts = 3
    PoolSize = 1
    BalanceUses = 1
    Listed = {1}
CONSTANT Target <- MCTarget
CONSTANT Procedures <- MCProcedures
INVARIANTS
    TypeOK
    AppliedOnce
    ServesOnTarget
    WritesOnce
    RefusedStoredNothing
PROPERTIES
    StopAnswers
    Decides
    StopEnds
    CallsEnd
