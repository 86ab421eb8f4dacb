SPECIFICATION FairSpec
CONSTANTS
    r1 = r1
    r2 = r2
    r3 = r3
    Requests = {r1, r2, r3}
    Hydrated = {r1, r2}
    Check = Check
    PoolMax = 2
    HasMetrics = TRUE
INVARIANTS
    TypeOK
    NoHoldAndWait
    DrainProtectsWork
    EndsHonestly
PROPERTIES
    ShutdownEnds
CHECK_DEADLOCK FALSE
