SPECIFICATION Spec
CONSTANTS
    r1 = r1
    Requests = {r1}
    Hydrated = {r1}
    Check = Check
    PoolMax = 2
    HasMetrics = FALSE
INVARIANTS
    SignalLetsWorkFinish
CHECK_DEADLOCK FALSE
