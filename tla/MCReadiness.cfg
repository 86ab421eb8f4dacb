SPECIFICATION FairReadinessSpec
CONSTANTS
    c1 = c1
    c2 = c2
    None = None
    Databases <- MCDatabases
    Checks <- MCChecks
    MaxEpoch = 3
INVARIANTS
    ReadinessTypeOK
PROPERTIES
    NoRelapse
    GaugeSettles
