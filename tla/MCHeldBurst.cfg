SPECIFICATION FairHeldSpec
CONSTANTS
    Concurrency = 3
    NoRequest = NoRequest
    Scenarios <- MCScenarios
    UnitsAvailable = 2
    PoolSize = 3
    MaxFailures = 1
    MaxGhosts = 1
    OldWidths = {2}
INVARIANTS
    HeldTypeOK
    DamageIsDetermined
PROPERTIES
    RoundEnds
CHECK_DEADLOCK FALSE
