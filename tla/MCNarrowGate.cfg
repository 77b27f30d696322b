SPECIFICATION NarrowSpec
CONSTANTS
    Concurrency = 3
    NoRequest = NoRequest
    Scenarios <- MCNarrowScenarios
    UnitsAvailable = 2
    PoolSize = 3
    MaxFailures = 0
    MaxGhosts = 0
    OldWidths = {}
INVARIANTS
    GateWidthBoundsTheDamage
CHECK_DEADLOCK FALSE
