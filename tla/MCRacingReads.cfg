SPECIFICATION Spec
CONSTANTS
    Concurrency = 3
    NoRequest = NoRequest
    Scenarios <- MCLockedScenarios
    UnitsAvailable = 2
    PoolSize = 2
    MaxFailures = 0
INVARIANTS
    EachRacingGroupIsTheDefect
CHECK_DEADLOCK FALSE
