SPECIFICATION Spec
CONSTANTS
    UnitsAvailable = 2
    ThrottleSteps <- MCThrottleSteps
    Configs <- MCEqualConfigs
    Rounds = 1
    PoolSize = 4
    MaxRuns = 1
    MaxStragglers = 0
    MaxLate = 0
INVARIANTS
    CoverageIsNotDenied
CHECK_DEADLOCK FALSE
