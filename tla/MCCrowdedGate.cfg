SPECIFICATION Spec
CONSTANTS
    UnitsAvailable = 2
    ThrottleSteps <- MCThrottleSteps
    Configs <- MCCrowdedConfigs
    Rounds = 1
    PoolSize = 3
    MaxRuns = 1
    MaxStragglers = 0
    MaxLate = 0
INVARIANTS
    ValveIsNeverNormal
CHECK_DEADLOCK FALSE
