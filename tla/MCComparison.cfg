SPECIFICATION ComparisonSpec
CONSTANTS
    UnitsAvailable = 2
    ThrottleSteps <- MCThrottleSteps
    Configs <- MCConfigs
    Rounds = 1
    PoolSize = 3
    MaxRuns = 2
    MaxStragglers = 2
    MaxLate = 1
INVARIANTS
    ComparisonTypeOK
    SecureIsNeverAccused
    StoreIsAsReported
    RestoreNeverFails
    PassIsEarned
    HealthyRunPasses
    TableTellsTheStory
CHECK_DEADLOCK FALSE
