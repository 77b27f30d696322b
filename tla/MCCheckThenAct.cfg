SPECIFICATION FairSpec
CONSTANTS
    Concurrency = 3
    NoRequest = NoRequest
    Scenarios <- MCScenarios
    UnitsAvailable = 2
    PoolSize = 2
    MaxFailures = 1
INVARIANTS
    TypeOK
    CounterMatchesRows
    BackstopHolds
    OverrunBounded
    ExactWhenSequential
    AnswersMatchRows
    OverrunIsVisible
    InstrumentationConnectionFree
PROPERTIES
    BurstCompletes
CHECK_DEADLOCK FALSE
