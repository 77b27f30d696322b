SPECIFICATION FairSpec
CONSTANTS
    r1 = r1
    r2 = r2
    r3 = r3
    appA = appA
    appB = appB
    Requests <- MCRequests
    NoRequest = NoRequest
    UnitsAvailable = 2
    Replicas <- MCReplicas
    ReplicaOf <- MCReplicaOf
    PoolSize = 1
INVARIANTS
    TypeOK
    BackstopNeverReached
    CounterMatchesOrders
    RefusedOnlyWhenSoldOut
    AnswersMatchOrders
    ExactlyAvailableSold
PROPERTIES
    EveryRequestAnswered
    ImplementsLedger
CHECK_DEADLOCK FALSE
