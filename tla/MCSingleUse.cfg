SPECIFICATION FairSpec
CONSTANTS
    r1 = r1
    r2 = r2
    r3 = r3
    c1 = c1
    c2 = c2
    w1 = w1
    w2 = w2
    Requests <- MCRequests
    NoRequest = NoRequest
    Codes <- MCCodes
    NoCode = NoCode
    Wallets <- MCWallets
    Targets <- MCTargets
    PoolSize = 2
INVARIANTS
    TypeOK
    WalletsMatchRedemptions
    CreditedOnce
    RefusedOnlyWhenRedeemed
    AnswersMatchRedemptions
    OneWinnerPerCode
PROPERTIES
    EveryRedemptionAnswered
    EachCodeIsALedger
CHECK_DEADLOCK FALSE
