SPECIFICATION FairSpec
CONSTANTS
    UnitsAvailable <- MCUnits
    BadCredentials <- MCBadCredentials
    NoRequest = NoRequest
    MaxRuns = 2
    MaxFaults = 1
INVARIANTS
    TypeOK
    ConfirmedAreItsOwn
PROPERTIES
    VerdictTellsTheBackstop
    AuditGateIsExact
    DemoEnds
CHECK_DEADLOCK FALSE
