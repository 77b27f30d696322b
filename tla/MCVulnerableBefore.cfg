SPECIFICATION FairSpec
CONSTANTS
    UnitsAvailable <- MCUnits
    BadCredentials <- MCBadCredentials
    NoRequest = NoRequest
    MaxRuns = 1
    MaxFaults = 0
PROPERTY
    SecureSchemaIsUntouched
CHECK_DEADLOCK FALSE
