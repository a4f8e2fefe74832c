SPECIFICATION FairSpec
CONSTANTS
    MaxCalls = 2
    MaxMsgs = 1
    MaxStops = 1
    MaxFails = 1
    Retries = 2
    Limit = 2
CHECK_DEADLOCK FALSE
INVARIANT TypeOK
PROPERTIES
    ExecutedAsApproved
    RunsEnd
