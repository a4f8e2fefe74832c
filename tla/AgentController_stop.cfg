SPECIFICATION Spec
CONSTANTS
    MaxCalls = 1
    MaxMsgs = 2
    MaxStops = 1
    MaxFails = 1
    Retries = 1
    Limit = 1
CHECK_DEADLOCK FALSE
INVARIANTS
    PendingIsAnswered
    NeverIdleWhileRunning
    StopHolds
