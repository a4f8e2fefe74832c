\* A loop of failing calls is cut out, the user goes on, and the session restarts.
SPECIFICATION Spec
CONSTANTS
    KeepFirst = 2
    MaxSize = 8
    Pipelines <- WindowFirst
    Says = {}
    Results = {"error"}
    Options = {1, 2}
    Headless = FALSE
    MaxMessages = 2
    MaxAsks = 4
    MaxTooLong = 0
    MaxRecoveries = 1
    MaxOvertaken = 0
    MaxCrashes = 1
CHECK_DEADLOCK FALSE
PROPERTIES
    RestartKeepsMessages
