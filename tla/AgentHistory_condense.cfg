SPECIFICATION Spec
CONSTANTS
    KeepFirst = 2
    MaxSize = 8
    Pipelines <- WithAndWithoutWindow
    Says = {"say", "ask"}
    Results = {"error"}
    Options = {1, 2, 3}
    Headless = FALSE
    MaxMessages = 2
    MaxAsks = 3
    MaxTooLong = 1
    MaxRecoveries = 1
    MaxOvertaken = 1
    MaxCrashes = 1
CHECK_DEADLOCK FALSE
INVARIANTS
    SummaryIsComplete
    TaskIsKept
PROPERTIES
    ViewIsCurrentUnlessCut
    CondensationShrinks
    OnlyShortViewsFail
