SPECIFICATION FairSpec
CONSTANTS
    Producers = {p1}
    Readers = {r1}
    NoThread = NoThread
    NSubs = 2
    CacheSize = 2
    MaxEvents = 2
    MaxFailures = 0
    MaxCrashes = 0
CHECK_DEADLOCK FALSE
PROPERTIES
    SilentAfterClose
    EventuallyHandled
    CloseReturns
