SPECIFICATION FairSpec
CONSTANTS
    Runtimes = {r1, r2}
    NoRuntime = NoRuntime
    MinPort = 1
    MaxPort = 2
    NInodes = 4
    MaxAttempts = 2
    MaxFaults = 1
INVARIANTS
    TypeOK
    ExclusiveUntilRelease
    NoLeakedLock
PROPERTIES
    ConflictIsExplained
    SearchEnds
