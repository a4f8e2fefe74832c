SPECIFICATION FairSpec
CONSTANTS
    Writers = {w1, w2}
    Paths = {a, b}
    Sizes = {1}
    SizeLimit = 2
    Workers = 2
    MaxChanges = 3
    MaxFlushes = 1
CHECK_DEADLOCK FALSE
INVARIANTS
    SizeIsRight
    PendingIsScheduled
    RemoteIsCurrent
PROPERTIES
    Settles
