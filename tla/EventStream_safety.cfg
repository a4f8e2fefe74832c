SPECIFICATION Spec
CONSTANTS
    Producers = {p1, p2, p3}
    Readers = {}
    NoThread = NoThread
    NSubs = 1
    CacheSize = 2
    MaxEvents = 3
    MaxFailures = 1
    MaxCrashes = 1
CHECK_DEADLOCK FALSE
SYMMETRY ProducerSymmetry
INVARIANTS
    TypeOK
    UniqueIds
    QueuedIsReadable
    NoGapAtRest
    HandledInQueueOrder
PROPERTIES
    FilesImmutable
    ImplementsEventLog
