SPECIFICATION Spec
CONSTANTS
    MaxEvents = 7
    MaxRestarts = 1
CHECK_DEADLOCK FALSE
INVARIANTS
    HistoryIsComplete
