SPECIFICATION Spec
CONSTANTS
    Iterations = 2
    HasBudget = TRUE
    Budget = 2
    MaxCost = 3
    MaxCalls = 6
    MaxMsgs = 3
    MaxDelegates = 2
    MaxStatusErrs = 2
    MaxWriteFails = 1
CHECK_DEADLOCK FALSE
INVARIANTS
    TypeOK
    CallsWithinLimit
    ExtensionsAreEarned
    BudgetHoldsUndisturbed
