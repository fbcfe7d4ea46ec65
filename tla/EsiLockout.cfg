\* One character, one call: the shared remainder runs low and its window ends.
CONSTANTS
    Users = {u1}
    Calls = {i1}
    None = None
    Capacity = 7
    ErrorLimitBudget = 2
    ErrorFloor = 2
    ErrorBudgetCap = 1
    ErrorBudgetShare = 1
    ServerRetries = 1
    ThrottleRetries = 1
    MaxConcurrency = 1
    MaxWindows = 2
    MaxRefills = 1
SPECIFICATION Spec
SYMMETRY Symmetry
INVARIANT
    RefusalEnds
\* The refills and the windows of the instance are used up.
CHECK_DEADLOCK FALSE
