\* One character, two calls at once, an error budget of one.
CONSTANTS
    Users = {u1}
    Calls = {i1, i2}
    None = None
    Capacity = 5
    ErrorLimitBudget = 3
    ErrorFloor = 1
    ErrorBudgetCap = 1
    ErrorBudgetShare = 1
    ServerRetries = 1
    ThrottleRetries = 1
    MaxConcurrency = 1
    MaxWindows = 2
    MaxRefills = 1
SPECIFICATION Spec
SYMMETRY Symmetry
INVARIANTS
    TypeOK
    AllowanceExact
    OvershootBounded
\* The refills and the windows of the instance are used up.
CHECK_DEADLOCK FALSE
