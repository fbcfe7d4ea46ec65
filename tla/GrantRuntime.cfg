\* Three requests on two pods, over two sign-ins.
CONSTANTS
    Calls = {c1, c2, c3}
    Pods = {p1, p2}
    None = None
    MaxSid = 2
    MaxVer = 2
    MaxFaults = 1
    MaxExpiries = 1
SPECIFICATION Spec
SYMMETRY Symmetry
INVARIANTS
    TypeOK
    NoSelfKill
    NotServedByDeadGrant
    NoCircularWait
    WaitsOnlyForLocks
\* The requests of the instance are used up.
CHECK_DEADLOCK FALSE
