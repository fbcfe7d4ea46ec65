\* A new owner and a deployment that wants more scopes, without faults.
CONSTANTS
    Characters = {c1}
    Owners = {o1, o2}
    Logins = {l1, l2}
    Requests = {r1, r2}
    Sweepers = {w1}
    None = None
    MaxSessions = 2
    MaxVer = 1
    MaxBuild = 2
    MaxFaults = 0
    RevokeCeiling = 100
SPECIFICATION Spec
SYMMETRY Symmetry
PROPERTY
    ImplementsConnection
