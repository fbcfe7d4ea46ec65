\* One character, two handshakes, two requests and a sweep, one fault.
CONSTANTS
    Characters = {c1}
    Owners = {o1}
    Logins = {l1, l2}
    Requests = {r1, r2}
    Sweepers = {w1}
    None = None
    MaxSessions = 2
    MaxVer = 2
    MaxBuild = 1
    MaxFaults = 1
    RevokeCeiling = 100
SPECIFICATION Spec
SYMMETRY Symmetry
INVARIANTS
    TypeOK
    ExchangeNeverCollides
    RevokedHoldsNoToken
    CodeSingleUse
    RotationSafe
    GrantAccounted
    NoUsedGrantRevoked
    NoCircularWait
    WaitsOnlyForLocks
