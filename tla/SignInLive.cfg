\* Two characters, two handshakes, a request and a sweep that takes one row.
CONSTANTS
    Characters = {c1, c2}
    Owners = {o1}
    Logins = {l1, l2}
    Requests = {r1}
    Sweepers = {w1}
    None = None
    MaxSessions = 2
    MaxVer = 1
    MaxBuild = 1
    MaxFaults = 0
    RevokeCeiling = 1
SPECIFICATION FairSpec
PROPERTY
    ExpiredGrantsEnd
