\* Every tool, its arguments, data and failures; two ages, the older of a minute.
CONSTANTS
    RoleSets <- MCRoleSets
    Ages = {0, 1}
    Minute = 1
SPECIFICATION Spec
INVARIANTS
    TypeOK
    NoDoomedRequest
    RoleVerdictsExact
    AgeIsOldest
    WritesAccounted
    ConsentReachesESI
