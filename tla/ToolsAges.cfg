\* The ages of the reads an answer is made of, and of the answer.
CONSTANTS
    RoleSets <- MCRoleSets
    Ages = {0, 1}
    Minute = 1
SPECIFICATION Spec
INVARIANT DataAgeIsOldest
