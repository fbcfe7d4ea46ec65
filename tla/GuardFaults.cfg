\* Calls of two pods, alone or sharing a Guard, of the same tool or of different ones;
\* sessions are replaced, a pod dies or a statement fails.
CONSTANTS
    Calls = {c1, c2, c3}
    Pods = {p1, p2}
    Tools = {"mail", "other"}
    Args = {a1}
    None = None
    MailCap = 1
    MaxSession = 2
    MaxFaults = 1
SPECIFICATION Spec
SYMMETRY Symmetry
INVARIANTS
    TypeOK
    EveryAttemptRecorded
    MailCapExact
    OnlyAttemptsRecorded
    ConsentMatches
    ConsentDiesWithSession
    NoStrandedHold
    MailConfirmedOnce
\* The calls of the instance are used up.
CHECK_DEADLOCK FALSE
