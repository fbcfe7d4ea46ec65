\* Two confirmed mails on one pod, cap 1.
CONSTANTS
    Calls = {c1, c2, c3, c4}
    Pods = {p1}
    Tools = {"mail"}
    Args = {a1}
    None = None
    MailCap = 1
    MaxSession = 1
    MaxFaults = 0
SPECIFICATION Spec
SYMMETRY Symmetry
INVARIANT
    ConfirmedMailsCapped
\* The calls of the instance are used up.
CHECK_DEADLOCK FALSE
