\* A pool of two; two mails, another call and the sweep, two characters.
CONSTANTS
    Mails = {m1, m2}
    Others = {o1}
    Sweeps = {s1}
    Chars = {a, b}
    None = None
    Conns = 2
SPECIFICATION Spec
PROPERTY
    AnsweredUnlessCrowded
\* Every request ends, or the pool is exhausted for good.
CHECK_DEADLOCK FALSE
