CONSTANTS
    Thread = {m, t1, t2}
    Primordial = m
    Idle = Idle
    Stack = {s1, s2}
    Size = {1}
    None = None
SPECIFICATION Spec
INVARIANT NotBlockedByTheDead
CHECK_DEADLOCK FALSE
