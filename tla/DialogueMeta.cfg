SPECIFICATION Spec
CONSTANTS
    p1 = p1
    p2 = p2
    q1 = q1
    q2 = q2
    Publisher = {p1}
    Player = {q1, q2}
    Announcer = {}
    NameLens = {6}
    MetaObject <- FullMeta
    MayFail = FALSE
    MaySpin = FALSE
    MaxFailures = 1
INVARIANT LengthsDeclared
CHECK_DEADLOCK FALSE
