SPECIFICATION FairSpec
CONSTANTS
    p1 = p1
    p2 = p2
    q1 = q1
    q2 = q2
    Publisher = {p1}
    Player = {q1}
    Announcer = {}
    NameLens = {97}
    MetaObject <- FullMeta
    MayFail = TRUE
    MaySpin = TRUE
    MaxFailures = 1
PROPERTIES ClientsArrive
CHECK_DEADLOCK FALSE
