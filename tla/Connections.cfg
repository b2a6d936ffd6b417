\* Four connections are one more than the descriptors the listening socket leaves.
CONSTANTS
    Conn = {c1, c2, c3, c4}
    Backlog = 2
    Rlimit = 5
    SetSize = 4
    Accepting = Accepting
    Main = Main
    Idle = Idle
    p1 = p1
    p2 = p2
    q1 = q1
    NameLens = {0, 97, 98}
    MaxFailures = 1
SPECIFICATION Connections
INVARIANTS AllAccounted StaysInStep StaysUnderstood
\* The process may end, and a publisher taken for a player waits for messages that
\* do not come.
CHECK_DEADLOCK FALSE
