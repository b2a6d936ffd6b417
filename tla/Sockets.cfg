\* Six bytes take several requests to read and five several calls to write, four
\* vectors overflow the local array, and three connections are one more than the
\* descriptors the listening socket leaves.
CONSTANTS
    StreamLen = 6
    MaxRequest = 4
    VecLens = {0, 1, 2, 3}
    MaxVecs = 4
    MaxBytes = 5
    LocalMaxIov = 2
    Conn = {c1, c2, c3}
    Backlog = 2
    Rlimit = 4
    SetSize = 3
    Accepting = Accepting
    Main = Main
    Idle = Idle
SPECIFICATION Sockets
INVARIANTS TypeOK Gapless ReadsExactly WritesWhole
PROPERTIES ReadsReturn CallReturns Served
\* The process may end.
CHECK_DEADLOCK FALSE
