CONSTANTS
    Thread = {t1, t2, t3}
    Idle = Idle
    Fd = {1, 2}
    Request <- Requests
    FdSetSize = 3
    MinPollfds = 2
    Spare = 1
    Systems = {"select", "poll", "epoll"}
    Scarce = {2}
    Below = 0
SPECIFICATION AnySystem
INVARIANTS SelectsRight PollsRight EpollsRight
PROPERTIES TurnsExact EpollTurnsExact
SYMMETRY Threads
\* Every thread may wait for an event that never comes.
CHECK_DEADLOCK FALSE
