CONSTANTS
    Thread = {t1, t2, t3}
    Idle = Idle
    None = None
    Worker = {m, w1, w2}
    Primordial = m
    Stack = {s1, s2}
    Size = {1}
    Poller = {r1, r2}
    Fd = {1, 2}
    FdSetSize = 3
SPECIFICATION Scheduling
INVARIANTS SyncInv
PROPERTIES ImplementsFifoLock Granted JoinReturns ReadyServed
\* Threads may wait for good, and the process may end.
CHECK_DEADLOCK FALSE
