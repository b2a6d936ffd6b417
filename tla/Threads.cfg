\* Two stacks for two threads beside the primordial one, of sizes that do and do
\* not fit.  Six sleepers: the smallest heap in which the element that fills a
\* hole must move up.
CONSTANTS
    Thread = {m, w1, w2}
    Primordial = m
    Idle = Idle
    None = None
    Stack = {s1, s2}
    Size = {1, 2}
    Sleeper = {t1, t2, t3, t4, t5, t6}
    Timeout = {0, 1, 2}
    MaxClock = 1
SPECIFICATION Threads
INVARIANTS LifeRight HeapInv
PROPERTIES OldestFirst ImplementsTimers
SYMMETRY Sleepers
\* The process may end, and the modelled clock stops.
CHECK_DEADLOCK FALSE
