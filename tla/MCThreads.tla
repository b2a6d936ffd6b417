------------------------------- MODULE MCThreads -------------------------------
(* The threads of sched.c for TLC: a behaviour is one of threads that are      *)
(* created, joined and terminate (ThreadLife), or of the timeouts of sleeping  *)
(* ones (TimeoutHeap).  The two share no state.                                *)
EXTENDS ThreadLife, TLC

CONSTANTS Sleeper, Timeout, MaxClock

VARIABLES
    part,  \* "life" or "timeouts"
    sleepq, heap_index, due, last_clock, woken, dozing, calm

hvars == <<sleepq, heap_index, due, last_clock, woken, dozing, calm>>

H == INSTANCE TimeoutHeap WITH Thread <- Sleeper

ASSUME LifeAssumption
ASSUME H!HeapAssumption

Sleepers == Permutations(Sleeper)

Parts == part \in {"life", "timeouts"} /\ Init /\ H!Init

Lives == part = "life" /\ Next /\ UNCHANGED <<part, hvars>>
Sleeps == part = "timeouts" /\ H!Next /\ UNCHANGED <<part, vars>>

Threads == Parts /\ [][Lives \/ Sleeps]_<<part, vars, hvars>>

-----------------------------------------------------------------------------
\* TimeoutHeap: the pointer tree is a heap whose indices, links and size agree and
\* in which nobody is due before the thread above it.
HeapInv == H!HeapInv

\* TimeoutHeap: of the threads that called st_usleep(0) the oldest is woken first.
OldestFirst == H!OldestFirst

\* TimeoutHeap: the heap implements a set of timers.
ImplementsTimers == H!ImplementsTimers
================================================================================
