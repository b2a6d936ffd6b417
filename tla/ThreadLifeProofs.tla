--------------------------- MODULE ThreadLifeProofs ---------------------------
(***************************************************************************)
(* Proofs about ThreadLife for every set of threads, stacks and stack      *)
(* sizes: where a thread is, whose a stack is, how often a thread is       *)
(* joined and when the process ends.                                       *)
(***************************************************************************)
EXTENDS ThreadLife, QueueLemmas

\* The states of a thread that has been created and has not terminated.
Live == {"RUNNABLE", "RUNNING", "SLEEPING", "COND_WAIT"}

\* Running and run queue, and the idle thread runs only when nothing else can.
Placed ==
    /\ IsInjective(runq)
    /\ running = Idle => runq = <<>>
    /\ \A t \in Thread :
        /\ state[t] = "RUNNING" <=> running = t
        /\ state[t] = "RUNNABLE" <=> t \in ToSet(runq)

\* A thread that has called st_thread_exit is a zombie, on its way out after a
\* join, or gone; it waits for nothing.
Ended ==
    \A t \in Thread :
        /\ t \in exited => state[t] \in {"ZOMBIE", "RUNNABLE", "RUNNING", "gone"}
        /\ state[t] \in {"ZOMBIE", "gone"} => t \in exited
        /\ target[t] # None => t \notin exited

\* _st_active_count counts the threads that are created and have not exited.
Alive == {t \in Thread : state[t] # "none" /\ t \notin exited}
Counted == active = Cardinality(Alive)

\* A thread that has been joined is no zombie any more, and one thread joined it.
Joins ==
    \A t \in Thread, j \in Thread : <<t, j>> \in joined =>
        /\ t \in exited /\ state[t] # "ZOMBIE"
        /\ \A k \in Thread : <<t, k>> \in joined => k = j

Halts == halted => running = Idle /\ EndsLast

\* A segment that is not allocated is in no list and nobody's stack.
Fresh ==
    \A s \in Stack : stk_size[s] = 0 => s \notin ToSet(free) /\ \A t \in Thread : stack[t] # s

\* The inductive invariant.
IInv ==
    TypeOK /\ Placed /\ Ended /\ Counted /\ Joins /\ Halts /\ StacksApart /\ Fresh

-----------------------------------------------------------------------------
(* Sets of threads, the free list and context switches.                     *)

LEMMA CountThreads ==
    ASSUME LifeAssumption, NEW S, S \subseteq Thread, NEW x
    PROVE  /\ Cardinality(S) \in 0..Cardinality(Thread)
           /\ x \notin S => Cardinality(S \cup {x}) = Cardinality(S) + 1
           /\ x \in S => Cardinality(S \ {x}) = Cardinality(S) - 1
           /\ Cardinality(S) = 0 <=> S = {}
  <1>1. IsFiniteSet(Thread) /\ IsFiniteSet(S)
    BY FS_Subset DEF LifeAssumption
  <1>2. Cardinality(S) \in Nat /\ Cardinality(Thread) \in Nat /\ Cardinality(S) <= Cardinality(Thread)
    BY <1>1, FS_CardinalityType, FS_Subset
  <1>3. x \notin S => Cardinality(S \cup {x}) = Cardinality(S) + 1
    BY <1>1, FS_AddElement
  <1>4. x \in S => Cardinality(S \ {x}) = Cardinality(S) - 1
    BY <1>1, FS_RemoveElement
  <1>5. Cardinality(S) = 0 <=> S = {}
    BY <1>1, FS_EmptySet
  <1> QED  BY <1>2, <1>3, <1>4, <1>5

LEMMA LinesType ==
    ASSUME LifeAssumption, NEW s \in Lines
    PROVE  s \in Seq(Thread) /\ IsInjective(s)
  <1>1. PICK n \in 0..Cardinality(Thread) : s \in [1..n -> Thread] /\ IsInjective(s)
    BY DEF Lines
  <1>2. n \in Nat
    BY <1>1, FS_CardinalityType DEF LifeAssumption
  <1> QED  BY <1>1, <1>2, SeqDef

\* A stack that is freed is in the list once, with those that were there.
LEMMA PutBackElems ==
    ASSUME NEW q \in Seq(Stack), IsInjective(q), NEW s \in Stack, s \notin ToSet(q)
    PROVE  /\ PutBack(q, s) \in Seq(Stack) /\ IsInjective(PutBack(q, s))
           /\ ToSet(PutBack(q, s)) = ToSet(q) \cup {s}
  <1>1. CASE q = <<>>
    <2>1. PutBack(q, s) = <<s>>
      BY <1>1 DEF PutBack
    <2>2. <<s>> \in Seq(Stack) /\ IsInjective(<<s>>) /\ ToSet(<<s>>) = {s}
      BY DEF IsInjective, ToSet
    <2> QED  BY <1>1, <2>1, <2>2, EmptyElems
  <1>2. CASE q # <<>>
    <2> DEFINE f == Front(q)
               l == Last(q)
    <2>1. Len(q) \in Nat \ {0} /\ DOMAIN q = 1..Len(q)
      BY <1>2
    <2>2. f \in Seq(Stack) /\ Len(f) = Len(q) - 1 /\ \A k \in 1..(Len(q) - 1) : f[k] = q[k]
      BY <2>1, SubSeqProperties DEF Front
    <2>3. l \in Stack /\ l = q[Len(q)]
      BY <2>1 DEF Last
    <2>4. PutBack(q, s) = Append(Append(f, s), l)
      BY <1>2 DEF PutBack
    <2> HIDE DEF f, l
    <2>5. DOMAIN f = 1..(Len(q) - 1)
      BY <2>1, <2>2
    <2>6. IsInjective(f) /\ l \notin ToSet(f)
      BY <2>1, <2>2, <2>3, <2>5 DEF IsInjective, ToSet
    <2>7. ToSet(q) = ToSet(f) \cup {l}
      <3>0. \A n \in Nat \ {0} : \A k \in 1..n : k = n \/ k \in 1..(n - 1)
        OBVIOUS
      <3>1. \A k \in 1..Len(q) : k = Len(q) \/ k \in 1..(Len(q) - 1)
        BY <2>1, <3>0, Zenon
      <3>2. \A k \in 1..(Len(q) - 1) : k \in 1..Len(q)
        BY <2>1
      <3>3. Len(q) \in 1..Len(q)
        BY <2>1
      <3> QED  BY <2>1, <2>2, <2>3, <2>5, <3>1, <3>2, <3>3 DEF ToSet
    <2>8. /\ Append(f, s) \in Seq(Stack) /\ IsInjective(Append(f, s))
          /\ ToSet(Append(f, s)) = ToSet(f) \cup {s} /\ l \notin ToSet(Append(f, s))
      BY <2>2, <2>6, <2>7, AppendElems
    <2>9. PICK g \in Seq(Stack) :
              /\ g = Append(f, s) /\ IsInjective(g) /\ ToSet(g) = ToSet(f) \cup {s} /\ l \notin ToSet(g)
      BY <2>8
    <2>10. /\ Append(g, l) \in Seq(Stack) /\ IsInjective(Append(g, l))
           /\ ToSet(Append(g, l)) = ToSet(g) \cup {l}
      <3>1. l \in Stack /\ g \in Seq(Stack) /\ IsInjective(g) /\ l \notin ToSet(g)
        BY <2>3, <2>9
      <3> QED  BY <3>1, AppendElems, Zenon
    <2> QED  BY <2>4, <2>7, <2>9, <2>10
  <1> QED  BY <1>1, <1>2

\* _st_vp_schedule resumes the head of the queue.
LEMMA ScheduleStep ==
    ASSUME LifeAssumption, NEW q \in Seq(Thread), IsInjective(q), NEW st \in [Thread -> State],
           \A t \in Thread : st[t] # "RUNNING",
           \A t \in Thread : st[t] = "RUNNABLE" <=> t \in ToSet(q),
           Schedule(q, st)
    PROVE  /\ Placed'
           /\ running' \in Thread \cup {Idle} /\ runq' \in Seq(Thread) /\ state' \in [Thread -> State]
           /\ \A t \in Thread : \/ state'[t] = st[t]
                                \/ st[t] = "RUNNABLE" /\ state'[t] = "RUNNING"
  <1>0. Idle \notin Thread
    BY DEF LifeAssumption
  <1>1. CASE q = <<>>
    <2>1. running' = Idle /\ runq' = <<>> /\ state' = st
      BY <1>1 DEF Schedule
    <2> QED  BY <1>0, <1>1, <2>1, EmptyElems DEF Placed
  <1>2. CASE q # <<>>
    <2>1. running' = Head(q) /\ runq' = Tail(q) /\ state' = [st EXCEPT ![Head(q)] = "RUNNING"]
      BY <1>2 DEF Schedule
    <2>2. /\ Head(q) \in Thread /\ Tail(q) \in Seq(Thread) /\ Head(q) \in ToSet(q)
          /\ ToSet(q) = ToSet(Tail(q)) \cup {Head(q)}
          /\ IsInjective(Tail(q)) /\ Head(q) \notin ToSet(Tail(q))
      BY <1>2, TailElems
    <2>3. state' \in [Thread -> State]
      BY <2>1, <2>2 DEF State
    <2>4. \A t \in Thread : state'[t] = IF t = Head(q) THEN "RUNNING" ELSE st[t]
      BY <2>1
    <2>5. Placed'
      BY <1>0, <2>1, <2>2, <2>4 DEF Placed
    <2> QED  BY <2>1, <2>2, <2>3, <2>4, <2>5
  <1> QED  BY <1>1, <1>2

\* The running thread stops in the state s and the next one goes on.
LEMMA LeaveStep ==
    ASSUME LifeAssumption, TypeOK, Placed, running \in Thread,
           NEW s \in {"SLEEPING", "COND_WAIT", "gone"},
           Schedule(runq, [state EXCEPT ![running] = s])
    PROVE  /\ Placed'
           /\ running' \in Thread \cup {Idle} /\ runq' \in Seq(Thread) /\ state' \in [Thread -> State]
           /\ state'[running] = s
           /\ \A t \in Thread \ {running} : \/ state'[t] = state[t]
                                            \/ state[t] = "RUNNABLE" /\ state'[t] = "RUNNING"
  <1> DEFINE st == [state EXCEPT ![running] = s]
  <1>1. Schedule(runq, st)
    OBVIOUS
  <1>2. st \in [Thread -> State] /\ runq \in Seq(Thread) /\ IsInjective(runq)
    BY DEF TypeOK, State, Placed
  <1>3. \A t \in Thread : st[t] = IF t = running THEN s ELSE state[t]
    BY DEF TypeOK
  <1>4. \A t \in Thread : st[t] # "RUNNING" /\ (st[t] = "RUNNABLE" <=> t \in ToSet(runq))
    BY <1>3 DEF Placed
  <1> HIDE DEF st
  <1>5. /\ Placed'
        /\ running' \in Thread \cup {Idle} /\ runq' \in Seq(Thread) /\ state' \in [Thread -> State]
        /\ \A t \in Thread : \/ state'[t] = st[t]
                             \/ st[t] = "RUNNABLE" /\ state'[t] = "RUNNING"
    BY <1>1, <1>2, <1>4, ScheduleStep
  <1> QED  BY <1>3, <1>5

\* A thread that was not runnable is put on the run queue.
LEMMA QueueStep ==
    ASSUME LifeAssumption, TypeOK, Placed, running \in Thread,
           NEW t \in Thread, state[t] \notin {"RUNNABLE", "RUNNING"},
           state' = [state EXCEPT ![t] = "RUNNABLE"], runq' = Append(runq, t), running' = running
    PROVE  /\ Placed' /\ runq' \in Seq(Thread) /\ state' \in [Thread -> State]
           /\ \A u \in Thread : state'[u] = IF u = t THEN "RUNNABLE" ELSE state[u]
  <1>1. \A u \in Thread : state'[u] = IF u = t THEN "RUNNABLE" ELSE state[u]
    BY DEF TypeOK
  <1>2. state' \in [Thread -> State]
    BY DEF TypeOK, State
  <1>3. runq' \in Seq(Thread) /\ IsInjective(runq') /\ ToSet(runq') = ToSet(runq) \cup {t}
    BY AppendElems DEF TypeOK, Placed
  <1>4. Placed'
    BY <1>1, <1>3 DEF Placed, LifeAssumption
  <1> QED  BY <1>1, <1>2, <1>3, <1>4

\* While no thread is created or exits, the count and the stacks stay right.
LEMMA CalmStep ==
    ASSUME IInv, UNCHANGED <<active, stack, stk_size, free, need, exited>>,
           \A t \in Thread : \/ state'[t] = state[t]
                             \/ state[t] \in Live \cup {"ZOMBIE"} /\ state'[t] \in Live
    PROVE  Counted' /\ StacksApart' /\ Fresh'
  <1>1. Counted /\ StacksApart /\ Fresh
    BY DEF IInv
  <1>2. \A t \in Thread : /\ state'[t] = "none" <=> state[t] = "none"
                          /\ state'[t] \notin {"none", "gone"} => state[t] \notin {"none", "gone"}
    BY DEF Live
  <1>3. Alive' = Alive
    BY <1>2 DEF Alive
  <1>4. Counted'
    BY <1>1, <1>3 DEF Counted
  <1>5. StacksApart'
    BY <1>1, <1>2 DEF StacksApart
  <1>6. Fresh'
    BY <1>1 DEF Fresh
  <1> QED  BY <1>4, <1>5, <1>6

-----------------------------------------------------------------------------
(* The inductive invariant.                                                 *)

LEMMA InitIInv ==
    ASSUME LifeAssumption, Init
    PROVE  IInv
  <1>1. Primordial \in Thread /\ Idle \notin Thread
    BY DEF LifeAssumption
  <1>2. /\ \A t \in Thread : state[t] = IF t = Primordial THEN "RUNNING" ELSE "none"
        /\ \A t \in Thread : target[t] = None /\ stack[t] = None
        /\ \A s \in Stack : stk_size[s] = 0
        /\ running = Primordial /\ runq = <<>> /\ active = 1 /\ free = <<>> /\ halted = FALSE
        /\ term = {} /\ interrupt = {} /\ exited = {} /\ joined = {}
    BY DEF Init
  <1>3. Alive = {Primordial}
    BY <1>1, <1>2 DEF Alive
  <1>4. Counted
    BY <1>2, <1>3, FS_Singleton DEF Counted
  <1>5. TypeOK
    <2>1. active \in 0..Cardinality(Thread)
      <3>1. Cardinality({Primordial}) \in 0..Cardinality(Thread)
        BY <1>1, CountThreads
      <3> QED  BY <1>2, <3>1, FS_Singleton
    <2>2. state \in [Thread -> State]
      BY DEF Init, State
    <2>3. /\ waitq \in [Thread -> Seq(Thread)] /\ target \in [Thread -> Thread \cup {None}]
          /\ stack \in [Thread -> Stack \cup {None}] /\ stk_size \in [Stack -> Size \cup {0}]
          /\ need \in [Thread -> Size \cup {0}] /\ runq \in Seq(Thread) /\ free \in Seq(Stack)
      BY DEF Init
    <2> QED  BY <1>1, <1>2, <2>1, <2>2, <2>3 DEF TypeOK
  <1>6. Placed
    BY <1>1, <1>2, EmptyElems DEF Placed
  <1>7. Ended /\ Joins /\ Halts
    BY <1>2 DEF Ended, Joins, Halts
  <1>8. StacksApart
    BY <1>2, EmptyElems DEF StacksApart
  <1>9. Fresh
    BY <1>2, EmptyElems DEF Fresh, LifeAssumption
  <1> QED  BY <1>4, <1>5, <1>6, <1>7, <1>8, <1>9 DEF IInv

\* st_thread_create, on a recycled stack or a new one.
LEMMA CreateIInv ==
    ASSUME LifeAssumption, IInv, NEW t \in Thread, NEW joinable \in BOOLEAN, NEW size \in Size,
           ThreadCreate(t, joinable, size)
    PROVE  IInv'
  <1>0. TypeOK /\ Placed /\ Ended /\ Counted /\ Joins /\ Halts /\ StacksApart /\ Fresh
    BY DEF IInv
  <1>1. /\ InUser /\ state[t] = "none" /\ StackNew(t, size)
        /\ need' = [need EXCEPT ![t] = size]
        /\ term' \subseteq term \cup {t}
        /\ state' = [state EXCEPT ![t] = "RUNNABLE"] /\ active' = active + 1
        /\ runq' = Append(runq, t)
        /\ UNCHANGED <<running, waitq, target, interrupt, exited, joined, halted>>
    BY DEF ThreadCreate
  <1>2. running \in Thread /\ running # Idle
    BY <1>0, <1>1 DEF InUser, TypeOK
  <1>3. /\ Placed' /\ runq' \in Seq(Thread) /\ state' \in [Thread -> State]
        /\ \A u \in Thread : state'[u] = IF u = t THEN "RUNNABLE" ELSE state[u]
    BY <1>0, <1>1, <1>2, QueueStep
  <1>4. t \notin exited
    BY <1>0, <1>1 DEF Ended
  <1>5. Alive' = Alive \cup {t} /\ t \notin Alive /\ Alive \subseteq Thread
    BY <1>1, <1>3, <1>4 DEF Alive
  <1>6. Counted' /\ active' \in 0..Cardinality(Thread)
    <2>1. Cardinality(Alive \cup {t}) = Cardinality(Alive) + 1
      BY <1>5, CountThreads
    <2>2. Cardinality(Alive \cup {t}) \in 0..Cardinality(Thread)
      BY <1>5, CountThreads
    <2>3. active' = Cardinality(Alive')
      BY <1>0, <1>1, <1>5, <2>1 DEF Counted
    <2> QED  BY <1>5, <2>2, <2>3 DEF Counted
  <1>7. Ended'
    BY <1>0, <1>1, <1>3, <1>4 DEF Ended
  <1>8. Joins' /\ Halts'
    BY <1>0, <1>1, <1>2, <1>3 DEF Joins, Halts
  <1>9. \A u \in Thread : need'[u] = IF u = t THEN size ELSE need[u]
    BY <1>0, <1>1 DEF TypeOK
  <1>10. need' \in [Thread -> Size \cup {0}]
    BY <1>0, <1>1 DEF TypeOK
  <1>11. size \in Nat \ {0} /\ None \notin Stack
    BY DEF LifeAssumption
  <1>12. \A x \in Stack : stk_size[x] \in Nat
    <2>1. stk_size \in [Stack -> Size \cup {0}]
      BY <1>0 DEF TypeOK
    <2>2. Size \cup {0} \subseteq Nat
      BY DEF LifeAssumption
    <2> QED  BY <2>1, <2>2
  <1>13. free \in Seq(Stack) /\ IsInjective(free) /\ ToSet(free) \subseteq Stack
    BY <1>0 DEF TypeOK, StacksApart, ToSet
  <1>14. ASSUME NEW s \in Stack, stack' = [stack EXCEPT ![t] = s],
                stk_size' \in [Stack -> Size \cup {0}], free' \in Seq(Stack), IsInjective(free'),
                ToSet(free') = ToSet(free) \ {s},
                \A u \in Thread : stack[u] # s, stk_size'[s] >= size, stk_size'[s] # 0,
                \A x \in Stack \ {s} : stk_size'[x] = stk_size[x]
         PROVE  IInv'
    <2>1. stack' \in [Thread -> Stack \cup {None}] /\ \A u \in Thread : stack'[u] = IF u = t THEN s ELSE stack[u]
      BY <1>0, <1>14 DEF TypeOK
    <2>2. TypeOK'
      BY <1>0, <1>1, <1>3, <1>6, <1>10, <1>14, <2>1 DEF TypeOK
    <2>3. StacksApart'
      <3>1. ASSUME NEW u \in Thread, stack'[u] # None
            PROVE  /\ stack'[u] \notin ToSet(free')
                   /\ stk_size'[stack'[u]] >= need'[u]
                   /\ \A v \in Thread \ {u} : stack'[v] # stack'[u]
        <4>1. CASE u = t
          BY <1>9, <1>14, <2>1, <4>1
        <4>2. CASE u # t
          <5>1. stack'[u] = stack[u] /\ stack[u] \in Stack \ {s} /\ need'[u] = need[u]
            BY <1>0, <1>9, <1>14, <2>1, <3>1, <4>2 DEF TypeOK
          <5>2. /\ stack[u] \notin ToSet(free) /\ stk_size[stack[u]] >= need[u]
                /\ \A v \in Thread \ {u} : stack[v] # stack[u]
            BY <1>0, <3>1, <5>1 DEF StacksApart
          <5> QED  BY <1>14, <2>1, <5>1, <5>2
        <4> QED  BY <4>1, <4>2
      <3>2. \A u \in Thread \ {Primordial} : state'[u] \notin {"none", "gone"} => stack'[u] # None
        BY <1>0, <1>3, <1>11, <2>1 DEF StacksApart
      <3> QED  BY <1>14, <3>1, <3>2 DEF StacksApart
    <2>4. Fresh'
      BY <1>0, <1>14, <2>1 DEF Fresh
    <2> QED  BY <1>3, <1>6, <1>7, <1>8, <2>2, <2>3, <2>4 DEF IInv
  <1>15. ASSUME NEW i \in DOMAIN free, stk_size[free[i]] >= size,
                stack' = [stack EXCEPT ![t] = free[i]], free' = RemoveAt(free, i), stk_size' = stk_size
         PROVE  IInv'
    <2>1. PICK s \in Stack : s = free[i] /\ s \in ToSet(free)
      BY <1>13, <1>15 DEF ToSet
    <2>2. free' \in Seq(Stack) /\ IsInjective(free') /\ ToSet(free') = ToSet(free) \ {s}
      BY <1>13, <1>15, <2>1, RemoveAtElems
    <2>3. \A u \in Thread : stack[u] # s
      BY <1>0, <1>11, <2>1 DEF StacksApart
    <2>4. stk_size'[s] >= size /\ stk_size'[s] # 0
      BY <1>11, <1>12, <1>15, <2>1
    <2>5. stk_size' \in [Stack -> Size \cup {0}] /\ stack' = [stack EXCEPT ![t] = s]
      BY <1>0, <1>15, <2>1 DEF TypeOK
    <2> QED  BY <1>14, <1>15, <2>2, <2>3, <2>4, <2>5
  <1>16. ASSUME NEW s \in Stack, stk_size[s] = 0, stack' = [stack EXCEPT ![t] = s],
                stk_size' = [stk_size EXCEPT ![s] = size], free' = free
         PROVE  IInv'
    <2>1. s \notin ToSet(free) /\ \A u \in Thread : stack[u] # s
      BY <1>0, <1>16 DEF Fresh
    <2>2. stk_size' \in [Stack -> Size \cup {0}] /\ stk_size'[s] = size
          /\ \A x \in Stack \ {s} : stk_size'[x] = stk_size[x]
      BY <1>0, <1>16 DEF TypeOK
    <2>3. free' \in Seq(Stack) /\ IsInjective(free') /\ ToSet(free') = ToSet(free) \ {s}
      BY <1>13, <1>16, <2>1
    <2>4. stk_size'[s] >= size /\ stk_size'[s] # 0
      BY <1>11, <2>2
    <2> QED  BY <1>14, <1>16, <2>1, <2>2, <2>3, <2>4
  <1> QED  BY <1>1, <1>15, <1>16 DEF StackNew, NewSegment, FirstFit, Fit

\* st_thread_create without a thread: the stack it took or made is free.
LEMMA CreateFailsIInv ==
    ASSUME LifeAssumption, IInv, NEW size \in Size, ThreadCreateFails(size)
    PROVE  IInv'
  <1>0. TypeOK /\ Placed /\ Ended /\ Counted /\ Joins /\ Halts /\ StacksApart /\ Fresh
    BY DEF IInv
  <1>1. UNCHANGED <<running, runq, state, active, term, waitq, target, interrupt, stack,
                    need, exited, joined, halted>>
    BY DEF ThreadCreateFails
  <1>2. free \in Seq(Stack) /\ IsInjective(free) /\ ToSet(free) \subseteq Stack
    BY <1>0 DEF TypeOK, StacksApart, ToSet
  <1>3. stk_size \in [Stack -> Size \cup {0}] /\ size \in Nat \ {0} /\ None \notin Stack
    BY <1>0 DEF TypeOK, LifeAssumption
  <1>4. ASSUME NEW s \in Stack, free' \in Seq(Stack), IsInjective(free'),
               ToSet(free') = ToSet(free) \cup {s}, \A u \in Thread : stack[u] # s,
               stk_size' \in [Stack -> Size \cup {0}], stk_size'[s] # 0,
               \A x \in Stack \ {s} : stk_size'[x] = stk_size[x]
        PROVE  IInv'
    <2>1. TypeOK'
      BY <1>0, <1>1, <1>4 DEF TypeOK
    <2>2. Placed' /\ Ended' /\ Joins'
      BY <1>0, <1>1 DEF Placed, Ended, Joins
    <2>3. Halts' /\ Counted'
      BY <1>0, <1>1 DEF Halts, EndsLast, Counted, Alive
    <2>4. ASSUME NEW u \in Thread, stack[u] # None
          PROVE  stack[u] \notin ToSet(free') /\ stk_size'[stack[u]] >= need[u]
      <3>1. stack[u] \in Stack \ {s}
        BY <1>0, <1>4, <2>4 DEF TypeOK
      <3>2. stack[u] \notin ToSet(free) /\ stk_size[stack[u]] >= need[u]
        BY <1>0, <2>4 DEF StacksApart
      <3> QED  BY <1>4, <3>1, <3>2
    <2>5. StacksApart'
      BY <1>0, <1>1, <1>4, <2>4 DEF StacksApart
    <2>6. Fresh'
      BY <1>0, <1>1, <1>4 DEF Fresh
    <2> QED  BY <2>1, <2>2, <2>3, <2>5, <2>6 DEF IInv
  <1>5. ASSUME NEW i \in DOMAIN free, stk_size[free[i]] >= size,
               free' = PutBack(RemoveAt(free, i), free[i]), stk_size' = stk_size
        PROVE  IInv'
    <2>1. PICK s \in Stack : s = free[i] /\ s \in ToSet(free)
      BY <1>2, <1>5 DEF ToSet
    <2>2. PICK q \in Seq(Stack) :
              q = RemoveAt(free, i) /\ IsInjective(q) /\ ToSet(q) = ToSet(free) \ {s}
      BY <1>2, <1>5, <2>1, RemoveAtElems
    <2>3. free' = PutBack(q, s) /\ s \notin ToSet(q)
      BY <1>5, <2>1, <2>2
    <2>4. free' \in Seq(Stack) /\ IsInjective(free') /\ ToSet(free') = ToSet(free) \cup {s}
      BY <2>1, <2>2, <2>3, PutBackElems
    <2>5. \A u \in Thread : stack[u] # s
      BY <1>0, <1>3, <2>1 DEF StacksApart
    <2>6. stk_size[s] # 0
      BY <1>3, <1>5, <2>1, SMT
    <2> QED  BY <1>3, <1>4, <1>5, <2>4, <2>5, <2>6
  <1>6. ASSUME NEW s \in Stack, stk_size[s] = 0, stk_size' = [stk_size EXCEPT ![s] = size],
               free' = PutBack(free, s)
        PROVE  IInv'
    <2>1. s \notin ToSet(free) /\ \A u \in Thread : stack[u] # s
      BY <1>0, <1>6 DEF Fresh
    <2>2. free' \in Seq(Stack) /\ IsInjective(free') /\ ToSet(free') = ToSet(free) \cup {s}
      BY <1>2, <1>6, <2>1, PutBackElems
    <2>3. stk_size' \in [Stack -> Size \cup {0}] /\ stk_size'[s] # 0
          /\ \A x \in Stack \ {s} : stk_size'[x] = stk_size[x]
      BY <1>3, <1>6
    <2> QED  BY <1>4, <2>1, <2>2, <2>3
  <1> QED  BY <1>5, <1>6 DEF ThreadCreateFails, NewSegment, FirstFit, Fit

\* The end of st_thread_exit, with the stack back on the free list.
LEMMA FinishIInv ==
    ASSUME LifeAssumption, IInv, ExitFinish
    PROVE  IInv'
  <1>0. TypeOK /\ Placed /\ Ended /\ Counted /\ Joins /\ Halts /\ StacksApart /\ Fresh
    BY DEF IInv
  <1>1. /\ running # Idle
        /\ \/ InUser /\ active' = active - 1
           \/ running \in exited /\ active' = active
        /\ exited' = exited \cup {running} /\ term' = term \ {running}
        /\ free' = StackFree(stack[running]) /\ stack' = [stack EXCEPT ![running] = None]
        /\ Schedule(runq, [state EXCEPT ![running] = "gone"])
        /\ UNCHANGED <<waitq, target, interrupt, stk_size, need, joined, halted>>
    BY DEF ExitFinish
  <1>2. running \in Thread /\ state[running] = "RUNNING"
    BY <1>0, <1>1 DEF TypeOK, Placed
  <1>3. /\ Placed'
        /\ running' \in Thread \cup {Idle} /\ runq' \in Seq(Thread) /\ state' \in [Thread -> State]
        /\ state'[running] = "gone"
        /\ \A t \in Thread \ {running} : \/ state'[t] = state[t]
                                         \/ state[t] = "RUNNABLE" /\ state'[t] = "RUNNING"
    BY <1>0, <1>1, <1>2, LeaveStep
  <1>4. Alive' = Alive \ {running} /\ Alive \subseteq Thread /\ (running \in Alive <=> running \notin exited)
    BY <1>1, <1>2, <1>3 DEF Alive
  <1>5. active' = Cardinality(Alive')
    <2>1. CASE running \in exited
      <3>1. Alive' = Alive
        BY <1>4, <2>1
      <3> QED  BY <1>0, <1>1, <2>1, <3>1 DEF Counted, InUser
    <2>2. CASE running \notin exited
      BY <1>0, <1>1, <1>4, <2>2, CountThreads DEF Counted
    <2> QED  BY <2>1, <2>2
  <1>6. active' \in 0..Cardinality(Thread)
    <2>1. Alive' \subseteq Thread
      BY <1>4
    <2> QED  BY <1>5, <2>1, CountThreads
  <1>7. Ended'
    <2>1. target[running] = None
      BY <1>0, <1>1, <1>2 DEF Ended, InUser
    <2> QED  BY <1>0, <1>1, <1>3, <2>1 DEF Ended
  <1>8. Joins' /\ Halts'
    BY <1>0, <1>1, <1>3 DEF Joins, Halts
  <1>9. /\ free \in Seq(Stack) /\ IsInjective(free) /\ None \notin Stack
        /\ stack[running] \in Stack \cup {None}
    BY <1>0, <1>2 DEF TypeOK, StacksApart, LifeAssumption
  <1>10. stack' \in [Thread -> Stack \cup {None}] /\ \A u \in Thread : stack'[u] = IF u = running THEN None ELSE stack[u]
    BY <1>0, <1>1 DEF TypeOK
  <1>11. /\ free' \in Seq(Stack) /\ IsInjective(free')
         /\ ToSet(free') = ToSet(free) \cup ({stack[running]} \ {None})
    <2>1. CASE stack[running] = None
      BY <1>1, <1>9, <2>1 DEF StackFree
    <2>2. CASE stack[running] # None
      <3>1. stack[running] \notin ToSet(free) /\ stack[running] \in Stack
        BY <1>0, <1>2, <1>9, <2>2 DEF StacksApart
      <3> QED  BY <1>1, <1>9, <2>2, <3>1, PutBackElems DEF StackFree
    <2> QED  BY <2>1, <2>2
  <1>12. TypeOK'
    BY <1>0, <1>1, <1>2, <1>3, <1>6, <1>10, <1>11 DEF TypeOK
  <1>13. StacksApart'
    <2>1. ASSUME NEW u \in Thread, stack'[u] # None
          PROVE  /\ stack'[u] \notin ToSet(free')
                 /\ stk_size'[stack'[u]] >= need'[u]
                 /\ \A v \in Thread \ {u} : stack'[v] # stack'[u]
      <3>1. u # running /\ stack'[u] = stack[u] /\ stack[u] # None
        BY <1>10, <2>1
      <3>2. /\ stack[u] \notin ToSet(free) /\ stk_size[stack[u]] >= need[u]
            /\ \A v \in Thread \ {u} : stack[v] # stack[u]
        BY <1>0, <3>1 DEF StacksApart
      <3> QED  BY <1>1, <1>2, <1>10, <1>11, <3>1, <3>2
    <2>2. \A u \in Thread \ {Primordial} : state'[u] \notin {"none", "gone"} => stack'[u] # None
      BY <1>0, <1>3, <1>10 DEF StacksApart
    <2> QED  BY <1>11, <2>1, <2>2 DEF StacksApart
  <1>14. Fresh'
    BY <1>0, <1>1, <1>2, <1>9, <1>10, <1>11 DEF Fresh
  <1> QED  BY <1>3, <1>5, <1>7, <1>8, <1>12, <1>13, <1>14 DEF IInv, Counted

\* st_thread_exit of a joinable thread, which wakes the first that waits for it.
LEMMA ZombieIInv ==
    ASSUME LifeAssumption, IInv, ExitZombie
    PROVE  IInv'
  <1>0. TypeOK /\ Placed /\ Ended /\ Counted /\ Joins /\ Halts /\ StacksApart /\ Fresh
    BY DEF IInv
  <1>1. /\ InUser /\ exited' = exited \cup {running} /\ active' = active - 1
        /\ UNCHANGED <<term, waitq, target, interrupt, stack, stk_size, free, need, joined, halted>>
    BY DEF ExitZombie
  <1>2. /\ running \in Thread /\ running # Idle /\ state[running] = "RUNNING"
        /\ running \notin exited /\ target[running] = None
    BY <1>0, <1>1 DEF TypeOK, Placed, InUser
  <1>3. PICK woken \in Signalled(running) :
            Schedule(runq \o woken,
                     [j \in Thread |-> IF j = running THEN "ZOMBIE"
                                       ELSE IF j \in ToSet(woken) THEN "RUNNABLE" ELSE state[j]])
    BY DEF ExitZombie
  <1> DEFINE st == [j \in Thread |-> IF j = running THEN "ZOMBIE"
                                     ELSE IF j \in ToSet(woken) THEN "RUNNABLE" ELSE state[j]]
  <1>4. /\ woken \in Seq(Thread) /\ IsInjective(woken)
        /\ \A j \in ToSet(woken) : j \in Thread /\ state[j] = "COND_WAIT"
    <2>1. CASE woken = <<>>
      BY <2>1, EmptyElems
    <2>2. CASE woken # <<>>
      <3>1. PICK i \in DOMAIN waitq[running] :
                state[waitq[running][i]] = "COND_WAIT" /\ woken = <<waitq[running][i]>>
        BY <1>3, <2>2 DEF Signalled
      <3>2. waitq[running] \in Seq(Thread)
        BY <1>0, <1>2 DEF TypeOK
      <3>3. PICK j \in Thread : j = waitq[running][i]
        BY <3>1, <3>2
      <3>4. woken = <<j>> /\ state[j] = "COND_WAIT"
        BY <3>1, <3>3
      <3>5. <<j>> \in Seq(Thread) /\ IsInjective(<<j>>) /\ ToSet(<<j>>) = {j}
        BY DEF IsInjective, ToSet
      <3> QED  BY <3>4, <3>5
    <2> QED  BY <2>1, <2>2
  <1>5. /\ st \in [Thread -> State]
        /\ \A j \in Thread : st[j] = IF j = running THEN "ZOMBIE"
                                     ELSE IF j \in ToSet(woken) THEN "RUNNABLE" ELSE state[j]
    BY <1>0 DEF TypeOK, State
  <1>6. Schedule(runq \o woken, st)
    BY <1>3
  <1> HIDE DEF st
  <1>7. runq \in Seq(Thread) /\ IsInjective(runq) /\ ToSet(runq) \cap ToSet(woken) = {}
    BY <1>0, <1>4 DEF TypeOK, Placed
  <1>8. /\ runq \o woken \in Seq(Thread) /\ IsInjective(runq \o woken)
        /\ ToSet(runq \o woken) = ToSet(runq) \cup ToSet(woken)
    BY <1>4, <1>7, ConcatElems
  <1>9. \A j \in Thread : st[j] # "RUNNING" /\ (st[j] = "RUNNABLE" <=> j \in ToSet(runq \o woken))
    <2>1. \A j \in Thread : /\ state[j] = "RUNNING" <=> running = j
                            /\ state[j] = "RUNNABLE" <=> j \in ToSet(runq)
      BY <1>0 DEF Placed
    <2>2. running \notin ToSet(woken)
      BY <1>2, <1>4
    <2> QED  BY <1>2, <1>5, <1>8, <2>1, <2>2
  <1>10. /\ Placed'
         /\ running' \in Thread \cup {Idle} /\ runq' \in Seq(Thread) /\ state' \in [Thread -> State]
         /\ \A t \in Thread : \/ state'[t] = st[t]
                              \/ st[t] = "RUNNABLE" /\ state'[t] = "RUNNING"
    BY <1>5, <1>6, <1>8, <1>9, ScheduleStep
  <1>11. /\ state'[running] = "ZOMBIE"
         /\ \A t \in Thread \ {running} : \/ state'[t] = state[t]
                                          \/ state[t] \in {"RUNNABLE", "COND_WAIT"} /\ state'[t] \in {"RUNNABLE", "RUNNING"}
    BY <1>2, <1>4, <1>5, <1>10
  <1>12. Alive' = Alive \ {running} /\ Alive \subseteq Thread /\ running \in Alive
    BY <1>1, <1>2, <1>11 DEF Alive
  <1>13. active' = Cardinality(Alive') /\ active' \in 0..Cardinality(Thread)
    <2>1. Cardinality(Alive \ {running}) = Cardinality(Alive) - 1
      BY <1>12, CountThreads
    <2>2. Alive' \subseteq Thread
      BY <1>12
    <2>3. Cardinality(Alive') \in 0..Cardinality(Thread)
      BY <2>2, CountThreads
    <2> QED  BY <1>0, <1>1, <1>12, <2>1, <2>3 DEF Counted
  <1>14. TypeOK'
    BY <1>0, <1>1, <1>2, <1>10, <1>13 DEF TypeOK
  <1>15. Ended'
    BY <1>0, <1>1, <1>2, <1>11 DEF Ended
  <1>16. Joins' /\ Halts'
    BY <1>0, <1>1, <1>2, <1>11 DEF Joins, Halts
  <1>17. StacksApart' /\ Fresh'
    BY <1>0, <1>1, <1>2, <1>11 DEF StacksApart, Fresh
  <1> QED  BY <1>10, <1>13, <1>14, <1>15, <1>16, <1>17 DEF IInv, Counted

\* A zombie is taken off the zombie queue by its one joiner.
LEMMA TakeIInv ==
    ASSUME LifeAssumption, IInv, running \in Thread, NEW t \in Thread, state[t] = "ZOMBIE", Take(t),
           waitq' \in [Thread -> Seq(Thread)], target' \in [Thread -> Thread \cup {None}],
           interrupt' \subseteq Thread, \A u \in Thread : target'[u] # None => target[u] # None,
           UNCHANGED <<running, active, term, stack, stk_size, free, need, exited, halted>>
    PROVE  IInv'
  <1>0. TypeOK /\ Placed /\ Ended /\ Counted /\ Joins /\ Halts /\ StacksApart /\ Fresh
    BY DEF IInv
  <1>1. /\ joined' = joined \cup {<<t, running>>} /\ state' = [state EXCEPT ![t] = "RUNNABLE"]
        /\ runq' = Append(runq, t)
    BY DEF Take
  <1>2. /\ Placed' /\ runq' \in Seq(Thread) /\ state' \in [Thread -> State]
        /\ \A u \in Thread : state'[u] = IF u = t THEN "RUNNABLE" ELSE state[u]
    BY <1>0, <1>1, QueueStep
  <1>3. Counted' /\ StacksApart' /\ Fresh'
    BY <1>2, CalmStep DEF Live
  <1>4. TypeOK'
    BY <1>0, <1>1, <1>2 DEF TypeOK
  <1>5. Ended'
    BY <1>0, <1>2 DEF Ended
  <1>6. \A j \in Thread : <<t, j>> \notin joined
    BY <1>0 DEF Joins
  <1>7. t \in exited
    BY <1>0 DEF Ended
  <1>8. Joins'
    <2> SUFFICES ASSUME NEW u \in Thread, NEW j \in Thread, <<u, j>> \in joined'
                 PROVE  /\ u \in exited' /\ state'[u] # "ZOMBIE"
                        /\ \A k \in Thread : <<u, k>> \in joined' => k = j
      BY DEF Joins
    <2>1. CASE u = t
      BY <1>1, <1>2, <1>6, <1>7, <2>1
    <2>2. CASE u # t
      BY <1>0, <1>1, <1>2, <2>2 DEF Joins
    <2> QED  BY <2>1, <2>2
  <1>9. Halts'
    BY <1>0 DEF Halts, LifeAssumption
  <1> QED  BY <1>2, <1>3, <1>4, <1>5, <1>8, <1>9 DEF IInv

\* The running thread waits, for the clock or for a thread it joins.
LEMMA WaitIInv ==
    ASSUME LifeAssumption, IInv, running \in Thread, running \notin exited,
           NEW s \in {"SLEEPING", "COND_WAIT"},
           Schedule(runq, [state EXCEPT ![running] = s]),
           waitq' \in [Thread -> Seq(Thread)], target' \in [Thread -> Thread \cup {None}],
           interrupt' \subseteq Thread, \A u \in Thread \ {running} : target'[u] = target[u],
           UNCHANGED <<active, term, stack, stk_size, free, need, exited, joined, halted>>
    PROVE  IInv'
  <1>0. TypeOK /\ Placed /\ Ended /\ Counted /\ Joins /\ Halts /\ StacksApart /\ Fresh
    BY DEF IInv
  <1>1. state[running] = "RUNNING" /\ running # Idle
    BY <1>0 DEF Placed, LifeAssumption
  <1>2. /\ Placed'
        /\ running' \in Thread \cup {Idle} /\ runq' \in Seq(Thread) /\ state' \in [Thread -> State]
        /\ state'[running] = s
        /\ \A t \in Thread \ {running} : \/ state'[t] = state[t]
                                         \/ state[t] = "RUNNABLE" /\ state'[t] = "RUNNING"
    BY <1>0, LeaveStep
  <1>3. Counted' /\ StacksApart' /\ Fresh'
    BY <1>1, <1>2, CalmStep DEF Live
  <1>4. TypeOK'
    BY <1>0, <1>2 DEF TypeOK
  <1>5. Ended'
    BY <1>0, <1>2 DEF Ended
  <1>6. Joins' /\ Halts'
    BY <1>0, <1>1, <1>2 DEF Joins, Halts
  <1> QED  BY <1>2, <1>3, <1>4, <1>5, <1>6 DEF IInv

LEMMA JoinReturnIInv ==
    ASSUME LifeAssumption, IInv, JoinReturn
    PROVE  IInv'
  <1>0. TypeOK /\ Placed /\ Ended /\ Counted /\ Joins /\ Halts /\ StacksApart /\ Fresh
    BY DEF IInv
  <1>1. /\ running # Idle /\ target[running] # None /\ interrupt' = interrupt \ {running}
        /\ UNCHANGED <<active, term, stack, stk_size, free, need, exited, halted>>
    BY DEF JoinReturn
  <1>2. running \in Thread
    BY <1>0, <1>1 DEF TypeOK
  <1>3. PICK t \in Thread : t = target[running]
    BY <1>0, <1>1, <1>2 DEF TypeOK
  <1>4. \/ Unlink(t) /\ UNCHANGED <<running, runq, state, joined>>
        \/ Unlink(t) /\ state[t] = "ZOMBIE" /\ Take(t) /\ UNCHANGED running
        \/ Schedule(runq, [state EXCEPT ![running] = "COND_WAIT"]) /\ UNCHANGED <<waitq, target, joined>>
    BY <1>3 DEF JoinReturn
  <1>5. ASSUME Unlink(t)
        PROVE  /\ waitq' \in [Thread -> Seq(Thread)] /\ target' \in [Thread -> Thread \cup {None}]
               /\ \A u \in Thread : target'[u] # None => target[u] # None
    <2>1. PICK i \in DOMAIN waitq[t] : waitq' = [waitq EXCEPT ![t] = RemoveAt(waitq[t], i)]
      BY <1>5 DEF Unlink
    <2>2. waitq[t] \in Seq(Thread) /\ waitq \in [Thread -> Seq(Thread)]
      BY <1>0 DEF TypeOK
    <2>3. RemoveAt(waitq[t], i) \in Seq(Thread)
      BY <2>1, <2>2, RemoveAtIndices
    <2>4. waitq' \in [Thread -> Seq(Thread)]
      BY <2>1, <2>2, <2>3
    <2>5. target' = [target EXCEPT ![running] = None] /\ target \in [Thread -> Thread \cup {None}]
      BY <1>0, <1>5 DEF Unlink, TypeOK
    <2> QED  BY <1>2, <2>4, <2>5
  <1>6. interrupt' \subseteq Thread
    BY <1>0, <1>1 DEF TypeOK
  <1>7. CASE Unlink(t) /\ UNCHANGED <<running, runq, state, joined>>
    <2>1. Counted' /\ StacksApart' /\ Fresh'
      BY <1>1, <1>7, CalmStep
    <2>2. TypeOK'
      BY <1>0, <1>1, <1>5, <1>6, <1>7 DEF TypeOK
    <2>3. Placed' /\ Ended' /\ Joins' /\ Halts'
      BY <1>0, <1>1, <1>5, <1>7 DEF Placed, Ended, Joins, Halts, EndsLast
    <2> QED  BY <2>1, <2>2, <2>3 DEF IInv
  <1>8. CASE Unlink(t) /\ state[t] = "ZOMBIE" /\ Take(t) /\ UNCHANGED running
    BY <1>1, <1>2, <1>5, <1>6, <1>8, TakeIInv
  <1>9. CASE Schedule(runq, [state EXCEPT ![running] = "COND_WAIT"]) /\ UNCHANGED <<waitq, target, joined>>
    <2>1. running \notin exited
      BY <1>0, <1>1, <1>2 DEF Ended
    <2>2. waitq' \in [Thread -> Seq(Thread)] /\ target' \in [Thread -> Thread \cup {None}]
      BY <1>0, <1>9 DEF TypeOK
    <2> QED  BY <1>1, <1>2, <1>6, <1>9, <2>1, <2>2, WaitIInv
  <1> QED  BY <1>4, <1>7, <1>8, <1>9

LEMMA InterruptIInv ==
    ASSUME LifeAssumption, IInv, NEW t \in Thread, Interrupt(t)
    PROVE  IInv'
  <1>0. TypeOK /\ Placed /\ Ended /\ Counted /\ Joins /\ Halts /\ StacksApart /\ Fresh
    BY DEF IInv
  <1>1. /\ InUser /\ interrupt' = interrupt \cup {t}
        /\ UNCHANGED <<running, active, term, waitq, target, stack, stk_size, free, need,
                       exited, joined, halted>>
    BY DEF Interrupt
  <1>2. running \in Thread /\ running # Idle
    BY <1>0, <1>1 DEF TypeOK, InUser
  <1>3. /\ Placed' /\ runq' \in Seq(Thread) /\ state' \in [Thread -> State]
        /\ \A u \in Thread : \/ state'[u] = state[u]
                             \/ state[u] = "COND_WAIT" /\ state'[u] = "RUNNABLE"
    <2>1. CASE state[t] = "COND_WAIT"
      <3>1. state' = [state EXCEPT ![t] = "RUNNABLE"] /\ runq' = Append(runq, t)
        BY <2>1 DEF Interrupt
      <3>2. /\ Placed' /\ runq' \in Seq(Thread) /\ state' \in [Thread -> State]
            /\ \A u \in Thread : state'[u] = IF u = t THEN "RUNNABLE" ELSE state[u]
        BY <1>0, <1>1, <1>2, <2>1, <3>1, QueueStep
      <3> QED  BY <2>1, <3>2
    <2>2. CASE state[t] # "COND_WAIT"
      <3>1. UNCHANGED <<state, runq>>
        BY <2>2 DEF Interrupt
      <3> QED  BY <1>0, <1>1, <3>1 DEF Placed, TypeOK
    <2> QED  BY <2>1, <2>2
  <1>4. Counted' /\ StacksApart' /\ Fresh'
    BY <1>1, <1>3, CalmStep DEF Live
  <1>5. TypeOK'
    BY <1>0, <1>1, <1>3 DEF TypeOK
  <1>6. Ended' /\ Joins' /\ Halts'
    BY <1>0, <1>1, <1>2, <1>3 DEF Ended, Joins, Halts
  <1> QED  BY <1>3, <1>4, <1>5, <1>6 DEF IInv

\* The idle thread wakes the sleepers, or ends the process when the count is 0.
LEMMA IdleIInv ==
    ASSUME LifeAssumption, IInv, IdleStart
    PROVE  IInv'
  <1>0. TypeOK /\ Placed /\ Ended /\ Counted /\ Joins /\ Halts /\ StacksApart /\ Fresh
    BY DEF IInv
  <1>1. /\ running = Idle /\ ~halted
        /\ UNCHANGED <<active, term, waitq, target, interrupt, stack, stk_size, free, need,
                       exited, joined>>
    BY DEF IdleStart
  <1>2. \A t \in Thread : state[t] \notin {"RUNNING", "RUNNABLE"}
    BY <1>0, <1>1, EmptyElems DEF Placed, LifeAssumption
  <1>3. ASSUME NEW s \in Lines, ToSet(s) = {t \in Thread : state[t] = "SLEEPING"},
               Schedule(s, [t \in Thread |-> IF t \in ToSet(s) THEN "RUNNABLE" ELSE state[t]]),
               UNCHANGED halted
        PROVE  IInv'
    <2> DEFINE st == [t \in Thread |-> IF t \in ToSet(s) THEN "RUNNABLE" ELSE state[t]]
    <2>1. s \in Seq(Thread) /\ IsInjective(s)
      BY <1>3, LinesType
    <2>2. st \in [Thread -> State] /\ \A t \in Thread : st[t] = IF t \in ToSet(s) THEN "RUNNABLE" ELSE state[t]
      BY <1>0 DEF TypeOK, State
    <2>3. Schedule(s, st)
      BY <1>3
    <2> HIDE DEF st
    <2>4. \A t \in Thread : st[t] # "RUNNING" /\ (st[t] = "RUNNABLE" <=> t \in ToSet(s))
      BY <1>2, <2>2
    <2>5. /\ Placed'
          /\ running' \in Thread \cup {Idle} /\ runq' \in Seq(Thread) /\ state' \in [Thread -> State]
          /\ \A t \in Thread : \/ state'[t] = st[t]
                               \/ st[t] = "RUNNABLE" /\ state'[t] = "RUNNING"
      BY <2>1, <2>2, <2>3, <2>4, ScheduleStep
    <2>6. \A t \in Thread : \/ state'[t] = state[t]
                            \/ state[t] = "SLEEPING" /\ state'[t] \in {"RUNNABLE", "RUNNING"}
      <3>1. \A t \in Thread : t \in ToSet(s) <=> state[t] = "SLEEPING"
        BY <1>3, Zenon
      <3>2. \A t \in Thread : st[t] = IF state[t] = "SLEEPING" THEN "RUNNABLE" ELSE state[t]
        BY <2>2, <3>1
      <3> QED  BY <1>2, <2>5, <3>2
    <2>7. Counted' /\ StacksApart' /\ Fresh'
      BY <1>1, <2>6, CalmStep DEF Live
    <2>8. TypeOK'
      BY <1>0, <1>1, <1>3, <2>5 DEF TypeOK
    <2>9. Ended' /\ Joins' /\ Halts'
      BY <1>0, <1>1, <1>3, <2>6 DEF Ended, Joins, Halts
    <2> QED  BY <2>5, <2>7, <2>8, <2>9 DEF IInv
  <1>4. ASSUME active = 0, halted' = TRUE, UNCHANGED <<running, runq, state>>
        PROVE  IInv'
    <2>1. Alive = {}
      <3>1. Alive \subseteq Thread
        BY DEF Alive
      <3> QED  BY <1>0, <1>4, <3>1, CountThreads DEF Counted
    <2>2. \A t \in Thread : state[t] \in {"none", "ZOMBIE", "gone"}
      BY <1>0, <1>2, <2>1 DEF Alive, Ended
    <2>3. Halts'
      BY <1>1, <1>4, <2>2 DEF Halts, EndsLast
    <2>4. Counted' /\ StacksApart' /\ Fresh'
      BY <1>1, <1>4, CalmStep
    <2>5. TypeOK'
      BY <1>0, <1>1, <1>4 DEF TypeOK
    <2>6. Placed' /\ Ended' /\ Joins'
      BY <1>0, <1>1, <1>4 DEF Placed, Ended, Joins
    <2> QED  BY <2>3, <2>4, <2>5, <2>6 DEF IInv
  <1> QED  BY <1>3, <1>4 DEF IdleStart

LEMMA NextIInv ==
    ASSUME LifeAssumption, IInv, [Next]_vars
    PROVE  IInv'
  <1>0. TypeOK /\ Placed /\ Ended /\ Counted /\ Joins /\ Halts /\ StacksApart /\ Fresh
    BY DEF IInv
  <1>1. CASE Usleep
    <2>1. /\ running \in Thread /\ running \notin exited
          /\ Schedule(runq, [state EXCEPT ![running] = "SLEEPING"])
          /\ UNCHANGED <<active, term, waitq, target, interrupt, stack, stk_size, free,
                         need, exited, joined, halted>>
      BY <1>0, <1>1 DEF Usleep, InUser, TypeOK
    <2>2. /\ waitq' \in [Thread -> Seq(Thread)] /\ target' \in [Thread -> Thread \cup {None}]
          /\ interrupt' \subseteq Thread
      BY <1>0, <2>1 DEF TypeOK
    <2> QED  BY <2>1, <2>2, WaitIInv
  <1>2. ASSUME NEW t \in Thread, JoinWait(t) PROVE IInv'
    <2>1. /\ running \in Thread /\ running \notin exited
          /\ waitq' = [waitq EXCEPT ![t] = <<running>>]
          /\ target' = [target EXCEPT ![running] = t]
          /\ Schedule(runq, [state EXCEPT ![running] = "COND_WAIT"])
          /\ UNCHANGED <<active, term, interrupt, stack, stk_size, free, need, exited,
                         joined, halted>>
      BY <1>0, <1>2 DEF JoinWait, InUser, TypeOK
    <2>2. <<running>> \in Seq(Thread)
      BY <2>1
    <2>3. /\ waitq' \in [Thread -> Seq(Thread)] /\ target' \in [Thread -> Thread \cup {None}]
          /\ interrupt' \subseteq Thread
      BY <1>0, <2>1, <2>2 DEF TypeOK
    <2>4. \A u \in Thread \ {running} : target'[u] = target[u]
      BY <1>0, <2>1 DEF TypeOK
    <2> QED  BY <2>1, <2>3, <2>4, WaitIInv
  <1>3. ASSUME NEW t \in Thread, JoinZombie(t) PROVE IInv'
    <2>1. /\ running \in Thread /\ state[t] = "ZOMBIE" /\ Take(t)
          /\ UNCHANGED <<running, active, term, waitq, target, interrupt, stack, stk_size,
                         free, need, exited, halted>>
      BY <1>0, <1>3 DEF JoinZombie, InUser, TypeOK
    <2>2. /\ waitq' \in [Thread -> Seq(Thread)] /\ target' \in [Thread -> Thread \cup {None}]
          /\ interrupt' \subseteq Thread
      BY <1>0, <2>1 DEF TypeOK
    <2> QED  BY <2>1, <2>2, TakeIInv
  <1>4. CASE UNCHANGED vars
    <2>1. UNCHANGED <<running, runq, state, active, term, waitq, target, interrupt, stack,
                      stk_size, free, need, exited, joined, halted>>
      BY <1>4 DEF vars
    <2>2. TypeOK' /\ Placed' /\ Ended' /\ Joins'
      BY <1>0, <2>1 DEF TypeOK, Placed, Ended, Joins
    <2>3. Halts' /\ StacksApart' /\ Fresh'
      BY <1>0, <2>1 DEF Halts, EndsLast, StacksApart, Fresh
    <2>4. Counted'
      BY <1>0, <2>1 DEF Counted, Alive
    <2> QED  BY <2>2, <2>3, <2>4 DEF IInv
  <1> QED
    BY <1>1, <1>2, <1>3, <1>4, CreateIInv, CreateFailsIInv, ZombieIInv, FinishIInv, JoinReturnIInv,
       InterruptIInv, IdleIInv
       DEF Next, Calls, Library

\* At most one thread has joined another, counted.
LEMMA JoinedCount ==
    ASSUME LifeAssumption, Joins
    PROVE  JoinOnce
  <1> SUFFICES ASSUME NEW t \in Thread
               PROVE  Cardinality({j \in Thread : <<t, j>> \in joined}) <= 1
    BY DEF JoinOnce
  <1> DEFINE J == {j \in Thread : <<t, j>> \in joined}
  <1>1. CASE J = {}
    <2>1. Cardinality(J) = 0
      BY <1>1, FS_EmptySet, Zenon
    <2> QED  BY <2>1
  <1>2. CASE J # {}
    <2>1. PICK j \in Thread : <<t, j>> \in joined
      BY <1>2
    <2>2. \A k \in Thread : <<t, k>> \in joined => k = j
      BY <2>1 DEF Joins
    <2>3. J = {j}
      BY <2>1, <2>2, Zenon
    <2>4. Cardinality(J) = 1
      BY <2>3, FS_Singleton, Zenon
    <2> QED  BY <2>4
  <1> QED  BY <1>1, <1>2

\* From st_thread_create to its last switch (sched.c, stk.c): a thread is in one
\* place and has a stack of its own, as large as it asked for, that is not handed
\* out while it is a zombie; one join of it succeeds; the process ends after it.
THEOREM LifeIsRight ==
    ASSUME LifeAssumption
    PROVE  Spec => []LifeRight
  <1>1. Init => IInv
    BY InitIInv
  <1>2. IInv /\ [Next]_vars => IInv'
    BY NextIInv
  <1>3. IInv => LifeRight
    <2> SUFFICES ASSUME IInv PROVE LifeRight
      OBVIOUS
    <2>1. TypeOK /\ Placed /\ Joins /\ Halts /\ StacksApart
      BY DEF IInv
    <2>2. InOnePlace
      BY <2>1 DEF InOnePlace, Placed
    <2>3. EndsLast
      BY <2>1 DEF Halts, EndsLast
    <2> QED  BY <2>1, <2>2, <2>3, JoinedCount DEF LifeRight
  <1> QED  BY <1>1, <1>2, <1>3, PTL DEF Spec
===============================================================================
