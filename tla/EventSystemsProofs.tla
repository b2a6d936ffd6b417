-------------------------- MODULE EventSystemsProofs --------------------------
(***************************************************************************)
(* Proofs about the select and the poll event systems, for any number of   *)
(* threads and descriptors and any requests.  What the runs check is not   *)
(* inductive as it stands: that who is linked into the I/O queue is inside *)
(* st_poll, and that no entry there asks for nothing, is what keeps the    *)
(* counts of the others right when a request is linked or taken back.      *)
(***************************************************************************)
EXTENDS EventSystems, QueueLemmas

-----------------------------------------------------------------------------
(* The operators.                                                           *)

\* Membership in a queue, in the two ways the model speaks of it.
LEMMA ContainsIsMember ==
    ASSUME NEW s \in Seq(Thread), NEW e
    PROVE  Contains(s, e) <=> e \in ToSet(s)
  BY DEF Contains, ToSet

\* Among takes the members in S, each as often as the queue has it.
LEMMA AmongElems ==
    ASSUME NEW T, NEW q \in Seq(T), NEW S
    PROVE  /\ Among(q, S) \in Seq(T)
           /\ ToSet(Among(q, S)) = ToSet(q) \cap S
           /\ IsInjective(q) => IsInjective(Among(q, S))
  <1> DEFINE at == {i \in DOMAIN q : q[i] \in S}
             rank(i) == Cardinality({j \in at : j <= i})
             N == Cardinality(at)
             pick == [k \in 1..N |-> CHOOSE i \in at : rank(i) = k]
             r == [k \in 1..N |-> q[pick[k]]]
  <1>1. Len(q) \in Nat /\ DOMAIN q = 1..Len(q) /\ at \subseteq 1..Len(q)
    OBVIOUS
  <1>2. /\ N \in Nat
        /\ \A k \in 1..N : \E i \in at : rank(i) = k
        /\ \A i \in at : rank(i) \in 1..N
        /\ \A i \in at, l \in at : i < l => rank(i) < rank(l)
    <2> HIDE DEF at
    <2> QED  BY <1>1, Ranks
  <1>3. Among(q, S) = r
    BY DEF Among
  <1>4. \A k \in 1..N : pick[k] \in at /\ rank(pick[k]) = k
    <2> HIDE DEF at, rank
    <2> QED  BY <1>2
  <1>5. ASSUME NEW i \in at PROVE pick[rank(i)] = i
    <2> DEFINE m == pick[rank(i)]
    <2>1. rank(i) \in 1..N /\ m \in at /\ rank(m) = rank(i)
      <3> HIDE DEF at, rank, pick
      <3> QED  BY <1>2, <1>4
    <2>2. \A k \in at : k \in Int /\ rank(k) \in Int
      <3> HIDE DEF rank
      <3> QED  BY <1>1, <1>2
    <2>3. ~(m < i) /\ ~(i < m)
      <3> HIDE DEF at, rank, m
      <3> QED  BY <1>2, <2>1, <2>2
    <2> HIDE DEF at, m
    <2> QED  BY <2>1, <2>2, <2>3
  <1>6. \A k \in 1..N : r[k] = q[pick[k]]
    OBVIOUS
  <1> HIDE DEF pick, rank, r, N
  <1>7. \A k \in 1..N : r[k] \in T /\ r[k] \in S /\ r[k] \in ToSet(q)
    BY <1>1, <1>4, <1>6 DEF ToSet
  <1>8. r \in Seq(T) /\ DOMAIN r = 1..N
    <2>1. r \in [1..N -> T]
      BY <1>7 DEF r
    <2> QED  BY <1>2, <2>1
  <1>9. ToSet(r) = ToSet(q) \cap S
    <2>1. ASSUME NEW x \in ToSet(r) PROVE x \in ToSet(q) \cap S
      BY <1>7, <1>8 DEF ToSet
    <2>2. ASSUME NEW x \in ToSet(q) \cap S PROVE x \in ToSet(r)
      <3>1. PICK i \in at : x = q[i]
        BY DEF ToSet
      <3>2. rank(i) \in 1..N /\ r[rank(i)] = x
        BY <1>2, <1>5, <1>6, <3>1
      <3> QED  BY <1>8, <3>2 DEF ToSet
    <2> QED  BY <2>1, <2>2
  <1>10. ASSUME IsInjective(q) PROVE IsInjective(r)
    <2> SUFFICES ASSUME NEW k \in 1..N, NEW l \in 1..N, r[k] = r[l] PROVE k = l
      BY <1>8 DEF IsInjective
    <2>1. pick[k] = pick[l]
      BY <1>4, <1>6, <1>10 DEF IsInjective
    <2> QED  BY <1>4, <2>1
  <1> QED  BY <1>3, <1>8, <1>9, <1>10

\* Unlinking takes out the threads in S and no other.
LEMMA UnlinkElems ==
    ASSUME NEW q \in Seq(Thread), IsInjective(q), NEW S
    PROVE  /\ Unlink(q, S) \in Seq(Thread) /\ IsInjective(Unlink(q, S))
           /\ ToSet(Unlink(q, S)) = ToSet(q) \ S
  <1>1. /\ Among(q, ToSet(q) \ S) \in Seq(Thread) /\ IsInjective(Among(q, ToSet(q) \ S))
        /\ ToSet(Among(q, ToSet(q) \ S)) = ToSet(q) \cap (ToSet(q) \ S)
    BY AmongElems
  <1> QED  BY <1>1 DEF Unlink

\* Descriptors, and the -1 for none, are finitely many integers.
LEMMA FdInts == IsFiniteSet(Fd \cup {-1}) /\ Fd \cup {-1} \subseteq Int
  <1>1. IsFiniteSet(Fd) /\ Fd \subseteq Nat
    BY PollAssumption DEF PollAssumption
  <1>2. IsFiniteSet(Fd \cup {-1})
    BY <1>1, FS_AddElement
  <1>3. Nat \subseteq Int /\ -1 \in Int
    OBVIOUS
  <1> QED  BY <1>1, <1>2, <1>3

\* The highest of some descriptors and another number is one of them.
LEMMA MaxOfProps ==
    ASSUME NEW S, S \subseteq Int, IsFiniteSet(S), S # {}
    PROVE  MaxOf(S) \in S /\ \A x \in S : x <= MaxOf(S)
  BY LargestMember DEF MaxOf

-----------------------------------------------------------------------------
(* Counting the entries of the requests on the I/O queue.                   *)

Entry == [fd : Fd, events : SUBSET Event]
Array == Seq(Entry)

\* The entries that ask for p in the arrays f of the threads in S.
Entries(f, S, p) == UNION {{t} \X EntriesFor(f[t], p) : t \in S}

\* A request has finitely many entries, of descriptors of the program.
LEMMA ArrayProps ==
    ASSUME NEW r \in Array, NEW p
    PROVE  /\ IsFiniteSet(EntriesFor(r, p)) /\ NumIn(r, p) \in Nat
           /\ NumIn(r, p) > 0 <=> EntriesFor(r, p) # {}
           /\ FdsOf(r) \subseteq Fd /\ IsFiniteSet(FdsOf(r))
           /\ Asked(r) \subseteq Pair
           /\ p \in Pair => (p \in Asked(r) <=> EntriesFor(r, p) # {})
           /\ p \in Asked(r) => p[1] \in FdsOf(r)
  <1>1. /\ Len(r) \in Nat /\ DOMAIN r = 1..Len(r)
        /\ \A i \in DOMAIN r : r[i].fd \in Fd /\ r[i].events \subseteq Event
    <2>1. \A i \in DOMAIN r : r[i] \in Entry
      BY DEF Array
    <2>2. Len(r) \in Nat /\ DOMAIN r = 1..Len(r)
      BY DEF Array
    <2> QED  BY <2>1, <2>2 DEF Entry
  <1>2. IsFiniteSet(DOMAIN r) /\ EntriesFor(r, p) \subseteq DOMAIN r
    BY <1>1, FS_Interval DEF EntriesFor
  <1>3. IsFiniteSet(EntriesFor(r, p)) /\ NumIn(r, p) \in Nat
    BY <1>2, FS_Subset, FS_CardinalityType DEF NumIn
  <1>4. NumIn(r, p) > 0 <=> EntriesFor(r, p) # {}
    BY <1>3, FS_EmptySet DEF NumIn
  <1>5. FdsOf(r) \subseteq Fd
    BY <1>1 DEF FdsOf
  <1>6. IsFiniteSet(FdsOf(r))
    BY <1>5, FS_Subset, PollAssumption DEF PollAssumption
  <1>7. Asked(r) \subseteq Pair
    BY <1>1 DEF Asked, Pair
  <1>8. ASSUME p \in Pair PROVE p \in Asked(r) <=> EntriesFor(r, p) # {}
    <2>1. p = <<p[1], p[2]>>
      BY <1>8 DEF Pair
    <2> QED  BY <2>1 DEF Asked, EntriesFor
  <1>9. ASSUME p \in Asked(r) PROVE p[1] \in FdsOf(r)
    BY <1>9 DEF Asked, FdsOf
  <1> QED  BY <1>3, <1>4, <1>5, <1>6, <1>7, <1>8, <1>9

\* Finitely many threads have finitely many entries.
LEMMA EntriesFinite ==
    ASSUME NEW f \in [Thread -> Array], NEW S \in SUBSET Thread, NEW p
    PROVE  IsFiniteSet(Entries(f, S, p)) /\ Cardinality(Entries(f, S, p)) \in Nat
  <1> DEFINE g == [t \in S |-> {t} \X EntriesFor(f[t], p)]
             R == {{t} \X EntriesFor(f[t], p) : t \in S}
  <1>1. IsFiniteSet(S)
    BY FS_Subset, PollAssumption DEF PollAssumption
  <1>2. g \in Surjection(S, R)
    BY DEF Surjection
  <1>3. IsFiniteSet(R)
    <2> HIDE DEF g, R
    <2> QED  BY <1>1, <1>2, FS_Surjection
  <1>4. ASSUME NEW t \in S PROVE IsFiniteSet({t} \X EntriesFor(f[t], p))
    <2>1. f[t] \in Array
      OBVIOUS
    <2>2. IsFiniteSet(EntriesFor(f[t], p))
      BY <2>1, ArrayProps
    <2> QED  BY <2>2, FS_Singleton, FS_Product
  <1>5. \A X \in R : IsFiniteSet(X)
    BY <1>4
  <1>6. IsFiniteSet(UNION R)
    <2> HIDE DEF R
    <2> QED  BY <1>3, <1>5, FS_UNION
  <1> QED  BY <1>6, FS_CardinalityType DEF Entries

\* The entries of one thread.
LEMMA EntriesOfOne ==
    ASSUME NEW f \in [Thread -> Array], NEW t \in Thread, NEW p
    PROVE  Cardinality(Entries(f, {t}, p)) = NumIn(f[t], p)
  <1>1. IsFiniteSet(EntriesFor(f[t], p)) /\ NumIn(f[t], p) \in Nat
    BY ArrayProps
  <1>2. Entries(f, {t}, p) = {t} \X EntriesFor(f[t], p)
    BY DEF Entries
  <1>3. /\ IsFiniteSet({t}) /\ Cardinality({t}) = 1
    BY FS_Singleton
  <1>4. Cardinality({t} \X EntriesFor(f[t], p)) = 1 * Cardinality(EntriesFor(f[t], p))
    BY <1>1, <1>3, FS_Product
  <1>5. Cardinality(EntriesFor(f[t], p)) \in Nat /\ NumIn(f[t], p) = Cardinality(EntriesFor(f[t], p))
    BY <1>1 DEF NumIn
  <1>6. Cardinality({t} \X EntriesFor(f[t], p)) = Cardinality(EntriesFor(f[t], p))
    BY <1>4, <1>5
  <1> QED  BY <1>2, <1>5, <1>6, Zenon

\* The entries of two sets of threads add up.
LEMMA EntriesSplit ==
    ASSUME NEW f \in [Thread -> Array], NEW A \in SUBSET Thread, NEW B \in SUBSET Thread,
           A \cap B = {}, NEW p
    PROVE  Cardinality(Entries(f, A \cup B, p)) =
             Cardinality(Entries(f, A, p)) + Cardinality(Entries(f, B, p))
  <1>1. Entries(f, A \cup B, p) = Entries(f, A, p) \cup Entries(f, B, p)
    BY DEF Entries
  <1>2. Entries(f, A, p) \cap Entries(f, B, p) = {}
    <2> SUFFICES ASSUME NEW x \in Entries(f, A, p), x \in Entries(f, B, p) PROVE FALSE
      OBVIOUS
    <2>1. PICK t \in A : x \in {t} \X EntriesFor(f[t], p)
      BY DEF Entries
    <2>2. PICK u \in B : x \in {u} \X EntriesFor(f[u], p)
      BY DEF Entries
    <2>3. x[1] = t /\ x[1] = u
      BY <2>1, <2>2
    <2> QED  BY <2>3
  <1>3. /\ IsFiniteSet(Entries(f, A, p)) /\ Cardinality(Entries(f, A, p)) \in Nat
        /\ IsFiniteSet(Entries(f, B, p)) /\ Cardinality(Entries(f, B, p)) \in Nat
    BY EntriesFinite
  <1>4. Cardinality(Entries(f, A, p) \cup Entries(f, B, p)) =
          Cardinality(Entries(f, A, p)) + Cardinality(Entries(f, B, p)) - Cardinality({})
    BY <1>2, <1>3, FS_Union
  <1>5. Cardinality({}) = 0
    BY FS_EmptySet
  <1>6. Cardinality(Entries(f, A, p) \cup Entries(f, B, p)) =
          Cardinality(Entries(f, A, p)) + Cardinality(Entries(f, B, p))
    BY <1>3, <1>4, <1>5
  <1> QED  BY <1>1, <1>6, Zenon

\* A count is positive exactly if some thread asks.
LEMMA EntriesPositive ==
    ASSUME NEW f \in [Thread -> Array], NEW S \in SUBSET Thread, NEW p \in Pair
    PROVE  Cardinality(Entries(f, S, p)) > 0 <=> \E t \in S : p \in Asked(f[t])
  <1>1. IsFiniteSet(Entries(f, S, p)) /\ Cardinality(Entries(f, S, p)) \in Nat
    BY EntriesFinite
  <1>2. Cardinality(Entries(f, S, p)) > 0 <=> Entries(f, S, p) # {}
    BY <1>1, FS_EmptySet
  <1>3. \A t \in S : p \in Asked(f[t]) <=> EntriesFor(f[t], p) # {}
    BY ArrayProps
  <1>4. Entries(f, S, p) # {} <=> \E t \in S : EntriesFor(f[t], p) # {}
    <2>1. ASSUME NEW x \in Entries(f, S, p) PROVE \E t \in S : EntriesFor(f[t], p) # {}
      BY DEF Entries
    <2>2. ASSUME NEW t \in S, NEW i \in EntriesFor(f[t], p) PROVE <<t, i>> \in Entries(f, S, p)
      <3>1. <<t, i>> \in {t} \X EntriesFor(f[t], p)
        OBVIOUS
      <3> QED  BY <3>1, Zenon DEF Entries
    <2> QED  BY <2>1, <2>2
  <1> QED  BY <1>2, <1>3, <1>4

-----------------------------------------------------------------------------
(* The queues.  Polling: who is linked into the I/O queue is inside st_poll. *)

Polling == \A t \in ToSet(ioq) : pc[t] = "poll"

BaseInv == BaseTypeOK /\ InOnePlace /\ Polling

\* The arrays of the threads are arrays.
LEMMA PdsType == BaseTypeOK => pds \in [Thread -> Array]
  <1>1. <<>> \in Array
    BY DEF Array
  <1>2. Request \subseteq Array
    BY PollAssumption DEF PollAssumption, Array, Entry
  <1> QED  BY <1>1, <1>2 DEF BaseTypeOK

\* The waiting threads, by membership.
LEMMA WaitingIs ==
    ASSUME BaseTypeOK
    PROVE  /\ \A t \in Thread : t \in Waiting <=> pc[t] = "poll" /\ t # running /\ t \notin ToSet(runq)
           /\ Waiting \subseteq Thread
  <1>1. \A t \in Thread : Contains(runq, t) <=> t \in ToSet(runq)
    BY ContainsIsMember DEF BaseTypeOK
  <1> QED  BY <1>1 DEF Waiting

\* _st_vp_schedule: the head of the queue runs, or the idle thread.
LEMMA ScheduleProps ==
    ASSUME NEW q \in Seq(Thread), IsInjective(q), Schedule(q)
    PROVE  /\ running' \in Thread \cup {Idle}
           /\ runq' \in Seq(Thread) /\ IsInjective(runq')
           /\ running' \notin ToSet(runq')
           /\ running' = Idle => runq' = <<>>
           /\ \A t \in Thread : t \in ToSet(q) <=> t = running' \/ t \in ToSet(runq')
           /\ \A t \in Thread : Contains(runq', t) <=> t \in ToSet(runq')
  <1>0. Idle \notin Thread
    BY PollAssumption DEF PollAssumption
  <1>1. CASE q = <<>>
    <2>1. running' = Idle /\ runq' = <<>> /\ ToSet(<<>>) = {} /\ IsInjective(<<>>)
      BY <1>1, EmptyElems DEF Schedule
    <2> QED  BY <1>0, <1>1, <2>1, ContainsIsMember
  <1>2. CASE q # <<>>
    <2>1. running' = Head(q) /\ runq' = Tail(q)
      BY <1>2 DEF Schedule
    <2>2. /\ Head(q) \in Thread /\ Tail(q) \in Seq(Thread)
          /\ ToSet(q) = ToSet(Tail(q)) \cup {Head(q)}
          /\ IsInjective(Tail(q)) /\ Head(q) \notin ToSet(Tail(q))
      BY <1>2, TailElems
    <2> QED  BY <1>0, <2>1, <2>2, ContainsIsMember
  <1> QED  BY <1>1, <1>2

\* The initial queues hold every thread once.
LEMMA BaseInitial == BaseInit => BaseInv
  <1> SUFFICES ASSUME BaseInit PROVE BaseInv
    OBVIOUS
  <1> DEFINE n == Cardinality(Thread)
  <1>1. PICK q \in [1..n -> Thread] :
            /\ ToSet(q) = Thread /\ running = Head(q) /\ runq = Tail(q)
            /\ pc = [t \in Thread |-> "user"]
            /\ ioq = <<>> /\ armed = {} /\ interrupt = {}
            /\ pds = [t \in Thread |-> <<>>]
            /\ revents = [t \in Thread |-> {}]
            /\ open = Fd /\ ready = {}
    BY DEF BaseInit
  <1>2. IsFiniteSet(Thread) /\ n \in Nat
    BY PollAssumption, FS_CardinalityType DEF PollAssumption
  <1>3. q \in Seq(Thread) /\ Len(q) = n /\ DOMAIN q = 1..n
    BY <1>2
  <1>4. IsInjective(q)
    <2>1. q \in Surjection(1..n, Thread)
      BY <1>1, <1>3 DEF Surjection, ToSet
    <2>2. IsFiniteSet(1..n) /\ Cardinality(1..n) = n
      BY <1>2, FS_Interval
    <2>3. q \in Injection(1..n, Thread)
      BY <2>1, <2>2, FS_SurjSameCardinalityImpliesInj
    <2> QED  BY <2>3 DEF Injection
  <1>5. q # <<>>
    BY <1>1, EmptyElems, PollAssumption DEF PollAssumption
  <1>6. /\ Head(q) \in Thread /\ Tail(q) \in Seq(Thread)
        /\ IsInjective(Tail(q)) /\ Head(q) \notin ToSet(Tail(q))
    BY <1>3, <1>4, <1>5, TailElems
  <1>7. ToSet(ioq) = {} /\ IsInjective(ioq) /\ ioq \in Seq(Thread)
    BY <1>1, EmptyElems
  <1>8. BaseTypeOK
    BY <1>1, <1>6 DEF BaseTypeOK
  <1>9. Waiting = {}
    BY <1>1 DEF Waiting
  <1>10. InOnePlace
    <2>1. running # Idle
      BY <1>1, <1>6, PollAssumption DEF PollAssumption
    <2>2. ~Contains(runq, running)
      BY <1>1, <1>6, ContainsIsMember
    <2> QED  BY <1>1, <1>6, <1>7, <1>9, <2>1, <2>2 DEF InOnePlace
  <1> QED  BY <1>7, <1>8, <1>10 DEF BaseInv, Polling

\* Linking a request into the I/O queue and switching to the next thread.
LEMMA EnqueueBase ==
    ASSUME BaseInv, NEW r \in Request, NEW timed \in BOOLEAN, Enqueue(r, timed)
    PROVE  /\ BaseInv' /\ running \in Thread /\ running \notin ToSet(ioq)
           /\ ToSet(ioq') = ToSet(ioq) \cup {running}
           /\ pds' = [pds EXCEPT ![running] = r]
           /\ Waiting' \subseteq Waiting \cup {running} /\ UNCHANGED os
  <1>0. BaseTypeOK /\ InOnePlace /\ Polling
    BY DEF BaseInv
  <1>1. /\ running \in Thread /\ pc[running] = "user" /\ running \notin interrupt
        /\ pds' = [pds EXCEPT ![running] = r]
        /\ revents' = [revents EXCEPT ![running] = {}]
        /\ ioq' = Append(ioq, running)
        /\ armed' = IF timed THEN armed \cup {running} ELSE armed
        /\ pc' = [pc EXCEPT ![running] = "poll"]
        /\ Schedule(runq)
        /\ UNCHANGED <<interrupt, open, ready>>
    BY <1>0 DEF Enqueue, InUser, BaseTypeOK, os
  <1>2. running \notin ToSet(ioq)
    BY <1>0, <1>1 DEF Polling
  <1>3. ioq' \in Seq(Thread) /\ IsInjective(ioq') /\ ToSet(ioq') = ToSet(ioq) \cup {running}
    BY <1>0, <1>1, <1>2, AppendElems DEF BaseTypeOK, InOnePlace
  <1>4. /\ running' \in Thread \cup {Idle}
        /\ runq' \in Seq(Thread) /\ IsInjective(runq')
        /\ running' \notin ToSet(runq')
        /\ running' = Idle => runq' = <<>>
        /\ \A t \in Thread : t \in ToSet(runq) <=> t = running' \/ t \in ToSet(runq')
        /\ \A t \in Thread : Contains(runq', t) <=> t \in ToSet(runq')
    BY <1>0, <1>1, ScheduleProps DEF BaseTypeOK, InOnePlace
  <1>5. BaseTypeOK'
    BY <1>0, <1>1, <1>3, <1>4 DEF BaseTypeOK
  <1>6. running \notin ToSet(runq)
    BY <1>0, <1>1, ContainsIsMember DEF BaseTypeOK, InOnePlace
  <1>7. /\ \A t \in Thread : t \in Waiting <=> pc[t] = "poll" /\ t # running /\ t \notin ToSet(runq)
        /\ \A t \in Thread : t \in Waiting' <=> pc'[t] = "poll" /\ t # running' /\ t \notin ToSet(runq')
        /\ Waiting \subseteq Thread /\ Waiting' \subseteq Thread
    BY <1>0, <1>4, WaitingIs DEF Waiting
  <1>8. Waiting' = Waiting \cup {running}
    BY <1>0, <1>1, <1>4, <1>6, <1>7 DEF BaseTypeOK
  <1>9. ~Contains(runq', running')
    BY <1>4, ContainsIsMember
  <1>10. armed' \subseteq Waiting' /\ Waiting' \subseteq ToSet(ioq')
    BY <1>0, <1>1, <1>3, <1>8 DEF InOnePlace
  <1>11. InOnePlace'
    BY <1>3, <1>4, <1>9, <1>10 DEF InOnePlace
  <1>12. Polling'
    BY <1>0, <1>1, <1>3 DEF Polling, BaseTypeOK
  <1> QED  BY <1>1, <1>2, <1>3, <1>5, <1>8, <1>11, <1>12 DEF BaseInv, os

\* Coming back from st_poll: what is still linked is taken out.
LEMMA ReturnBase ==
    ASSUME BaseInv, PollReturn
    PROVE  /\ BaseInv' /\ running \in Thread
           /\ ToSet(ioq') = ToSet(ioq) \ {running}
           /\ pds' = [pds EXCEPT ![running] = <<>>]
           /\ Waiting' = Waiting /\ UNCHANGED os
  <1>0. BaseTypeOK /\ InOnePlace /\ Polling
    BY DEF BaseInv
  <1>1. /\ running \in Thread /\ pc[running] = "poll"
        /\ pc' = [pc EXCEPT ![running] = "user"]
        /\ ioq' = Unlink(ioq, {running})
        /\ pds' = [pds EXCEPT ![running] = <<>>]
        /\ revents' = [revents EXCEPT ![running] = {}]
        /\ interrupt' = interrupt \ {running}
        /\ UNCHANGED <<running, runq, armed, open, ready>>
    BY <1>0 DEF PollReturn, BaseTypeOK, os, sched
  <1>2. ioq' \in Seq(Thread) /\ IsInjective(ioq') /\ ToSet(ioq') = ToSet(ioq) \ {running}
    BY <1>0, <1>1, UnlinkElems DEF BaseTypeOK, InOnePlace
  <1>3. BaseTypeOK'
    BY <1>0, <1>1, <1>2 DEF BaseTypeOK
  <1>4. Waiting' = Waiting /\ running \notin Waiting
    BY <1>0, <1>1 DEF Waiting, BaseTypeOK
  <1>5. InOnePlace'
    BY <1>0, <1>1, <1>2, <1>4 DEF InOnePlace
  <1>6. Polling'
    <2>1. ToSet(ioq) \subseteq Thread
      BY <1>0 DEF ToSet, BaseTypeOK
    <2>2. ASSUME NEW t \in ToSet(ioq') PROVE pc'[t] = "poll"
      BY <1>0, <1>1, <1>2, <2>1 DEF Polling, BaseTypeOK
    <2> QED  BY <2>2 DEF Polling
  <1> QED  BY <1>1, <1>2, <1>3, <1>4, <1>5, <1>6 DEF BaseInv, os

\* An interrupt makes a waiting thread runnable and leaves its request linked.
LEMMA InterruptBase ==
    ASSUME BaseInv, NEW t \in Thread, Interrupt(t)
    PROVE  BaseInv' /\ Waiting' \subseteq Waiting /\ UNCHANGED <<ioq, pds, os>>
  <1>0. BaseTypeOK /\ InOnePlace /\ Polling
    BY DEF BaseInv
  <1>1. /\ interrupt' = interrupt \cup {t} /\ running # Idle
        /\ runq' = IF t \in Waiting THEN Append(runq, t) ELSE runq
        /\ armed' = IF t \in Waiting THEN armed \ {t} ELSE armed
        /\ UNCHANGED <<running, pc, ioq, pds, revents, open, ready>>
    BY DEF Interrupt, InUser, os
  <1>2. CASE t \notin Waiting
    <2>1. UNCHANGED <<running, runq, armed, pc, ioq, pds, revents, open, ready>>
      BY <1>1, <1>2
    <2>2. Waiting' = Waiting
      BY <2>1 DEF Waiting
    <2> QED  BY <1>0, <1>1, <2>1, <2>2 DEF BaseInv, BaseTypeOK, InOnePlace, Polling, os
  <1>3. CASE t \in Waiting
    <2>1. /\ \A u \in Thread : u \in Waiting <=> pc[u] = "poll" /\ u # running /\ u \notin ToSet(runq)
          /\ Waiting \subseteq Thread
      BY <1>0, WaitingIs
    <2>2. /\ runq' \in Seq(Thread) /\ IsInjective(runq')
          /\ ToSet(runq') = ToSet(runq) \cup {t}
      BY <1>0, <1>1, <1>3, <2>1, AppendElems DEF BaseTypeOK, InOnePlace
    <2>3. \A u : Contains(runq', u) <=> u \in ToSet(runq')
      BY <2>2, ContainsIsMember
    <2>4. BaseTypeOK'
      BY <1>0, <1>1, <2>2 DEF BaseTypeOK
    <2>5. Waiting' = Waiting \ {t}
      BY <1>1, <2>1, <2>2, <2>3 DEF Waiting
    <2>6. ~Contains(runq', running')
      <3>1. running \notin ToSet(runq)
        BY <1>0, ContainsIsMember DEF BaseTypeOK, InOnePlace
      <3> QED  BY <1>1, <1>3, <2>1, <2>2, <2>3, <3>1
    <2>7. InOnePlace'
      BY <1>0, <1>1, <1>3, <2>2, <2>5, <2>6 DEF InOnePlace
    <2> QED  BY <1>0, <1>1, <2>4, <2>5, <2>7 DEF BaseInv, Polling, os
  <1> QED  BY <1>2, <1>3

\* Steps that leave the queues alone.
LEMMA OtherBase ==
    ASSUME BaseInv, UNCHANGED <<running, runq, pc, ioq, pds, revents, armed>>,
           interrupt' \subseteq Thread, open' \subseteq Fd, ready' \subseteq Pair
    PROVE  BaseInv' /\ Waiting' = Waiting
  <1>1. Waiting' = Waiting
    BY DEF Waiting
  <1> QED  BY <1>1 DEF BaseInv, BaseTypeOK, InOnePlace, Polling

\* A turn of the idle thread: the threads of hit leave the I/O queue, those of late
\* only become runnable.
LEMMA TurnBase ==
    ASSUME BaseInv, NEW hit, hit \subseteq ToSet(ioq), NEW rev, NEW late \in Lines,
           \A t \in hit : rev[t] \subseteq Fd \X (Event \cup {"nval", "err"}),
           Turn(hit, rev, late)
    PROVE  /\ BaseInv' /\ ToSet(ioq') = ToSet(ioq) \ hit
           /\ \A t \in hit : revents'[t] = rev[t]
           /\ Waiting' \subseteq Waiting /\ UNCHANGED <<pds, os>>
  <1>0. BaseTypeOK /\ InOnePlace /\ Polling
    BY DEF BaseInv
  <1> DEFINE io == Among(ioq, hit)
             q == io \o late
  <1>1. /\ running = Idle
        /\ ToSet(late) \subseteq armed \ hit
        /\ Schedule(q)
        /\ ioq' = Unlink(ioq, hit)
        /\ revents' = [t \in Thread |-> IF t \in hit THEN rev[t] ELSE revents[t]]
        /\ armed' = armed \ (hit \cup ToSet(late))
        /\ UNCHANGED <<pc, pds, interrupt, open, ready>>
    BY DEF Turn, os
  <1>2. late \in Seq(Thread) /\ IsInjective(late)
    <2>1. CASE late = <<>>
      BY <2>1, EmptyElems
    <2>2. CASE late # <<>>
      <3>1. PICK n \in 1..Cardinality(Thread) : late \in [1..n -> Thread] /\ IsInjective(late)
        BY <2>2 DEF Lines
      <3>2. n \in Nat
        BY <3>1, PollAssumption, FS_CardinalityType DEF PollAssumption
      <3> QED  BY <3>1, <3>2
    <2> QED  BY <2>1, <2>2
  <1>3. ToSet(ioq) \subseteq Thread
    BY <1>0 DEF ToSet, BaseTypeOK
  <1>4. io \in Seq(Thread) /\ IsInjective(io) /\ ToSet(io) = hit
    <2>1. ioq \in Seq(Thread) /\ IsInjective(ioq)
      BY <1>0 DEF BaseTypeOK, InOnePlace
    <2>2. io \in Seq(Thread) /\ IsInjective(io) /\ ToSet(io) = ToSet(ioq) \cap hit
      BY <2>1, AmongElems
    <2> HIDE DEF io
    <2> QED  BY <2>2
  <1>5. q \in Seq(Thread) /\ IsInjective(q) /\ ToSet(q) = hit \cup ToSet(late)
    <2> HIDE DEF io
    <2> QED  BY <1>1, <1>2, <1>4, ConcatElems
  <1>6. /\ running' \in Thread \cup {Idle}
        /\ runq' \in Seq(Thread) /\ IsInjective(runq')
        /\ running' \notin ToSet(runq')
        /\ running' = Idle => runq' = <<>>
        /\ \A t \in Thread : t \in ToSet(q) <=> t = running' \/ t \in ToSet(runq')
        /\ \A t \in Thread : Contains(runq', t) <=> t \in ToSet(runq')
    <2> HIDE DEF q
    <2> QED  BY <1>1, <1>5, ScheduleProps
  <1>7. ioq' \in Seq(Thread) /\ IsInjective(ioq') /\ ToSet(ioq') = ToSet(ioq) \ hit
    BY <1>0, <1>1, UnlinkElems DEF BaseTypeOK, InOnePlace
  <1>8. revents' \in [Thread -> SUBSET (Fd \X (Event \cup {"nval", "err"}))]
    BY <1>0, <1>1 DEF BaseTypeOK
  <1>9. BaseTypeOK'
    BY <1>0, <1>1, <1>6, <1>7, <1>8 DEF BaseTypeOK
  <1>10. /\ \A t \in Thread : t \in Waiting <=> pc[t] = "poll" /\ t # running /\ t \notin ToSet(runq)
         /\ Waiting \subseteq Thread
    BY <1>0, WaitingIs
  <1>11. \A t \in Thread : t \in Waiting' <=> pc'[t] = "poll" /\ t # running' /\ t \notin ToSet(runq')
    BY <1>6 DEF Waiting
  <1>12. ToSet(runq) = {} /\ Idle \notin Thread
    BY <1>0, <1>1, EmptyElems, PollAssumption DEF InOnePlace, PollAssumption
  <1>13. Waiting' = Waiting \ (hit \cup ToSet(late))
    <2> HIDE DEF q
    <2>1. Waiting' \subseteq Thread
      BY DEF Waiting
    <2> QED  BY <1>1, <1>5, <1>6, <1>10, <1>11, <1>12, <2>1
  <1>14. InOnePlace'
    <2>1. ~Contains(runq', running')
      BY <1>6, ContainsIsMember
    <2>2. armed' \subseteq Waiting' /\ Waiting' \subseteq ToSet(ioq')
      BY <1>0, <1>1, <1>7, <1>13 DEF InOnePlace
    <2> QED  BY <1>6, <1>7, <2>1, <2>2 DEF InOnePlace
  <1>15. Polling'
    BY <1>0, <1>1, <1>7 DEF Polling
  <1>16. \A t \in hit : revents'[t] = rev[t]
    BY <1>1, <1>3
  <1> QED  BY <1>1, <1>7, <1>9, <1>13, <1>14, <1>15, <1>16 DEF BaseInv, os

-----------------------------------------------------------------------------
(* Reference counts, bits and the highest descriptor.                       *)

SelTypeOK ==
    /\ cnt \in [Pair -> Nat] /\ fdset \subseteq Pair
    /\ maxfd \in Fd \cup {-1} /\ raw \in BOOLEAN

\* Counts and bits, without the highest descriptor.
CountsMatch ==
    /\ \A p \in Pair : cnt[p] = NumOf(ToSet(ioq), p)
    /\ fdset = {p \in Pair : cnt[p] > 0}

MaxMatches == \A p \in fdset : p[1] <= maxfd

\* No entry on the I/O queue asks for nothing.
Asks == \A t \in ToSet(ioq) : \A i \in DOMAIN pds[t] : pds[t][i].events # {}

IInv == BaseInv /\ SelTypeOK /\ CountsRight /\ Asks /\ NeverBad

\* What the counts are, spelled out with the entries.
LEMMA NumOfIs == \A S, p : NumOf(S, p) = Cardinality(Entries(pds, S, p))
  BY DEF NumOf, Entries

\* _st_select_pollset_add: the request of one more thread is counted.
LEMMA AddCounts ==
    ASSUME BaseInv, SelTypeOK, CountsMatch, NEW r \in Array, NEW t \in Thread,
           t \notin ToSet(ioq), ToSet(ioq') = ToSet(ioq) \cup {t},
           pds' = [pds EXCEPT ![t] = r], PollsetAdd(r)
    PROVE  CountsMatch' /\ cnt' \in [Pair -> Nat]
  <1> DEFINE S == ToSet(ioq)
  <1>1. pds \in [Thread -> Array] /\ pds' \in [Thread -> Array] /\ S \in SUBSET Thread
    <2>1. BaseTypeOK
      BY DEF BaseInv
    <2> QED  BY <2>1, PdsType DEF BaseTypeOK, ToSet
  <1>2. cnt' = [p \in Pair |-> cnt[p] + NumIn(r, p)] /\ fdset' = fdset \cup Asked(r)
    BY DEF PollsetAdd
  <1>3. ASSUME NEW p \in Pair
        PROVE  /\ cnt'[p] \in Nat
               /\ cnt'[p] = NumOf(ToSet(ioq), p)'
               /\ cnt'[p] > 0 <=> p \in fdset \/ p \in Asked(r)
    <2>1. cnt[p] = Cardinality(Entries(pds, S, p)) /\ cnt[p] \in Nat
      BY NumOfIs DEF CountsMatch, SelTypeOK
    <2>2. NumOf(ToSet(ioq), p)' = Cardinality(Entries(pds', S \cup {t}, p))
      BY DEF NumOf, Entries
    <2>3. Cardinality(Entries(pds', S \cup {t}, p)) =
            Cardinality(Entries(pds', S, p)) + Cardinality(Entries(pds', {t}, p))
      <3> DEFINE g == pds'
                 one == {t}
      <3>1. one \in SUBSET Thread /\ S \cap one = {} /\ g \in [Thread -> Array]
        BY <1>1
      <3>2. Cardinality(Entries(g, S \cup one, p)) =
              Cardinality(Entries(g, S, p)) + Cardinality(Entries(g, one, p))
        <4> HIDE DEF S, g, one
        <4> QED  BY <1>1, <3>1, EntriesSplit
      <3> QED  BY <3>2
    <2>4. Entries(pds', S, p) = Entries(pds, S, p)
      <3>1. \A u \in S : pds'[u] = pds[u]
        BY <1>1
      <3> HIDE DEF S
      <3> QED  BY <3>1 DEF Entries
    <2>5. Cardinality(Entries(pds', {t}, p)) = NumIn(r, p)
      <3>1. pds'[t] = r
        BY <1>1
      <3> QED  BY <1>1, <3>1, EntriesOfOne
    <2>6. NumIn(r, p) \in Nat /\ (NumIn(r, p) > 0 <=> p \in Asked(r))
      BY ArrayProps
    <2>7. cnt'[p] = cnt[p] + NumIn(r, p)
      BY <1>2
    <2>8. p \in fdset <=> cnt[p] > 0
      BY DEF CountsMatch
    <2> HIDE DEF S
    <2> QED  BY <2>1, <2>2, <2>3, <2>4, <2>5, <2>6, <2>7, <2>8
  <1>4. Asked(r) \subseteq Pair /\ fdset \subseteq Pair
    BY ArrayProps DEF SelTypeOK
  <1>5. fdset' = {p \in Pair : cnt'[p] > 0}
    BY <1>2, <1>3, <1>4
  <1>6. cnt' \in [Pair -> Nat]
    BY <1>2, <1>3
  <1> QED  BY <1>3, <1>5, <1>6 DEF CountsMatch

\* _st_select_pollset_del: the requests of the threads in H are taken back.
LEMMA DelCounts ==
    ASSUME BaseInv, SelTypeOK, CountsMatch, NEW H, H \subseteq ToSet(ioq),
           ToSet(ioq') = ToSet(ioq) \ H, \A u \in ToSet(ioq') : pds'[u] = pds[u],
           PollsetDel(H)
    PROVE  CountsMatch' /\ cnt' \in [Pair -> Nat] /\ fdset' \subseteq fdset
  <1> DEFINE S == ToSet(ioq)
  <1>1. pds \in [Thread -> Array] /\ S \in SUBSET Thread
    <2>1. BaseTypeOK
      BY DEF BaseInv
    <2> QED  BY <2>1, PdsType DEF BaseTypeOK, ToSet
  <1>2. /\ cnt' = [p \in Pair |-> cnt[p] - NumOf(H, p)]
        /\ fdset' = {p \in fdset : NumOf(H, p) > 0 => cnt[p] - NumOf(H, p) # 0}
    BY DEF PollsetDel
  <1>3. ASSUME NEW p \in Pair
        PROVE  /\ cnt'[p] \in Nat
               /\ cnt'[p] = NumOf(ToSet(ioq), p)'
               /\ cnt'[p] > 0 <=> p \in fdset'
    <2>1. cnt[p] = Cardinality(Entries(pds, S, p)) /\ cnt[p] \in Nat
      BY NumOfIs DEF CountsMatch, SelTypeOK
    <2>2. NumOf(H, p) = Cardinality(Entries(pds, H, p))
      BY NumOfIs
    <2>3. NumOf(ToSet(ioq), p)' = Cardinality(Entries(pds', S \ H, p))
      BY DEF NumOf, Entries
    <2>4. Entries(pds', S \ H, p) = Entries(pds, S \ H, p)
      <3>1. \A u \in S \ H : pds'[u] = pds[u]
        OBVIOUS
      <3> HIDE DEF S
      <3> QED  BY <3>1 DEF Entries
    <2>5. Cardinality(Entries(pds, S, p)) =
            Cardinality(Entries(pds, S \ H, p)) + Cardinality(Entries(pds, H, p))
      <3>1. S = (S \ H) \cup H /\ (S \ H) \cap H = {} /\ H \in SUBSET Thread /\ S \ H \in SUBSET Thread
        BY <1>1
      <3>2. Cardinality(Entries(pds, (S \ H) \cup H, p)) =
              Cardinality(Entries(pds, S \ H, p)) + Cardinality(Entries(pds, H, p))
        <4> HIDE DEF S
        <4> QED  BY <1>1, <3>1, EntriesSplit
      <3> HIDE DEF S
      <3> QED  BY <3>1, <3>2
    <2>6. Cardinality(Entries(pds, S \ H, p)) \in Nat /\ Cardinality(Entries(pds, H, p)) \in Nat
      <3>1. H \in SUBSET Thread /\ S \ H \in SUBSET Thread
        BY <1>1
      <3> HIDE DEF S
      <3> QED  BY <1>1, <3>1, EntriesFinite
    <2>7. cnt'[p] = cnt[p] - NumOf(H, p)
      BY <1>2
    <2>8. p \in fdset <=> cnt[p] > 0
      BY DEF CountsMatch
    <2>9. p \in fdset' <=> p \in fdset /\ (NumOf(H, p) > 0 => cnt[p] - NumOf(H, p) # 0)
      BY <1>2
    <2>10. cnt'[p] = Cardinality(Entries(pds, S \ H, p))
      <3> HIDE DEF S
      <3> QED  BY <2>1, <2>2, <2>5, <2>6, <2>7
    <2>11. cnt'[p] = NumOf(ToSet(ioq), p)'
      BY <2>3, <2>4, <2>10
    <2>12. cnt[p] \in Nat /\ NumOf(H, p) \in Nat /\ cnt'[p] \in Nat /\ cnt'[p] = cnt[p] - NumOf(H, p)
      BY <2>1, <2>2, <2>6, <2>7, <2>10
    <2>13. cnt'[p] > 0 <=> p \in fdset'
      BY <2>8, <2>9, <2>12
    <2> QED  BY <2>11, <2>12, <2>13
  <1>4. fdset' \subseteq fdset /\ fdset \subseteq Pair
    BY <1>2 DEF SelTypeOK
  <1>5. fdset' = {p \in Pair : cnt'[p] > 0}
    BY <1>3, <1>4
  <1>6. cnt' \in [Pair -> Nat]
    BY <1>2, <1>3
  <1> QED  BY <1>3, <1>4, <1>5, <1>6 DEF CountsMatch

\* The highest descriptor dispatch computes bounds what is left on the queue.
LEMMA MaxRecomputed ==
    ASSUME NEW f \in [Thread -> Array], NEW S \in SUBSET Thread,
           NEW m, m = MaxOf({-1} \cup UNION {FdsOf(f[t]) : t \in S})
    PROVE  /\ m \in Fd \cup {-1}
           /\ \A t \in S, p \in Pair : p \in Asked(f[t]) => p[1] <= m
  <1> DEFINE U == {-1} \cup UNION {FdsOf(f[t]) : t \in S}
  <1>1. \A t \in S : FdsOf(f[t]) \subseteq Fd
    BY ArrayProps
  <1>2. U \subseteq Fd \cup {-1} /\ -1 \in U
    BY <1>1
  <1>3. IsFiniteSet(U) /\ U \subseteq Int
    <2> HIDE DEF U
    <2> QED  BY <1>2, FdInts, FS_Subset
  <1>4. m \in U /\ \A x \in U : x <= m
    <2> HIDE DEF U
    <2>1. U # {}
      BY <1>2
    <2>2. m = MaxOf(U)
      BY DEF U
    <2> QED  BY <1>3, <2>1, <2>2, MaxOfProps
  <1>5. ASSUME NEW t \in S, NEW p \in Pair, p \in Asked(f[t]) PROVE p[1] \in U
    <2>1. p[1] \in FdsOf(f[t])
      BY <1>5, ArrayProps
    <2> QED  BY <2>1
  <1> HIDE DEF U
  <1> QED  BY <1>2, <1>4, <1>5

\* The initial state.
LEMMA InvInit == Init => IInv
  <1> SUFFICES ASSUME Init PROVE IInv
    OBVIOUS
  <1>1. /\ BaseInv /\ ioq = <<>> /\ ToSet(ioq) = {}
        /\ cnt = [p \in Pair |-> 0] /\ fdset = {} /\ maxfd = -1 /\ raw = FALSE
    <2>1. BaseInit /\ cnt = [p \in Pair |-> 0] /\ fdset = {} /\ maxfd = -1 /\ raw = FALSE
      BY DEF Init
    <2>2. ioq = <<>>
      BY <2>1 DEF BaseInit
    <2> QED  BY <2>1, <2>2, BaseInitial, EmptyElems
  <1>2. SelTypeOK
    BY <1>1 DEF SelTypeOK
  <1>3. \A p : NumOf(ToSet(ioq), p) = 0
    BY <1>1, FS_EmptySet DEF NumOf
  <1>4. CountsRight
    BY <1>1, <1>3 DEF CountsRight
  <1>5. Asks /\ NeverBad
    <2>1. Waiting \subseteq ToSet(ioq)
      BY <1>1 DEF BaseInv, InOnePlace
    <2> QED  BY <1>1, <2>1 DEF Asks, NeverBad
  <1> QED  BY <1>1, <1>2, <1>4, <1>5 DEF IInv

\* st_poll: a request is linked and counted.
LEMMA PollStep ==
    ASSUME IInv, NEW r \in Request, NEW timed \in BOOLEAN, FdsOf(r) \subseteq open,
           Poll(r, timed)
    PROVE  IInv'
  <1>0. BaseInv /\ SelTypeOK /\ CountsRight /\ Asks /\ NeverBad /\ CountsMatch /\ MaxMatches
    BY DEF IInv, CountsRight, CountsMatch, MaxMatches
  <1>1. Enqueue(r, timed) /\ PollsetAdd(r) /\ raw' = raw
    BY DEF Poll
  <1>2. /\ BaseInv' /\ running \in Thread /\ running \notin ToSet(ioq)
        /\ ToSet(ioq') = ToSet(ioq) \cup {running}
        /\ pds' = [pds EXCEPT ![running] = r]
        /\ Waiting' \subseteq Waiting \cup {running} /\ UNCHANGED os
    BY <1>0, <1>1, EnqueueBase
  <1>3. r \in Array
    BY PollAssumption DEF PollAssumption, Array, Entry
  <1>4. CountsMatch' /\ cnt' \in [Pair -> Nat]
    BY <1>0, <1>1, <1>2, <1>3, AddCounts
  <1>5. maxfd' \in Fd \cup {-1} /\ maxfd <= maxfd' /\ \A x \in FdsOf(r) : x <= maxfd'
    <2> DEFINE U == {maxfd} \cup FdsOf(r)
    <2>1. maxfd' = MaxOf(U)
      BY <1>1 DEF PollsetAdd
    <2>2. U \subseteq Fd \cup {-1} /\ U # {}
      BY <1>0, <1>3, ArrayProps DEF SelTypeOK
    <2>3. U \subseteq Int /\ IsFiniteSet(U)
      <3> HIDE DEF U
      <3> QED  BY <2>2, FdInts, FS_Subset
    <2>4. maxfd' \in U /\ \A x \in U : x <= maxfd'
      <3> HIDE DEF U
      <3> QED  BY <2>1, <2>2, <2>3, MaxOfProps
    <2> QED  BY <2>2, <2>4
  <1>6. MaxMatches'
    <2> SUFFICES ASSUME NEW p \in fdset' PROVE p[1] <= maxfd'
      BY DEF MaxMatches
    <2>1. fdset' = fdset \cup Asked(r)
      BY <1>1 DEF PollsetAdd
    <2>2. CASE p \in Asked(r)
      BY <1>3, <1>5, <2>2, ArrayProps
    <2>3. CASE p \in fdset
      <3>1. p[1] <= maxfd /\ p[1] \in Fd
        BY <1>0, <2>3 DEF MaxMatches, SelTypeOK, Pair
      <3>2. p[1] \in Int /\ maxfd \in Int /\ maxfd' \in Int
        BY <1>0, <1>5, <3>1, FdInts DEF SelTypeOK
      <3> QED  BY <1>5, <3>1, <3>2
    <2> QED  BY <2>1, <2>2, <2>3
  <1>7. fdset' \subseteq Pair
    BY <1>4 DEF CountsMatch
  <1>8. SelTypeOK'
    BY <1>0, <1>1, <1>4, <1>5, <1>7 DEF SelTypeOK
  <1>9. pds \in [Thread -> Array] /\ ToSet(ioq) \subseteq Thread
    BY <1>0, PdsType DEF BaseInv, BaseTypeOK, ToSet
  <1>10. Asks'
    <2>1. \A i \in DOMAIN r : r[i].events # {}
      BY <1>1 DEF PollsetAdd
    <2>2. pds'[running] = r /\ \A u \in ToSet(ioq) : pds'[u] = pds[u]
      BY <1>2, <1>9
    <2> QED  BY <1>0, <1>2, <2>1, <2>2 DEF Asks
  <1>11. NeverBad'
    <2> SUFFICES ASSUME ~raw', NEW t \in Waiting' PROVE FdsOf(pds'[t]) \subseteq open'
      BY DEF NeverBad
    <2>1. CASE t = running
      BY <1>2, <1>9, <2>1 DEF os
    <2>2. CASE t # running
      <3>1. t \in Waiting /\ t \in Thread /\ open' = open
        BY <1>2, <2>2 DEF os, Waiting
      <3>2. pds'[t] = pds[t]
        BY <1>2, <1>9, <2>2, <3>1
      <3> QED  BY <1>0, <1>1, <3>1, <3>2 DEF NeverBad
    <2> QED  BY <2>1, <2>2
  <1> QED  BY <1>2, <1>4, <1>6, <1>8, <1>10, <1>11 DEF IInv, CountsRight, CountsMatch, MaxMatches

\* What is common to the steps that take requests back: hit leaves the queue.
LEMMA DelStep ==
    ASSUME IInv, BaseInv', NEW H, H \subseteq ToSet(ioq), ToSet(ioq') = ToSet(ioq) \ H,
           pds' \in [Thread -> Array], \A u \in ToSet(ioq') : pds'[u] = pds[u],
           PollsetDel(H), Waiting' \subseteq Waiting, UNCHANGED os, raw' = raw,
           maxfd' \in Fd \cup {-1}, MaxMatches'
    PROVE  IInv'
  <1>0. BaseInv /\ SelTypeOK /\ CountsRight /\ Asks /\ NeverBad /\ CountsMatch /\ MaxMatches
    BY DEF IInv, CountsRight, CountsMatch, MaxMatches
  <1>1. CountsMatch' /\ cnt' \in [Pair -> Nat] /\ fdset' \subseteq fdset
    BY <1>0, DelCounts
  <1>2. SelTypeOK'
    BY <1>0, <1>1 DEF SelTypeOK
  <1>3. Asks'
    BY <1>0 DEF Asks
  <1>4. NeverBad'
    <2> SUFFICES ASSUME ~raw', NEW t \in Waiting' PROVE FdsOf(pds'[t]) \subseteq open'
      BY DEF NeverBad
    <2>1. t \in Waiting /\ t \in ToSet(ioq') /\ open' = open
      BY DEF BaseInv, InOnePlace, os
    <2> QED  BY <1>0, <2>1 DEF NeverBad
  <1> QED  BY <1>1, <1>2, <1>3, <1>4 DEF IInv, CountsRight, CountsMatch, MaxMatches

\* st_poll returns.
LEMMA ReturnStep == ASSUME IInv, Return PROVE IInv'
  <1>0. BaseInv /\ SelTypeOK /\ CountsRight /\ CountsMatch /\ MaxMatches
    BY DEF IInv, CountsRight, CountsMatch, MaxMatches
  <1> DEFINE H == ToSet(ioq) \cap {running}
  <1>1. PollReturn /\ PollsetDel(H) /\ UNCHANGED <<maxfd, raw>>
    BY DEF Return
  <1>2. /\ BaseInv' /\ running \in Thread
        /\ ToSet(ioq') = ToSet(ioq) \ {running}
        /\ pds' = [pds EXCEPT ![running] = <<>>]
        /\ Waiting' = Waiting /\ UNCHANGED os
    BY <1>0, <1>1, ReturnBase
  <1>3. pds \in [Thread -> Array] /\ pds' \in [Thread -> Array] /\ ToSet(ioq) \subseteq Thread
    <2>1. <<>> \in Array
      BY DEF Array
    <2>2. pds \in [Thread -> Array] /\ ToSet(ioq) \subseteq Thread
      BY <1>0, PdsType DEF BaseInv, BaseTypeOK, ToSet
    <2> QED  BY <1>2, <2>1, <2>2
  <1>4. \A u \in ToSet(ioq') : pds'[u] = pds[u]
    BY <1>2, <1>3
  <1>5. H \subseteq ToSet(ioq) /\ ToSet(ioq') = ToSet(ioq) \ H
    BY <1>2
  <1>6. fdset' \subseteq fdset
    BY <1>1 DEF PollsetDel
  <1>7. MaxMatches' /\ maxfd' \in Fd \cup {-1}
    BY <1>0, <1>1, <1>6 DEF MaxMatches, SelTypeOK
  <1> HIDE DEF H
  <1> QED  BY <1>1, <1>2, <1>3, <1>4, <1>5, <1>7, DelStep

\* A turn that takes the requests of hit back and computes the highest descriptor
\* anew.
LEMMA TurnStep ==
    ASSUME IInv, NEW hit, hit \subseteq ToSet(ioq), NEW rev, NEW late \in Lines,
           \A t \in hit : rev[t] \subseteq Fd \X (Event \cup {"nval", "err"}),
           Turn(hit, rev, late), PollsetDel(hit), raw' = raw,
           maxfd' = MaxOf({-1} \cup UNION {FdsOf(pds[t]) : t \in ToSet(ioq) \ hit})
    PROVE  IInv'
  <1>0. BaseInv /\ SelTypeOK /\ CountsRight /\ CountsMatch /\ MaxMatches
    BY DEF IInv, CountsRight, CountsMatch, MaxMatches
  <1>1. /\ BaseInv' /\ ToSet(ioq') = ToSet(ioq) \ hit
        /\ Waiting' \subseteq Waiting /\ UNCHANGED <<pds, os>>
    BY <1>0, TurnBase
  <1>2. pds \in [Thread -> Array] /\ pds' = pds /\ ToSet(ioq) \subseteq Thread
    BY <1>0, <1>1, PdsType DEF BaseInv, BaseTypeOK, ToSet
  <1>3. /\ maxfd' \in Fd \cup {-1}
        /\ \A t \in ToSet(ioq) \ hit, p \in Pair : p \in Asked(pds[t]) => p[1] <= maxfd'
    BY <1>2, MaxRecomputed
  <1>4. CountsMatch' /\ cnt' \in [Pair -> Nat]
    BY <1>0, <1>1, <1>2, DelCounts
  <1>5. MaxMatches'
    <2> SUFFICES ASSUME NEW p \in fdset' PROVE p[1] <= maxfd'
      BY DEF MaxMatches
    <2>1. p \in Pair /\ cnt'[p] > 0 /\ cnt'[p] = NumOf(ToSet(ioq), p)'
      BY <1>4 DEF CountsMatch
    <2>2. NumOf(ToSet(ioq), p)' = Cardinality(Entries(pds, ToSet(ioq) \ hit, p))
      BY <1>1, <1>2 DEF NumOf, Entries
    <2>3. ToSet(ioq) \ hit \in SUBSET Thread
      BY <1>2
    <2>4. \E t \in ToSet(ioq) \ hit : p \in Asked(pds[t])
      BY <1>2, <2>1, <2>2, <2>3, EntriesPositive
    <2> QED  BY <1>3, <2>1, <2>4
  <1> QED  BY <1>1, <1>2, <1>3, <1>5, DelStep

\* What a thread on the queue asks for has its bit and is not beyond maxfd.
LEMMA AskedIsSeen ==
    ASSUME IInv, NEW t \in ToSet(ioq)
    PROVE  Asked(pds[t]) \subseteq fdset /\ \A p \in Asked(pds[t]) : p[1] <= maxfd
  <1>1. pds \in [Thread -> Array] /\ ToSet(ioq) \in SUBSET Thread
    BY PdsType DEF IInv, BaseInv, BaseTypeOK, ToSet
  <1>2. ASSUME NEW p \in Asked(pds[t]) PROVE p \in fdset /\ p[1] <= maxfd
    <2>1. p \in Pair
      BY <1>1, ArrayProps
    <2>2. Cardinality(Entries(pds, ToSet(ioq), p)) > 0
      BY <1>1, <2>1, EntriesPositive
    <2>3. cnt[p] > 0
      BY <2>1, <2>2, NumOfIs DEF IInv, CountsRight
    <2>4. p \in fdset
      BY <2>1, <2>3 DEF IInv, CountsRight
    <2> QED  BY <2>4 DEF IInv, CountsRight
  <1> QED  BY <1>2

\* _st_select_dispatch.
LEMMA DispatchStep ==
    ASSUME IInv, NEW late \in Lines, Dispatch(late)
    PROVE  IInv' /\ ExactTurn
  <1> DEFINE hit == {t \in ToSet(ioq) : Asked(pds[t]) \cap Seen # {}}
             rev == [t \in Thread |-> Asked(pds[t]) \cap Seen]
  <1>0. BaseInv /\ pds \in [Thread -> Array] /\ ToSet(ioq) \subseteq Thread
    BY PdsType DEF IInv, BaseInv, BaseTypeOK, ToSet
  <1>1. /\ Turn(hit, rev, late)
        /\ IF Seen = {} THEN UNCHANGED sel
           ELSE /\ PollsetDel(hit)
                /\ maxfd' = MaxOf({-1} \cup UNION {FdsOf(pds[t]) : t \in ToSet(ioq) \ hit})
                /\ UNCHANGED raw
    BY DEF Dispatch
  <1>2. hit \subseteq ToSet(ioq)
    OBVIOUS
  <1>3. \A t \in hit : rev[t] = Asked(pds[t]) \cap Seen
    BY <1>0
  <1>4. \A t \in hit : rev[t] \subseteq Fd \X (Event \cup {"nval", "err"})
    <2>1. ASSUME NEW t \in hit PROVE Asked(pds[t]) \subseteq Pair
      BY <1>0, ArrayProps
    <2> HIDE DEF hit, rev
    <2> QED  BY <1>3, <2>1 DEF Pair
  <1>5. /\ BaseInv' /\ ToSet(ioq') = ToSet(ioq) \ hit
        /\ \A t \in hit : revents'[t] = rev[t]
        /\ Waiting' \subseteq Waiting /\ UNCHANGED <<pds, os>>
    <2> HIDE DEF hit, rev
    <2> QED  BY <1>0, <1>1, <1>2, <1>4, TurnBase
  <1>6. ASSUME Seen = {} PROVE IInv'
    <2>1. hit = {} /\ UNCHANGED <<cnt, fdset, maxfd, raw>>
      BY <1>1, <1>6 DEF sel
    <2>2. ToSet(ioq') = ToSet(ioq) /\ UNCHANGED <<pds, open, ready>>
      BY <1>5, <2>1 DEF os
    <2>3. \A p : NumOf(ToSet(ioq), p)' = NumOf(ToSet(ioq), p)
      BY <2>2 DEF NumOf
    <2>4. SelTypeOK' /\ CountsRight' /\ Asks' /\ NeverBad'
      BY <1>5, <2>1, <2>2, <2>3 DEF IInv, SelTypeOK, CountsRight, Asks, NeverBad
    <2> QED  BY <1>5, <2>4 DEF IInv
  <1>7. ASSUME Seen # {} PROVE IInv'
    <2> HIDE DEF hit, rev
    <2> QED  BY <1>1, <1>2, <1>4, <1>7, TurnStep
  <1>8. ASSUME NEW t \in ToSet(ioq)
        PROVE  /\ (t \in ToSet(ioq')) = (Asked(pds[t]) \cap ready = {})
               /\ Asked(pds[t]) \cap ready # {} => revents'[t] = Asked(pds[t]) \cap ready
    <2>1. Asked(pds[t]) \cap Seen = Asked(pds[t]) \cap ready
      BY AskedIsSeen DEF Seen
    <2>2. t \in hit <=> Asked(pds[t]) \cap ready # {}
      BY <2>1
    <2>3. t \in hit => revents'[t] = Asked(pds[t]) \cap ready
      BY <1>3, <1>5, <2>1
    <2> QED  BY <1>5, <2>2, <2>3
  <1>9. ExactTurn
    BY <1>8 DEF ExactTurn
  <1> QED  BY <1>6, <1>7, <1>9

\* _st_select_find_bad_fd.
LEMMA FindBadFdStep ==
    ASSUME IInv, NEW late \in Lines, FindBadFd(late)
    PROVE  IInv'
  <1> DEFINE hit == {t \in ToSet(ioq) : FdsOf(pds[t]) \ open # {}}
             rev == [t \in Thread |-> (FdsOf(pds[t]) \ open) \X {"nval"}]
  <1>0. pds \in [Thread -> Array] /\ ToSet(ioq) \subseteq Thread
    BY PdsType DEF IInv, BaseInv, BaseTypeOK, ToSet
  <1>1. /\ Turn(hit, rev, late) /\ PollsetDel(hit) /\ UNCHANGED raw
        /\ maxfd' = MaxOf({-1} \cup UNION {FdsOf(pds[t]) : t \in ToSet(ioq) \ hit})
    BY DEF FindBadFd
  <1>2. \A t \in hit : rev[t] \subseteq Fd \X (Event \cup {"nval", "err"})
    <2>1. ASSUME NEW t \in hit PROVE FdsOf(pds[t]) \subseteq Fd /\ t \in Thread
      BY <1>0, ArrayProps
    <2> HIDE DEF hit
    <2> QED  BY <2>1
  <1>3. hit \subseteq ToSet(ioq)
    OBVIOUS
  <1> HIDE DEF hit, rev
  <1> QED  BY <1>1, <1>2, <1>3, TurnStep

\* A turn in which only the clock is looked at.
LEMMA EintrStep ==
    ASSUME IInv, NEW late \in Lines, Eintr(late)
    PROVE  IInv'
  <1>1. Turn({}, revents, late) /\ UNCHANGED <<cnt, fdset, maxfd, raw>> /\ BaseInv
    BY DEF Eintr, sel, IInv
  <1>2. /\ BaseInv' /\ ToSet(ioq') = ToSet(ioq)
        /\ Waiting' \subseteq Waiting /\ UNCHANGED <<pds, os>>
    <2> DEFINE hit == {}
    <2>1. hit \subseteq ToSet(ioq) /\ ToSet(ioq) \ hit = ToSet(ioq)
      OBVIOUS
    <2>2. \A t \in hit : revents[t] \subseteq Fd \X (Event \cup {"nval", "err"})
      OBVIOUS
    <2>3. Turn(hit, revents, late)
      BY <1>1
    <2>4. /\ BaseInv' /\ ToSet(ioq') = ToSet(ioq) \ hit
          /\ Waiting' \subseteq Waiting /\ UNCHANGED <<pds, os>>
      <3> HIDE DEF hit
      <3> QED  BY <1>1, <2>1, <2>2, <2>3, TurnBase
    <2> QED  BY <2>1, <2>4
  <1>3. \A p : NumOf(ToSet(ioq), p)' = NumOf(ToSet(ioq), p)
    BY <1>2 DEF NumOf
  <1>4. SelTypeOK' /\ CountsRight' /\ Asks' /\ NeverBad'
    BY <1>1, <1>2, <1>3 DEF IInv, SelTypeOK, CountsRight, Asks, NeverBad, os
  <1> QED  BY <1>2, <1>4 DEF IInv

\* Steps that touch neither the requests nor the event system, and close no
\* descriptor somebody waits on unless raw is set.
LEMMA OtherStep ==
    ASSUME IInv, BaseInv', UNCHANGED <<ioq, pds, cnt, fdset, maxfd>>, Waiting' \subseteq Waiting,
           raw' \in BOOLEAN, raw => raw',
           ~raw' => \A t \in Waiting : FdsOf(pds[t]) \cap open \subseteq open'
    PROVE  IInv'
  <1>1. \A p : NumOf(ToSet(ioq), p)' = NumOf(ToSet(ioq), p)
    BY DEF NumOf
  <1>2. SelTypeOK' /\ CountsRight' /\ Asks'
    BY <1>1 DEF IInv, SelTypeOK, CountsRight, Asks
  <1>3. NeverBad'
    <2> SUFFICES ASSUME ~raw', NEW t \in Waiting' PROVE FdsOf(pds'[t]) \subseteq open'
      BY DEF NeverBad
    <2>1. t \in Waiting /\ ~raw
      OBVIOUS
    <2>2. FdsOf(pds[t]) \subseteq open
      BY <2>1 DEF IInv, NeverBad
    <2> QED  BY <2>1, <2>2
  <1> QED  BY <1>2, <1>3 DEF IInv

\* st_netfd_close closes nothing that is asked for.
LEMMA NetfdCloseStep ==
    ASSUME IInv, NEW fd \in Fd, NetfdClose(fd)
    PROVE  IInv'
  <1>0. BaseInv /\ pds \in [Thread -> Array] /\ ToSet(ioq) \subseteq Thread /\ raw \in BOOLEAN
    BY PdsType DEF IInv, BaseInv, BaseTypeOK, ToSet, SelTypeOK
  <1>1. /\ \A e \in Event : cnt[<<fd, e>>] = 0
        /\ open' = open \ {fd} /\ ready' = {p \in ready : p[1] # fd}
        /\ UNCHANGED <<running, runq, pc, ioq, pds, revents, armed, interrupt>>
        /\ UNCHANGED <<cnt, fdset, maxfd, raw>>
    BY DEF NetfdClose, CloseFd, sched, sel
  <1>2. BaseInv' /\ Waiting' = Waiting
    <2>1. interrupt' \subseteq Thread /\ open' \subseteq Fd /\ ready' \subseteq Pair
      BY <1>0, <1>1 DEF BaseInv, BaseTypeOK
    <2> QED  BY <1>0, <1>1, <2>1, OtherBase
  <1>3. ASSUME NEW t \in Waiting PROVE fd \notin FdsOf(pds[t])
    <2> SUFFICES ASSUME NEW i \in DOMAIN pds[t], pds[t][i].fd = fd PROVE FALSE
      BY DEF FdsOf
    <2>1. t \in ToSet(ioq)
      BY <1>0 DEF BaseInv, InOnePlace
    <2>2. PICK e \in pds[t][i].events : TRUE
      BY <2>1 DEF IInv, Asks
    <2>3. <<fd, e>> \in Asked(pds[t])
      BY <2>2 DEF Asked
    <2>4. <<fd, e>> \in Pair /\ <<fd, e>> \in fdset
      BY <1>0, <2>1, <2>3, ArrayProps, AskedIsSeen
    <2>5. cnt[<<fd, e>>] > 0 /\ e \in Event
      BY <2>4 DEF IInv, CountsRight, Pair
    <2> QED  BY <1>1, <2>5
  <1> QED  BY <1>0, <1>1, <1>2, <1>3, OtherStep

\* Steps that leave the requests and the event system alone.
LEMMA QuietStep ==
    ASSUME IInv, UNCHANGED <<running, runq, pc, ioq, pds, revents, armed, cnt, fdset, maxfd>>,
           interrupt' \subseteq Thread, ready' \subseteq Pair, open' \subseteq Fd,
           raw' \in BOOLEAN, raw => raw', ~raw' => open \subseteq open'
    PROVE  IInv'
  <1>1. BaseInv' /\ Waiting' = Waiting
    BY OtherBase DEF IInv
  <1> QED  BY <1>1, OtherStep

\* Every step keeps the invariant.
LEMMA InvStep == IInv /\ [Next]_vars => IInv'
  <1> SUFFICES ASSUME IInv, [Next]_vars PROVE IInv'
    OBVIOUS
  <1>0. /\ BaseInv /\ raw \in BOOLEAN
        /\ interrupt \subseteq Thread /\ ready \subseteq Pair /\ open \subseteq Fd
    BY DEF IInv, SelTypeOK, BaseInv, BaseTypeOK
  <1>1. ASSUME Calls PROVE IInv'
    <2>1. ASSUME NEW r \in Request, NEW timed \in BOOLEAN, FdsOf(r) \subseteq open, Poll(r, timed)
          PROVE  IInv'
      BY <2>1, PollStep
    <2>2. ASSUME PollInterrupted, UNCHANGED sel PROVE IInv'
      BY <1>0, <2>2, QuietStep DEF PollInterrupted, sched, os, sel
    <2>3. ASSUME NEW t \in Thread, Interrupt(t), UNCHANGED sel PROVE IInv'
      <3>1. BaseInv' /\ Waiting' \subseteq Waiting /\ UNCHANGED <<ioq, pds, os>>
        BY <1>0, <2>3, InterruptBase
      <3> QED  BY <1>0, <2>3, <3>1, OtherStep DEF sel, os
    <2>4. ASSUME NEW fd \in Fd, NetfdClose(fd) PROVE IInv'
      BY <2>4, NetfdCloseStep
    <2> QED  BY <1>1, <2>1, <2>2, <2>3, <2>4 DEF Calls
  <1>2. ASSUME Return PROVE IInv'
    BY <1>2, ReturnStep
  <1>3. ASSUME Idles PROVE IInv'
    BY <1>3, DispatchStep, FindBadFdStep, EintrStep DEF Idles
  <1>4. ASSUME Environment, UNCHANGED sel PROVE IInv'
    <2>1. ready' \subseteq Pair
      BY <1>0, <1>4 DEF Environment, Pair
    <2> QED  BY <1>0, <1>4, <2>1, QuietStep DEF Environment, sched, sel
  <1>5. ASSUME NEW fd \in Fd, RawClose(fd) PROVE IInv'
    BY <1>0, <1>5, QuietStep DEF RawClose, CloseFd, sched
  <1>6. ASSUME UNCHANGED vars PROVE IInv'
    BY <1>0, <1>6, QuietStep DEF vars, base, sched, os, sel
  <1> QED  BY <1>1, <1>2, <1>3, <1>4, <1>5, <1>6 DEF Next

-----------------------------------------------------------------------------
(* StPollSys.  It works on the same st_poll; its operators are those of      *)
(* StPoll under another name.                                                *)

LEMMA SameCardinality == \A S : P!Cardinality(S) = Cardinality(S)
  BY Zenon DEF P!Cardinality, Cardinality

LEMMA SameSequences ==
    /\ \A s : P!ToSet(s) = ToSet(s)
    /\ \A s, e : P!Contains(s, e) <=> Contains(s, e)
    /\ \A s : P!IsInjective(s) <=> IsInjective(s)
  BY DEF P!ToSet, ToSet, P!Contains, Contains, P!IsInjective, IsInjective

LEMMA SameAmong == \A q, S : P!Among(q, S) = Among(q, S)
  BY Zenon DEF P!Among, Among, P!Cardinality, Cardinality

LEMMA SameUnlink == \A q, S : P!Unlink(q, S) = Unlink(q, S)
  BY SameAmong, SameSequences DEF P!Unlink, Unlink

LEMMA SameRequests == \A r : P!Asked(r) = Asked(r) /\ P!FdsOf(r) = FdsOf(r)
  BY DEF P!Asked, Asked, P!FdsOf, FdsOf

LEMMA SameBase ==
    /\ P!BaseTypeOK = BaseTypeOK /\ P!InOnePlace = InOnePlace /\ P!BaseInit = BaseInit
    /\ P!Lines = Lines
  <1>1. P!BaseTypeOK = BaseTypeOK
    BY DEF P!BaseTypeOK, BaseTypeOK, P!Event, Event, P!Pair, Pair
  <1>2. P!Waiting = Waiting
    BY SameSequences DEF P!Waiting, Waiting
  <1>3. P!InOnePlace = InOnePlace
    BY <1>2, SameSequences DEF P!InOnePlace, InOnePlace
  <1>4. P!BaseInit = BaseInit
    BY SameSequences, SameCardinality DEF P!BaseInit, BaseInit
  <1>5. P!Lines = Lines
    BY SameSequences, SameCardinality DEF P!Lines, Lines
  <1> QED  BY <1>1, <1>3, <1>4, <1>5

LEMMA SameTurn ==
    ASSUME NEW hit, NEW rev, NEW late, P!Turn(hit, rev, late) PROVE Turn(hit, rev, late)
  BY SameAmong, SameSequences, SameUnlink DEF P!Turn, Turn, P!Schedule, Schedule, os, P!os

LEMMA SameEnqueue == ASSUME NEW r, NEW timed, P!Enqueue(r, timed) PROVE Enqueue(r, timed)
  BY DEF P!Enqueue, Enqueue, P!Schedule, Schedule, P!InUser, InUser, os, P!os

LEMMA SameReturn == ASSUME P!PollReturn PROVE PollReturn
  BY SameUnlink DEF P!PollReturn, PollReturn, os, P!os, sched, P!sched

LEMMA SameInterrupt == ASSUME NEW t, P!Interrupt(t) PROVE Interrupt(t)
  <1>1. P!Waiting = Waiting
    BY SameSequences DEF P!Waiting, Waiting
  <1> QED  BY <1>1 DEF P!Interrupt, Interrupt, P!InUser, InUser, os, P!os

-----------------------------------------------------------------------------
(* The array of poll.                                                        *)

\* The entries of the arrays f of the threads in S, and how many there are before
\* the i-th thread of the queue q.
All(f, S) == UNION {{t} \X DOMAIN f[t] : t \in S}
Size(f, S) == Cardinality(All(f, S))
Before(f, q, i) == Size(f, {q[j] : j \in 1..i - 1})

\* Finitely many threads have finitely many entries.
LEMMA AllFinite ==
    ASSUME NEW f \in [Thread -> Array], NEW S \in SUBSET Thread
    PROVE  IsFiniteSet(All(f, S)) /\ Size(f, S) \in Nat
  <1> DEFINE g == [t \in S |-> {t} \X DOMAIN f[t]]
             R == {{t} \X DOMAIN f[t] : t \in S}
  <1>1. IsFiniteSet(S)
    BY FS_Subset, PollAssumption DEF PollAssumption
  <1>2. g \in Surjection(S, R)
    BY DEF Surjection
  <1>3. IsFiniteSet(R)
    <2> HIDE DEF g, R
    <2> QED  BY <1>1, <1>2, FS_Surjection
  <1>4. ASSUME NEW t \in S PROVE IsFiniteSet({t} \X DOMAIN f[t])
    <2>1. f[t] \in Array
      OBVIOUS
    <2>2. Len(f[t]) \in Nat /\ DOMAIN f[t] = 1..Len(f[t])
      BY <2>1 DEF Array
    <2>3. IsFiniteSet(DOMAIN f[t])
      BY <2>2, FS_Interval
    <2> QED  BY <2>3, FS_Singleton, FS_Product
  <1>5. \A X \in R : IsFiniteSet(X)
    BY <1>4
  <1>6. IsFiniteSet(UNION R)
    <2> HIDE DEF R
    <2> QED  BY <1>3, <1>5, FS_UNION
  <1> QED  BY <1>6, FS_CardinalityType DEF All, Size

\* One thread has as many as its array is long.
LEMMA SizeOfOne ==
    ASSUME NEW f \in [Thread -> Array], NEW t \in Thread
    PROVE  Size(f, {t}) = Len(f[t]) /\ Len(f[t]) \in Nat
  <1>1. f[t] \in Array
    OBVIOUS
  <1>2. Len(f[t]) \in Nat /\ DOMAIN f[t] = 1..Len(f[t])
    BY <1>1 DEF Array
  <1>3. IsFiniteSet(DOMAIN f[t]) /\ Cardinality(DOMAIN f[t]) = Len(f[t])
    BY <1>2, FS_Interval
  <1>4. All(f, {t}) = {t} \X DOMAIN f[t]
    BY DEF All
  <1>5. IsFiniteSet({t}) /\ Cardinality({t}) = 1
    BY FS_Singleton
  <1>6. Cardinality({t} \X DOMAIN f[t]) = 1 * Cardinality(DOMAIN f[t])
    BY <1>3, <1>5, FS_Product
  <1>7. Cardinality({t} \X DOMAIN f[t]) = Len(f[t])
    BY <1>2, <1>3, <1>6
  <1> QED  BY <1>2, <1>4, <1>7, Zenon DEF Size

\* The entries of two sets of threads add up.
LEMMA SizeSplit ==
    ASSUME NEW f \in [Thread -> Array], NEW A \in SUBSET Thread, NEW B \in SUBSET Thread,
           A \cap B = {}
    PROVE  Size(f, A \cup B) = Size(f, A) + Size(f, B)
  <1>1. All(f, A \cup B) = All(f, A) \cup All(f, B)
    BY DEF All
  <1>2. All(f, A) \cap All(f, B) = {}
    <2> SUFFICES ASSUME NEW x \in All(f, A), x \in All(f, B) PROVE FALSE
      OBVIOUS
    <2>1. PICK t \in A : x \in {t} \X DOMAIN f[t]
      BY DEF All
    <2>2. PICK u \in B : x \in {u} \X DOMAIN f[u]
      BY DEF All
    <2>3. x[1] = t /\ x[1] = u
      BY <2>1, <2>2
    <2> QED  BY <2>3
  <1>3. /\ IsFiniteSet(All(f, A)) /\ Cardinality(All(f, A)) \in Nat
        /\ IsFiniteSet(All(f, B)) /\ Cardinality(All(f, B)) \in Nat
    BY AllFinite DEF Size
  <1>4. Cardinality(All(f, A) \cup All(f, B)) =
          Cardinality(All(f, A)) + Cardinality(All(f, B)) - Cardinality({})
    BY <1>2, <1>3, FS_Union
  <1>5. Cardinality({}) = 0
    BY FS_EmptySet
  <1>6. Cardinality(All(f, A) \cup All(f, B)) = Cardinality(All(f, A)) + Cardinality(All(f, B))
    BY <1>3, <1>4, <1>5
  <1> QED  BY <1>1, <1>6, Zenon DEF Size

\* Arrays that agree on S have the same entries there.
LEMMA SizeSame ==
    ASSUME NEW f, NEW g, NEW S, \A t \in S : f[t] = g[t]
    PROVE  Size(f, S) = Size(g, S)
  BY DEF Size, All

\* The places of the requests in the array follow each other.
LEMMA Places ==
    ASSUME NEW f \in [Thread -> Array], NEW q \in Seq(Thread), IsInjective(q)
    PROVE  /\ \A i \in 1..Len(q) : Before(f, q, i + 1) = Before(f, q, i) + Len(f[q[i]])
           /\ \A i \in 1..Len(q) + 1 : Before(f, q, i) \in Nat
           /\ \A i \in 1..Len(q) + 1, l \in 1..Len(q) + 1 :
                 i <= l => Before(f, q, i) <= Before(f, q, l)
           /\ Before(f, q, Len(q) + 1) = Size(f, ToSet(q))
  <1>1. Len(q) \in Nat /\ DOMAIN q = 1..Len(q) /\ \A i \in 1..Len(q) : q[i] \in Thread
    OBVIOUS
  <1> DEFINE D(i) == {q[j] : j \in 1..i - 1}
  <1>2. \A i \in 1..Len(q) + 1 : D(i) \in SUBSET Thread
    BY <1>1
  <1>3. ASSUME NEW i \in 1..Len(q) PROVE Before(f, q, i + 1) = Before(f, q, i) + Len(f[q[i]])
    <2>1. D(i + 1) = D(i) \cup {q[i]} /\ D(i) \cap {q[i]} = {}
      <3>1. 1..(i + 1) - 1 = (1..i - 1) \cup {i}
        BY <1>1
      <3>2. D(i + 1) = D(i) \cup {q[i]}
        BY <3>1
      <3>3. \A j \in 1..i - 1 : q[j] # q[i]
        BY <1>1 DEF IsInjective
      <3> QED  BY <3>2, <3>3
    <2>2. D(i) \in SUBSET Thread /\ {q[i]} \in SUBSET Thread /\ q[i] \in Thread
      BY <1>1, <1>2
    <2>3. Size(f, D(i) \cup {q[i]}) = Size(f, D(i)) + Size(f, {q[i]})
      <3> HIDE DEF D
      <3> QED  BY <2>1, <2>2, SizeSplit
    <2>4. Size(f, {q[i]}) = Len(f[q[i]])
      BY <2>2, SizeOfOne
    <2>5. Before(f, q, i) = Size(f, D(i)) /\ Before(f, q, i + 1) = Size(f, D(i + 1))
      BY DEF Before
    <2> HIDE DEF D
    <2> QED  BY <2>1, <2>3, <2>4, <2>5
  <1>4. ASSUME NEW i \in 1..Len(q) + 1 PROVE Before(f, q, i) \in Nat
    BY <1>2, AllFinite DEF Before
  <1>5. ASSUME NEW i \in 1..Len(q) + 1, NEW l \in 1..Len(q) + 1, i <= l
        PROVE  Before(f, q, i) <= Before(f, q, l)
    <2>1. D(i) \subseteq D(l)
      BY <1>1, <1>5
    <2>2. D(l) \ D(i) \in SUBSET Thread /\ D(i) \in SUBSET Thread
      BY <1>2
    <2> DEFINE X == D(i)
               Y == D(l) \ D(i)
    <2>3. D(l) = X \cup Y /\ X \cap Y = {}
      BY <2>1
    <2>4. Size(f, X \cup Y) = Size(f, X) + Size(f, Y) /\ Size(f, X) \in Nat /\ Size(f, Y) \in Nat
      <3>1. X \in SUBSET Thread /\ Y \in SUBSET Thread
        BY <2>2
      <3> HIDE DEF X, Y
      <3> QED  BY <2>3, <3>1, SizeSplit, AllFinite
    <2>5. Before(f, q, i) = Size(f, X) /\ Before(f, q, l) = Size(f, D(l))
      BY DEF Before
    <2> HIDE DEF X, Y, D
    <2> QED  BY <2>3, <2>4, <2>5
  <1>6. D(Len(q) + 1) = ToSet(q)
    <2>1. 1..(Len(q) + 1) - 1 = DOMAIN q
      BY <1>1
    <2> QED  BY <2>1 DEF ToSet
  <1>7. Before(f, q, Len(q) + 1) = Size(f, ToSet(q))
    BY <1>6 DEF Before
  <1> QED  BY <1>3, <1>4, <1>5, <1>7

\* What the turn copies and counts, in these terms.
LEMMA GatheredIs ==
    ASSUME BaseInv
    PROVE  /\ \A S : P!Cardinality(P!Entries(S)) = Size(pds, S)
           /\ \A i : P!Offset(i) = Before(pds, ioq, i)
           /\ Len(P!Gathered) = Size(pds, ToSet(ioq)) /\ Size(pds, ToSet(ioq)) \in Nat
           /\ \A i \in DOMAIN ioq : \A k \in DOMAIN pds[ioq[i]] :
                 /\ P!Offset(i) + k \in 1..Size(pds, ToSet(ioq))
                 /\ P!Gathered[P!Offset(i) + k] = pds[ioq[i]][k]
  <1>0. /\ pds \in [Thread -> Array] /\ ioq \in Seq(Thread) /\ IsInjective(ioq)
        /\ ToSet(ioq) \in SUBSET Thread
    BY PdsType DEF BaseInv, BaseTypeOK, InOnePlace, ToSet
  <1>1. \A S : P!Cardinality(P!Entries(S)) = Size(pds, S)
    BY SameCardinality DEF P!Entries, Size, All
  <1>2. \A i : P!Offset(i) = Before(pds, ioq, i)
    BY <1>1 DEF P!Offset, Before
  <1> DEFINE N == Size(pds, ToSet(ioq))
             off(i) == P!Offset(i)
             of(n) == CHOOSE i \in DOMAIN ioq : off(i) < n /\ n <= off(i + 1)
             row(n) == pds[ioq[of(n)]][n - off(of(n))]
  <1>3. N \in Nat
    BY <1>0, AllFinite
  <1>4. /\ Len(ioq) \in Nat /\ DOMAIN ioq = 1..Len(ioq) /\ off(Len(ioq) + 1) = N
        /\ \A i \in 1..Len(ioq) : off(i + 1) = off(i) + Len(pds[ioq[i]])
        /\ \A i \in 1..Len(ioq) + 1 : off(i) \in Nat
        /\ \A i \in 1..Len(ioq) + 1, l \in 1..Len(ioq) + 1 : i <= l => off(i) <= off(l)
    BY <1>0, <1>2, Places
  <1>5. P!Gathered = [n \in 1..N |-> row(n)]
    BY <1>4 DEF P!Gathered
  <1>6. Len(P!Gathered) = N
    <2>1. [n \in 1..N |-> row(n)] \in Seq({row(n) : n \in 1..N})
      <3> HIDE DEF row, N
      <3>1. [n \in 1..N |-> row(n)] \in [1..N -> {row(n) : n \in 1..N}]
        OBVIOUS
      <3> QED  BY <1>3, <3>1
    <2>2. DOMAIN [n \in 1..N |-> row(n)] = 1..N
      OBVIOUS
    <2>3. Len([n \in 1..N |-> row(n)]) = N
      <3> HIDE DEF row, N
      <3> QED  BY <1>3, <2>1, <2>2
    <2> QED  BY <1>5, <2>3
  <1>7. ASSUME NEW i \in DOMAIN ioq, NEW k \in DOMAIN pds[ioq[i]]
        PROVE  off(i) + k \in 1..N /\ P!Gathered[off(i) + k] = pds[ioq[i]][k]
    <2> DEFINE n == off(i) + k
    <2>1. ioq[i] \in Thread /\ pds[ioq[i]] \in Array
      BY <1>0
    <2>2. Len(pds[ioq[i]]) \in Nat /\ k \in 1..Len(pds[ioq[i]])
      BY <2>1 DEF Array
    <2>3. /\ i \in Nat /\ i \in 1..Len(ioq) /\ i + 1 \in 1..Len(ioq) + 1 /\ i \in 1..Len(ioq) + 1
          /\ Len(ioq) + 1 \in 1..Len(ioq) + 1 /\ i + 1 <= Len(ioq) + 1
      BY <1>4
    <2>4. off(i) \in Nat /\ off(i + 1) = off(i) + Len(pds[ioq[i]]) /\ off(i + 1) <= N
      <3> HIDE DEF off, N
      <3> QED  BY <1>4, <2>3
    <2>5. n \in 1..N /\ off(i) < n /\ n <= off(i + 1) /\ n \in Nat
      <3> HIDE DEF off, N
      <3> QED  BY <1>3, <2>2, <2>4
    <2>6. \A l \in DOMAIN ioq : off(l) < n /\ n <= off(l + 1) => l = i
      <3> SUFFICES ASSUME NEW l \in DOMAIN ioq, off(l) < n, n <= off(l + 1), l # i PROVE FALSE
        OBVIOUS
      <3>1. l \in 1..Len(ioq) /\ l + 1 \in 1..Len(ioq) + 1 /\ l \in 1..Len(ioq) + 1 /\ l \in Nat
        BY <1>4
      <3>2. off(l) \in Nat /\ off(l + 1) \in Nat /\ off(i + 1) \in Nat
        <4> HIDE DEF off
        <4> QED  BY <1>4, <2>3, <3>1
      <3>3. CASE l < i
        <4>1. off(l + 1) <= off(i)
          <5> HIDE DEF off
          <5>1. l + 1 <= i
            BY <2>3, <3>1, <3>3
          <5> QED  BY <1>4, <2>3, <3>1, <5>1
        <4> HIDE DEF off, n
        <4> QED  BY <2>4, <2>5, <3>2, <4>1
      <3>4. CASE i < l
        <4>1. off(i + 1) <= off(l)
          <5> HIDE DEF off
          <5>1. i + 1 <= l
            BY <2>3, <3>1, <3>4
          <5> QED  BY <1>4, <2>3, <3>1, <5>1
        <4> HIDE DEF off, n
        <4> QED  BY <2>4, <2>5, <3>2, <4>1
      <3> QED  BY <2>3, <3>1, <3>3, <3>4
    <2>7. of(n) = i
      <3> HIDE DEF off, n
      <3> QED  BY <2>5, <2>6
    <2>8. row(n) = pds[ioq[i]][k]
      <3>1. n - off(i) = k
        <4> HIDE DEF off
        <4> QED  BY <2>2, <2>4
      <3> HIDE DEF of, n, off
      <3> QED  BY <2>7, <3>1
    <2> HIDE DEF row, N, off
    <2> QED  BY <1>5, <2>5, <2>8
  <1> QED  BY <1>1, <1>2, <1>3, <1>6, <1>7

\* The counted length is that of the array.
PollInv == BaseInv /\ fdcnt \in Nat /\ size \in Nat /\ fdcnt = Size(pds, ToSet(ioq))

\* poll tells a request what there is of it, and nothing of another one's.
LEMMA ReportedIs ==
    ASSUME PollInv, NEW i \in DOMAIN ioq
    PROVE  P!Reported(i) = {p \in Asked(pds[ioq[i]]) \cap ready : p[1] \in open}
                             \cup (FdsOf(pds[ioq[i]]) \ open) \X {"nval"}
  <1> DEFINE r == pds[ioq[i]]
             res(k) == IF r[k].fd \notin open THEN {<<r[k].fd, "nval">>}
                       ELSE ({r[k].fd} \X r[k].events) \cap ready
  <1>1. ASSUME NEW k \in DOMAIN r PROVE P!Result(P!Place(i) + k) = res(k)
    <2>1. BaseInv /\ fdcnt \in Nat /\ fdcnt = Size(pds, ToSet(ioq))
      BY DEF PollInv
    <2>2. P!Offset(i) + k \in 1..fdcnt /\ P!Gathered[P!Offset(i) + k] = r[k]
      BY <2>1, GatheredIs
    <2>3. P!Place(i) = P!Offset(i)
      BY DEF P!Place
    <2>4. ~(P!Offset(i) + k > fdcnt)
      <3> DEFINE n == P!Offset(i) + k
      <3>1. n \in 1..fdcnt
        BY <2>2
      <3> HIDE DEF n
      <3>2. ~(n > fdcnt)
        BY <2>1, <3>1
      <3> QED  BY <3>2 DEF n
    <2> HIDE DEF r
    <2> QED  BY <2>2, <2>3, <2>4 DEF P!Result
  <1>2. P!Reported(i) = UNION {res(k) : k \in DOMAIN r}
    <2> HIDE DEF res
    <2> QED  BY <1>1 DEF P!Reported
  <1> DEFINE R == {p \in Asked(r) \cap ready : p[1] \in open} \cup (FdsOf(r) \ open) \X {"nval"}
  <1> HIDE DEF r
  <1>3. ASSUME NEW x \in UNION {res(k) : k \in DOMAIN r} PROVE x \in R
    <2>1. PICK k \in DOMAIN r : x \in res(k)
      OBVIOUS
    <2>2. CASE r[k].fd \notin open
      BY <2>1, <2>2 DEF FdsOf
    <2>3. CASE r[k].fd \in open
      <3>1. x \in {r[k].fd} \X r[k].events /\ x \in ready
        BY <2>1, <2>3
      <3>2. x \in Asked(r) /\ x[1] = r[k].fd
        BY <3>1 DEF Asked
      <3> QED  BY <2>3, <3>1, <3>2
    <2> QED  BY <2>2, <2>3
  <1>4. ASSUME NEW x \in R PROVE x \in UNION {res(k) : k \in DOMAIN r}
    <2>1. CASE x \in Asked(r) /\ x \in ready /\ x[1] \in open
      <3>1. PICK k \in DOMAIN r : x \in {r[k].fd} \X r[k].events
        BY <2>1 DEF Asked
      <3>2. x[1] = r[k].fd
        BY <3>1
      <3>3. x \in res(k)
        BY <2>1, <3>1, <3>2
      <3> HIDE DEF res
      <3> QED  BY <3>3
    <2>2. CASE x \in (FdsOf(r) \ open) \X {"nval"}
      <3>1. PICK fd \in FdsOf(r) \ open : x = <<fd, "nval">>
        BY <2>2
      <3>2. PICK k \in DOMAIN r : r[k].fd = fd
        BY <3>1 DEF FdsOf
      <3>3. x \in res(k)
        BY <3>1, <3>2
      <3> HIDE DEF res
      <3> QED  BY <3>3
    <2> QED  BY <2>1, <2>2
  <1>5. UNION {res(k) : k \in DOMAIN r} = R
    BY <1>3, <1>4
  <1> QED  BY <1>2, <1>5 DEF r

-----------------------------------------------------------------------------
(* The steps of StPollSys.                                                   *)

LEMMA PollInvInit == P!Init => PollInv
  <1> SUFFICES ASSUME P!Init PROVE PollInv
    OBVIOUS
  <1>1. BaseInit /\ fdcnt = 0 /\ size = MinPollfds
    BY SameBase DEF P!Init
  <1>2. BaseInv /\ ToSet(ioq) = {}
    BY <1>1, BaseInitial, EmptyElems DEF BaseInit
  <1>3. Size(pds, ToSet(ioq)) = 0
    BY <1>2, FS_EmptySet DEF Size, All
  <1>4. MinPollfds \in Nat
    BY PollSysSizes DEF P!PollSysAssumption
  <1> QED  BY <1>1, <1>2, <1>3, <1>4 DEF PollInv

\* _st_poll_pollset_add.
LEMMA PollSysPollStep ==
    ASSUME PollInv, NEW r \in Request, NEW timed \in BOOLEAN, P!Poll(r, timed)
    PROVE  PollInv'
  <1>0. BaseInv /\ fdcnt \in Nat /\ size \in Nat /\ fdcnt = Size(pds, ToSet(ioq))
    BY DEF PollInv
  <1>1. Enqueue(r, timed) /\ fdcnt' = fdcnt + Len(r) /\ size' = size
    BY SameEnqueue DEF P!Poll
  <1>2. /\ BaseInv' /\ running \in Thread /\ running \notin ToSet(ioq)
        /\ ToSet(ioq') = ToSet(ioq) \cup {running}
        /\ pds' = [pds EXCEPT ![running] = r]
    BY <1>0, <1>1, EnqueueBase
  <1> DEFINE g == pds'
             S == ToSet(ioq)
             one == {running}
  <1>3. g \in [Thread -> Array] /\ S \in SUBSET Thread /\ one \in SUBSET Thread /\ S \cap one = {}
    <2>1. BaseTypeOK /\ BaseTypeOK'
      BY <1>0, <1>2 DEF BaseInv
    <2>2. pds' \in [Thread -> Array]
      <3>1. r \in Array
        BY PollAssumption DEF PollAssumption, Array, Entry
      <3>2. pds \in [Thread -> Array]
        BY <2>1, PdsType
      <3> QED  BY <1>2, <3>1, <3>2
    <2> QED  BY <1>2, <2>1, <2>2 DEF BaseTypeOK, ToSet
  <1>4. Size(g, S \cup one) = Size(g, S) + Size(g, one)
    <2> HIDE DEF g, S, one
    <2> QED  BY <1>3, SizeSplit
  <1>5. Size(g, one) = Len(g[running]) /\ Len(g[running]) \in Nat
    <2> HIDE DEF g
    <2> QED  BY <1>2, <1>3, SizeOfOne
  <1>6. g[running] = r /\ \A t \in S : g[t] = pds[t]
    <2>1. pds \in [Thread -> Array]
      BY <1>0, PdsType DEF BaseInv
    <2> QED  BY <1>2, <1>3, <2>1
  <1>7. Size(g, S) = Size(pds, S)
    <2> HIDE DEF g, S
    <2> QED  BY <1>6, SizeSame
  <1>8. Size(pds, ToSet(ioq))' = Size(g, S \cup one)
    BY <1>2 DEF Size, All
  <1>9. fdcnt' = Size(pds, ToSet(ioq))' /\ fdcnt' \in Nat
    <2> HIDE DEF g, S, one
    <2>1. fdcnt = Size(pds, S)
      BY <1>0 DEF S
    <2>2. Len(r) \in Nat
      BY <1>5, <1>6
    <2> QED  BY <1>0, <1>1, <1>4, <1>5, <1>6, <1>7, <1>8, <2>1, <2>2
  <1> QED  BY <1>0, <1>1, <1>2, <1>9 DEF PollInv

\* The entries of the threads H are taken off: those of the others are left.
LEMMA SizeLess ==
    ASSUME BaseInv, NEW H, H \subseteq ToSet(ioq), ToSet(ioq') = ToSet(ioq) \ H,
           \A t \in ToSet(ioq') : pds'[t] = pds[t]
    PROVE  /\ Size(pds, ToSet(ioq))' = Size(pds, ToSet(ioq)) - Size(pds, H)
           /\ Size(pds, ToSet(ioq))' \in Nat
  <1> DEFINE S == ToSet(ioq) \ H
  <1>1. /\ pds \in [Thread -> Array] /\ S \in SUBSET Thread /\ H \in SUBSET Thread
        /\ S \cap H = {} /\ ToSet(ioq) = S \cup H
    BY PdsType DEF BaseInv, BaseTypeOK, ToSet
  <1>2. Size(pds, S \cup H) = Size(pds, S) + Size(pds, H)
    <2> HIDE DEF S
    <2> QED  BY <1>1, SizeSplit
  <1>3. Size(pds, S) \in Nat /\ Size(pds, H) \in Nat
    <2> HIDE DEF S
    <2> QED  BY <1>1, AllFinite
  <1>4. Size(pds, ToSet(ioq))' = Size(pds', S)
    BY DEF Size, All
  <1>5. Size(pds', S) = Size(pds, S)
    <2> DEFINE g == pds'
    <2>1. \A t \in S : g[t] = pds[t]
      OBVIOUS
    <2>2. Size(g, S) = Size(pds, S)
      <3> HIDE DEF g, S
      <3> QED  BY <2>1, SizeSame
    <2> QED  BY <2>2
  <1>6. Size(pds, ToSet(ioq)) = Size(pds, S \cup H)
    BY <1>1
  <1> HIDE DEF S
  <1> QED  BY <1>2, <1>3, <1>4, <1>5, <1>6

\* _st_poll_pollset_del, if the request is still on the queue.
LEMMA PollSysReturnStep == ASSUME PollInv, P!Return PROVE PollInv'
  <1>0. BaseInv /\ fdcnt \in Nat /\ size \in Nat /\ fdcnt = Size(pds, ToSet(ioq))
    BY DEF PollInv
  <1>1. /\ PollReturn /\ size' = size
        /\ fdcnt' = IF Contains(ioq, running) THEN fdcnt - Len(pds[running]) ELSE fdcnt
    BY SameReturn, SameSequences DEF P!Return
  <1>2. /\ BaseInv' /\ running \in Thread
        /\ ToSet(ioq') = ToSet(ioq) \ {running}
        /\ pds' = [pds EXCEPT ![running] = <<>>]
    BY <1>0, <1>1, ReturnBase
  <1>3. pds \in [Thread -> Array] /\ ioq \in Seq(Thread) /\ ToSet(ioq) \subseteq Thread
    BY <1>0, PdsType DEF BaseInv, BaseTypeOK, ToSet
  <1>4. Contains(ioq, running) <=> running \in ToSet(ioq)
    BY <1>3, ContainsIsMember
  <1> DEFINE H == ToSet(ioq) \cap {running}
  <1>5. /\ H \subseteq ToSet(ioq) /\ ToSet(ioq') = ToSet(ioq) \ H
        /\ \A t \in ToSet(ioq') : pds'[t] = pds[t]
    BY <1>2, <1>3
  <1>6. /\ Size(pds, ToSet(ioq))' = Size(pds, ToSet(ioq)) - Size(pds, H)
        /\ Size(pds, ToSet(ioq))' \in Nat
    <2> HIDE DEF H
    <2> QED  BY <1>0, <1>5, SizeLess
  <1>7. fdcnt' = fdcnt - Size(pds, H)
    <2>1. CASE running \in ToSet(ioq)
      <3>1. H = {running}
        BY <2>1
      <3>2. Size(pds, {running}) = Len(pds[running])
        BY <1>2, <1>3, SizeOfOne
      <3> QED  BY <1>1, <1>4, <2>1, <3>1, <3>2
    <2>2. CASE running \notin ToSet(ioq)
      <3>1. H = {}
        BY <2>2
      <3>2. Size(pds, {}) = 0
        BY FS_EmptySet DEF Size, All
      <3> QED  BY <1>0, <1>1, <1>4, <2>2, <3>1, <3>2
    <2> QED  BY <2>1, <2>2
  <1>8. fdcnt' = Size(pds, ToSet(ioq))' /\ fdcnt' \in Nat
    <2> HIDE DEF H
    <2> QED  BY <1>0, <1>6, <1>7
  <1> QED  BY <1>0, <1>1, <1>2, <1>8 DEF PollInv

\* The array that grows is large enough.
LEMMA GrownIs == ASSUME PollInv PROVE P!Grown \in Nat /\ fdcnt <= P!Grown
  BY PollSysSizes DEF PollInv, P!PollSysAssumption, P!Grown

\* _st_poll_dispatch.
LEMMA PollSysDispatchStep ==
    ASSUME PollInv, NEW late \in Lines, P!Dispatch(late)
    PROVE  PollInv' /\ P!ExactTurn
  <1>0. BaseInv /\ fdcnt \in Nat /\ size \in Nat /\ fdcnt = Size(pds, ToSet(ioq))
    BY DEF PollInv
  <1> DEFINE ix == {i \in DOMAIN ioq : P!Reported(i) # {}}
             H == {ioq[i] : i \in ix}
             at(t) == CHOOSE i \in DOMAIN ioq : ioq[i] = t
             rev == [t \in Thread |-> IF P!Contains(ioq, t) THEN P!Reported(at(t)) ELSE {}]
             tell(t) == {p \in Asked(pds[t]) \cap ready : p[1] \in open}
                           \cup (FdsOf(pds[t]) \ open) \X {"nval"}
  <1>1. /\ Turn(H, rev, late) /\ size' = P!Grown
        /\ fdcnt' = fdcnt - P!Cardinality(P!Entries(H))
    <2>1. /\ P!Turn(H, rev, late) /\ size' = P!Grown
          /\ fdcnt' = fdcnt - P!Cardinality(P!Entries(H))
      BY DEF P!Dispatch
    <2> HIDE DEF H, rev
    <2> QED  BY <2>1, SameTurn
  <1>2. /\ ioq \in Seq(Thread) /\ IsInjective(ioq) /\ ToSet(ioq) \subseteq Thread
        /\ pds \in [Thread -> Array]
    BY <1>0, PdsType DEF BaseInv, BaseTypeOK, InOnePlace, ToSet
  <1>3. ASSUME NEW i \in DOMAIN ioq
        PROVE  /\ at(ioq[i]) = i /\ ioq[i] \in Thread /\ ioq[i] \in ToSet(ioq)
               /\ P!Reported(i) = tell(ioq[i])
               /\ rev[ioq[i]] = tell(ioq[i])
               /\ ioq[i] \in H <=> tell(ioq[i]) # {}
    <2>1. ioq[i] \in Thread /\ ioq[i] \in ToSet(ioq)
      BY <1>2 DEF ToSet
    <2>2. \A l \in DOMAIN ioq : ioq[l] = ioq[i] => l = i
      BY <1>2 DEF IsInjective
    <2>3. at(ioq[i]) = i
      BY <2>2
    <2>4. P!Reported(i) = tell(ioq[i])
      BY ReportedIs
    <2>5. P!Contains(ioq, ioq[i])
      BY SameSequences, <1>2, <2>1, ContainsIsMember
    <2>6. rev[ioq[i]] = tell(ioq[i])
      <3> HIDE DEF at, tell
      <3> QED  BY <2>1, <2>3, <2>4, <2>5
    <2>7. ioq[i] \in H <=> tell(ioq[i]) # {}
      <3> HIDE DEF tell
      <3> QED  BY <2>2, <2>4
    <2> HIDE DEF at, rev, H, tell
    <2> QED  BY <2>1, <2>3, <2>4, <2>6, <2>7
  <1>4. \A t \in ToSet(ioq) : rev[t] = tell(t) /\ (t \in H <=> tell(t) # {})
    <2> HIDE DEF rev, H, tell, at
    <2> QED  BY <1>3 DEF ToSet
  <1>5. H \subseteq ToSet(ioq)
    BY DEF ToSet
  <1>6. \A t \in H : rev[t] \subseteq Fd \X (Event \cup {"nval", "err"})
    <2> SUFFICES ASSUME NEW t \in H PROVE tell(t) \subseteq Fd \X (Event \cup {"nval", "err"})
      <3> HIDE DEF rev, H, tell
      <3> QED  BY <1>4, <1>5
    <2>1. t \in Thread /\ pds[t] \in Array
      BY <1>2, <1>5
    <2>2. Asked(pds[t]) \subseteq Pair /\ FdsOf(pds[t]) \subseteq Fd
      BY <2>1, ArrayProps
    <2> HIDE DEF H
    <2> QED  BY <2>2 DEF Pair
  <1>7. /\ BaseInv' /\ ToSet(ioq') = ToSet(ioq) \ H
        /\ \A t \in H : revents'[t] = rev[t]
    <2> HIDE DEF H, rev
    <2> QED  BY <1>0, <1>1, <1>5, <1>6, TurnBase
  <1>8. pds' = pds
    BY <1>1 DEF Turn
  <1>9. /\ Size(pds, ToSet(ioq))' = Size(pds, ToSet(ioq)) - Size(pds, H)
        /\ Size(pds, ToSet(ioq))' \in Nat
    <2>1. \A t \in ToSet(ioq') : pds'[t] = pds[t]
      BY <1>8
    <2> HIDE DEF H
    <2> QED  BY <1>0, <1>5, <1>7, <2>1, SizeLess
  <1>10. P!Cardinality(P!Entries(H)) = Size(pds, H)
    <2> HIDE DEF H
    <2> QED  BY <1>0, GatheredIs
  <1>11. fdcnt' = Size(pds, ToSet(ioq))' /\ fdcnt' \in Nat
    <2> HIDE DEF H
    <2> QED  BY <1>0, <1>1, <1>9, <1>10
  <1>12. PollInv'
    BY <1>1, <1>7, <1>11, GrownIs DEF PollInv
  <1>13. ASSUME NEW t \in P!ToSet(ioq)
         PROVE  /\ (t \in P!ToSet(ioq')) = (tell(t) = {})
                /\ tell(t) # {} => revents'[t] = tell(t)
    <2>1. t \in ToSet(ioq) /\ P!ToSet(ioq') = ToSet(ioq')
      BY SameSequences
    <2> HIDE DEF H, rev, tell
    <2> QED  BY <1>4, <1>7, <2>1
  <1>14. P!ExactTurn
    <2>1. \A t : tell(t) = {p \in P!Asked(pds[t]) \cap ready : p[1] \in open}
                             \cup (P!FdsOf(pds[t]) \ open) \X {"nval"}
      BY SameRequests
    <2> HIDE DEF tell
    <2> QED  BY <1>13, <2>1 DEF P!ExactTurn
  <1> QED  BY <1>12, <1>14

\* A turn in which only the clock is looked at.
LEMMA PollSysEintrStep == ASSUME PollInv, NEW late \in Lines, P!Eintr(late) PROVE PollInv'
  <1>0. BaseInv /\ fdcnt \in Nat /\ size \in Nat /\ fdcnt = Size(pds, ToSet(ioq))
    BY DEF PollInv
  <1> DEFINE H == {}
  <1>1. Turn(H, revents, late) /\ size' = P!Grown /\ fdcnt' = fdcnt
    BY SameTurn DEF P!Eintr
  <1>2. /\ H \subseteq ToSet(ioq) /\ ToSet(ioq) \ H = ToSet(ioq)
        /\ \A t \in H : revents[t] \subseteq Fd \X (Event \cup {"nval", "err"})
    OBVIOUS
  <1>3. BaseInv' /\ ToSet(ioq') = ToSet(ioq) \ H /\ UNCHANGED <<pds, os>>
    <2> HIDE DEF H
    <2> QED  BY <1>0, <1>1, <1>2, TurnBase
  <1>4. Size(pds, ToSet(ioq))' = Size(pds, ToSet(ioq))
    BY <1>2, <1>3 DEF Size, All
  <1> QED  BY <1>0, <1>1, <1>3, <1>4, GrownIs DEF PollInv

\* Steps that leave the requests alone.
LEMMA PollSysQuietStep ==
    ASSUME PollInv, BaseInv', UNCHANGED <<ioq, pds, fdcnt, size>>
    PROVE  PollInv'
  <1>1. Size(pds, ToSet(ioq))' = Size(pds, ToSet(ioq))
    BY DEF Size, All
  <1> QED  BY <1>1 DEF PollInv

\* Every step keeps the invariant, and every turn is exact.
LEMMA PollInvStep == ASSUME PollInv, P!Next PROVE PollInv' /\ P!ExactTurn
  <1>0. /\ BaseInv /\ interrupt \subseteq Thread /\ ready \subseteq Pair /\ open \subseteq Fd
    BY DEF PollInv, BaseInv, BaseTypeOK
  <1>1. ASSUME NEW r \in Request, NEW timed \in BOOLEAN, P!Poll(r, timed) PROVE PollInv'
    BY <1>1, PollSysPollStep
  <1>2. ASSUME P!PollInterrupted, UNCHANGED P!ps PROVE PollInv'
    <2>1. /\ UNCHANGED <<running, runq, pc, ioq, pds, revents, armed, open, ready, fdcnt, size>>
          /\ interrupt' \subseteq Thread
      BY <1>0, <1>2 DEF P!PollInterrupted, P!ps, P!sched, P!os
    <2>2. BaseInv'
      BY <1>0, <2>1, OtherBase
    <2> QED  BY <2>1, <2>2, PollSysQuietStep
  <1>3. ASSUME NEW t \in Thread, P!Interrupt(t), UNCHANGED P!ps PROVE PollInv'
    <2>1. BaseInv' /\ UNCHANGED <<ioq, pds, os>>
      BY <1>0, <1>3, SameInterrupt, InterruptBase
    <2> QED  BY <1>3, <2>1, PollSysQuietStep DEF P!ps
  <1>4. ASSUME P!Return PROVE PollInv'
    BY <1>4, PollSysReturnStep
  <1>5. ASSUME NEW late \in P!Lines, P!Dispatch(late) PROVE PollInv' /\ P!ExactTurn
    BY <1>5, SameBase, PollSysDispatchStep
  <1>6. ASSUME NEW late \in P!Lines, P!Eintr(late) PROVE PollInv'
    BY <1>6, SameBase, PollSysEintrStep
  <1>7. ASSUME NEW fd \in Fd, P!NetfdClose(fd) PROVE PollInv'
    <2>1. /\ UNCHANGED <<running, runq, pc, ioq, pds, revents, armed, interrupt, fdcnt, size>>
          /\ open' \subseteq Fd /\ ready' \subseteq Pair
      BY <1>0, <1>7 DEF P!NetfdClose, P!CloseFd, P!ps, P!sched
    <2>2. BaseInv'
      BY <1>0, <2>1, OtherBase
    <2> QED  BY <2>1, <2>2, PollSysQuietStep
  <1>8. ASSUME P!Environment, UNCHANGED P!ps PROVE PollInv'
    <2>1. /\ UNCHANGED <<running, runq, pc, ioq, pds, revents, armed, interrupt, open, fdcnt, size>>
          /\ ready' \subseteq Pair
      BY <1>0, <1>8 DEF P!Environment, P!ps, P!sched, P!Event, Pair, Event
    <2>2. BaseInv'
      BY <1>0, <2>1, OtherBase
    <2> QED  BY <2>1, <2>2, PollSysQuietStep
  <1>9. PollInv'
    BY <1>1, <1>2, <1>3, <1>4, <1>5, <1>6, <1>7, <1>8 DEF P!Next
  <1>10. P!ExactTurn
    <2>1. CASE \E late \in P!Lines : P!Dispatch(late)
      BY <1>5, <2>1
    <2>2. CASE ~(\E late \in P!Lines : P!Dispatch(late))
      BY <2>2 DEF P!ExactTurn
    <2> QED  BY <2>1, <2>2
  <1> QED  BY <1>9, <1>10

-----------------------------------------------------------------------------
(* StEpoll: the loops over the entries of a request.                        *)

Watchable == Event \cup {"err"}
EpState == [c : [Pair -> Int], k : [Fd -> SUBSET Watchable], n : Int, f : BOOLEAN]

\* The events a descriptor is asked for, what the kernel watches for them, and
\* whether an entry asks for a pair.
Evs(c, fd) == {e \in Event : c[<<fd, e>>] # 0}
Masks(c, fd) == E!Mask(Evs(c, fd))
Asks1(p, q) == q[1] = p.fd /\ q[2] \in p.events

LEMMA MaskIs ==
    ASSUME NEW c, NEW fd
    PROVE  /\ Evs(c, fd) \in SUBSET Event /\ Masks(c, fd) \in SUBSET Watchable
           /\ Masks(c, fd) = {} <=> Evs(c, fd) = {}
           /\ Evs(c, fd) # {} => Masks(c, fd) = Evs(c, fd) \cup {"err"}
  BY DEF Evs, Masks, E!Mask, Watchable

LEMMA SameEpoll ==
    /\ E!Event = Event /\ E!Pair = Pair /\ \A c, fd : E!EventsOf(c, fd) = Evs(c, fd)
    /\ \A c, p, d : E!Count(c, p, d) = [q \in Pair |-> IF Asks1(p, q) THEN c[q] + d ELSE c[q]]
  BY DEF E!Event, Event, E!Pair, Pair, E!EventsOf, Evs, E!Count, Asks1

\* Whether _st_epoll_pollset_del calls epoll_ctl, and the state it leaves.
Ctl(s, t, p, F) ==
    Evs(t.c, p.fd) # Evs(s.c, p.fd) /\ p.fd \notin F /\ s.f /\ p.fd \in open /\ s.k[p.fd] # {}

DelFacts(s, t, p, F) ==
    /\ t \in EpState /\ t.f = s.f
    /\ \A q \in Pair : t.c[q] = IF Asks1(p, q) THEN s.c[q] - 1 ELSE s.c[q]
    /\ t.k = IF Ctl(s, t, p, F) THEN [s.k EXCEPT ![p.fd] = Masks(t.c, p.fd)] ELSE s.k
    /\ t.n = IF Ctl(s, t, p, F) /\ Evs(t.c, p.fd) = {} THEN s.n - 1 ELSE s.n

LEMMA DelOneIs ==
    ASSUME NEW s \in EpState, NEW p \in Entry, NEW F
    PROVE  DelFacts(s, E!DelOne(s, p, F), p, F)
  <1> DEFINE c == [q \in Pair |-> IF Asks1(p, q) THEN s.c[q] + -1 ELSE s.c[q]]
             new == Evs(c, p.fd)
             mask == Masks(c, p.fd)
             ctl == new # Evs(s.c, p.fd) /\ p.fd \notin F /\ s.f /\ p.fd \in open /\ s.k[p.fd] # {}
             kk == IF ctl THEN [s.k EXCEPT ![p.fd] = mask] ELSE s.k
             nn == IF ctl /\ new = {} THEN s.n - 1 ELSE s.n
             t == [c |-> c, f |-> s.f, k |-> kk, n |-> nn]
  <1>1. /\ s.c \in [Pair -> Int] /\ s.k \in [Fd -> SUBSET Watchable] /\ s.n \in Int /\ s.f \in BOOLEAN
    BY DEF EpState
  <1>2. p.fd \in Fd
    BY DEF Entry
  <1>3. E!DelOne(s, p, F) = t
    <2>1. E!Count(s.c, p, -1) = c /\ E!EventsOf(c, p.fd) = new /\ E!EventsOf(s.c, p.fd) = Evs(s.c, p.fd)
          /\ E!Mask(new) = mask
      BY SameEpoll DEF Masks
    <2>2. E!CtlOk(s, p.fd, TRUE) <=> s.f /\ p.fd \in open /\ s.k[p.fd] # {}
      BY DEF E!CtlOk
    <2> HIDE DEF c, new, mask
    <2> QED  BY <2>1, <2>2 DEF E!DelOne
  <1>4. \A q \in Pair : c[q] = IF Asks1(p, q) THEN s.c[q] - 1 ELSE s.c[q]
    BY <1>1
  <1>5. c \in [Pair -> Int]
    BY <1>1
  <1> HIDE DEF c
  <1>6. mask \in SUBSET Watchable
    BY MaskIs
  <1> HIDE DEF new, mask
  <1>7. kk \in [Fd -> SUBSET Watchable] /\ nn \in Int
    BY <1>1, <1>2, <1>6
  <1>8. t \in EpState /\ t.c = c /\ t.k = kk /\ t.n = nn /\ t.f = s.f
    <2> HIDE DEF kk, nn
    <2> QED  BY <1>1, <1>5, <1>7 DEF EpState
  <1>9. Ctl(s, t, p, F) <=> ctl
    <2>1. Evs(t.c, p.fd) = new
      BY <1>8 DEF new
    <2> HIDE DEF t
    <2> QED  BY <2>1 DEF Ctl
  <1>10. Evs(t.c, p.fd) = new /\ Masks(t.c, p.fd) = mask
    BY <1>8 DEF new, mask
  <1> HIDE DEF t, ctl
  <1>11. DelFacts(s, t, p, F)
    BY <1>4, <1>8, <1>9, <1>10 DEF DelFacts
  <1> QED  BY <1>3, <1>11

\* The kernel watches what is counted of the descriptors of O, those of F aside,
\* and evtlist_cnt is the number it watches.
Sync(s, F, O) == \A fd \in Fd \ F : s.k[fd] = IF fd \in O THEN Masks(s.c, fd) ELSE {}
Nonneg(c) == \A q \in Pair : c[q] >= 0
Listed(s) == s.n = Cardinality({fd \in Fd : s.k[fd] # {}})

\* The number of registered descriptors, when one is added, modified or deleted.
LEMMA ListedChange ==
    ASSUME NEW k \in [Fd -> SUBSET Watchable], NEW fd \in Fd, NEW e \in SUBSET Watchable
    PROVE  LET old == Cardinality({d \in Fd : k[d] # {}})
               new == Cardinality({d \in Fd : [k EXCEPT ![fd] = e][d] # {}})
           IN  /\ old \in Nat /\ new \in Nat
               /\ (k[fd] = {} <=> e = {}) => new = old
               /\ k[fd] = {} /\ e # {} => new = old + 1
               /\ k[fd] # {} /\ e = {} => new = old - 1
  <1> DEFINE A == {d \in Fd : k[d] # {}}
             B == {d \in Fd : [k EXCEPT ![fd] = e][d] # {}}
  <1>1. IsFiniteSet(A) /\ IsFiniteSet(B)
    <2>1. A \subseteq Fd /\ B \subseteq Fd
      OBVIOUS
    <2> HIDE DEF A, B
    <2> QED  BY <2>1, FS_Subset, PollAssumption DEF PollAssumption
  <1>2. Cardinality(A) \in Nat /\ Cardinality(B) \in Nat
    <2> HIDE DEF A, B
    <2> QED  BY <1>1, FS_CardinalityType
  <1>3. /\ (k[fd] = {} <=> e = {}) => B = A
        /\ k[fd] = {} /\ e # {} => B = A \cup {fd} /\ fd \notin A
        /\ k[fd] # {} /\ e = {} => A = B \cup {fd} /\ fd \notin B
    OBVIOUS
  <1> HIDE DEF A, B
  <1>4. fd \notin A => Cardinality(A \cup {fd}) = Cardinality(A) + 1
    BY <1>1, FS_AddElement
  <1>5. fd \notin B => Cardinality(B \cup {fd}) = Cardinality(B) + 1
    BY <1>1, FS_AddElement
  <1>6. /\ (k[fd] = {} <=> e = {}) => Cardinality(B) = Cardinality(A)
        /\ k[fd] = {} /\ e # {} => Cardinality(B) = Cardinality(A) + 1
        /\ k[fd] # {} /\ e = {} => Cardinality(A) = Cardinality(B) + 1
    BY <1>3, <1>4, <1>5
  <1>7. k[fd] # {} /\ e = {} => Cardinality(B) = Cardinality(A) - 1
    BY <1>2, <1>6
  <1> QED  BY <1>2, <1>6, <1>7 DEF A, B

\* One entry taken back keeps the kernel in step.
LEMMA DelOneSync ==
    ASSUME NEW s \in EpState, NEW t, NEW p \in Entry, NEW F, NEW O \in SUBSET open,
           DelFacts(s, t, p, F), s.f, Sync(s, F, O), Listed(s), Nonneg(t.c)
    PROVE  Sync(t, F, O) /\ Listed(t) /\ \A fd \in F \cap Fd : t.k[fd] = s.k[fd]
  <1> DEFINE g == p.fd
             new == Evs(t.c, g)
             mask == Masks(t.c, g)
  <1>1. g \in Fd /\ s.k \in [Fd -> SUBSET Watchable] /\ s.c \in [Pair -> Int] /\ s.n \in Int
    BY DEF EpState, Entry
  <1>2. /\ \A q \in Pair : t.c[q] = IF Asks1(p, q) THEN s.c[q] - 1 ELSE s.c[q]
        /\ t.k = IF Ctl(s, t, p, F) THEN [s.k EXCEPT ![g] = mask] ELSE s.k
        /\ t.n = IF Ctl(s, t, p, F) /\ new = {} THEN s.n - 1 ELSE s.n
    BY DEF DelFacts
  <1>3. \A fd \in Fd : fd # g => Masks(t.c, fd) = Masks(s.c, fd)
    <2> SUFFICES ASSUME NEW fd \in Fd, fd # g, NEW e \in Event
                 PROVE  t.c[<<fd, e>>] # 0 <=> s.c[<<fd, e>>] # 0
      BY DEF Evs, Masks
    <2>1. <<fd, e>> \in Pair /\ ~Asks1(p, <<fd, e>>)
      BY DEF Pair, Asks1
    <2> QED  BY <1>2, <2>1
  <1>4. /\ new \subseteq Evs(s.c, g) /\ mask \in SUBSET Watchable
        /\ mask = {} <=> new = {}
        /\ Masks(s.c, g) = {} <=> Evs(s.c, g) = {}
    <2> SUFFICES ASSUME NEW e \in Event, t.c[<<g, e>>] # 0 PROVE s.c[<<g, e>>] # 0
      BY MaskIs DEF Evs
    <2>1. <<g, e>> \in Pair
      BY <1>1 DEF Pair
    <2>2. s.c[<<g, e>>] \in Int /\ t.c[<<g, e>>] >= 0
      BY <1>1, <2>1 DEF Nonneg
    <2>3. t.c[<<g, e>>] = s.c[<<g, e>>] - 1 \/ t.c[<<g, e>>] = s.c[<<g, e>>]
      BY <1>2, <2>1
    <2> QED  BY <2>2, <2>3
  <1> HIDE DEF g
  <1>5. CASE Ctl(s, t, p, F)
    <2>1. g \notin F /\ g \in open /\ s.k[g] # {}
      BY <1>5 DEF Ctl, g
    <2>2. t.k = [s.k EXCEPT ![g] = mask] /\ t.n = IF new = {} THEN s.n - 1 ELSE s.n
      BY <1>2, <1>5
    <2> HIDE DEF new, mask
    <2>3. Listed(t)
      <3>1. Cardinality({d \in Fd : t.k[d] # {}}) =
              IF new = {} THEN Cardinality({d \in Fd : s.k[d] # {}}) - 1
              ELSE Cardinality({d \in Fd : s.k[d] # {}})
        <4> DEFINE kk == s.k
                   A == Cardinality({d \in Fd : kk[d] # {}})
                   B == Cardinality({d \in Fd : [kk EXCEPT ![g] = mask][d] # {}})
        <4>1. kk \in [Fd -> SUBSET Watchable] /\ g \in Fd /\ mask \in SUBSET Watchable /\ kk[g] # {}
          BY <1>1, <1>4, <2>1
        <4> HIDE DEF kk
        <4>2. /\ (kk[g] = {} <=> mask = {}) => B = A
              /\ kk[g] # {} /\ mask = {} => B = A - 1
          BY <4>1, ListedChange
        <4>3. B = IF new = {} THEN A - 1 ELSE A
          <5> HIDE DEF A, B
          <5> QED  BY <1>4, <4>1, <4>2
        <4> QED  BY <2>2, <4>3 DEF kk
      <3> QED  BY <2>2, <3>1 DEF Listed
    <2>4. \A fd \in Fd : fd # g => t.k[fd] = s.k[fd]
      BY <1>1, <2>2
    <2>5. t.k[g] = mask
      BY <1>1, <2>2
    <2>6. Sync(t, F, O)
      <3> SUFFICES ASSUME NEW fd \in Fd \ F PROVE t.k[fd] = IF fd \in O THEN Masks(t.c, fd) ELSE {}
        BY DEF Sync
      <3>1. CASE fd = g
        <4>1. g \in O
          BY <1>1, <2>1 DEF Sync
        <4> QED  BY <2>5, <3>1, <4>1 DEF mask
      <3>2. CASE fd # g
        BY <1>3, <2>4, <3>2 DEF Sync
      <3> QED  BY <3>1, <3>2
    <2> QED  BY <2>1, <2>3, <2>4, <2>6
  <1>6. CASE ~Ctl(s, t, p, F)
    <2>1. t.k = s.k /\ t.n = s.n
      BY <1>2, <1>6
    <2>2. g \in O /\ g \notin F => mask = Masks(s.c, g)
      <3> SUFFICES ASSUME g \in O, g \notin F, mask # Masks(s.c, g) PROVE FALSE
        OBVIOUS
      <3>0. new # Evs(s.c, g)
        BY DEF Masks
      <3>1. s.k[g] = Masks(s.c, g) /\ s.k[g] # {} /\ new # Evs(s.c, g) /\ g \in open
        BY <1>1, <1>4, <3>0 DEF Sync
      <3> QED  BY <1>6, <3>1 DEF Ctl, g
    <2>3. Sync(t, F, O)
      <3> SUFFICES ASSUME NEW fd \in Fd \ F PROVE t.k[fd] = IF fd \in O THEN Masks(t.c, fd) ELSE {}
        BY DEF Sync
      <3>1. CASE fd = g
        BY <2>1, <2>2, <3>1 DEF Sync
      <3>2. CASE fd # g
        BY <1>3, <2>1, <3>2 DEF Sync
      <3> QED  BY <3>1, <3>2
    <2> QED  BY <2>1, <2>3 DEF Listed
  <1> QED  BY <1>5, <1>6

-----------------------------------------------------------------------------
\* How many of the first i entries ask for q.
Num(r, i, q) == Cardinality({j \in 1..i : Asks1(r[j], q)})

LEMMA NumStep ==
    ASSUME NEW r, NEW i \in Nat, NEW q
    PROVE  /\ Num(r, i, q) \in Nat /\ Num(r, 0, q) = 0
           /\ Num(r, i + 1, q) = IF Asks1(r[i + 1], q) THEN Num(r, i, q) + 1 ELSE Num(r, i, q)
  <1> DEFINE A == {j \in 1..i : Asks1(r[j], q)}
             B == {j \in 1..i + 1 : Asks1(r[j], q)}
             Z == {j \in 1..0 : Asks1(r[j], q)}
  <1>1. IsFiniteSet(1..i) /\ A \subseteq 1..i
    BY FS_Interval
  <1>2. IsFiniteSet(A) /\ Cardinality(A) \in Nat
    <2> HIDE DEF A
    <2> QED  BY <1>1, FS_Subset, FS_CardinalityType
  <1>3. Z = {} /\ i + 1 \notin A
    OBVIOUS
  <1>4. B = IF Asks1(r[i + 1], q) THEN A \cup {i + 1} ELSE A
    <2>1. 1..i + 1 = (1..i) \cup {i + 1}
      OBVIOUS
    <2> QED  BY <2>1
  <1>5. Cardinality(A \cup {i + 1}) = Cardinality(A) + 1
    <2> HIDE DEF A
    <2> QED  BY <1>2, <1>3, FS_AddElement
  <1>6. Cardinality(Z) = 0
    BY <1>3, FS_EmptySet
  <1>7. Num(r, i, q) = Cardinality(A) /\ Num(r, i + 1, q) = Cardinality(B) /\ Num(r, 0, q) = Cardinality(Z)
    BY DEF Num
  <1> HIDE DEF A, B, Z
  <1> QED  BY <1>2, <1>4, <1>5, <1>6, <1>7

LEMMA NumAll ==
    ASSUME NEW r \in Array, NEW q
    PROVE  Num(r, Len(r), q) = NumIn(r, q)
  <1>1. DOMAIN r = 1..Len(r)
    BY DEF Array
  <1>2. {j \in 1..Len(r) : Asks1(r[j], q)} = EntriesFor(r, q)
    BY <1>1 DEF EntriesFor, Asks1
  <1> QED  BY <1>2 DEF Num, NumIn

LEMMA NumFirst ==
    ASSUME NEW r \in Array, NEW m \in 0..Len(r), NEW q
    PROVE  SubSeq(r, 1, m) \in Array /\ NumIn(SubSeq(r, 1, m), q) = Num(r, m, q)
  <1> DEFINE z == SubSeq(r, 1, m)
  <1>1. z \in Array /\ Len(z) = m /\ \A j \in 1..m : z[j] = r[j]
    BY DEF Array
  <1> HIDE DEF z
  <1>2. Num(z, Len(z), q) = NumIn(z, q)
    BY <1>1, NumAll
  <1>3. {j \in 1..Len(z) : Asks1(z[j], q)} = {j \in 1..m : Asks1(r[j], q)}
    BY <1>1
  <1>4. Num(z, Len(z), q) = Num(r, m, q)
    BY <1>3 DEF Num
  <1> QED  BY <1>1, <1>2, <1>4 DEF z

\* The loop of _st_epoll_pollset_del obeys its recursion.
LEMMA DelTurnsAre ==
    ASSUME NEW s \in EpState, NEW r \in Array, NEW F
    PROVE  LET at == E!DelTurns(s, r, F) IN
           /\ at[0] = s /\ \A i \in 0..Len(r) : at[i] \in EpState
           /\ \A i \in 1..Len(r) : at[i] = E!DelOne(at[i - 1], r[i], F)
  <1> DEFINE n == Len(r)
             one(u, i) == E!DelOne(u, r[i], F)
             step == [i \in 1..n |-> [u \in EpState |-> one(u, i)]]
             T(g) == [i \in 0..n |-> IF i = 0 THEN s ELSE one(g[i - 1], i)]
             a == E!DelTurns(s, r, F)
  <1>1. n \in Nat /\ \A i \in 1..n : r[i] \in Entry
    BY DEF Array
  <1>2. \A i \in 1..n, u \in EpState : one(u, i) \in EpState
    BY <1>1, DelOneIs DEF DelFacts
  <1>3. a = CHOOSE g : g = T(g)
    BY DEF E!DelTurns
  <1> HIDE DEF n, one, a
  <1>4. step \in [1..n -> [EpState -> EpState]]
    BY <1>2
  <1>5. PICK f \in [0..n -> EpState] : f[0] = s /\ \A i \in 1..n : f[i] = step[i][f[i - 1]]
    <2> HIDE DEF step, T
    <2>1. Iterates(n, EpState, s, step)
      BY <1>1, <1>4, Iterated
    <2> QED  BY <2>1 DEF Iterates
  <1>6. \A i \in 1..n : f[i] = one(f[i - 1], i)
    <2> SUFFICES ASSUME NEW i \in 1..n PROVE f[i] = one(f[i - 1], i)
      OBVIOUS
    <2>1. i - 1 \in 0..n
      BY <1>1
    <2>2. f[i - 1] \in EpState
      BY <2>1
    <2> QED  BY <1>5, <2>2
  <1>7. f = T(f)
    BY <1>1, <1>5, <1>6
  <1>8. a = T(a)
    <2> HIDE DEF T
    <2> QED  BY <1>3, <1>7
  <1>9. a[0] = s /\ \A i \in 1..n : a[i] = one(a[i - 1], i)
    <2>1. \A i \in 0..n : a[i] = T(a)[i]
      <3> HIDE DEF T
      <3> QED  BY <1>8
    <2>2. 0 \in 0..n /\ \A i \in 1..n : i \in 0..n /\ i # 0
      BY <1>1
    <2>3. \A i \in 0..n : T(a)[i] = IF i = 0 THEN s ELSE one(a[i - 1], i)
      OBVIOUS
    <2> HIDE DEF T
    <2> QED  BY <2>1, <2>2, <2>3
  <1> HIDE DEF T, step
  <1>10. \A i \in 0..n : a[i] \in EpState
    <2> DEFINE G == {i \in Nat : a[i] \in EpState}
    <2>1. 0 \in G /\ \A i \in 1..n : i - 1 \in G => i \in G
      BY <1>1, <1>2, <1>9
    <2>2. 0..n \subseteq G
      <3> HIDE DEF G
      <3> QED  BY <1>1, <2>1, Upwards
    <2> QED  BY <2>2
  <1> QED  BY <1>9, <1>10 DEF a, n, one

\* What taking requests back keeps; the descriptors of F are left for later.
Keeps(s, t, F) ==
    /\ t \in EpState /\ t.f = s.f
    /\ \A q \in Pair : t.c[q] <= s.c[q]
    /\ Nonneg(t.c) => \A O \in SUBSET open :
         s.f /\ Sync(s, F, O) /\ Listed(s) =>
           Sync(t, F, O) /\ Listed(t) /\ \A fd \in F \cap Fd : t.k[fd] = s.k[fd]
    /\ ~s.f => t.k = s.k /\ t.n = s.n

LEMMA KeepsSame == ASSUME NEW s \in EpState, NEW F PROVE Keeps(s, s, F)
  <1>1. \A q \in Pair : s.c[q] \in Int
    BY DEF EpState
  <1>2. \A q \in Pair : s.c[q] <= s.c[q]
    BY <1>1
  <1> QED  BY <1>2 DEF Keeps

LEMMA KeepsOn ==
    ASSUME NEW s \in EpState, NEW t, NEW u, NEW F, Keeps(s, t, F), Keeps(t, u, F)
    PROVE  Keeps(s, u, F)
  <1>1. /\ \A q \in Pair : s.c[q] \in Int /\ t.c[q] \in Int /\ u.c[q] \in Int
        /\ \A q \in Pair : t.c[q] <= s.c[q] /\ u.c[q] <= t.c[q]
    BY DEF Keeps, EpState
  <1>2. /\ \A q \in Pair : u.c[q] <= s.c[q]
        /\ Nonneg(u.c) => Nonneg(t.c)
    BY <1>1 DEF Nonneg
  <1> QED  BY <1>2 DEF Keeps

LEMMA DelOneKeeps ==
    ASSUME NEW s \in EpState, NEW p \in Entry, NEW F
    PROVE  LET t == E!DelOne(s, p, F) IN
           /\ Keeps(s, t, F)
           /\ \A q \in Pair : t.c[q] = IF Asks1(p, q) THEN s.c[q] - 1 ELSE s.c[q]
  <1> DEFINE t == E!DelOne(s, p, F)
  <1>1. DelFacts(s, t, p, F)
    BY DelOneIs
  <1> HIDE DEF t
  <1>2. ASSUME Nonneg(t.c), NEW O \in SUBSET open, s.f, Sync(s, F, O), Listed(s)
        PROVE  Sync(t, F, O) /\ Listed(t) /\ \A fd \in F \cap Fd : t.k[fd] = s.k[fd]
    BY <1>1, <1>2, DelOneSync
  <1>3. ~s.f => ~Ctl(s, t, p, F)
    BY DEF Ctl
  <1>4. /\ t \in EpState /\ t.f = s.f
        /\ \A q \in Pair : t.c[q] = IF Asks1(p, q) THEN s.c[q] - 1 ELSE s.c[q]
        /\ ~s.f => t.k = s.k /\ t.n = s.n
    BY <1>1, <1>3 DEF DelFacts
  <1>5. \A q \in Pair : t.c[q] <= s.c[q]
    <2>1. \A q \in Pair : s.c[q] \in Int
      BY DEF EpState
    <2> QED  BY <1>4, <2>1
  <1>6. Keeps(s, t, F)
    BY <1>2, <1>4, <1>5 DEF Keeps
  <1> QED  BY <1>4, <1>6 DEF t

\* _st_epoll_pollset_del takes every entry of the request back.
LEMMA DelAllIs ==
    ASSUME NEW s \in EpState, NEW r \in Array, NEW F
    PROVE  LET t == E!DelAll(s, r, F) IN
           /\ Keeps(s, t, F)
           /\ \A q \in Pair : t.c[q] = s.c[q] - NumIn(r, q)
  <1> DEFINE n == Len(r)
             at == E!DelTurns(s, r, F)
             Good(i) == Keeps(s, at[i], F) /\ \A q \in Pair : at[i].c[q] = s.c[q] - Num(r, i, q)
             G == {i \in Nat : Good(i)}
  <1>1. /\ at[0] = s /\ \A i \in 0..n : at[i] \in EpState
        /\ \A i \in 1..n : at[i] = E!DelOne(at[i - 1], r[i], F)
    BY DelTurnsAre
  <1>2. n \in Nat /\ \A i \in 1..n : r[i] \in Entry
    BY DEF Array
  <1>3. E!DelAll(s, r, F) = at[n]
    BY DEF E!DelAll
  <1>4. s.c \in [Pair -> Int]
    BY DEF EpState
  <1> HIDE DEF at, n
  <1>5. Good(0)
    <2>1. \A q \in Pair : s.c[q] \in Int /\ Num(r, 0, q) = 0
      BY <1>4, NumStep
    <2>2. \A q \in Pair : s.c[q] = s.c[q] - Num(r, 0, q)
      BY <2>1
    <2> QED  BY <1>1, <2>2, KeepsSame
  <1>6. ASSUME NEW i \in 1..n, Good(i - 1) PROVE Good(i)
    <2> DEFINE u == at[i - 1]
               t == E!DelOne(u, r[i], F)
    <2>1. u \in EpState /\ at[i] = t /\ r[i] \in Entry /\ i - 1 \in Nat /\ (i - 1) + 1 = i
      BY <1>1, <1>2
    <2>2. /\ Keeps(u, t, F)
          /\ \A q \in Pair : t.c[q] = IF Asks1(r[i], q) THEN u.c[q] - 1 ELSE u.c[q]
      <3> HIDE DEF u
      <3> QED  BY <2>1, DelOneKeeps
    <2>3. Keeps(s, u, F) /\ \A q \in Pair : u.c[q] = s.c[q] - Num(r, i - 1, q)
      BY <1>6
    <2> HIDE DEF t, u
    <2>4. Keeps(s, t, F)
      BY <2>2, <2>3, KeepsOn
    <2>5. ASSUME NEW q \in Pair PROVE t.c[q] = s.c[q] - Num(r, i, q)
      <3> DEFINE a == Num(r, i - 1, q)
                 b == Num(r, i, q)
                 x == s.c[q]
      <3>1. a \in Nat /\ b = IF Asks1(r[i], q) THEN a + 1 ELSE a
        BY <2>1, NumStep
      <3>2. x \in Int
        BY <1>4
      <3>3. u.c[q] = x - a
        BY <2>3
      <3>4. t.c[q] = IF Asks1(r[i], q) THEN (x - a) - 1 ELSE x - a
        BY <2>2, <3>3
      <3> HIDE DEF a, b, x
      <3>5. t.c[q] = x - b
        BY <3>1, <3>2, <3>4
      <3> QED  BY <3>5 DEF x, b
    <2> QED  BY <2>1, <2>4, <2>5
  <1> HIDE DEF Good
  <1>7. 0..n \subseteq G
    <2>1. 0 \in G /\ \A i \in 1..n : i - 1 \in G => i \in G
      BY <1>5, <1>6
    <2> HIDE DEF G
    <2> QED  BY <1>2, <2>1, Upwards
  <1>8. Good(n)
    BY <1>2, <1>7
  <1>9. \A q \in Pair : Num(r, n, q) = NumIn(r, q)
    BY NumAll DEF n
  <1> QED  BY <1>3, <1>8, <1>9 DEF Good

-----------------------------------------------------------------------------
(* The requests of several threads.                                          *)

\* The entries for p of the first i threads in q.
NumUpto(q, i, p) == Cardinality(Entries(pds, {q[j] : j \in 1..i}, p))

LEMMA NumUptoStep ==
    ASSUME NEW q \in Seq(Thread), IsInjective(q), NEW i \in 1..Len(q), NEW p,
           pds \in [Thread -> Array]
    PROVE  /\ NumUpto(q, i - 1, p) \in Nat
           /\ NumUpto(q, i, p) = NumUpto(q, i - 1, p) + NumIn(pds[q[i]], p)
  <1> DEFINE A == {q[j] : j \in 1..i - 1}
             B == {q[i]}
  <1>1. Len(q) \in Nat /\ DOMAIN q = 1..Len(q)
    OBVIOUS
  <1>2. A \in SUBSET Thread /\ B \in SUBSET Thread /\ q[i] \in Thread
    BY <1>1
  <1>3. A \cap B = {}
    <2> SUFFICES ASSUME NEW j \in 1..i - 1, q[j] = q[i] PROVE FALSE
      OBVIOUS
    <2>1. j \in DOMAIN q /\ i \in DOMAIN q /\ j # i
      BY <1>1
    <2> QED  BY <2>1 DEF IsInjective
  <1>4. {q[j] : j \in 1..i} = A \cup B
    <2>1. 1..i = (1..i - 1) \cup {i}
      OBVIOUS
    <2> QED  BY <2>1
  <1> HIDE DEF A
  <1>5. Cardinality(Entries(pds, A \cup B, p)) = Cardinality(Entries(pds, A, p)) + Cardinality(Entries(pds, B, p))
    <2> HIDE DEF B
    <2> QED  BY <1>2, <1>3, EntriesSplit
  <1>6. Cardinality(Entries(pds, B, p)) = NumIn(pds[q[i]], p)
    BY <1>2, EntriesOfOne
  <1>7. Cardinality(Entries(pds, A, p)) \in Nat
    BY <1>2, EntriesFinite
  <1> QED  BY <1>4, <1>5, <1>6, <1>7 DEF NumUpto, A

LEMMA NumUptoEnds ==
    ASSUME NEW q \in Seq(Thread), NEW p
    PROVE  NumUpto(q, 0, p) = 0 /\ NumUpto(q, Len(q), p) = Cardinality(Entries(pds, ToSet(q), p))
  <1>1. {q[j] : j \in 1..0} = {} /\ {q[j] : j \in 1..Len(q)} = ToSet(q)
    BY DEF ToSet
  <1>2. Entries(pds, {}, p) = {}
    BY DEF Entries
  <1> QED  BY <1>1, <1>2, FS_EmptySet DEF NumUpto

\* The loop of dispatch over the threads it wakes obeys its recursion.
LEMMA DelThreadsAre ==
    ASSUME NEW s \in EpState, NEW q \in Seq(Thread), NEW F, pds \in [Thread -> Array]
    PROVE  LET at == E!DelThreads(s, q, F) IN
           /\ at[0] = s /\ \A i \in 0..Len(q) : at[i] \in EpState
           /\ \A i \in 1..Len(q) : at[i] = E!DelAll(at[i - 1], pds[q[i]], F)
  <1> DEFINE n == Len(q)
             one(u, i) == E!DelAll(u, pds[q[i]], F)
             step == [i \in 1..n |-> [u \in EpState |-> one(u, i)]]
             T(g) == [i \in 0..n |-> IF i = 0 THEN s ELSE one(g[i - 1], i)]
             a == E!DelThreads(s, q, F)
  <1>1. n \in Nat /\ \A i \in 1..n : pds[q[i]] \in Array
    OBVIOUS
  <1>2. \A i \in 1..n, u \in EpState : one(u, i) \in EpState
    BY <1>1, DelAllIs DEF Keeps
  <1>3. a = CHOOSE g : g = T(g)
    BY DEF E!DelThreads
  <1> HIDE DEF n, one, a
  <1>4. step \in [1..n -> [EpState -> EpState]]
    BY <1>2
  <1>5. PICK f \in [0..n -> EpState] : f[0] = s /\ \A i \in 1..n : f[i] = step[i][f[i - 1]]
    <2> HIDE DEF step, T
    <2>1. Iterates(n, EpState, s, step)
      BY <1>1, <1>4, Iterated
    <2> QED  BY <2>1 DEF Iterates
  <1>6. \A i \in 1..n : f[i] = one(f[i - 1], i)
    <2> SUFFICES ASSUME NEW i \in 1..n PROVE f[i] = one(f[i - 1], i)
      OBVIOUS
    <2>1. i - 1 \in 0..n
      BY <1>1
    <2>2. f[i - 1] \in EpState
      BY <2>1
    <2> QED  BY <1>5, <2>2
  <1>7. f = T(f)
    BY <1>1, <1>5, <1>6
  <1>8. a = T(a)
    <2> HIDE DEF T
    <2> QED  BY <1>3, <1>7
  <1>9. a[0] = s /\ \A i \in 1..n : a[i] = one(a[i - 1], i)
    <2>1. \A i \in 0..n : a[i] = T(a)[i]
      <3> HIDE DEF T
      <3> QED  BY <1>8
    <2>2. 0 \in 0..n /\ \A i \in 1..n : i \in 0..n /\ i # 0
      BY <1>1
    <2>3. \A i \in 0..n : T(a)[i] = IF i = 0 THEN s ELSE one(a[i - 1], i)
      OBVIOUS
    <2> HIDE DEF T
    <2> QED  BY <2>1, <2>2, <2>3
  <1> HIDE DEF T, step
  <1>10. \A i \in 0..n : a[i] \in EpState
    <2> DEFINE G == {i \in Nat : a[i] \in EpState}
    <2>1. 0 \in G /\ \A i \in 1..n : i - 1 \in G => i \in G
      BY <1>1, <1>2, <1>9
    <2>2. 0..n \subseteq G
      <3> HIDE DEF G
      <3> QED  BY <1>1, <2>1, Upwards
    <2> QED  BY <2>2
  <1> QED  BY <1>9, <1>10 DEF a, n, one

\* Dispatch takes back the requests of the threads it wakes.
LEMMA DelThreadsIs ==
    ASSUME NEW s \in EpState, NEW q \in Seq(Thread), IsInjective(q), NEW F,
           pds \in [Thread -> Array]
    PROVE  LET t == E!DelThreads(s, q, F)[Len(q)] IN
           /\ Keeps(s, t, F)
           /\ \A p \in Pair : t.c[p] = s.c[p] - Cardinality(Entries(pds, ToSet(q), p))
  <1> DEFINE n == Len(q)
             at == E!DelThreads(s, q, F)
             Good(i) == Keeps(s, at[i], F) /\ \A p \in Pair : at[i].c[p] = s.c[p] - NumUpto(q, i, p)
             G == {i \in Nat : Good(i)}
  <1>1. /\ at[0] = s /\ \A i \in 0..n : at[i] \in EpState
        /\ \A i \in 1..n : at[i] = E!DelAll(at[i - 1], pds[q[i]], F)
    BY DelThreadsAre
  <1>2. n \in Nat /\ \A i \in 1..n : pds[q[i]] \in Array
    OBVIOUS
  <1>4. s.c \in [Pair -> Int]
    BY DEF EpState
  <1>5. Good(0)
    <2>1. \A p \in Pair : s.c[p] \in Int /\ NumUpto(q, 0, p) = 0
      BY <1>4, NumUptoEnds
    <2> HIDE DEF at
    <2>2. \A p \in Pair : s.c[p] = s.c[p] - NumUpto(q, 0, p)
      BY <2>1
    <2> QED  BY <1>1, <2>2, KeepsSame
  <1>6. ASSUME NEW i \in 1..n, Good(i - 1) PROVE Good(i)
    <2> DEFINE u == at[i - 1]
               r == pds[q[i]]
               t == E!DelAll(u, r, F)
    <2>1. u \in EpState /\ at[i] = t /\ r \in Array
      <3> HIDE DEF at
      <3> QED  BY <1>1, <1>2
    <2>2. /\ Keeps(u, t, F)
          /\ \A p \in Pair : t.c[p] = u.c[p] - NumIn(r, p)
      <3> HIDE DEF u, r
      <3> QED  BY <2>1, DelAllIs
    <2>3. Keeps(s, u, F) /\ \A p \in Pair : u.c[p] = s.c[p] - NumUpto(q, i - 1, p)
      BY <1>6
    <2> HIDE DEF t, u
    <2>4. Keeps(s, t, F)
      BY <2>2, <2>3, KeepsOn
    <2>5. ASSUME NEW p \in Pair PROVE t.c[p] = s.c[p] - NumUpto(q, i, p)
      <3> DEFINE a == NumUpto(q, i - 1, p)
                 b == NumUpto(q, i, p)
                 x == s.c[p]
                 d == NumIn(r, p)
      <3>1. a \in Nat /\ b = a + d
        BY NumUptoStep
      <3>2. x \in Int /\ d \in Nat
        BY <1>4, <2>1, ArrayProps
      <3>3. u.c[p] = x - a /\ t.c[p] = u.c[p] - d
        BY <2>2, <2>3
      <3> HIDE DEF a, b, x, d
      <3>5. t.c[p] = x - b
        BY <3>1, <3>2, <3>3
      <3> QED  BY <3>5 DEF x, b
    <2> HIDE DEF at
    <2> QED  BY <2>1, <2>4, <2>5
  <1> HIDE DEF Good
  <1>7. 0..n \subseteq G
    <2>1. 0 \in G /\ \A i \in 1..n : i - 1 \in G => i \in G
      BY <1>5, <1>6
    <2> HIDE DEF G, n
    <2> QED  BY <1>2, <2>1, Upwards
  <1>8. Good(n)
    BY <1>2, <1>7
  <1>9. \A p \in Pair : NumUpto(q, n, p) = Cardinality(Entries(pds, ToSet(q), p))
    BY NumUptoEnds
  <1> QED  BY <1>8, <1>9 DEF Good

-----------------------------------------------------------------------------
(* Registering a request.                                                    *)

AddState == [s : EpState, i : Nat, b : BOOLEAN]

\* Only open descriptors are counted.
Held(c) == \A q \in Pair : c[q] >= 0 /\ (c[q] > 0 => q[1] \in open)

\* The state that registering starts from.
Sound(s) == Held(s.c) /\ (s.f => Sync(s, {}, open) /\ Listed(s))

\* epoll_ctl for the entry p succeeds, or says that the descriptor is there; the
\* kernel has no room for those in full.
AddOk(s, p, full) ==
    /\ s.f /\ p.fd \in open /\ ((s.k[p.fd] # {}) <=> (Evs(s.c, p.fd) # {}))
    /\ Evs(s.c, p.fd) = {} => p.fd \notin full
AddExists(s, p) == Evs(s.c, p.fd) = {} /\ s.f /\ p.fd \in open /\ s.k[p.fd] # {}

AddFacts(u, w, p, full) ==
    LET s == u.s
        t == w.s
        old == Evs(s.c, p.fd)
        new == Evs(t.c, p.fd)
    IN  /\ w \in AddState /\ w.i = u.i + 1 /\ t.f = s.f
        /\ \A q \in Pair : t.c[q] = IF Asks1(p, q) THEN s.c[q] + 1 ELSE s.c[q]
        /\ t.k = IF new # old /\ AddOk(s, p, full) THEN [s.k EXCEPT ![p.fd] = new \cup {"err"}] ELSE s.k
        /\ t.n = IF new # old /\ old = {} /\ ~w.b THEN s.n + 1 ELSE s.n
        /\ w.b <=> new # old /\ ~AddOk(s, p, full) /\ ~AddExists(s, p)

LEMMA AddOneIs ==
    ASSUME NEW u \in AddState, NEW p \in Entry, NEW full
    PROVE  /\ u.b => E!AddOne(u, p, full) = u
           /\ ~u.b => AddFacts(u, E!AddOne(u, p, full), p, full)
  <1> DEFINE s == u.s
             c == [q \in Pair |-> IF Asks1(p, q) THEN s.c[q] + 1 ELSE s.c[q]]
             old == Evs(s.c, p.fd)
             new == Evs(c, p.fd)
             ok == AddOk(s, p, full)
             exists == AddExists(s, p)
             failed == new # old /\ ~ok /\ ~exists
             kk == IF new # old /\ ok THEN [s.k EXCEPT ![p.fd] = new \cup {"err"}] ELSE s.k
             nn == IF new # old /\ old = {} /\ ~failed THEN s.n + 1 ELSE s.n
             t == [c |-> c, f |-> s.f, k |-> kk, n |-> nn]
             w == [s |-> t, i |-> u.i + 1, b |-> failed]
  <1>1. /\ s \in EpState /\ u.i \in Nat /\ u.b \in BOOLEAN
    BY DEF AddState
  <1>2. /\ s.c \in [Pair -> Int] /\ s.k \in [Fd -> SUBSET Watchable] /\ s.n \in Int /\ s.f \in BOOLEAN
    BY <1>1 DEF EpState
  <1>3. p.fd \in Fd
    BY DEF Entry
  <1>4. u.b => E!AddOne(u, p, full) = u
    BY DEF E!AddOne
  <1>5. ~u.b => E!AddOne(u, p, full) = w
    <2>1. E!Count(s.c, p, 1) = c /\ E!EventsOf(c, p.fd) = new /\ E!EventsOf(s.c, p.fd) = old
      BY SameEpoll
    <2>2. E!CtlOk(s, p.fd, ~(old = {})) /\ (old = {} => p.fd \notin full) <=> ok
      BY DEF E!CtlOk, AddOk
    <2>3. exists <=> old = {} /\ s.f /\ p.fd \in open /\ s.k[p.fd] # {}
      BY DEF AddExists
    <2> HIDE DEF c, new, old, ok, exists
    <2> QED  BY <2>1, <2>2, <2>3 DEF E!AddOne
  <1>6. \A q \in Pair : c[q] = IF Asks1(p, q) THEN s.c[q] + 1 ELSE s.c[q]
    BY <1>2
  <1>7. c \in [Pair -> Int]
    BY <1>2
  <1> HIDE DEF c
  <1>8. new \cup {"err"} \in SUBSET Watchable
    BY DEF Evs, Watchable
  <1> HIDE DEF new, old, ok, exists
  <1>9. kk \in [Fd -> SUBSET Watchable] /\ nn \in Int /\ failed \in BOOLEAN
    BY <1>2, <1>3, <1>8
  <1>10. t \in EpState /\ t.c = c /\ t.k = kk /\ t.n = nn /\ t.f = s.f
    <2> HIDE DEF kk, nn
    <2> QED  BY <1>2, <1>7, <1>9 DEF EpState
  <1>11. w \in AddState /\ w.s = t /\ w.i = u.i + 1 /\ w.b = failed
    <2> HIDE DEF t, failed
    <2> QED  BY <1>1, <1>9, <1>10 DEF AddState
  <1>12. Evs(t.c, p.fd) = new
    BY <1>10 DEF new
  <1> HIDE DEF t, w
  <1>13. AddFacts(u, w, p, full)
    <2>1. /\ Evs(w.s.c, p.fd) = new /\ Evs(u.s.c, p.fd) = old
          /\ AddOk(u.s, p, full) <=> ok
          /\ AddExists(u.s, p) <=> exists
      BY <1>11, <1>12 DEF old, ok, exists
    <2>2. w \in AddState /\ w.i = u.i + 1 /\ w.s.f = u.s.f
      BY <1>10, <1>11
    <2>3. \A q \in Pair : w.s.c[q] = IF Asks1(p, q) THEN u.s.c[q] + 1 ELSE u.s.c[q]
      BY <1>6, <1>10, <1>11
    <2>4. w.s.k = IF new # old /\ ok THEN [u.s.k EXCEPT ![p.fd] = new \cup {"err"}] ELSE u.s.k
      BY <1>10, <1>11
    <2>5. w.b <=> failed
      BY <1>11
    <2>6. w.s.n = IF new # old /\ old = {} /\ ~w.b THEN u.s.n + 1 ELSE u.s.n
      BY <1>10, <1>11
    <2> HIDE DEF s
    <2> QED  BY <2>1, <2>2, <2>3, <2>4, <2>5, <2>6 DEF AddFacts
  <1> QED  BY <1>4, <1>5, <1>13

\* One entry registered keeps the kernel in step; one that fails was not
\* registered before, and stays so.
LEMMA AddOneSync ==
    ASSUME NEW u \in AddState, NEW w, NEW p \in Entry, NEW full,
           AddFacts(u, w, p, full), Sound(u.s)
    PROVE  /\ u.s.f => Sync(w.s, {}, IF w.b THEN open \ {p.fd} ELSE open) /\ Listed(w.s)
           /\ ~u.s.f => w.s.k = u.s.k /\ w.s.n = u.s.n
           /\ ~w.b => Held(w.s.c)
           /\ u.s.f /\ w.b => Evs(u.s.c, p.fd) = {}
  <1> DEFINE s == u.s
             t == w.s
             g == p.fd
             old == Evs(s.c, g)
             new == Evs(t.c, g)
             mask == Masks(t.c, g)
  <1>1. s \in EpState /\ g \in Fd /\ s.k \in [Fd -> SUBSET Watchable] /\ s.c \in [Pair -> Int] /\ s.n \in Int
    BY DEF AddState, EpState, Entry
  <1>2. /\ \A q \in Pair : t.c[q] = IF Asks1(p, q) THEN s.c[q] + 1 ELSE s.c[q]
        /\ t.k = IF new # old /\ AddOk(s, p, full) THEN [s.k EXCEPT ![g] = new \cup {"err"}] ELSE s.k
        /\ t.n = IF new # old /\ old = {} /\ ~w.b THEN s.n + 1 ELSE s.n
        /\ w.b <=> new # old /\ ~AddOk(s, p, full) /\ ~AddExists(s, p)
    BY DEF AddFacts
  <1>3. \A fd \in Fd : fd # g => Masks(t.c, fd) = Masks(s.c, fd)
    <2> SUFFICES ASSUME NEW fd \in Fd, fd # g, NEW e \in Event
                 PROVE  t.c[<<fd, e>>] # 0 <=> s.c[<<fd, e>>] # 0
      BY DEF Evs, Masks
    <2>1. <<fd, e>> \in Pair /\ ~Asks1(p, <<fd, e>>)
      BY DEF Pair, Asks1
    <2> QED  BY <1>2, <2>1
  <1>4. /\ old \subseteq new /\ mask \in SUBSET Watchable
        /\ new # {} => mask = new \cup {"err"}
        /\ Masks(s.c, g) = {} <=> old = {}
    <2>0. /\ mask \in SUBSET Watchable /\ (new # {} => mask = new \cup {"err"})
          /\ Masks(s.c, g) = {} <=> old = {}
      BY MaskIs
    <2> SUFFICES ASSUME NEW e \in Event, s.c[<<g, e>>] # 0 PROVE t.c[<<g, e>>] # 0
      BY <2>0 DEF Evs
    <2>1. <<g, e>> \in Pair
      BY <1>1 DEF Pair
    <2>2. s.c[<<g, e>>] \in Int /\ s.c[<<g, e>>] >= 0
      BY <1>1, <2>1 DEF Sound, Held
    <2>3. t.c[<<g, e>>] = s.c[<<g, e>>] + 1 \/ t.c[<<g, e>>] = s.c[<<g, e>>]
      BY <1>2, <2>1
    <2> QED  BY <2>2, <2>3
  <1>5. g \notin open => old = {}
    <2> SUFFICES ASSUME g \notin open, NEW e \in Event, s.c[<<g, e>>] # 0 PROVE FALSE
      BY DEF Evs
    <2>1. <<g, e>> \in Pair /\ <<g, e>>[1] = g /\ s.c[<<g, e>>] \in Int
      BY <1>1 DEF Pair
    <2> QED  BY <2>1 DEF Sound, Held
  <1>6. /\ AddOk(s, p, full) <=> /\ s.f /\ g \in open /\ ((s.k[g] # {}) <=> (old # {}))
                                 /\ old = {} => g \notin full
        /\ AddExists(s, p) <=> old = {} /\ s.f /\ g \in open /\ s.k[g] # {}
    BY DEF AddOk, AddExists
  <1>7. s.f => s.k[g] = IF g \in open THEN Masks(s.c, g) ELSE {}
    BY <1>1 DEF Sound, Sync
  <1>8. s.f /\ g \in open => AddOk(s, p, full) \/ old = {}
    BY <1>4, <1>6, <1>7
  <1>9. ~s.f => ~AddOk(s, p, full) /\ ~AddExists(s, p)
    BY <1>6
  <1>10. ~w.b => Held(t.c)
    <2>0. \A q \in Pair : t.c[q] >= 0
      BY <1>1, <1>2 DEF Sound, Held
    <2> SUFFICES ASSUME ~w.b, NEW q \in Pair, t.c[q] > 0, q[1] \notin open PROVE FALSE
      BY <2>0 DEF Held
    <2>1. q = <<q[1], q[2]>> /\ q[1] \in Fd /\ q[2] \in Event
      BY DEF Pair
    <2>2. CASE q[1] = g
      <3>1. q[2] \in new /\ old = {}
        BY <1>5, <2>1, <2>2 DEF Evs
      <3>2. w.b
        BY <1>2, <1>6, <2>2, <3>1
      <3> QED  BY <3>2
    <2>3. CASE q[1] # g
      <3>1. ~Asks1(p, q)
        BY <2>3 DEF Asks1
      <3> QED  BY <1>2, <3>1 DEF Sound, Held
    <2> QED  BY <2>2, <2>3
  <1>11. w.b /\ s.f => old = {}
    BY <1>2, <1>5, <1>8
  <1>12. ~s.f => t.k = s.k /\ t.n = s.n
    <2> SUFFICES ASSUME ~s.f PROVE t.k = s.k /\ t.n = s.n
      OBVIOUS
    <2>1. ~AddOk(s, p, full) /\ (w.b <=> new # old)
      BY <1>2, <1>9
    <2> QED  BY <1>2, <2>1
  <1> DEFINE O == IF w.b THEN open \ {g} ELSE open
  <1>13. ASSUME s.f PROVE Sync(t, {}, O) /\ Listed(t)
    <2>0. /\ s.n = Cardinality({d \in Fd : s.k[d] # {}})
          /\ \A fd \in Fd : s.k[fd] = IF fd \in open THEN Masks(s.c, fd) ELSE {}
      BY <1>13 DEF Sound, Sync, Listed
    <2>1. CASE new # old /\ AddOk(s, p, full)
      <3>1. s.k[g] = Masks(s.c, g) /\ t.k = [s.k EXCEPT ![g] = mask] /\ ~w.b /\ g \in open
        BY <1>2, <1>4, <1>6, <1>7, <1>13, <2>1
      <3>2. t.n = IF old = {} THEN s.n + 1 ELSE s.n
        BY <1>2, <2>1, <3>1
      <3>3. mask # {} /\ (s.k[g] = {} <=> old = {})
        BY <1>4, <2>1, <3>1
      <3> HIDE DEF new, mask, old, t, s, g
      <3>4. Listed(t)
        <4> DEFINE kk == s.k
                   A == Cardinality({d \in Fd : kk[d] # {}})
                   B == Cardinality({d \in Fd : [kk EXCEPT ![g] = mask][d] # {}})
        <4>1. kk \in [Fd -> SUBSET Watchable] /\ g \in Fd /\ mask \in SUBSET Watchable
          BY <1>1, <1>4
        <4> HIDE DEF kk
        <4>2. /\ (kk[g] = {} <=> mask = {}) => B = A
              /\ kk[g] = {} /\ mask # {} => B = A + 1
          BY <4>1, ListedChange
        <4>3. B = IF kk[g] = {} THEN A + 1 ELSE A
          <5> HIDE DEF A, B
          <5> QED  BY <3>3, <4>2
        <4>4. /\ s.n = A /\ (kk[g] = {} <=> old = {})
              /\ {d \in Fd : t.k[d] # {}} = {d \in Fd : [kk EXCEPT ![g] = mask][d] # {}}
          BY <2>0, <3>1, <3>3 DEF kk
        <4>5. t.n = B
          <5> HIDE DEF A, B
          <5> QED  BY <3>2, <4>3, <4>4
        <4> QED  BY <4>4, <4>5 DEF Listed
      <3>5. Sync(t, {}, O)
        <4> SUFFICES ASSUME NEW fd \in Fd PROVE t.k[fd] = IF fd \in O THEN Masks(t.c, fd) ELSE {}
          BY DEF Sync
        <4>1. CASE fd = g
          BY <1>1, <3>1, <4>1 DEF mask
        <4>2. CASE fd # g
          <5>1. t.k[fd] = s.k[fd] /\ O = open
            BY <1>1, <3>1, <4>2
          <5> QED  BY <1>3, <2>0, <4>2, <5>1
        <4> QED  BY <4>1, <4>2
      <3> QED  BY <3>4, <3>5
    <2>2. CASE ~(new # old /\ AddOk(s, p, full))
      <3>1. t.k = s.k
        BY <1>2, <2>2
      <3>2. new # old => w.b
        <4>1. AddExists(s, p) => FALSE
          BY <1>4, <1>6, <1>7
        <4> QED  BY <1>2, <2>2, <4>1
      <3>3. t.n = s.n
        BY <1>2, <3>2
      <3>4. Sync(t, {}, O)
        <4> SUFFICES ASSUME NEW fd \in Fd PROVE t.k[fd] = IF fd \in O THEN Masks(t.c, fd) ELSE {}
          BY DEF Sync
        <4>1. CASE fd = g /\ w.b
          BY <1>4, <1>7, <1>11, <1>13, <3>1, <4>1
        <4>2. CASE fd = g /\ ~w.b
          <5>1. Masks(t.c, g) = Masks(s.c, g)
            BY <3>2, <4>2 DEF Masks
          <5> QED  BY <2>0, <3>1, <4>2, <5>1
        <4>3. CASE fd # g
          BY <1>3, <2>0, <3>1, <4>3
        <4> QED  BY <4>1, <4>2, <4>3
      <3>5. Listed(t)
        BY <2>0, <3>1, <3>3 DEF Listed
      <3> QED  BY <3>4, <3>5
    <2> QED  BY <2>1, <2>2
  <1> QED  BY <1>10, <1>11, <1>12, <1>13

\* The loop of _st_epoll_pollset_add obeys its recursion.
LEMMA AddTurnsAre ==
    ASSUME NEW s \in EpState, NEW r \in Array, NEW full
    PROVE  LET at == E!AddTurns(s, r, full) IN
           /\ at[0] = [s |-> s, i |-> 0, b |-> FALSE]
           /\ \A i \in 0..Len(r) : at[i] \in AddState /\ at[i].i <= i /\ at[i].s.f = s.f
           /\ \A i \in 1..Len(r) : at[i] = E!AddOne(at[i - 1], r[i], full)
  <1> DEFINE n == Len(r)
             b == [s |-> s, i |-> 0, b |-> FALSE]
             one(u, i) == E!AddOne(u, r[i], full)
             step == [i \in 1..n |-> [u \in AddState |-> one(u, i)]]
             T(g) == [i \in 0..n |-> IF i = 0 THEN b ELSE one(g[i - 1], i)]
             a == E!AddTurns(s, r, full)
  <1>1. n \in Nat /\ (\A i \in 1..n : r[i] \in Entry) /\ b \in AddState /\ b.i = 0 /\ b.s.f = s.f
    BY DEF Array, AddState
  <1>2. \A i \in 1..n, u \in AddState :
           one(u, i) \in AddState /\ one(u, i).i \in {u.i, u.i + 1} /\ one(u, i).s.f = u.s.f
    <2> SUFFICES ASSUME NEW i \in 1..n, NEW u \in AddState
                 PROVE  /\ one(u, i) \in AddState /\ one(u, i).i \in {u.i, u.i + 1}
                        /\ one(u, i).s.f = u.s.f
      OBVIOUS
    <2> DEFINE w == E!AddOne(u, r[i], full)
    <2>1. u.b \in BOOLEAN /\ (u.b => w = u) /\ (~u.b => AddFacts(u, w, r[i], full))
      BY <1>1, AddOneIs DEF AddState
    <2> HIDE DEF w
    <2>2. w \in AddState /\ w.i \in {u.i, u.i + 1} /\ w.s.f = u.s.f
      <3>1. CASE u.b
        BY <2>1, <3>1
      <3>2. CASE ~u.b
        BY <2>1, <3>2 DEF AddFacts
      <3> QED  BY <3>1, <3>2
    <2> QED  BY <2>2 DEF w
  <1>3. a = CHOOSE g : g = T(g)
    BY DEF E!AddTurns
  <1> HIDE DEF n, one, a, b
  <1>4. step \in [1..n -> [AddState -> AddState]]
    BY <1>2
  <1>5. PICK f \in [0..n -> AddState] : f[0] = b /\ \A i \in 1..n : f[i] = step[i][f[i - 1]]
    <2> HIDE DEF step, T
    <2>1. Iterates(n, AddState, b, step)
      BY <1>1, <1>4, Iterated
    <2> QED  BY <2>1 DEF Iterates
  <1>6. \A i \in 1..n : f[i] = one(f[i - 1], i)
    <2> SUFFICES ASSUME NEW i \in 1..n PROVE f[i] = one(f[i - 1], i)
      OBVIOUS
    <2>1. i - 1 \in 0..n
      BY <1>1
    <2>2. f[i - 1] \in AddState
      BY <2>1
    <2> QED  BY <1>5, <2>2
  <1>7. f = T(f)
    BY <1>1, <1>5, <1>6
  <1>8. a = T(a)
    <2> HIDE DEF T
    <2> QED  BY <1>3, <1>7
  <1>9. a[0] = b /\ \A i \in 1..n : a[i] = one(a[i - 1], i)
    <2>1. \A i \in 0..n : a[i] = T(a)[i]
      <3> HIDE DEF T
      <3> QED  BY <1>8
    <2>2. 0 \in 0..n /\ \A i \in 1..n : i \in 0..n /\ i # 0
      BY <1>1
    <2>3. \A i \in 0..n : T(a)[i] = IF i = 0 THEN b ELSE one(a[i - 1], i)
      OBVIOUS
    <2> HIDE DEF T
    <2> QED  BY <2>1, <2>2, <2>3
  <1> HIDE DEF T, step
  <1>10. \A i \in 0..n : a[i] \in AddState /\ a[i].i <= i /\ a[i].s.f = s.f
    <2> DEFINE G == {i \in Nat : a[i] \in AddState /\ a[i].i <= i /\ a[i].s.f = s.f}
    <2>0. ASSUME NEW i \in 1..n, i - 1 \in G PROVE i \in G
      <3>1. a[i - 1] \in AddState /\ a[i - 1].i \in Nat /\ a[i - 1].i <= i - 1 /\ i - 1 \in Nat
        BY <2>0 DEF AddState
      <3>2. a[i] = one(a[i - 1], i)
        BY <1>9
      <3>3. /\ a[i] \in AddState /\ a[i].i \in {a[i - 1].i, a[i - 1].i + 1}
            /\ a[i].s.f = a[i - 1].s.f
        BY <1>2, <3>1, <3>2
      <3> QED  BY <2>0, <3>1, <3>3
    <2>1. 0 \in G /\ \A i \in 1..n : i - 1 \in G => i \in G
      BY <1>1, <1>9, <2>0
    <2>2. 0..n \subseteq G
      <3> HIDE DEF G
      <3> QED  BY <1>1, <2>1, Upwards
    <2> QED  BY <2>2
  <1> QED  BY <1>9, <1>10 DEF a, n, one, b

\* After j entries of r: those up to u.i are counted, and the kernel is in step but
\* for the descriptor that stopped it, of which nothing was registered.
AddInv(s, r, u, j) ==
    /\ u \in AddState /\ u.i <= j /\ (~u.b => u.i = j) /\ u.s.f = s.f
    /\ \A q \in Pair : u.s.c[q] = s.c[q] + Num(r, u.i, q)
    /\ s.f => Listed(u.s) /\ (~u.b => Sync(u.s, {}, open))
    /\ s.f /\ u.b => \E g \in Fd : Sync(u.s, {}, open \ {g}) /\ Evs(s.c, g) = {}
    /\ ~s.f => u.s.k = s.k /\ u.s.n = s.n
    /\ ~u.b => Held(u.s.c)

LEMMA AddInvStart ==
    ASSUME NEW s \in EpState, NEW r, Sound(s)
    PROVE  AddInv(s, r, [s |-> s, i |-> 0, b |-> FALSE], 0)
  <1> DEFINE u == [s |-> s, i |-> 0, b |-> FALSE]
  <1>1. u \in AddState /\ u.s = s /\ u.i = 0 /\ u.b = FALSE
    BY DEF AddState
  <1> HIDE DEF u
  <1>2. s.c \in [Pair -> Int] /\ \A q \in Pair : Num(r, 0, q) = 0
    BY NumStep DEF EpState
  <1>3. \A q \in Pair : s.c[q] \in Int
    BY <1>2
  <1>4. \A q \in Pair : u.s.c[q] = s.c[q] + Num(r, u.i, q)
    BY <1>1, <1>2, <1>3
  <1>5. u.i <= 0
    BY <1>1
  <1>6. AddInv(s, r, u, 0)
    BY <1>1, <1>4, <1>5 DEF AddInv, Sound
  <1> QED  BY <1>6 DEF u

LEMMA AddInvStep ==
    ASSUME NEW s \in EpState, Held(s.c), NEW r \in Array, NEW j \in 1..Len(r), NEW u, NEW full,
           AddInv(s, r, u, j - 1)
    PROVE  AddInv(s, r, E!AddOne(u, r[j], full), j)
  <1> DEFINE p == r[j]
             w == E!AddOne(u, p, full)
  <1>0. p \in Entry /\ j \in Nat /\ j - 1 \in Nat /\ (j - 1) + 1 = j
    BY DEF Array
  <1>1. /\ u \in AddState /\ u.i <= j - 1 /\ (~u.b => u.i = j - 1) /\ u.s.f = s.f
        /\ \A q \in Pair : u.s.c[q] = s.c[q] + Num(r, u.i, q)
        /\ s.f => Listed(u.s) /\ (~u.b => Sync(u.s, {}, open))
        /\ s.f /\ u.b => \E g \in Fd : Sync(u.s, {}, open \ {g}) /\ Evs(s.c, g) = {}
        /\ ~s.f => u.s.k = s.k /\ u.s.n = s.n
        /\ ~u.b => Held(u.s.c)
    BY DEF AddInv
  <1>2. u.i \in Nat /\ u.b \in BOOLEAN /\ s.c \in [Pair -> Int]
    BY <1>1 DEF AddState, EpState
  <1>3. (u.b => w = u) /\ (~u.b => AddFacts(u, w, p, full))
    <2> HIDE DEF p
    <2> QED  BY <1>0, <1>1, AddOneIs
  <1> HIDE DEF w
  <1>4. CASE u.b
    <2>1. w = u /\ u.i <= j
      BY <1>0, <1>1, <1>2, <1>3, <1>4
    <2>2. AddInv(s, r, w, j)
      BY <1>1, <1>4, <2>1 DEF AddInv
    <2> QED  BY <2>2 DEF w
  <1>5. CASE ~u.b
    <2> HIDE DEF p
    <2>1. AddFacts(u, w, p, full) /\ Sound(u.s)
      BY <1>1, <1>3, <1>5 DEF Sound
    <2>2. /\ u.s.f => Sync(w.s, {}, IF w.b THEN open \ {p.fd} ELSE open) /\ Listed(w.s)
          /\ ~u.s.f => w.s.k = u.s.k /\ w.s.n = u.s.n
          /\ ~w.b => Held(w.s.c)
          /\ u.s.f /\ w.b => Evs(u.s.c, p.fd) = {}
      BY <1>0, <1>1, <2>1, AddOneSync
    <2>3. /\ w \in AddState /\ w.i = u.i + 1 /\ w.s.f = u.s.f
          /\ \A q \in Pair : w.s.c[q] = IF Asks1(p, q) THEN u.s.c[q] + 1 ELSE u.s.c[q]
      BY <2>1 DEF AddFacts
    <2>4. w.i = j
      BY <1>0, <1>1, <1>5, <2>3
    <2>5. ASSUME NEW q \in Pair PROVE w.s.c[q] = s.c[q] + Num(r, w.i, q)
      <3> DEFINE a == Num(r, j - 1, q)
                 b == Num(r, j, q)
                 x == s.c[q]
      <3>1. a \in Nat /\ b = IF Asks1(p, q) THEN a + 1 ELSE a
        BY <1>0, NumStep DEF p
      <3>2. x \in Int
        BY <1>2
      <3>3. u.s.c[q] = x + a
        BY <1>1, <1>5
      <3>4. w.s.c[q] = IF Asks1(p, q) THEN (x + a) + 1 ELSE x + a
        BY <2>3, <3>3
      <3> HIDE DEF a, b, x
      <3>5. w.s.c[q] = x + b
        BY <3>1, <3>2, <3>4
      <3> QED  BY <2>4, <3>5 DEF x, b
    <2>6. s.f /\ w.b => Sync(w.s, {}, open \ {p.fd}) /\ p.fd \in Fd /\ Evs(s.c, p.fd) = {}
      <3> SUFFICES ASSUME s.f, w.b PROVE Evs(s.c, p.fd) = {} /\ p.fd \in Fd
        BY <1>1, <2>2
      <3>1. Evs(u.s.c, p.fd) = {} /\ p.fd \in Fd
        BY <1>0, <1>1, <2>2 DEF Entry
      <3> SUFFICES ASSUME NEW e \in Event, s.c[<<p.fd, e>>] # 0 PROVE FALSE
        BY <3>1 DEF Evs
      <3> DEFINE q == <<p.fd, e>>
      <3>2. q \in Pair /\ u.s.c[q] = 0
        BY <3>1 DEF Pair, Evs
      <3> HIDE DEF q
      <3>3. u.s.c[q] = s.c[q] + Num(r, u.i, q) /\ Num(r, u.i, q) \in Nat
        BY <1>1, <1>2, <3>2, NumStep
      <3>4. s.c[q] \in Int /\ s.c[q] >= 0 /\ s.c[q] # 0
        BY <1>2, <3>2 DEF Held, q
      <3> QED  BY <3>2, <3>3, <3>4
    <2>7. w.i <= j
      BY <1>0, <2>4
    <2>8. AddInv(s, r, w, j)
      BY <1>1, <2>2, <2>3, <2>4, <2>5, <2>6, <2>7 DEF AddInv
    <2> QED  BY <2>8 DEF w, p
  <1> QED  BY <1>2, <1>4, <1>5

LEMMA AddedIs ==
    ASSUME NEW s \in EpState, NEW r \in Array, Sound(s), NEW full
    PROVE  AddInv(s, r, E!Added(s, r, full), Len(r))
  <1> DEFINE n == Len(r)
             at == E!AddTurns(s, r, full)
             G == {i \in Nat : AddInv(s, r, at[i], i)}
  <1>1. /\ at[0] = [s |-> s, i |-> 0, b |-> FALSE]
        /\ \A i \in 1..n : at[i] = E!AddOne(at[i - 1], r[i], full)
    BY AddTurnsAre
  <1>2. n \in Nat
    BY DEF Array
  <1> HIDE DEF at
  <1>3. 0 \in G
    BY <1>1, AddInvStart
  <1>4. ASSUME NEW i \in 1..n, i - 1 \in G PROVE i \in G
    <2>1. AddInv(s, r, E!AddOne(at[i - 1], r[i], full), i)
      BY <1>4, AddInvStep DEF Sound
    <2> QED  BY <1>1, <2>1
  <1>5. 0..n \subseteq G
    <2> HIDE DEF G, n
    <2> QED  BY <1>2, <1>3, <1>4, Upwards
  <1>6. AddInv(s, r, at[n], n)
    BY <1>2, <1>5
  <1> QED  BY <1>6 DEF E!Added, at

\* A registration that succeeds counts the whole request.
LEMMA AddedWhole ==
    ASSUME NEW s \in EpState, NEW r \in Array, Sound(s), NEW full, ~E!Added(s, r, full).b
    PROVE  LET t == E!Added(s, r, full).s IN
           /\ t \in EpState /\ t.f = s.f /\ Sound(t)
           /\ ~s.f => t.k = s.k /\ t.n = s.n
           /\ \A q \in Pair : t.c[q] = s.c[q] + NumIn(r, q)
  <1> DEFINE u == E!Added(s, r, full)
  <1>1. AddInv(s, r, u, Len(r))
    BY AddedIs
  <1>2. \A q \in Pair : Num(r, Len(r), q) = NumIn(r, q)
    BY NumAll
  <1>3. ~u.b
    OBVIOUS
  <1> HIDE DEF u
  <1>4. u.s \in EpState
    BY <1>1 DEF AddInv, AddState
  <1> QED  BY <1>1, <1>2, <1>3, <1>4 DEF AddInv, Sound, u

\* A registration that fails is undone without a trace.
LEMMA UndoneIs ==
    ASSUME NEW s \in EpState, NEW r \in Array, Sound(s), NEW full, E!Added(s, r, full).b
    PROVE  LET t == E!Undo(E!Added(s, r, full), r) IN
           t.c = s.c /\ t.k = s.k /\ t.n = s.n
  <1> DEFINE u == E!Added(s, r, full)
             z == SubSeq(r, 1, u.i)
             t == E!DelAll(u.s, z, {})
  <1>1. AddInv(s, r, u, Len(r))
    BY AddedIs
  <1>2. E!Undo(u, r) = t /\ u.b
    BY DEF E!Undo
  <1> HIDE DEF u
  <1>3. u.s \in EpState /\ u.i \in 0..Len(r) /\ u.s.f = s.f
    BY <1>1 DEF AddInv, AddState, Array
  <1>4. z \in Array /\ \A q \in Pair : NumIn(z, q) = Num(r, u.i, q) /\ Num(r, u.i, q) \in Nat
    <2> DEFINE m == u.i
    <2>1. m \in 0..Len(r) /\ m \in Nat
      BY <1>3 DEF Array
    <2> HIDE DEF m
    <2>2. \A q : SubSeq(r, 1, m) \in Array /\ NumIn(SubSeq(r, 1, m), q) = Num(r, m, q)
      BY <2>1, NumFirst
    <2>3. \A q : Num(r, m, q) \in Nat
      BY <2>1, NumStep
    <2> QED  BY <2>2, <2>3 DEF m
  <1> HIDE DEF z
  <1>5. Keeps(u.s, t, {}) /\ \A q \in Pair : t.c[q] = u.s.c[q] - NumIn(z, q)
    BY <1>3, <1>4, DelAllIs
  <1> HIDE DEF t
  <1>6. /\ t \in EpState /\ t.f = s.f
        /\ s.c \in [Pair -> Int] /\ t.c \in [Pair -> Int]
        /\ s.k \in [Fd -> SUBSET Watchable] /\ t.k \in [Fd -> SUBSET Watchable]
    BY <1>3, <1>5 DEF Keeps, EpState
  <1>7. t.c = s.c
    <2>1. ASSUME NEW q \in Pair PROVE t.c[q] = s.c[q]
      <3> DEFINE x == s.c[q]
                 a == Num(r, u.i, q)
      <3>1. x \in Int /\ a \in Nat
        BY <1>4, <1>6
      <3>2. u.s.c[q] = x + a /\ t.c[q] = u.s.c[q] - a
        BY <1>1, <1>4, <1>5 DEF AddInv
      <3> HIDE DEF x, a
      <3>3. t.c[q] = x
        BY <3>1, <3>2
      <3> QED  BY <3>3 DEF x
    <2> QED  BY <1>6, <2>1
  <1>8. CASE s.f
    <2>1. PICK g \in Fd : Sync(u.s, {}, open \ {g}) /\ Evs(s.c, g) = {}
      BY <1>1, <1>2, <1>8 DEF AddInv
    <2> DEFINE O == open \ {g}
    <2>2. Sync(s, {}, open) /\ Listed(s) /\ Listed(u.s) /\ Nonneg(t.c)
      BY <1>1, <1>7, <1>8 DEF AddInv, Sound, Held, Nonneg
    <2>3. O \in SUBSET open /\ Sync(u.s, {}, O)
      BY <2>1
    <2> HIDE DEF O
    <2>4. Sync(t, {}, O) /\ Listed(t)
      BY <1>3, <1>5, <1>8, <2>2, <2>3 DEF Keeps
    <2>5. ASSUME NEW fd \in Fd PROVE t.k[fd] = s.k[fd]
      <3>1. CASE fd = g
        BY <2>1, <2>2, <2>4, <3>1, MaskIs DEF Sync, O
      <3>2. CASE fd # g
        BY <1>7, <2>2, <2>4, <3>2 DEF Sync, O
      <3> QED  BY <3>1, <3>2
    <2>6. t.k = s.k
      BY <1>6, <2>5
    <2> QED  BY <1>2, <1>7, <2>2, <2>4, <2>6 DEF Listed, u
  <1>9. CASE ~s.f
    <2>1. t.k = s.k /\ t.n = s.n
      BY <1>1, <1>3, <1>5, <1>9 DEF Keeps, AddInv
    <2> QED  BY <1>2, <1>7, <2>1 DEF u
  <1> QED  BY <1>8, <1>9

\* Whatever the state, an attempt to register and its undo leave one of the kind.
LEMMA AddedTyped ==
    ASSUME NEW s \in EpState, NEW r \in Array, NEW full
    PROVE  LET u == E!Added(s, r, full) IN
           /\ u \in AddState /\ u.i \in 0..Len(r) /\ u.s \in EpState /\ u.s.f = s.f
           /\ E!Undo(u, r) \in EpState /\ E!Undo(u, r).f = s.f
  <1> DEFINE n == Len(r)
             at == E!AddTurns(s, r, full)
             u == at[n]
             z == SubSeq(r, 1, u.i)
             t == E!DelAll(u.s, z, {})
  <1>1. n \in Nat /\ n \in 0..n
    BY DEF Array
  <1>2. u \in AddState /\ u.i <= n /\ u.s.f = s.f
    <2>1. /\ at[0] = [s |-> s, i |-> 0, b |-> FALSE]
          /\ \A i \in 0..Len(r) : at[i] \in AddState /\ at[i].i <= i /\ at[i].s.f = s.f
          /\ \A i \in 1..Len(r) : at[i] = E!AddOne(at[i - 1], r[i], full)
      BY AddTurnsAre
    <2> HIDE DEF at
    <2> QED  BY <1>1, <2>1
  <1> HIDE DEF u
  <1>3. u.i \in 0..n /\ u.s \in EpState
    BY <1>1, <1>2 DEF AddState
  <1>4. z \in Array
    BY <1>3, NumFirst
  <1>5. t \in EpState /\ t.f = u.s.f
    BY <1>3, <1>4, DelAllIs DEF Keeps
  <1> HIDE DEF z, t
  <1>6. E!Undo(u, r) = t
    BY DEF E!Undo, z, t
  <1> QED  BY <1>2, <1>3, <1>5, <1>6 DEF E!Added, u, at

LEMMA ReaddedIs ==
    ASSUME NEW s \in EpState, NEW r \in Array, NEW full
    PROVE  LET t == E!Readded(s, r, full) IN
           /\ t \in EpState /\ t.f = s.f
           /\ ~E!Added(s, r, full).b => t = E!Added(s, r, full).s
  <1> DEFINE u == E!Added(s, r, full)
  <1>1. /\ u.s \in EpState /\ u.s.f = s.f
        /\ E!Undo(u, r) \in EpState /\ E!Undo(u, r).f = s.f
    BY AddedTyped
  <1>2. E!Readded(s, r, full) = IF u.b THEN E!Undo(u, r) ELSE u.s
    BY DEF E!Readded
  <1> HIDE DEF u
  <1>3. CASE u.b
    BY <1>1, <1>2, <1>3 DEF u
  <1>4. CASE ~u.b
    BY <1>1, <1>2, <1>4 DEF u
  <1> QED  BY <1>3, <1>4

\* The loop that registers the I/O queue anew obeys its recursion.
LEMMA AddThreadsAre ==
    ASSUME NEW s \in EpState, NEW q \in Seq(Thread), pds \in [Thread -> Array], NEW full
    PROVE  LET at == E!AddThreads(s, q, full) IN
           /\ at[0] = s /\ \A i \in 0..Len(q) : at[i] \in EpState
           /\ \A i \in 1..Len(q) : at[i] = E!Readded(at[i - 1], pds[q[i]], full[q[i]])
  <1> DEFINE n == Len(q)
             one(u, i) == E!Readded(u, pds[q[i]], full[q[i]])
             step == [i \in 1..n |-> [u \in EpState |-> one(u, i)]]
             T(g) == [i \in 0..n |-> IF i = 0 THEN s ELSE one(g[i - 1], i)]
             a == E!AddThreads(s, q, full)
  <1>1. n \in Nat /\ \A i \in 1..n : pds[q[i]] \in Array
    OBVIOUS
  <1>2. \A i \in 1..n, u \in EpState : one(u, i) \in EpState
    <2> SUFFICES ASSUME NEW i \in 1..n, NEW u \in EpState PROVE one(u, i) \in EpState
      OBVIOUS
    <2> DEFINE r == pds[q[i]]
    <2>1. r \in Array
      BY <1>1
    <2> HIDE DEF r
    <2>2. E!Readded(u, r, full[q[i]]) \in EpState
      BY <2>1, ReaddedIs
    <2> QED  BY <2>2 DEF r
  <1>3. a = CHOOSE g : g = T(g)
    BY DEF E!AddThreads
  <1> HIDE DEF n, one, a
  <1>4. step \in [1..n -> [EpState -> EpState]]
    BY <1>2
  <1>5. PICK f \in [0..n -> EpState] : f[0] = s /\ \A i \in 1..n : f[i] = step[i][f[i - 1]]
    <2> HIDE DEF step, T
    <2>1. Iterates(n, EpState, s, step)
      BY <1>1, <1>4, Iterated
    <2> QED  BY <2>1 DEF Iterates
  <1>6. \A i \in 1..n : f[i] = one(f[i - 1], i)
    <2> SUFFICES ASSUME NEW i \in 1..n PROVE f[i] = one(f[i - 1], i)
      OBVIOUS
    <2>1. i - 1 \in 0..n
      BY <1>1
    <2>2. f[i - 1] \in EpState
      BY <2>1
    <2> QED  BY <1>5, <2>2
  <1>7. f = T(f)
    BY <1>1, <1>5, <1>6
  <1>8. a = T(a)
    <2> HIDE DEF T
    <2> QED  BY <1>3, <1>7
  <1>9. a[0] = s /\ \A i \in 1..n : a[i] = one(a[i - 1], i)
    <2>1. \A i \in 0..n : a[i] = T(a)[i]
      <3> HIDE DEF T
      <3> QED  BY <1>8
    <2>2. 0 \in 0..n /\ \A i \in 1..n : i \in 0..n /\ i # 0
      BY <1>1
    <2>3. \A i \in 0..n : T(a)[i] = IF i = 0 THEN s ELSE one(a[i - 1], i)
      OBVIOUS
    <2> HIDE DEF T
    <2> QED  BY <2>1, <2>2, <2>3
  <1> HIDE DEF T, step
  <1>10. \A i \in 0..n : a[i] \in EpState
    <2> DEFINE G == {i \in Nat : a[i] \in EpState}
    <2>1. 0 \in G /\ \A i \in 1..n : i - 1 \in G => i \in G
      BY <1>1, <1>2, <1>9
    <2>2. 0..n \subseteq G
      <3> HIDE DEF G
      <3> QED  BY <1>1, <2>1, Upwards
    <2> QED  BY <2>2
  <1> QED  BY <1>9, <1>10 DEF a, n, one

\* When no request is refused, all of them are registered.
LEMMA AddThreadsIs ==
    ASSUME NEW s \in EpState, NEW q \in Seq(Thread), IsInjective(q),
           pds \in [Thread -> Array], s.f, Sound(s), NEW full,
           \A i \in 1..Len(q) : ~E!Added(E!AddThreads(s, q, full)[i - 1], pds[q[i]], full[q[i]]).b
    PROVE  LET t == E!AddThreads(s, q, full)[Len(q)] IN
           /\ t \in EpState /\ t.f /\ Sound(t)
           /\ \A p \in Pair : t.c[p] = s.c[p] + Cardinality(Entries(pds, ToSet(q), p))
  <1> DEFINE n == Len(q)
             at == E!AddThreads(s, q, full)
             Good(i) == /\ at[i] \in EpState /\ at[i].f /\ Sound(at[i])
                        /\ \A p \in Pair : at[i].c[p] = s.c[p] + NumUpto(q, i, p)
             G == {i \in Nat : Good(i)}
  <1>1. /\ at[0] = s /\ \A i \in 0..n : at[i] \in EpState
        /\ \A i \in 1..n : at[i] = E!Readded(at[i - 1], pds[q[i]], full[q[i]])
    BY AddThreadsAre
  <1>2. n \in Nat /\ \A i \in 1..n : pds[q[i]] \in Array
    OBVIOUS
  <1>4. s.c \in [Pair -> Int]
    BY DEF EpState
  <1>5. Good(0)
    <2>1. \A p \in Pair : s.c[p] \in Int /\ NumUpto(q, 0, p) = 0
      BY <1>4, NumUptoEnds
    <2> HIDE DEF at
    <2>2. \A p \in Pair : s.c[p] = s.c[p] + NumUpto(q, 0, p)
      BY <2>1
    <2> QED  BY <1>1, <2>2
  <1>6. ASSUME NEW i \in 1..n, Good(i - 1) PROVE Good(i)
    <2> DEFINE u == at[i - 1]
               r == pds[q[i]]
               g == full[q[i]]
               t == E!Added(u, r, g).s
    <2>1. u \in EpState /\ at[i] = E!Readded(u, r, g) /\ r \in Array
      <3> HIDE DEF at
      <3> QED  BY <1>1, <1>2
    <2>2. u.f /\ Sound(u) /\ \A p \in Pair : u.c[p] = s.c[p] + NumUpto(q, i - 1, p)
      BY <1>6
    <2>3. ~E!Added(u, r, g).b
      OBVIOUS
    <2> HIDE DEF u, g
    <2>4. at[i] = t
      <3> HIDE DEF r, at
      <3> QED  BY <2>1, <2>3, ReaddedIs
    <2>5. t \in EpState /\ t.f /\ Sound(t) /\ \A p \in Pair : t.c[p] = u.c[p] + NumIn(r, p)
      <3> HIDE DEF r
      <3> QED  BY <2>1, <2>2, <2>3, AddedWhole
    <2> HIDE DEF t
    <2>6. ASSUME NEW p \in Pair PROVE t.c[p] = s.c[p] + NumUpto(q, i, p)
      <3> DEFINE a == NumUpto(q, i - 1, p)
                 b == NumUpto(q, i, p)
                 x == s.c[p]
                 d == NumIn(r, p)
      <3>1. a \in Nat /\ b = a + d
        BY NumUptoStep
      <3>2. x \in Int /\ d \in Nat
        BY <1>4, <2>1, ArrayProps
      <3>3. u.c[p] = x + a /\ t.c[p] = u.c[p] + d
        BY <2>2, <2>5
      <3> HIDE DEF a, b, x, d
      <3>5. t.c[p] = x + b
        BY <3>1, <3>2, <3>3
      <3> QED  BY <3>5 DEF x, b
    <2> HIDE DEF at
    <2> QED  BY <2>4, <2>5, <2>6
  <1> HIDE DEF Good
  <1>7. 0..n \subseteq G
    <2>1. 0 \in G /\ \A i \in 1..n : i - 1 \in G => i \in G
      BY <1>5, <1>6
    <2> HIDE DEF G, n
    <2> QED  BY <1>2, <2>1, Upwards
  <1>8. Good(n)
    BY <1>2, <1>7
  <1>9. \A p \in Pair : NumUpto(q, n, p) = Cardinality(Entries(pds, ToSet(q), p))
    BY NumUptoEnds
  <1> QED  BY <1>8, <1>9 DEF Good

LEMMA SameSize == \A S : E!Cardinality(S) = Cardinality(S)
  BY Zenon DEF E!Cardinality, Cardinality

\* A new epoll set is in step with counts of zero.
LEMMA FreshSound ==
    /\ E!Fresh \in EpState /\ E!Fresh.f /\ Sound(E!Fresh)
    /\ \A p \in Pair : E!Fresh.c[p] = 0
  <1> DEFINE s == E!Fresh
  <1>1. s = [c |-> [p \in Pair |-> 0], k |-> [fd \in Fd |-> {}], n |-> 0, f |-> TRUE]
    BY SameEpoll DEF E!Fresh
  <1>2. s \in EpState /\ s.f /\ s.n = 0 /\ (\A p \in Pair : s.c[p] = 0) /\ \A fd \in Fd : s.k[fd] = {}
    BY <1>1 DEF EpState
  <1> HIDE DEF s
  <1>3. Held(s.c)
    BY <1>2 DEF Held
  <1>4. \A fd \in Fd : Evs(s.c, fd) = {}
    <2> SUFFICES ASSUME NEW fd \in Fd, NEW e \in Event PROVE s.c[<<fd, e>>] = 0
      BY DEF Evs
    <2>1. <<fd, e>> \in Pair
      BY DEF Pair
    <2> QED  BY <1>2, <2>1
  <1>5. Sync(s, {}, open)
    <2>1. \A fd \in Fd : Masks(s.c, fd) = {}
      BY <1>4, MaskIs
    <2> QED  BY <1>2, <2>1 DEF Sync
  <1>6. {fd \in Fd : s.k[fd] # {}} = {}
    BY <1>2
  <1>7. Listed(s)
    BY <1>2, <1>6, FS_EmptySet DEF Listed
  <1> QED  BY <1>2, <1>3, <1>5, <1>7 DEF Sound, s

\* The end of dispatch brings the descriptors that fired in step.
LEMMA SettleIs ==
    ASSUME NEW s \in EpState, NEW F \in SUBSET Fd
    PROVE  LET t == E!Settle(s, F) IN
           /\ t \in EpState /\ t.f = s.f /\ t.c = s.c
           /\ /\ s.f /\ Sync(s, F, open) /\ Listed(s)
              /\ \A fd \in F : s.k[fd] # {} /\ fd \in open
              => Sync(t, {}, open) /\ Listed(t)
           /\ ~s.f => t.k = s.k /\ t.n = s.n
  <1> DEFINE ctl == {fd \in F : s.f /\ fd \in open /\ s.k[fd] # {}}
             D == {fd \in ctl : Evs(s.c, fd) = {}}
             A == {fd \in Fd : s.k[fd] # {}}
             kk == [fd \in Fd |-> IF fd \in ctl THEN Masks(s.c, fd) ELSE s.k[fd]]
             nn == s.n - Cardinality(D)
             t == [c |-> s.c, f |-> s.f, k |-> kk, n |-> nn]
  <1>1. /\ s.c \in [Pair -> Int] /\ s.k \in [Fd -> SUBSET Watchable] /\ s.n \in Int /\ s.f \in BOOLEAN
    BY DEF EpState
  <1>2. E!Settle(s, F) = t
    <2>1. {fd \in F : E!CtlOk(s, fd, TRUE)} = ctl
      BY DEF E!CtlOk
    <2>2. \A fd : E!EventsOf(s.c, fd) = Evs(s.c, fd)
      BY SameEpoll
    <2>3. {fd \in ctl : E!EventsOf(s.c, fd) = {}} = D
      BY <2>2
    <2>4. E!Cardinality(D) = Cardinality(D)
      BY SameSize
    <2>5. \A fd : E!Mask(E!EventsOf(s.c, fd)) = Masks(s.c, fd)
      BY <2>2 DEF Masks
    <2> HIDE DEF ctl, D
    <2> QED  BY <2>1, <2>3, <2>4, <2>5 DEF E!Settle
  <1>3. D \subseteq A /\ A \subseteq Fd
    OBVIOUS
  <1>4. IsFiniteSet(A) /\ IsFiniteSet(D) /\ Cardinality(D) \in Nat /\ Cardinality(A) \in Nat
    <2> HIDE DEF A, D
    <2> QED  BY <1>3, FS_Subset, FS_CardinalityType, PollAssumption DEF PollAssumption
  <1>5. kk \in [Fd -> SUBSET Watchable]
    <2>1. \A fd : Masks(s.c, fd) \in SUBSET Watchable
      BY MaskIs
    <2> HIDE DEF ctl
    <2> QED  BY <1>1, <2>1
  <1>6. nn \in Int
    <2> HIDE DEF D
    <2> QED  BY <1>1, <1>4
  <1>7. t \in EpState /\ t.c = s.c /\ t.f = s.f /\ t.k = kk /\ t.n = nn
    <2> HIDE DEF kk, nn
    <2> QED  BY <1>1, <1>5, <1>6 DEF EpState
  <1> HIDE DEF t
  <1>8. ASSUME ~s.f PROVE t.k = s.k /\ t.n = s.n
    <2>1. ctl = {} /\ D = {}
      BY <1>8
    <2>2. kk = s.k
      BY <1>1, <2>1
    <2>3. nn = s.n
      <3> HIDE DEF D
      <3> QED  BY <1>1, <2>1, FS_EmptySet
    <2> QED  BY <1>7, <2>2, <2>3
  <1>9. ASSUME s.f, Sync(s, F, open), Listed(s), \A fd \in F : s.k[fd] # {} /\ fd \in open
        PROVE  Sync(t, {}, open) /\ Listed(t)
    <2>1. ctl = F
      BY <1>9
    <2>2. \A fd \in Fd : kk[fd] = IF fd \in F THEN Masks(s.c, fd) ELSE s.k[fd]
      BY <2>1
    <2>3. Sync(t, {}, open)
      <3> HIDE DEF kk
      <3> QED  BY <1>7, <1>9, <2>2 DEF Sync
    <2>4. {fd \in Fd : kk[fd] # {}} = A \ D
      <3> HIDE DEF ctl
      <3>1. \A fd \in Fd : fd \in F => s.k[fd] # {}
        BY <1>9
      <3>2. \A fd \in Fd : Masks(s.c, fd) = {} <=> Evs(s.c, fd) = {}
        BY MaskIs
      <3> HIDE DEF kk
      <3> QED  BY <2>1, <2>2, <3>1, <3>2
    <2>5. Cardinality(A \ D) = Cardinality(A) - Cardinality(D)
      <3>1. A \cap D = D
        BY <1>3
      <3> HIDE DEF A, D
      <3> QED  BY <1>4, <3>1, FS_Difference
    <2>6. s.n = Cardinality(A)
      BY <1>9 DEF Listed
    <2>7. Listed(t)
      <3> HIDE DEF A, D, kk
      <3> QED  BY <1>7, <2>4, <2>5, <2>6 DEF Listed
    <2> QED  BY <2>3, <2>7
  <1> QED  BY <1>2, <1>7, <1>8, <1>9

-----------------------------------------------------------------------------
(* StEpoll works on the same st_poll, too.                                   *)

LEMMA SameSequencesE ==
    /\ \A s : E!ToSet(s) = ToSet(s)
    /\ \A s, e : E!Contains(s, e) <=> Contains(s, e)
    /\ \A s : E!IsInjective(s) <=> IsInjective(s)
  BY DEF E!ToSet, ToSet, E!Contains, Contains, E!IsInjective, IsInjective

LEMMA SameAmongE == \A q, S : E!Among(q, S) = Among(q, S)
  BY Zenon DEF E!Among, Among, E!Cardinality, Cardinality

LEMMA SameUnlinkE == \A q, S : E!Unlink(q, S) = Unlink(q, S)
  BY SameAmongE, SameSequencesE DEF E!Unlink, Unlink

LEMMA SameRequestsE ==
    /\ \A r : E!Asked(r) = Asked(r) /\ E!FdsOf(r) = FdsOf(r)
    /\ \A S, p : E!NumOf(S, p) = NumOf(S, p)
  <1>1. \A r : E!Asked(r) = Asked(r) /\ E!FdsOf(r) = FdsOf(r)
    BY DEF E!Asked, Asked, E!FdsOf, FdsOf
  <1>2. \A r, p : E!EntriesFor(r, p) = EntriesFor(r, p)
    BY DEF E!EntriesFor, EntriesFor
  <1>3. \A S, p : E!NumOf(S, p) = NumOf(S, p)
    BY <1>2, SameSize DEF E!NumOf, NumOf
  <1> QED  BY <1>1, <1>3

LEMMA SameBaseE ==
    /\ E!BaseTypeOK = BaseTypeOK /\ E!InOnePlace = InOnePlace /\ E!BaseInit = BaseInit
    /\ E!Lines = Lines
  <1>1. E!BaseTypeOK = BaseTypeOK
    BY DEF E!BaseTypeOK, BaseTypeOK, E!Event, Event, E!Pair, Pair
  <1>2. E!Waiting = Waiting
    BY SameSequencesE DEF E!Waiting, Waiting
  <1>3. E!InOnePlace = InOnePlace
    BY <1>2, SameSequencesE DEF E!InOnePlace, InOnePlace
  <1>4. E!BaseInit = BaseInit
    BY SameSequencesE, SameSize DEF E!BaseInit, BaseInit
  <1>5. E!Lines = Lines
    BY SameSequencesE, SameSize DEF E!Lines, Lines
  <1> QED  BY <1>1, <1>3, <1>4, <1>5

LEMMA SameTurnE ==
    ASSUME NEW hit, NEW rev, NEW late, E!Turn(hit, rev, late) PROVE Turn(hit, rev, late)
  BY SameAmongE, SameSequencesE, SameUnlinkE DEF E!Turn, Turn, E!Schedule, Schedule, os, E!os

LEMMA SameEnqueueE == ASSUME NEW r, NEW timed, E!Enqueue(r, timed) PROVE Enqueue(r, timed)
  BY DEF E!Enqueue, Enqueue, E!Schedule, Schedule, E!InUser, InUser, os, E!os

LEMMA SameReturnE == ASSUME E!PollReturn PROVE PollReturn
  BY SameUnlinkE DEF E!PollReturn, PollReturn, os, E!os, sched, E!sched

LEMMA SameInterruptE == ASSUME NEW t, E!Interrupt(t) PROVE Interrupt(t)
  <1>1. E!Waiting = Waiting
    BY SameSequencesE DEF E!Waiting, Waiting
  <1> QED  BY <1>1 DEF E!Interrupt, Interrupt, E!InUser, InUser, os, E!os

-----------------------------------------------------------------------------
(* The inductive invariant of epoll.                                         *)

\* The kernel watches what is counted if there is an epoll set, and there is
\* nothing to watch otherwise.
KernelInv(s) ==
    /\ s \in EpState /\ s.n \in 0..Cardinality(Fd)
    /\ s.f => (\A fd \in Fd : s.k[fd] = Masks(s.c, fd)) /\ Listed(s)
    /\ ~s.f => \A fd \in Fd : s.k[fd] = {}

CountsRightE == cnt \in [Pair -> Nat] /\ \A p \in Pair : cnt[p] = NumOf(ToSet(ioq), p)

\* What holds while no request is missed.
EpollGood ==
    /\ BaseInv /\ Asks /\ CountsRightE
    /\ KernelInv(E!Es) /\ Held(cnt)
    /\ forked \in BOOLEAN /\ hup \subseteq Fd /\ (~forked => epfd)

\* What always holds.
EpollBare ==
    /\ BaseInv /\ Asks /\ E!Es \in EpState
    /\ forked \in BOOLEAN /\ hup \subseteq Fd /\ missed \subseteq Thread
    /\ (~forked => epfd)

EpollInv == EpollBare /\ (missed = {} => EpollGood)

LEMMA EsIs == E!Es = [c |-> cnt, k |-> epset, n |-> evtlist_cnt, f |-> epfd]
  BY DEF E!Es

\* Only open descriptors are counted: the invariant in the terms of the loops.
LEMMA SoundIs ==
    ASSUME NEW s \in EpState, Held(s.c)
    PROVE  /\ Sound(s) <=> (s.f => (\A fd \in Fd : s.k[fd] = Masks(s.c, fd)) /\ Listed(s))
           /\ \A fd \in Fd : fd \notin open => Evs(s.c, fd) = {}
  <1>1. \A fd \in Fd : fd \notin open => Evs(s.c, fd) = {}
    <2> SUFFICES ASSUME NEW fd \in Fd, fd \notin open, NEW e \in Event, s.c[<<fd, e>>] # 0 PROVE FALSE
      BY DEF Evs
    <2>1. <<fd, e>> \in Pair /\ <<fd, e>>[1] = fd /\ s.c \in [Pair -> Int]
      BY DEF Pair, EpState
    <2>2. s.c[<<fd, e>>] \in Int
      BY <2>1
    <2> QED  BY <2>1, <2>2 DEF Held
  <1>2. Sync(s, {}, open) <=> \A fd \in Fd : s.k[fd] = Masks(s.c, fd)
    <2>1. \A fd \in Fd : fd \notin open => Masks(s.c, fd) = {}
      BY <1>1, MaskIs
    <2> QED  BY <2>1 DEF Sync
  <1> QED  BY <1>1, <1>2 DEF Sound

\* What the invariant says of the state the loops start from.
LEMMA EpollStart ==
    ASSUME EpollGood
    PROVE  LET s == E!Es IN
           /\ s \in EpState /\ Sound(s) /\ Held(s.c) /\ KernelInv(s)
           /\ s.c = cnt /\ s.k = epset /\ s.n = evtlist_cnt /\ s.f = epfd
           /\ pds \in [Thread -> Array] /\ ToSet(ioq) \in SUBSET Thread
           /\ ioq \in Seq(Thread) /\ IsInjective(ioq)
  <1> DEFINE s == E!Es
  <1>1. s.c = cnt /\ s.k = epset /\ s.n = evtlist_cnt /\ s.f = epfd
    BY EsIs
  <1>2. s \in EpState /\ KernelInv(s) /\ Held(s.c)
    BY <1>1 DEF EpollGood, KernelInv
  <1> HIDE DEF s
  <1>3. Sound(s)
    BY <1>2, SoundIs DEF KernelInv
  <1>4. BaseTypeOK /\ InOnePlace
    BY DEF EpollGood, BaseInv
  <1>5. pds \in [Thread -> Array]
    BY <1>4, PdsType
  <1>6. ToSet(ioq) \in SUBSET Thread /\ ioq \in Seq(Thread) /\ IsInjective(ioq)
    BY <1>4 DEF BaseTypeOK, ToSet, InOnePlace
  <1> QED  BY <1>1, <1>2, <1>3, <1>5, <1>6 DEF s

\* A step that leaves t in the variables keeps the invariant.
LEMMA StoreStep ==
    ASSUME BaseInv', Asks', forked' \in BOOLEAN, hup' \subseteq Fd, ~forked' => epfd',
           NEW t, KernelInv(t), cnt' = t.c, epset' = t.k, evtlist_cnt' = t.n, epfd' = t.f,
           \A q \in Pair : t.c[q] > 0 => q[1] \in open',
           \A p \in Pair : t.c[p] = NumOf(ToSet(ioq), p)'
    PROVE  EpollGood'
  <1>1. (E!Es)' = t
    <2>1. t \in EpState
      BY DEF KernelInv
    <2>2. t = [c |-> t.c, k |-> t.k, n |-> t.n, f |-> t.f]
      BY <2>1 DEF EpState
    <2> QED  BY <2>2 DEF E!Es
  <1>2. KernelInv(E!Es)'
    <2>1. (E!Es \in EpState)'
      BY <1>1 DEF KernelInv, EpState, Watchable, Pair, Event
    <2>2. (E!Es.n \in 0..Cardinality(Fd))'
      BY <1>1 DEF KernelInv
    <2>3. (E!Es.f => Listed(E!Es))'
      BY <1>1 DEF KernelInv, Listed
    <2>4. \A fd \in Fd : Masks(E!Es.c, fd)' = Masks(t.c, fd)
      BY <1>1 DEF Masks, E!Mask, Evs, Event
    <2>5. (E!Es.f => \A fd \in Fd : E!Es.k[fd] = Masks(E!Es.c, fd))'
      BY <1>1, <2>4 DEF KernelInv
    <2>6. (~E!Es.f => \A fd \in Fd : E!Es.k[fd] = {})'
      BY <1>1 DEF KernelInv
    <2> QED  BY <2>1, <2>2, <2>3, <2>5, <2>6 DEF KernelInv
  <1>4. \A p \in Pair : cnt'[p] \in Nat /\ cnt'[p] = NumOf(ToSet(ioq), p)'
    <2> SUFFICES ASSUME NEW p \in Pair PROVE NumOf(ToSet(ioq), p)' \in Nat
      OBVIOUS
    <2>1. BaseTypeOK'
      BY DEF BaseInv
    <2>2. pds' \in [Thread -> Array]
      <3>1. <<>> \in Array
        BY DEF Array
      <3>2. Request \subseteq Array
        BY PollAssumption DEF PollAssumption, Array, Entry
      <3> QED  BY <2>1, <3>1, <3>2 DEF BaseTypeOK
    <2>3. ToSet(ioq)' \in SUBSET Thread
      BY <2>1 DEF BaseTypeOK, ToSet
    <2> DEFINE g == pds'
               S == ToSet(ioq)'
    <2>4. Cardinality(Entries(g, S, p)) \in Nat
      <3> HIDE DEF g, S
      <3>1. g \in [Thread -> Array] /\ S \in SUBSET Thread
        BY <2>2, <2>3 DEF g, S
      <3> QED  BY <3>1, EntriesFinite
    <2>5. NumOf(ToSet(ioq), p)' = Cardinality(Entries(g, S, p))
      BY DEF NumOf, Entries
    <2> QED  BY <2>4, <2>5
  <1>5. cnt' \in [Pair -> Nat]
    <2>1. t.c \in [Pair -> Int]
      BY DEF KernelInv, EpState
    <2> QED  BY <1>4, <2>1
  <1>6. Held(cnt)'
    <2>1. \A p \in Pair : cnt'[p] >= 0
      BY <1>5
    <2> QED  BY <2>1 DEF Held
  <1> QED  BY <1>2, <1>4, <1>5, <1>6 DEF EpollGood, CountsRightE

\* The list has no more descriptors than there are.
LEMMA ListFits == ASSUME NEW s, Listed(s) PROVE s.n \in 0..Cardinality(Fd)
  <1> DEFINE A == {fd \in Fd : s.k[fd] # {}}
  <1>1. A \in SUBSET Fd /\ IsFiniteSet(Fd)
    BY PollAssumption DEF PollAssumption
  <1>2. s.n = Cardinality(A)
    BY DEF Listed
  <1> HIDE DEF A
  <1>3. IsFiniteSet(A) /\ Cardinality(A) <= Cardinality(Fd)
    BY <1>1, FS_Subset
  <1>4. Cardinality(A) \in Nat /\ Cardinality(Fd) \in Nat
    BY <1>1, <1>3, FS_CardinalityType
  <1> QED  BY <1>2, <1>3, <1>4

\* Taking back keeps the kernel in step.
LEMMA TakenBack ==
    ASSUME NEW s \in EpState, KernelInv(s), Held(s.c), NEW t \in EpState, t.f = s.f,
           s.f => Sync(t, {}, open) /\ Listed(t), ~s.f => t.k = s.k /\ t.n = s.n,
           Nonneg(t.c), \A q \in Pair : t.c[q] <= s.c[q]
    PROVE  KernelInv(t) /\ Held(t.c)
  <1>1. s.c \in [Pair -> Int] /\ t.c \in [Pair -> Int]
    BY DEF EpState
  <1>2. Held(t.c)
    <2> SUFFICES ASSUME NEW q \in Pair, t.c[q] > 0 PROVE s.c[q] > 0
      BY DEF Held, Nonneg
    <2>1. s.c[q] \in Int /\ t.c[q] \in Int /\ t.c[q] <= s.c[q]
      BY <1>1
    <2> QED  BY <2>1
  <1>3. Sound(t)
    BY <1>2 DEF Sound
  <1>4. t.f => (\A fd \in Fd : t.k[fd] = Masks(t.c, fd)) /\ Listed(t)
    BY <1>2, <1>3, SoundIs
  <1>5. t.n \in 0..Cardinality(Fd)
    <2>1. CASE t.f
      BY <1>4, <2>1, ListFits
    <2>2. CASE ~t.f
      BY <2>2 DEF KernelInv
    <2> QED  BY <2>1, <2>2
  <1> QED  BY <1>2, <1>4, <1>5 DEF KernelInv

-----------------------------------------------------------------------------
(* The steps of epoll.                                                       *)

\* One more request on the I/O queue; the requests of H taken off it.
LEMMA NumMore ==
    ASSUME BaseInv, NEW r \in Array, NEW t \in Thread, t \notin ToSet(ioq),
           ToSet(ioq') = ToSet(ioq) \cup {t}, pds' = [pds EXCEPT ![t] = r], NEW p \in Pair
    PROVE  NumOf(ToSet(ioq), p)' = NumOf(ToSet(ioq), p) + NumIn(r, p)
  <1> DEFINE S == ToSet(ioq)
             g == pds'
             one == {t}
  <1>1. pds \in [Thread -> Array] /\ S \in SUBSET Thread
    <2>1. BaseTypeOK
      BY DEF BaseInv
    <2> QED  BY <2>1, PdsType DEF BaseTypeOK, ToSet
  <1>2. /\ g \in [Thread -> Array] /\ one \in SUBSET Thread /\ S \cap one = {}
        /\ g[t] = r /\ \A u \in S : g[u] = pds[u]
    BY <1>1
  <1>3. NumOf(ToSet(ioq), p)' = Cardinality(Entries(g, S \cup one, p))
    BY DEF NumOf, Entries
  <1>4. NumOf(ToSet(ioq), p) = Cardinality(Entries(pds, S, p))
    BY NumOfIs
  <1> HIDE DEF S, g
  <1>5. Entries(g, S, p) = Entries(pds, S, p)
    BY <1>2 DEF Entries
  <1>6. Cardinality(Entries(g, one, p)) = NumIn(r, p)
    BY <1>2, EntriesOfOne
  <1> HIDE DEF one
  <1>7. Cardinality(Entries(g, S \cup one, p)) = Cardinality(Entries(g, S, p)) + Cardinality(Entries(g, one, p))
    BY <1>1, <1>2, EntriesSplit
  <1> QED  BY <1>3, <1>4, <1>5, <1>6, <1>7

LEMMA NumLess ==
    ASSUME BaseInv, NEW H, H \subseteq ToSet(ioq), ToSet(ioq') = ToSet(ioq) \ H,
           \A u \in ToSet(ioq') : pds'[u] = pds[u], NEW p \in Pair
    PROVE  /\ NumOf(ToSet(ioq), p)' = NumOf(ToSet(ioq), p) - Cardinality(Entries(pds, H, p))
           /\ Cardinality(Entries(pds, H, p)) \in Nat
           /\ NumOf(ToSet(ioq), p) - Cardinality(Entries(pds, H, p)) >= 0
  <1> DEFINE S == ToSet(ioq)
             R == S \ H
  <1>1. pds \in [Thread -> Array] /\ S \in SUBSET Thread
    <2>1. BaseTypeOK
      BY DEF BaseInv
    <2> QED  BY <2>1, PdsType DEF BaseTypeOK, ToSet
  <1>2. R \in SUBSET Thread /\ H \in SUBSET Thread /\ R \cap H = {} /\ R \cup H = S
    BY <1>1
  <1>3. NumOf(ToSet(ioq), p)' = Cardinality(Entries(pds', R, p))
    BY DEF NumOf, Entries
  <1>4. NumOf(ToSet(ioq), p) = Cardinality(Entries(pds, S, p))
    BY NumOfIs
  <1>5. \A u \in R : pds'[u] = pds[u]
    OBVIOUS
  <1> HIDE DEF S, R
  <1>6. Entries(pds', R, p) = Entries(pds, R, p)
    BY <1>5 DEF Entries
  <1>7. Cardinality(Entries(pds, R \cup H, p)) = Cardinality(Entries(pds, R, p)) + Cardinality(Entries(pds, H, p))
    BY <1>1, <1>2, EntriesSplit
  <1>8. Cardinality(Entries(pds, R, p)) \in Nat /\ Cardinality(Entries(pds, H, p)) \in Nat
    BY <1>1, <1>2, EntriesFinite
  <1> DEFINE a == Cardinality(Entries(pds, R, p))
             b == Cardinality(Entries(pds, H, p))
             c == Cardinality(Entries(pds, S, p))
  <1>9. c = a + b
    BY <1>2, <1>7
  <1>10. a = c - b /\ c - b >= 0
    <2> HIDE DEF a, b, c
    <2>1. a \in Nat /\ b \in Nat
      BY <1>8 DEF a, b
    <2> QED  BY <1>9, <2>1
  <1> QED  BY <1>3, <1>4, <1>6, <1>8, <1>10

\* Nobody is asked for nothing as requests come and go.
LEMMA AsksLess ==
    ASSUME Asks, ToSet(ioq') \subseteq ToSet(ioq), \A u \in ToSet(ioq') : pds'[u] = pds[u]
    PROVE  Asks'
  <1>1. ToSet(ioq)' = ToSet(ioq')
    BY DEF ToSet
  <1> QED  BY <1>1 DEF Asks

\* st_poll on epoll.
LEMMA EpollPollStep ==
    ASSUME EpollGood, NEW r \in Request, NEW timed \in BOOLEAN, E!Poll(r, timed)
    PROVE  EpollGood'
  <1> DEFINE s == E!Es
             u == E!Added(s, r, {})
             t == u.s
  <1>0. BaseInv /\ Asks /\ forked \in BOOLEAN /\ hup \subseteq Fd /\ (~forked => epfd)
    BY DEF EpollGood
  <1>1. /\ Enqueue(r, timed) /\ ~u.b /\ UNCHANGED <<epfd, forked, hup>>
        /\ cnt' = t.c /\ epset' = t.k /\ evtlist_cnt' = t.n
        /\ \A i \in DOMAIN r : r[i].events # {}
    BY SameEnqueueE DEF E!Poll, E!Store
  <1>2. /\ BaseInv' /\ running \in Thread /\ running \notin ToSet(ioq)
        /\ ToSet(ioq') = ToSet(ioq) \cup {running}
        /\ pds' = [pds EXCEPT ![running] = r] /\ UNCHANGED os
    BY <1>0, <1>1, EnqueueBase
  <1>3. /\ s \in EpState /\ Sound(s) /\ Held(s.c) /\ KernelInv(s)
        /\ s.c = cnt /\ s.k = epset /\ s.n = evtlist_cnt /\ s.f = epfd
        /\ pds \in [Thread -> Array] /\ ToSet(ioq) \in SUBSET Thread
    BY EpollStart
  <1>4. r \in Array
    BY PollAssumption DEF PollAssumption, Array, Entry
  <1> HIDE DEF s
  <1>5. /\ t \in EpState /\ t.f = s.f /\ Sound(t)
        /\ ~s.f => t.k = s.k /\ t.n = s.n
        /\ \A q \in Pair : t.c[q] = s.c[q] + NumIn(r, q)
    BY <1>1, <1>3, <1>4, AddedWhole
  <1> HIDE DEF t
  <1>6. KernelInv(t) /\ Held(t.c)
    <2>1. Held(t.c)
      BY <1>5 DEF Sound
    <2>2. t.f => (\A fd \in Fd : t.k[fd] = Masks(t.c, fd)) /\ Listed(t)
      BY <1>5, <2>1, SoundIs
    <2>3. t.n \in 0..Cardinality(Fd)
      <3>1. CASE t.f
        BY <2>2, <3>1, ListFits
      <3>2. CASE ~t.f
        BY <1>3, <1>5, <3>2 DEF KernelInv
      <3> QED  BY <3>1, <3>2
    <2> QED  BY <1>3, <1>5, <2>1, <2>2, <2>3 DEF KernelInv
  <1>7. \A p \in Pair : t.c[p] = NumOf(ToSet(ioq), p)'
    <2> SUFFICES ASSUME NEW p \in Pair PROVE t.c[p] = NumOf(ToSet(ioq), p)'
      OBVIOUS
    <2>1. NumOf(ToSet(ioq), p)' = NumOf(ToSet(ioq), p) + NumIn(r, p)
      BY <1>0, <1>2, <1>4, NumMore
    <2>2. cnt[p] = NumOf(ToSet(ioq), p)
      BY DEF EpollGood, CountsRightE
    <2> QED  BY <1>3, <1>5, <2>1, <2>2
  <1>8. Asks'
    <2>1. ToSet(ioq)' = ToSet(ioq) \cup {running}
      BY <1>2 DEF ToSet
    <2>2. pds'[running] = r /\ \A v \in ToSet(ioq) : pds'[v] = pds[v]
      BY <1>2, <1>3
    <2> QED  BY <1>0, <1>1, <2>1, <2>2 DEF Asks
  <1>9. \A q \in Pair : t.c[q] > 0 => q[1] \in open'
    BY <1>2, <1>6 DEF Held, os
  <1>10. /\ epfd' = t.f /\ forked' \in BOOLEAN /\ hup' \subseteq Fd /\ (~forked' => epfd')
    BY <1>0, <1>1, <1>3, <1>5
  <1>11. cnt' = t.c /\ epset' = t.k /\ evtlist_cnt' = t.n
    BY <1>1
  <1> QED  BY <1>2, <1>6, <1>7, <1>8, <1>9, <1>10, <1>11, StoreStep

\* Requests are taken back: a step after which the variables hold t.
LEMMA EpollDelStep ==
    ASSUME EpollGood, BaseInv', NEW H, H \subseteq ToSet(ioq), ToSet(ioq') = ToSet(ioq) \ H,
           \A u \in ToSet(ioq') : pds'[u] = pds[u], UNCHANGED <<epfd, forked, hup, open>>,
           NEW t \in EpState, t.f = epfd, epfd => Sync(t, {}, open) /\ Listed(t),
           ~epfd => t.k = epset /\ t.n = evtlist_cnt,
           \A q \in Pair : t.c[q] = cnt[q] - Cardinality(Entries(pds, H, q)),
           cnt' = t.c, epset' = t.k, evtlist_cnt' = t.n
    PROVE  EpollGood'
  <1> DEFINE s == E!Es
  <1>0. /\ BaseInv /\ Asks /\ forked \in BOOLEAN /\ hup \subseteq Fd /\ (~forked => epfd)
        /\ cnt \in [Pair -> Nat] /\ \A p \in Pair : cnt[p] = NumOf(ToSet(ioq), p)
    BY DEF EpollGood, CountsRightE
  <1>1. /\ s \in EpState /\ Held(s.c) /\ KernelInv(s)
        /\ s.c = cnt /\ s.k = epset /\ s.n = evtlist_cnt /\ s.f = epfd
    BY EpollStart
  <1> HIDE DEF s
  <1>2. \A p \in Pair : /\ NumOf(ToSet(ioq), p)' = NumOf(ToSet(ioq), p) - Cardinality(Entries(pds, H, p))
                        /\ Cardinality(Entries(pds, H, p)) \in Nat
                        /\ NumOf(ToSet(ioq), p) - Cardinality(Entries(pds, H, p)) >= 0
    BY <1>0, NumLess
  <1>3. \A p \in Pair : t.c[p] = NumOf(ToSet(ioq), p)'
    BY <1>0, <1>2
  <1>4. \A q \in Pair : t.c[q] <= s.c[q]
    <2> SUFFICES ASSUME NEW q \in Pair PROVE t.c[q] <= s.c[q]
      OBVIOUS
    <2> DEFINE a == cnt[q]
               b == Cardinality(Entries(pds, H, q))
    <2>1. a \in Nat /\ b \in Nat /\ t.c[q] = a - b /\ s.c[q] = a
      BY <1>0, <1>1, <1>2
    <2> HIDE DEF a, b
    <2> QED  BY <2>1
  <1>5. KernelInv(t) /\ Held(t.c)
    <2>1. Nonneg(t.c)
      BY <1>0, <1>2 DEF Nonneg
    <2> QED  BY <1>1, <1>4, <2>1, TakenBack
  <1>6. \A q \in Pair : t.c[q] > 0 => q[1] \in open'
    BY <1>5 DEF Held
  <1>7. Asks'
    BY <1>0, AsksLess
  <1> QED  BY <1>0, <1>3, <1>5, <1>6, <1>7, StoreStep

\* st_poll after the context switch.
LEMMA EpollReturnStep == ASSUME EpollGood, E!Return PROVE EpollGood'
  <1> DEFINE s == E!Es
             H == ToSet(ioq) \cap {running}
             t == IF running \in ToSet(ioq) THEN E!DelAll(s, pds[running], {}) ELSE s
  <1>0. BaseInv
    BY DEF EpollGood
  <1>1. /\ s \in EpState /\ Sound(s) /\ Held(s.c) /\ KernelInv(s)
        /\ s.c = cnt /\ s.k = epset /\ s.n = evtlist_cnt /\ s.f = epfd
        /\ pds \in [Thread -> Array] /\ ToSet(ioq) \in SUBSET Thread /\ ioq \in Seq(Thread)
    BY EpollStart
  <1>2. Contains(ioq, running) <=> running \in ToSet(ioq)
    BY <1>1, ContainsIsMember
  <1> HIDE DEF s
  <1>3. /\ PollReturn /\ UNCHANGED <<epfd, forked, hup>>
        /\ cnt' = t.c /\ epset' = t.k /\ evtlist_cnt' = t.n
    BY <1>2, SameReturnE, SameSequencesE DEF E!Return, E!Store, s
  <1>4. /\ BaseInv' /\ running \in Thread
        /\ ToSet(ioq') = ToSet(ioq) \ {running}
        /\ pds' = [pds EXCEPT ![running] = <<>>] /\ UNCHANGED os
    BY <1>0, <1>3, ReturnBase
  <1>5. /\ H \subseteq ToSet(ioq) /\ ToSet(ioq') = ToSet(ioq) \ H
        /\ \A v \in ToSet(ioq') : pds'[v] = pds[v]
    BY <1>1, <1>4
  <1>6. /\ Keeps(s, t, {})
        /\ \A q \in Pair : t.c[q] = s.c[q] - Cardinality(Entries(pds, H, q))
    <2>1. CASE running \in ToSet(ioq)
      <3> DEFINE r == pds[running]
                 d == E!DelAll(s, r, {})
      <3>1. r \in Array /\ t = d /\ H = {running}
        BY <1>1, <1>4, <2>1
      <3>2. Keeps(s, d, {}) /\ \A q \in Pair : d.c[q] = s.c[q] - NumIn(r, q)
        <4> HIDE DEF r
        <4> QED  BY <1>1, <3>1, DelAllIs
      <3>3. \A q \in Pair : Cardinality(Entries(pds, H, q)) = NumIn(r, q)
        BY <1>1, <1>4, <3>1, EntriesOfOne
      <3> HIDE DEF t, d, H, r
      <3> QED  BY <3>1, <3>2, <3>3
    <2>2. CASE running \notin ToSet(ioq)
      <3>1. t = s /\ H = {}
        BY <2>2
      <3>2. \A q \in Pair : Cardinality(Entries(pds, {}, q)) = 0
        BY FS_EmptySet DEF Entries
      <3>3. \A q \in Pair : s.c[q] \in Int
        BY <1>1 DEF EpState
      <3> HIDE DEF t, H
      <3> QED  BY <1>1, <3>1, <3>2, <3>3, KeepsSame
    <2> QED  BY <2>1, <2>2
  <1> HIDE DEF t, H
  <1>8. \A q \in Pair : t.c[q] = cnt[q] - Cardinality(Entries(pds, H, q))
    BY <1>1, <1>6
  <1>10. Nonneg(t.c)
    <2>1. \A q \in Pair : cnt[q] - Cardinality(Entries(pds, H, q)) >= 0
      BY <1>0, <1>5, NumLess DEF EpollGood, CountsRightE
    <2> QED  BY <1>8, <2>1 DEF Nonneg
  <1>7. /\ t \in EpState /\ t.f = epfd /\ (epfd => Sync(t, {}, open) /\ Listed(t))
        /\ ~epfd => t.k = epset /\ t.n = evtlist_cnt
    <2>1. open \in SUBSET open
      OBVIOUS
    <2> QED  BY <1>1, <1>6, <1>10, <2>1 DEF Keeps, Sound
  <1>9. UNCHANGED <<epfd, forked, hup, open>>
    BY <1>3, <1>4 DEF os
  <1> QED  BY <1>3, <1>4, <1>5, <1>7, <1>8, <1>9, EpollDelStep

\* A request on the I/O queue is counted, and its descriptors are open.
LEMMA CountedIs ==
    ASSUME EpollGood, NEW t \in ToSet(ioq)
    PROVE  /\ Asked(pds[t]) \subseteq Pair /\ FdsOf(pds[t]) \subseteq open
           /\ \A p \in Asked(pds[t]) : p[2] \in Evs(cnt, p[1])
           /\ \A i \in DOMAIN pds[t] : pds[t][i].events \subseteq Evs(cnt, pds[t][i].fd)
  <1> DEFINE r == pds[t]
  <1>1. pds \in [Thread -> Array] /\ ToSet(ioq) \in SUBSET Thread /\ t \in Thread /\ r \in Array
    BY EpollStart
  <1>2. Asked(r) \subseteq Pair
    BY <1>1, ArrayProps
  <1>3. ASSUME NEW p \in Asked(r) PROVE cnt[p] > 0 /\ p \in Pair
    <2>1. p \in Pair
      BY <1>2
    <2>2. Cardinality(Entries(pds, ToSet(ioq), p)) > 0
      BY <1>1, <2>1, EntriesPositive
    <2>3. cnt[p] = Cardinality(Entries(pds, ToSet(ioq), p))
      BY <2>1, NumOfIs DEF EpollGood, CountsRightE
    <2> QED  BY <2>1, <2>2, <2>3
  <1>4. \A p \in Asked(r) : p[2] \in Evs(cnt, p[1])
    <2> SUFFICES ASSUME NEW p \in Asked(r) PROVE p[2] \in Evs(cnt, p[1])
      OBVIOUS
    <2>1. p = <<p[1], p[2]>> /\ p[2] \in Event
      BY <1>3 DEF Pair
    <2>2. cnt[p] # 0
      BY <1>3
    <2> QED  BY <2>1, <2>2 DEF Evs
  <1>5. ASSUME NEW i \in DOMAIN r, NEW e \in r[i].events
        PROVE  <<r[i].fd, e>> \in Asked(r)
    BY DEF Asked
  <1>6. \A i \in DOMAIN r : r[i].events \subseteq Evs(cnt, r[i].fd)
    <2> SUFFICES ASSUME NEW i \in DOMAIN r, NEW e \in r[i].events PROVE e \in Evs(cnt, r[i].fd)
      OBVIOUS
    <2>1. <<r[i].fd, e>> \in Asked(r) /\ <<r[i].fd, e>>[1] = r[i].fd /\ <<r[i].fd, e>>[2] = e
      BY <1>5
    <2> QED  BY <1>4, <2>1
  <1>7. FdsOf(r) \subseteq open
    <2> SUFFICES ASSUME NEW i \in DOMAIN r PROVE r[i].fd \in open
      BY DEF FdsOf
    <2>1. r[i].events # {}
      BY DEF EpollGood, Asks
    <2>2. PICK e \in r[i].events : TRUE
      BY <2>1
    <2>3. cnt[<<r[i].fd, e>>] > 0 /\ <<r[i].fd, e>> \in Pair /\ <<r[i].fd, e>>[1] = r[i].fd
      BY <1>3, <1>5
    <2> QED  BY <2>3 DEF EpollGood, Held
  <1> QED  BY <1>2, <1>4, <1>6, <1>7

\* What epoll tells a thread is what there is of its request, and the hang-ups.
Dead(t) == FdsOf(pds[t]) \cap hup
Hit(t) == (Asked(pds[t]) \cap ready) \cup {p \in Asked(pds[t]) : p[1] \in Dead(t)} \cup Dead(t) \X {"err"}
Told(s, t) ==
    UNION {({pds[t][i].fd} \X ((pds[t][i].events \cup {"err"}) \cap E!Fires(s, pds[t][i].fd)))
             : i \in DOMAIN pds[t]}

LEMMA ToldIs ==
    ASSUME EpollGood, epfd, NEW t \in ToSet(ioq)
    PROVE  Told(E!Es, t) = Hit(t) /\ Hit(t) \subseteq Fd \X (Event \cup {"nval", "err"})
  <1> DEFINE r == pds[t]
             s == E!Es
             F(fd) == E!Fires(s, fd)
             up(fd) == {e \in Event : <<fd, e>> \in ready}
  <1>1. /\ s.c = cnt /\ s.k = epset /\ KernelInv(s) /\ s.f
        /\ r \in Array
    BY EpollStart
  <1>2. /\ Asked(r) \subseteq Pair /\ FdsOf(r) \subseteq open
        /\ \A i \in DOMAIN r : r[i].events \subseteq Evs(cnt, r[i].fd)
    BY CountedIs
  <1>3. \A i \in DOMAIN r : r[i].fd \in Fd /\ r[i].events # {} /\ r[i].events \subseteq Event
    <2>1. \A i \in DOMAIN r : r[i] \in Entry
      BY <1>1 DEF Array
    <2> QED  BY <2>1 DEF Entry, EpollGood, Asks
  <1>4. \A fd \in Fd : epset[fd] = Masks(cnt, fd)
    BY <1>1 DEF KernelInv
  <1>5. \A fd \in Fd : F(fd) = IF epset[fd] # {} /\ fd \in hup
                               THEN Evs(cnt, fd) \cup (epset[fd] \cap up(fd)) \cup {"err"}
                               ELSE epset[fd] \cap up(fd)
    <2>1. E!Event = Event /\ \A fd : E!EventsOf(s.c, fd) = Evs(cnt, fd)
      BY <1>1, SameEpoll
    <2> HIDE DEF s
    <2> QED  BY <1>1, <2>1 DEF E!Fires
  <1> HIDE DEF F
  <1>6. ASSUME NEW i \in DOMAIN r
        PROVE  (r[i].events \cup {"err"}) \cap F(r[i].fd) =
                 IF r[i].fd \in hup THEN r[i].events \cup {"err"} ELSE r[i].events \cap up(r[i].fd)
    <2> DEFINE fd == r[i].fd
               ev == r[i].events
    <2>1. /\ fd \in Fd /\ ev # {} /\ ev \subseteq Event /\ ev \subseteq Evs(cnt, fd)
          /\ epset[fd] = Evs(cnt, fd) \cup {"err"}
      BY <1>2, <1>3, <1>4, MaskIs
    <2>2. "err" \notin Event
      BY DEF Event
    <2>3. "err" \notin up(fd)
      BY <2>2
    <2> HIDE DEF fd, ev, up
    <2>4. CASE fd \in hup
      <3>1. F(fd) = Evs(cnt, fd) \cup (epset[fd] \cap up(fd)) \cup {"err"}
        BY <1>5, <2>1, <2>4
      <3>2. (ev \cup {"err"}) \cap F(fd) = ev \cup {"err"}
        BY <2>1, <3>1
      <3> QED  BY <2>4, <3>2 DEF fd, ev
    <2>5. CASE fd \notin hup
      <3>1. F(fd) = epset[fd] \cap up(fd)
        BY <1>5, <2>1, <2>5
      <3>2. (ev \cup {"err"}) \cap F(fd) = ev \cap up(fd)
        BY <2>1, <2>3, <3>1
      <3> QED  BY <2>5, <3>2 DEF fd, ev
    <2> QED  BY <2>4, <2>5
  <1>7. Told(s, t) = UNION {({r[i].fd} \X (IF r[i].fd \in hup THEN r[i].events \cup {"err"}
                                           ELSE r[i].events \cap up(r[i].fd))) : i \in DOMAIN r}
    <2>1. Told(s, t) = UNION {({r[i].fd} \X ((r[i].events \cup {"err"}) \cap F(r[i].fd))) : i \in DOMAIN r}
      BY DEF Told, F
    <2> HIDE DEF r, s, up
    <2> QED  BY <1>6, <2>1
  <1>8. \A i \in DOMAIN r : r[i].events \cap up(r[i].fd) = {e \in r[i].events : <<r[i].fd, e>> \in ready}
    BY <1>3
  <1> HIDE DEF up
  <1>9. ASSUME NEW x PROVE x \in Told(s, t) <=> x \in Hit(t)
    <2> HIDE DEF s
    <2>1. x \in Told(s, t) <=>
            \E i \in DOMAIN r : \E e : /\ x = <<r[i].fd, e>>
                                       /\ IF r[i].fd \in hup THEN e \in r[i].events \/ e = "err"
                                          ELSE e \in r[i].events /\ <<r[i].fd, e>> \in ready
      <3> DEFINE V(i) == IF r[i].fd \in hup THEN r[i].events \cup {"err"} ELSE r[i].events \cap up(r[i].fd)
      <3>1. x \in Told(s, t) <=> \E i \in DOMAIN r : x \in {r[i].fd} \X V(i)
        BY <1>7
      <3>2. ASSUME NEW i \in DOMAIN r
            PROVE  x \in {r[i].fd} \X V(i) <=> \E e : x = <<r[i].fd, e>> /\ e \in V(i)
        <4> HIDE DEF V
        <4> QED  OBVIOUS
      <3>3. ASSUME NEW i \in DOMAIN r, NEW e
            PROVE  e \in V(i) <=> IF r[i].fd \in hup THEN e \in r[i].events \/ e = "err"
                                  ELSE e \in r[i].events /\ <<r[i].fd, e>> \in ready
        BY <1>8
      <3> HIDE DEF V, r
      <3> QED  BY <3>1, <3>2, <3>3
    <2>2. x \in Asked(r) <=> \E i \in DOMAIN r : \E e \in r[i].events : x = <<r[i].fd, e>>
      BY DEF Asked
    <2>3. \A d : d \in FdsOf(r) <=> \E i \in DOMAIN r : d = r[i].fd
      BY DEF FdsOf
    <2>4. x \in Hit(t) <=> \/ x \in Asked(r) /\ x \in ready
                           \/ x \in Asked(r) /\ x[1] \in FdsOf(r) /\ x[1] \in hup
                           \/ \E d \in FdsOf(r) : d \in hup /\ x = <<d, "err">>
      BY DEF Hit, Dead
    <2> HIDE DEF r
    <2>5. ASSUME x \in Told(s, t) PROVE x \in Hit(t)
      <3>0. PICK i \in DOMAIN r :
              \E e : /\ x = <<r[i].fd, e>>
                     /\ IF r[i].fd \in hup THEN e \in r[i].events \/ e = "err"
                        ELSE e \in r[i].events /\ <<r[i].fd, e>> \in ready
        BY <2>1, <2>5
      <3>1. PICK e : /\ x = <<r[i].fd, e>>
                     /\ IF r[i].fd \in hup THEN e \in r[i].events \/ e = "err"
                        ELSE e \in r[i].events /\ <<r[i].fd, e>> \in ready
        BY <3>0
      <3>2. r[i].fd \in FdsOf(r) /\ x[1] = r[i].fd
        BY <2>3, <3>1
      <3>3. e \in r[i].events => x \in Asked(r)
        BY <2>2, <3>1
      <3> QED  BY <2>4, <3>1, <3>2, <3>3
    <2>6. ASSUME x \in Hit(t) PROVE x \in Told(s, t)
      <3>1. CASE x \in Asked(r) /\ (x \in ready \/ x[1] \in hup)
        <4>0. PICK i \in DOMAIN r : \E e \in r[i].events : x = <<r[i].fd, e>>
          BY <2>2, <3>1
        <4>1. PICK e \in r[i].events : x = <<r[i].fd, e>>
          BY <4>0
        <4>2. x[1] = r[i].fd
          BY <4>1
        <4> QED  BY <2>1, <3>1, <4>1, <4>2
      <3>2. CASE \E d \in FdsOf(r) : d \in hup /\ x = <<d, "err">>
        <4>1. PICK d \in FdsOf(r) : d \in hup /\ x = <<d, "err">>
          BY <3>2
        <4>2. PICK i \in DOMAIN r : d = r[i].fd
          BY <2>3
        <4> QED  BY <2>1, <4>1, <4>2
      <3> QED  BY <2>4, <2>6, <3>1, <3>2
    <2> QED  BY <2>5, <2>6
  <1>10. Told(s, t) = Hit(t)
    <2> HIDE DEF s
    <2> QED  BY <1>9
  <1>11. Hit(t) \subseteq Fd \X (Event \cup {"nval", "err"})
    <2>1. FdsOf(r) \subseteq Fd
      BY <1>3 DEF FdsOf
    <2> QED  BY <1>2, <2>1 DEF Hit, Dead, Pair
  <1> QED  BY <1>10, <1>11

\* _st_epoll_dispatch.
LEMMA EpollDispatchStep ==
    ASSUME EpollGood, NEW late \in Lines, E!Dispatch(late)
    PROVE  EpollGood' /\ E!ExactTurn
  <1> DEFINE s == E!Es
             F == {fd \in Fd : E!Fires(s, fd) # {}}
             hit == {t \in ToSet(ioq) : Told(s, t) # {}}
             rev == [t \in Thread |-> Told(s, t)]
             q == Among(ioq, hit)
             gone == E!DelThreads(s, q, F)[Len(q)]
             w == E!Settle(gone, F)
  <1>0. BaseInv /\ epfd
    BY DEF EpollGood, E!Dispatch
  <1>1. /\ s \in EpState /\ Sound(s) /\ Held(s.c) /\ KernelInv(s)
        /\ s.c = cnt /\ s.k = epset /\ s.n = evtlist_cnt /\ s.f = epfd
        /\ pds \in [Thread -> Array] /\ ToSet(ioq) \in SUBSET Thread
        /\ ioq \in Seq(Thread) /\ IsInjective(ioq)
    BY EpollStart
  <1>2. /\ Turn(hit, rev, late) /\ UNCHANGED <<epfd, forked, hup>>
        /\ cnt' = w.c /\ epset' = w.k /\ evtlist_cnt' = w.n
    <2>1. hit = {t \in E!ToSet(ioq) : Told(s, t) # {}} /\ E!Among(ioq, hit) = q
      BY SameSequencesE, SameAmongE
    <2>2. E!Turn(hit, rev, late) /\ E!Store(w) /\ UNCHANGED <<epfd, forked, hup>>
      BY <2>1 DEF E!Dispatch, E!Report, Told
    <2> HIDE DEF hit, rev, w
    <2>3. Turn(hit, rev, late)
      BY <2>2, SameTurnE
    <2> QED  BY <2>2, <2>3 DEF E!Store
  <1>3. /\ q \in Seq(Thread) /\ IsInjective(q) /\ ToSet(q) = hit
    <2>1. hit \subseteq ToSet(ioq)
      OBVIOUS
    <2> HIDE DEF hit, s
    <2>2. /\ Among(ioq, hit) \in Seq(Thread)
          /\ ToSet(Among(ioq, hit)) = ToSet(ioq) \cap hit
          /\ IsInjective(ioq) => IsInjective(Among(ioq, hit))
      BY <1>1, AmongElems
    <2> QED  BY <1>1, <2>1, <2>2
  <1>4. \A t \in ToSet(ioq) : Told(s, t) = Hit(t) /\ Hit(t) \subseteq Fd \X (Event \cup {"nval", "err"})
    BY <1>0, ToldIs
  <1>5. hit \subseteq ToSet(ioq) /\ \A t \in hit : rev[t] = Hit(t) /\ rev[t] \subseteq Fd \X (Event \cup {"nval", "err"})
    <2> HIDE DEF s
    <2> QED  BY <1>1, <1>4
  <1>6. /\ BaseInv' /\ ToSet(ioq') = ToSet(ioq) \ hit
        /\ \A t \in hit : revents'[t] = rev[t]
        /\ UNCHANGED <<pds, os>>
    <2> HIDE DEF hit, rev
    <2> QED  BY <1>0, <1>2, <1>5, TurnBase
  <1> HIDE DEF q
  <1>7. /\ Keeps(s, gone, F)
        /\ \A p \in Pair : gone.c[p] = s.c[p] - Cardinality(Entries(pds, hit, p))
    <2> HIDE DEF s, F, hit
    <2> QED  BY <1>1, <1>3, DelThreadsIs
  <1>8. \A fd \in F : s.k[fd] # {} /\ fd \in open
    <2> SUFFICES ASSUME NEW fd \in F PROVE s.k[fd] # {} /\ fd \in open
      OBVIOUS
    <2>1. fd \in Fd /\ E!Fires(s, fd) # {}
      OBVIOUS
    <2> HIDE DEF s, F
    <2>2. s.k[fd] # {}
      BY <2>1 DEF E!Fires
    <2>3. s.k[fd] = Masks(s.c, fd)
      BY <1>0, <1>1, <2>1 DEF KernelInv
    <2>4. fd \notin open => Masks(s.c, fd) = {}
      BY <1>1, <2>1, SoundIs, MaskIs
    <2> QED  BY <2>2, <2>3, <2>4
  <1>9. F \in SUBSET Fd /\ \A fd \in F : fd \in F \cap Fd
    OBVIOUS
  <1> HIDE DEF s, F, gone
  <1>10. Sync(s, F, open) /\ Listed(s) /\ open \in SUBSET open
    BY <1>0, <1>1 DEF Sound, Sync
  <1>16. Nonneg(gone.c)
    <2>1. \A p \in Pair : cnt[p] = NumOf(ToSet(ioq), p)
      BY DEF EpollGood, CountsRightE
    <2>2. \A v \in ToSet(ioq') : pds'[v] = pds[v]
      BY <1>6
    <2> HIDE DEF hit, rev
    <2>3. \A p \in Pair : cnt[p] - Cardinality(Entries(pds, hit, p)) >= 0
      BY <1>0, <1>5, <1>6, <2>1, <2>2, NumLess
    <2> QED  BY <1>1, <1>7, <2>3 DEF Nonneg
  <1>11. /\ gone \in EpState /\ gone.f /\ Sync(gone, F, open) /\ Listed(gone)
         /\ \A fd \in F : gone.k[fd] # {} /\ fd \in open
    BY <1>0, <1>1, <1>7, <1>8, <1>9, <1>10, <1>16 DEF Keeps
  <1>12. w \in EpState /\ w.f = gone.f /\ w.c = gone.c /\ Sync(w, {}, open) /\ Listed(w)
    BY <1>9, <1>11, SettleIs
  <1> HIDE DEF w, hit, rev
  <1>13. EpollGood'
    <2>1. w.f = epfd /\ (epfd => Sync(w, {}, open) /\ Listed(w)) /\ (~epfd => w.k = epset /\ w.n = evtlist_cnt)
      BY <1>0, <1>1, <1>7, <1>12 DEF Keeps
    <2>2. \A p \in Pair : w.c[p] = cnt[p] - Cardinality(Entries(pds, hit, p))
      BY <1>1, <1>7, <1>12
    <2>3. UNCHANGED <<epfd, forked, hup, open>> /\ \A v \in ToSet(ioq') : pds'[v] = pds[v]
      BY <1>2, <1>6 DEF os
    <2> QED  BY <1>2, <1>5, <1>6, <1>12, <2>1, <2>2, <2>3, EpollDelStep
  <1>14. ASSUME NEW t \in ToSet(ioq)
         PROVE  /\ (t \in ToSet(ioq')) = (Hit(t) = {})
                /\ Hit(t) # {} => revents'[t] = Hit(t)
    <2>1. t \in hit <=> Hit(t) # {}
      BY <1>4 DEF hit
    <2> QED  BY <1>5, <1>6, <2>1
  <1>15. E!ExactTurn
    <2>1. \A t : /\ E!FdsOf(pds[t]) \cap hup = Dead(t)
                 /\ Hit(t) = (E!Asked(pds[t]) \cap ready)
                               \cup {p \in E!Asked(pds[t]) : p[1] \in Dead(t)} \cup Dead(t) \X {"err"}
      BY SameRequestsE DEF Dead, Hit
    <2>2. E!ToSet(ioq) = ToSet(ioq) /\ E!ToSet(ioq') = ToSet(ioq')
      BY SameSequencesE
    <2> QED  BY <1>14, <2>1, <2>2 DEF E!ExactTurn
  <1> QED  BY <1>13, <1>15

\* Steps that leave the requests and the epoll set alone.
LEMMA EpollQuietStep ==
    ASSUME EpollGood, BaseInv', ToSet(ioq') = ToSet(ioq),
           UNCHANGED <<pds, cnt, epset, evtlist_cnt, epfd>>,
           forked' \in BOOLEAN, hup' \subseteq Fd, ~forked' => epfd,
           \A q \in Pair : cnt[q] > 0 => q[1] \in open'
    PROVE  EpollGood'
  <1> DEFINE s == E!Es
  <1>1. /\ KernelInv(s) /\ s.c = cnt /\ s.k = epset /\ s.n = evtlist_cnt /\ s.f = epfd
    BY EpollStart
  <1> HIDE DEF s
  <1>2. ToSet(ioq)' = ToSet(ioq)
    BY DEF ToSet
  <1>3. \A p \in Pair : s.c[p] = NumOf(ToSet(ioq), p)'
    <2>1. \A p : NumOf(ToSet(ioq), p)' = NumOf(ToSet(ioq), p)
      BY <1>2 DEF NumOf
    <2> QED  BY <1>1, <2>1 DEF EpollGood, CountsRightE
  <1>4. Asks'
    BY <1>2 DEF EpollGood, Asks
  <1>5. cnt' = s.c /\ epset' = s.k /\ evtlist_cnt' = s.n /\ epfd' = s.f
    BY <1>1
  <1>6. (\A q \in Pair : s.c[q] > 0 => q[1] \in open') /\ (~forked' => epfd')
    BY <1>1
  <1> QED  BY <1>1, <1>3, <1>4, <1>5, <1>6, StoreStep

\* The same when the threads do not move, either.
LEMMA EpollStillStep ==
    ASSUME EpollGood,
           UNCHANGED <<running, runq, pc, ioq, pds, revents, armed, cnt, epset, evtlist_cnt, epfd>>,
           interrupt' \subseteq Thread, open' \subseteq Fd, ready' \subseteq Pair,
           forked' \in BOOLEAN, hup' \subseteq Fd, ~forked' => epfd,
           \A q \in Pair : cnt[q] > 0 => q[1] \in open'
    PROVE  EpollGood'
  <1>1. BaseInv
    BY DEF EpollGood
  <1>2. BaseInv'
    BY <1>1, OtherBase
  <1> QED  BY <1>2, EpollQuietStep

\* st_poll fails: nothing is left of the attempt.
LEMMA EpollPollFailsStep ==
    ASSUME EpollGood, NEW r \in Request, NEW full, E!PollFails(r, full)
    PROVE  UNCHANGED <<E!base, E!ep>>
  <1> DEFINE s == E!Es
             t == E!Undo(E!Added(s, r, full), r)
  <1>1. s \in EpState /\ Sound(s) /\ s.c = cnt /\ s.k = epset /\ s.n = evtlist_cnt
    BY EpollStart
  <1>2. r \in Array
    BY PollAssumption DEF PollAssumption, Array, Entry
  <1>3. /\ cnt' = t.c /\ epset' = t.k /\ evtlist_cnt' = t.n
        /\ UNCHANGED <<E!base, epfd, forked, hup, missed>>
        /\ E!Added(s, r, full).b
    BY DEF E!PollFails, E!Store
  <1> HIDE DEF s
  <1>4. t.c = s.c /\ t.k = s.k /\ t.n = s.n
    BY <1>1, <1>2, <1>3, UndoneIs
  <1> HIDE DEF t
  <1> QED  BY <1>1, <1>3, <1>4 DEF E!ep

\* Dispatch in a forked process: a new epoll set that takes all of the I/O queue
\* puts everything right again.
LEMMA EpollForkedStep ==
    ASSUME EpollBare, NEW full \in [ToSet(ioq) -> SUBSET Scarce], E!DispatchForked(full), missed' = {}
    PROVE  EpollGood'
  <1> DEFINE z == E!Fresh
             at == E!AddThreads(z, ioq, full)
             t == at[Len(ioq)]
  <1>0. BaseInv /\ Asks /\ forked \in BOOLEAN /\ hup \subseteq Fd /\ BaseTypeOK /\ InOnePlace
    BY DEF EpollBare, BaseInv
  <1>1. /\ epfd' = TRUE /\ forked' = FALSE /\ hup' = hup
        /\ cnt' = t.c /\ epset' = t.k /\ evtlist_cnt' = t.n
        /\ UNCHANGED <<running, runq, pc, ioq, pds, revents, armed, interrupt, open, ready>>
    BY DEF E!DispatchForked, E!Store, E!Reinit, E!base, E!sched, E!os
  <1>2. /\ pds \in [Thread -> Array] /\ ioq \in Seq(Thread) /\ IsInjective(ioq)
        /\ ToSet(ioq) \in SUBSET Thread
    BY <1>0, PdsType DEF BaseTypeOK, ToSet, InOnePlace
  <1>3. z \in EpState /\ z.f /\ Sound(z) /\ \A p \in Pair : z.c[p] = 0
    BY FreshSound
  <1>4. \A i \in 1..Len(ioq) : ~E!Added(at[i - 1], pds[ioq[i]], full[ioq[i]]).b
    <2>1. E!Refused(full) = {}
      BY DEF E!DispatchForked
    <2>2. DOMAIN ioq = 1..Len(ioq)
      BY <1>2
    <2> HIDE DEF at
    <2>3. E!Refused(full) = {ioq[i] : i \in {j \in DOMAIN ioq : E!Added(at[j - 1], pds[ioq[j]], full[ioq[j]]).b}}
      BY DEF E!Refused, at
    <2> QED  BY <2>1, <2>2, <2>3
  <1> HIDE DEF z
  <1>6. /\ t \in EpState /\ t.f /\ Sound(t)
        /\ \A p \in Pair : t.c[p] = z.c[p] + Cardinality(Entries(pds, ToSet(ioq), p))
    BY <1>2, <1>3, <1>4, AddThreadsIs
  <1> HIDE DEF t
  <1>7. Held(t.c)
    BY <1>6 DEF Sound
  <1>8. (\A fd \in Fd : t.k[fd] = Masks(t.c, fd)) /\ Listed(t)
    BY <1>6, <1>7, SoundIs
  <1>9. KernelInv(t)
    <2>1. t.n \in 0..Cardinality(Fd)
      BY <1>8, ListFits
    <2> QED  BY <1>6, <1>8, <2>1 DEF KernelInv
  <1>10. \A p \in Pair : t.c[p] = NumOf(ToSet(ioq), p)'
    <2> SUFFICES ASSUME NEW p \in Pair PROVE t.c[p] = NumOf(ToSet(ioq), p)'
      OBVIOUS
    <2>1. NumOf(ToSet(ioq), p)' = NumOf(ToSet(ioq), p)
      BY <1>1 DEF NumOf
    <2>2. NumOf(ToSet(ioq), p) = Cardinality(Entries(pds, ToSet(ioq), p))
      BY NumOfIs
    <2>3. Cardinality(Entries(pds, ToSet(ioq), p)) \in Nat
      BY <1>2, EntriesFinite
    <2> QED  BY <1>3, <1>6, <2>1, <2>2, <2>3
  <1>11. BaseInv' /\ Asks'
    <2>1. interrupt' \subseteq Thread /\ open' \subseteq Fd /\ ready' \subseteq Pair
      BY <1>0, <1>1 DEF BaseInv, BaseTypeOK
    <2>2. BaseInv'
      BY <1>0, <1>1, <2>1, OtherBase
    <2> QED  BY <1>0, <1>1, <2>2 DEF Asks
  <1>12. \A q \in Pair : t.c[q] > 0 => q[1] \in open'
    BY <1>1, <1>7 DEF Held
  <1>13. /\ epfd' = t.f /\ forked' \in BOOLEAN /\ hup' \subseteq Fd /\ (~forked' => epfd')
    <2>1. t.f = TRUE
      BY <1>6 DEF EpState
    <2> QED  BY <1>0, <1>1, <2>1
  <1> QED  BY <1>1, <1>9, <1>10, <1>11, <1>12, <1>13, StoreStep

\* epoll_create fails: there is no epoll set, and the counts stay.
LEMMA EpollForkedFailsStep == ASSUME EpollGood, E!ForkedFails PROVE EpollGood'
  <1> DEFINE k == [fd \in Fd |-> {}]
             t == [c |-> cnt, k |-> k, n |-> evtlist_cnt, f |-> FALSE]
  <1>0. /\ BaseInv /\ Asks /\ forked \in BOOLEAN /\ hup \subseteq Fd /\ Held(cnt)
        /\ \A p \in Pair : cnt[p] = NumOf(ToSet(ioq), p)
    BY DEF EpollGood, CountsRightE
  <1>1. /\ epfd' = FALSE /\ forked' = forked /\ hup' = hup /\ forked
        /\ cnt' = cnt /\ epset' = k /\ evtlist_cnt' = evtlist_cnt
        /\ UNCHANGED <<running, runq, pc, ioq, pds, revents, armed, interrupt, open, ready>>
    BY DEF E!ForkedFails, E!base, E!sched, E!os
  <1>2. cnt \in [Pair -> Int] /\ evtlist_cnt \in 0..Cardinality(Fd) /\ evtlist_cnt \in Int
    <2>1. E!Es \in EpState /\ KernelInv(E!Es) /\ E!Es.c = cnt /\ E!Es.n = evtlist_cnt
      BY EpollStart
    <2> QED  BY <2>1 DEF KernelInv, EpState
  <1>3. k \in [Fd -> SUBSET Watchable] /\ \A fd \in Fd : k[fd] = {}
    OBVIOUS
  <1> HIDE DEF k
  <1>4. t.c = cnt /\ t.k = k /\ t.n = evtlist_cnt /\ t.f = FALSE /\ t \in EpState
    BY <1>2, <1>3 DEF EpState
  <1> HIDE DEF t
  <1>5. KernelInv(t)
    BY <1>2, <1>3, <1>4 DEF KernelInv
  <1>6. BaseInv' /\ Asks'
    <2>1. interrupt' \subseteq Thread /\ open' \subseteq Fd /\ ready' \subseteq Pair
      BY <1>0, <1>1 DEF BaseInv, BaseTypeOK
    <2>2. BaseInv'
      BY <1>0, <1>1, <2>1, OtherBase
    <2> QED  BY <1>0, <1>1, <2>2 DEF Asks
  <1>7. \A p \in Pair : t.c[p] = NumOf(ToSet(ioq), p)'
    <2>1. \A p : NumOf(ToSet(ioq), p)' = NumOf(ToSet(ioq), p)
      BY <1>1 DEF NumOf
    <2> QED  BY <1>0, <1>4, <2>1
  <1>8. \A q \in Pair : t.c[q] > 0 => q[1] \in open'
    BY <1>0, <1>1, <1>4 DEF Held
  <1>9. /\ epfd' = t.f /\ forked' \in BOOLEAN /\ hup' \subseteq Fd /\ (~forked' => epfd')
        /\ cnt' = t.c /\ epset' = t.k /\ evtlist_cnt' = t.n
    BY <1>0, <1>1, <1>4
  <1> QED  BY <1>5, <1>6, <1>7, <1>8, <1>9, StoreStep

\* A turn in which only the clock is looked at.
LEMMA EpollClockStep == ASSUME EpollGood, NEW late \in Lines, E!ClockOnly(late) PROVE EpollGood'
  <1>0. BaseInv /\ forked \in BOOLEAN /\ hup \subseteq Fd /\ (~forked => epfd) /\ Held(cnt)
    BY DEF EpollGood
  <1> DEFINE H == {}
  <1>1. Turn(H, revents, late) /\ UNCHANGED <<cnt, evtlist_cnt, epset, epfd, forked, hup>>
    BY SameTurnE DEF E!ClockOnly, E!ep
  <1>2. /\ H \subseteq ToSet(ioq) /\ ToSet(ioq) \ H = ToSet(ioq)
        /\ \A t \in H : revents[t] \subseteq Fd \X (Event \cup {"nval", "err"})
    OBVIOUS
  <1>3. BaseInv' /\ ToSet(ioq') = ToSet(ioq) \ H /\ UNCHANGED <<pds, os>>
    <2> HIDE DEF H
    <2> QED  BY <1>0, <1>1, <1>2, TurnBase
  <1>4. \A q \in Pair : cnt[q] > 0 => q[1] \in open'
    BY <1>0, <1>3 DEF Held, os
  <1>5. ToSet(ioq') = ToSet(ioq)
    BY <1>2, <1>3
  <1>6. forked' \in BOOLEAN /\ hup' \subseteq Fd /\ (~forked' => epfd)
    BY <1>0, <1>1
  <1>7. UNCHANGED <<pds, cnt, epset, evtlist_cnt, epfd>>
    BY <1>1, <1>3
  <1> QED  BY <1>3, <1>4, <1>5, <1>6, <1>7, EpollQuietStep

\* st_netfd_close: a descriptor that is not counted is not watched, either.
LEMMA EpollCloseStep == ASSUME EpollGood, NEW fd \in Fd, E!NetfdClose(fd) PROVE EpollGood'
  <1>0. /\ BaseInv /\ forked \in BOOLEAN /\ hup \subseteq Fd /\ (~forked => epfd) /\ Held(cnt)
        /\ interrupt \subseteq Thread /\ open \subseteq Fd /\ ready \subseteq Pair
    BY DEF EpollGood, BaseInv, BaseTypeOK
  <1>1. /\ \A e \in Event : cnt[<<fd, e>>] = 0
        /\ open' = open \ {fd} /\ ready' = {p \in ready : p[1] # fd}
        /\ UNCHANGED <<running, runq, pc, ioq, pds, revents, armed, interrupt>>
        /\ epset' = [epset EXCEPT ![fd] = {}] /\ hup' = hup \ {fd}
        /\ UNCHANGED <<cnt, evtlist_cnt, epfd, forked>>
    BY SameEpoll DEF E!NetfdClose, E!CloseFd, E!sched
  <1>2. epset' = epset
    <2>1. /\ E!Es \in EpState /\ KernelInv(E!Es) /\ E!Es.c = cnt /\ E!Es.k = epset /\ E!Es.f = epfd
      BY EpollStart
    <2>2. epset \in [Fd -> SUBSET Watchable]
      BY <2>1 DEF EpState
    <2>3. Masks(cnt, fd) = {}
      BY <1>1, MaskIs DEF Evs
    <2>4. epset[fd] = {}
      BY <2>1, <2>3 DEF KernelInv
    <2> QED  BY <1>1, <2>2, <2>4
  <1>3. \A q \in Pair : cnt[q] > 0 => q[1] \in open'
    <2> SUFFICES ASSUME NEW q \in Pair, cnt[q] > 0 PROVE q[1] \in open'
      OBVIOUS
    <2>1. q = <<q[1], q[2]>> /\ q[2] \in Event /\ q[1] \in open
      BY <1>0 DEF Pair, Held
    <2>2. q[1] # fd
      BY <1>1, <2>1
    <2> QED  BY <1>1, <2>1, <2>2
  <1>4. /\ open' \subseteq Fd /\ ready' \subseteq Pair /\ hup' \subseteq Fd
        /\ interrupt' \subseteq Thread /\ forked' \in BOOLEAN /\ (~forked' => epfd)
    BY <1>0, <1>1
  <1> QED  BY <1>1, <1>2, <1>3, <1>4, EpollStillStep

-----------------------------------------------------------------------------
(* What is left of it once a request is missed.                              *)

LEMMA BareStep ==
    ASSUME BaseInv', Asks', forked' \in BOOLEAN, hup' \subseteq Fd, missed' \subseteq Thread,
           epfd' \in BOOLEAN, ~forked' => epfd',
           NEW t \in EpState, cnt' = t.c, epset' = t.k, evtlist_cnt' = t.n
    PROVE  EpollBare'
  <1>1. t.c \in [Pair -> Int] /\ t.k \in [Fd -> SUBSET Watchable] /\ t.n \in Int
    BY DEF EpState
  <1>2. (E!Es)' = [c |-> t.c, k |-> t.k, n |-> t.n, f |-> epfd']
    BY DEF E!Es
  <1>3. (E!Es \in EpState)'
    BY <1>1, <1>2 DEF EpState, Watchable, Pair, Event
  <1> QED  BY <1>3 DEF EpollBare

\* What it says of the state the loops start from.
LEMMA BareStart ==
    ASSUME EpollBare
    PROVE  LET s == E!Es IN
           /\ s \in EpState /\ s.c = cnt /\ s.k = epset /\ s.n = evtlist_cnt /\ s.f = epfd
           /\ pds \in [Thread -> Array] /\ ToSet(ioq) \in SUBSET Thread
           /\ ioq \in Seq(Thread) /\ IsInjective(ioq) /\ epfd \in BOOLEAN
  <1>1. BaseTypeOK /\ InOnePlace
    BY DEF EpollBare, BaseInv
  <1>2. E!Es.c = cnt /\ E!Es.k = epset /\ E!Es.n = evtlist_cnt /\ E!Es.f = epfd
    BY EsIs
  <1>3. E!Es \in EpState /\ E!Es.f \in BOOLEAN
    BY DEF EpollBare, EpState
  <1> QED  BY <1>1, <1>2, <1>3, PdsType DEF BaseTypeOK, ToSet, InOnePlace

\* Steps that leave the queues and the epoll set alone.
LEMMA BareStillStep ==
    ASSUME EpollBare,
           UNCHANGED <<running, runq, pc, ioq, pds, revents, armed, cnt, evtlist_cnt, missed>>,
           interrupt' \subseteq Thread, open' \subseteq Fd, ready' \subseteq Pair,
           forked' \in BOOLEAN, hup' \subseteq Fd, epfd' \in BOOLEAN, ~forked' => epfd',
           epset' \in [Fd -> SUBSET Watchable]
    PROVE  EpollBare'
  <1> DEFINE t == [c |-> cnt, k |-> epset', n |-> evtlist_cnt, f |-> epfd]
  <1>1. BaseInv' /\ Asks'
    <2>1. BaseInv /\ Asks
      BY DEF EpollBare
    <2>2. BaseInv'
      BY <2>1, OtherBase
    <2> QED  BY <2>1, <2>2 DEF Asks
  <1>2. cnt \in [Pair -> Int] /\ evtlist_cnt \in Int /\ epfd \in BOOLEAN
    BY BareStart DEF EpState
  <1>3. t \in EpState /\ cnt' = t.c /\ epset' = t.k /\ evtlist_cnt' = t.n
    BY <1>2 DEF EpState
  <1>4. missed' \subseteq Thread
    BY DEF EpollBare
  <1> HIDE DEF t
  <1> QED  BY <1>1, <1>3, <1>4, BareStep

LEMMA BarePollStep ==
    ASSUME EpollBare, NEW r \in Request, NEW timed \in BOOLEAN, E!Poll(r, timed)
    PROVE  EpollBare'
  <1> DEFINE s == E!Es
             t == E!Added(s, r, {}).s
  <1>0. /\ BaseInv /\ Asks /\ forked \in BOOLEAN /\ hup \subseteq Fd /\ (~forked => epfd)
        /\ missed \subseteq Thread
    BY DEF EpollBare
  <1>1. /\ Enqueue(r, timed) /\ UNCHANGED <<epfd, forked, hup, missed>>
        /\ cnt' = t.c /\ epset' = t.k /\ evtlist_cnt' = t.n
        /\ \A i \in DOMAIN r : r[i].events # {}
    BY SameEnqueueE DEF E!Poll, E!Store
  <1>2. /\ BaseInv' /\ ToSet(ioq') = ToSet(ioq) \cup {running}
        /\ pds' = [pds EXCEPT ![running] = r] /\ running \in Thread \ ToSet(ioq)
    BY <1>0, <1>1, EnqueueBase
  <1>3. s \in EpState /\ pds \in [Thread -> Array] /\ ToSet(ioq) \in SUBSET Thread /\ epfd \in BOOLEAN
    BY BareStart
  <1>4. r \in Array
    BY PollAssumption DEF PollAssumption, Array, Entry
  <1> HIDE DEF s
  <1>5. t \in EpState
    BY <1>3, <1>4, AddedTyped
  <1> HIDE DEF t
  <1>6. Asks'
    <2>1. ToSet(ioq)' = ToSet(ioq) \cup {running}
      BY <1>2 DEF ToSet
    <2>2. pds'[running] = r /\ \A v \in ToSet(ioq) : pds'[v] = pds[v]
      BY <1>2, <1>3
    <2> QED  BY <1>0, <1>1, <2>1, <2>2 DEF Asks
  <1>7. /\ forked' \in BOOLEAN /\ hup' \subseteq Fd /\ missed' \subseteq Thread
        /\ epfd' \in BOOLEAN /\ (~forked' => epfd')
        /\ cnt' = t.c /\ epset' = t.k /\ evtlist_cnt' = t.n
    BY <1>0, <1>1, <1>3
  <1> QED  BY <1>2, <1>5, <1>6, <1>7, BareStep

LEMMA BarePollFailsStep ==
    ASSUME EpollBare, NEW r \in Request, NEW full, E!PollFails(r, full)
    PROVE  EpollBare'
  <1> DEFINE s == E!Es
             t == E!Undo(E!Added(s, r, full), r)
  <1>0. /\ BaseInv /\ Asks /\ forked \in BOOLEAN /\ hup \subseteq Fd /\ (~forked => epfd)
        /\ missed \subseteq Thread /\ interrupt \subseteq Thread /\ open \subseteq Fd /\ ready \subseteq Pair
    BY DEF EpollBare, BaseInv, BaseTypeOK
  <1>1. /\ cnt' = t.c /\ epset' = t.k /\ evtlist_cnt' = t.n
        /\ UNCHANGED <<running, runq, pc, ioq, pds, revents, armed, interrupt, open, ready>>
        /\ UNCHANGED <<epfd, forked, hup, missed>>
    BY DEF E!PollFails, E!Store, E!base, E!sched, E!os
  <1>2. s \in EpState /\ epfd \in BOOLEAN
    BY BareStart
  <1>3. r \in Array
    BY PollAssumption DEF PollAssumption, Array, Entry
  <1> HIDE DEF s
  <1>4. t \in EpState
    BY <1>2, <1>3, AddedTyped
  <1> HIDE DEF t
  <1>5. BaseInv'
    <2>1. interrupt' \subseteq Thread /\ open' \subseteq Fd /\ ready' \subseteq Pair
      BY <1>0, <1>1
    <2> QED  BY <1>0, <1>1, <2>1, OtherBase
  <1>6. Asks'
    BY <1>0, <1>1 DEF Asks
  <1>7. /\ forked' \in BOOLEAN /\ hup' \subseteq Fd /\ missed' \subseteq Thread
        /\ epfd' \in BOOLEAN /\ (~forked' => epfd')
    BY <1>0, <1>1, <1>2
  <1> QED  BY <1>1, <1>4, <1>5, <1>6, <1>7, BareStep

LEMMA BareReturnStep == ASSUME EpollBare, E!Return PROVE EpollBare'
  <1> DEFINE s == E!Es
             t == IF running \in ToSet(ioq) THEN E!DelAll(s, pds[running], {}) ELSE s
  <1>0. /\ BaseInv /\ Asks /\ forked \in BOOLEAN /\ hup \subseteq Fd /\ (~forked => epfd)
        /\ missed \subseteq Thread
    BY DEF EpollBare
  <1>1. /\ s \in EpState /\ epfd \in BOOLEAN
        /\ pds \in [Thread -> Array] /\ ToSet(ioq) \in SUBSET Thread /\ ioq \in Seq(Thread)
    BY BareStart
  <1>2. Contains(ioq, running) <=> running \in ToSet(ioq)
    BY <1>1, ContainsIsMember
  <1> HIDE DEF s
  <1>3. /\ PollReturn /\ UNCHANGED <<epfd, forked, hup, missed>>
        /\ cnt' = t.c /\ epset' = t.k /\ evtlist_cnt' = t.n
    BY <1>2, SameReturnE, SameSequencesE DEF E!Return, E!Store, s
  <1>4. /\ BaseInv' /\ running \in Thread /\ ToSet(ioq') = ToSet(ioq) \ {running}
        /\ pds' = [pds EXCEPT ![running] = <<>>]
    BY <1>0, <1>3, ReturnBase
  <1>5. t \in EpState
    <2> DEFINE r == pds[running]
               d == E!DelAll(s, r, {})
    <2>1. r \in Array
      BY <1>1, <1>4
    <2> HIDE DEF r
    <2>2. d \in EpState
      BY <1>1, <2>1, DelAllIs DEF Keeps
    <2> QED  BY <1>1, <2>2 DEF r
  <1> HIDE DEF t
  <1>6. Asks'
    <2>1. ToSet(ioq') \subseteq ToSet(ioq) /\ \A u \in ToSet(ioq') : pds'[u] = pds[u]
      BY <1>1, <1>4
    <2> QED  BY <1>0, <2>1, AsksLess
  <1>7. /\ forked' \in BOOLEAN /\ hup' \subseteq Fd /\ missed' \subseteq Thread
        /\ epfd' \in BOOLEAN /\ (~forked' => epfd')
    BY <1>0, <1>1, <1>3
  <1> QED  BY <1>3, <1>4, <1>5, <1>6, <1>7, BareStep

\* A turn of the idle thread, whatever the epoll set holds.
LEMMA BareTurnStep ==
    ASSUME EpollBare, NEW hit, hit \subseteq ToSet(ioq), NEW rev, NEW late \in Lines,
           \A v \in hit : rev[v] \subseteq Fd \X (Event \cup {"nval", "err"}),
           Turn(hit, rev, late), UNCHANGED <<epfd, forked, hup, missed>>,
           NEW t \in EpState, cnt' = t.c, epset' = t.k, evtlist_cnt' = t.n
    PROVE  EpollBare'
  <1>0. /\ BaseInv /\ Asks /\ forked \in BOOLEAN /\ hup \subseteq Fd /\ (~forked => epfd)
        /\ missed \subseteq Thread /\ epfd \in BOOLEAN
    BY BareStart DEF EpollBare
  <1>1. BaseInv' /\ ToSet(ioq') = ToSet(ioq) \ hit /\ UNCHANGED pds
    BY <1>0, TurnBase
  <1>2. Asks'
    <2>1. ToSet(ioq') \subseteq ToSet(ioq) /\ \A u \in ToSet(ioq') : pds'[u] = pds[u]
      BY <1>1
    <2> QED  BY <1>0, <2>1, AsksLess
  <1>3. /\ forked' \in BOOLEAN /\ hup' \subseteq Fd /\ missed' \subseteq Thread
        /\ epfd' \in BOOLEAN /\ (~forked' => epfd')
    BY <1>0
  <1> QED  BY <1>1, <1>2, <1>3, BareStep

LEMMA BareDispatchStep == ASSUME EpollBare, NEW late \in Lines, E!Dispatch(late) PROVE EpollBare'
  <1> DEFINE s == E!Es
             F == {fd \in Fd : E!Fires(s, fd) # {}}
             hit == {t \in ToSet(ioq) : Told(s, t) # {}}
             rev == [t \in Thread |-> Told(s, t)]
             q == Among(ioq, hit)
             gone == E!DelThreads(s, q, F)[Len(q)]
             w == E!Settle(gone, F)
  <1>1. /\ s \in EpState /\ pds \in [Thread -> Array] /\ ToSet(ioq) \in SUBSET Thread
        /\ ioq \in Seq(Thread) /\ IsInjective(ioq)
    BY BareStart
  <1>2. /\ Turn(hit, rev, late) /\ UNCHANGED <<epfd, forked, hup, missed>>
        /\ cnt' = w.c /\ epset' = w.k /\ evtlist_cnt' = w.n
    <2>1. hit = {t \in E!ToSet(ioq) : Told(s, t) # {}} /\ E!Among(ioq, hit) = q
      BY SameSequencesE, SameAmongE
    <2>2. E!Turn(hit, rev, late) /\ E!Store(w) /\ UNCHANGED <<epfd, forked, hup, missed>>
      BY <2>1 DEF E!Dispatch, E!Report, Told
    <2> HIDE DEF hit, rev, w
    <2>3. Turn(hit, rev, late)
      BY <2>2, SameTurnE
    <2> QED  BY <2>2, <2>3 DEF E!Store
  <1>3. q \in Seq(Thread) /\ IsInjective(q)
    <2> HIDE DEF hit
    <2> QED  BY <1>1, AmongElems
  <1>4. hit \subseteq ToSet(ioq)
    OBVIOUS
  <1>5. \A v \in hit : rev[v] \subseteq Fd \X (Event \cup {"nval", "err"})
    <2> SUFFICES ASSUME NEW v \in hit PROVE Told(s, v) \subseteq Fd \X (Event \cup {"nval", "err"})
      BY <1>1
    <2> DEFINE r == pds[v]
    <2>1. v \in Thread /\ r \in Array
      BY <1>1
    <2>2. \A i \in DOMAIN r : r[i].fd \in Fd /\ r[i].events \subseteq Event
      <3> HIDE DEF r
      <3>1. \A i \in DOMAIN r : r[i] \in Entry
        BY <2>1 DEF Array
      <3> QED  BY <3>1 DEF Entry
    <2> HIDE DEF s
    <2> QED  BY <2>2 DEF Told
  <1> HIDE DEF s, F, hit, rev, q
  <1>6. gone \in EpState
    BY <1>1, <1>3, DelThreadsIs DEF Keeps
  <1> HIDE DEF gone
  <1>7. F \in SUBSET Fd
    BY DEF F
  <1>8. w \in EpState
    BY <1>6, <1>7, SettleIs
  <1> HIDE DEF w
  <1> QED  BY <1>2, <1>4, <1>5, <1>8, BareTurnStep

LEMMA BareClockStep == ASSUME EpollBare, NEW late \in Lines, E!ClockOnly(late) PROVE EpollBare'
  <1> DEFINE H == {}
  <1>1. Turn(H, revents, late) /\ UNCHANGED <<cnt, evtlist_cnt, epset, epfd, forked, hup, missed>>
    BY SameTurnE DEF E!ClockOnly, E!ep
  <1>2. H \subseteq ToSet(ioq) /\ \A t \in H : revents[t] \subseteq Fd \X (Event \cup {"nval", "err"})
    OBVIOUS
  <1> DEFINE t == E!Es
  <1>3. t \in EpState /\ t.c = cnt /\ t.k = epset /\ t.n = evtlist_cnt
    BY BareStart
  <1> HIDE DEF t, H
  <1>4. cnt' = t.c /\ epset' = t.k /\ evtlist_cnt' = t.n /\ UNCHANGED <<epfd, forked, hup, missed>>
    BY <1>1, <1>3
  <1> QED  BY <1>1, <1>2, <1>3, <1>4, BareTurnStep

LEMMA BareForkedStep ==
    ASSUME EpollBare, NEW full \in [ToSet(ioq) -> SUBSET Scarce], E!DispatchForked(full)
    PROVE  EpollBare'
  <1> DEFINE z == E!Fresh
             at == E!AddThreads(z, ioq, full)
             t == at[Len(ioq)]
  <1>0. /\ BaseInv /\ Asks /\ hup \subseteq Fd
        /\ interrupt \subseteq Thread /\ open \subseteq Fd /\ ready \subseteq Pair
    BY DEF EpollBare, BaseInv, BaseTypeOK
  <1>1. /\ epfd' = TRUE /\ forked' = FALSE /\ hup' = hup /\ missed' = E!Refused(full)
        /\ cnt' = t.c /\ epset' = t.k /\ evtlist_cnt' = t.n
        /\ UNCHANGED <<running, runq, pc, ioq, pds, revents, armed, interrupt, open, ready>>
    BY DEF E!DispatchForked, E!Store, E!Reinit, E!base, E!sched, E!os
  <1>2. pds \in [Thread -> Array] /\ ioq \in Seq(Thread) /\ z \in EpState
    BY BareStart, FreshSound
  <1>3. Len(ioq) \in 0..Len(ioq)
    BY <1>2
  <1> HIDE DEF z
  <1>4. t \in EpState
    <2>1. \A i \in 0..Len(ioq) : at[i] \in EpState
      BY <1>2, AddThreadsAre
    <2> HIDE DEF at
    <2> QED  BY <1>3, <2>1
  <1> HIDE DEF t
  <1>5. missed' \subseteq Thread
    <2>1. \A i \in DOMAIN ioq : ioq[i] \in Thread
      BY <1>2
    <2>2. E!Refused(full) \subseteq Thread
      BY <2>1 DEF E!Refused
    <2> QED  BY <1>1, <2>2
  <1>6. BaseInv' /\ Asks'
    <2>1. interrupt' \subseteq Thread /\ open' \subseteq Fd /\ ready' \subseteq Pair
      BY <1>0, <1>1
    <2>2. BaseInv'
      BY <1>0, <1>1, <2>1, OtherBase
    <2> QED  BY <1>0, <1>1, <2>2 DEF Asks
  <1>7. /\ forked' \in BOOLEAN /\ hup' \subseteq Fd /\ epfd' \in BOOLEAN /\ (~forked' => epfd')
    BY <1>0, <1>1
  <1> QED  BY <1>1, <1>4, <1>5, <1>6, <1>7, BareStep

LEMMA BareNext == ASSUME EpollBare, E!Next PROVE EpollBare'
  <1>0. /\ interrupt \subseteq Thread /\ ready \subseteq Pair /\ open \subseteq Fd
        /\ forked \in BOOLEAN /\ hup \subseteq Fd /\ (~forked => epfd) /\ BaseInv
        /\ epfd \in BOOLEAN /\ epset \in [Fd -> SUBSET Watchable]
    <2>1. E!Es \in EpState /\ E!Es.k = epset /\ epfd \in BOOLEAN
      BY BareStart
    <2>2. epset \in [Fd -> SUBSET Watchable]
      BY <2>1 DEF EpState
    <2> QED  BY <2>1, <2>2 DEF EpollBare, BaseInv, BaseTypeOK
  <1>1. ASSUME NEW r \in Request, NEW timed \in BOOLEAN, E!Poll(r, timed) PROVE EpollBare'
    BY <1>1, BarePollStep
  <1>2. ASSUME NEW r \in Request, NEW full \in SUBSET Scarce, E!PollFails(r, full) PROVE EpollBare'
    BY <1>2, BarePollFailsStep
  <1>3. ASSUME E!PollInterrupted, UNCHANGED E!ep PROVE EpollBare'
    <2>1. /\ UNCHANGED <<running, runq, pc, ioq, pds, revents, armed, open, ready>>
          /\ UNCHANGED <<cnt, epset, evtlist_cnt, epfd, forked, hup, missed>>
          /\ interrupt' \subseteq Thread
      BY <1>0, <1>3 DEF E!PollInterrupted, E!ep, E!sched, E!os
    <2> QED  BY <1>0, <2>1, BareStillStep
  <1>4. ASSUME NEW v \in Thread, E!Interrupt(v), UNCHANGED E!ep PROVE EpollBare'
    <2>1. BaseInv' /\ UNCHANGED <<ioq, pds>>
      BY <1>0, <1>4, SameInterruptE, InterruptBase
    <2>2. UNCHANGED <<cnt, epset, evtlist_cnt, epfd, forked, hup, missed>>
      BY <1>4 DEF E!ep
    <2> DEFINE t == E!Es
    <2>3. t \in EpState /\ t.c = cnt /\ t.k = epset /\ t.n = evtlist_cnt
      BY BareStart
    <2> HIDE DEF t
    <2>4. Asks' /\ missed' \subseteq Thread
      BY <2>1, <2>2 DEF Asks, EpollBare
    <2> QED  BY <1>0, <2>1, <2>2, <2>3, <2>4, BareStep
  <1>5. ASSUME E!Return PROVE EpollBare'
    BY <1>5, BareReturnStep
  <1>6. ASSUME NEW full \in [E!ToSet(ioq) -> SUBSET Scarce], E!DispatchForked(full) PROVE EpollBare'
    BY <1>6, SameSequencesE, BareForkedStep
  <1>7. ASSUME E!ForkedFails PROVE EpollBare'
    <2>1. /\ UNCHANGED <<running, runq, pc, ioq, pds, revents, armed, interrupt, open, ready>>
          /\ UNCHANGED <<cnt, evtlist_cnt, forked, hup, missed>>
          /\ forked /\ epfd' = FALSE /\ epset' = [fd \in Fd |-> {}]
      BY <1>7 DEF E!ForkedFails, E!base, E!sched, E!os
    <2>2. epset' \in [Fd -> SUBSET Watchable]
      BY <2>1
    <2> QED  BY <1>0, <2>1, <2>2, BareStillStep
  <1>8. ASSUME NEW late \in E!Lines, E!Dispatch(late) PROVE EpollBare'
    BY <1>8, SameBaseE, BareDispatchStep
  <1>9. ASSUME NEW late \in E!Lines, E!ClockOnly(late) PROVE EpollBare'
    BY <1>9, SameBaseE, BareClockStep
  <1>10. ASSUME NEW fd \in Fd, E!NetfdClose(fd) PROVE EpollBare'
    <2>1. /\ UNCHANGED <<running, runq, pc, ioq, pds, revents, armed, interrupt>>
          /\ UNCHANGED <<cnt, evtlist_cnt, epfd, forked, missed>>
          /\ open' \subseteq Fd /\ ready' \subseteq Pair /\ hup' \subseteq Fd
          /\ epset' = [epset EXCEPT ![fd] = {}]
      BY <1>0, <1>10 DEF E!NetfdClose, E!CloseFd, E!sched
    <2>2. epset' \in [Fd -> SUBSET Watchable]
      BY <1>0, <2>1
    <2> QED  BY <1>0, <2>1, <2>2, BareStillStep
  <1>11. ASSUME NEW fd \in Fd, E!Reopen(fd) PROVE EpollBare'
    <2>1. /\ UNCHANGED <<running, runq, pc, ioq, pds, revents, armed, interrupt, ready>>
          /\ UNCHANGED <<cnt, epset, evtlist_cnt, epfd, forked, hup, missed>>
          /\ open' \subseteq Fd
      BY <1>0, <1>11 DEF E!Reopen, E!ep, E!sched
    <2> QED  BY <1>0, <2>1, BareStillStep
  <1>12. ASSUME NEW fd \in Fd, E!HangUp(fd) PROVE EpollBare'
    <2>1. /\ UNCHANGED <<running, runq, pc, ioq, pds, revents, armed, interrupt, open, ready>>
          /\ UNCHANGED <<cnt, epset, evtlist_cnt, epfd, forked, missed>>
          /\ hup' \subseteq Fd
      BY <1>0, <1>12 DEF E!HangUp, E!base, E!sched, E!os
    <2> QED  BY <1>0, <2>1, BareStillStep
  <1>13. ASSUME E!Environment, UNCHANGED E!ep PROVE EpollBare'
    <2>1. /\ UNCHANGED <<running, runq, pc, ioq, pds, revents, armed, interrupt, open>>
          /\ UNCHANGED <<cnt, epset, evtlist_cnt, epfd, forked, hup, missed>>
          /\ ready' \subseteq Pair
      BY <1>0, <1>13 DEF E!Environment, E!ep, E!sched, E!Event, Pair, Event
    <2> QED  BY <1>0, <2>1, BareStillStep
  <1>14. ASSUME E!Fork PROVE EpollBare'
    <2>1. /\ UNCHANGED <<running, runq, pc, ioq, pds, revents, armed, interrupt, open, ready>>
          /\ UNCHANGED <<cnt, epset, evtlist_cnt, epfd, hup, missed>>
          /\ forked' = TRUE
      BY <1>14 DEF E!Fork, E!base, E!sched, E!os
    <2> QED  BY <1>0, <2>1, BareStillStep
  <1> QED  BY <1>1, <1>2, <1>3, <1>4, <1>5, <1>6, <1>7, <1>8, <1>9, <1>10, <1>11, <1>12, <1>13, <1>14 DEF E!Next

LEMMA EpollInit == E!Init => EpollInv
  <1> SUFFICES ASSUME E!Init PROVE EpollInv
    OBVIOUS
  <1>1. /\ BaseInit /\ cnt = [p \in Pair |-> 0] /\ evtlist_cnt = 0
        /\ epset = [fd \in Fd |-> {}] /\ epfd = TRUE /\ forked = FALSE /\ hup = {} /\ missed = {}
    BY SameBaseE, SameEpoll DEF E!Init
  <1>2. BaseInv /\ ToSet(ioq) = {}
    BY <1>1, BaseInitial, EmptyElems DEF BaseInit
  <1>3. Asks
    BY <1>2 DEF Asks
  <1>4. E!Es = E!Fresh
    BY <1>1, SameEpoll DEF E!Es, E!Fresh
  <1>5. E!Fresh \in EpState /\ E!Fresh.f /\ Sound(E!Fresh)
    BY FreshSound
  <1>6. KernelInv(E!Fresh)
    <2> DEFINE s == E!Fresh
    <2> HIDE DEF s
    <2>1. s \in EpState /\ s.f /\ Sound(s)
      BY <1>5 DEF s
    <2>2. Held(s.c)
      BY <2>1 DEF Sound
    <2>3. (\A fd \in Fd : s.k[fd] = Masks(s.c, fd)) /\ Listed(s)
      BY <2>1, <2>2, SoundIs
    <2>4. s.n \in 0..Cardinality(Fd)
      BY <2>3, ListFits
    <2>5. KernelInv(s)
      BY <2>1, <2>3, <2>4 DEF KernelInv
    <2> QED  BY <2>5 DEF s
  <1>7. Held(cnt)
    BY <1>1 DEF Held
  <1>8. CountsRightE
    <2>1. \A p : NumOf({}, p) = 0
      BY FS_EmptySet DEF NumOf
    <2> QED  BY <1>1, <1>2, <2>1 DEF CountsRightE
  <1> QED  BY <1>1, <1>2, <1>3, <1>4, <1>5, <1>6, <1>7, <1>8 DEF EpollInv, EpollBare, EpollGood

\* While no request is missed every step keeps the invariant, and every turn is exact.
LEMMA EpollGoodStep ==
    ASSUME EpollBare, EpollGood, E!Next
    PROVE  (missed' = {} => EpollGood') /\ E!ExactTurn
  <1>0. /\ BaseInv /\ interrupt \subseteq Thread /\ ready \subseteq Pair /\ open \subseteq Fd
        /\ forked \in BOOLEAN /\ hup \subseteq Fd /\ (~forked => epfd)
        /\ \A q \in Pair : cnt[q] > 0 => q[1] \in open
    BY DEF EpollGood, BaseInv, BaseTypeOK, Held
  <1>1. ASSUME NEW r \in Request, NEW timed \in BOOLEAN, E!Poll(r, timed) PROVE EpollGood'
    BY <1>1, EpollPollStep
  <1>2. ASSUME NEW r \in Request, NEW full \in SUBSET Scarce, E!PollFails(r, full) PROVE EpollGood'
    <2>1. UNCHANGED <<E!base, E!ep>>
      BY <1>2, EpollPollFailsStep
    <2>2. /\ UNCHANGED <<running, runq, pc, ioq, pds, revents, armed, interrupt, open, ready>>
          /\ UNCHANGED <<cnt, epset, evtlist_cnt, epfd, forked, hup>>
      BY <2>1 DEF E!base, E!ep, E!sched, E!os
    <2> QED  BY <1>0, <2>2, EpollStillStep
  <1>3. ASSUME E!PollInterrupted, UNCHANGED E!ep PROVE EpollGood'
    <2>1. /\ UNCHANGED <<running, runq, pc, ioq, pds, revents, armed, open, ready>>
          /\ UNCHANGED <<cnt, epset, evtlist_cnt, epfd, forked, hup>>
          /\ interrupt' \subseteq Thread
      BY <1>0, <1>3 DEF E!PollInterrupted, E!ep, E!sched, E!os
    <2> QED  BY <1>0, <2>1, EpollStillStep
  <1>4. ASSUME NEW t \in Thread, E!Interrupt(t), UNCHANGED E!ep PROVE EpollGood'
    <2>1. BaseInv' /\ UNCHANGED <<ioq, pds, os>>
      BY <1>0, <1>4, SameInterruptE, InterruptBase
    <2>2. UNCHANGED <<cnt, epset, evtlist_cnt, epfd, forked, hup, ioq, pds, open>>
      BY <1>4, <2>1 DEF E!ep, os
    <2> QED  BY <1>0, <2>1, <2>2, EpollQuietStep
  <1>5. ASSUME E!Return PROVE EpollGood'
    BY <1>5, EpollReturnStep
  <1>6. ASSUME NEW full \in [E!ToSet(ioq) -> SUBSET Scarce], E!DispatchForked(full), missed' = {}
        PROVE  EpollGood'
    BY <1>6, SameSequencesE, EpollForkedStep
  <1>7. ASSUME E!ForkedFails PROVE EpollGood'
    BY <1>7, EpollForkedFailsStep
  <1>8. ASSUME NEW late \in E!Lines, E!Dispatch(late) PROVE EpollGood' /\ E!ExactTurn
    BY <1>8, SameBaseE, EpollDispatchStep
  <1>9. ASSUME NEW late \in E!Lines, E!ClockOnly(late) PROVE EpollGood'
    BY <1>9, SameBaseE, EpollClockStep
  <1>10. ASSUME NEW fd \in Fd, E!NetfdClose(fd) PROVE EpollGood'
    BY <1>10, EpollCloseStep
  <1>11. ASSUME NEW fd \in Fd, E!Reopen(fd) PROVE EpollGood'
    <2>1. /\ UNCHANGED <<running, runq, pc, ioq, pds, revents, armed, interrupt, ready>>
          /\ UNCHANGED <<cnt, epset, evtlist_cnt, epfd, forked, hup>>
          /\ open' = open \cup {fd}
      BY <1>11 DEF E!Reopen, E!ep, E!sched
    <2>2. open' \subseteq Fd /\ \A q \in Pair : cnt[q] > 0 => q[1] \in open'
      BY <1>0, <2>1
    <2> QED  BY <1>0, <2>1, <2>2, EpollStillStep
  <1>12. ASSUME NEW fd \in Fd, E!HangUp(fd) PROVE EpollGood'
    <2>1. /\ UNCHANGED <<running, runq, pc, ioq, pds, revents, armed, interrupt, open, ready>>
          /\ UNCHANGED <<cnt, epset, evtlist_cnt, epfd, forked>>
          /\ hup' \subseteq Fd
      BY <1>0, <1>12 DEF E!HangUp, E!base, E!sched, E!os
    <2> QED  BY <1>0, <2>1, EpollStillStep
  <1>13. ASSUME E!Environment, UNCHANGED E!ep PROVE EpollGood'
    <2>1. /\ UNCHANGED <<running, runq, pc, ioq, pds, revents, armed, interrupt, open>>
          /\ UNCHANGED <<cnt, epset, evtlist_cnt, epfd, forked, hup>>
          /\ ready' \subseteq Pair
      BY <1>0, <1>13 DEF E!Environment, E!ep, E!sched, E!Event, Pair, Event
    <2> QED  BY <1>0, <2>1, EpollStillStep
  <1>14. ASSUME E!Fork PROVE EpollGood'
    <2>1. /\ UNCHANGED <<running, runq, pc, ioq, pds, revents, armed, interrupt, open, ready>>
          /\ UNCHANGED <<cnt, epset, evtlist_cnt, epfd, hup>>
          /\ forked' = TRUE
      BY <1>14 DEF E!Fork, E!base, E!sched, E!os
    <2> QED  BY <1>0, <2>1, EpollStillStep
  <1>15. missed' = {} => EpollGood'
    BY <1>1, <1>2, <1>3, <1>4, <1>5, <1>6, <1>7, <1>8, <1>9, <1>10, <1>11, <1>12, <1>13, <1>14 DEF E!Next
  <1>16. E!ExactTurn
    <2>1. CASE \E late \in E!Lines : E!Dispatch(late)
      BY <1>8, <2>1
    <2>2. CASE ~(\E late \in E!Lines : E!Dispatch(late))
      BY <2>2 DEF E!ExactTurn
    <2> QED  BY <2>1, <2>2
  <1> QED  BY <1>15, <1>16

\* Only a new epoll set changes what is missed.
LEMMA MissedStays ==
    ASSUME E!Next
    PROVE  \/ missed' = missed
           \/ \E full \in [ToSet(ioq) -> SUBSET Scarce] : E!DispatchForked(full)
  <1>1. CASE \E full \in [E!ToSet(ioq) -> SUBSET Scarce] : E!DispatchForked(full)
    BY <1>1, SameSequencesE
  <1>2. CASE ~\E full \in [E!ToSet(ioq) -> SUBSET Scarce] : E!DispatchForked(full)
    BY <1>2 DEF E!Next, E!Poll, E!PollFails, E!Return, E!ForkedFails, E!Dispatch, E!ClockOnly,
                E!NetfdClose, E!Reopen, E!Fork, E!HangUp, E!ep
  <1> QED  BY <1>1, <1>2

\* Every step keeps the invariant, and every turn is exact.
LEMMA EpollInvStep == ASSUME EpollInv, E!Next PROVE EpollInv' /\ E!ExactTurn
  <1>1. EpollBare'
    BY BareNext DEF EpollInv
  <1>2. CASE missed = {}
    BY <1>1, <1>2, EpollGoodStep DEF EpollInv
  <1>3. CASE missed # {}
    <2>1. missed' = {} => EpollGood'
      BY <1>3, MissedStays, EpollForkedStep DEF EpollInv
    <2> QED  BY <1>1, <1>3, <2>1 DEF EpollInv, E!ExactTurn
  <1> QED  BY <1>2, <1>3

-----------------------------------------------------------------------------
(* Whichever event system st_set_eventsys took.                              *)

AnyInv ==
    /\ eventsys = "select" => IInv
    /\ eventsys = "poll" => PollInv
    /\ eventsys = "epoll" => EpollInv

LEMMA AnyInit == Init /\ P!Init /\ E!Init => AnyInv
  BY InvInit, PollInvInit, EpollInit DEF AnyInv

LEMMA AnyStep == AnyInv /\ [Selects \/ Polls \/ Epolls]_all => AnyInv'
  <1> SUFFICES ASSUME AnyInv, [Selects \/ Polls \/ Epolls]_all PROVE AnyInv'
    OBVIOUS
  <1>1. ASSUME Selects PROVE AnyInv'
    BY <1>1, InvStep DEF Selects, AnyInv
  <1>2. ASSUME Polls PROVE AnyInv'
    BY <1>2, PollInvStep DEF Polls, AnyInv
  <1>3. ASSUME Epolls PROVE AnyInv'
    BY <1>3, EpollInvStep DEF Epolls, AnyInv
  <1>4. ASSUME UNCHANGED all PROVE AnyInv'
    <2>1. UNCHANGED vars /\ UNCHANGED <<eventsys, fdcnt, size, evars>>
      BY <1>4 DEF all
    <2>2. IInv => IInv'
      BY <2>1, InvStep
    <2>3. PollInv => PollInv'
      <3>1. BaseInv => BaseInv'
        <4>1. UNCHANGED <<running, runq, pc, ioq, pds, revents, armed, interrupt, open, ready>>
          BY <2>1 DEF vars, base, sched, os
        <4>2. Waiting' = Waiting
          BY <4>1 DEF Waiting
        <4> QED  BY <4>1, <4>2 DEF BaseInv, BaseTypeOK, InOnePlace, Polling
      <3> QED  BY <2>1, <3>1, PollSysQuietStep DEF vars, base, PollInv
    <2>4. ASSUME EpollInv PROVE EpollInv'
      <3>1. /\ UNCHANGED <<running, runq, pc, ioq, pds, revents, armed, interrupt, open, ready>>
            /\ UNCHANGED <<cnt, epset, evtlist_cnt, epfd, forked, hup, missed>>
        BY <2>1 DEF vars, base, sched, os, sel, evars
      <3>2. /\ interrupt \subseteq Thread /\ ready \subseteq Pair /\ open \subseteq Fd
            /\ forked \in BOOLEAN /\ hup \subseteq Fd /\ (~forked => epfd)
            /\ epfd \in BOOLEAN /\ epset \in [Fd -> SUBSET Watchable]
        <4>1. E!Es \in EpState /\ E!Es.k = epset /\ epfd \in BOOLEAN
          BY <2>4, BareStart DEF EpollInv
        <4>2. epset \in [Fd -> SUBSET Watchable]
          BY <4>1 DEF EpState
        <4> QED  BY <2>4, <4>1, <4>2 DEF EpollInv, EpollBare, BaseInv, BaseTypeOK
      <3>3. EpollBare'
        BY <2>4, <3>1, <3>2, BareStillStep DEF EpollInv
      <3>4. ASSUME missed = {} PROVE EpollGood'
        <4>1. EpollGood /\ \A q \in Pair : cnt[q] > 0 => q[1] \in open
          BY <2>4, <3>4 DEF EpollInv, EpollGood, Held
        <4> QED  BY <3>1, <3>2, <4>1, EpollStillStep
      <3> QED  BY <3>1, <3>3, <3>4 DEF EpollInv
    <2> QED  BY <2>1, <2>2, <2>3, <2>4 DEF AnyInv
  <1> QED  BY <1>1, <1>2, <1>3, <1>4

\* On select, for every number of threads and descriptors and every request, the
\* counts, the bits and the highest descriptor of _st_select_pollset_add and
\* _st_select_pollset_del are those of the requests on the I/O queue, every thread
\* is in one place, and nobody waits on what st_netfd_close closed.
THEOREM SelectIsRight == AnySystem => []SelectsRight
  <1>1. AnyInv => SelectsRight
    BY DEF AnyInv, IInv, BaseInv, SelTypeOK, SelectsRight, SelectRight, TypeOK
  <1> QED  BY <1>1, AnyInit, AnyStep, PTL DEF AnySystem, SetEventsys

\* On poll, _ST_POLL_OSFD_CNT is the length of the array that _st_poll_dispatch
\* fills from the I/O queue, and the array has room for it.
THEOREM PollIsRight == AnySystem => []PollsRight
  <1>1. AnyInv => PollsRight
    <2> SUFFICES ASSUME AnyInv, eventsys = "poll" PROVE P!PollRight
      BY DEF PollsRight
    <2>1. PollInv /\ BaseInv /\ BaseTypeOK /\ InOnePlace /\ fdcnt \in Nat /\ size \in Nat
      BY DEF AnyInv, PollInv, BaseInv
    <2>2. Len(P!Gathered) = fdcnt
      BY <2>1, GatheredIs DEF PollInv
    <2>3. fdcnt <= P!Grown
      BY <2>1, GrownIs
    <2> QED  BY <2>1, <2>2, <2>3, SameBase
             DEF P!PollRight, P!TypeOK, P!CountRight, P!ArrayLargeEnough
  <1> QED  BY <1>1, AnyInit, AnyStep, PTL DEF AnySystem, SetEventsys

\* A turn of _st_select_dispatch or _st_poll_dispatch wakes exactly the threads that
\* asked for something that is there, and tells each what is there of its request.
THEOREM TurnsAreExact == AnySystem => TurnsExact
  <1>1. AnyInv /\ [Selects \/ Polls \/ Epolls]_all
          => [/\ eventsys = "select" => ExactTurn
              /\ eventsys = "poll" => P!ExactTurn]_all
    <2> SUFFICES ASSUME AnyInv, Selects \/ Polls \/ Epolls
                 PROVE  /\ eventsys = "select" => ExactTurn
                        /\ eventsys = "poll" => P!ExactTurn
      OBVIOUS
    <2>1. ASSUME eventsys = "select" PROVE ExactTurn
      <3>1. IInv
        BY <2>1 DEF AnyInv
      <3>2. ASSUME NEW late \in Lines, Dispatch(late) PROVE ExactTurn
        BY <3>1, <3>2, DispatchStep
      <3> QED  BY <3>2 DEF ExactTurn
    <2>2. ASSUME eventsys = "poll" PROVE P!ExactTurn
      <3>1. PollInv /\ P!Next
        BY <2>2 DEF AnyInv, Selects, Polls, Epolls
      <3> QED  BY <3>1, PollInvStep
    <2> QED  BY <2>1, <2>2
  <1> QED  BY <1>1, AnyInit, AnyStep, PTL DEF AnySystem, SetEventsys, TurnsExact

\* On epoll, whatever fails, fires, hangs up, is closed or forks: the counts of
\* fd_data are those of the requests on the I/O queue, the kernel watches exactly
\* what is counted while there is an epoll set, and _st_epoll_data->evtlist_cnt is
\* the number of descriptors that epoll_wait can report; all that while the kernel
\* has had room for every request that dispatch registered again after a fork.
THEOREM EpollIsRight == AnySystem => []EpollsRight
  <1>1. AnyInv => EpollsRight
    <2> SUFFICES ASSUME AnyInv, eventsys = "epoll" PROVE E!EpollRight
      BY DEF EpollsRight
    <2>1. /\ EpollBare /\ BaseTypeOK /\ InOnePlace
          /\ forked \in BOOLEAN /\ hup \subseteq Fd /\ missed \subseteq Thread
      BY DEF AnyInv, EpollInv, EpollBare, BaseInv
    <2>2. /\ E!Es \in EpState
          /\ E!Es.c = cnt /\ E!Es.k = epset /\ E!Es.n = evtlist_cnt /\ E!Es.f = epfd
      BY <2>1, BareStart
    <2>3. /\ cnt \in [Pair -> Int] /\ epset \in [Fd -> SUBSET Watchable]
          /\ evtlist_cnt \in Int /\ epfd \in BOOLEAN
      BY <2>2 DEF EpState
    <2>4. E!TypeOK
      BY <2>1, <2>3, SameBaseE, SameEpoll DEF E!TypeOK, Watchable
    <2>5. ASSUME missed = {} PROVE E!KernelMatches /\ E!ListLargeEnough
      <3>1. EpollGood /\ \A p \in Pair : cnt[p] = NumOf(ToSet(ioq), p)
        BY <2>5 DEF AnyInv, EpollInv, EpollGood, CountsRightE
      <3>2. epfd => /\ \A fd \in Fd : epset[fd] = Masks(cnt, fd)
                    /\ evtlist_cnt = Cardinality({fd \in Fd : epset[fd] # {}})
        BY <2>2, <3>1 DEF EpollGood, KernelInv, Listed
      <3>3. E!KernelMatches
        BY <3>1, <3>2, SameEpoll, SameSequencesE, SameRequestsE DEF E!KernelMatches, Masks
      <3>4. E!ListLargeEnough
        BY <3>2, SameSize DEF E!ListLargeEnough
      <3> QED  BY <3>3, <3>4
    <2> QED  BY <2>1, <2>4, <2>5, SameBaseE DEF E!EpollRight
  <1> QED  BY <1>1, AnyInit, AnyStep, PTL DEF AnySystem, SetEventsys

\* A turn of _st_epoll_dispatch wakes exactly the threads one of whose descriptors
\* is ready for what they asked or has hung up, and tells each exactly that, while
\* no request was refused when dispatch registered them again after a fork.
THEOREM EpollTurnsAreExact == AnySystem => EpollTurnsExact
  <1>1. AnyInv /\ [Selects \/ Polls \/ Epolls]_all
          => [eventsys = "epoll" => E!ExactTurn]_all
    <2> SUFFICES ASSUME AnyInv, Selects \/ Polls \/ Epolls, eventsys = "epoll"
                 PROVE  E!ExactTurn
      OBVIOUS
    <2>1. EpollInv /\ E!Next
      BY DEF AnyInv, Selects, Polls, Epolls
    <2> QED  BY <2>1, EpollInvStep
  <1> QED  BY <1>1, AnyInit, AnyStep, PTL DEF AnySystem, SetEventsys, EpollTurnsExact
===============================================================================
