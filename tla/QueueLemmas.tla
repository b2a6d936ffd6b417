----------------------------- MODULE QueueLemmas -----------------------------
(***************************************************************************)
(* Facts about queues that the proofs share: sequences of threads, each at *)
(* most once, that are appended to, taken from, joined and unlinked from.  *)
(***************************************************************************)
EXTENDS Naturals, Sequences, FiniteSets, SequencesExt,
        SequenceTheorems, FiniteSetTheorems, WellFoundedInduction, TLAPS

\* A set of natural numbers that is not empty has a smallest member.
LEMMA SmallestMember ==
    ASSUME NEW T, T \subseteq Nat, T # {}
    PROVE  \E m \in T : \A k \in T : m <= k
  <1>1. PICK x \in T : \A y \in T : ~(<<y, x>> \in OpToRel(<, Nat))
    BY NatLessThanWellFounded, WFMin, Zenon
  <1>2. ASSUME NEW y \in T PROVE x <= y
    <2>1. ~(<<y, x>> \in OpToRel(<, Nat))
      BY <1>1
    <2>2. ~(y < x)
      BY <2>1, Zenon DEF OpToRel
    <2> QED  BY <2>2
  <1> QED  BY <1>2

\* Induction on the numbers up to n.
LEMMA Upwards ==
    ASSUME NEW n \in Nat, NEW G, 0 \in G, \A k \in 1..n : k - 1 \in G => k \in G
    PROVE  0..n \subseteq G
  <1> DEFINE T == (0..n) \ G
  <1> SUFFICES ASSUME T # {} PROVE FALSE
    OBVIOUS
  <1>1. T \subseteq Nat
    OBVIOUS
  <1>2. PICK k \in T : \A j \in T : k <= j
    BY <1>1, SmallestMember
  <1>3. k \in 1..n /\ k - 1 \in 0..n /\ ~(k <= k - 1)
    BY <1>2
  <1>4. k - 1 \in G
    BY <1>2, <1>3
  <1> QED  BY <1>2, <1>3, <1>4

\* A finite set of integers that is not empty has a largest member.
LEMMA LargestMember ==
    ASSUME NEW S, IsFiniteSet(S), S \subseteq Int, S # {}
    PROVE  \E m \in S : \A x \in S : x <= m
  <1> DEFINE Bad(n) == \E U \in SUBSET Int : /\ IsFiniteSet(U) /\ U # {} /\ Cardinality(U) = n
                                            /\ \A m \in U : \E x \in U : ~(x <= m)
             T == {n \in Nat : Bad(n)}
  <1> SUFFICES ASSUME \A m \in S : \E x \in S : ~(x <= m) PROVE FALSE
    OBVIOUS
  <1>1. Cardinality(S) \in T
    BY FS_CardinalityType
  <1>2. PICK n \in T : \A k \in T : n <= k
    BY <1>1, SmallestMember
  <1>3. PICK U \in SUBSET Int : /\ IsFiniteSet(U) /\ U # {} /\ Cardinality(U) = n
                                /\ \A m \in U : \E x \in U : ~(x <= m)
    BY <1>2
  <1>4. PICK y \in U : TRUE
    BY <1>3
  <1> DEFINE V == U \ {y}
  <1>5. IsFiniteSet(V) /\ Cardinality(V) = n - 1 /\ n \in Nat /\ n - 1 \in Nat
    <2>1. IsFiniteSet(V) /\ Cardinality(V) = n - 1 /\ Cardinality(V) \in Nat
      BY <1>3, <1>4, FS_RemoveElement, FS_CardinalityType
    <2> QED  BY <2>1, <1>2
  <1>6. CASE V = {}
    <2>1. U = {y} /\ y \in Int
      BY <1>4, <1>6
    <2> QED  BY <2>1, <1>3
  <1>7. CASE V # {}
    <2>1. n - 1 \notin T
      BY <1>2, <1>5
    <2>2. PICK z \in V : \A x \in V : x <= z
      <3>1. ~Bad(n - 1)
        BY <2>1, <1>5
      <3> QED  BY <3>1, <1>5, <1>7
    <2>3. CASE y <= z
      BY <2>2, <2>3, <1>3, <1>4
    <2>4. CASE ~(y <= z)
      <3>1. \A x \in U : x <= y
        BY <2>2, <2>4, <1>3, <1>4
      <3> QED  BY <3>1, <1>3, <1>4
    <2> QED  BY <2>3, <2>4
  <1> QED  BY <1>6, <1>7

\* The members of a finite set of positions can be counted through in their order.
LEMMA Ranks ==
    ASSUME NEW n \in Nat, NEW D, D \subseteq 1..n
    PROVE  /\ IsFiniteSet(D) /\ Cardinality(D) \in Nat
           /\ \A k \in 1..Cardinality(D) : \E i \in D : Cardinality({j \in D : j <= i}) = k
           /\ \A i \in D : Cardinality({j \in D : j <= i}) \in 1..Cardinality(D)
           /\ \A i \in D, l \in D :
                i < l => Cardinality({j \in D : j <= i}) < Cardinality({j \in D : j <= l})
  <1> DEFINE upto(i) == {j \in D : j <= i}
             rank == [i \in D |-> Cardinality(upto(i))]
             N == Cardinality(D)
  <1>0. \A i \in D : i \in Int
    OBVIOUS
  <1>1. IsFiniteSet(D) /\ N \in Nat
    <2>1. IsFiniteSet(1..n)
      BY FS_Interval
    <2>2. IsFiniteSet(D)
      BY <2>1, FS_Subset
    <2> QED  BY <2>2, FS_CardinalityType
  <1>2. ASSUME NEW i \in D PROVE IsFiniteSet(upto(i)) /\ Cardinality(upto(i)) \in 1..N
    <2>1. IsFiniteSet(upto(i)) /\ Cardinality(upto(i)) <= N /\ Cardinality(upto(i)) \in Nat
      BY <1>1, FS_Subset, FS_CardinalityType
    <2>2. i \in upto(i)
      OBVIOUS
    <2>3. Cardinality(upto(i)) # 0
      BY <2>1, <2>2, FS_EmptySet
    <2> QED  BY <2>1, <2>3, <1>1
  <1>3. ASSUME NEW i \in D, NEW l \in D, i < l
        PROVE  Cardinality(upto(i)) < Cardinality(upto(l))
    <2>1. upto(i) \subseteq upto(l) /\ l \in upto(l) /\ l \notin upto(i)
      <3>1. i \in Int /\ l \in Int /\ i < l
        BY <1>0, <1>3
      <3>2. \A j \in D : j <= i => j <= l
        BY <1>0, <3>1
      <3>3. l <= l /\ ~(l <= i)
        BY <3>1
      <3> QED  BY <3>2, <3>3
    <2>2. Cardinality(upto(i)) <= Cardinality(upto(l)) /\ Cardinality(upto(i)) # Cardinality(upto(l))
      BY <2>1, <1>2, FS_Subset
    <2> HIDE DEF upto
    <2> QED  BY <2>2, <1>2
  <1>4. rank \in Injection(D, 1..N)
    <2>0. \A i \in D : rank[i] = Cardinality(upto(i))
      OBVIOUS
    <2>1. rank \in [D -> 1..N]
      BY <1>2
    <2>2. ASSUME NEW i \in D, NEW l \in D, rank[i] = rank[l] PROVE i = l
      <3> HIDE DEF upto, rank
      <3>1. ~(i < l) /\ ~(l < i)
        BY <2>0, <2>2, <1>3, <1>2, <1>1
      <3> QED  BY <3>1
    <2> HIDE DEF rank
    <2> QED  BY <2>1, <2>2 DEF Injection, IsInjective
  <1>5. IsFiniteSet(1..N) /\ Cardinality(1..N) = N
    BY <1>1, FS_Interval
  <1>6. rank \in Surjection(D, 1..N)
    <2> HIDE DEF rank
    <2> QED  BY <1>4, <1>5, FS_Injection
  <1>7. \A k \in 1..N : \E i \in D : rank[i] = k
    BY <1>6 DEF Surjection
  <1> QED  BY <1>1, <1>2, <1>3, <1>7

\* Appending to a queue adds one member.
LEMMA AppendElems ==
    ASSUME NEW T, NEW s \in Seq(T), NEW e \in T
    PROVE  /\ Append(s, e) \in Seq(T)
           /\ ToSet(Append(s, e)) = ToSet(s) \cup {e}
           /\ Append(s, e) # <<>>
           /\ s # <<>> => Head(Append(s, e)) = Head(s)
           /\ e \notin ToSet(s) /\ IsInjective(s) => IsInjective(Append(s, e))
  <1>1. ToSet(Append(s, e)) = ToSet(s) \cup {e}
    <2>1. DOMAIN Append(s, e) = 1..(Len(s) + 1) /\ DOMAIN s = 1..Len(s)
      OBVIOUS
    <2>2. \A i \in 1..Len(s) : Append(s, e)[i] = s[i]
      OBVIOUS
    <2>3. Append(s, e)[Len(s) + 1] = e
      OBVIOUS
    <2> QED  BY <2>1, <2>2, <2>3 DEF ToSet
  <1>2. e \notin ToSet(s) /\ IsInjective(s) => IsInjective(Append(s, e))
    BY DEF ToSet, IsInjective
  <1>3. Append(s, e) \in Seq(T) /\ Append(s, e) # <<>>
    <2>1. Append(s, e) \in Seq(T) /\ Len(Append(s, e)) = Len(s) + 1 /\ Len(s) \in Nat
      OBVIOUS
    <2>2. Len(Append(s, e)) # 0
      BY <2>1
    <2> QED  BY <2>1, <2>2
  <1>4. s # <<>> => Head(Append(s, e)) = Head(s)
    OBVIOUS
  <1> QED  BY <1>1, <1>2, <1>3, <1>4

\* Taking the head of a queue without repetitions removes that member.
LEMMA TailElems ==
    ASSUME NEW T, NEW s \in Seq(T), s # <<>>
    PROVE  /\ Head(s) \in T /\ Tail(s) \in Seq(T)
           /\ Head(s) \in ToSet(s)
           /\ ToSet(s) = ToSet(Tail(s)) \cup {Head(s)}
           /\ IsInjective(s) => IsInjective(Tail(s)) /\ Head(s) \notin ToSet(Tail(s))
  <1>1. /\ DOMAIN s = 1..Len(s) /\ Len(s) \in Nat \ {0} /\ DOMAIN Tail(s) = 1..(Len(s) - 1)
        /\ Head(s) = s[1] /\ \A i \in 1..(Len(s) - 1) : Tail(s)[i] = s[i + 1]
        /\ Head(s) \in T /\ Tail(s) \in Seq(T)
    OBVIOUS
  <1>2. ToSet(s) = ToSet(Tail(s)) \cup {Head(s)}
    <2>1. \A i \in 1..Len(s) : i = 1 \/ (i - 1 \in 1..(Len(s) - 1) /\ Tail(s)[i - 1] = s[i])
      BY <1>1
    <2>2. ASSUME NEW x \in ToSet(s) PROVE x \in ToSet(Tail(s)) \cup {Head(s)}
      <3>1. PICK i \in 1..Len(s) : x = s[i]
        BY <1>1 DEF ToSet
      <3> QED  BY <1>1, <2>1, <3>1 DEF ToSet
    <2>3. ASSUME NEW x \in ToSet(Tail(s)) PROVE x \in ToSet(s)
      <3>1. PICK i \in 1..(Len(s) - 1) : x = Tail(s)[i]
        BY <1>1 DEF ToSet
      <3>2. i + 1 \in DOMAIN s /\ x = s[i + 1]
        BY <1>1, <3>1
      <3> QED  BY <3>2 DEF ToSet
    <2>4. Head(s) \in ToSet(s)
      BY <1>1 DEF ToSet
    <2> QED  BY <2>2, <2>3, <2>4
  <1>3. IsInjective(s) => IsInjective(Tail(s)) /\ Head(s) \notin ToSet(Tail(s))
    BY <1>1 DEF IsInjective, ToSet
  <1> QED  BY <1>1, <1>2, <1>3

\* Concatenating queues joins their members.
LEMMA ConcatElems ==
    ASSUME NEW T, NEW s \in Seq(T), NEW t \in Seq(T)
    PROVE  /\ s \o t \in Seq(T)
           /\ ToSet(s \o t) = ToSet(s) \cup ToSet(t)
           /\ IsInjective(s) /\ IsInjective(t) /\ ToSet(s) \cap ToSet(t) = {} => IsInjective(s \o t)
  <1>1. /\ s \o t \in Seq(T)
        /\ DOMAIN s = 1..Len(s) /\ DOMAIN t = 1..Len(t) /\ DOMAIN (s \o t) = 1..(Len(s) + Len(t))
        /\ Len(s) \in Nat /\ Len(t) \in Nat
        /\ \A i \in 1..Len(s) : (s \o t)[i] = s[i]
        /\ \A i \in 1..(Len(s) + Len(t)) : i > Len(s) => (s \o t)[i] = t[i - Len(s)]
    OBVIOUS
  <1>2. \A i \in 1..Len(t) : (s \o t)[i + Len(s)] = t[i]
    BY <1>1
  <1>3. ToSet(s \o t) = ToSet(s) \cup ToSet(t)
    <2>1. ASSUME NEW x \in ToSet(s \o t) PROVE x \in ToSet(s) \cup ToSet(t)
      BY <1>1 DEF ToSet
    <2>2. ASSUME NEW x \in ToSet(s) PROVE x \in ToSet(s \o t)
      BY <1>1 DEF ToSet
    <2>3. ASSUME NEW x \in ToSet(t) PROVE x \in ToSet(s \o t)
      <3>1. PICK i \in 1..Len(t) : x = t[i]
        BY <1>1 DEF ToSet
      <3>2. i + Len(s) \in DOMAIN (s \o t) /\ (s \o t)[i + Len(s)] = x
        BY <1>1, <1>2, <3>1
      <3> QED  BY <3>2 DEF ToSet
    <2> QED  BY <2>1, <2>2, <2>3
  <1>4. ASSUME IsInjective(s), IsInjective(t), ToSet(s) \cap ToSet(t) = {}
        PROVE  IsInjective(s \o t)
    <2> SUFFICES ASSUME NEW i \in 1..(Len(s) + Len(t)), NEW j \in 1..(Len(s) + Len(t)),
                        (s \o t)[i] = (s \o t)[j]
                 PROVE  i = j
      BY <1>1 DEF IsInjective
    <2>1. CASE i <= Len(s) /\ j <= Len(s)
      BY <1>1, <1>4, <2>1 DEF IsInjective
    <2>2. CASE i > Len(s) /\ j > Len(s)
      <3>1. i - Len(s) \in 1..Len(t) /\ j - Len(s) \in 1..Len(t) /\ t[i - Len(s)] = t[j - Len(s)]
        BY <1>1, <2>2
      <3>2. i - Len(s) = j - Len(s)
        BY <1>1, <1>4, <3>1 DEF IsInjective
      <3> QED  BY <3>2, <1>1
    <2>3. CASE i <= Len(s) /\ j > Len(s)
      <3>1. s[i] \in ToSet(s) /\ t[j - Len(s)] \in ToSet(t) /\ s[i] = t[j - Len(s)]
        BY <1>1, <2>3 DEF ToSet
      <3> QED  BY <3>1, <1>4
    <2>4. CASE i > Len(s) /\ j <= Len(s)
      <3>1. s[j] \in ToSet(s) /\ t[i - Len(s)] \in ToSet(t) /\ s[j] = t[i - Len(s)]
        BY <1>1, <2>4 DEF ToSet
      <3> QED  BY <3>1, <1>4
    <2> QED  BY <2>1, <2>2, <2>3, <2>4, <1>1
  <1> QED  BY <1>1, <1>3, <1>4

\* The members of a queue after one is taken out, by position.
LEMMA RemoveAtIndices ==
    ASSUME NEW T, NEW s \in Seq(T), NEW i \in DOMAIN s
    PROVE  /\ RemoveAt(s, i) \in Seq(T) /\ Len(s) \in Nat \ {0} /\ i \in 1..Len(s)
           /\ DOMAIN RemoveAt(s, i) = 1..(Len(s) - 1)
           /\ \A k \in 1..(Len(s) - 1) : RemoveAt(s, i)[k] = IF k < i THEN s[k] ELSE s[k + 1]
  <1>1. Len(s) \in Nat \ {0} /\ i \in 1..Len(s)
    OBVIOUS
  <1> DEFINE a == SubSeq(s, 1, i - 1)
             b == SubSeq(s, i + 1, Len(s))
  <1>2. a \in Seq(T) /\ Len(a) = i - 1 /\ \A k \in 1..(i - 1) : a[k] = s[k]
    BY <1>1, SubSeqProperties
  <1>3. b \in Seq(T) /\ Len(b) = Len(s) - i /\ \A k \in 1..(Len(s) - i) : b[k] = s[i + k]
    BY <1>1, SubSeqProperties
  <1> HIDE DEF a, b
  <1>4. /\ a \o b \in Seq(T) /\ Len(a \o b) = Len(s) - 1
        /\ DOMAIN (a \o b) = 1..(Len(s) - 1)
    BY <1>1, <1>2, <1>3
  <1>5. ASSUME NEW k \in 1..(Len(s) - 1)
        PROVE  (a \o b)[k] = IF k < i THEN s[k] ELSE s[k + 1]
    <2>1. CASE k < i
      BY <1>1, <1>2, <1>3, <2>1
    <2>2. CASE ~(k < i)
      <3>1. (a \o b)[k] = b[k - (i - 1)]
        BY <1>1, <1>2, <1>3, <2>2
      <3>2. k - (i - 1) \in 1..(Len(s) - i) /\ i + (k - (i - 1)) = k + 1
        BY <1>1, <2>2
      <3> QED  BY <1>3, <2>2, <3>1, <3>2
    <2> QED  BY <2>1, <2>2
  <1> QED  BY <1>1, <1>4, <1>5 DEF RemoveAt, a, b

\* Taking a member out of a queue without repetitions removes that member only.
LEMMA RemoveAtElems ==
    ASSUME NEW T, NEW s \in Seq(T), IsInjective(s), NEW i \in DOMAIN s
    PROVE  /\ RemoveAt(s, i) \in Seq(T) /\ IsInjective(RemoveAt(s, i))
           /\ ToSet(RemoveAt(s, i)) = ToSet(s) \ {s[i]}
  <1> DEFINE r == RemoveAt(s, i)
  <1>1. /\ r \in Seq(T) /\ Len(s) \in Nat \ {0} /\ i \in 1..Len(s) /\ DOMAIN s = 1..Len(s)
        /\ DOMAIN r = 1..(Len(s) - 1)
        /\ \A k \in 1..(Len(s) - 1) : r[k] = IF k < i THEN s[k] ELSE s[k + 1]
    BY RemoveAtIndices
  <1> HIDE DEF r
  <1>2. ASSUME NEW k \in DOMAIN r
        PROVE  \E j \in DOMAIN s : j # i /\ r[k] = s[j] /\ j = IF k < i THEN k ELSE k + 1
    BY <1>1
  <1>3. ASSUME NEW j \in DOMAIN s, j # i
        PROVE  \E k \in DOMAIN r : r[k] = s[j]
    <2>1. CASE j < i
      BY <1>1, <2>1
    <2>2. CASE ~(j < i)
      <3>1. j - 1 \in DOMAIN r /\ ~(j - 1 < i) /\ j - 1 + 1 = j
        BY <1>1, <1>3, <2>2
      <3> QED  BY <1>1, <3>1
    <2> QED  BY <2>1, <2>2
  <1>4. ToSet(r) = ToSet(s) \ {s[i]}
    <2>1. ASSUME NEW x \in ToSet(r) PROVE x \in ToSet(s) \ {s[i]}
      <3>1. PICK k \in DOMAIN r : x = r[k]
        BY DEF ToSet
      <3>2. PICK j \in DOMAIN s : j # i /\ x = s[j]
        BY <1>2, <3>1
      <3> QED  BY <3>2 DEF ToSet, IsInjective
    <2>2. ASSUME NEW x \in ToSet(s) \ {s[i]} PROVE x \in ToSet(r)
      BY <1>3 DEF ToSet
    <2> QED  BY <2>1, <2>2
  <1>5. IsInjective(r)
    <2> SUFFICES ASSUME NEW k \in DOMAIN r, NEW l \in DOMAIN r, r[k] = r[l] PROVE k = l
      BY DEF IsInjective
    <2>1. PICK j \in DOMAIN s : r[k] = s[j] /\ j = IF k < i THEN k ELSE k + 1
      BY <1>2
    <2>2. PICK m \in DOMAIN s : r[l] = s[m] /\ m = IF l < i THEN l ELSE l + 1
      BY <1>2
    <2>3. j = m
      BY <2>1, <2>2 DEF IsInjective
    <2> QED  BY <1>1, <2>1, <2>2, <2>3
  <1> QED  BY <1>1, <1>4, <1>5 DEF r

\* The empty queue.
LEMMA EmptyElems == ToSet(<<>>) = {} /\ IsInjective(<<>>)
  BY DEF ToSet, IsInjective

\* A step repeated n times: the states it goes through exist.
Iterates(n, S, b, step) ==
    \E f \in [0..n -> S] : f[0] = b /\ \A i \in 1..n : f[i] = step[i][f[i - 1]]

LEMMA Iterated ==
    ASSUME NEW n \in Nat, NEW S, NEW b \in S, NEW step \in [1..n -> [S -> S]]
    PROVE  Iterates(n, S, b, step)
  <1> DEFINE Good(k) == \E f \in [0..k -> S] : f[0] = b /\ \A i \in 1..k : f[i] = step[i][f[i - 1]]
             G == {k \in Nat : Good(k)}
  <1>1. Good(0)
    <2> DEFINE f == [i \in 0..0 |-> b]
    <2>1. f \in [0..0 -> S] /\ f[0] = b
      OBVIOUS
    <2> HIDE DEF f
    <2>2. \A i \in 1..0 : f[i] = step[i][f[i - 1]]
      OBVIOUS
    <2> QED  BY <2>1, <2>2
  <1>2. ASSUME NEW k \in 1..n, Good(k - 1) PROVE Good(k)
    <2>1. PICK g \in [0..k - 1 -> S] : g[0] = b /\ \A i \in 1..k - 1 : g[i] = step[i][g[i - 1]]
      BY <1>2
    <2> DEFINE e == step[k][g[k - 1]]
               f == [i \in 0..k |-> IF i = k THEN e ELSE g[i]]
    <2>2. e \in S
      <3>1. k - 1 \in 0..k - 1
        OBVIOUS
      <3> QED  BY <2>1, <3>1
    <2>3. f \in [0..k -> S] /\ f[0] = b /\ f[k] = e /\ \A i \in 0..k - 1 : f[i] = g[i]
      <3> HIDE DEF e
      <3> QED  BY <2>1, <2>2
    <2> HIDE DEF f
    <2>4. ASSUME NEW i \in 1..k PROVE f[i] = step[i][f[i - 1]]
      <3>1. i - 1 \in 0..k - 1 /\ f[i - 1] = g[i - 1]
        BY <2>3
      <3>2. CASE i = k
        BY <2>3, <3>1, <3>2
      <3>3. CASE i # k
        <4>1. i \in 1..k - 1 /\ i \in 0..k - 1
          BY <3>3
        <4> QED  BY <2>1, <2>3, <3>1, <4>1
      <3> QED  BY <3>2, <3>3
    <2> QED  BY <2>3, <2>4
  <1> HIDE DEF Good
  <1>3. \A k \in 1..n : k - 1 \in G => k \in G
    BY <1>2
  <1>4. 0..n \subseteq G
    <2>1. 0 \in G
      BY <1>1
    <2> HIDE DEF G
    <2> QED  BY <1>3, <2>1, Upwards
  <1>5. Good(n)
    BY <1>4
  <1> QED  BY <1>5 DEF Good, Iterates
==============================================================================
