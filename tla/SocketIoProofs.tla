--------------------------- MODULE SocketIoProofs ---------------------------
(***************************************************************************)
(* Proofs about SocketIo, for streams, requests and vectors of any length: *)
(* no read skips, repeats or overshoots, whatever the peer and the timer   *)
(* do, and no write does, wherever the socket stops taking bytes.          *)
(***************************************************************************)
EXTENDS SocketIo, QueueLemmas

\* Concatenation of byte sequences, element by element.
LEMMA Concat ==
    ASSUME NEW s \in Seq(Nat), NEW t \in Seq(Nat)
    PROVE  /\ s \o t \in Seq(Nat) /\ Len(s \o t) = Len(s) + Len(t)
           /\ DOMAIN (s \o t) = 1..(Len(s) + Len(t))
           /\ \A i \in 1..(Len(s) + Len(t)) :
                 (s \o t)[i] = IF i <= Len(s) THEN s[i] ELSE t[i - Len(s)]
  OBVIOUS

\* The bytes of one read(2).
LEMMA NewBytes ==
    ASSUME NEW n \in Nat, NEW k \in Nat
    PROVE  /\ [i \in 1..k |-> n + i] \in Seq(Nat)
           /\ Len([i \in 1..k |-> n + i]) = k
  OBVIOUS

\* A sequence with nothing appended.
LEMMA ConcatEmpty ==
    ASSUME NEW s \in Seq(Nat)
    PROVE  s \o <<>> = s
  OBVIOUS

\* What makes Gapless and ReadsExactly inductive: the local array is empty
\* between calls and has room during one.
SocketInv ==
    /\ TypeOK /\ Gapless /\ ReadsExactly
    /\ pc = "idle" => local = <<>>

LEMMA SocketInit == Init => SocketInv
  <1> SUFFICES ASSUME Init PROVE SocketInv
    OBVIOUS
  <1>1. TypeOK
    <2>1. gap \in BOOLEAN /\ peer \in {"open", "closed", "reset"}
      BY DEF Init
    <2>2. Len(local) <= want /\ want \in 0..MaxRequest /\ goal \in Nat /\ queued \in Nat /\ taken \in Nat
      BY SocketAssumption DEF Init
    <2>3. buffer \in Seq(Nat) /\ local \in Seq(Nat)
      BY DEF Init
    <2> QED  BY <2>1, <2>2, <2>3 DEF Init, TypeOK
  <1>2. Held = <<>>
    BY DEF Init, Held
  <1> QED  BY <1>1, <1>2 DEF Init, SocketInv, Gapless, EndsAt, ReadsExactly

LEMMA SocketStep ==
    ASSUME SocketInv, [Next]_vars
    PROVE  SocketInv'
  <1> USE SocketAssumption
  <1>1. TypeOK /\ buffer \in Seq(Nat) /\ local \in Seq(Nat) /\ taken \in Nat
    BY DEF SocketInv, TypeOK
  <1>2. Len(Held) = Len(buffer) + Len(local) /\ Held \in Seq(Nat)
    BY <1>1, Concat DEF Held
  \* Steps that leave the buffer, the array and the position alone.
  <1>3. ASSUME UNCHANGED <<taken, buffer, local, want, goal, gap, fn>>, TypeOK',
               UNCHANGED <<pc, ret>> \/ (pc # "idle" /\ pc' # "idle")
        PROVE  SocketInv'
    <2>1. Held' = Held
      BY <1>3 DEF Held
    <2>2. Gapless'
      BY <1>3, <2>1 DEF SocketInv, Gapless
    <2>3. ReadsExactly' /\ (pc' = "idle" => local' = <<>>)
      BY <1>3, <2>1 DEF SocketInv, ReadsExactly
    <2> QED  BY <1>3, <2>2, <2>3 DEF SocketInv
  <1>4. CASE PeerSend \/ PeerClose
    <2>1. TypeOK'
      BY <1>1, <1>4 DEF TypeOK, PeerSend, PeerClose
    <2> QED  BY <1>3, <1>4, <2>1 DEF PeerSend, PeerClose
  <1>5. CASE ReadBlocked \/ Loop \/ PollReady \/ (ReadClosed /\ fn = "cycle")
    <2>1. TypeOK'
      BY <1>1, <1>5 DEF TypeOK, ReadBlocked, Loop, PollReady, ReadClosed, network
    <2> QED  BY <1>3, <1>5, <2>1 DEF ReadBlocked, Loop, PollReady, ReadClosed, network
  <1>6. ASSUME NEW f \in {"once", "cycle"}, NEW n \in 1..MaxRequest, Call(f, n)
        PROVE  SocketInv'
    <2>1. /\ pc = "idle" /\ local = <<>> /\ n > Len(buffer) /\ want' = n - Len(buffer) /\ goal' = n
          /\ pc' = "read" /\ UNCHANGED <<taken, buffer, local, gap>>
      BY <1>6 DEF Call, SocketInv, network
    <2>2. TypeOK'
      BY <1>1, <1>6, <2>1 DEF TypeOK, Call, network
    <2>3. Held' = Held
      BY <2>1 DEF Held
    <2> QED  BY <1>1, <1>2, <2>1, <2>2, <2>3 DEF SocketInv, Gapless, ReadsExactly
  <1>7. ASSUME NEW n \in 1..MaxRequest, CallSatisfied(n)
        PROVE  SocketInv'
    <2>1. /\ pc = "idle" /\ pc' = pc /\ goal' = Len(buffer)
          /\ UNCHANGED <<taken, buffer, local, gap>>
      BY <1>7 DEF CallSatisfied, network
    <2>2. TypeOK'
      BY <1>1, <1>7, <2>1 DEF TypeOK, CallSatisfied, network
    <2>3. Held' = Held
      BY <2>1 DEF Held
    <2> QED  BY <2>1, <2>2, <2>3 DEF SocketInv, Gapless, ReadsExactly
  <1>8. CASE ClearBuffer
    <2>1. /\ pc' = "idle" /\ buffer' = <<>> /\ local' = <<>> /\ goal' = 0
      BY <1>8 DEF ClearBuffer, SocketInv
    <2>2. TypeOK'
      <3>1. buffer' \in Seq(Nat) /\ goal' \in Nat
        BY <2>1
      <3>2. gap' \in BOOLEAN
        BY <1>8, Zenon DEF ClearBuffer
      <3>3. UNCHANGED <<peer, queued, taken, fn, want, local, pc, ret>>
        BY <1>8 DEF ClearBuffer, network
      <3> QED  BY <1>1, <3>1, <3>2, <3>3 DEF TypeOK
    <2>3. Held' = <<>>
      BY <2>1 DEF Held
    <2> QED  BY <2>1, <2>2, <2>3 DEF SocketInv, Gapless, EndsAt, ReadsExactly
  <1>9. CASE Fail
    <2>1. /\ pc' = "idle" /\ local' = <<>> /\ ret' = "error"
          /\ UNCHANGED <<taken, buffer>> /\ gap' = (gap \/ local # <<>>)
      BY <1>9 DEF Fail, network
    <2>2. TypeOK'
      BY <1>1, <1>9, <2>1 DEF TypeOK, Fail, network
    <2>3. ~gap' => ~gap /\ Held' = Held
      BY <1>1, <2>1 DEF Held
    <2>4. Gapless'
      BY <2>1, <2>3 DEF SocketInv, Gapless
    <2> QED  BY <2>1, <2>2, <2>4 DEF SocketInv, ReadsExactly
  <1>10. ASSUME NEW k \in 1..MaxRequest, ReadSome(k)
         PROVE  SocketInv'
    <2> DEFINE new == [i \in 1..k |-> taken + i]
               got == local \o new
    <2>1. /\ pc = "read" /\ k <= want - Len(local) /\ k <= queued
          /\ taken' = taken + k /\ UNCHANGED <<want, goal, gap, fn, peer>> /\ queued' = queued - k
      BY <1>10 DEF ReadSome
    <2>2. new \in Seq(Nat) /\ Len(new) = k /\ k \in Nat
      BY <1>1, NewBytes
    <2>3. got \in Seq(Nat) /\ Len(got) = Len(local) + k /\ want \in Nat
      BY <1>1, <2>2, Concat DEF TypeOK
    <2>4. \/ /\ Len(got) = want /\ buffer' = buffer \o got /\ local' = <<>>
             /\ ret' = "ok" /\ pc' = "idle"
          \/ /\ Len(got) # want /\ local' = got /\ pc' = "poll" /\ buffer' = buffer /\ ret' = ret
      BY <1>10 DEF ReadSome
    <2>5. buffer \o got \in Seq(Nat) /\ Len(buffer \o got) = Len(buffer) + Len(local) + k
      BY <1>1, <2>3, Concat
    <2>6. Held' = buffer \o got
      BY <2>4, <2>5, ConcatEmpty DEF Held
    <2>7. TypeOK'
      <3>1. buffer' \in Seq(Nat) /\ local' \in Seq(Nat) /\ Len(local') <= want'
        <4>1. Len(got) <= want
          BY <1>1, <2>1, <2>2, <2>3
        <4>2. <<>> \in Seq(Nat) /\ Len(<<>>) = 0
          OBVIOUS
        <4>3. 0 <= want /\ want' = want
          BY <2>1, <2>3
        <4> HIDE DEF got
        <4>4. CASE buffer' = buffer \o got /\ local' = <<>>
          BY <2>5, <4>2, <4>3, <4>4
        <4>5. CASE local' = got /\ buffer' = buffer
          BY <1>1, <2>3, <4>1, <4>3, <4>5
        <4> QED  BY <2>4, <4>4, <4>5
      <3>2. queued' \in Nat /\ taken' \in Nat
        BY <1>1, <2>1, <2>2 DEF TypeOK
      <3> QED  BY <1>1, <2>1, <2>4, <3>1, <3>2 DEF TypeOK
    <2>8. Gapless'
      <3>1. ASSUME ~gap, NEW i \in 1..(Len(buffer) + Len(local) + k)
            PROVE  (buffer \o got)[i] = (taken + k) - (Len(buffer) + Len(local) + k) + i
        <4>1. CASE i <= Len(buffer) + Len(local)
          <5>1. (buffer \o got)[i] = Held[i]
            <6>1. CASE i <= Len(buffer)
              BY <1>1, <2>3, <6>1, Concat DEF Held
            <6>2. CASE i > Len(buffer)
              <7>1. (buffer \o got)[i] = got[i - Len(buffer)] /\ Held[i] = local[i - Len(buffer)]
                BY <1>1, <2>3, <4>1, <6>2, Concat DEF Held
              <7>2. got[i - Len(buffer)] = local[i - Len(buffer)]
                BY <1>1, <2>2, <4>1, <6>2, Concat
              <7> QED  BY <7>1, <7>2
            <6> QED  BY <1>1, <6>1, <6>2
          <5>2. i \in DOMAIN Held
            BY <1>1, <4>1, Concat DEF Held
          <5>3. Held[i] = taken - Len(Held) + i
            BY <3>1, <5>2 DEF SocketInv, Gapless, EndsAt
          <5> QED  BY <1>1, <1>2, <2>2, <5>1, <5>3
        <4>2. CASE i > Len(buffer) + Len(local)
          <5> DEFINE j == i - Len(buffer)
          <5>1. (buffer \o got)[i] = got[j]
            BY <1>1, <2>3, <4>2, Concat
          <5>2. got[j] = new[j - Len(local)] /\ j - Len(local) \in 1..k
            BY <1>1, <2>2, <4>2, Concat
          <5>3. got[j] = taken + (j - Len(local))
            BY <5>2
          <5>4. Len(buffer) \in Nat /\ Len(local) \in Nat /\ i \in Int /\ j = i - Len(buffer)
            BY <1>1
          <5> HIDE DEF j, got
          <5> QED  BY <1>1, <2>2, <5>1, <5>3, <5>4
        <4> QED  BY <1>1, <4>1, <4>2
      <3> DEFINE H == buffer \o got
      <3>2. DOMAIN H = 1..(Len(buffer) + Len(local) + k) /\ Len(H) = Len(buffer) + Len(local) + k
        BY <2>5
      <3>3. gap' = gap /\ taken' = taken + k /\ Held' = H
        BY <2>1, <2>6
      <3>4. ASSUME ~gap, NEW i \in DOMAIN H
            PROVE  H[i] = (taken + k) - Len(H) + i
        <4> HIDE DEF got
        <4>1. i \in 1..(Len(buffer) + Len(local) + k)
          BY <3>2
        <4>2. H[i] = (taken + k) - (Len(buffer) + Len(local) + k) + i
          BY <3>1, <3>4, <4>1
        <4> QED  BY <3>2, <4>2
      <3> HIDE DEF H
      <3>5. ASSUME ~gap
            PROVE  EndsAt(H, taken + k)
        <4>1. \A i \in DOMAIN H : H[i] = (taken + k) - Len(H) + i
          BY <3>4, <3>5, Zenon
        <4> QED  BY <4>1, Zenon DEF EndsAt
      <3> QED  BY <3>3, <3>5 DEF Gapless
    <2>9. ReadsExactly'
      <3>1. Len(buffer) + want = goal
        BY <2>1 DEF SocketInv, ReadsExactly
      <3>2. Len(Held') = Len(buffer) + Len(got)
        BY <1>1, <2>3, <2>5, <2>6
      <3>3. Len(got) <= want /\ Len(buffer) \in Nat /\ Len(got) \in Nat
        BY <1>1, <2>1, <2>2, <2>3
      <3>4. Len(buffer \o got) = Len(buffer) + Len(got)
        BY <1>1, <2>3, Concat
      <3> HIDE DEF got
      <3>5. CASE Len(got) = want /\ buffer' = buffer \o got /\ pc' = "idle"
        BY <2>1, <3>1, <3>4, <3>5 DEF ReadsExactly
      <3>6. CASE Len(got) # want /\ pc' = "poll" /\ buffer' = buffer
        BY <2>1, <2>3, <3>1, <3>2, <3>3, <3>6 DEF ReadsExactly
      <3> QED  BY <2>4, <3>5, <3>6
    <2>10. pc' = "idle" => local' = <<>>
      BY <2>4
    <2> QED  BY <2>7, <2>8, <2>9, <2>10 DEF SocketInv
  <1>11. CASE UNCHANGED vars
    BY <1>11 DEF vars, SocketInv, TypeOK, Gapless, ReadsExactly, Held
  <1> QED
    BY <1>4, <1>5, <1>6, <1>7, <1>8, <1>9, <1>10, <1>11
       DEF Next, Step, ReadClosed, ReadError, PollTimeout

LEMMA SocketSpec == Spec => []SocketInv
  <1> QED  BY SocketInit, SocketStep, PTL DEF Spec

\* The variables keep their types and char buffer[nbytes] is never overrun.
THEOREM ArrayNotOverrun == Spec => []TypeOK
  <1>1. SocketInv => TypeOK
    BY DEF SocketInv
  <1> QED  BY <1>1, SocketSpec, PTL

\* For streams and requests of any length, partial reads never skip, repeat or
\* reorder a byte.
THEOREM ReadsAreGapless == Spec => []Gapless
  <1>1. SocketInv => Gapless
    BY DEF SocketInv
  <1> QED  BY <1>1, SocketSpec, PTL

\* A call takes exactly what it was asked for, so that the next message begins
\* where the peer began it.
THEOREM ReadsAreExact == Spec => []ReadsExactly
  <1>1. SocketInv => ReadsExactly
    BY DEF SocketInv
  <1> QED  BY <1>1, SocketSpec, PTL

-----------------------------------------------------------------------------
\* The bytes in the first vectors: a sum that obeys its recursion exists, so the
\* one Sums chooses does.
LEMMA SumsExist ==
    ASSUME NEW v, Len(v) \in Nat, \A i \in 1..Len(v) : v[i].len \in Nat
    PROVE  \E f \in [0..Len(v) -> Nat] : f[0] = 0 /\ \A i \in 1..Len(v) : f[i] = f[i - 1] + v[i].len
  <1> DEFINE Good(k) == \E f \in [0..k -> Nat] : f[0] = 0 /\ \A i \in 1..k : f[i] = f[i - 1] + v[i].len
             G == {k \in Nat : Good(k)}
  <1>1. Good(0)
    <2> DEFINE f == [i \in 0..0 |-> 0]
    <2>1. f \in [0..0 -> Nat] /\ f[0] = 0
      OBVIOUS
    <2> HIDE DEF f
    <2>2. \A i \in 1..0 : f[i] = f[i - 1] + v[i].len
      OBVIOUS
    <2> QED  BY <2>1, <2>2
  <1>2. ASSUME NEW k \in 1..Len(v), Good(k - 1) PROVE Good(k)
    <2>1. PICK g \in [0..k - 1 -> Nat] : g[0] = 0 /\ \A i \in 1..k - 1 : g[i] = g[i - 1] + v[i].len
      BY <1>2
    <2> DEFINE f == [i \in 0..k |-> IF i = k THEN g[k - 1] + v[k].len ELSE g[i]]
    <2>2. f \in [0..k -> Nat]
      BY <2>1
    <2>3. f[0] = 0 /\ f[k] = g[k - 1] + v[k].len /\ \A i \in 0..k - 1 : f[i] = g[i]
      BY <2>1
    <2> HIDE DEF f
    <2>4. ASSUME NEW i \in 1..k PROVE f[i] = f[i - 1] + v[i].len
      <3>1. CASE i = k
        BY <2>3, <3>1
      <3>2. CASE i # k
        <4>1. i \in 1..k - 1 /\ i \in 0..k - 1 /\ i - 1 \in 0..k - 1
          BY <3>2
        <4> QED  BY <2>1, <2>3, <4>1
      <3> QED  BY <3>1, <3>2
    <2> QED  BY <2>2, <2>3, <2>4
  <1> HIDE DEF Good
  <1>3. \A k \in 1..Len(v) : k - 1 \in G => k \in G
    BY <1>2
  <1>4. 0..Len(v) \subseteq G
    <2>1. 0 \in G
      BY <1>1
    <2> HIDE DEF G
    <2> QED  BY <1>3, <2>1, Upwards
  <1>5. Good(Len(v))
    BY <1>4
  <1> QED  BY <1>5 DEF Good

LEMMA SumsAre ==
    ASSUME NEW v, Len(v) \in Nat, \A i \in 1..Len(v) : v[i].len \in Nat
    PROVE  /\ W!Upto(v, 0) = 0
           /\ \A i \in 1..Len(v) : W!Upto(v, i) = W!Upto(v, i - 1) + v[i].len
           /\ \A i \in 0..Len(v) : W!Upto(v, i) \in Nat
  <1> DEFINE S(f) == [i \in 0..Len(v) |-> IF i = 0 THEN 0 ELSE f[i - 1] + v[i].len]
             s == W!Sums(v)
             G == {i \in Nat : s[i] \in Nat}
  <1>1. PICK f \in [0..Len(v) -> Nat] : f[0] = 0 /\ \A i \in 1..Len(v) : f[i] = f[i - 1] + v[i].len
    <2> HIDE DEF S, s, G
    <2> QED  BY SumsExist
  <1>2. f = S(f)
    BY <1>1
  <1>3. s = CHOOSE g : g = S(g)
    BY DEF W!Sums
  <1>4. s = S(s)
    BY <1>2, <1>3
  <1> HIDE DEF s
  <1>5. s[0] = 0 /\ \A i \in 1..Len(v) : s[i] = s[i - 1] + v[i].len
    <2>1. ASSUME NEW i \in 0..Len(v) PROVE s[i] = S(s)[i]
      BY <1>4
    <2>2. 0 \in 0..Len(v) /\ \A i \in 1..Len(v) : i \in 0..Len(v) /\ i # 0
      OBVIOUS
    <2>3. \A i \in 0..Len(v) : S(s)[i] = IF i = 0 THEN 0 ELSE s[i - 1] + v[i].len
      OBVIOUS
    <2> HIDE DEF S
    <2> QED  BY <2>1, <2>2, <2>3
  <1> HIDE DEF S
  <1>6. 0..Len(v) \subseteq G
    <2>1. 0 \in G /\ \A k \in 1..Len(v) : k - 1 \in G => k \in G
      BY <1>5
    <2> HIDE DEF G
    <2> QED  BY <2>1, Upwards
  <1> QED  BY <1>5, <1>6 DEF W!Upto, s

-----------------------------------------------------------------------------
\* The vectors lie one behind the other in the stream.
Contig(v) == \A i \in 1..Len(v) - 1 : v[i + 1].base = v[i].base + v[i].len

LEMMA VectorFields ==
    ASSUME NEW v \in Seq(W!Vector), NEW i \in 1..Len(v)
    PROVE  /\ v[i] \in W!Vector /\ v[i].base \in Nat /\ v[i].len \in Nat
           /\ v[i].base <= MaxBytes /\ v[i].len <= MaxBytes
  <1>1. v[i] \in W!Vector
    OBVIOUS
  <1> QED  BY <1>1, WritevSizes DEF W!Vector, W!WritevAssumption

LEMMA VectorSums ==
    ASSUME NEW v \in Seq(W!Vector)
    PROVE  /\ W!Upto(v, 0) = 0 /\ Len(v) \in Nat /\ W!Total(v) \in Nat
           /\ \A i \in 1..Len(v) : W!Upto(v, i) = W!Upto(v, i - 1) + v[i].len
           /\ \A i \in 0..Len(v) : W!Upto(v, i) \in Nat
  <1>1. Len(v) \in Nat /\ \A i \in 1..Len(v) : v[i].len \in Nat
    BY VectorFields
  <1>2. /\ W!Upto(v, 0) = 0
        /\ \A i \in 1..Len(v) : W!Upto(v, i) = W!Upto(v, i - 1) + v[i].len
        /\ \A i \in 0..Len(v) : W!Upto(v, i) \in Nat
    BY <1>1, SumsAre
  <1>3. Len(v) \in 0..Len(v)
    BY <1>1
  <1> QED  BY <1>1, <1>2, <1>3 DEF W!Total

LEMMA SumsGrow ==
    ASSUME NEW v \in Seq(W!Vector), NEW i \in 0..Len(v), NEW j \in 0..Len(v), i <= j
    PROVE  W!Upto(v, i) <= W!Upto(v, j)
  <1> DEFINE G == {k \in Nat : k >= i => W!Upto(v, i) <= W!Upto(v, k)}
  <1>1. /\ Len(v) \in Nat /\ \A k \in 1..Len(v) : W!Upto(v, k) = W!Upto(v, k - 1) + v[k].len
        /\ \A k \in 0..Len(v) : W!Upto(v, k) \in Nat
    BY VectorSums
  <1>2. \A k \in 1..Len(v) : v[k].len \in Nat
    BY VectorFields
  <1>3. W!Upto(v, i) \in Nat
    BY <1>1
  <1>4. 0 \in G
    <2>1. 0 >= i => i = 0
      OBVIOUS
    <2> QED  BY <1>3, <2>1
  <1>5. ASSUME NEW k \in 1..Len(v), k - 1 \in G PROVE k \in G
    <2>1. k \in Nat /\ k - 1 \in 0..Len(v) /\ k \in 0..Len(v)
      BY <1>1
    <2>2. W!Upto(v, k) = W!Upto(v, k - 1) + v[k].len /\ W!Upto(v, k) \in Nat /\ W!Upto(v, k - 1) \in Nat
      BY <1>1, <2>1
    <2>3. CASE k = i
      BY <1>3, <2>1, <2>3
    <2>4. CASE k > i
      <3>1. W!Upto(v, i) <= W!Upto(v, k - 1)
        BY <1>5, <2>1, <2>4
      <3> QED  BY <1>2, <1>3, <2>1, <2>2, <3>1
    <2>5. CASE k < i
      BY <2>1, <2>5
    <2> QED  BY <2>1, <2>3, <2>4, <2>5
  <1>6. 0..Len(v) \subseteq G
    <2> HIDE DEF G
    <2> QED  BY <1>1, <1>4, <1>5, Upwards
  <1>7. j \in G
    BY <1>6
  <1> QED  BY <1>7

\* What is in the vectors before one of consecutive vectors.
LEMMA ContigSums ==
    ASSUME NEW v \in Seq(W!Vector), Contig(v), NEW i \in 1..Len(v)
    PROVE  /\ W!Upto(v, i - 1) = v[i].base - v[1].base
           /\ W!Upto(v, i) = v[i].base + v[i].len - v[1].base
  <1> DEFINE G == {k \in Nat : k >= 1 => W!Upto(v, k) = v[k].base + v[k].len - v[1].base}
  <1>1. /\ Len(v) \in Nat /\ \A k \in 1..Len(v) : W!Upto(v, k) = W!Upto(v, k - 1) + v[k].len
        /\ W!Upto(v, 0) = 0
    BY VectorSums
  <1>2. 1 \in 1..Len(v) /\ v[1].base \in Nat /\ v[1].len \in Nat
    <2>1. 1 \in 1..Len(v)
      BY <1>1
    <2> QED  BY <2>1, VectorFields
  <1>3. 0 \in G
    OBVIOUS
  <1>4. ASSUME NEW k \in 1..Len(v), k - 1 \in G PROVE k \in G
    <2>1. v[k].base \in Nat /\ v[k].len \in Nat /\ k \in Nat
      BY <1>1, VectorFields
    <2>2. W!Upto(v, k) = W!Upto(v, k - 1) + v[k].len
      BY <1>1
    <2>3. CASE k = 1
      BY <1>1, <1>2, <2>1, <2>2, <2>3
    <2>4. CASE k # 1
      <3>1. k - 1 \in 1..Len(v) - 1 /\ k - 1 \in 1..Len(v) /\ (k - 1) + 1 = k
        BY <1>1, <2>4
      <3>2. v[k].base = v[k - 1].base + v[k - 1].len
        BY <3>1 DEF Contig
      <3>3. v[k - 1].base \in Nat /\ v[k - 1].len \in Nat
        BY <3>1, VectorFields
      <3>4. W!Upto(v, k - 1) = v[k - 1].base + v[k - 1].len - v[1].base
        BY <1>4, <3>1
      <3>5. W!Upto(v, k) = v[k].base + v[k].len - v[1].base
        BY <1>2, <2>1, <2>2, <3>2, <3>3, <3>4
      <3> QED  BY <2>1, <3>5
    <2> QED  BY <2>3, <2>4
  <1>5. 0..Len(v) \subseteq G
    <2> HIDE DEF G
    <2> QED  BY <1>1, <1>3, <1>4, Upwards
  <1>6. W!Upto(v, i) = v[i].base + v[i].len - v[1].base
    <2>1. i \in 0..Len(v) /\ i >= 1
      OBVIOUS
    <2> QED  BY <1>5, <2>1
  <1>7. W!Upto(v, i - 1) \in Nat /\ W!Upto(v, i) = W!Upto(v, i - 1) + v[i].len
    <2>1. i - 1 \in 0..Len(v)
      BY <1>1
    <2> QED  BY <1>1, <2>1, VectorSums
  <1>8. v[i].base \in Nat /\ v[i].len \in Nat
    BY VectorFields
  <1> QED  BY <1>2, <1>6, <1>7, <1>8

\* Every byte is in one of the vectors.
LEMMA Found ==
    ASSUME NEW v \in Seq(W!Vector), NEW s \in Nat, s < W!Total(v)
    PROVE  \E i \in 1..Len(v) : W!Upto(v, i - 1) <= s /\ s < W!Upto(v, i)
  <1> DEFINE T == {i \in 0..Len(v) : s < W!Upto(v, i)}
  <1>1. W!Upto(v, 0) = 0 /\ Len(v) \in Nat /\ \A i \in 0..Len(v) : W!Upto(v, i) \in Nat
    BY VectorSums
  <1>2. T \subseteq Nat /\ Len(v) \in T
    BY <1>1 DEF W!Total
  <1>3. PICK i \in T : \A j \in T : i <= j
    <2> HIDE DEF T
    <2> QED  BY <1>2, SmallestMember
  <1>4. i \in 1..Len(v)
    BY <1>1, <1>3
  <1>5. i - 1 \in 0..Len(v) /\ ~(i <= i - 1)
    BY <1>1, <1>4
  <1>6. ~(s < W!Upto(v, i - 1)) /\ W!Upto(v, i - 1) \in Nat
    BY <1>1, <1>3, <1>5
  <1>7. W!Upto(v, i - 1) <= s
    BY <1>6
  <1> QED  BY <1>3, <1>4, <1>7

LEMMA GatherIs ==
    ASSUME NEW v \in Seq(W!Vector), Contig(v), NEW n \in Nat, n <= W!Total(v)
    PROVE  /\ W!Gather(v, n) \in Seq(Nat) /\ Len(W!Gather(v, n)) = n
           /\ \A j \in 1..n : W!Gather(v, n)[j] = v[1].base + j
  <1> DEFINE vec(j) == CHOOSE i \in 1..Len(v) : W!Upto(v, i - 1) < j /\ j <= W!Upto(v, i)
             g(j) == v[vec(j)].base + j - W!Upto(v, vec(j) - 1)
             x == [j \in 1..n |-> g(j)]
  <1>1. W!Total(v) \in Nat /\ Len(v) \in Nat /\ \A i \in 0..Len(v) : W!Upto(v, i) \in Nat
    BY VectorSums
  <1>2. ASSUME NEW j \in 1..n PROVE g(j) = v[1].base + j /\ g(j) \in Nat
    <2>1. j - 1 \in Nat /\ j - 1 < W!Total(v)
      BY <1>1
    <2>2. PICK i \in 1..Len(v) : W!Upto(v, i - 1) <= j - 1 /\ j - 1 < W!Upto(v, i)
      BY <2>1, Found
    <2>3. W!Upto(v, i) \in Nat /\ W!Upto(v, i - 1) \in Nat
      BY <1>1
    <2>4. W!Upto(v, i - 1) < j /\ j <= W!Upto(v, i)
      BY <2>2, <2>3
    <2>5. vec(j) \in 1..Len(v)
      BY <2>4
    <2> DEFINE q == vec(j)
    <2> HIDE DEF vec
    <2>6. W!Upto(v, q - 1) = v[q].base - v[1].base
      BY <2>5, ContigSums
    <2>7. v[q].base \in Nat
      BY <2>5, VectorFields
    <2>8. 1 \in 1..Len(v)
      BY <1>1
    <2>9. v[1].base \in Nat
      BY <2>8, VectorFields
    <2> QED  BY <2>6, <2>7, <2>9
  <1> HIDE DEF vec, g
  <1>3. x \in Seq(Nat) /\ Len(x) = n /\ \A j \in 1..n : x[j] = g(j)
    BY <1>2
  <1>4. x = W!Gather(v, n)
    BY DEF W!Gather, g, vec
  <1> QED  BY <1>2, <1>3, <1>4

LEMMA VecJoined ==
    ASSUME NEW r \in W!Vector, NEW t \in Seq(W!Vector)
    PROVE  /\ <<r>> \o t \in Seq(W!Vector) /\ Len(<<r>> \o t) = 1 + Len(t)
           /\ (<<r>> \o t)[1] = r /\ \A i \in 1..Len(t) : (<<r>> \o t)[1 + i] = t[i]
  OBVIOUS

LEMMA VecRest ==
    ASSUME NEW v \in Seq(W!Vector), NEW d \in 1..Len(v)
    PROVE  LET t == SubSeq(v, d + 1, Len(v)) IN
           t \in Seq(W!Vector) /\ Len(t) = Len(v) - d /\ \A i \in 1..Len(t) : t[i] = v[d + i]
  OBVIOUS

\* The vectors left behind the first s bytes.
RecutFacts(v, s) ==
    /\ v \in Seq(W!Vector) /\ Contig(v) /\ Len(v) \in 1..Len(iov)
    /\ v[1].base = iov[1].base + s /\ W!Total(v) = W!Total(iov) - s
    /\ \A o \in 0..Len(iov) - 1 : iov[o + 1].base <= iov[1].base + s => Len(v) <= Len(iov) - o
    /\ iov[Len(iov) - Len(v) + 1].base <= iov[1].base + s

LEMMA RecutIs ==
    ASSUME iov \in Seq(W!Vector), Contig(iov), NEW s \in Nat, s < W!Total(iov),
           iov[1].base + W!Total(iov) <= MaxBytes
    PROVE  RecutFacts(W!Recut(s), s)
  <1> DEFINE index == CHOOSE i \in 1..Len(iov) : W!Upto(iov, i - 1) <= s /\ s < W!Upto(iov, i)
             n == s - W!Upto(iov, index - 1)
             r == [base |-> iov[index].base + n, len |-> iov[index].len - n]
             t == SubSeq(iov, index + 1, Len(iov))
             v == <<r>> \o t
  <1>1. W!Recut(s) = v
    BY DEF W!Recut
  <1>2. index \in 1..Len(iov) /\ W!Upto(iov, index - 1) <= s /\ s < W!Upto(iov, index)
    BY Found
  <1> HIDE DEF index
  <1>3. /\ W!Total(iov) \in Nat /\ Len(iov) \in Nat /\ \A i \in 0..Len(iov) : W!Upto(iov, i) \in Nat
    BY VectorSums
  <1>4. /\ iov[index].base \in Nat /\ iov[index].len \in Nat
    BY <1>2, VectorFields
  <1>5. 1 \in 1..Len(iov) /\ iov[1].base \in Nat
    <2>1. 1 \in 1..Len(iov)
      BY <1>2, <1>3
    <2> QED  BY <2>1, VectorFields
  <1>6. /\ W!Upto(iov, index - 1) = iov[index].base - iov[1].base
        /\ W!Upto(iov, index) = iov[index].base + iov[index].len - iov[1].base
    BY <1>2, ContigSums
  <1>7. W!Upto(iov, index - 1) \in Nat /\ W!Upto(iov, index) \in Nat
    BY <1>2, <1>3
  <1>8. W!Upto(iov, index) <= W!Total(iov)
    <2>1. index \in 0..Len(iov) /\ Len(iov) \in 0..Len(iov) /\ index <= Len(iov)
      BY <1>2, <1>3
    <2> QED  BY <2>1, SumsGrow DEF W!Total
  <1>9. /\ r.base = iov[1].base + s /\ r.base + r.len = iov[index].base + iov[index].len
        /\ r.len = W!Upto(iov, index) - s /\ r \in W!Vector
    <2>1. n \in Nat /\ iov[index].base + n = iov[1].base + s /\ iov[index].len - n = W!Upto(iov, index) - s
      <3> DEFINE a == iov[1].base
                 b == iov[index].base
                 l == iov[index].len
                 u == W!Upto(iov, index - 1)
                 w == W!Upto(iov, index)
      <3>1. a \in Nat /\ b \in Nat /\ l \in Nat
        BY <1>4, <1>5
      <3>2. u \in Nat /\ w \in Nat /\ u <= s /\ s < w
        BY <1>2, <1>7
      <3>3. u = b - a /\ w = b + l - a
        BY <1>6
      <3> HIDE DEF a, b, l, u, w
      <3>4. s - u \in Nat /\ b + (s - u) = a + s /\ l - (s - u) = w - s
        BY <3>1, <3>2, <3>3
      <3> QED  BY <3>4 DEF a, b, l, u, w
    <2>2. MaxBytes \in Nat
      BY WritevSizes DEF W!WritevAssumption
    <2>3. iov[1].base + s \in 0..MaxBytes /\ W!Upto(iov, index) - s \in 0..MaxBytes
      <3> DEFINE o == iov[1].base
                 w == W!Upto(iov, index)
                 e == W!Total(iov)
      <3>1. o \in Nat /\ w \in Nat /\ e \in Nat /\ s < w /\ w <= e /\ o + e <= MaxBytes
        BY <1>2, <1>3, <1>5, <1>7, <1>8
      <3> HIDE DEF o, w, e
      <3>2. o + s \in 0..MaxBytes /\ w - s \in 0..MaxBytes
        BY <2>2, <3>1
      <3> QED  BY <3>2 DEF o, w
    <2> HIDE DEF n
    <2>4. r \in W!Vector
      BY <2>1, <2>3 DEF W!Vector
    <2> QED  BY <1>4, <2>1, <2>4
  <1> HIDE DEF n, r
  <1>10. t \in Seq(W!Vector) /\ Len(t) = Len(iov) - index /\ \A i \in 1..Len(t) : t[i] = iov[index + i]
    BY <1>2, VecRest
  <1> HIDE DEF t
  <1>11. /\ v \in Seq(W!Vector) /\ Len(v) = 1 + Len(t) /\ v[1] = r
         /\ \A i \in 1..Len(t) : v[1 + i] = t[i]
    BY <1>9, <1>10, VecJoined
  <1> HIDE DEF v
  <1>12. Len(v) = Len(iov) - index + 1 /\ \A i \in 1..Len(v) - 1 : v[i + 1] = iov[index + i]
    <2>1. Len(v) = Len(iov) - index + 1 /\ Len(v) - 1 = Len(t)
      BY <1>2, <1>3, <1>10, <1>11
    <2>2. ASSUME NEW i \in 1..Len(v) - 1 PROVE v[i + 1] = iov[index + i]
      <3>1. i \in 1..Len(t) /\ i + 1 = 1 + i
        BY <2>1
      <3> QED  BY <1>10, <1>11, <3>1
    <2> QED  BY <2>1, <2>2
  <1>13. Contig(v)
    <2> SUFFICES ASSUME NEW i \in 1..Len(v) - 1 PROVE v[i + 1].base = v[i].base + v[i].len
      BY DEF Contig
    <2>1. v[i + 1] = iov[index + i] /\ i \in Nat
      BY <1>2, <1>3, <1>12
    <2>2. CASE i = 1
      <3>1. index \in 1..Len(iov) - 1
        BY <1>2, <1>3, <1>12, <2>2
      <3>2. iov[index + 1].base = iov[index].base + iov[index].len
        BY <3>1 DEF Contig
      <3> QED  BY <1>9, <1>11, <2>1, <2>2, <3>2
    <2>3. CASE i # 1
      <3>1. i - 1 \in 1..Len(v) - 1 /\ (i - 1) + 1 = i
        BY <1>2, <1>3, <1>12, <2>3
      <3>2. v[i] = iov[index + (i - 1)]
        BY <1>12, <3>1
      <3>3. index + (i - 1) \in 1..Len(iov) - 1 /\ (index + (i - 1)) + 1 = index + i
        BY <1>2, <1>3, <1>12, <3>1
      <3>4. iov[(index + (i - 1)) + 1].base = iov[index + (i - 1)].base + iov[index + (i - 1)].len
        BY <3>3 DEF Contig
      <3> QED  BY <2>1, <3>2, <3>3, <3>4
    <2> QED  BY <2>2, <2>3
  <1>14. Len(v) \in 1..Len(iov) /\ Len(v) \in 1..Len(v) /\ Len(v) \in Nat
    BY <1>2, <1>3, <1>12
  <1>15. W!Total(v) = W!Total(iov) - s
    <2>1. W!Total(v) = v[Len(v)].base + v[Len(v)].len - v[1].base
      BY <1>11, <1>13, <1>14, ContigSums DEF W!Total
    <2>2. W!Total(iov) = iov[Len(iov)].base + iov[Len(iov)].len - iov[1].base
      <3>1. Len(iov) \in 1..Len(iov)
        BY <1>2, <1>3
      <3> QED  BY <3>1, ContigSums DEF W!Total
    <2>3. v[Len(v)].base + v[Len(v)].len = iov[Len(iov)].base + iov[Len(iov)].len
      <3>1. CASE Len(v) = 1
        <4>1. index = Len(iov)
          <5>1. Len(v) = Len(iov) - index + 1
            BY <1>12
          <5>2. index \in Int /\ Len(iov) \in Int
            BY <1>2, <1>3
          <5>3. 1 = Len(iov) - index + 1
            BY <3>1, <5>1
          <5> QED  BY <5>2, <5>3
        <4> QED  BY <1>9, <1>11, <3>1, <4>1
      <3>2. CASE Len(v) # 1
        <4>1. Len(v) - 1 \in 1..Len(v) - 1 /\ (Len(v) - 1) + 1 = Len(v) /\ index + (Len(v) - 1) = Len(iov)
          BY <1>2, <1>3, <1>12, <1>14, <3>2
        <4>2. v[(Len(v) - 1) + 1] = iov[index + (Len(v) - 1)]
          BY <1>12, <4>1
        <4> QED  BY <4>1, <4>2
      <3> QED  BY <3>1, <3>2
    <2>4. Len(iov) \in 1..Len(iov)
      BY <1>2, <1>3
    <2>5. iov[Len(iov)].base \in Nat /\ iov[Len(iov)].len \in Nat
      BY <2>4, VectorFields
    <2>6. v[1].base = iov[1].base + s
      BY <1>9, <1>11
    <2>7. v[Len(v)].base \in Nat /\ v[Len(v)].len \in Nat
      BY <1>11, <1>14, VectorFields
    <2> DEFINE o == iov[1].base
               b == v[Len(v)].base
               l == v[Len(v)].len
               c == iov[Len(iov)].base
               m == iov[Len(iov)].len
               h == v[1].base
    <2>8. o \in Nat /\ b \in Nat /\ l \in Nat /\ c \in Nat /\ m \in Nat /\ b + l = c + m /\ h = o + s
      BY <1>5, <2>3, <2>5, <2>6, <2>7
    <2>9. W!Total(v) = b + l - h /\ W!Total(iov) = c + m - o
      BY <2>1, <2>2
    <2> HIDE DEF o, b, l, c, m, h
    <2>10. b + l - h = (c + m - o) - s
      BY <2>8
    <2> QED  BY <2>9, <2>10
  <1>16. ASSUME NEW o \in 0..Len(iov) - 1, iov[o + 1].base <= iov[1].base + s
         PROVE  Len(v) <= Len(iov) - o
    <2>1. o \in Nat /\ o + 1 \in 1..Len(iov) /\ (o + 1) - 1 = o /\ o \in 0..Len(iov)
      BY <1>3
    <2>2. W!Upto(iov, o) = iov[o + 1].base - iov[1].base
      BY <2>1, ContigSums
    <2>3. iov[o + 1].base \in Nat
      BY <2>1, VectorFields
    <2>4. W!Upto(iov, o) <= s
      BY <1>5, <1>16, <2>2, <2>3
    <2>5. ~(index <= o)
      <3> SUFFICES ASSUME index <= o PROVE FALSE
        OBVIOUS
      <3>1. W!Upto(iov, index) <= W!Upto(iov, o)
        <4>1. index \in 0..Len(iov)
          BY <1>2
        <4> QED  BY <2>1, <4>1, SumsGrow
      <3>2. W!Upto(iov, o) \in Nat
        BY <1>3, <2>1
      <3> QED  BY <1>2, <1>7, <2>4, <3>1, <3>2
    <2> QED  BY <1>2, <1>3, <1>12, <2>1, <2>5
  <1>17. iov[Len(iov) - Len(v) + 1].base <= iov[1].base + s
    <2>1. Len(iov) - Len(v) + 1 = index
      BY <1>2, <1>3, <1>12
    <2> QED  BY <1>2, <1>4, <1>5, <1>6, <1>7, <2>1
  <1>18. v[1].base = iov[1].base + s
    BY <1>9, <1>11
  <1>19. RecutFacts(v, s)
    BY <1>11, <1>13, <1>14, <1>15, <1>16, <1>17, <1>18 DEF RecutFacts
  <1> QED  BY <1>1, <1>19

-----------------------------------------------------------------------------
\* The bytes on a wire w are those up to p without the lost ones, in order.
Ordered(w, p, L) ==
    /\ \A i \in 1..Len(w) : \A j \in 1..(i - 1) : w[j] < w[i]
    /\ {w[i] : i \in 1..Len(w)} = 1..p \ L

\* Between two calls the count tells whether the last one gave the socket all.
Counted ==
    w_pc = "idle" =>
      /\ w_ret = -1 <=> lost \cap (issued - W!Total(iov) + 1)..issued # {}
      /\ w_ret # -1 => w_ret = W!Total(iov)

\* During a call the vectors left begin with the byte the socket is to take next
\* and end where the caller's end, none of the caller's bytes is given up, and
\* st_writev has left behind no vector of the caller's but those it has written.
Left ==
    /\ Len(iov) > 0 /\ Len(tmp_iov) > 0
    /\ iov[1].base + W!Total(iov) = issued
    /\ nleft > 0 /\ nleft <= W!Total(iov) /\ lost \subseteq 1..(issued - W!Total(iov))
    /\ tmp_iov[1].base = issued - nleft /\ W!Total(tmp_iov) = nleft

Behind ==
    /\ w_pc \in {"write", "writepoll"} => Len(tmp_iov) = 1
    /\ w_pc \in {"writev", "poll"} =>
          Len(tmp_iov) <= Len(iov) /\ iov[Len(iov) - Len(tmp_iov) + 1].base <= issued - nleft

WriteInv ==
    /\ W!TypeOK /\ W!WireInOrder /\ W!CopyFits /\ W!NoLeak
    /\ Contig(iov) /\ Contig(tmp_iov) /\ lost \subseteq 1..issued
    /\ Counted
    /\ w_pc # "idle" => Left /\ Behind

LEMMA WriteInit == W!Init => WriteInv
  <1> SUFFICES ASSUME W!Init PROVE WriteInv
    OBVIOUS
  <1>1. /\ wire = <<>> /\ lost = {} /\ issued = 0 /\ w_pc = "idle" /\ iov = <<>> /\ tmp_iov = <<>>
        /\ own = "caller" /\ room = 0 /\ nleft = 0 /\ w_ret = 0 /\ heap = 0 /\ MaxBytes \in Nat
    BY WritevSizes DEF W!Init, W!WritevAssumption
  <1>2. wire \in Seq(1..MaxBytes) /\ iov \in Seq(W!Vector) /\ tmp_iov \in Seq(W!Vector)
    BY <1>1
  <1>3. W!Total(iov) = 0
    <2>1. Len(iov) = 0 /\ W!Upto(iov, 0) = 0
      BY <1>1, <1>2, VectorSums
    <2> QED  BY <2>1 DEF W!Total
  <1>4. Contig(iov) /\ Contig(tmp_iov) /\ W!WireInOrder
    BY <1>1 DEF Contig, W!WireInOrder, W!Done
  <1>5. W!TypeOK
    BY <1>1, <1>2 DEF W!TypeOK
  <1>6. W!CopyFits /\ W!NoLeak
    BY <1>1 DEF W!CopyFits, W!NoLeak
  <1>7. Counted /\ lost \subseteq 1..issued
    BY <1>1, <1>3 DEF Counted
  <1> QED  BY <1>1, <1>4, <1>5, <1>6, <1>7 DEF WriteInv

LEMMA ElementIn ==
    ASSUME NEW S, NEW y \in Seq(S), NEW j \in 1..Len(y)
    PROVE  y[j] \in S
  OBVIOUS

LEMMA Joined ==
    ASSUME NEW S, NEW y \in Seq(S), NEW t \in Seq(S)
    PROVE  /\ y \o t \in Seq(S) /\ Len(y \o t) = Len(y) + Len(t)
           /\ \A i \in 1..Len(y) : (y \o t)[i] = y[i]
           /\ \A j \in 1..Len(t) : (y \o t)[Len(y) + j] = t[j]
  OBVIOUS

\* Where a call that wrote all but l of its t bytes, with m left before, stands in
\* the i bytes of all calls.
LEMMA Halfway ==
    ASSUME NEW i \in Nat, NEW l \in Nat, NEW m \in Nat, NEW t \in Nat, l <= m, m <= t, i - t \in Nat
    PROVE  i - l \in Nat /\ i - t <= i - l /\ i - l <= i /\ i = (i - l) + l
  OBVIOUS

LEMMA WireGrows ==
    ASSUME NEW w \in Seq(1..MaxBytes), NEW p \in Nat, NEW L \in SUBSET (1..p), Ordered(w, p, L),
           NEW g \in Seq(Nat), NEW n \in Nat, Len(g) = n, \A j \in 1..n : g[j] = p + j,
           p + n <= MaxBytes
    PROVE  w \o g \in Seq(1..MaxBytes) /\ Ordered(w \o g, p + n, L)
  <1>1. Len(w) \in Nat /\ MaxBytes \in Nat
    BY WritevSizes DEF W!WritevAssumption
  <1>2. \A j \in 1..n : g[j] \in 1..MaxBytes
    <2> SUFFICES ASSUME NEW j \in 1..n PROVE g[j] \in 1..MaxBytes
      OBVIOUS
    <2>1. g[j] = p + j
      OBVIOUS
    <2> QED  BY <1>1, <2>1
  <1>3. g \in Seq(1..MaxBytes)
    <2> DEFINE y == [j \in 1..n |-> g[j]]
    <2>1. y \in [1..n -> 1..MaxBytes]
      BY <1>2
    <2>2. y \in Seq(1..MaxBytes)
      BY <2>1
    <2>3. g = y
      OBVIOUS
    <2> QED  BY <2>2, <2>3
  <1> DEFINE x == w \o g
  <1>4. /\ x \in Seq(1..MaxBytes) /\ Len(x) = Len(w) + n
        /\ \A i \in 1..Len(w) : x[i] = w[i]
        /\ \A j \in 1..n : x[Len(w) + j] = g[j]
    <2> DEFINE Byte == 1..MaxBytes
    <2>1. w \in Seq(Byte) /\ g \in Seq(Byte)
      BY <1>3
    <2> HIDE DEF Byte
    <2>2. /\ x \in Seq(Byte) /\ Len(x) = Len(w) + Len(g)
          /\ \A i \in 1..Len(w) : x[i] = w[i]
          /\ \A j \in 1..Len(g) : x[Len(w) + j] = g[j]
      BY ONLY <2>1, Joined
    <2> HIDE DEF x
    <2>3. x \in Seq(1..MaxBytes)
      BY <2>2 DEF Byte
    <2>4. \A j \in 1..n : x[Len(w) + j] = g[j]
      BY <2>2
    <2> QED  BY <2>2, <2>3, <2>4
  <1>5. /\ \A i \in 1..Len(w) : \A j \in 1..(i - 1) : w[j] < w[i]
        /\ \A i \in 1..Len(w) : w[i] \in 1..p \ L
        /\ \A b \in 1..p \ L : \E i \in 1..Len(w) : w[i] = b
    BY DEF Ordered
  <1> HIDE DEF x
  <1>6. ASSUME NEW i \in 1..Len(x)
        PROVE  \/ i \in 1..Len(w) /\ x[i] = w[i] /\ x[i] \in 1..p \ L
               \/ i > Len(w) /\ x[i] = p + (i - Len(w)) /\ x[i] \in (p + 1)..(p + n)
    <2>1. CASE i <= Len(w)
      <3>1. i \in 1..Len(w)
        BY <1>1, <1>4, <2>1
      <3> QED  BY <1>4, <1>5, <3>1
    <2>2. CASE i > Len(w)
      <3> DEFINE j == i - Len(w)
      <3>1. j \in 1..n /\ Len(w) + j = i
        BY <1>1, <1>4, <2>2
      <3>2. x[Len(w) + j] = p + j
        BY <1>4, <3>1
      <3>3. x[i] = p + (i - Len(w)) /\ x[i] \in (p + 1)..(p + n)
        <4>1. x[i] = p + j
          BY <3>1, <3>2
        <4> HIDE DEF j
        <4>2. x[i] \in (p + 1)..(p + n)
          BY <3>1, <4>1
        <4> QED  BY <4>1, <4>2 DEF j
      <3> QED  BY <2>2, <3>3
    <2> QED  BY <1>1, <1>4, <2>1, <2>2
  <1>7. ASSUME NEW i \in 1..Len(x), NEW j \in 1..(i - 1) PROVE x[j] < x[i]
    <2>1. j \in 1..Len(x) /\ j < i /\ i \in Nat /\ j \in Nat
      BY <1>1, <1>4
    <2>2. CASE i \in 1..Len(w) /\ x[i] = w[i]
      <3>1. j \in 1..Len(w) /\ x[j] = w[j]
        BY <1>1, <1>4, <2>1, <2>2
      <3> QED  BY <1>5, <2>2, <3>1
    <2>3. CASE i > Len(w) /\ x[i] = p + (i - Len(w)) /\ x[i] \in (p + 1)..(p + n)
      <3>1. CASE j \in 1..Len(w) /\ x[j] = w[j] /\ x[j] \in 1..p \ L
        <4>1. x[j] \in 1..p
          BY <3>1
        <4> QED  BY <2>3, <4>1
      <3>2. CASE j > Len(w) /\ x[j] = p + (j - Len(w)) /\ x[j] \in (p + 1)..(p + n)
        BY <1>1, <2>1, <2>3, <3>2
      <3> QED  BY <1>6, <2>1, <3>1, <3>2
    <2> QED  BY <1>6, <2>2, <2>3
  <1>8. ASSUME NEW b PROVE b \in {x[i] : i \in 1..Len(x)} <=> b \in 1..(p + n) \ L
    <2>1. ASSUME NEW i \in 1..Len(x), b = x[i] PROVE b \in 1..(p + n) \ L
      <3>1. CASE x[i] \in 1..p \ L
        BY <2>1, <3>1
      <3>2. CASE x[i] \in (p + 1)..(p + n)
        BY <2>1, <3>2
      <3> QED  BY <1>6, <3>1, <3>2
    <2>2. ASSUME b \in 1..(p + n) \ L PROVE \E i \in 1..Len(x) : b = x[i]
      <3>1. CASE b \in 1..p
        <4>1. PICK i \in 1..Len(w) : w[i] = b
          BY <1>5, <2>2, <3>1
        <4>2. i \in 1..Len(x) /\ x[i] = b
          BY <1>1, <1>4, <4>1
        <4> QED  BY <4>2
      <3>2. CASE b \notin 1..p
        <4> DEFINE j == b - p
        <4>1. j \in 1..n /\ p + j = b
          BY <2>2, <3>2
        <4> HIDE DEF j
        <4>2. x[Len(w) + j] = p + j
          BY <1>4, <4>1
        <4>3. Len(w) + j \in 1..Len(x)
          BY <1>1, <1>4, <4>1
        <4> QED  BY <4>1, <4>2, <4>3
      <3> QED  BY <3>1, <3>2
    <2> QED  BY <2>1, <2>2
  <1>9. Ordered(x, p + n, L)
    BY <1>7, <1>8 DEF Ordered
  <1> QED  BY <1>4, <1>9 DEF x

LEMMA WriteTypes ==
    ASSUME WriteInv
    PROVE  /\ wire \in Seq(1..MaxBytes) /\ issued \in Nat /\ issued <= MaxBytes
           /\ iov \in Seq(W!Vector) /\ tmp_iov \in Seq(W!Vector) /\ Contig(iov) /\ Contig(tmp_iov)
           /\ nleft \in Nat /\ room \in Nat /\ heap \in Nat /\ MaxBytes \in Nat
           /\ Len(iov) \in Nat /\ Len(tmp_iov) \in Nat /\ W!Total(iov) \in Nat
           /\ Len(tmp_iov) <= room /\ lost \subseteq 1..issued
           /\ Ordered(wire, IF w_pc = "idle" THEN issued ELSE issued - nleft, lost)
  <1>1. /\ wire \in Seq(1..MaxBytes) /\ issued \in 0..MaxBytes /\ MaxBytes \in Nat
        /\ iov \in Seq(W!Vector) /\ tmp_iov \in Seq(W!Vector) /\ Contig(iov) /\ Contig(tmp_iov)
        /\ nleft \in 0..MaxBytes /\ room \in Nat /\ heap \in Nat /\ lost \subseteq 1..issued
    BY WritevSizes DEF WriteInv, W!TypeOK, W!WritevAssumption
  <1>2. Len(iov) \in Nat /\ Len(tmp_iov) \in Nat
    BY <1>1
  <1>3. W!Total(iov) \in Nat
    BY <1>1, VectorSums
  <1>4. Len(tmp_iov) <= room /\ Ordered(wire, IF w_pc = "idle" THEN issued ELSE issued - nleft, lost)
    BY DEF WriteInv, W!CopyFits, W!WireInOrder, W!Done, Ordered
  <1> QED  BY <1>1, <1>2, <1>3, <1>4

-----------------------------------------------------------------------------
LEMMA Returned ==
    ASSUME WriteInv, w_pc # "idle", NEW r \in -1..MaxBytes, NEW left \in Nat, W!Return(r, left),
           UNCHANGED <<issued, iov, own, room>>,
           wire' \in Seq(1..MaxBytes), Ordered(wire', issued - left, lost), left <= nleft,
           r = -1 <=> left > 0, r # -1 => r = W!Total(iov),
           tmp_iov' \in Seq(W!Vector), Contig(tmp_iov'), Len(tmp_iov') <= room, nleft' \in 0..MaxBytes
    PROVE  WriteInv'
  <1> DEFINE gone == (issued - left + 1)..issued
  <1>1. /\ w_ret' = r /\ w_pc' = "idle" /\ heap' = IF own = "heap" THEN heap - 1 ELSE heap
        /\ lost' = lost \cup gone
    BY DEF W!Return
  <1>2. heap = IF own = "heap" THEN 1 ELSE 0
    BY DEF WriteInv, W!NoLeak
  <1>3. heap' = 0
    BY <1>1, <1>2
  <1>4. /\ issued \in Nat /\ issued <= MaxBytes /\ MaxBytes \in Nat /\ nleft \in Nat
        /\ W!Total(iov) \in Nat /\ lost \subseteq 1..issued
    BY WriteTypes
  <1>5. /\ nleft <= W!Total(iov) /\ lost \subseteq 1..(issued - W!Total(iov))
        /\ issued - W!Total(iov) \in Nat
    <2>1. Left
      BY DEF WriteInv
    <2>2. 1 \in 1..Len(iov) /\ iov \in Seq(W!Vector)
      BY <2>1, WriteTypes DEF Left
    <2> DEFINE base == iov[1].base
               all == W!Total(iov)
    <2>3. base \in Nat
      BY <2>2, VectorFields
    <2>4. base + all = issued /\ nleft <= all /\ lost \subseteq 1..(issued - all)
      BY <2>1 DEF Left
    <2> HIDE DEF base, all
    <2>5. issued - all \in Nat
      <3>1. all \in Nat /\ issued \in Nat
        BY <1>4 DEF all
      <3> QED  BY <2>3, <2>4, <3>1
    <2> QED  BY <2>4, <2>5 DEF all
  <1> DEFINE a == issued - W!Total(iov)
             z == issued - left
  <1>12. a \in Nat /\ z \in Nat /\ a <= z /\ z <= issued /\ issued = z + left /\ lost \subseteq 1..a
    <2>1. z \in Nat /\ a <= z /\ z <= issued /\ issued = z + left
      BY <1>4, <1>5, Halfway
    <2> QED  BY <1>5, <2>1
  <1> HIDE DEF a, z
  <1>6. lost' \subseteq 1..issued
    <2>1. gone \subseteq 1..issued
      <3>1. gone = (z + 1)..issued
        BY DEF z
      <3> QED  BY <1>4, <1>12, <3>1
    <2> HIDE DEF gone
    <2> QED  BY <1>1, <1>4, <2>1
  <1>7. W!TypeOK'
    <2>1. lost' \subseteq 1..MaxBytes
      BY <1>4, <1>6
    <2> QED  BY <1>1, <1>3, <2>1 DEF WriteInv, W!TypeOK
  <1>8. W!CopyFits' /\ W!NoLeak'
    BY <1>1, <1>3 DEF W!CopyFits, W!NoLeak
  <1>9. W!WireInOrder'
    <2>1. 1..(issued - left) \ lost = 1..issued \ lost'
      <3>1. ASSUME NEW b PROVE b \in 1..(issued - left) \ lost <=> b \in 1..issued \ lost'
        <4>1. gone = (z + 1)..issued
          BY DEF z
        <4> HIDE DEF gone
        <4>2. b \in 1..z <=> b \in 1..issued /\ b \notin gone
          BY <1>4, <1>12, <4>1
        <4>3. 1..(issued - left) = 1..z
          BY DEF z
        <4>4. lost' = lost \cup gone
          BY <1>1 DEF gone
        <4>5. b \in lost' <=> b \in lost \/ b \in gone
          BY <4>4
        <4> QED  BY <4>2, <4>3, <4>5
      <3> QED  BY <3>1
    <2> HIDE DEF gone
    <2> QED  BY <1>1, <2>1 DEF Ordered, W!WireInOrder, W!Done
  <1>10. Counted'
    <2> DEFINE mine == (issued - W!Total(iov) + 1)..issued
    <2>0. mine = (a + 1)..issued /\ gone = (z + 1)..issued
      BY DEF a, z
    <2>1. lost \cap mine = {}
      <3> HIDE DEF mine
      <3>1. \A b \in 1..a : b \notin (a + 1)..issued
        BY <1>4, <1>12
      <3> QED  BY <1>12, <2>0, <3>1
    <2>2. gone \cap mine = gone
      <3> HIDE DEF mine, gone
      <3>1. \A b \in (z + 1)..issued : b \in (a + 1)..issued
        BY <1>4, <1>12
      <3> QED  BY <2>0, <3>1
    <2>3. left > 0 <=> gone # {}
      <3>1. left > 0 => issued \in gone
        BY <1>4, <1>5
      <3>2. left = 0 => gone = {}
        BY <1>4
      <3> QED  BY <3>1, <3>2
    <2>4. W!Total(iov)' = W!Total(iov)
      BY DEF W!Total, W!Upto, W!Sums
    <2> HIDE DEF gone
    <2>5. lost' \cap mine # {} <=> left > 0
      <3> HIDE DEF mine
      <3> QED  BY <1>1, <2>1, <2>2, <2>3
    <2> QED  BY <1>1, <2>4, <2>5 DEF Counted
  <1>11. Contig(iov')
    BY DEF WriteInv
  <1> QED  BY <1>1, <1>6, <1>7, <1>8, <1>9, <1>10, <1>11 DEF WriteInv

LEMMA CallStep ==
    ASSUME WriteInv, NEW k \in 1..MaxVecs, NEW vecs \in [1..k -> [len : VecLens]], W!Call(vecs)
    PROVE  WriteInv'
  <1> DEFINE v == [i \in 1..Len(vecs) |-> [base |-> issued + W!Upto(vecs, i - 1), len |-> vecs[i].len]]
  <1>1. /\ wire \in Seq(1..MaxBytes) /\ issued \in Nat /\ MaxBytes \in Nat /\ lost \subseteq 1..issued
        /\ room \in Nat /\ heap \in Nat
    BY WriteTypes
  <1>2. k \in Nat /\ k > 0 /\ Len(vecs) = k
    BY WritevSizes DEF W!WritevAssumption
  <1>3. \A i \in 1..k : vecs[i].len \in Nat
    BY WritevSizes DEF W!WritevAssumption
  <1>4. /\ W!Upto(vecs, 0) = 0
        /\ \A i \in 1..k : W!Upto(vecs, i) = W!Upto(vecs, i - 1) + vecs[i].len
        /\ \A i \in 0..k : W!Upto(vecs, i) \in Nat
    BY <1>2, <1>3, SumsAre
  <1>5. /\ w_pc = "idle" /\ issued + W!Total(v) <= MaxBytes
        /\ issued' = issued + W!Total(v)
        /\ iov' = v /\ tmp_iov' = v /\ own' = "caller" /\ room' = Len(v) /\ nleft' = W!Total(v)
        /\ W!Total(v) = 0 => w_ret' = 0 /\ w_pc' = "idle"
        /\ W!Total(v) # 0 => w_ret' = w_ret /\ w_pc' = IF Len(v) = 1 THEN "write" ELSE "writev"
        /\ wire' = wire /\ lost' = lost /\ heap' = heap
    BY DEF W!Call, W!Again
  <1> DEFINE Pair == [base : Nat, len : Nat]
  <1>6. /\ v \in Seq(Pair) /\ Len(v) = k
        /\ \A i \in 1..k : v[i].base = issued + W!Upto(vecs, i - 1) /\ v[i].len = vecs[i].len
    <2> DEFINE b(i) == issued + W!Upto(vecs, i - 1)
               l(i) == vecs[i].len
               y == [i \in 1..k |-> [base |-> b(i), len |-> l(i)]]
    <2>1. \A i \in 1..k : b(i) \in Nat /\ l(i) \in Nat
      <3>1. \A i \in 1..k : i - 1 \in 0..k
        BY <1>2
      <3> QED  BY <1>1, <1>3, <1>4, <3>1
    <2>2. y = v
      BY <1>2
    <2> HIDE DEF b, l, v
    <2>3. y \in Seq(Pair) /\ Len(y) = k /\ \A i \in 1..k : y[i].base = b(i) /\ y[i].len = l(i)
      BY <1>2, <2>1
    <2> QED  BY <2>2, <2>3 DEF b, l
  <1> HIDE DEF v
  <1>7. Len(v) \in Nat /\ \A i \in 1..Len(v) : v[i].len \in Nat
    BY <1>2, <1>3, <1>6
  <1>8. /\ W!Upto(v, 0) = 0
        /\ \A i \in 1..k : W!Upto(v, i) = W!Upto(v, i - 1) + v[i].len
        /\ \A i \in 0..k : W!Upto(v, i) \in Nat
    BY <1>6, <1>7, SumsAre
  <1>9. \A i \in 0..k : W!Upto(v, i) = W!Upto(vecs, i)
    <2> DEFINE G == {i \in Nat : W!Upto(v, i) = W!Upto(vecs, i)}
    <2>1. 0 \in G /\ \A i \in 1..k : i - 1 \in G => i \in G
      BY <1>2, <1>4, <1>6, <1>8
    <2>2. 0..k \subseteq G
      <3> HIDE DEF G
      <3> QED  BY <1>2, <2>1, Upwards
    <2> QED  BY <2>2
  <1>10. W!Total(v) \in Nat /\ W!Total(v) = W!Upto(vecs, k)
    BY <1>2, <1>4, <1>6, <1>9 DEF W!Total
  <1>11. ASSUME NEW i \in 1..k PROVE v[i].base + v[i].len <= issued + W!Total(v)
    <2> DEFINE G == {j \in Nat : j >= i => W!Upto(vecs, i) <= W!Upto(vecs, j)}
    <2>1. 0 \in G
      OBVIOUS
    <2>2. ASSUME NEW j \in 1..k, j - 1 \in G PROVE j \in G
      <3>1. /\ j \in Nat /\ j - 1 \in 0..k /\ j \in 0..k /\ i \in 0..k
        BY <1>2
      <3>2. /\ W!Upto(vecs, j) = W!Upto(vecs, j - 1) + vecs[j].len /\ W!Upto(vecs, j - 1) \in Nat
            /\ W!Upto(vecs, j) \in Nat /\ W!Upto(vecs, i) \in Nat /\ vecs[j].len \in Nat
        BY <1>3, <1>4, <3>1
      <3>3. CASE j = i
        BY <3>1, <3>2, <3>3
      <3>4. CASE j > i
        <4>1. W!Upto(vecs, i) <= W!Upto(vecs, j - 1)
          BY <2>2, <3>1, <3>4
        <4> QED  BY <3>1, <3>2, <4>1
      <3>5. CASE j < i
        BY <3>1, <3>5
      <3> QED  BY <3>1, <3>3, <3>4, <3>5
    <2>3. 0..k \subseteq G
      <3> HIDE DEF G
      <3> QED  BY <1>2, <2>1, <2>2, Upwards
    <2>4. W!Upto(vecs, i) <= W!Upto(vecs, k)
      BY <1>2, <2>3
    <2>5. v[i].base + v[i].len = issued + W!Upto(vecs, i)
      <3>1. i - 1 \in 0..k /\ i \in 0..k
        BY <1>2
      <3>2. /\ W!Upto(vecs, i) = W!Upto(vecs, i - 1) + vecs[i].len
            /\ W!Upto(vecs, i - 1) \in Nat /\ vecs[i].len \in Nat
        BY <1>3, <1>4, <3>1
      <3>3. v[i].base = issued + W!Upto(vecs, i - 1) /\ v[i].len = vecs[i].len
        BY <1>6
      <3> QED  BY <1>1, <3>2, <3>3
    <2>6. W!Upto(vecs, i) \in Nat
      BY <1>2, <1>4
    <2> QED  BY <1>1, <1>10, <2>4, <2>5, <2>6
  <1>12. v \in Seq(W!Vector)
    <2>1. ASSUME NEW i \in 1..Len(v) PROVE v[i] \in W!Vector
      <3>1. v[i] \in Pair
        <4> HIDE DEF Pair
        <4> QED  BY <1>6, ElementIn
      <3>2. v[i].base + v[i].len <= MaxBytes
        <4>1. v[i].base + v[i].len <= issued + W!Total(v)
          BY <1>6, <1>11
        <4> QED  BY <1>1, <1>5, <1>10, <3>1, <4>1
      <3>3. v[i].base \in 0..MaxBytes /\ v[i].len \in 0..MaxBytes
        BY <1>1, <3>1, <3>2
      <3> QED  BY <3>1, <3>3 DEF W!Vector
    <2> QED  BY <1>6, <2>1
  <1>13. Contig(v)
    <2> SUFFICES ASSUME NEW i \in 1..Len(v) - 1 PROVE v[i + 1].base = v[i].base + v[i].len
      BY DEF Contig
    <2>1. i \in 1..k /\ i + 1 \in 1..k /\ (i + 1) - 1 = i /\ i - 1 \in 0..k
      BY <1>2, <1>6
    <2>2. W!Upto(vecs, i) = W!Upto(vecs, i - 1) + vecs[i].len /\ W!Upto(vecs, i - 1) \in Nat /\ vecs[i].len \in Nat
      BY <1>3, <1>4, <2>1
    <2>3. /\ v[i + 1].base = issued + W!Upto(vecs, i) /\ v[i].base = issued + W!Upto(vecs, i - 1)
          /\ v[i].len = vecs[i].len
      BY <1>6, <2>1
    <2> QED  BY <1>1, <2>2, <2>3
  <1>14. v[1].base = issued
    <2>1. 1 \in 1..k /\ 1 - 1 = 0
      BY <1>2
    <2> QED  BY <1>1, <1>4, <1>6, <2>1
  <1>15. Ordered(wire, issued, lost) /\ heap = 0
    BY <1>5, WriteTypes DEF WriteInv, W!NoLeak
  <1>16. W!TypeOK'
    <2>1. w_pc' \in {"idle", "writev", "poll", "write", "writepoll"}
      BY <1>5
    <2>2. issued' \in 0..MaxBytes /\ nleft' \in 0..MaxBytes
      BY <1>1, <1>5, <1>10
    <2>3. w_ret' \in -1..MaxBytes
      BY <1>1, <1>5 DEF WriteInv, W!TypeOK
    <2>4. room' \in Nat
      BY <1>5, <1>7
    <2>5. lost' \subseteq 1..MaxBytes
      BY <1>5 DEF WriteInv, W!TypeOK
    <2> QED  BY <1>5, <1>12, <2>1, <2>2, <2>3, <2>4, <2>5 DEF WriteInv, W!TypeOK
  <1>17. W!WireInOrder' /\ W!CopyFits' /\ W!NoLeak'
    <2>1. w_pc' = "idle" => issued' = issued
      BY <1>1, <1>5
    <2>2. w_pc' # "idle" => issued' - nleft' = issued
      BY <1>1, <1>5, <1>10
    <2>3. W!Done' = issued
      BY <2>1, <2>2 DEF W!Done
    <2>4. W!WireInOrder'
      BY <1>5, <1>15, <2>3 DEF W!WireInOrder, Ordered
    <2> QED  BY <1>5, <1>7, <1>15, <2>4 DEF W!CopyFits, W!NoLeak
  <1>18. lost' \subseteq 1..issued'
    <2>1. issued <= issued' /\ issued' \in Nat
      BY <1>1, <1>5, <1>10
    <2> QED  BY <1>1, <1>5, <2>1
  <1>21. W!Total(iov)' = W!Total(v)
    BY <1>5 DEF W!Total, W!Upto, W!Sums
  <1>19. CASE W!Total(v) = 0
    <2>1. Counted'
      <3>1. (issued' - W!Total(v) + 1)..issued' = {}
        BY <1>1, <1>5, <1>19
      <3> QED  BY <1>5, <1>19, <1>21, <3>1 DEF Counted
    <2> QED  BY <1>5, <1>12, <1>13, <1>16, <1>17, <1>18, <1>19, <2>1 DEF WriteInv
  <1>20. CASE W!Total(v) # 0
    <2>1. Counted'
      BY <1>5, <1>20 DEF Counted
    <2>2. Left'
      <3>1. issued' - W!Total(v) = issued /\ W!Total(v) > 0
        BY <1>1, <1>5, <1>10, <1>20
      <3>2. W!Total(tmp_iov)' = W!Total(v)
        BY <1>5 DEF W!Total, W!Upto, W!Sums
      <3> QED  BY <1>1, <1>2, <1>5, <1>6, <1>10, <1>14, <1>21, <3>1, <3>2 DEF Left
    <2>3. Behind'
      <3>1. Len(v) - Len(v) + 1 = 1 /\ issued' - nleft' = issued
        BY <1>1, <1>5, <1>7, <1>10
      <3> QED  BY <1>1, <1>5, <1>7, <1>14, <1>20, <3>1 DEF Behind
    <2> QED  BY <1>5, <1>13, <1>16, <1>17, <1>18, <2>1, <2>2, <2>3 DEF WriteInv
  <1> QED  BY <1>19, <1>20

-----------------------------------------------------------------------------
\* What holds in the middle of a call: the socket is to take the byte after
\* issued - nleft next.
LEMMA InCall ==
    ASSUME WriteInv, w_pc # "idle"
    PROVE  /\ Len(iov) > 0 /\ Len(tmp_iov) > 0 /\ iov[1].base \in Nat /\ iov[1].base + W!Total(iov) = issued
           /\ nleft > 0 /\ nleft <= W!Total(iov) /\ issued - nleft \in Nat
           /\ tmp_iov[1].base = issued - nleft /\ tmp_iov[1].len \in Nat /\ W!Total(tmp_iov) = nleft
           /\ W!Total(iov) \in -1..MaxBytes /\ nleft \in 0..MaxBytes
           /\ heap = IF own = "heap" THEN 1 ELSE 0
           /\ Ordered(wire, issued - nleft, lost) /\ lost \subseteq 1..(issued - nleft)
  <1>1. Left /\ W!NoLeak
    BY DEF WriteInv
  <1>2. /\ iov \in Seq(W!Vector) /\ tmp_iov \in Seq(W!Vector) /\ Len(iov) \in Nat /\ Len(tmp_iov) \in Nat
        /\ W!Total(iov) \in Nat /\ issued \in Nat /\ issued <= MaxBytes /\ MaxBytes \in Nat
        /\ nleft \in Nat
    BY WriteTypes
  <1>3. 1 \in 1..Len(iov) /\ 1 \in 1..Len(tmp_iov)
    BY <1>1, <1>2 DEF Left
  <1>4. iov[1].base \in Nat /\ tmp_iov[1].len \in Nat
    BY <1>2, <1>3, VectorFields
  <1>5. W!Total(iov) \in -1..MaxBytes /\ nleft \in 0..MaxBytes /\ issued - nleft \in Nat
        /\ issued - W!Total(iov) \in Nat /\ issued - W!Total(iov) <= issued - nleft
    <2> DEFINE b == iov[1].base
               e == W!Total(iov)
    <2>1. b \in Nat /\ e \in Nat /\ b + e = issued /\ nleft <= e
      BY <1>1, <1>2, <1>4 DEF Left
    <2> HIDE DEF b, e
    <2>2. /\ e \in -1..MaxBytes /\ nleft \in 0..MaxBytes /\ issued - nleft \in Nat
          /\ issued - e \in Nat /\ issued - e <= issued - nleft
      BY <1>2, <2>1
    <2> QED  BY <2>2 DEF e
  <1>6. lost \subseteq 1..(issued - nleft)
    <2> DEFINE a == issued - W!Total(iov)
               z == issued - nleft
    <2>1. lost \subseteq 1..a /\ a \in Nat /\ z \in Nat /\ a <= z
      BY <1>1, <1>5 DEF Left
    <2> HIDE DEF a, z
    <2>2. lost \subseteq 1..z
      BY <2>1
    <2> QED  BY <2>2 DEF z
  <1>7. Ordered(wire, issued - nleft, lost)
    BY WriteTypes
  <1> QED  BY <1>1, <1>4, <1>5, <1>6, <1>7 DEF Left, W!NoLeak

\* The socket takes the next n bytes.
LEMMA Taken ==
    ASSUME WriteInv, w_pc # "idle", NEW n \in Nat, n <= nleft,
           NEW g \in Seq(Nat), Len(g) = n, \A j \in 1..n : g[j] = issued - nleft + j, wire' = wire \o g
    PROVE  wire' \in Seq(1..MaxBytes) /\ Ordered(wire', issued - (nleft - n), lost)
  <1> DEFINE z == issued - nleft
  <1>1. /\ wire \in Seq(1..MaxBytes) /\ issued \in Nat /\ issued <= MaxBytes
        /\ nleft \in Nat /\ MaxBytes \in Nat
    BY WriteTypes
  <1>2. z \in Nat /\ Ordered(wire, z, lost) /\ lost \in SUBSET (1..z)
    BY InCall
  <1>3. z + n <= MaxBytes /\ z + n = issued - (nleft - n) /\ \A j \in 1..n : g[j] = z + j
    BY <1>1
  <1> HIDE DEF z
  <1>4. wire \o g \in Seq(1..MaxBytes) /\ Ordered(wire \o g, z + n, lost)
    BY <1>1, <1>2, <1>3, WireGrows
  <1> QED  BY <1>3, <1>4

\* The vectors left once writev(2) has taken n bytes and not all.
LEMMA LeftAfter ==
    ASSUME WriteInv, w_pc # "idle", NEW n \in Nat, n < nleft
    PROVE  LET v == W!Recut(W!Total(iov) - (nleft - n)) IN
           /\ v \in Seq(W!Vector) /\ Contig(v) /\ Len(v) \in 1..Len(iov)
           /\ v[1].base = issued - (nleft - n) /\ W!Total(v) = nleft - n
           /\ \A o \in 0..Len(iov) - 1 : iov[o + 1].base <= issued - (nleft - n) => Len(v) <= Len(iov) - o
           /\ iov[Len(iov) - Len(v) + 1].base <= issued - (nleft - n)
  <1> DEFINE s == W!Total(iov) - (nleft - n)
  <1>1. /\ iov \in Seq(W!Vector) /\ Contig(iov) /\ W!Total(iov) \in Nat /\ nleft \in Nat
        /\ issued \in Nat /\ issued <= MaxBytes /\ MaxBytes \in Nat
    BY WriteTypes
  <1>2. /\ iov[1].base \in Nat /\ iov[1].base + W!Total(iov) = issued
        /\ nleft > 0 /\ nleft <= W!Total(iov)
    BY InCall
  <1>3. /\ s \in Nat /\ s < W!Total(iov) /\ iov[1].base + W!Total(iov) <= MaxBytes
        /\ iov[1].base + s = issued - (nleft - n) /\ W!Total(iov) - s = nleft - n
    <2> DEFINE a == iov[1].base
               e == W!Total(iov)
    <2>1. /\ a \in Nat /\ e \in Nat /\ nleft \in Nat /\ a + e = issued /\ nleft <= e
          /\ issued <= MaxBytes /\ MaxBytes \in Nat /\ issued \in Nat
      BY <1>1, <1>2
    <2> HIDE DEF a, e
    <2>2. /\ e - (nleft - n) \in Nat /\ e - (nleft - n) < e /\ a + e <= MaxBytes
          /\ a + (e - (nleft - n)) = issued - (nleft - n) /\ e - (e - (nleft - n)) = nleft - n
      BY <2>1
    <2> QED  BY <2>2 DEF a, e
  <1> HIDE DEF s
  <1>4. RecutFacts(W!Recut(s), s)
    BY <1>1, <1>3, RecutIs
  <1>5. RecutFacts(W!Recut(s), s) =>
           /\ W!Recut(s) \in Seq(W!Vector) /\ Contig(W!Recut(s)) /\ Len(W!Recut(s)) \in 1..Len(iov)
           /\ W!Recut(s)[1].base = issued - (nleft - n) /\ W!Total(W!Recut(s)) = nleft - n
           /\ \A o \in 0..Len(iov) - 1 :
                 iov[o + 1].base <= issued - (nleft - n) => Len(W!Recut(s)) <= Len(iov) - o
           /\ iov[Len(iov) - Len(W!Recut(s)) + 1].base <= issued - (nleft - n)
    BY <1>3 DEF RecutFacts
  <1> QED  BY <1>4, <1>5 DEF s

\* st_writev goes on with the vectors left, in an array with room for them.
LEMMA WritevSomeStep ==
    ASSUME WriteInv, NEW n \in 1..MaxBytes, W!WritevSome(n)
    PROVE  WriteInv'
  <1> DEFINE v == W!Recut(W!Total(iov) - (nleft - n))
  <1>1. /\ w_pc = "writev" /\ n <= nleft /\ wire' = wire \o W!Gather(tmp_iov, n)
        /\ issued' = issued /\ iov' = iov
        /\ n = nleft => W!Return(W!Total(iov), 0) /\ UNCHANGED <<tmp_iov, own, room, nleft>>
        /\ n # nleft => /\ nleft' = nleft - n /\ tmp_iov' = v /\ w_pc' = "poll" /\ w_ret' = w_ret
                        /\ lost' = lost
                        /\ own = "caller" => /\ own' = W!Array(v).own /\ room' = W!Array(v).room
                                             /\ heap' = IF W!Array(v).own = "heap" THEN heap + 1 ELSE heap
                        /\ own # "caller" => own' = own /\ room' = room /\ heap' = heap
    BY DEF W!WritevSome
  <1> HIDE DEF v
  <1>2. /\ tmp_iov \in Seq(W!Vector) /\ Contig(tmp_iov) /\ Contig(iov) /\ Len(tmp_iov) <= room
        /\ nleft \in Nat /\ issued \in Nat /\ MaxBytes \in Nat /\ Len(iov) \in Nat
        /\ Len(tmp_iov) \in Nat /\ room \in Nat /\ W!Total(iov) \in Nat /\ n \in Nat
    BY WriteTypes
  <1>3. /\ Len(iov) > 0 /\ Len(tmp_iov) > 0 /\ iov[1].base + W!Total(iov) = issued
        /\ tmp_iov[1].base = issued - nleft /\ W!Total(tmp_iov) = nleft /\ nleft > 0 /\ nleft <= W!Total(iov)
        /\ W!Total(iov) \in -1..MaxBytes /\ nleft \in 0..MaxBytes
        /\ heap = IF own = "heap" THEN 1 ELSE 0
    BY <1>1, InCall
  <1>4. /\ W!Gather(tmp_iov, n) \in Seq(Nat) /\ Len(W!Gather(tmp_iov, n)) = n
        /\ \A j \in 1..n : W!Gather(tmp_iov, n)[j] = issued - nleft + j
    <2>1. n <= W!Total(tmp_iov)
      BY <1>1, <1>3
    <2>2. /\ W!Gather(tmp_iov, n) \in Seq(Nat) /\ Len(W!Gather(tmp_iov, n)) = n
          /\ \A j \in 1..n : W!Gather(tmp_iov, n)[j] = tmp_iov[1].base + j
      BY <1>2, <2>1, GatherIs
    <2> QED  BY <1>3, <2>2
  <1>5. wire' \in Seq(1..MaxBytes) /\ Ordered(wire', issued - (nleft - n), lost)
    BY <1>1, <1>2, <1>4, Taken
  <1>6. CASE n = nleft
    <2>1. /\ W!Return(W!Total(iov), 0) /\ UNCHANGED <<issued, iov, own, room>>
          /\ tmp_iov' = tmp_iov /\ nleft' = nleft
      BY <1>1, <1>6
    <2>2. ~(W!Total(iov) = -1) /\ ~(0 > 0) /\ 0 <= nleft
      BY <1>2
    <2>4. Ordered(wire', issued - 0, lost)
      <3>1. issued - (nleft - n) = issued - 0
        BY <1>2, <1>6
      <3> QED  BY <1>5, <3>1
    <2>3. Contig(tmp_iov') /\ Len(tmp_iov') <= room /\ tmp_iov' \in Seq(W!Vector) /\ nleft' \in 0..MaxBytes
      BY <1>2, <1>3, <2>1
    <2> QED  BY <1>1, <1>3, <1>5, <2>1, <2>2, <2>3, <2>4, Returned
  <1>7. CASE n # nleft
    <2>1. n < nleft
      BY <1>1, <1>2, <1>7
    <2>2. /\ v \in Seq(W!Vector) /\ Contig(v) /\ Len(v) \in 1..Len(iov)
          /\ v[1].base = issued - (nleft - n) /\ W!Total(v) = nleft - n
          /\ \A o \in 0..Len(iov) - 1 : iov[o + 1].base <= issued - (nleft - n) => Len(v) <= Len(iov) - o
          /\ iov[Len(iov) - Len(v) + 1].base <= issued - (nleft - n)
      BY <1>1, <1>2, <2>1, LeftAfter DEF v
    <2>3. /\ nleft' = nleft - n /\ tmp_iov' = v /\ w_pc' = "poll" /\ w_ret' = w_ret
          /\ issued' = issued /\ iov' = iov /\ lost' = lost
      BY <1>1, <1>7
    <2>4. Len(v) <= Len(tmp_iov)
      <3> DEFINE o == Len(iov) - Len(tmp_iov)
      <3>1. Len(tmp_iov) <= Len(iov) /\ iov[o + 1].base <= issued - nleft
        BY <1>1 DEF WriteInv, Behind
      <3>2. o \in 0..Len(iov) - 1 /\ Len(iov) - o = Len(tmp_iov) /\ o + 1 \in 1..Len(iov)
        BY <1>2, <1>3, <3>1
      <3>3. iov[o + 1].base \in Nat
        <4>1. iov \in Seq(W!Vector)
          BY WriteTypes
        <4> QED  BY <3>2, <4>1, VectorFields
      <3> HIDE DEF o
      <3>4. iov[o + 1].base <= issued - (nleft - n)
        BY <1>2, <3>1, <3>3
      <3> QED  BY <2>2, <3>2, <3>4
    <2>5. /\ own' \in {"caller", "local", "heap"} /\ room' \in Nat /\ Len(v) <= room'
          /\ heap' = IF own' = "heap" THEN 1 ELSE 0
      <3>1. Len(v) \in Nat /\ LocalMaxIov \in Nat
        BY <1>2, <2>2, WritevSizes DEF W!WritevAssumption
      <3>2. CASE own = "caller"
        <4>1. CASE Len(v) <= LocalMaxIov
          <5>1. W!Array(v) = [own |-> "local", room |-> LocalMaxIov]
            BY <4>1 DEF W!Array
          <5> QED  BY <1>1, <1>3, <1>7, <3>1, <3>2, <4>1, <5>1
        <4>2. CASE ~(Len(v) <= LocalMaxIov)
          <5>1. W!Array(v) = [own |-> "heap", room |-> Len(v)]
            BY <4>2 DEF W!Array
          <5>2. own' = "heap" /\ room' = Len(v) /\ heap' = heap + 1 /\ heap = 0
            BY <1>1, <1>3, <1>7, <3>2, <5>1
          <5> QED  BY <3>1, <5>2
        <4> QED  BY <4>1, <4>2
      <3>3. CASE own # "caller"
        <4>1. own' = own /\ room' = room /\ heap' = heap
          BY <1>1, <1>7, <3>3
        <4>2. own \in {"caller", "local", "heap"}
          BY DEF WriteInv, W!TypeOK
        <4>3. Len(v) <= room
          BY <1>2, <2>4, <3>1
        <4> QED  BY <1>2, <1>3, <4>1, <4>2, <4>3
      <3> QED  BY <3>2, <3>3
    <2>6. nleft - n \in 0..MaxBytes /\ nleft - n > 0 /\ nleft - n <= W!Total(iov)
      <3> DEFINE e == W!Total(iov)
      <3>1. e \in Nat /\ nleft <= e
        BY <1>2, <1>3
      <3> HIDE DEF e
      <3>2. nleft - n \in 0..MaxBytes /\ nleft - n > 0 /\ nleft - n <= e
        BY <1>2, <1>3, <2>1, <3>1
      <3> QED  BY <3>2 DEF e
    <2>7. W!TypeOK'
      <3>1. heap' \in Nat
        BY <2>5
      <3>2. issued \in 0..MaxBytes /\ iov \in Seq(W!Vector) /\ w_ret \in -1..MaxBytes
        BY DEF WriteInv, W!TypeOK
      <3> QED  BY <1>5, <2>2, <2>3, <2>5, <2>6, <3>1, <3>2 DEF WriteInv, W!TypeOK
    <2>8. W!CopyFits' /\ W!NoLeak' /\ Counted' /\ W!WireInOrder'
      BY <1>5, <2>3, <2>5 DEF W!CopyFits, W!NoLeak, Counted, W!WireInOrder, W!Done, Ordered
    <2>9. Left'
      <3>1. Len(v) > 0
        BY <1>2, <2>2
      <3>2. lost \subseteq 1..(issued - W!Total(iov))
        BY <1>1 DEF WriteInv, Left
      <3>3. W!Total(iov)' = W!Total(iov) /\ W!Total(tmp_iov)' = W!Total(v)
        BY <2>3 DEF W!Total, W!Upto, W!Sums
      <3> QED  BY <1>3, <2>2, <2>3, <2>6, <3>1, <3>2, <3>3 DEF Left
    <2>10. Behind'
      <3>1. Len(v) <= Len(iov)
        BY <1>2, <2>2
      <3> QED  BY <2>2, <2>3, <3>1 DEF Behind
    <2>11. Contig(iov') /\ Contig(tmp_iov') /\ lost' \subseteq 1..issued'
      BY <1>2, <2>2, <2>3 DEF WriteInv
    <2> QED  BY <2>3, <2>7, <2>8, <2>9, <2>10, <2>11 DEF WriteInv
  <1> QED  BY <1>6, <1>7

LEMMA NoMemoryStep ==
    ASSUME WriteInv, NEW n \in 1..MaxBytes, W!WritevNoMemory(n)
    PROVE  WriteInv'
  <1>1. /\ w_pc = "writev" /\ n < nleft /\ wire' = wire \o W!Gather(tmp_iov, n) /\ nleft' = nleft - n
        /\ W!Return(-1, nleft - n) /\ UNCHANGED <<issued, iov, tmp_iov, own, room>>
    BY DEF W!WritevNoMemory
  <1>2. /\ tmp_iov \in Seq(W!Vector) /\ Contig(tmp_iov) /\ Len(tmp_iov) <= room
        /\ nleft \in Nat /\ MaxBytes \in Nat /\ n \in Nat
    BY WriteTypes
  <1>3. tmp_iov[1].base = issued - nleft /\ W!Total(tmp_iov) = nleft /\ nleft \in 0..MaxBytes
    BY <1>1, InCall
  <1>4. n <= nleft /\ nleft - n \in Nat /\ nleft - n > 0 /\ nleft - n <= nleft
    BY <1>1, <1>2
  <1>5. /\ W!Gather(tmp_iov, n) \in Seq(Nat) /\ Len(W!Gather(tmp_iov, n)) = n
        /\ \A j \in 1..n : W!Gather(tmp_iov, n)[j] = issued - nleft + j
    <2>1. n <= W!Total(tmp_iov)
      BY <1>3, <1>4
    <2>2. /\ W!Gather(tmp_iov, n) \in Seq(Nat) /\ Len(W!Gather(tmp_iov, n)) = n
          /\ \A j \in 1..n : W!Gather(tmp_iov, n)[j] = tmp_iov[1].base + j
      BY <1>2, <2>1, GatherIs
    <2> QED  BY <1>3, <2>2
  <1>6. wire' \in Seq(1..MaxBytes) /\ Ordered(wire', issued - (nleft - n), lost)
    BY <1>1, <1>2, <1>4, <1>5, Taken
  <1>7. nleft' \in 0..MaxBytes
    BY <1>1, <1>2, <1>3
  <1>8. -1 \in -1..MaxBytes
    BY <1>2
  <1>9. Contig(tmp_iov') /\ Len(tmp_iov') <= room /\ tmp_iov' \in Seq(W!Vector)
    BY <1>1, <1>2
  <1> QED  BY <1>1, <1>4, <1>6, <1>7, <1>8, <1>9, Returned

\* What a single vector holds.
LEMMA OneVector ==
    ASSUME NEW v \in Seq(W!Vector), Len(v) = 1
    PROVE  W!Total(v) = v[1].len /\ Contig(v)
  <1>1. W!Upto(v, 0) = 0 /\ \A i \in 1..Len(v) : W!Upto(v, i) = W!Upto(v, i - 1) + v[i].len
    BY VectorSums
  <1>2. 1 \in 1..Len(v) /\ 1 - 1 = 0
    OBVIOUS
  <1>3. v[1].len \in Nat
    BY <1>2, VectorFields
  <1>4. W!Upto(v, 1) = W!Upto(v, 0) + v[1].len
    BY <1>1, <1>2
  <1> QED  BY <1>1, <1>3, <1>4 DEF W!Total, Contig

LEMMA WriteSomeStep ==
    ASSUME WriteInv, NEW n \in 1..MaxBytes, W!WriteSome(n)
    PROVE  WriteInv'
  <1> DEFINE g == [j \in 1..n |-> tmp_iov[1].base + j]
             r == [base |-> tmp_iov[1].base + n, len |-> tmp_iov[1].len - n]
  <1>1. /\ w_pc = "write" /\ n <= nleft /\ wire' = wire \o g
        /\ issued' = issued /\ iov' = iov /\ own' = own /\ room' = room
        /\ n = nleft => W!Return(W!Total(iov), 0) /\ UNCHANGED <<tmp_iov, nleft>>
        /\ n # nleft => /\ tmp_iov' = <<r>> /\ nleft' = nleft - n
                        /\ w_pc' = "writepoll" /\ w_ret' = w_ret /\ heap' = heap
                        /\ lost' = lost
    BY DEF W!WriteSome
  <1>2. /\ tmp_iov \in Seq(W!Vector) /\ Contig(tmp_iov) /\ Contig(iov) /\ Len(tmp_iov) <= room
        /\ nleft \in Nat /\ issued \in Nat /\ MaxBytes \in Nat /\ Len(iov) \in Nat
        /\ room \in Nat /\ W!Total(iov) \in Nat /\ n \in Nat /\ issued <= MaxBytes
    BY WriteTypes
  <1>3. /\ Len(iov) > 0 /\ iov[1].base + W!Total(iov) = issued
        /\ tmp_iov[1].base = issued - nleft /\ W!Total(tmp_iov) = nleft /\ nleft <= W!Total(iov)
        /\ issued - nleft \in Nat
        /\ W!Total(iov) \in -1..MaxBytes /\ nleft \in 0..MaxBytes
        /\ heap = IF own = "heap" THEN 1 ELSE 0
    BY <1>1, InCall
  <1>4. Len(tmp_iov) = 1
    BY <1>1 DEF WriteInv, Behind
  <1>5. tmp_iov[1].len = nleft
    BY <1>2, <1>3, <1>4, OneVector
  <1>6. g \in Seq(Nat) /\ Len(g) = n /\ \A j \in 1..n : g[j] = issued - nleft + j
    <2>1. g = [j \in 1..n |-> issued - nleft + j]
      BY <1>3
    <2> DEFINE z == issued - nleft
               y == [j \in 1..n |-> z + j]
    <2>2. g \in Seq(Nat) /\ Len(g) = n
      <3>1. z \in Nat
        BY <1>3
      <3> HIDE DEF z
      <3>2. y \in Seq(Nat) /\ Len(y) = n
        BY <1>2, <3>1, NewBytes
      <3> HIDE DEF y
      <3>3. g = y
        BY <2>1 DEF y, z
      <3> QED  BY <3>2, <3>3
    <2> QED  BY <2>1, <2>2
  <1> HIDE DEF g
  <1>7. wire' \in Seq(1..MaxBytes) /\ Ordered(wire', issued - (nleft - n), lost)
    BY <1>1, <1>2, <1>6, Taken
  <1>8. CASE n = nleft
    <2>1. /\ W!Return(W!Total(iov), 0) /\ UNCHANGED <<issued, iov, own, room>>
          /\ tmp_iov' = tmp_iov /\ nleft' = nleft
      BY <1>1, <1>8
    <2>2. ~(W!Total(iov) = -1) /\ ~(0 > 0) /\ 0 <= nleft
      BY <1>2
    <2>4. Ordered(wire', issued - 0, lost)
      <3>1. issued - (nleft - n) = issued - 0
        BY <1>2, <1>8
      <3> QED  BY <1>7, <3>1
    <2>3. Contig(tmp_iov') /\ Len(tmp_iov') <= room /\ tmp_iov' \in Seq(W!Vector) /\ nleft' \in 0..MaxBytes
      BY <1>2, <1>3, <2>1
    <2> QED  BY <1>1, <1>3, <1>7, <2>1, <2>2, <2>3, <2>4, Returned
  <1>9. CASE n # nleft
    <2>1. /\ tmp_iov' = <<r>> /\ nleft' = nleft - n /\ w_pc' = "writepoll" /\ w_ret' = w_ret /\ heap' = heap
          /\ lost' = lost
      BY <1>1, <1>9
    <2>2. r.base = issued - (nleft - n) /\ r.len = nleft - n
      BY <1>2, <1>3, <1>5
    <2>3. nleft - n \in 0..MaxBytes /\ nleft - n > 0 /\ nleft - n <= W!Total(iov)
      <3> DEFINE e == W!Total(iov)
      <3>1. e \in Nat /\ nleft <= e
        BY <1>2, <1>3
      <3> HIDE DEF e
      <3>2. nleft - n \in 0..MaxBytes /\ nleft - n > 0 /\ nleft - n <= e
        BY <1>1, <1>2, <1>3, <1>9, <3>1
      <3> QED  BY <3>2 DEF e
    <2>4. r \in W!Vector
      <3>1. issued - nleft + n \in 0..MaxBytes
        BY <1>1, <1>2, <1>3
      <3> QED  BY <1>3, <1>5, <2>3, <3>1 DEF W!Vector
    <2> HIDE DEF r
    <2>5. <<r>> \in Seq(W!Vector) /\ Len(<<r>>) = 1 /\ <<r>>[1] = r
      BY <2>4
    <2>6. W!Total(<<r>>) = nleft - n /\ Contig(<<r>>)
      BY <2>2, <2>5, OneVector
    <2>7. W!TypeOK'
      <3>1. /\ issued \in 0..MaxBytes /\ iov \in Seq(W!Vector) /\ w_ret \in -1..MaxBytes
            /\ own \in {"caller", "local", "heap"} /\ heap \in Nat /\ lost \subseteq 1..MaxBytes
        BY DEF WriteInv, W!TypeOK
      <3> QED  BY <1>1, <1>2, <1>7, <2>1, <2>3, <2>5, <3>1 DEF W!TypeOK
    <2>8. W!CopyFits' /\ W!NoLeak' /\ Counted'
      BY <1>1, <1>2, <1>3, <1>4, <2>1, <2>5 DEF W!CopyFits, W!NoLeak, Counted
    <2>12. W!WireInOrder'
      BY <1>1, <1>7, <2>1 DEF W!WireInOrder, W!Done, Ordered
    <2>9. Left'
      <3>1. lost \subseteq 1..(issued - W!Total(iov))
        BY <1>1 DEF WriteInv, Left
      <3>2. W!Total(iov)' = W!Total(iov) /\ W!Total(tmp_iov)' = W!Total(<<r>>)
        BY <1>1, <2>1 DEF W!Total, W!Upto, W!Sums
      <3> QED  BY <1>1, <1>3, <2>1, <2>2, <2>3, <2>5, <2>6, <3>1, <3>2 DEF Left
    <2>10. Behind'
      BY <2>1, <2>5 DEF Behind
    <2>11. Contig(iov') /\ Contig(tmp_iov') /\ lost' \subseteq 1..issued'
      BY <1>1, <1>2, <2>1, <2>6 DEF WriteInv
    <2> QED  BY <2>1, <2>7, <2>8, <2>9, <2>10, <2>11, <2>12 DEF WriteInv
  <1> QED  BY <1>8, <1>9

\* A wait, and the end of one, leave everything where it is.
LEMMA PollSteps ==
    ASSUME WriteInv, W!NotReady \/ W!PollReady
    PROVE  WriteInv'
  <1>1. /\ UNCHANGED <<wire, lost, issued, iov, tmp_iov, own, room, nleft, w_ret, heap>>
        /\ w_pc # "idle" /\ w_pc' \in {"writev", "poll", "write", "writepoll"}
        /\ w_pc' \in {"write", "writepoll"} => w_pc \in {"write", "writepoll"} \/ Len(tmp_iov) = 1
        /\ w_pc' \in {"writev", "poll"} => w_pc \in {"writev", "poll"}
    BY DEF W!NotReady, W!PollReady, W!Again
  <1>2. W!TypeOK' /\ W!WireInOrder' /\ W!CopyFits' /\ W!NoLeak' /\ Counted'
    BY <1>1 DEF WriteInv, W!TypeOK, W!WireInOrder, W!Done, W!CopyFits, W!NoLeak, Counted
  <1>3. Left' /\ Behind'
    BY <1>1 DEF WriteInv, Left, Behind
  <1> QED  BY <1>1, <1>2, <1>3 DEF WriteInv

LEMMA FailsStep ==
    ASSUME WriteInv, W!Fails
    PROVE  WriteInv'
  <1>1. w_pc # "idle" /\ W!Return(-1, nleft) /\ UNCHANGED <<wire, issued, iov, tmp_iov, own, room, nleft>>
    BY DEF W!Fails
  <1>2. /\ wire \in Seq(1..MaxBytes) /\ MaxBytes \in Nat
        /\ tmp_iov \in Seq(W!Vector) /\ Contig(tmp_iov) /\ Len(tmp_iov) <= room /\ nleft \in Nat
    BY WriteTypes
  <1>3. nleft > 0 /\ nleft <= nleft /\ nleft \in 0..MaxBytes /\ Ordered(wire, issued - nleft, lost)
    BY <1>1, <1>2, InCall
  <1>4. -1 \in -1..MaxBytes
    BY <1>2
  <1>5. wire' \in Seq(1..MaxBytes) /\ Ordered(wire', issued - nleft, lost)
    BY <1>1, <1>2, <1>3
  <1>6. Contig(tmp_iov') /\ Len(tmp_iov') <= room /\ tmp_iov' \in Seq(W!Vector) /\ nleft' \in 0..MaxBytes
    BY <1>1, <1>2, <1>3
  <1> QED  BY <1>1, <1>2, <1>3, <1>4, <1>5, <1>6, Returned

LEMMA WriteStep == WriteInv /\ [W!Next]_W!vars => WriteInv'
  <1> SUFFICES ASSUME WriteInv, [W!Next]_W!vars PROVE WriteInv'
    OBVIOUS
  <1>1. ASSUME NEW k \in 1..MaxVecs, NEW vecs \in [1..k -> [len : VecLens]], W!Call(vecs) PROVE WriteInv'
    BY <1>1, CallStep
  <1>2. ASSUME NEW n \in 1..MaxBytes, W!WritevSome(n) PROVE WriteInv'
    BY <1>2, WritevSomeStep
  <1>3. ASSUME NEW n \in 1..MaxBytes, W!WriteSome(n) PROVE WriteInv'
    BY <1>3, WriteSomeStep
  <1>4. ASSUME NEW n \in 1..MaxBytes, W!WritevNoMemory(n) PROVE WriteInv'
    BY <1>4, NoMemoryStep
  <1>5. CASE W!NotReady \/ W!PollReady
    BY <1>5, PollSteps
  <1>6. CASE W!Fails
    BY <1>6, FailsStep
  <1>7. CASE UNCHANGED W!vars
    <2>1. /\ UNCHANGED <<wire, lost, issued, w_pc, iov, tmp_iov, own, room, nleft, w_ret, heap>>
          /\ W!Total(iov)' = W!Total(iov) /\ W!Total(tmp_iov)' = W!Total(tmp_iov)
      BY <1>7 DEF W!vars, W!Total, W!Upto, W!Sums
    <2>2. W!TypeOK' /\ W!WireInOrder' /\ W!CopyFits' /\ W!NoLeak'
      BY <2>1 DEF WriteInv, W!TypeOK, W!WireInOrder, W!Done, W!CopyFits, W!NoLeak
    <2>3. Contig(iov') /\ Contig(tmp_iov') /\ lost' \subseteq 1..issued'
      BY <2>1 DEF WriteInv
    <2>4. Counted'
      BY <2>1 DEF WriteInv, Counted
    <2>5. w_pc' # "idle" => Left' /\ Behind'
      BY <2>1 DEF WriteInv, Left, Behind
    <2> QED  BY <2>2, <2>3, <2>4, <2>5 DEF WriteInv
  <1> QED  BY <1>1, <1>2, <1>3, <1>4, <1>5, <1>6, <1>7 DEF W!Next, W!Writes

LEMMA InvWhole == WriteInv => WritesWhole
  <1> SUFFICES ASSUME WriteInv PROVE WritesWhole
    OBVIOUS
  <1>1. W!CountExact
    BY DEF WriteInv, Counted, W!CountExact
  <1> QED  BY <1>1 DEF WriteInv, WritesWhole, W!WritesWhole

\* For vectors of any number and length, wherever the socket stops and however the
\* coroutine goes on after an error: st_writev gives it the caller's bytes in order
\* and nothing twice, returns the count exactly if it gave all of them, and what a
\* call that failed left is all that the stream misses; it never writes past the
\* array of its copy and frees it.
THEOREM WritesAreWhole == W!Spec => []WritesWhole
  BY WriteInit, WriteStep, InvWhole, PTL DEF W!Spec
=============================================================================
