----------------------------- MODULE MediaProofs -----------------------------
(***************************************************************************)
(* The drift of the stored timestamps, for every width of the timestamp    *)
(* field, every int and every publisher's clock; and the messages that     *)
(* come out of the chunks, for every set of chunk streams, chunk size and  *)
(* length and number of messages.                                          *)
(***************************************************************************)
EXTENDS Media, TLAPS, SequenceTheorems

(* Timestamps. *)

\* Quotient and remainder.
LEMMA DivMod ==
    ASSUME NEW a \in Int, NEW w \in Nat \ {0}
    PROVE  /\ a = w * (a \div w) + (a % w)
           /\ a % w \in 0..(w - 1) /\ a \div w \in Int
  OBVIOUS

LEMMA Multiple ==
    ASSUME NEW w \in Nat \ {0}, NEW z \in Int, z >= 1
    PROVE  w * z >= w
  OBVIOUS

\* A remainder is unique.
LEMMA UniqueRemainder ==
    ASSUME NEW w \in Nat \ {0}, NEW p \in Int, NEW q \in Int,
           NEW r \in 0..(w - 1), NEW s \in 0..(w - 1), w * p + r = w * q + s
    PROVE  r = s
  <1>1. w * (p - q) = s - r
    OBVIOUS
  <1>2. CASE p - q >= 1
    <2>1. w * (p - q) >= w
      BY <1>2, Multiple
    <2> QED  BY <1>1, <2>1
  <1>3. CASE q - p >= 1
    <2>1. w * (q - p) >= w
      BY <1>3, Multiple
    <2>2. w * (q - p) = r - s
      BY <1>1
    <2> QED  BY <2>1, <2>2
  <1>4. CASE p = q
    BY <1>4
  <1> QED  BY <1>2, <1>3, <1>4

\* A number below the divisor is its own remainder.
LEMMA SmallRemainder ==
    ASSUME NEW w \in Nat \ {0}, NEW v \in 0..(w - 1)
    PROVE  v % w = v
  <1> DEFINE q == v \div w
             r == v % w
  <1>1. v = w * q + r /\ r \in 0..(w - 1) /\ q \in Int
    BY DivMod
  <1> HIDE DEF q, r
  <1>2. w * q + r = w * 0 + v
    BY <1>1
  <1>3. r = v
    BY <1>1, <1>2, UniqueRemainder
  <1> QED  BY <1>3 DEF r

Word == 2 * Half

LEMMA WordType == Word \in Nat \ {0} /\ Half \in Nat \ {0} /\ Ext \in Nat \ {0} /\ Half > Ext
                  /\ MaxTime \in Nat /\ MaxTime + Ext < 2 * Half
  BY TimeAssumption DEF Word

\* Ints differ from the number they stand for by a multiple of 2^32.
LEMMA AsIntCongruent ==
    ASSUME NEW v \in Int
    PROVE  AsInt(v) \in Ints /\ \E k \in Int : AsInt(v) = v + Word * k
  <1>1. v + Half \in Int
    BY WordType
  <1>2. /\ v + Half = Word * ((v + Half) \div Word) + ((v + Half) % Word)
        /\ (v + Half) % Word \in 0..(Word - 1) /\ (v + Half) \div Word \in Int
    BY <1>1, WordType, DivMod
  <1> DEFINE q == (v + Half) \div Word
             r == (v + Half) % Word
  <1>3. AsInt(v) = r - Half
    BY DEF AsInt, Word
  <1>4. r \in 0..(Word - 1) /\ q \in Int /\ v + Half = Word * q + r
    BY <1>2
  <1> HIDE DEF q, r
  <1>5. AsInt(v) \in Ints
    BY <1>3, <1>4, WordType DEF Ints, Word
  <1>6. AsInt(v) = v + Word * (-q)
    <2>1. Word * (-q) = -(Word * q) /\ Word * q \in Int
      BY <1>4, WordType
    <2> QED  BY <1>3, <1>4, <2>1, WordType
  <1>7. -q \in Int
    BY <1>4
  <1> QED  BY <1>5, <1>6, <1>7

\* Numbers that differ by a multiple of 2^32 are the same int.
LEMMA AsIntUnique ==
    ASSUME NEW u \in Int, NEW v \in Int, NEW k \in Int, u = v + Word * k
    PROVE  AsInt(u) = AsInt(v)
  <1> DEFINE p == (u + Half) \div Word
             r == (u + Half) % Word
             q == (v + Half) \div Word
             s == (v + Half) % Word
  <1>1. u + Half \in Int /\ v + Half \in Int
    BY WordType
  <1>2. r \in 0..(Word - 1) /\ p \in Int /\ u + Half = Word * p + r
    BY <1>1, WordType, DivMod
  <1>3. s \in 0..(Word - 1) /\ q \in Int /\ v + Half = Word * q + s
    BY <1>1, WordType, DivMod
  <1>4. AsInt(u) = r - Half /\ AsInt(v) = s - Half
    BY DEF AsInt, Word
  <1> HIDE DEF p, r, q, s
  <1>5. Word * p + r = Word * (q + k) + s
    <2>1. Word * (q + k) = Word * q + Word * k /\ Word * q \in Int /\ Word * k \in Int
      BY <1>3, WordType
    <2> QED  BY <1>2, <1>3, <2>1, WordType
  <1>6. r = s
    <2>1. q + k \in Int
      BY <1>3
    <2> QED  BY <1>2, <1>3, <1>5, <2>1, WordType, UniqueRemainder
  <1> QED  BY <1>4, <1>6

\* Addition of ints wraps around once, whatever was wrapped before.
LEMMA AsIntAdd ==
    ASSUME NEW u \in Int, NEW v \in Int
    PROVE  /\ AsInt(AsInt(u) + v) = AsInt(u + v)
           /\ AsInt(AsInt(u) + AsInt(v)) = AsInt(u + v)
  <1>1. PICK k \in Int : AsInt(u) = u + Word * k
    BY AsIntCongruent
  <1>2. PICK j \in Int : AsInt(v) = v + Word * j
    BY AsIntCongruent
  <1>3. Word * k \in Int /\ Word * j \in Int /\ Word * (k + j) = Word * k + Word * j
    BY WordType
  <1>4. AsInt(AsInt(u) + v) = AsInt(u + v)
    <2>1. AsInt(u) + v = (u + v) + Word * k
      BY <1>1, <1>3
    <2>2. AsInt(u) + v \in Int /\ u + v \in Int
      BY <1>1, <1>3
    <2> QED  BY <2>1, <2>2, AsIntUnique
  <1>5. AsInt(AsInt(u) + AsInt(v)) = AsInt(u + v)
    <2>1. AsInt(u) + AsInt(v) = (u + v) + Word * (k + j)
      BY <1>1, <1>2, <1>3
    <2>2. AsInt(u) + AsInt(v) \in Int /\ u + v \in Int /\ k + j \in Int
      BY <1>1, <1>2, <1>3
    <2> QED  BY <2>1, <2>2, AsIntUnique
  <1> QED  BY <1>4, <1>5

\* An int that fits is itself.
LEMMA AsIntSmall ==
    ASSUME NEW v \in Ints
    PROVE  AsInt(v) = v
  <1>1. v \in Int /\ v + Half \in 0..(Word - 1) /\ v + Half \in Int
    BY WordType DEF Ints, Word
  <1>2. (v + Half) % Word = v + Half
    BY <1>1, WordType, SmallRemainder
  <1>3. AsInt(v) = (v + Half) - Half
    BY <1>2 DEF AsInt, Word
  <1> QED  BY <1>1, <1>3, WordType

-----------------------------------------------------------------------------
\* Beside the drift: the delta in csid_header is the one the publisher would
\* repeat, and the drift never exceeds the publisher's time.
TimeInv ==
    /\ TypeOK
    /\ timestamp = AsInt(time + base)
    /\ started => delta = AsInt(step)
    /\ base <= Field(time)

LEMMA TimeInit == Init => TimeInv
  <1> SUFFICES ASSUME Init PROVE TimeInv
    OBVIOUS
  <1>1. -1 \in Ints /\ MaxTime \in Nat
    BY WordType DEF Ints
  <1>2. AsInt(-1) = -1
    BY <1>1, AsIntSmall
  <1>3. TypeOK
    <2>1. time \in 0..MaxTime /\ step \in 0..MaxTime /\ base \in -1..Ext /\ unread \in {0, 4}
      BY WordType DEF Init
    <2>2. timestamp \in Ints /\ delta \in Ints
      BY <1>1 DEF Init
    <2>3. started \in BOOLEAN /\ known \in BOOLEAN
      BY Zenon DEF Init
    <2> QED  BY <2>1, <2>2, <2>3, Zenon DEF TypeOK
  <1>4. base <= Field(time) /\ time + base = -1
    BY WordType DEF Init, Field
  <1> QED  BY <1>2, <1>3, <1>4 DEF Init, TimeInv

\* The decoder, for the three kinds of header.
LEMMA FullDecoded ==
    ASSUME NEW t \in 0..MaxTime, ReadHeader(0, t)
    PROVE  /\ timestamp' = AsInt(t + Field(t)) /\ delta' = AsInt(t) /\ known' = TRUE
  <1>1. t \in Int /\ Field(t) \in Int /\ Ext \in Int
    BY WordType DEF Field
  <1>2. CASE t < Ext
    <2>1. t \in Ints
      BY <1>2, WordType DEF Ints
    <2>2. AsInt(t) = t
      BY <2>1, AsIntSmall
    <2>3. Field(t) = t /\ Field(t) # Ext
      BY <1>1, <1>2 DEF Field
    <2> QED  BY <2>2, <2>3 DEF ReadHeader
  <1>3. CASE t >= Ext
    <2>1. Field(t) = Ext
      BY <1>1, <1>3 DEF Field
    <2>2. timestamp' = AsInt(Ext + AsInt(t)) /\ delta' = AsInt(t) /\ known' = TRUE
      BY <2>1 DEF ReadHeader
    <2>3. AsInt(t) \in Int
      BY <1>1, AsIntCongruent DEF Ints
    <2>4. Ext + AsInt(t) = AsInt(t) + Ext
      BY <1>1, <2>3
    <2>5. AsInt(AsInt(t) + Ext) = AsInt(t + Ext)
      BY <1>1, AsIntAdd
    <2> QED  BY <2>1, <2>2, <2>4, <2>5
  <1>4. t < Ext \/ t >= Ext
    BY <1>1
  <1> QED  BY <1>2, <1>3, <1>4, Zenon

LEMMA DifferenceDecoded ==
    ASSUME NEW fmt \in {1, 2}, NEW d \in 0..MaxTime, ReadHeader(fmt, d),
           NEW v \in Int, timestamp = AsInt(v)
    PROVE  timestamp' = AsInt(v + d) /\ delta' = AsInt(d) /\ known' = TRUE
  <1>1. d \in Int /\ Ext \in Int /\ fmt # 0 /\ fmt <= 2
    BY WordType
  <1>2. delta' = AsInt(d) /\ known' = TRUE /\ timestamp' = AsInt(timestamp + AsInt(d))
    <2>1. CASE d < Ext
      <3>1. d \in Ints
        BY <2>1, WordType DEF Ints
      <3>2. AsInt(d) = d
        BY <3>1, AsIntSmall
      <3>3. Field(d) = d /\ Field(d) # Ext
        BY <1>1, <2>1 DEF Field
      <3> QED  BY <1>1, <3>2, <3>3 DEF ReadHeader
    <2>2. CASE d >= Ext
      <3>1. Field(d) = Ext
        BY <1>1, <2>2 DEF Field
      <3> QED  BY <1>1, <3>1 DEF ReadHeader
    <2>3. d < Ext \/ d >= Ext
      BY <1>1
    <2> QED  BY <2>1, <2>2, <2>3, Zenon
  <1>3. AsInt(AsInt(v) + AsInt(d)) = AsInt(v + d)
    BY <1>1, AsIntAdd
  <1> QED  BY <1>2, <1>3

LEMMA TimeStep == TimeInv /\ [Next]_vars => TimeInv'
  <1> SUFFICES ASSUME TimeInv, [Next]_vars PROVE TimeInv'
    OBVIOUS
  <1>1. /\ time \in 0..MaxTime /\ step \in 0..MaxTime /\ started \in BOOLEAN
        /\ base \in -1..Ext /\ unread \in {0, 4} /\ time + base \in Int /\ MaxTime \in Nat
    BY WordType DEF TimeInv, TypeOK
  <1>2. \A v \in Int : AsInt(v) \in Ints
    BY AsIntCongruent
  <1>3. ASSUME NEW t \in 0..MaxTime, Full(t) PROVE TimeInv'
    <2>1. timestamp' = AsInt(t + Field(t)) /\ delta' = AsInt(t) /\ known' = TRUE
      BY <1>3, FullDecoded DEF Full
    <2>2. time' = t /\ step' = t /\ started' = TRUE /\ base' = Field(t) /\ unread' = unread
      BY <1>3 DEF Full
    <2>3. Field(t) \in -1..Ext /\ t \in Int /\ t + Field(t) \in Int
      BY WordType DEF Field
    <2>4. base' <= Field(time')
      BY <2>2, <2>3
    <2>5. TypeOK'
      BY <1>1, <1>2, <2>1, <2>2, <2>3 DEF TypeOK
    <2> QED  BY <2>1, <2>2, <2>4, <2>5 DEF TimeInv
  <1>4. ASSUME NEW fmt \in {1, 2}, NEW d \in 0..MaxTime, Difference(fmt, d) PROVE TimeInv'
    <2>1. timestamp' = AsInt((time + base) + d) /\ delta' = AsInt(d) /\ known' = TRUE
      BY <1>1, <1>4, DifferenceDecoded DEF Difference, TimeInv
    <2>2. /\ time' = time + d /\ step' = d /\ started' = TRUE /\ base' = base
          /\ unread' = unread /\ time + d <= MaxTime
      BY <1>4 DEF Difference
    <2>3. (time + base) + d = time' + base' /\ (time + base) + d \in Int /\ d \in Int
      BY <1>1, <2>2
    <2>4. base' <= Field(time')
      BY <1>1, <2>2, WordType DEF TimeInv, Field
    <2>5. TypeOK'
      BY <1>1, <1>2, <2>1, <2>2, <2>3 DEF TypeOK
    <2> QED  BY <2>1, <2>2, <2>3, <2>4, <2>5 DEF TimeInv
  <1>5. CASE Repeat
    <2>1. /\ started /\ time' = time + step /\ step' = step /\ started' = started
          /\ base' = base /\ unread' \in {0, 4} /\ time + step <= MaxTime
      BY <1>5 DEF Repeat
    <2>2. timestamp' = AsInt(timestamp + delta) /\ delta' = delta /\ known' = TRUE
      BY <1>5 DEF Repeat, ReadHeader
    <2>3. AsInt(AsInt(time + base) + AsInt(step)) = AsInt((time + base) + step)
      BY <1>1, AsIntAdd
    <2>4. timestamp' = AsInt(time' + base') /\ time' + base' \in Int
      <3>1. (time + base) + step = time' + base'
        BY <1>1, <2>1
      <3> QED  BY <1>1, <2>1, <2>2, <2>3, <3>1 DEF TimeInv
    <2>5. base' <= Field(time')
      BY <1>1, <2>1, WordType DEF TimeInv, Field
    <2>6. TypeOK'
      BY <1>1, <1>2, <2>1, <2>2, <2>4 DEF TypeOK, TimeInv
    <2> QED  BY <2>1, <2>2, <2>4, <2>5, <2>6 DEF TimeInv
  <1>6. CASE UNCHANGED vars
    BY <1>6 DEF vars, TimeInv, TypeOK, Field
  <1> QED  BY <1>3, <1>4, <1>5, <1>6 DEF Next

LEMMA TimeSpec == Spec => []TimeInv
  <1> QED  BY TimeInit, TimeStep, PTL DEF Spec

\* Timestamps of a chunk stream drift from the publisher's clock by the field of
\* the last full header (one less than nothing before it), and by nothing else.
THEOREM DriftIsLastFullHeader == Spec => []Drift
  <1>1. TimeInv => Drift
    BY DEF TimeInv, Drift
  <1> QED  BY <1>1, TimeSpec, PTL

\* What AsInt does to the times that occur.
LEMMA StoredTime ==
    ASSUME TimeInv
    PROVE  /\ time + base \in -1..(Word - 1)
           /\ time + base < Half => timestamp = time + base
           /\ time + base >= Half => timestamp = (time + base) - Word
  <1>1. time \in 0..MaxTime /\ base \in -1..Ext /\ timestamp = AsInt(time + base)
    BY DEF TimeInv, TypeOK
  <1>2. time + base \in -1..(Word - 1) /\ time + base \in Int
    BY <1>1, WordType DEF Word
  <1>3. ASSUME time + base < Half PROVE timestamp = time + base
    <2>1. time + base \in Ints
      BY <1>2, <1>3, WordType DEF Ints
    <2> QED  BY <1>1, <2>1, AsIntSmall
  <1>4. ASSUME time + base >= Half PROVE timestamp = (time + base) - Word
    <2> DEFINE u == (time + base) - Word
    <2>1. u \in Ints /\ u \in Int
      BY <1>1, <1>2, <1>4, WordType DEF Ints, Word
    <2>2. AsInt(u) = u
      BY <2>1, AsIntSmall
    <2>3. u = (time + base) + Word * (-1)
      BY <1>1, <1>2, WordType
    <2>4. AsInt(u) = AsInt(time + base)
      BY <1>2, <2>1, <2>3, AsIntUnique
    <2> QED  BY <1>1, <2>2, <2>4
  <1> QED  BY <1>2, <1>3, <1>4

\* A player gets the stored time in a header it can parse exactly when the time
\* is neither negative nor beyond an int.
THEOREM PlayedWhileInRange == Spec => []PlayedWell
  <1>1. TimeInv => PlayedWell
    <2> SUFFICES ASSUME TimeInv PROVE PlayedWell
      OBVIOUS
    <2> DEFINE v == time + base
    <2>1. /\ v \in -1..(Word - 1) /\ (v < Half => timestamp = v)
          /\ (v >= Half => timestamp = v - Word)
      BY StoredTime
    <2>2. Ext + 1 \in Nat \ {0} /\ timestamp \in Int
      BY WordType DEF TimeInv, TypeOK, Ints
    <2>3. timestamp % (Ext + 1) \in 0..Ext
      <3>1. timestamp % (Ext + 1) \in 0..((Ext + 1) - 1)
        BY <2>2, DivMod
      <3> QED  BY <3>1, WordType
    <2> HIDE DEF v
    <2>4. CASE v >= Ext /\ v < Half
      <3>1. timestamp = v /\ timestamp >= Ext
        BY <2>1, <2>4
      <3>2. PlayerHeader(timestamp) = [field |-> Ext, size |-> 16]
        BY <3>1 DEF PlayerHeader
      <3>3. v \in 0..(Half - 1)
        BY <2>1, <2>4, WordType
      <3> QED  BY <3>1, <3>2, <3>3 DEF PlayedWell, Understood, PlayedTime, v
    <2>5. CASE v >= 0 /\ v < Ext
      <3>1. timestamp = v /\ ~(timestamp >= Ext) /\ v \in 0..Ext
        BY <2>1, <2>5, WordType
      <3>2. v % (Ext + 1) = v
        <4>1. v \in 0..((Ext + 1) - 1)
          BY <3>1, WordType
        <4> QED  BY <2>2, <4>1, SmallRemainder
      <3>3. PlayerHeader(timestamp) = [field |-> v, size |-> 12]
        BY <3>1, <3>2 DEF PlayerHeader
      <3>4. v # Ext /\ v \in 0..(Half - 1)
        BY <2>5, <3>1, WordType
      <3> QED  BY <3>1, <3>3, <3>4 DEF PlayedWell, Understood, PlayedTime, v
    <2>6. CASE v = -1 \/ v >= Half
      <3>1. timestamp < 0 /\ ~(timestamp >= Ext) /\ v \notin 0..Ext
        BY <2>1, <2>6, WordType DEF Word
      <3>2. PlayerHeader(timestamp).size = 12
            /\ PlayerHeader(timestamp).field = timestamp % (Ext + 1)
        BY <3>1 DEF PlayerHeader
      <3>3. PlayedTime(timestamp) # v
        BY <2>3, <3>1, <3>2 DEF PlayedTime
      <3>4. v \notin 0..(Half - 1)
        BY <2>1, <2>6, WordType
      <3> QED  BY <3>3, <3>4 DEF PlayedWell, v
    <2> QED  BY <2>1, <2>4, <2>5, <2>6, WordType
  <1> QED  BY <1>1, TimeSpec, PTL

LEMMA SumsOrdered ==
    ASSUME NEW a \in Int, NEW b \in Int, NEW c \in Int, NEW d \in Int, a <= c, b <= d
    PROVE  a + b <= c + d /\ a + b \in Int /\ c + d \in Int
  OBVIOUS

LEMMA SumFits ==
    ASSUME NEW a \in 0..MaxTime, NEW b \in -1..Ext, a + b < Half
    PROVE  a + b \in Ints
  BY WordType DEF Ints

\* A step does not move the stored timestamp back.
LEMMA ForwardStep ==
    ASSUME TimeInv, TimeInv', [Next]_vars, time' + base' < Half
    PROVE  timestamp' >= timestamp
  <1>1. /\ time \in 0..MaxTime /\ base \in -1..Ext
        /\ time' \in 0..MaxTime /\ base' \in -1..Ext
    BY DEF TimeInv, TypeOK
  <1>2. time <= time' /\ base <= base'
    <2>1. ASSUME NEW t \in 0..MaxTime, Full(t) PROVE time <= time' /\ base <= base'
      BY <1>1, <2>1, WordType DEF Full, Field, TimeInv
    <2>2. ASSUME NEW fmt \in {1, 2}, NEW d \in 0..MaxTime, Difference(fmt, d)
          PROVE  time <= time' /\ base <= base'
      BY <1>1, <2>2 DEF Difference
    <2>3. CASE Repeat
      BY <1>1, <2>3 DEF Repeat, TimeInv, TypeOK
    <2>4. CASE UNCHANGED vars
      BY <1>1, <2>4 DEF vars
    <2> QED  BY <2>1, <2>2, <2>3, <2>4 DEF Next
  <1>3. time + base <= time' + base' /\ time + base \in Int /\ time' + base' \in Int
    <2>1. time \in Int /\ base \in Int /\ time' \in Int /\ base' \in Int
      BY <1>1
    <2> QED  BY <1>2, <2>1, SumsOrdered
  <1>4. time + base < Half
    BY <1>3, WordType
  <1>5. timestamp = time + base
    BY <1>4, StoredTime
  <1>6. timestamp' = time' + base'
    <2>1. time' + base' \in Ints
      BY <1>1, SumFits
    <2>2. AsInt(time' + base') = time' + base'
      BY <2>1, AsIntSmall
    <2> QED  BY <2>2 DEF TimeInv
  <1> QED  BY <1>3, <1>5, <1>6

\* The stored timestamp of a chunk stream never runs backwards before it
\* overflows, if the publisher's clock does not.
THEOREM TimesMoveForward == Spec => Forward
  <1>1. TimeInv /\ TimeInv' /\ [Next]_vars
        => [started /\ time' + base' < Half => timestamp' >= timestamp]_vars
    BY ForwardStep
  <1> QED  BY <1>1, TimeSpec, PTL DEF Spec, Forward

-----------------------------------------------------------------------------
(* Chunk streams. *)

\* An element of the wire.
Elem == [k : {"basic"}, fmt : 0..3, csid : Csid] \cup [k : {"message"}, len : 0..DemuxMaxLen]
          \cup [k : {"data"}, msg : Nat, pos : Nat]

MsgRec == [csid : Csid, len : 1..DemuxMaxLen]

\* The length of a message is on the wire where its header says so.
Paired(w) ==
    \A i \in 1..Len(w) : w[i].k = "basic" /\ w[i].fmt <= 1 =>
        i + 1 \in 1..Len(w) /\ w[i + 1].k = "message"

\* j is the last of the first n messages of s that are on chunk stream c.
IsLast(s, j, c, n) ==
    /\ j \in 1..n /\ s[j].csid = c
    /\ \A x \in 1..n : s[x].csid = c => x <= j

\* Where the data behind the basic header at i begin.
DataAt(w, i) == IF w[i].fmt = 3 THEN i + 1 ELSE i + 2

\* At i message m begins: the length is there, or the one before it on its chunk
\* stream has the same.
Starts(w, s, m, i) ==
    /\ m \in 1..Len(s) /\ i \in 1..Len(w) /\ DataAt(w, i) \in 1..Len(w)
    /\ w[i].k = "basic" /\ w[i].csid = s[m].csid
    /\ w[DataAt(w, i)] = D!Data(m, 1)
    /\ w[i].fmt <= 1 => w[i + 1] = D!Message(s[m].len)
    /\ w[i].fmt > 1 => \E j \in 1..m - 1 : IsLast(s, j, s[m].csid, m - 1) /\ s[j].len = s[m].len

\* At i the first k bytes of message m are behind the reader.
After(w, s, l, m, k, i) ==
    /\ m \in 1..Len(s) /\ k \in 1..s[m].len
    /\ k = s[m].len =>
          \/ i = Len(w) + 1 /\ m = Len(s) /\ \A c \in Csid : l[c] = 0
          \/ Starts(w, s, m + 1, i)
    /\ k < s[m].len =>
          \/ i = Len(w) + 1 /\ m = Len(s) /\ l[s[m].csid] = s[m].len - k
          \/ /\ i \in 1..Len(w) /\ i + 1 \in 1..Len(w)
             /\ w[i] = D!Basic(3, s[m].csid) /\ w[i + 1] = D!Data(m, k + 1)

\* At i lies the chunk of message m that begins behind the first k bytes.
ChunkFrom(w, s, l, m, k, i) ==
    LET n == D!Least(s[m].len - k, DemuxChunkSize) IN
    /\ m \in 1..Len(s) /\ k \in Nat /\ k < s[m].len
    /\ i \in 1..Len(w) /\ i + n - 1 \in 1..Len(w)
    /\ \A j \in 1..n : w[i + j - 1] = D!Data(m, k + j)
    /\ After(w, s, l, m, k + n, i + n)

\* Behind the basic header at i lies the whole of a chunk.
ChunkAt(w, s, l, i) ==
    LET d == DataAt(w, i) IN
    /\ d \in 1..Len(w) /\ w[d].k = "data"
    /\ w[d].msg \in 1..Len(s) /\ w[d].pos \in Nat \ {0}
    /\ ChunkFrom(w, s, l, w[d].msg, w[d].pos - 1, d)

Chunked(w, s, l) == \A i \in 1..Len(w) : w[i].k = "basic" => ChunkAt(w, s, l, i)

-----------------------------------------------------------------------------
LEMMA LeastProps ==
    ASSUME NEW a \in Nat \ {0}
    PROVE  D!Least(a, DemuxChunkSize) \in Nat \ {0} /\ D!Least(a, DemuxChunkSize) <= a
  BY DemuxSizes DEF D!DemuxAssumption, D!Least

LEMMA LenType ==
    ASSUME NEW s \in Seq(MsgRec), NEW m \in 1..Len(s)
    PROVE  s[m] \in MsgRec /\ s[m].csid \in Csid /\ s[m].len \in Nat \ {0}
  <1>1. s[m] \in MsgRec
    OBVIOUS
  <1> QED  BY <1>1, DemuxSizes DEF MsgRec, D!DemuxAssumption

\* The wire from position x + 1 on.
Cut(w, x) == SubSeq(w, x + 1, Len(w))

LEMMA CutProps ==
    ASSUME NEW w \in Seq(Elem), NEW x \in 0..Len(w)
    PROVE  /\ Cut(w, x) \in Seq(Elem) /\ Len(Cut(w, x)) = Len(w) - x
           /\ \A i \in 1..Len(w) - x : Cut(w, x)[i] = w[i + x]
  BY DEF Cut

LEMMA CutPlaces ==
    ASSUME NEW w \in Seq(Elem), NEW x \in 0..Len(w)
    PROVE  LET v == Cut(w, x) IN
           Len(w) \in Nat /\ Len(v) = Len(w) - x /\ \A j \in 1..Len(v) : v[j] = w[j + x]
  <1> DEFINE v == Cut(w, x)
  <1>1. Len(v) = Len(w) - x /\ \A j \in 1..Len(w) - x : v[j] = w[j + x]
    BY CutProps
  <1>2. Len(w) \in Nat
    OBVIOUS
  <1> HIDE DEF v
  <1>3. Len(v) = Len(w) - x /\ \A j \in 1..Len(v) : v[j] = w[j + x]
    BY <1>1
  <1> QED  BY <1>2, <1>3 DEF v

LEMMA CutPaired ==
    ASSUME NEW w \in Seq(Elem), NEW x \in 0..Len(w), Paired(w)
    PROVE  Paired(Cut(w, x))
  <1> DEFINE v == Cut(w, x)
  <1>1. Len(v) = Len(w) - x /\ \A i \in 1..Len(v) : v[i] = w[i + x]
    BY CutProps
  <1> HIDE DEF v
  <1>2. \A i \in 1..Len(v) : i + x \in 1..Len(w)
    BY <1>1
  <1>3. ASSUME NEW i \in 1..Len(v), v[i].k = "basic", v[i].fmt <= 1
        PROVE  i + 1 \in 1..Len(v) /\ v[i + 1].k = "message"
    <2>1. i + x \in 1..Len(w) /\ w[i + x].k = "basic" /\ w[i + x].fmt <= 1
      BY <1>1, <1>2, <1>3
    <2>2. i + x + 1 \in 1..Len(w) /\ w[i + x + 1].k = "message"
      BY <2>1 DEF Paired
    <2>3. i + 1 \in 1..Len(v) /\ (i + 1) + x = i + x + 1
      BY <1>1, <2>2
    <2> QED  BY <1>1, <2>2, <2>3
  <1> QED  BY <1>3 DEF Paired, v

LEMMA CutStarts ==
    ASSUME NEW w \in Seq(Elem), NEW x \in 0..Len(w), NEW s, NEW m \in Nat, NEW i \in Nat \ {0},
           Starts(w, s, m, i + x)
    PROVE  Starts(Cut(w, x), s, m, i)
  <1> DEFINE v == Cut(w, x)
  <1>1. Len(w) \in Nat /\ Len(v) = Len(w) - x /\ \A j \in 1..Len(v) : v[j] = w[j + x]
    BY CutPlaces
  <1> HIDE DEF v
  <1>2. i + x \in 1..Len(w) /\ i \in 1..Len(v) /\ v[i] = w[i + x]
    BY <1>1 DEF Starts
  <1>3. DataAt(w, i + x) = DataAt(v, i) + x /\ DataAt(v, i) \in {i + 1, i + 2}
    BY <1>2 DEF DataAt
  <1>4. DataAt(w, i + x) \in 1..Len(w) /\ w[DataAt(w, i + x)] = D!Data(m, 1)
    BY DEF Starts
  <1>5. DataAt(v, i) \in 1..Len(v) /\ v[DataAt(v, i)] = D!Data(m, 1)
    BY <1>1, <1>2, <1>3, <1>4
  <1>6. v[i].fmt <= 1 => v[i + 1] = D!Message(s[m].len)
    <2> SUFFICES ASSUME v[i].fmt <= 1 PROVE v[i + 1] = D!Message(s[m].len)
      OBVIOUS
    <2>1. w[i + x + 1] = D!Message(s[m].len)
      BY <1>2 DEF Starts
    <2>2. v[i].fmt # 3 \/ v[i].fmt = 3
      OBVIOUS
    <2>3. i + 1 \in 1..Len(v) /\ (i + 1) + x = i + x + 1
      BY <1>1, <1>2, <1>3, <1>5
    <2> QED  BY <1>1, <2>1, <2>3
  <1> QED  BY <1>2, <1>5, <1>6 DEF Starts, v

LEMMA CutAfter ==
    ASSUME NEW w \in Seq(Elem), NEW x \in 0..Len(w), NEW s, NEW l, NEW m \in Nat, NEW k \in Nat,
           NEW i \in Nat \ {0}, After(w, s, l, m, k, i + x)
    PROVE  After(Cut(w, x), s, l, m, k, i)
  <1> DEFINE v == Cut(w, x)
  <1>1. Len(w) \in Nat /\ Len(v) = Len(w) - x /\ \A j \in 1..Len(v) : v[j] = w[j + x]
    BY CutPlaces
  <1>2. Starts(w, s, m + 1, i + x) => Starts(v, s, m + 1, i)
    BY CutStarts
  <1> HIDE DEF v
  <1>3. i + x = Len(w) + 1 => i = Len(v) + 1
    BY <1>1
  <1>4. i + x \in 1..Len(w) /\ i + x + 1 \in 1..Len(w) =>
           /\ i \in 1..Len(v) /\ i + 1 \in 1..Len(v)
           /\ v[i] = w[i + x] /\ v[i + 1] = w[i + x + 1]
    <2> SUFFICES ASSUME i + x \in 1..Len(w), i + x + 1 \in 1..Len(w)
                 PROVE  /\ i \in 1..Len(v) /\ i + 1 \in 1..Len(v)
                        /\ v[i] = w[i + x] /\ v[i + 1] = w[i + x + 1]
      OBVIOUS
    <2>1. i \in 1..Len(v) /\ i + 1 \in 1..Len(v) /\ (i + 1) + x = i + x + 1
      BY <1>1
    <2>2. v[i] = w[i + x]
      BY <1>1, <2>1
    <2>3. v[i + 1] = w[(i + 1) + x]
      BY <1>1, <2>1
    <2> QED  BY <2>1, <2>2, <2>3
  <1> QED  BY <1>2, <1>3, <1>4 DEF After, v

LEMMA CutChunk ==
    ASSUME NEW w \in Seq(Elem), NEW x \in 0..Len(w), NEW s \in Seq(MsgRec), NEW l, NEW m \in Nat,
           NEW k \in Nat, NEW i \in Nat \ {0}, ChunkFrom(w, s, l, m, k, i + x)
    PROVE  ChunkFrom(Cut(w, x), s, l, m, k, i)
  <1> DEFINE v == Cut(w, x)
  <1>1. Len(w) \in Nat /\ Len(v) = Len(w) - x /\ \A j \in 1..Len(v) : v[j] = w[j + x]
    BY CutPlaces
  <1> DEFINE n == D!Least(s[m].len - k, DemuxChunkSize)
  <1>2. /\ m \in 1..Len(s) /\ k \in Nat /\ k < s[m].len
        /\ i + x \in 1..Len(w) /\ i + x + n - 1 \in 1..Len(w)
        /\ \A j \in 1..n : w[i + x + j - 1] = D!Data(m, k + j)
        /\ After(w, s, l, m, k + n, i + x + n)
    BY DEF ChunkFrom
  <1>3. n \in Nat /\ n > 0
    <2> DEFINE a == s[m].len - k
    <2>1. a \in Nat \ {0}
      BY <1>2, LenType
    <2>2. D!Least(a, DemuxChunkSize) \in Nat \ {0}
      <3> HIDE DEF a
      <3> QED  BY <2>1, LeastProps
    <2> QED  BY <2>2
  <1>4. After(v, s, l, m, k + n, i + n)
    <2>1. k + n \in Nat /\ i + n \in Nat \ {0} /\ i + x + n = (i + n) + x
      <3> HIDE DEF n
      <3> QED  BY <1>3
    <2> HIDE DEF n
    <2> QED  BY <1>2, <2>1, CutAfter
  <1> HIDE DEF v, n
  <1>5. i \in 1..Len(v) /\ i + n - 1 \in 1..Len(v)
    <2>1. i + x \in 1..Len(w) /\ i + x + n - 1 \in 1..Len(w) /\ Len(v) = Len(w) - x /\ Len(w) \in Nat
      BY <1>1, <1>2
    <2> QED  BY <1>3, <2>1
  <1>6. ASSUME NEW j \in 1..n PROVE v[i + j - 1] = D!Data(m, k + j)
    <2>1. i + j - 1 \in 1..Len(v) /\ (i + j - 1) + x = i + x + j - 1
      BY <1>3, <1>5
    <2> QED  BY <1>1, <1>2, <2>1
  <1> QED  BY <1>2, <1>4, <1>5, <1>6 DEF ChunkFrom, v, n

LEMMA CutChunked ==
    ASSUME NEW w \in Seq(Elem), NEW x \in 0..Len(w), NEW s \in Seq(MsgRec), NEW l, Chunked(w, s, l)
    PROVE  Chunked(Cut(w, x), s, l)
  <1> DEFINE v == Cut(w, x)
  <1>1. Len(w) \in Nat /\ Len(v) = Len(w) - x /\ \A j \in 1..Len(v) : v[j] = w[j + x]
    BY CutPlaces
  <1> HIDE DEF v
  <1> SUFFICES ASSUME NEW i \in 1..Len(v), v[i].k = "basic"
               PROVE  LET d == DataAt(v, i) IN
                      /\ d \in 1..Len(v) /\ v[d].k = "data"
                      /\ v[d].msg \in 1..Len(s) /\ v[d].pos \in Nat \ {0}
                      /\ ChunkFrom(v, s, l, v[d].msg, v[d].pos - 1, d)
    BY DEF Chunked, ChunkAt, v
  <1> DEFINE d == DataAt(v, i)
             e == DataAt(w, i + x)
  <1>2. i + x \in 1..Len(w) /\ w[i + x] = v[i]
    BY <1>1
  <1>3. e = d + x /\ d \in {i + 1, i + 2}
    BY <1>2 DEF DataAt
  <1>4. /\ e \in 1..Len(w) /\ w[e].k = "data"
        /\ w[e].msg \in 1..Len(s) /\ w[e].pos \in Nat \ {0}
        /\ ChunkFrom(w, s, l, w[e].msg, w[e].pos - 1, e)
    BY <1>2 DEF Chunked, ChunkAt
  <1> HIDE DEF d, e
  <1>5. d \in 1..Len(v) /\ d \in Nat \ {0} /\ v[d] = w[e]
    BY <1>1, <1>3, <1>4
  <1>6. ChunkFrom(v, s, l, w[e].msg, w[e].pos - 1, d)
    <2>1. w[e].msg \in Nat /\ w[e].pos - 1 \in Nat
      BY <1>4
    <2> QED  BY <1>3, <1>4, <1>5, <2>1, CutChunk DEF v
  <1> QED  BY <1>4, <1>5, <1>6 DEF d

-----------------------------------------------------------------------------
\* b begins with a.
Longer(a, b) == Len(a) <= Len(b) /\ \A i \in 1..Len(a) : b[i] = a[i]

LEMMA LongerIn ==
    ASSUME NEW a, NEW b, Longer(a, b), Len(a) \in Nat, Len(b) \in Nat, NEW i \in 1..Len(a)
    PROVE  i \in 1..Len(b) /\ b[i] = a[i]
  BY DEF Longer

LEMMA StartsKept ==
    ASSUME NEW w \in Seq(Elem), NEW v \in Seq(Elem), Longer(w, v),
           NEW s \in Seq(MsgRec), NEW z \in Seq(MsgRec), Longer(s, z),
           NEW m \in Nat, NEW i \in Nat, Starts(w, s, m, i)
    PROVE  Starts(v, z, m, i)
  <1>1. Len(w) \in Nat /\ Len(v) \in Nat /\ Len(s) \in Nat /\ Len(z) \in Nat
    OBVIOUS
  <1>2. m \in 1..Len(z) /\ z[m] = s[m]
    BY <1>1, LongerIn DEF Starts
  <1>3. i \in 1..Len(v) /\ v[i] = w[i]
    BY <1>1, LongerIn DEF Starts
  <1>4. DataAt(v, i) = DataAt(w, i) /\ DataAt(w, i) \in {i + 1, i + 2}
    BY <1>3 DEF DataAt
  <1>5. DataAt(v, i) \in 1..Len(v) /\ v[DataAt(v, i)] = D!Data(m, 1)
    <2>1. DataAt(w, i) \in 1..Len(w) /\ w[DataAt(w, i)] = D!Data(m, 1)
      BY DEF Starts
    <2> QED  BY <1>1, <1>4, <2>1, LongerIn
  <1>6. ASSUME v[i].fmt <= 1 PROVE v[i + 1] = D!Message(z[m].len)
    <2>1. w[i + 1] = D!Message(s[m].len)
      BY <1>3, <1>6 DEF Starts
    <2>2. i + 1 \in 1..Len(w)
      BY <1>1, <1>4 DEF Starts
    <2>3. v[i + 1] = w[i + 1]
      BY <1>1, <2>2, LongerIn
    <2> QED  BY <1>2, <2>1, <2>3
  <1>7. ASSUME v[i].fmt > 1
        PROVE  \E j \in 1..m - 1 : IsLast(z, j, z[m].csid, m - 1) /\ z[j].len = z[m].len
    <2>1. PICK j \in 1..m - 1 : IsLast(s, j, s[m].csid, m - 1) /\ s[j].len = s[m].len
      BY <1>3, <1>7 DEF Starts
    <2>2. \A e \in 1..m - 1 : z[e] = s[e]
      <3>1. \A e \in 1..m - 1 : e \in 1..Len(s)
        BY <1>1 DEF Starts
      <3> QED  BY <1>1, <3>1, LongerIn
    <2>3. IsLast(z, j, z[m].csid, m - 1) /\ z[j].len = z[m].len
      BY <1>2, <2>1, <2>2 DEF IsLast
    <2> QED  BY <2>3
  <1> QED  BY <1>2, <1>3, <1>5, <1>6, <1>7 DEF Starts

\* What is known of the messages that end with the wire is known of them when the
\* wire is w and more.
Carried(w, v, s, z, l, ll) ==
    \A m \in Nat, k \in Nat :
        After(w, s, l, m, k, Len(w) + 1) => After(v, z, ll, m, k, Len(w) + 1)

LEMMA AfterKept ==
    ASSUME NEW w \in Seq(Elem), NEW v \in Seq(Elem), Longer(w, v),
           NEW s \in Seq(MsgRec), NEW z \in Seq(MsgRec), Longer(s, z), NEW l, NEW ll,
           Carried(w, v, s, z, l, ll),
           NEW m \in Nat, NEW k \in Nat, NEW i \in Nat, After(w, s, l, m, k, i)
    PROVE  After(v, z, ll, m, k, i)
  <1>1. Len(w) \in Nat /\ Len(v) \in Nat /\ Len(s) \in Nat /\ Len(z) \in Nat
    OBVIOUS
  <1>2. CASE i = Len(w) + 1
    BY <1>2 DEF Carried
  <1>3. CASE i # Len(w) + 1
    <2>1. m \in 1..Len(z) /\ z[m] = s[m] /\ k \in 1..z[m].len
      BY <1>1, LongerIn DEF After
    <2>2. ASSUME k = s[m].len PROVE Starts(v, z, m + 1, i)
      <3>1. Starts(w, s, m + 1, i)
        BY <1>3, <2>2 DEF After
      <3> QED  BY <3>1, StartsKept
    <2>3. ASSUME k < s[m].len
          PROVE  /\ i \in 1..Len(v) /\ i + 1 \in 1..Len(v)
                 /\ v[i] = D!Basic(3, z[m].csid) /\ v[i + 1] = D!Data(m, k + 1)
      <3>1. /\ i \in 1..Len(w) /\ i + 1 \in 1..Len(w)
            /\ w[i] = D!Basic(3, s[m].csid) /\ w[i + 1] = D!Data(m, k + 1)
        BY <1>3, <2>3 DEF After
      <3> QED  BY <1>1, <2>1, <3>1, LongerIn
    <2> QED  BY <2>1, <2>2, <2>3 DEF After
  <1> QED  BY <1>2, <1>3

LEMMA ChunkKept ==
    ASSUME NEW w \in Seq(Elem), NEW v \in Seq(Elem), Longer(w, v),
           NEW s \in Seq(MsgRec), NEW z \in Seq(MsgRec), Longer(s, z), NEW l, NEW ll,
           Carried(w, v, s, z, l, ll),
           NEW m \in Nat, NEW k \in Nat, NEW i \in Nat, ChunkFrom(w, s, l, m, k, i)
    PROVE  ChunkFrom(v, z, ll, m, k, i)
  <1>1. Len(w) \in Nat /\ Len(v) \in Nat /\ Len(s) \in Nat /\ Len(z) \in Nat
    OBVIOUS
  <1>2. m \in 1..Len(s) /\ m \in 1..Len(z) /\ z[m] = s[m]
    BY <1>1, LongerIn DEF ChunkFrom
  <1> DEFINE n == D!Least(s[m].len - k, DemuxChunkSize)
  <1>3. /\ k < s[m].len /\ i \in 1..Len(w) /\ i + n - 1 \in 1..Len(w)
        /\ \A j \in 1..n : w[i + j - 1] = D!Data(m, k + j)
        /\ After(w, s, l, m, k + n, i + n)
    BY DEF ChunkFrom
  <1>4. n \in Nat /\ n > 0
    <2> DEFINE a == s[m].len - k
    <2>1. a \in Nat \ {0}
      BY <1>2, <1>3, LenType
    <2>2. D!Least(a, DemuxChunkSize) \in Nat \ {0}
      <3> HIDE DEF a
      <3> QED  BY <2>1, LeastProps
    <2> QED  BY <2>2
  <1>5. n = D!Least(z[m].len - k, DemuxChunkSize)
    BY <1>2
  <1> HIDE DEF n
  <1>6. After(v, z, ll, m, k + n, i + n)
    <2>1. k + n \in Nat /\ i + n \in Nat
      BY <1>4
    <2> QED  BY <1>3, <2>1, AfterKept
  <1>7. i \in 1..Len(v) /\ i + n - 1 \in 1..Len(v)
    BY <1>1, <1>3, LongerIn
  <1>8. ASSUME NEW j \in 1..n PROVE v[i + j - 1] = D!Data(m, k + j)
    <2>1. i + j - 1 \in 1..Len(w)
      <3>1. i \in 1..Len(w) /\ i + n - 1 \in 1..Len(w) /\ Len(w) \in Nat
        BY <1>1, <1>3
      <3> QED  BY <1>4, <3>1
    <2>2. v[i + j - 1] = w[i + j - 1]
      BY <1>1, <2>1, LongerIn
    <2> QED  BY <1>3, <2>2
  <1> QED  BY <1>2, <1>3, <1>5, <1>6, <1>7, <1>8 DEF ChunkFrom

LEMMA ChunkAtKept ==
    ASSUME NEW w \in Seq(Elem), NEW v \in Seq(Elem), Longer(w, v),
           NEW s \in Seq(MsgRec), NEW z \in Seq(MsgRec), Longer(s, z), NEW l, NEW ll,
           Carried(w, v, s, z, l, ll), Chunked(w, s, l),
           NEW i \in 1..Len(w), v[i].k = "basic"
    PROVE  ChunkAt(v, z, ll, i)
  <1>1. Len(w) \in Nat /\ Len(v) \in Nat /\ Len(s) \in Nat /\ Len(z) \in Nat
    OBVIOUS
  <1>2. v[i] = w[i] /\ w[i].k = "basic"
    BY <1>1, LongerIn
  <1> DEFINE d == DataAt(w, i)
  <1>3. /\ d \in 1..Len(w) /\ w[d].k = "data"
        /\ w[d].msg \in 1..Len(s) /\ w[d].pos \in Nat \ {0}
        /\ ChunkFrom(w, s, l, w[d].msg, w[d].pos - 1, d)
    BY <1>2 DEF Chunked, ChunkAt
  <1>4. DataAt(v, i) = d
    BY <1>2 DEF DataAt
  <1> HIDE DEF d
  <1>5. d \in 1..Len(v) /\ v[d] = w[d]
    BY <1>1, <1>3, LongerIn
  <1>6. w[d].msg \in 1..Len(z)
    BY <1>1, <1>3, LongerIn
  <1>7. ChunkFrom(v, z, ll, w[d].msg, w[d].pos - 1, d)
    <2>1. w[d].msg \in Nat /\ w[d].pos - 1 \in Nat /\ d \in Nat
      BY <1>3
    <2> QED  BY <1>3, <2>1, ChunkKept
  <1> QED  BY <1>3, <1>4, <1>5, <1>6, <1>7 DEF ChunkAt
-----------------------------------------------------------------------------
\* v is w, the header of a message or of a further chunk, and k bytes of message m.
Sends(v, w, f, c, n, m, from, k) ==
    LET e == IF f = 3 THEN 1 ELSE 2 IN
    /\ Len(v) = Len(w) + e + k
    /\ \A i \in 1..Len(w) : v[i] = w[i]
    /\ v[Len(w) + 1] = D!Basic(f, c)
    /\ f # 3 => v[Len(w) + 2] = D!Message(IF f <= 1 THEN n ELSE 0)
    /\ \A j \in 1..k : v[Len(w) + e + j] = D!Data(m, from + j)

LEMMA ElemTypes ==
    ASSUME NEW f \in 0..3, NEW c \in Csid, NEW n \in 0..DemuxMaxLen, NEW m \in Nat, NEW i \in Nat
    PROVE  D!Basic(f, c) \in Elem /\ D!Message(n) \in Elem /\ D!Data(m, i) \in Elem
  BY DEF D!Basic, D!Message, D!Data, Elem

LEMMA ChunkSeq ==
    ASSUME NEW m \in Nat, NEW from \in Nat, NEW k \in Nat
    PROVE  /\ D!Chunk(m, from, k) \in Seq(Elem) /\ Len(D!Chunk(m, from, k)) = k
           /\ \A j \in 1..k : D!Chunk(m, from, k)[j] = D!Data(m, from + j)
  <1>1. \A j \in 1..k : D!Data(m, from + j) \in Elem
    BY DEF D!Data, Elem
  <1> DEFINE B(j) == D!Data(m, from + j)
             x == [j \in 1..k |-> B(j)]
  <1>2. \A j \in 1..k : B(j) \in Elem
    BY <1>1
  <1> HIDE DEF B
  <1>3. x \in Seq(Elem) /\ Len(x) = k /\ \A j \in 1..k : x[j] = B(j)
    BY <1>2
  <1> QED  BY <1>3 DEF B, D!Chunk

LEMMA Joined ==
    ASSUME NEW a \in Seq(Elem), NEW b \in Seq(Elem)
    PROVE  /\ a \o b \in Seq(Elem) /\ Len(a \o b) = Len(a) + Len(b)
           /\ \A i \in 1..Len(a) : (a \o b)[i] = a[i]
           /\ \A i \in 1..Len(b) : (a \o b)[Len(a) + i] = b[i]
  OBVIOUS

LEMMA Single ==
    ASSUME NEW x \in Elem
    PROVE  <<x>> \in Seq(Elem) /\ Len(<<x>>) = 1 /\ <<x>>[1] = x
  OBVIOUS

LEMMA SentNext ==
    ASSUME NEW w \in Seq(Elem), NEW c \in Csid, NEW m \in Nat, NEW from \in Nat, NEW k \in Nat, NEW n
    PROVE  LET v == w \o <<D!Basic(3, c)>> \o D!Chunk(m, from, k) IN
           v \in Seq(Elem) /\ Sends(v, w, 3, c, n, m, from, k)
  <1> DEFINE b == <<D!Basic(3, c)>>
             x == D!Chunk(m, from, k)
             y == w \o b
             v == y \o x
  <1>1. D!Basic(3, c) \in Elem
    BY DEF D!Basic, Elem
  <1>2. b \in Seq(Elem) /\ Len(b) = 1 /\ b[1] = D!Basic(3, c)
    BY <1>1, Single
  <1>3. x \in Seq(Elem) /\ Len(x) = k /\ \A j \in 1..k : x[j] = D!Data(m, from + j)
    BY ChunkSeq
  <1>4. Len(w) \in Nat
    OBVIOUS
  <1> HIDE DEF b, x
  <1>5. /\ y \in Seq(Elem) /\ Len(y) = Len(w) + 1
        /\ \A i \in 1..Len(w) : y[i] = w[i]
        /\ y[Len(w) + 1] = D!Basic(3, c)
    <2>1. /\ y \in Seq(Elem) /\ Len(y) = Len(w) + Len(b)
          /\ \A i \in 1..Len(w) : y[i] = w[i]
          /\ \A i \in 1..Len(b) : y[Len(w) + i] = b[i]
      BY <1>2, Joined
    <2> HIDE DEF y
    <2> QED  BY <1>2, <2>1
  <1> HIDE DEF y
  <1>6. /\ v \in Seq(Elem) /\ Len(v) = Len(w) + 1 + k
        /\ \A i \in 1..Len(w) + 1 : v[i] = y[i]
        /\ \A j \in 1..k : v[Len(w) + 1 + j] = D!Data(m, from + j)
    BY <1>3, <1>4, <1>5, Joined
  <1> HIDE DEF v
  <1>7. Sends(v, w, 3, c, n, m, from, k)
    <2>1. \A i \in 1..Len(w) : v[i] = w[i]
      BY <1>4, <1>5, <1>6
    <2>2. v[Len(w) + 1] = D!Basic(3, c)
      BY <1>4, <1>5, <1>6
    <2> QED  BY <1>6, <2>1, <2>2 DEF Sends
  <1> QED  BY <1>6, <1>7 DEF v, y, b, x

LEMMA SentFirst ==
    ASSUME NEW w \in Seq(Elem), NEW f \in 0..3, NEW c \in Csid, NEW n \in 0..DemuxMaxLen,
           NEW m \in Nat, NEW k \in Nat
    PROVE  LET v == w \o <<D!Basic(f, c)>>
                      \o (IF f = 3 THEN <<>> ELSE <<D!Message(IF f <= 1 THEN n ELSE 0)>>)
                      \o D!Chunk(m, 0, k)
           IN  v \in Seq(Elem) /\ Sends(v, w, f, c, n, m, 0, k)
  <1> DEFINE b == <<D!Basic(f, c)>>
             g == D!Message(IF f <= 1 THEN n ELSE 0)
             h == IF f = 3 THEN <<>> ELSE <<g>>
             x == D!Chunk(m, 0, k)
             y == w \o b
             u == y \o h
             v == u \o x
             e == IF f = 3 THEN 1 ELSE 2
  <1>1. D!Basic(f, c) \in Elem /\ g \in Elem
    BY DemuxSizes DEF D!Basic, D!Message, Elem, D!DemuxAssumption
  <1>2. b \in Seq(Elem) /\ Len(b) = 1 /\ b[1] = D!Basic(f, c)
    BY <1>1, Single
  <1>3. x \in Seq(Elem) /\ Len(x) = k /\ \A j \in 1..k : x[j] = D!Data(m, 0 + j)
    BY ChunkSeq
  <1>4. Len(w) \in Nat
    OBVIOUS
  <1> HIDE DEF g
  <1>5. h \in Seq(Elem) /\ Len(h) = e - 1 /\ (f # 3 => h[1] = g)
    BY <1>1
  <1> HIDE DEF b, x, h
  <1>6. /\ y \in Seq(Elem) /\ Len(y) = Len(w) + 1
        /\ \A i \in 1..Len(w) : y[i] = w[i]
        /\ y[Len(w) + 1] = D!Basic(f, c)
    <2>1. /\ y \in Seq(Elem) /\ Len(y) = Len(w) + Len(b)
          /\ \A i \in 1..Len(w) : y[i] = w[i]
          /\ \A i \in 1..Len(b) : y[Len(w) + i] = b[i]
      BY <1>2, Joined
    <2> HIDE DEF y
    <2> QED  BY <1>2, <2>1
  <1> HIDE DEF y
  <1>7. /\ u \in Seq(Elem) /\ Len(u) = Len(w) + e
        /\ \A i \in 1..Len(w) + 1 : u[i] = y[i]
        /\ f # 3 => u[Len(w) + 2] = g
    <2>1. u \in Seq(Elem) /\ Len(u) = Len(y) + Len(h) /\ \A i \in 1..Len(y) : u[i] = y[i]
      BY <1>5, <1>6, Joined
    <2>2. \A i \in 1..Len(h) : u[Len(y) + i] = h[i]
      BY <1>5, <1>6, Joined
    <2>3. f # 3 => u[Len(y) + 1] = g
      BY <1>5, <2>2
    <2> HIDE DEF u
    <2>4. Len(y) + 1 = Len(w) + 2 /\ Len(y) + Len(h) = Len(w) + e
      BY <1>4, <1>5, <1>6
    <2> QED  BY <1>6, <2>1, <2>3, <2>4
  <1> HIDE DEF u
  <1>8. e \in {1, 2} /\ (f # 3 => e = 2)
    OBVIOUS
  <1> HIDE DEF e
  <1>9. /\ v \in Seq(Elem) /\ Len(v) = Len(w) + e + k
        /\ \A i \in 1..Len(w) + e : v[i] = u[i]
        /\ \A j \in 1..k : v[Len(w) + e + j] = D!Data(m, 0 + j)
    <2>1. /\ v \in Seq(Elem) /\ Len(v) = Len(u) + Len(x)
          /\ \A i \in 1..Len(u) : v[i] = u[i]
          /\ \A i \in 1..Len(x) : v[Len(u) + i] = x[i]
      BY <1>3, <1>7, Joined
    <2> HIDE DEF v
    <2> QED  BY <1>3, <1>7, <2>1
  <1> HIDE DEF v
  <1>10. Sends(v, w, f, c, n, m, 0, k)
    <2>1. \A i \in 1..Len(w) : v[i] = w[i]
      BY <1>4, <1>6, <1>7, <1>8, <1>9
    <2>2. v[Len(w) + 1] = D!Basic(f, c)
      <3>1. Len(w) + 1 \in 1..Len(w) + e /\ Len(w) + 1 \in 1..Len(w) + 1
        BY <1>4, <1>8
      <3> QED  BY <1>6, <1>7, <1>9, <3>1
    <2>3. f # 3 => v[Len(w) + 2] = g
      <3>1. f # 3 => Len(w) + 2 \in 1..Len(w) + e
        BY <1>4, <1>8
      <3> QED  BY <1>7, <1>9, <3>1
    <2> QED  BY <1>9, <2>1, <2>2, <2>3 DEF Sends, e, g
  <1> QED  BY <1>9, <1>10 DEF v, u, y, b, x, h, g

\* What stands at a place of the wire behind w.
LEMMA SentPlaces ==
    ASSUME NEW w \in Seq(Elem), NEW v \in Seq(Elem), NEW f \in 0..3, NEW c, NEW n,
           NEW m, NEW from \in Nat, NEW k \in Nat \ {0}, Sends(v, w, f, c, n, m, from, k),
           NEW i \in 1..Len(v), i > Len(w)
    PROVE  \/ i = Len(w) + 1 /\ v[i] = D!Basic(f, c)
           \/ i = Len(w) + 2 /\ f # 3 /\ v[i].k = "message"
           \/ v[i].k = "data"
  <1>1. Len(w) \in Nat /\ Len(v) \in Nat
    OBVIOUS
  <1> DEFINE e == IF f = 3 THEN 1 ELSE 2
             j == i - Len(w) - e
  <1>2. e \in {1, 2} /\ (e = 2 => f # 3)
    OBVIOUS
  <1>3. /\ Len(v) = Len(w) + e + k /\ v[Len(w) + 1] = D!Basic(f, c)
        /\ f # 3 => v[Len(w) + 2] = D!Message(IF f <= 1 THEN n ELSE 0)
        /\ \A a \in 1..k : v[Len(w) + e + a] = D!Data(m, from + a)
    BY DEF Sends
  <1> HIDE DEF e
  <1>4. j \in Int /\ i = Len(w) + e + j
    BY <1>1, <1>2
  <1>5. CASE j \in 1..k
    <2> HIDE DEF j
    <2>1. v[i] = D!Data(m, from + j)
      BY <1>3, <1>4, <1>5
    <2> QED  BY <2>1 DEF D!Data
  <1>6. CASE j \notin 1..k
    <2>1. j <= 0
      BY <1>1, <1>2, <1>3, <1>4, <1>6
    <2>2. i = Len(w) + 1 \/ (i = Len(w) + 2 /\ f # 3)
      BY <1>1, <1>2, <2>1
    <2> QED  BY <1>3, <2>2 DEF D!Message
  <1> QED  BY <1>5, <1>6

LEMMA SentPaired ==
    ASSUME NEW w \in Seq(Elem), NEW v \in Seq(Elem), NEW f \in 0..3, NEW c, NEW n,
           NEW m, NEW from \in Nat, NEW k \in Nat \ {0}, Sends(v, w, f, c, n, m, from, k), Paired(w)
    PROVE  Paired(v) /\ Longer(w, v)
  <1>1. Len(w) \in Nat /\ Len(v) \in Nat /\ Len(v) >= Len(w) + 2
    BY DEF Sends
  <1>2. Longer(w, v)
    BY <1>1 DEF Longer, Sends
  <1>3. ASSUME NEW i \in 1..Len(v), v[i].k = "basic", v[i].fmt <= 1
        PROVE  i + 1 \in 1..Len(v) /\ v[i + 1].k = "message"
    <2>1. CASE i <= Len(w)
      <3>1. i \in 1..Len(w) /\ v[i] = w[i]
        BY <1>1, <2>1 DEF Sends
      <3>2. i + 1 \in 1..Len(w) /\ w[i + 1].k = "message"
        BY <1>3, <3>1 DEF Paired
      <3> QED  BY <1>1, <1>2, <3>2, LongerIn
    <2>2. CASE i > Len(w)
      <3>1. i = Len(w) + 1 /\ v[i] = D!Basic(f, c)
        BY <1>3, <2>2, SentPlaces
      <3>2. f <= 1
        BY <1>3, <3>1 DEF D!Basic
      <3>3. v[Len(w) + 2] = D!Message(n)
        BY <3>2 DEF Sends
      <3> QED  BY <1>1, <3>1, <3>3 DEF D!Message
    <2> QED  BY <1>1, <2>1, <2>2
  <1> QED  BY <1>2, <1>3 DEF Paired

LEMMA ChunkPlaces ==
    ASSUME NEW w \in Seq(Elem), NEW v \in Seq(Elem), NEW e \in {1, 2}, NEW k \in Nat \ {0},
           Len(v) = Len(w) + e + k
    PROVE  LET d == Len(w) + 1 + e IN
           /\ d \in 1..Len(v) /\ d + k - 1 \in 1..Len(v) /\ d + k = Len(v) + 1
           /\ d = Len(w) + e + 1 /\ d \in Nat
  OBVIOUS

\* The chunk of message m behind the first bytes has k bytes.
Fills(s, m, from, k) == k = D!Least(s[m].len - from, DemuxChunkSize)

\* The chunk that was sent is whole.
LEMMA SentChunk ==
    ASSUME NEW w \in Seq(Elem), NEW v \in Seq(Elem), NEW s \in Seq(MsgRec), NEW l,
           NEW f \in 0..3, NEW c, NEW n, NEW m \in 1..Len(s), NEW from \in Nat, NEW k \in Nat \ {0},
           Sends(v, w, f, c, n, m, from, k), from < s[m].len,
           Fills(s, m, from, k), After(v, s, l, m, from + k, Len(v) + 1)
    PROVE  ChunkAt(v, s, l, Len(w) + 1)
  <1>1. Len(w) \in Nat /\ Len(v) \in Nat /\ m \in Nat
    OBVIOUS
  <1> DEFINE e == IF f = 3 THEN 1 ELSE 2
             d == Len(w) + 1 + e
  <1>2. e \in {1, 2}
    OBVIOUS
  <1>3. /\ Len(v) = Len(w) + e + k /\ v[Len(w) + 1] = D!Basic(f, c)
        /\ \A a \in 1..k : v[Len(w) + e + a] = D!Data(m, from + a)
    BY DEF Sends
  <1>4. DataAt(v, Len(w) + 1) = d
    BY <1>1, <1>3 DEF DataAt, D!Basic
  <1> HIDE DEF e
  <1>5. /\ d \in 1..Len(v) /\ d + k - 1 \in 1..Len(v) /\ d + k = Len(v) + 1
        /\ d = Len(w) + e + 1 /\ d \in Nat
    <2>1. Len(v) = Len(w) + e + k
      BY <1>3
    <2> QED  BY <1>2, <2>1, ChunkPlaces
  <1>6. ASSUME NEW j \in 1..k PROVE v[d + j - 1] = D!Data(m, from + j)
    <2>1. d + j - 1 = Len(w) + e + j
      BY <1>1, <1>2
    <2> QED  BY <1>3, <2>1
  <1>7. v[d] = D!Data(m, from + 1)
    <2>1. 1 \in 1..k
      OBVIOUS
    <2>2. v[Len(w) + e + 1] = D!Data(m, from + 1)
      BY <1>3, <2>1
    <2> QED  BY <1>5, <2>2
  <1> HIDE DEF d
  <1>8. ChunkFrom(v, s, l, m, from, d)
    BY <1>5, <1>6 DEF ChunkFrom, Fills
  <1>9. v[d].k = "data" /\ v[d].msg = m /\ v[d].pos = from + 1 /\ v[d].pos - 1 = from
    BY <1>7 DEF D!Data
  <1>10. from + 1 \in Nat \ {0} /\ m \in 1..Len(s)
    OBVIOUS
  <1>11. /\ d \in 1..Len(v) /\ v[d].k = "data"
         /\ v[d].msg \in 1..Len(s) /\ v[d].pos \in Nat \ {0}
         /\ ChunkFrom(v, s, l, v[d].msg, v[d].pos - 1, d)
    BY <1>5, <1>8, <1>9, <1>10
  <1> QED  BY <1>4, <1>11 DEF ChunkAt

LEMMA SentChunked ==
    ASSUME NEW w \in Seq(Elem), NEW v \in Seq(Elem), NEW f \in 0..3, NEW c, NEW n, NEW m,
           NEW from \in Nat, NEW k \in Nat \ {0}, Sends(v, w, f, c, n, m, from, k), Longer(w, v),
           NEW s \in Seq(MsgRec), NEW z \in Seq(MsgRec), Longer(s, z), NEW l, NEW ll,
           Carried(w, v, s, z, l, ll), Chunked(w, s, l), ChunkAt(v, z, ll, Len(w) + 1)
    PROVE  Chunked(v, z, ll)
  <1> SUFFICES ASSUME NEW i \in 1..Len(v), v[i].k = "basic" PROVE ChunkAt(v, z, ll, i)
    BY DEF Chunked
  <1>1. Len(w) \in Nat /\ Len(v) \in Nat
    OBVIOUS
  <1>2. CASE i <= Len(w)
    <2>1. i \in 1..Len(w)
      BY <1>1, <1>2
    <2> QED  BY <2>1, ChunkAtKept
  <1>3. CASE i > Len(w)
    <2>1. i = Len(w) + 1
      BY <1>3, SentPlaces
    <2> QED  BY <2>1
  <1> QED  BY <1>1, <1>2, <1>3

-----------------------------------------------------------------------------
GotRec == [csid : Csid, payload : Seq(Elem)]

\* The message a chunk stream is at is the last one sent on it, and what is left
\* of it is less than the whole: its first chunk went out with its header.
Pending ==
    \A c \in Csid :
        /\ current[c] \in 0..Len(sent)
        /\ current[c] > 0 => IsLast(sent, current[c], c, Len(sent))
        /\ left[c] > 0 => current[c] > 0 /\ left[c] < sent[current[c]].len

\* What holds of interleaved chunks too.
DemuxBase ==
    /\ D!TypeOK
    /\ wire \in Seq(Elem) /\ payload \in Seq(Elem) /\ got \in Seq(GotRec)
    /\ Paired(wire)
    /\ d_pc # "payload" => payload = <<>>
    /\ Pending

\* The messages whose header the server has read.
Heard == IF d_pc = "payload" THEN Len(got) + 1 ELSE Len(got)

\* The reader is where the next message begins.
AtHeader ==
    \/ wire = <<>> /\ Len(got) = Len(sent) /\ \A c \in Csid : left[c] = 0
    \/ Starts(wire, sent, Len(got) + 1, 1)

\* The reader is behind the first bytes of a message.
AtPayload ==
    LET m == Len(got) + 1 k == Len(payload) IN
    /\ m \in 1..Len(sent) /\ csid = sent[m].csid
    /\ \A i \in 1..k : payload[i] = D!Data(m, i)
    /\ k = 0 => ChunkFrom(wire, sent, left, m, 0, 1)
    /\ k > 0 => After(wire, sent, left, m, k, 1)

\* What holds until chunks are interleaved: only the last message may be
\* unfinished, every chunk on the wire is followed by what goes on with it, the
\* messages handed on are whole, and the server knows the length of the last
\* header it heard on each chunk stream and stands at a header or behind the
\* bytes it has put into payload.
InStep ==
    /\ \A c \in Csid : left[c] > 0 => current[c] = Len(sent)
    /\ Chunked(wire, sent, left)
    /\ d_pc # "lost" /\ Len(got) <= Len(sent)
    /\ \A m \in 1..Len(got) : got[m] = D!Whole(m)
    /\ \A c \in Csid, j \in 1..Heard : IsLast(sent, j, c, Heard) => csid_header[c] = sent[j].len
    /\ d_pc = "header" => AtHeader
    /\ d_pc = "payload" => AtPayload

\* What makes Demuxed inductive.
DemuxInv == DemuxBase /\ (~interleaved => InStep)

LEMMA DemuxInit == D!Init => DemuxInv
  <1> SUFFICES ASSUME D!Init PROVE DemuxInv
    OBVIOUS
  <1>1. wire = <<>> /\ sent = <<>> /\ got = <<>> /\ payload = <<>> /\ d_pc = "header"
    BY DEF D!Init
  <1>2. wire \in Seq(Elem) /\ payload \in Seq(Elem) /\ got \in Seq(GotRec) /\ sent \in Seq(MsgRec)
    BY <1>1
  <1>3. D!TypeOK
    <2>1. sent \in Seq([csid : Csid, len : 1..DemuxMaxLen])
      BY <1>2 DEF MsgRec
    <2>2. left \in [Csid -> 0..DemuxMaxLen] /\ current \in [Csid -> 0..MaxMessages]
      BY DemuxSizes DEF D!Init, D!DemuxAssumption
    <2>3. csid_header \in [Csid -> -1..DemuxMaxLen] /\ csid \in Csid
      BY DemuxSizes DEF D!Init, D!DemuxAssumption
    <2>4. interleaved \in BOOLEAN
      BY DEF D!Init
    <2>5. Len(sent) <= MaxMessages
      BY <1>1, DemuxSizes DEF D!DemuxAssumption
    <2> QED  BY <1>1, <2>1, <2>2, <2>3, <2>4, <2>5 DEF D!TypeOK
  <1>4. \A c \in Csid : left[c] = 0 /\ current[c] = 0
    BY DEF D!Init
  <1>5. Pending
    BY <1>1, <1>4 DEF Pending
  <1>6. Paired(wire) /\ Chunked(wire, sent, left)
    BY <1>1 DEF Paired, Chunked
  <1>7. InStep
    <2>1. AtHeader
      BY <1>1, <1>4 DEF AtHeader
    <2>2. Heard = 0
      BY <1>1 DEF Heard
    <2> QED  BY <1>1, <1>4, <1>6, <2>1, <2>2 DEF InStep
  <1> QED  BY <1>1, <1>2, <1>3, <1>5, <1>6, <1>7 DEF DemuxInv, DemuxBase

LEMMA BaseTypes ==
    ASSUME DemuxBase
    PROVE  /\ wire \in Seq(Elem) /\ payload \in Seq(Elem) /\ got \in Seq(GotRec)
           /\ sent \in Seq(MsgRec) /\ Len(sent) \in Nat /\ Len(got) \in Nat
           /\ Len(wire) \in Nat /\ Len(payload) \in Nat
           /\ \A c \in Csid : left[c] \in 0..DemuxMaxLen /\ current[c] \in 0..Len(sent)
  <1>1. wire \in Seq(Elem) /\ payload \in Seq(Elem) /\ got \in Seq(GotRec) /\ sent \in Seq(MsgRec)
    BY DEF DemuxBase, D!TypeOK, MsgRec
  <1>2. Len(sent) \in Nat /\ Len(got) \in Nat /\ Len(wire) \in Nat /\ Len(payload) \in Nat
    BY <1>1
  <1>3. \A c \in Csid : left[c] \in 0..DemuxMaxLen /\ current[c] \in 0..Len(sent)
    BY DEF DemuxBase, D!TypeOK, Pending
  <1> QED  BY <1>1, <1>2, <1>3

-----------------------------------------------------------------------------
\* What a message that begins does to the publisher's state.
BeginFacts(c, f, n) ==
    LET m == Len(sent) + 1 k == D!Least(n, DemuxChunkSize) IN
    /\ k \in Nat \ {0} /\ k <= n /\ m \in Nat
    /\ sent' \in Seq(MsgRec) /\ Len(sent') = m /\ Longer(sent, sent')
    /\ sent'[m] = [csid |-> c, len |-> n]
    /\ wire' \in Seq(Elem) /\ Sends(wire', wire, f, c, n, m, 0, k)
    /\ Paired(wire') /\ Longer(wire, wire')
    /\ left' \in [Csid -> 0..DemuxMaxLen] /\ left'[c] = n - k
    /\ \A d \in Csid \ {c} : left'[d] = left[d]

LEMMA Appended ==
    ASSUME NEW s \in Seq(MsgRec), NEW x \in MsgRec
    PROVE  /\ Append(s, x) \in Seq(MsgRec) /\ Len(Append(s, x)) = Len(s) + 1
           /\ Longer(s, Append(s, x)) /\ Append(s, x)[Len(s) + 1] = x
  BY DEF Longer

LEMMA BeginHas ==
    ASSUME DemuxBase, NEW c \in Csid, NEW f \in 0..3, NEW n \in 1..DemuxMaxLen, D!Begin(c, f, n)
    PROVE  BeginFacts(c, f, n)
  <1> DEFINE m == Len(sent) + 1
             k == D!Least(n, DemuxChunkSize)
             x == [csid |-> c, len |-> n]
  <1>1. wire \in Seq(Elem) /\ sent \in Seq(MsgRec) /\ Len(sent) \in Nat /\ m \in Nat
    BY BaseTypes
  <1>2. n \in Nat \ {0} /\ n \in 0..DemuxMaxLen
    BY DemuxSizes DEF D!DemuxAssumption
  <1>3. k \in Nat \ {0} /\ k <= n
    BY <1>2, LeastProps
  <1>4. x \in MsgRec
    BY DEF MsgRec
  <1>5. sent' = Append(sent, x)
    BY DEF D!Begin
  <1>6. sent' \in Seq(MsgRec) /\ Len(sent') = m /\ Longer(sent, sent') /\ sent'[m] = x
    BY <1>1, <1>4, <1>5, Appended
  <1>7. wire' \in Seq(Elem) /\ Sends(wire', wire, f, c, n, m, 0, k)
    <2>1. wire' = wire \o <<D!Basic(f, c)>>
                    \o (IF f = 3 THEN <<>> ELSE <<D!Message(IF f <= 1 THEN n ELSE 0)>>)
                    \o D!Chunk(m, 0, k)
      BY DEF D!Begin
    <2> HIDE DEF k, m
    <2> QED  BY <1>1, <1>2, <1>3, <2>1, SentFirst
  <1>8. Paired(wire') /\ Longer(wire, wire')
    <2> HIDE DEF k, m
    <2> QED  BY <1>1, <1>3, <1>7, SentPaired DEF DemuxBase
  <1>9. /\ left' \in [Csid -> 0..DemuxMaxLen] /\ left'[c] = n - k
        /\ \A d \in Csid \ {c} : left'[d] = left[d]
    <2>1. left \in [Csid -> 0..DemuxMaxLen] /\ left' = [left EXCEPT ![c] = n - k]
      BY DEF DemuxBase, D!TypeOK, D!Begin
    <2>2. n - k \in 0..DemuxMaxLen
      <3> HIDE DEF k
      <3> QED  BY <1>2, <1>3, DemuxSizes DEF D!DemuxAssumption
    <2> HIDE DEF k
    <2> QED  BY <2>1, <2>2
  <1> QED  BY <1>1, <1>3, <1>6, <1>7, <1>8, <1>9 DEF BeginFacts

LEMMA BeginBase ==
    ASSUME DemuxBase, NEW c \in Csid, NEW f \in 0..3, NEW n \in 1..DemuxMaxLen, D!Begin(c, f, n)
    PROVE  DemuxBase'
  <1> DEFINE m == Len(sent) + 1
             k == D!Least(n, DemuxChunkSize)
  <1>1. BeginFacts(c, f, n)
    BY BeginHas
  <1>2. /\ k \in Nat \ {0} /\ k <= n /\ m \in Nat
        /\ sent' \in Seq(MsgRec) /\ Len(sent') = m /\ Longer(sent, sent')
        /\ sent'[m] = [csid |-> c, len |-> n]
        /\ wire' \in Seq(Elem) /\ Paired(wire')
        /\ left' \in [Csid -> 0..DemuxMaxLen] /\ left'[c] = n - k
        /\ \A d \in Csid \ {c} : left'[d] = left[d]
    BY <1>1 DEF BeginFacts
  <1>3. UNCHANGED D!server
    BY DEF D!Begin
  <1>4. Len(sent) \in Nat /\ \A i \in 1..Len(sent) : sent'[i] = sent[i]
    BY <1>2, BaseTypes DEF Longer
  <1>5. /\ m <= MaxMessages /\ current \in [Csid -> 0..MaxMessages]
        /\ current' = [current EXCEPT ![c] = m]
        /\ interleaved' \in BOOLEAN
    BY DEF DemuxBase, D!TypeOK, D!Begin
  <1> HIDE DEF k
  <1>6. current' \in [Csid -> 0..MaxMessages]
    BY <1>2, <1>5, DemuxSizes DEF D!DemuxAssumption
  <1>7. D!TypeOK'
    BY <1>2, <1>3, <1>5, <1>6 DEF DemuxBase, D!TypeOK, D!server, MsgRec
  <1>8. Pending'
    <2> SUFFICES ASSUME NEW d \in Csid
                 PROVE  /\ current'[d] \in 0..m
                        /\ current'[d] > 0 => IsLast(sent', current'[d], d, m)
                        /\ left'[d] > 0 => current'[d] > 0 /\ left'[d] < sent'[current'[d]].len
      BY <1>2 DEF Pending
    <2>1. CASE d = c
      <3>1. current'[c] = m
        BY <1>5
      <3>2. IsLast(sent', m, c, m)
        BY <1>2, <1>4 DEF IsLast
      <3>3. left'[c] < sent'[m].len
        BY <1>2
      <3> QED  BY <1>4, <2>1, <3>1, <3>2, <3>3
    <2>2. CASE d # c
      <3>1. current'[d] = current[d] /\ left'[d] = left[d]
        BY <1>2, <1>5, <2>2
      <3>2. /\ current[d] \in 0..Len(sent)
            /\ current[d] > 0 => IsLast(sent, current[d], d, Len(sent))
            /\ left[d] > 0 => current[d] > 0 /\ left[d] < sent[current[d]].len
        BY DEF DemuxBase, Pending
      <3>3. current[d] > 0 => IsLast(sent', current[d], d, m)
        <4> SUFFICES ASSUME current[d] > 0 PROVE IsLast(sent', current[d], d, m)
          OBVIOUS
        <4>1. IsLast(sent, current[d], d, Len(sent))
          BY <3>2
        <4>2. \A x \in 1..m : x \in 1..Len(sent) \/ x = m
          BY <1>4
        <4>3. sent'[m].csid # d
          BY <1>2, <2>2
        <4> QED  BY <1>4, <4>1, <4>2, <4>3 DEF IsLast
      <3>4. left[d] > 0 => sent'[current[d]] = sent[current[d]]
        BY <1>4, <3>2
      <3>5. current[d] \in 0..m
        BY <1>4, <3>2
      <3> QED  BY <3>1, <3>2, <3>3, <3>4, <3>5
    <2> QED  BY <2>1, <2>2
  <1> QED  BY <1>2, <1>3, <1>7, <1>8 DEF DemuxBase, D!server, GotRec

\* The message that begins starts where the wire ended.
LEMMA BeginStarts ==
    ASSUME DemuxBase, NEW c \in Csid, NEW f \in 0..3, NEW n \in 1..DemuxMaxLen, D!Begin(c, f, n)
    PROVE  Starts(wire', sent', Len(sent) + 1, Len(wire) + 1)
  <1> DEFINE m == Len(sent) + 1
             k == D!Least(n, DemuxChunkSize)
             e == IF f = 3 THEN 1 ELSE 2
             q == Len(wire) + 1
  <1>1. /\ k \in Nat \ {0} /\ m \in Nat /\ Len(sent') = m
        /\ sent'[m] = [csid |-> c, len |-> n] /\ Longer(sent, sent')
        /\ wire' \in Seq(Elem) /\ Sends(wire', wire, f, c, n, m, 0, k)
    BY BeginHas DEF BeginFacts
  <1>2. wire \in Seq(Elem) /\ Len(wire) \in Nat /\ Len(sent) \in Nat /\ sent \in Seq(MsgRec)
    BY BaseTypes
  <1>3. f > 1 => \E j \in 1..m - 1 : IsLast(sent', j, c, m - 1) /\ sent'[j].len = n
    <2> SUFFICES ASSUME f > 1
                 PROVE  \E j \in 1..m - 1 : IsLast(sent', j, c, m - 1) /\ sent'[j].len = n
      OBVIOUS
    <2>1. current[c] # 0 /\ sent[current[c]].len = n
      BY DEF D!Begin, D!MayUse
    <2>2. current[c] \in 1..Len(sent) /\ IsLast(sent, current[c], c, Len(sent))
      BY <1>2, <2>1 DEF DemuxBase, Pending
    <2>3. \A x \in 1..Len(sent) : sent'[x] = sent[x]
      BY <1>1 DEF Longer
    <2>4. m - 1 = Len(sent)
      BY <1>2
    <2>5. IsLast(sent', current[c], c, Len(sent)) /\ sent'[current[c]].len = n
      BY <2>1, <2>2, <2>3 DEF IsLast
    <2> QED  BY <2>2, <2>4, <2>5
  <1> HIDE DEF k, m
  <1>4. /\ Len(wire') = Len(wire) + e + k /\ wire'[q] = D!Basic(f, c)
        /\ f # 3 => wire'[Len(wire) + 2] = D!Message(IF f <= 1 THEN n ELSE 0)
        /\ \A j \in 1..k : wire'[Len(wire) + e + j] = D!Data(m, 0 + j)
    BY <1>1 DEF Sends
  <1>5. DataAt(wire', q) = q + e
    BY <1>2, <1>4 DEF DataAt, D!Basic
  <1>6. e \in {1, 2}
    OBVIOUS
  <1>7. f <= 1 => wire'[q + 1] = D!Message(n)
    <2>1. q + 1 = Len(wire) + 2
      BY <1>2
    <2> QED  BY <1>4, <2>1
  <1> HIDE DEF e
  <1>8. q \in 1..Len(wire') /\ q + e \in 1..Len(wire') /\ q + e = Len(wire) + e + 1
    BY <1>1, <1>2, <1>4, <1>6
  <1>9. wire'[q + e] = D!Data(m, 1)
    <2>1. 1 \in 1..k /\ 0 + 1 = 1
      BY <1>1
    <2>2. wire'[Len(wire) + e + 1] = D!Data(m, 0 + 1)
      BY <1>4, <2>1
    <2> QED  BY <1>8, <2>1, <2>2
  <1>10. wire'[q].k = "basic" /\ wire'[q].csid = c /\ wire'[q].fmt = f
    BY <1>4 DEF D!Basic
  <1>11. m \in 1..Len(sent')
    BY <1>1, <1>2 DEF m
  <1> HIDE DEF q
  <1>12. Starts(wire', sent', m, q)
    BY <1>1, <1>3, <1>5, <1>7, <1>8, <1>9, <1>10, <1>11 DEF Starts
  <1> QED  BY <1>12 DEF m, q

LEMMA SentKept ==
    ASSUME NEW s, NEW z, Longer(s, z), Len(s) \in Nat, Len(z) \in Nat, NEW j, NEW c, NEW h \in 0..Len(s),
           IsLast(z, j, c, h)
    PROVE  IsLast(s, j, c, h) /\ z[j] = s[j]
  <1>1. \A x \in 1..h : x \in 1..Len(s)
    OBVIOUS
  <1>2. \A x \in 1..h : z[x] = s[x]
    BY <1>1, LongerIn
  <1> QED  BY <1>2 DEF IsLast

\* The reader stays in step with a wire that has become longer.
LEMMA ReaderKept ==
    ASSUME DemuxBase, InStep, UNCHANGED D!server,
           wire' \in Seq(Elem), Longer(wire, wire'), sent' \in Seq(MsgRec), Longer(sent, sent'),
           Carried(wire, wire', sent, sent', left, left'),
           wire = <<>> /\ Len(got) = Len(sent) /\ d_pc = "header" => AtHeader'
    PROVE  /\ d_pc' # "lost" /\ Len(got') <= Len(sent')
           /\ (\A m \in 1..Len(got) : got[m] = D!Whole(m))'
           /\ (\A c \in Csid, j \in 1..Heard : IsLast(sent, j, c, Heard) => csid_header[c] = sent[j].len)'
           /\ d_pc' = "header" => AtHeader'
           /\ d_pc' = "payload" => AtPayload'
  <1>1. /\ wire \in Seq(Elem) /\ payload \in Seq(Elem) /\ sent \in Seq(MsgRec)
        /\ Len(sent) \in Nat /\ Len(got) \in Nat /\ Len(payload) \in Nat /\ Len(sent') \in Nat
    BY BaseTypes
  <1>2. csid_header' = csid_header /\ csid' = csid /\ payload' = payload /\ d_pc' = d_pc /\ got' = got
    BY DEF D!server
  <1>3. Len(got) <= Len(sent) /\ Len(sent) <= Len(sent') /\ d_pc # "lost"
    BY DEF InStep, Longer
  <1>4. \A i \in 1..Len(sent) : sent'[i] = sent[i]
    BY DEF Longer
  <1>5. ASSUME NEW m \in 1..Len(got) PROVE got'[m] = D!Whole(m)'
    <2>1. m \in 1..Len(sent) /\ got[m] = D!Whole(m)
      BY <1>1, <1>3 DEF InStep
    <2>2. sent'[m] = sent[m]
      BY <1>4, <2>1
    <2> QED  BY <1>2, <2>1, <2>2 DEF D!Whole
  <1>6. Heard' = Heard /\ Heard \in 0..Len(sent)
    BY <1>1, <1>2, <1>3 DEF Heard, InStep, AtPayload
  <1>7. ASSUME NEW c \in Csid, NEW j \in 1..Heard, IsLast(sent', j, c, Heard)
        PROVE  csid_header'[c] = sent'[j].len
    <2>1. IsLast(sent, j, c, Heard) /\ sent'[j] = sent[j]
      BY <1>1, <1>6, <1>7, SentKept
    <2> QED  BY <1>2, <2>1 DEF InStep
  <1>8. ASSUME d_pc = "header" PROVE AtHeader'
    <2>1. AtHeader
      BY <1>8 DEF InStep
    <2>2. CASE Starts(wire, sent, Len(got) + 1, 1)
      <3>1. Starts(wire', sent', Len(got) + 1, 1)
        BY <1>1, <2>2, StartsKept
      <3> QED  BY <1>2, <3>1 DEF AtHeader
    <2>3. CASE wire = <<>> /\ Len(got) = Len(sent)
      BY <1>8, <2>3
    <2> QED  BY <2>1, <2>2, <2>3 DEF AtHeader
  <1>9. ASSUME d_pc = "payload" PROVE AtPayload'
    <2> DEFINE m == Len(got) + 1
               k == Len(payload)
    <2>1. /\ m \in 1..Len(sent) /\ csid = sent[m].csid
          /\ \A i \in 1..k : payload[i] = D!Data(m, i)
          /\ k = 0 => ChunkFrom(wire, sent, left, m, 0, 1)
          /\ k > 0 => After(wire, sent, left, m, k, 1)
      BY <1>9 DEF InStep, AtPayload
    <2>2. m \in 1..Len(sent') /\ sent'[m] = sent[m] /\ m \in Nat /\ k \in Nat
      BY <1>1, <1>3, <1>4, <2>1
    <2> HIDE DEF m, k
    <2>3. k = 0 => ChunkFrom(wire', sent', left', m, 0, 1)
      BY <1>1, <2>1, <2>2, ChunkKept
    <2>4. k > 0 => After(wire', sent', left', m, k, 1)
      BY <1>1, <2>1, <2>2, AfterKept
    <2>5. Len(got') + 1 = m /\ Len(payload') = k /\ csid' = csid /\ payload' = payload
      BY <1>2 DEF m, k
    <2> QED  BY <2>1, <2>2, <2>3, <2>4, <2>5 DEF AtPayload
  <1>10. d_pc' # "lost" /\ Len(got') <= Len(sent')
    BY <1>1, <1>2, <1>3
  <1>11. (\A m \in 1..Len(got) : got[m] = D!Whole(m))'
    BY <1>2, <1>5
  <1>12. (\A c \in Csid, j \in 1..Heard : IsLast(sent, j, c, Heard) => csid_header[c] = sent[j].len)'
    BY <1>6, <1>7
  <1> QED  BY <1>2, <1>8, <1>9, <1>10, <1>11, <1>12

LEMMA BeginInStep ==
    ASSUME DemuxBase, InStep, NEW c \in Csid, NEW f \in 0..3, NEW n \in 1..DemuxMaxLen, D!Begin(c, f, n),
           ~D!Others(c)
    PROVE  InStep'
  <1> DEFINE m == Len(sent) + 1
             k == D!Least(n, DemuxChunkSize)
  <1>1. /\ k \in Nat \ {0} /\ k <= n /\ m \in Nat
        /\ sent' \in Seq(MsgRec) /\ Len(sent') = m /\ Longer(sent, sent')
        /\ sent'[m] = [csid |-> c, len |-> n]
        /\ wire' \in Seq(Elem) /\ Sends(wire', wire, f, c, n, m, 0, k)
        /\ Longer(wire, wire')
        /\ left'[c] = n - k
        /\ \A d \in Csid \ {c} : left'[d] = left[d]
    BY BeginHas DEF BeginFacts
  <1>2. /\ wire \in Seq(Elem) /\ sent \in Seq(MsgRec) /\ Len(sent) \in Nat /\ Len(wire) \in Nat
        /\ \A d \in Csid : left[d] \in 0..DemuxMaxLen
    BY BaseTypes
  <1>3. \A d \in Csid : left[d] = 0
    BY <1>2 DEF D!Begin, D!Others
  <1>4. \A d \in Csid \ {c} : left'[d] = 0
    BY <1>1, <1>3
  <1>5. UNCHANGED D!server /\ current' = [current EXCEPT ![c] = m] /\ current \in [Csid -> 0..MaxMessages]
    BY DEF D!Begin, DemuxBase, D!TypeOK
  <1>6. Starts(wire', sent', m, Len(wire) + 1)
    BY BeginStarts
  <1>7. Carried(wire, wire', sent, sent', left, left')
    <2> SUFFICES ASSUME NEW a \in Nat, NEW b \in Nat, After(wire, sent, left, a, b, Len(wire) + 1)
                 PROVE  After(wire', sent', left', a, b, Len(wire) + 1)
      BY DEF Carried
    <2>1. a \in 1..Len(sent) /\ b \in 1..sent[a].len
      BY DEF After
    <2>2. ~Starts(wire, sent, a + 1, Len(wire) + 1)
      BY <1>2 DEF Starts
    <2>3. sent[a].csid \in Csid /\ sent[a].len \in Nat
      BY <1>2, <2>1, LenType
    <2>4. b = sent[a].len
      <3>1. ASSUME b < sent[a].len PROVE FALSE
        <4>1. left[sent[a].csid] = sent[a].len - b
          BY <1>2, <3>1 DEF After
        <4> QED  BY <1>3, <2>3, <3>1, <4>1
      <3> QED  BY <2>1, <2>3, <3>1
    <2>5. a = Len(sent) /\ a + 1 = m
      BY <2>2, <2>4 DEF After
    <2>6. a \in 1..Len(sent') /\ sent'[a] = sent[a]
      <3>1. Len(sent) \in Nat /\ Len(sent') \in Nat /\ Longer(sent, sent')
        BY <1>1, <1>2
      <3> QED  BY <2>1, <3>1, LongerIn
    <2> HIDE DEF m
    <2> QED  BY <1>6, <2>1, <2>3, <2>4, <2>5, <2>6 DEF After
  <1>8. Chunked(wire', sent', left')
    <2>1. After(wire', sent', left', m, 0 + k, Len(wire') + 1)
      <3>1. m \in 1..Len(sent') /\ sent'[m].csid = c /\ sent'[m].len = n
        BY <1>1, <1>2
      <3> HIDE DEF m, k
      <3>2. 0 + k = k /\ k \in 1..n
        BY <1>1
      <3>3. CASE k = n
        <4>1. left'[c] = 0
          BY <1>1, <3>3
        <4>2. \A d \in Csid : left'[d] = 0
          BY <1>4, <4>1
        <4> QED  BY <1>1, <3>1, <3>2, <3>3, <4>2 DEF After
      <3>4. CASE k # n
        BY <1>1, <3>1, <3>2, <3>4 DEF After
      <3> QED  BY <3>3, <3>4
    <2>2. m \in 1..Len(sent') /\ 0 < sent'[m].len
      BY <1>1, <1>2
    <2>3. Fills(sent', m, 0, k)
      <3>1. sent'[m].len - 0 = n
        BY <1>1
      <3> QED  BY <3>1 DEF Fills
    <2> HIDE DEF m, k
    <2>4. ChunkAt(wire', sent', left', Len(wire) + 1)
      BY <1>1, <1>2, <2>1, <2>2, <2>3, SentChunk
    <2> QED  BY <1>1, <1>2, <1>7, <2>4, SentChunked DEF InStep
  <1>9. ASSUME wire = <<>>, Len(got) = Len(sent), d_pc = "header" PROVE AtHeader'
    <2>1. Len(wire) + 1 = 1 /\ Len(got') + 1 = m
      BY <1>5, <1>9 DEF D!server
    <2> QED  BY <1>6, <2>1 DEF AtHeader
  <1>10. \A d \in Csid : left'[d] > 0 => current'[d] = Len(sent')
    BY <1>1, <1>4, <1>5
  <1> HIDE DEF m, k
  <1>11. /\ d_pc' # "lost" /\ Len(got') <= Len(sent')
         /\ (\A x \in 1..Len(got) : got[x] = D!Whole(x))'
         /\ (\A d \in Csid, j \in 1..Heard : IsLast(sent, j, d, Heard) => csid_header[d] = sent[j].len)'
         /\ d_pc' = "header" => AtHeader'
         /\ d_pc' = "payload" => AtPayload'
    BY <1>1, <1>5, <1>7, <1>9, ReaderKept
  <1> QED  BY <1>8, <1>10, <1>11 DEF InStep

-----------------------------------------------------------------------------
\* What the next chunk of a message does.
ContinueFacts(c) ==
    LET m == current[c] from == sent[m].len - left[c] k == D!Least(left[c], DemuxChunkSize) IN
    /\ left[c] \in Nat /\ m \in 1..Len(sent) /\ sent[m].csid = c /\ from \in Nat
    /\ from > 0 /\ from < sent[m].len /\ from = sent[m].len - left[c]
    /\ k \in Nat \ {0} /\ k <= left[c]
    /\ wire' \in Seq(Elem) /\ Sends(wire', wire, 3, c, 0, m, from, k)
    /\ Paired(wire') /\ Longer(wire, wire')
    /\ left' \in [Csid -> 0..DemuxMaxLen] /\ left'[c] = left[c] - k
    /\ \A d \in Csid \ {c} : left'[d] = left[d]

LEMMA ContinueHas ==
    ASSUME DemuxBase, NEW c \in Csid, D!Continue(c)
    PROVE  ContinueFacts(c)
  <1> DEFINE m == current[c]
             from == sent[m].len - left[c]
             k == D!Least(left[c], DemuxChunkSize)
  <1>1. wire \in Seq(Elem) /\ sent \in Seq(MsgRec) /\ Len(sent) \in Nat /\ left[c] \in 0..DemuxMaxLen
    BY BaseTypes
  <1>2. left[c] > 0
    BY DEF D!Continue
  <1>3. m \in 1..Len(sent) /\ sent[m].csid = c /\ left[c] < sent[m].len
    BY <1>1, <1>2 DEF DemuxBase, Pending, IsLast
  <1>4. sent[m].len \in Nat
    BY <1>1, <1>3, LenType
  <1>5. left[c] \in Nat \ {0}
    BY <1>1, <1>2, DemuxSizes DEF D!DemuxAssumption
  <1>6. k \in Nat \ {0} /\ k <= left[c]
    BY <1>5, LeastProps
  <1>7. from \in Nat /\ from > 0 /\ from < sent[m].len
    <2> HIDE DEF m
    <2> QED  BY <1>3, <1>4, <1>5
  <1>8. m \in Nat
    BY <1>1, <1>3
  <1>9. wire' \in Seq(Elem) /\ Sends(wire', wire, 3, c, 0, m, from, k)
    <2>1. wire' = wire \o <<D!Basic(3, c)>> \o D!Chunk(m, from, k)
      BY DEF D!Continue
    <2> HIDE DEF k, from, m
    <2> QED  BY <1>1, <1>6, <1>7, <1>8, <2>1, SentNext
  <1>10. Paired(wire') /\ Longer(wire, wire')
    <2> HIDE DEF k, from, m
    <2>1. Paired(wire)
      BY DEF DemuxBase
    <2> QED  BY <1>1, <1>6, <1>7, <1>9, <2>1, SentPaired
  <1>11. /\ left' \in [Csid -> 0..DemuxMaxLen] /\ left'[c] = left[c] - k
         /\ \A d \in Csid \ {c} : left'[d] = left[d]
    <2>1. left \in [Csid -> 0..DemuxMaxLen] /\ left' = [left EXCEPT ![c] = left[c] - k]
      BY DEF DemuxBase, D!TypeOK, D!Continue
    <2> HIDE DEF k
    <2>2. left[c] - k \in 0..DemuxMaxLen
      BY <1>1, <1>6, DemuxSizes DEF D!DemuxAssumption
    <2> QED  BY <2>1, <2>2
  <1> QED  BY <1>3, <1>5, <1>6, <1>7, <1>9, <1>10, <1>11 DEF ContinueFacts

LEMMA ContinueBase ==
    ASSUME DemuxBase, NEW c \in Csid, D!Continue(c)
    PROVE  DemuxBase'
  <1> DEFINE k == D!Least(left[c], DemuxChunkSize)
  <1>1. /\ k \in Nat \ {0} /\ k <= left[c] /\ left[c] \in Nat
        /\ wire' \in Seq(Elem) /\ Paired(wire')
        /\ left' \in [Csid -> 0..DemuxMaxLen] /\ left'[c] = left[c] - k
        /\ \A d \in Csid \ {c} : left'[d] = left[d]
    BY ContinueHas DEF ContinueFacts
  <1> HIDE DEF k
  <1>2. sent' = sent /\ current' = current /\ UNCHANGED D!server
    BY DEF D!Continue
  <1>3. interleaved' \in BOOLEAN
    BY DEF D!Continue
  <1>4. D!TypeOK'
    BY <1>1, <1>2, <1>3 DEF DemuxBase, D!TypeOK, D!server
  <1>5. Pending'
    <2> SUFFICES ASSUME NEW d \in Csid
                 PROVE  /\ current[d] \in 0..Len(sent)
                        /\ current[d] > 0 => IsLast(sent, current[d], d, Len(sent))
                        /\ left'[d] > 0 => current[d] > 0 /\ left'[d] < sent[current[d]].len
      BY <1>2 DEF Pending
    <2>1. /\ current[d] \in 0..Len(sent)
          /\ current[d] > 0 => IsLast(sent, current[d], d, Len(sent))
          /\ left[d] > 0 => current[d] > 0 /\ left[d] < sent[current[d]].len
      BY DEF DemuxBase, Pending
    <2>2. sent \in Seq(MsgRec) /\ Len(sent) \in Nat /\ left[d] \in 0..DemuxMaxLen
      BY BaseTypes
    <2>3. left'[d] > 0 => left[d] > 0 /\ left'[d] <= left[d] /\ left'[d] \in Int /\ left[d] \in Int
      <3>1. CASE d = c
        BY <1>1, <3>1
      <3>2. CASE d # c
        BY <1>1, <2>2, <3>2
      <3> QED  BY <3>1, <3>2
    <2>4. left[d] > 0 => sent[current[d]].len \in Nat
      <3>1. left[d] > 0 => current[d] \in 1..Len(sent)
        BY <2>1, <2>2
      <3> QED  BY <2>2, <3>1, LenType
    <2> QED  BY <2>1, <2>3, <2>4
  <1> QED  BY <1>1, <1>2, <1>4, <1>5 DEF DemuxBase, D!server

LEMMA ContinueInStep ==
    ASSUME DemuxBase, InStep, NEW c \in Csid, D!Continue(c), ~D!Others(c)
    PROVE  InStep'
  <1> DEFINE m == current[c]
             from == sent[m].len - left[c]
             k == D!Least(left[c], DemuxChunkSize)
  <1>1. /\ left[c] \in Nat /\ m \in 1..Len(sent) /\ sent[m].csid = c /\ from \in Nat
        /\ from > 0 /\ from < sent[m].len /\ from = sent[m].len - left[c]
        /\ k \in Nat \ {0} /\ k <= left[c]
        /\ wire' \in Seq(Elem) /\ Sends(wire', wire, 3, c, 0, m, from, k)
        /\ Longer(wire, wire') /\ left'[c] = left[c] - k
        /\ \A d \in Csid \ {c} : left'[d] = left[d]
    BY ContinueHas DEF ContinueFacts
  <1>2. /\ wire \in Seq(Elem) /\ sent \in Seq(MsgRec) /\ Len(sent) \in Nat /\ Len(wire) \in Nat
        /\ \A d \in Csid : left[d] \in 0..DemuxMaxLen
    BY BaseTypes
  <1>3. left[c] > 0
    BY DEF D!Continue
  <1>4. \A d \in Csid \ {c} : left[d] = 0 /\ left'[d] = 0
    BY <1>1, <1>2 DEF D!Others
  <1>5. sent' = sent /\ current' = current /\ UNCHANGED D!server
    BY DEF D!Continue
  <1>6. m = Len(sent)
    BY <1>3 DEF InStep
  <1>7. sent[m].len \in Nat
    BY <1>1, <1>2, LenType
  <1>8. Longer(sent, sent')
    BY <1>2, <1>5 DEF Longer
  <1> HIDE DEF m, from, k
  <1>9. /\ Len(wire') = Len(wire) + 1 + k
        /\ wire'[Len(wire) + 1] = D!Basic(3, c)
        /\ \A j \in 1..k : wire'[Len(wire) + 1 + j] = D!Data(m, from + j)
    BY <1>1 DEF Sends
  <1>10. Carried(wire, wire', sent, sent', left, left')
    <2> SUFFICES ASSUME NEW a \in Nat, NEW b \in Nat, After(wire, sent, left, a, b, Len(wire) + 1)
                 PROVE  After(wire', sent, left', a, b, Len(wire) + 1)
      BY <1>5 DEF Carried
    <2>1. a \in 1..Len(sent) /\ b \in 1..sent[a].len
      BY DEF After
    <2>2. ~Starts(wire, sent, a + 1, Len(wire) + 1)
      BY <1>2 DEF Starts
    <2>3. sent[a].len \in Nat
      BY <1>2, <2>1, LenType
    <2>4. b < sent[a].len
      <3>1. ASSUME b = sent[a].len PROVE FALSE
        <4>1. left[c] = 0
          BY <2>2, <3>1 DEF After
        <4> QED  BY <1>3, <4>1
      <3> QED  BY <2>1, <2>3, <3>1
    <2>5. a = Len(sent) /\ left[sent[a].csid] = sent[a].len - b
      BY <1>2, <2>4 DEF After
    <2>6. a = m /\ left[c] = sent[m].len - b
      BY <1>1, <1>6, <2>5
    <2>7. b = from
      BY <1>1, <1>7, <2>6
    <2>8. wire'[Len(wire) + 1 + 1] = D!Data(m, from + 1)
      <3>1. 1 \in 1..k
        BY <1>1
      <3> QED  BY <1>9, <3>1
    <2>9. Len(wire) + 1 \in 1..Len(wire') /\ Len(wire) + 1 + 1 \in 1..Len(wire')
      <3>1. Len(wire) \in Nat /\ k \in Nat \ {0} /\ Len(wire') = Len(wire) + 1 + k
        BY <1>1, <1>2, <1>9
      <3> QED  BY <3>1
    <2>10. sent[m].csid = c
      BY <1>1
    <2> QED  BY <1>9, <2>1, <2>4, <2>6, <2>7, <2>8, <2>9, <2>10 DEF After
  <1>11. Chunked(wire', sent', left')
    <2>1. After(wire', sent', left', m, from + k, Len(wire') + 1)
      <3>1. from + k \in 1..sent[m].len /\ (from + k = sent[m].len <=> k = left[c])
        BY <1>1, <1>7
      <3>2. CASE k = left[c]
        <4>1. left'[c] = 0
          BY <1>1, <3>2
        <4>2. \A d \in Csid : left'[d] = 0
          BY <1>4, <4>1
        <4> QED  BY <1>1, <1>5, <1>6, <3>1, <3>2, <4>2 DEF After
      <3>3. CASE k # left[c]
        <4>1. left'[c] = sent[m].len - (from + k)
          BY <1>1, <1>7
        <4> QED  BY <1>1, <1>5, <1>6, <3>1, <3>3, <4>1 DEF After
      <3> QED  BY <3>2, <3>3
    <2>2. Fills(sent', m, from, k)
      <3>1. sent'[m].len - from = left[c]
        BY <1>1, <1>5, <1>7
      <3> QED  BY <3>1 DEF Fills, k
    <2>3. m \in 1..Len(sent') /\ from < sent'[m].len /\ sent' \in Seq(MsgRec) /\ 3 \in 0..3
      BY <1>1, <1>2, <1>5
    <2>4. ChunkAt(wire', sent', left', Len(wire) + 1)
      BY <1>1, <1>2, <2>1, <2>2, <2>3, SentChunk
    <2>5. Chunked(wire, sent, left)
      BY DEF InStep
    <2> QED  BY <1>1, <1>2, <1>8, <1>10, <2>3, <2>4, <2>5, SentChunked
  <1>12. ASSUME wire = <<>>, Len(got) = Len(sent), d_pc = "header" PROVE AtHeader'
    <2>1. AtHeader
      BY <1>12 DEF InStep
    <2>2. ~Starts(wire, sent, Len(got) + 1, 1)
      BY <1>12 DEF Starts
    <2> QED  BY <1>3, <2>1, <2>2 DEF AtHeader
  <1>13. \A d \in Csid : left'[d] > 0 => current'[d] = Len(sent')
    BY <1>4, <1>5, <1>6 DEF m
  <1>14. /\ d_pc' # "lost" /\ Len(got') <= Len(sent')
         /\ (\A x \in 1..Len(got) : got[x] = D!Whole(x))'
         /\ (\A d \in Csid, j \in 1..Heard : IsLast(sent, j, d, Heard) => csid_header[d] = sent[j].len)'
         /\ d_pc' = "header" => AtHeader'
         /\ d_pc' = "payload" => AtPayload'
    BY <1>1, <1>2, <1>5, <1>8, <1>10, <1>12, ReaderKept
  <1> QED  BY <1>11, <1>13, <1>14 DEF InStep

-----------------------------------------------------------------------------
LEMMA ElemFields ==
    ASSUME NEW x \in Elem
    PROVE  /\ x.k = "basic" => x.csid \in Csid /\ x.fmt \in 0..3
           /\ x.k = "message" => x.len \in 0..DemuxMaxLen
  <1>1. CASE x \in [k : {"basic"}, fmt : 0..3, csid : Csid]
    BY <1>1
  <1>2. CASE x \in [k : {"message"}, len : 0..DemuxMaxLen]
    BY <1>2
  <1>3. CASE x \in [k : {"data"}, msg : Nat, pos : Nat]
    BY <1>3
  <1> QED  BY <1>1, <1>2, <1>3 DEF Elem

\* What reading a basic header does.
HeaderFacts ==
    LET bh == wire[1] n == IF bh.fmt < 3 THEN 2 ELSE 1 IN
    /\ d_pc = "header" /\ bh.k = "basic" /\ bh.csid \in Csid /\ bh.fmt \in 0..3
    /\ n \in Nat /\ n <= Len(wire)
    /\ csid' = bh.csid /\ d_pc' = "payload" /\ wire' = Cut(wire, n)
    /\ bh.fmt <= 1 => csid_header' = [csid_header EXCEPT ![bh.csid] = wire[2].len]
    /\ bh.fmt > 1 => csid_header' = csid_header
    /\ UNCHANGED <<payload, got, sent, left, current, interleaved>>

LEMMA HeaderHas ==
    ASSUME DemuxBase, D!ReadHeader, wire[1].k = "basic"
    PROVE  HeaderFacts
  <1>1. wire \in Seq(Elem) /\ Len(wire) \in Nat
    BY BaseTypes
  <1>2. wire # <<>> /\ Head(wire) = wire[1] /\ 1 \in 1..Len(wire)
    BY <1>1 DEF D!ReadHeader
  <1>3. wire[1] \in Elem
    BY <1>1, <1>2
  <1>4. wire[1].csid \in Csid /\ wire[1].fmt \in 0..3
    BY <1>3, ElemFields
  <1> DEFINE n == IF wire[1].fmt < 3 THEN 2 ELSE 1
  <1>5. n \in Nat /\ n <= Len(wire) /\ wire' = SubSeq(wire, n + 1, Len(wire))
    BY <1>2 DEF D!ReadHeader
  <1>6. /\ csid_header' = IF wire[1].fmt <= 1 THEN D!Store(wire[1].csid, wire[2].len) ELSE csid_header
        /\ csid' = wire[1].csid /\ d_pc' = "payload" /\ d_pc = "header"
        /\ UNCHANGED <<payload, got, sent, left, current, interleaved>>
    BY <1>2 DEF D!ReadHeader, D!publisher
  <1>7. (wire[1].fmt > 1) => ~(wire[1].fmt <= 1)
    BY <1>4
  <1> QED  BY <1>4, <1>5, <1>6, <1>7 DEF HeaderFacts, Cut, D!Store

LEMMA HeaderBase ==
    ASSUME DemuxBase, D!ReadHeader
    PROVE  DemuxBase'
  <1>1. wire \in Seq(Elem) /\ Len(wire) \in Nat
    BY BaseTypes
  <1>2. payload = <<>>
    BY DEF DemuxBase, D!ReadHeader
  <1>3. CASE wire[1].k # "basic"
    <2>1. Head(wire) = wire[1]
      BY <1>1 DEF D!ReadHeader
    <2>2. d_pc' = "lost" /\ UNCHANGED <<csid_header, csid, wire, payload, got, sent, left, current, interleaved>>
      BY <1>3, <2>1 DEF D!ReadHeader, D!publisher
    <2>3. D!TypeOK'
      BY <2>2 DEF DemuxBase, D!TypeOK
    <2>4. Pending'
      BY <2>2 DEF DemuxBase, Pending
    <2> QED  BY <1>2, <2>2, <2>3, <2>4 DEF DemuxBase
  <1>4. CASE wire[1].k = "basic"
    <2> DEFINE bh == wire[1]
               n == IF bh.fmt < 3 THEN 2 ELSE 1
    <2>1. /\ bh.csid \in Csid /\ bh.fmt \in 0..3 /\ n \in Nat /\ n <= Len(wire)
          /\ csid' = bh.csid /\ d_pc' = "payload" /\ wire' = Cut(wire, n)
          /\ bh.fmt <= 1 => csid_header' = [csid_header EXCEPT ![bh.csid] = wire[2].len]
          /\ bh.fmt > 1 => csid_header' = csid_header
          /\ UNCHANGED <<payload, got, sent, left, current, interleaved>>
      BY <1>4, HeaderHas DEF HeaderFacts
    <2> HIDE DEF n
    <2>2. n \in 0..Len(wire)
      BY <1>1, <2>1
    <2>3. wire' \in Seq(Elem) /\ Paired(wire')
      BY <1>1, <2>1, <2>2, CutProps, CutPaired DEF DemuxBase
    <2>4. csid_header \in [Csid -> -1..DemuxMaxLen]
      BY DEF DemuxBase, D!TypeOK
    <2>5. bh.fmt <= 1 => wire[2].len \in 0..DemuxMaxLen
      <3> SUFFICES ASSUME bh.fmt <= 1 PROVE wire[2].len \in 0..DemuxMaxLen
        OBVIOUS
      <3>1. 1 \in 1..Len(wire) /\ 1 + 1 = 2
        BY <1>1 DEF D!ReadHeader
      <3>2. 2 \in 1..Len(wire) /\ wire[2].k = "message"
        BY <1>4, <3>1 DEF DemuxBase, Paired
      <3>3. wire[2] \in Elem
        BY <1>1, <3>2
      <3> QED  BY <3>2, <3>3, ElemFields
    <2>6. csid_header' \in [Csid -> -1..DemuxMaxLen]
      <3>1. CASE bh.fmt <= 1
        <4>1. wire[2].len \in -1..DemuxMaxLen
          BY <2>5, <3>1
        <4>2. csid_header' = [csid_header EXCEPT ![bh.csid] = wire[2].len]
          BY <2>1, <3>1
        <4> QED  BY <2>4, <4>1, <4>2
      <3>2. CASE bh.fmt > 1
        BY <2>1, <2>4, <3>2
      <3> QED  BY <2>1, <3>1, <3>2
    <2>7. D!TypeOK'
      BY <1>2, <2>1, <2>6 DEF DemuxBase, D!TypeOK
    <2>8. Pending'
      BY <2>1 DEF DemuxBase, Pending
    <2> QED  BY <2>1, <2>3, <2>7, <2>8 DEF DemuxBase
  <1> QED  BY <1>3, <1>4

LEMMA HeaderInStep ==
    ASSUME DemuxBase, InStep, D!ReadHeader
    PROVE  InStep'
  <1>1. /\ wire \in Seq(Elem) /\ Len(wire) \in Nat /\ Len(got) \in Nat
        /\ sent \in Seq(MsgRec) /\ Len(sent) \in Nat
    BY BaseTypes
  <1> DEFINE m == Len(got) + 1
             bh == wire[1]
             n == IF bh.fmt < 3 THEN 2 ELSE 1
             d == DataAt(wire, 1)
  <1>2. Starts(wire, sent, m, 1)
    BY DEF InStep, AtHeader, D!ReadHeader
  <1>3. /\ m \in 1..Len(sent) /\ 1 \in 1..Len(wire) /\ d \in 1..Len(wire)
        /\ bh.k = "basic" /\ bh.csid = sent[m].csid
        /\ wire[d] = D!Data(m, 1)
        /\ bh.fmt <= 1 => wire[2] = D!Message(sent[m].len)
        /\ bh.fmt > 1 => \E j \in 1..m - 1 :
                            IsLast(sent, j, sent[m].csid, m - 1) /\ sent[j].len = sent[m].len
    BY <1>2 DEF Starts
  <1>4. /\ d_pc = "header" /\ bh.csid \in Csid /\ bh.fmt \in 0..3 /\ n \in Nat /\ n <= Len(wire)
        /\ csid' = bh.csid /\ d_pc' = "payload" /\ wire' = Cut(wire, n)
        /\ bh.fmt <= 1 => csid_header' = [csid_header EXCEPT ![bh.csid] = wire[2].len]
        /\ bh.fmt > 1 => csid_header' = csid_header
        /\ UNCHANGED <<payload, got, sent, left, current, interleaved>>
    BY <1>3, HeaderHas DEF HeaderFacts
  <1>5. d = 1 + n
    BY <1>4 DEF DataAt
  <1>6. csid_header \in [Csid -> -1..DemuxMaxLen] /\ payload = <<>>
    BY <1>4 DEF DemuxBase, D!TypeOK
  <1> HIDE DEF n, d
  <1>7. ChunkFrom(wire', sent, left, m, 0, 1)
    <2>1. ChunkAt(wire, sent, left, 1)
      BY <1>3 DEF InStep, Chunked
    <2>2. ChunkFrom(wire, sent, left, wire[d].msg, wire[d].pos - 1, d)
      BY <2>1 DEF ChunkAt, d
    <2>3. wire[d].msg = m /\ wire[d].pos - 1 = 0
      BY <1>3 DEF D!Data
    <2>4. n \in 0..Len(wire) /\ m \in Nat
      BY <1>1, <1>4
    <2> HIDE DEF m
    <2>5. ChunkFrom(wire, sent, left, m, 0, 1 + n)
      BY <1>5, <2>2, <2>3
    <2> QED  BY <1>1, <1>4, <2>4, <2>5, CutChunk
  <1>8. Chunked(wire', sent, left)
    <2>1. n \in 0..Len(wire) /\ Chunked(wire, sent, left)
      BY <1>1, <1>4 DEF InStep
    <2> QED  BY <1>1, <1>4, <2>1, CutChunked
  <1>9. Heard = m - 1 /\ Heard' = m
    BY <1>1, <1>4 DEF Heard
  <1>10. \A c \in Csid, j \in 1..m - 1 : IsLast(sent, j, c, m - 1) => csid_header[c] = sent[j].len
    BY <1>9 DEF InStep
  <1>11. ASSUME NEW c \in Csid, NEW j \in 1..m, IsLast(sent, j, c, m)
         PROVE  csid_header'[c] = sent[j].len
    <2>1. m \in Nat /\ sent[j].csid = c /\ \A x \in 1..m : sent[x].csid = c => x <= j
      BY <1>1, <1>11 DEF IsLast
    <2>2. CASE c = bh.csid
      <3>1. j = m
        BY <1>1, <1>3, <2>1, <2>2
      <3>2. CASE bh.fmt <= 1
        <4>1. csid_header'[c] = wire[2].len
          BY <1>4, <1>6, <2>2, <3>2
        <4> QED  BY <1>3, <3>1, <3>2, <4>1 DEF D!Message
      <3>3. CASE bh.fmt > 1
        <4>1. PICK y \in 1..m - 1 : IsLast(sent, y, sent[m].csid, m - 1) /\ sent[y].len = sent[m].len
          BY <1>3, <3>3
        <4>2. csid_header[c] = sent[y].len
          BY <1>3, <1>10, <2>2, <4>1
        <4> QED  BY <1>4, <3>1, <3>3, <4>1, <4>2
      <3> QED  BY <1>4, <3>2, <3>3
    <2>3. CASE c # bh.csid
      <3>1. csid_header'[c] = csid_header[c]
        BY <1>4, <1>6, <2>3
      <3>2. j # m
        BY <1>3, <2>1, <2>3
      <3>3. j \in 1..m - 1 /\ \A x \in 1..m - 1 : x \in 1..m
        BY <1>1, <3>2
      <3>4. IsLast(sent, j, c, m - 1)
        BY <2>1, <3>3 DEF IsLast
      <3> QED  BY <1>10, <3>1, <3>3, <3>4
    <2> QED  BY <2>2, <2>3
  <1>12. AtPayload'
    <2>1. Len(got') + 1 = m /\ payload' = <<>> /\ Len(payload') = 0 /\ sent' = sent /\ left' = left
      BY <1>4, <1>6
    <2>2. csid' = sent[m].csid /\ m \in 1..Len(sent)
      BY <1>3, <1>4
    <2> HIDE DEF m
    <2> QED  BY <1>7, <2>1, <2>2 DEF AtPayload
  <1>13. /\ \A c \in Csid : left'[c] > 0 => current'[c] = Len(sent')
         /\ Len(got') <= Len(sent')
         /\ \A x \in 1..Len(got') : got'[x] = D!Whole(x)'
    BY <1>4 DEF InStep, D!Whole
  <1>14. (\A c \in Csid, j \in 1..Heard : IsLast(sent, j, c, Heard) => csid_header[c] = sent[j].len)'
    <2>1. sent' = sent
      BY <1>4
    <2> HIDE DEF m
    <2> QED  BY <1>9, <1>11, <2>1
  <1> QED  BY <1>4, <1>8, <1>12, <1>13, <1>14 DEF InStep

-----------------------------------------------------------------------------
\* What a turn of the payload loop does.
TurnFacts ==
    LET skip == IF payload = <<>> THEN 0 ELSE 1
        n == D!Least(csid_header[csid] - Len(payload), DemuxChunkSize)
    IN  /\ d_pc = "payload" /\ Len(payload) < csid_header[csid]
        /\ n \in Nat \ {0} /\ Len(payload) + n <= csid_header[csid] /\ skip + n \in 0..Len(wire)
        /\ wire' = Cut(wire, skip + n) /\ payload' \in Seq(Elem) /\ Len(payload') = Len(payload) + n
        /\ \A i \in 1..Len(payload) : payload'[i] = payload[i]
        /\ \A i \in 1..n : payload'[Len(payload) + i] = wire[skip + i]
        /\ UNCHANGED <<csid_header, csid, d_pc, got, sent, left, current, interleaved>>

LEMMA Piece ==
    ASSUME NEW w \in Seq(Elem), NEW a \in Nat, NEW n \in Nat \ {0}, a + n <= Len(w)
    PROVE  LET x == SubSeq(w, a + 1, a + n) IN
           x \in Seq(Elem) /\ Len(x) = n /\ \A i \in 1..n : x[i] = w[a + i]
  OBVIOUS

LEMMA TurnHas ==
    ASSUME DemuxBase, D!ReadTurn
    PROVE  TurnFacts
  <1> DEFINE skip == IF payload = <<>> THEN 0 ELSE 1
             left_over == csid_header[csid] - Len(payload)
             n == D!Least(left_over, DemuxChunkSize)
             x == SubSeq(wire, skip + 1, skip + n)
  <1>1. /\ wire \in Seq(Elem) /\ payload \in Seq(Elem) /\ Len(wire) \in Nat /\ Len(payload) \in Nat
    BY BaseTypes
  <1>2. csid_header[csid] \in -1..DemuxMaxLen
    BY DEF DemuxBase, D!TypeOK
  <1>3. /\ d_pc = "payload" /\ Len(payload) < csid_header[csid] /\ Len(wire) >= skip + n
        /\ payload' = payload \o x /\ wire' = SubSeq(wire, skip + n + 1, Len(wire))
        /\ UNCHANGED <<csid_header, csid, d_pc, got, sent, left, current, interleaved>>
    BY DEF D!ReadTurn, D!publisher
  <1>4. left_over \in Nat \ {0}
    BY <1>1, <1>2, <1>3, DemuxSizes DEF D!DemuxAssumption
  <1>5. skip \in Nat
    OBVIOUS
  <1> HIDE DEF left_over, skip
  <1>6. n \in Nat \ {0} /\ n <= left_over
    BY <1>4, LeastProps
  <1> HIDE DEF n
  <1>7. Len(payload) + n <= csid_header[csid] /\ skip + n \in 0..Len(wire)
    BY <1>1, <1>2, <1>3, <1>5, <1>6, DemuxSizes DEF left_over, D!DemuxAssumption
  <1>8. x \in Seq(Elem) /\ Len(x) = n /\ \A i \in 1..n : x[i] = wire[skip + i]
    BY <1>1, <1>5, <1>6, <1>7, Piece
  <1> HIDE DEF x
  <1>9. /\ payload' \in Seq(Elem) /\ Len(payload') = Len(payload) + n
        /\ \A i \in 1..Len(payload) : payload'[i] = payload[i]
        /\ \A i \in 1..n : payload'[Len(payload) + i] = x[i]
    BY <1>1, <1>3, <1>8, Joined
  <1>10. \A i \in 1..n : payload'[Len(payload) + i] = wire[skip + i]
    BY <1>8, <1>9
  <1>11. wire' = Cut(wire, skip + n)
    BY <1>3 DEF Cut
  <1> QED  BY <1>3, <1>6, <1>7, <1>9, <1>10, <1>11 DEF TurnFacts, skip, n, left_over

LEMMA TurnBase ==
    ASSUME DemuxBase, D!ReadTurn
    PROVE  DemuxBase'
  <1> DEFINE x == (IF payload = <<>> THEN 0 ELSE 1) + D!Least(csid_header[csid] - Len(payload), DemuxChunkSize)
  <1>1. /\ d_pc = "payload" /\ Len(payload') <= csid_header[csid] /\ x \in 0..Len(wire)
        /\ wire' = Cut(wire, x) /\ payload' \in Seq(Elem)
        /\ UNCHANGED <<csid_header, csid, d_pc, got, sent, left, current, interleaved>>
    BY TurnHas DEF TurnFacts
  <1>2. wire \in Seq(Elem)
    BY BaseTypes
  <1> HIDE DEF x
  <1>3. wire' \in Seq(Elem) /\ Paired(wire')
    BY <1>1, <1>2, CutProps, CutPaired DEF DemuxBase
  <1>4. D!TypeOK'
    BY <1>1 DEF DemuxBase, D!TypeOK
  <1>5. Pending'
    BY <1>1 DEF DemuxBase, Pending
  <1> QED  BY <1>1, <1>3, <1>4, <1>5 DEF DemuxBase

\* The length the server reads for is that of the message.
LEMMA HeaderOfMessage ==
    ASSUME DemuxBase, InStep, d_pc = "payload"
    PROVE  csid_header[csid] = sent[Len(got) + 1].len /\ Heard = Len(got) + 1
  <1> DEFINE m == Len(got) + 1
  <1>1. Len(got) \in Nat /\ m \in 1..Len(sent) /\ csid = sent[m].csid /\ Heard = m /\ csid \in Csid
    BY BaseTypes DEF InStep, AtPayload, Heard, DemuxBase, D!TypeOK
  <1>2. m \in 1..m /\ \A x \in 1..m : x <= m
    BY <1>1
  <1> HIDE DEF m
  <1>3. IsLast(sent, m, csid, m)
    BY <1>1, <1>2 DEF IsLast
  <1>4. csid_header[csid] = sent[m].len
    BY <1>1, <1>2, <1>3 DEF InStep
  <1> QED  BY <1>1, <1>4 DEF m

LEMMA TurnInStep ==
    ASSUME DemuxBase, InStep, D!ReadTurn
    PROVE  InStep'
  <1> DEFINE m == Len(got) + 1
             k == Len(payload)
             skip == IF payload = <<>> THEN 0 ELSE 1
             n == D!Least(csid_header[csid] - Len(payload), DemuxChunkSize)
  <1>1. /\ wire \in Seq(Elem) /\ Len(wire) \in Nat /\ Len(got) \in Nat /\ k \in Nat
        /\ sent \in Seq(MsgRec) /\ Len(sent) \in Nat /\ payload \in Seq(Elem)
    BY BaseTypes
  <1>2. /\ d_pc = "payload" /\ k < csid_header[csid]
        /\ n \in Nat \ {0} /\ k + n <= csid_header[csid] /\ skip + n \in 0..Len(wire)
        /\ wire' = Cut(wire, skip + n) /\ payload' \in Seq(Elem) /\ Len(payload') = k + n
        /\ \A i \in 1..k : payload'[i] = payload[i]
        /\ \A i \in 1..n : payload'[k + i] = wire[skip + i]
        /\ UNCHANGED <<csid_header, csid, d_pc, got, sent, left, current, interleaved>>
    BY TurnHas DEF TurnFacts
  <1>3. /\ m \in 1..Len(sent) /\ csid = sent[m].csid
        /\ \A i \in 1..k : payload[i] = D!Data(m, i)
        /\ k = 0 => ChunkFrom(wire, sent, left, m, 0, 1)
        /\ k > 0 => After(wire, sent, left, m, k, 1)
    BY <1>2 DEF InStep, AtPayload
  <1>4. csid_header[csid] = sent[m].len /\ sent[m].len \in Nat
    BY <1>1, <1>2, <1>3, HeaderOfMessage, LenType
  <1>5. n = D!Least(sent[m].len - k, DemuxChunkSize)
    BY <1>4
  <1>6. skip = IF k = 0 THEN 0 ELSE 1
    BY <1>1
  <1> HIDE DEF n, m
  <1>7. m \in Nat /\ k < sent[m].len
    BY <1>1, <1>2, <1>3, <1>4
  <1>8. ChunkFrom(wire, sent, left, m, k, skip + 1)
    <2>1. CASE k = 0
      BY <1>3, <1>6, <2>1
    <2>2. CASE k > 0
      <3>1. skip = 1 /\ Len(wire) >= 2
        BY <1>1, <1>2, <1>6, <2>2
      <3>2. /\ 1 \in 1..Len(wire) /\ wire[1] = D!Basic(3, sent[m].csid)
            /\ wire[1 + 1] = D!Data(m, k + 1)
        BY <1>1, <1>3, <1>7, <2>2, <3>1 DEF After
      <3>3. ChunkAt(wire, sent, left, 1)
        BY <3>2 DEF InStep, Chunked, D!Basic
      <3>4. DataAt(wire, 1) = 2
        BY <3>2 DEF DataAt, D!Basic
      <3>5. ChunkFrom(wire, sent, left, wire[2].msg, wire[2].pos - 1, 2)
        BY <3>3, <3>4 DEF ChunkAt
      <3>6. wire[2].msg = m /\ wire[2].pos - 1 = k
        BY <1>1, <3>2 DEF D!Data
      <3> QED  BY <3>1, <3>5, <3>6
    <2> QED  BY <1>1, <2>1, <2>2
  <1>9. /\ \A j \in 1..n : wire[skip + 1 + j - 1] = D!Data(m, k + j)
        /\ After(wire, sent, left, m, k + n, skip + 1 + n)
    BY <1>5, <1>8 DEF ChunkFrom
  <1> HIDE DEF skip, k
  <1>10. skip \in Nat
    BY DEF skip
  <1>11. After(wire', sent, left, m, k + n, 1)
    <2>1. skip + 1 + n = 1 + (skip + n) /\ k + n \in Nat
      BY <1>1, <1>2, <1>10
    <2>2. After(wire, sent, left, m, k + n, 1 + (skip + n))
      BY <1>9, <2>1
    <2> QED  BY <1>1, <1>2, <1>7, <2>1, <2>2, CutAfter
  <1>12. ASSUME NEW i \in 1..k + n PROVE payload'[i] = D!Data(m, i)
    <2>1. CASE i <= k
      BY <1>1, <1>2, <1>3, <2>1
    <2>2. CASE i > k
      <3> DEFINE j == i - k
      <3>1. j \in 1..n /\ k + j = i
        BY <1>1, <1>2, <2>2
      <3> HIDE DEF j
      <3>2. skip + 1 + j - 1 = skip + j
        BY <1>10, <3>1
      <3>3. payload'[k + j] = wire[skip + j] /\ wire[skip + j] = D!Data(m, k + j)
        BY <1>2, <1>9, <3>1, <3>2
      <3> QED  BY <3>1, <3>3
    <2> QED  BY <1>1, <1>2, <2>1, <2>2
  <1>13. Chunked(wire', sent, left)
    <2>1. Chunked(wire, sent, left)
      BY DEF InStep
    <2> QED  BY <1>1, <1>2, <2>1, CutChunked
  <1>14. AtPayload'
    <2>1. Len(got') + 1 = m /\ Len(payload') = k + n /\ k + n > 0 /\ ~(k + n = 0)
      BY <1>1, <1>2 DEF m
    <2>2. sent' = sent /\ left' = left /\ csid' = csid
      BY <1>2
    <2> QED  BY <1>3, <1>11, <1>12, <2>1, <2>2 DEF AtPayload
  <1>15. Heard' = Heard
    BY <1>2 DEF Heard
  <1>16. UNCHANGED <<csid_header, csid, d_pc, got, sent, left, current, interleaved>>
    BY <1>2
  <1>17. /\ \A c \in Csid : left'[c] > 0 => current'[c] = Len(sent')
         /\ d_pc' # "lost" /\ Len(got') <= Len(sent')
         /\ \A x \in 1..Len(got') : got'[x] = D!Whole(x)'
    BY <1>16 DEF InStep, D!Whole
  <1>18. (\A c \in Csid, j \in 1..Heard : IsLast(sent, j, c, Heard) => csid_header[c] = sent[j].len)'
    BY <1>15, <1>16 DEF InStep
  <1> QED  BY <1>2, <1>13, <1>14, <1>16, <1>17, <1>18 DEF InStep

-----------------------------------------------------------------------------
LEMMA DoneBase ==
    ASSUME DemuxBase, D!ReadDone
    PROVE  DemuxBase'
  <1>1. /\ d_pc' = "header" /\ payload' = <<>> /\ got' = Append(got, [csid |-> csid, payload |-> payload])
        /\ UNCHANGED <<csid_header, csid, wire, sent, left, current, interleaved>>
    BY DEF D!ReadDone, D!publisher
  <1>2. [csid |-> csid, payload |-> payload] \in GotRec /\ got \in Seq(GotRec)
    BY DEF DemuxBase, D!TypeOK, GotRec
  <1>3. got' \in Seq(GotRec)
    BY <1>1, <1>2
  <1>4. D!TypeOK'
    BY <1>1 DEF DemuxBase, D!TypeOK
  <1>5. Pending'
    BY <1>1 DEF DemuxBase, Pending
  <1>6. payload' \in Seq(Elem)
    BY <1>1
  <1> QED  BY <1>1, <1>3, <1>4, <1>5, <1>6 DEF DemuxBase

LEMMA SameChunk ==
    ASSUME NEW y \in Seq(Elem), NEW m \in Nat, \A i \in 1..Len(y) : y[i] = D!Data(m, i)
    PROVE  y = D!Chunk(m, 0, Len(y))
  <1> DEFINE x == D!Chunk(m, 0, Len(y))
  <1>1. Len(y) \in Nat
    OBVIOUS
  <1>2. x \in Seq(Elem) /\ Len(x) = Len(y) /\ \A i \in 1..Len(y) : x[i] = D!Data(m, 0 + i)
    BY <1>1, ChunkSeq
  <1>3. \A i \in 1..Len(y) : 0 + i = i
    BY <1>1
  <1> HIDE DEF x
  <1>4. \A i \in 1..Len(y) : x[i] = y[i]
    BY <1>2, <1>3
  <1>5. x = y
    BY <1>2, <1>4, SeqEqual
  <1> QED  BY <1>5 DEF x

LEMMA DoneInStep ==
    ASSUME DemuxBase, InStep, D!ReadDone
    PROVE  InStep'
  <1> DEFINE m == Len(got) + 1
             r == [csid |-> csid, payload |-> payload]
  <1>1. /\ Len(got) \in Nat /\ Len(sent) \in Nat /\ sent \in Seq(MsgRec) /\ got \in Seq(GotRec)
        /\ payload \in Seq(Elem) /\ Len(payload) \in Nat /\ wire \in Seq(Elem) /\ Len(wire) \in Nat
    BY BaseTypes
  <1>2. /\ d_pc = "payload" /\ Len(payload) >= csid_header[csid]
        /\ d_pc' = "header" /\ payload' = <<>> /\ got' = Append(got, r)
        /\ UNCHANGED <<csid_header, csid, wire, sent, left, current, interleaved>>
    BY DEF D!ReadDone, D!publisher
  <1>3. /\ m \in 1..Len(sent) /\ csid = sent[m].csid
        /\ \A i \in 1..Len(payload) : payload[i] = D!Data(m, i)
        /\ Len(payload) > 0 => After(wire, sent, left, m, Len(payload), 1)
    BY <1>2 DEF InStep, AtPayload
  <1>4. csid_header[csid] = sent[m].len /\ sent[m].len \in Nat \ {0} /\ Heard = m
    BY <1>1, <1>2, <1>3, HeaderOfMessage, LenType
  <1>5. Len(payload) = sent[m].len /\ Len(payload) > 0
    <2>1. Len(payload) > 0
      BY <1>1, <1>2, <1>4
    <2>2. Len(payload) <= sent[m].len
      <3>1. payload # <<>>
        BY <2>1
      <3> QED  BY <1>4, <3>1 DEF DemuxBase, D!TypeOK
    <2> QED  BY <1>1, <1>2, <1>4, <2>1, <2>2
  <1>6. r = D!Whole(m)
    <2>1. m \in Nat
      BY <1>1
    <2> HIDE DEF m
    <2>2. payload = D!Chunk(m, 0, Len(payload))
      BY <1>1, <1>3, <2>1, SameChunk
    <2> QED  BY <1>3, <1>5, <2>2 DEF D!Whole
  <1>7. Len(got') = m /\ got'[m] = r /\ \A x \in 1..Len(got) : got'[x] = got[x]
    <2>1. r \in GotRec
      BY DEF GotRec, DemuxBase, D!TypeOK
    <2> HIDE DEF r
    <2> QED  BY <1>1, <1>2, <2>1
  <1>8. ASSUME NEW x \in 1..m PROVE got'[x] = D!Whole(x)'
    <2>1. D!Whole(x)' = D!Whole(x)
      BY <1>2 DEF D!Whole
    <2>2. CASE x = m
      BY <1>6, <1>7, <2>1, <2>2
    <2>3. CASE x # m
      <3>1. x \in 1..Len(got)
        BY <1>1, <2>3
      <3>2. got[x] = D!Whole(x)
        BY <3>1 DEF InStep
      <3> QED  BY <1>7, <2>1, <3>1, <3>2
    <2> QED  BY <2>2, <2>3
  <1>9. AtHeader'
    <2>1. After(wire, sent, left, m, sent[m].len, 1)
      BY <1>3, <1>5
    <2>2. \/ 1 = Len(wire) + 1 /\ m = Len(sent) /\ \A c \in Csid : left[c] = 0
          \/ Starts(wire, sent, m + 1, 1)
      BY <2>1 DEF After
    <2>3. 1 = Len(wire) + 1 => wire = <<>>
      BY <1>1
    <2>4. Len(got') = m /\ wire' = wire /\ sent' = sent /\ left' = left
      BY <1>2, <1>7
    <2> HIDE DEF m
    <2> QED  BY <2>2, <2>3, <2>4 DEF AtHeader
  <1>10. Heard' = m
    BY <1>2, <1>7 DEF Heard
  <1>11. (\A c \in Csid, j \in 1..Heard : IsLast(sent, j, c, Heard) => csid_header[c] = sent[j].len)'
    <2> HIDE DEF m
    <2>1. \A c \in Csid, j \in 1..m : IsLast(sent, j, c, m) => csid_header[c] = sent[j].len
      BY <1>4 DEF InStep
    <2>2. sent' = sent /\ csid_header' = csid_header
      BY <1>2
    <2> QED  BY <1>10, <2>1, <2>2
  <1>12. Chunked(wire', sent', left') /\ \A c \in Csid : left'[c] > 0 => current'[c] = Len(sent')
    BY <1>2 DEF InStep
  <1>13. Len(got') <= Len(sent')
    BY <1>1, <1>2, <1>3, <1>7
  <1>14. \A x \in 1..Len(got') : got'[x] = D!Whole(x)'
    BY <1>7, <1>8
  <1> QED  BY <1>2, <1>9, <1>11, <1>12, <1>13, <1>14 DEF InStep

-----------------------------------------------------------------------------
LEMMA DemuxStep == DemuxInv /\ [D!Next]_D!vars => DemuxInv'
  <1> SUFFICES ASSUME DemuxInv, [D!Next]_D!vars PROVE DemuxInv'
    OBVIOUS
  <1>1. DemuxBase /\ (~interleaved => InStep)
    BY DEF DemuxInv
  <1>2. ASSUME NEW c \in Csid, NEW f \in 0..3, NEW n \in 1..DemuxMaxLen, D!Begin(c, f, n)
        PROVE  DemuxInv'
    <2>1. ~interleaved' => ~interleaved /\ ~D!Others(c)
      BY <1>2 DEF D!Begin
    <2>2. ~interleaved' => InStep'
      BY <1>1, <1>2, <2>1, BeginInStep
    <2>3. DemuxBase'
      BY <1>1, <1>2, BeginBase
    <2> QED  BY <2>2, <2>3 DEF DemuxInv
  <1>3. ASSUME NEW c \in Csid, D!Continue(c) PROVE DemuxInv'
    <2>1. ~interleaved' => ~interleaved /\ ~D!Others(c)
      BY <1>3 DEF D!Continue
    <2>2. ~interleaved' => InStep'
      BY <1>1, <1>3, <2>1, ContinueInStep
    <2>3. DemuxBase'
      BY <1>1, <1>3, ContinueBase
    <2> QED  BY <2>2, <2>3 DEF DemuxInv
  <1>4. CASE D!ReadHeader
    <2>1. interleaved' = interleaved
      BY <1>4 DEF D!ReadHeader, D!publisher
    <2> QED  BY <1>1, <1>4, <2>1, HeaderBase, HeaderInStep DEF DemuxInv
  <1>5. CASE D!ReadTurn
    <2>1. interleaved' = interleaved
      BY <1>5 DEF D!ReadTurn, D!publisher
    <2> QED  BY <1>1, <1>5, <2>1, TurnBase, TurnInStep DEF DemuxInv
  <1>6. CASE D!ReadDone
    <2>1. interleaved' = interleaved
      BY <1>6 DEF D!ReadDone, D!publisher
    <2> QED  BY <1>1, <1>6, <2>1, DoneBase, DoneInStep DEF DemuxInv
  <1>7. CASE UNCHANGED D!vars
    <2>1. DemuxBase'
      BY <1>1, <1>7 DEF D!vars, DemuxBase, D!TypeOK, Pending
    <2>2. InStep => InStep'
      <3> SUFFICES ASSUME InStep PROVE InStep'
        OBVIOUS
      <3>1. AtHeader' <=> AtHeader
        BY <1>7 DEF D!vars, AtHeader
      <3>2. AtPayload' <=> AtPayload
        BY <1>7 DEF D!vars, AtPayload
      <3>3. Heard' = Heard
        BY <1>7 DEF D!vars, Heard
      <3> QED  BY <1>7, <3>1, <3>2, <3>3 DEF D!vars, InStep, D!Whole
    <2>3. interleaved' = interleaved
      BY <1>7 DEF D!vars
    <2> QED  BY <1>1, <2>1, <2>2, <2>3 DEF DemuxInv
  <1> QED  BY <1>2, <1>3, <1>4, <1>5, <1>6, <1>7 DEF D!Next, D!Server

LEMMA InvDemuxed == DemuxInv => Demuxed
  <1> SUFFICES ASSUME DemuxInv PROVE Demuxed
    OBVIOUS
  <1>1. D!TypeOK
    BY DEF DemuxInv, DemuxBase
  <1>2. D!HandsOnWhole
    BY DEF DemuxInv, InStep, D!HandsOnWhole
  <1>3. ASSUME ~interleaved, NEW i \in 1..Len(payload)
        PROVE  payload[i].k = "data" /\ payload[i].msg = Len(got) + 1 /\ payload[i].pos = i
    <2>1. d_pc = "payload"
      <3>1. payload # <<>>
        BY <1>3
      <3> QED  BY <3>1 DEF DemuxInv, DemuxBase
    <2>2. payload[i] = D!Data(Len(got) + 1, i)
      BY <1>3, <2>1 DEF DemuxInv, InStep, AtPayload
    <2> QED  BY <2>2 DEF D!Data
  <1> QED  BY <1>1, <1>2, <1>3 DEF Demuxed, D!Demuxed, D!Unmixed

\* Whatever the lengths, the chunk streams and their number: recv_audio_video
\* hands on every message whole, in the order sent and unmixed, until the
\* publisher interleaves the chunks of two messages.
THEOREM MessagesDemuxed == D!Spec => []Demuxed
  BY DemuxInit, DemuxStep, InvDemuxed, PTL DEF D!Spec

==============================================================================
