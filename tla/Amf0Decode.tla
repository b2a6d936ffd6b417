------------------------------- MODULE Amf0Decode -------------------------------
(***************************************************************************)
(* The payload readers of the command and data messages                    *)
(* (all_kinds_of_messages.cpp) and IO_Message::read_object: what they make *)
(* of AMF0 values that a peer has encoded.  A value is                     *)
(*   [k |-> "num", v], [k |-> "bool", v], [k |-> "str", n], [k |-> "null"],*)
(*   [k |-> "obj", e] or [k |-> "arr", e]                                  *)
(* with n the length of a string (its letters do not matter) and e a       *)
(* sequence of entries [key, val], key the length of the key.              *)
(***************************************************************************)
EXTENDS Integers, Sequences, SequencesExt

CONSTANTS
    Entry,       \* bound: the entries of objects and arrays
    MaxEntries,  \* bound: the entries of one object
    Rest         \* bound: what a peer puts behind the values a reader asks for

DecodeAssumption == MaxEntries \in Nat

VARIABLES
    handler, \* the message class whose read_payload runs
    sent,    \* the values the peer has encoded
    payload, \* their bytes
    p,       \* the reader's position
    expect,  \* the values the reader still asks for
    count,   \* the entries of the array still to be read
    object,  \* IO_Message::object, a function from keys
    frame,   \* the global set_data_frame
    before,  \* history: set_data_frame when the message came
    pc       \* "idle", "read", "object", "array", "ok" (0) or "error" (-1)

vars == <<handler, sent, payload, p, expect, count, object, frame, before, pc>>

\* The values each reader asks for, in order; a name is a nonempty string.
Reader ==
    [ConnectMessage |-> <<"name", "num", "obj">>,
     CommandMessage |-> <<"name", "num", "null">>,
     Publish        |-> <<"name", "num", "null", "empty", "name">>,
     SetDataFrame   |-> <<"name", "name", "arr">>]

-----------------------------------------------------------------------------
(* How a peer encodes values. *)

Be(v, k) == [i \in 1..k |-> (v \div 256^(k - i)) % 256]
Text(n) == [i \in 1..n |-> 97]

EncodeSimple(v) ==
    CASE v.k = "num"  -> <<0, v.v>> \o [i \in 1..7 |-> 0]
      [] v.k = "bool" -> <<1, v.v>>
      [] v.k = "str"  -> <<2>> \o Be(v.n, 2) \o Text(v.n)
      [] v.k = "null" -> <<5>>

EncodeEntries(e) ==
    FlattenSeq([i \in 1..Len(e) |-> Be(e[i].key, 2) \o Text(e[i].key) \o EncodeSimple(e[i].val)])
        \o <<0, 0, 9>>

Encode(v) ==
    CASE v.k = "obj" -> <<3>> \o EncodeEntries(v.e)
      [] v.k = "arr" -> <<8>> \o Be(Len(v.e), 4) \o EncodeEntries(v.e)
      [] OTHER -> EncodeSimple(v)

-----------------------------------------------------------------------------
Size == Len(payload)
Has(q, n) == q + n - 1 <= Size
Be2(q) == payload[q] * 256 + payload[q + 1]

\* set_data_frame is empty, or another publisher's.
Init ==
    /\ handler = "none" /\ sent = <<>> /\ payload = <<>> /\ p = 1 /\ expect = <<>>
    /\ count = 0 /\ object = <<>> /\ pc = "idle"
    /\ frame \in {<<>>} \cup {<<e>> : e \in {x \in Entry : x.val.k = "bool"}}
    /\ before = frame

\* recv_message of a class with this reader, after the whole message is read.
Receive(h, vs) ==
    /\ pc = "idle"
    /\ handler' = h
    /\ sent' = vs
    /\ payload' = FlattenSeq([i \in 1..Len(vs) |-> Encode(vs[i])])
    /\ p' = 1
    /\ expect' = Reader[h]
    /\ before' = frame
    /\ object' = <<>>
    /\ count' = 0
    /\ pc' = "read"
    /\ UNCHANGED frame

Return(r) == pc' = r /\ UNCHANGED <<handler, sent, payload, p, expect, count, object, frame, before>>

\* The position after the value item at p, 0 if it is not there.
After(item) ==
    CASE ~Has(p, 1) -> 0
      [] item \in {"name", "empty"} ->
            IF payload[p] = 2 /\ Has(p + 1, 2) /\ (Be2(p + 1) = 0) = (item = "empty")
            THEN p + 3 + Be2(p + 1) ELSE 0
      [] item = "num"  -> IF payload[p] = 0 /\ Has(p + 1, 8) THEN p + 9 ELSE 0
      [] item = "null" -> IF payload[p] = 5 THEN p + 1 ELSE 0
      [] item = "obj"  -> IF payload[p] = 3 THEN p + 1 ELSE 0
      [] item = "arr"  -> IF payload[p] = 8 /\ Has(p + 1, 4) THEN p + 5 ELSE 0

\* The next value: a simple one is skipped or kept, an object or an array begins.
ReadItem ==
    /\ pc = "read" /\ expect # <<>>
    /\ LET q == After(Head(expect))
           n == IF Head(expect) = "arr" THEN Be2(q - 2) ELSE 0
       IN  IF q = 0 \/ (Head(expect) = "arr" /\ n = 0) THEN Return("error")
           ELSE /\ p' = q
                /\ expect' = Tail(expect)
                /\ count' = n
                /\ pc' = CASE Head(expect) = "obj" -> "object"
                           [] Head(expect) = "arr" -> "array"
                           [] OTHER -> "read"
                /\ UNCHANGED <<handler, sent, payload, object, frame, before>>

ReadDone == pc = "read" /\ expect = <<>> /\ Return("ok")

\* The value of an entry, and the position after it; none for an empty string
\* and for any other kind of value.
ValueAt(q) ==
    IF ~Has(q, 1) THEN {}
    ELSE CASE payload[q] = 0 -> IF Has(q + 1, 8) THEN {<<[k |-> "num", v |-> payload[q + 1]], q + 9>>} ELSE {}
           [] payload[q] = 1 -> IF Has(q + 1, 1) THEN {<<[k |-> "bool", v |-> payload[q + 1]], q + 2>>} ELSE {}
           [] payload[q] = 2 -> IF Has(q + 1, 2) /\ Be2(q + 1) > 0 /\ Has(q + 3, Be2(q + 1))
                                THEN {<<[k |-> "str", n |-> Be2(q + 1)], q + 3 + Be2(q + 1)>>} ELSE {}
           [] OTHER -> {}

\* std::unordered_map::insert: the first value of a key stays.
Insert(f, key, val) ==
    [x \in DOMAIN f \cup {key} |-> IF x \in DOMAIN f THEN f[x] ELSE val]

\* read_object: an entry.
ObjectEntry ==
    /\ pc = "object" /\ Has(p, 2) /\ Be2(p) # 0
    /\ LET key == Be2(p) q == p + 2 + key
       IN  IF q - 1 > Size \/ ValueAt(q) = {} THEN Return("error")
           ELSE \E v \in ValueAt(q) :
                  /\ object' = Insert(object, key, v[1])
                  /\ p' = v[2]
                  /\ UNCHANGED <<handler, sent, payload, expect, count, frame, before, pc>>

\* Faulty variant: whatever follows the object is left alone.
ObjectEndLax ==
    /\ pc = "object" /\ ~(Has(p, 2) /\ Be2(p) # 0)
    /\ Return(IF Has(p, 3) /\ payload[p + 2] = 9 THEN "ok" ELSE "error")

\* read_object: the end marker, or the bytes run out.  More bytes behind the
\* marker have to begin with two zeros; anything else is taken for two bytes
\* and an object's marker, which is not how a second object begins.
ObjectEnd ==
    /\ pc = "object" /\ ~(Has(p, 2) /\ Be2(p) # 0)
    /\ IF ~Has(p, 3) \/ payload[p + 2] # 9 THEN Return("error")
       ELSE IF ~Has(p + 3, 1) THEN Return("ok")
       ELSE IF ~Has(p + 3, 2) THEN Return("error")
       ELSE IF Be2(p + 3) = 0 THEN Return("ok")
       ELSE IF Has(p + 5, 1) /\ payload[p + 5] = 3
       THEN p' = p + 6 /\ UNCHANGED <<handler, sent, payload, expect, count, object, frame, before, pc>>
       ELSE Return("error")

\* SetDataFrame::read_payload: an entry of the array.
ArrayEntry ==
    /\ pc = "array"
    /\ LET key == Be2(p) q == p + 2 + key
       IN  IF ~Has(p, 2) \/ key = 0 \/ ValueAt(q) = {} THEN Return("error")
           ELSE \E v \in ValueAt(q) :
                  /\ frame' = Append(frame, [key |-> key, val |-> v[1]])
                  /\ p' = v[2]
                  /\ count' = count - 1
                  /\ pc' = IF count = 1 THEN "ok" ELSE "array"
                  /\ UNCHANGED <<handler, sent, payload, expect, object, before>>

\* What peers send: the values of a command, and perhaps more.
Name == [k |-> "str", n |-> 2]
Num == [k |-> "num", v |-> 1]
Null == [k |-> "null"]
Bodies == UNION {[1..n -> Entry] : n \in 0..MaxEntries}

Next ==
    \/ \E e \in Bodies, r \in Rest : Receive("ConnectMessage", <<Name, Num, [k |-> "obj", e |-> e]>> \o r)
    \/ \E e \in Bodies, r \in Rest : Receive("SetDataFrame", <<Name, Name, [k |-> "arr", e |-> e]>> \o r)
    \/ \E h \in {"CommandMessage", "Publish"}, r \in Rest : Receive(h, <<Name, Num, Null>> \o r)
    \/ ReadItem \/ ReadDone \/ ObjectEntry \/ ObjectEnd \/ ArrayEntry

Spec == Init /\ [][Next]_vars

-----------------------------------------------------------------------------
\* Type invariant; the reader never stands behind the end of the payload.
TypeOK ==
    /\ handler \in DOMAIN Reader \cup {"none"}
    /\ p \in 1..Size + 1
    /\ count \in 0..MaxEntries
    /\ DOMAIN object \subseteq Nat
    /\ frame \in Seq([key : Nat, val : {e.val : e \in Entry}])
    /\ pc \in {"idle", "read", "object", "array", "ok", "error"}

\* The entries a reader can take: numbers, booleans and strings that are not empty.
Readable(e) == e.val.k \in {"num", "bool"} \/ (e.val.k = "str" /\ e.val.n > 0)

\* The entries of e up to the first that cannot be taken.
Taken(e) == SubSeq(e, 1, Max({n \in 0..Len(e) : \A i \in 1..n : Readable(e[i])}))

\* connect is accepted exactly if its object can be read and nothing follows it
\* but what begins with two zeros; and object then has the first value of every key.
ConnectRead ==
    handler = "ConnectMessage" /\ pc \in {"ok", "error"} =>
        LET e == sent[3].e
            rest == SubSeq(sent, 4, Len(sent))
        IN  /\ (pc = "ok") = (Taken(e) = e /\ (rest = <<>> \/ IsPrefix(<<0, 0>>, Encode(rest[1]))))
            /\ pc = "ok" =>
                /\ DOMAIN object = {e[i].key : i \in 1..Len(e)}
                /\ \A i \in 1..Len(e) :
                    (\A j \in 1..i - 1 : e[j].key # e[i].key) => object[e[i].key] = e[i].val

\* A command is accepted whatever follows its null, but for publish, which wants
\* an empty stream name and then a type.
CommandRead ==
    pc \in {"ok", "error"} =>
        /\ handler = "CommandMessage" => pc = "ok"
        /\ handler = "Publish" =>
            (pc = "ok") = (/\ Len(sent) >= 5
                           /\ sent[4] = [k |-> "str", n |-> 0]
                           /\ sent[5].k = "str" /\ sent[5].n > 0)

\* The metadata of a publisher is appended to what set_data_frame had: all of it
\* if the message is accepted, and, with nothing taken back, what came before the
\* first value that cannot be read if it is not.
FrameRead ==
    pc \in {"ok", "error"} =>
        IF handler # "SetDataFrame" THEN frame = before
        ELSE /\ frame = before \o Taken(sent[3].e)
             /\ (pc = "ok") = (sent[3].e # <<>> /\ Taken(sent[3].e) = sent[3].e)

\* The decoders accept the payloads ConnectRead, CommandRead and FrameRead name,
\* and leave in their objects what these say.
PayloadsRead == TypeOK /\ ConnectRead /\ CommandRead /\ FrameRead
=================================================================================
