----------------------------- MODULE Amf0Sizes -----------------------------
(***************************************************************************)
(* The lengths of the messages the server writes: what write_payload puts  *)
(* into IO_Buffer, item by item, and what the caller of write_message      *)
(* declares in the header.  A string is its length; an entry of an object  *)
(* is <<length of the key, length of the encoded value>>.                  *)
(***************************************************************************)
EXTENDS Integers, Sequences, SequencesExt

\* Encoded lengths of the AMF0 values: marker, length field, contents.  Count is
\* a Value_Len, the marker 0x08 and four bytes.
Str(n) == 3 + n
Num == 9
Null == 1
Undefined == 1
Bool == 2
Count == 5

Total(s) == FoldLeft(LAMBDA a, b : a + b, 0, s)

Entry(e) == 2 + e[1] + e[2]
Entries(obj) == Total([i \in DOMAIN obj |-> Entry(obj[i])])

\* write_object and the equal loops of the other write_payload functions: the
\* marker 0x03, the entries and 00 00 09 for every object, 00 00 09 once more
\* behind two objects, a null for none.
ObjectsWritten(objs) ==
    IF objs = <<>> THEN Null
    ELSE Total([i \in DOMAIN objs |-> 1 + Entries(objs[i]) + 3])
         + (IF Len(objs) > 1 THEN 3 ELSE 0)

\* Faulty variant: the second end marker is not counted.
PayloadSizeOneEnd(command, objs) ==
    3 + command + 9
    + (IF objs = <<>> THEN 1
       ELSE Total([i \in DOMAIN objs |-> 1 + Entries(objs[i]) + 3]))

\* Send_Object_Message::get_payload_size.
PayloadSize(command, objs) ==
    3 + command + 9
    + (IF objs = <<>> THEN 1
       ELSE Total([i \in DOMAIN objs |-> 1 + Entries(objs[i]) + 3])
            + (IF Len(objs) > 1 THEN 3 ELSE 0))

-----------------------------------------------------------------------------
(* The payloads, one operator for each write_payload. *)

Set_Window_Size == 4
Set_Peer_Bandwidth == 4 + 1
SetChunkSize == 4
SrcPCUCStreamBegin == 2 + 4

\* Send_Object_Message::write_payload, and the objects of the reply to connect.
Send_Object_Message(command, objs) == Str(command) + Num + ObjectsWritten(objs)
ConnectObjects ==
    << << <<6, Str(13)>>, <<12, Num>>, <<4, Num>> >>,
       << <<5, Str(6)>>, <<4, Str(29)>>, <<11, Str(20)>>, <<14, Num>>, <<4, Count>>,
          <<7, Str(9)>>, <<6, Str(23)>>, <<7, Str(47)>>, <<11, Str(3)>> >> >>

ReleaseStreamResponse == Str(7) + Num + Null + Undefined
FCPublishResponse == Str(7) + Num + Null + Undefined
CreateStreamResponse == Str(7) + Num + Null + Num

OnFCPublish ==
    Str(11) + Num + Null + ObjectsWritten(<< << <<4, Str(23)>>, <<11, Str(26)>> >> >>)
OnStatus ==
    Str(8) + Num + Null
    + ObjectsWritten(<< << <<5, Str(6)>>, <<4, Str(23)>>, <<11, Str(26)>>, <<8, Str(8)>> >> >>)

\* PullStreamOnStatus, by the length of its description.
PullStreamOnStatus(description) ==
    Str(8) + Num + Null
    + ObjectsWritten(<< << <<5, Str(6)>>, <<4, Str(20)>>, <<11, Str(description)>>,
                           <<7, Str(6)>>, <<8, Str(8)>> >> >>)

RtmpSampleAccess == Str(17) + Bool + Bool
PullStreamOnStatus3 == Str(8) + ObjectsWritten(<< << <<4, Str(20)>> >> >>)

\* OnMetaData::write_payload adds an entry to set_data_frame, then writes it.
WithServer(frame) == Append(frame, <<6, Str(26)>>)
OnMetaData(frame) == Str(10) + ObjectsWritten(<<frame>>)

-----------------------------------------------------------------------------
\* Payload lengths by message; frame is set_data_frame when onMetaData is written.
Actual(kind, frame) ==
    CASE kind = "windowSize"    -> Set_Window_Size
      [] kind = "peerBandwidth" -> Set_Peer_Bandwidth
      [] kind = "connectResult" -> Send_Object_Message(7, ConnectObjects)
      [] kind = "onBWDone"      -> Send_Object_Message(8, <<>>)
      [] kind = "releaseResult" -> ReleaseStreamResponse
      [] kind = "fcResult"      -> FCPublishResponse
      [] kind = "setChunkSize"  -> SetChunkSize
      [] kind = "createResult"  -> CreateStreamResponse
      [] kind = "onFCPublish"   -> OnFCPublish
      [] kind = "onStatus"      -> OnStatus
      [] kind = "streamBegin"   -> SrcPCUCStreamBegin
      [] kind = "playReset"     -> PullStreamOnStatus(29)
      [] kind = "playStart"     -> PullStreamOnStatus(23)
      [] kind = "sampleAccess"  -> RtmpSampleAccess
      [] kind = "dataStart"     -> PullStreamOnStatus3
      [] kind = "onMetaData"    -> OnMetaData(frame)

\* The message_length arguments of write_message in client.cpp.
Declared(kind) ==
    CASE kind = "windowSize"    -> 4
      [] kind = "peerBandwidth" -> 5
      [] kind = "connectResult" -> PayloadSize(7, ConnectObjects)
      [] kind = "onBWDone"      -> PayloadSize(8, <<>>)
      [] kind \in {"releaseResult", "fcResult"} -> 21
      [] kind = "setChunkSize"  -> 4
      [] kind = "createResult"  -> 29
      [] kind = "onFCPublish"   -> 102
      [] kind = "onStatus"      -> 136
      [] kind = "streamBegin"   -> 6
      [] kind = "playReset"     -> 154
      [] kind = "playStart"     -> 148
      [] kind = "sampleAccess"  -> 24
      [] kind = "dataStart"     -> 44
      [] kind = "onMetaData"    -> 395
=============================================================================
