-------------------------------- MODULE Media --------------------------------
(***************************************************************************)
(* The media messages of a publisher as recv_audio_video takes them from   *)
(* the connection: their timestamps (AvTimestamps), and the chunks of      *)
(* their chunk streams (ChunkDemux).  The two share no state.              *)
(***************************************************************************)
EXTENDS AvTimestamps

CONSTANTS Csid, DemuxChunkSize, DemuxMaxLen, MaxMessages

VARIABLES sent, left, current, wire, interleaved, csid_header, csid, payload, d_pc, got

dvars == <<sent, left, current, wire, interleaved, csid_header, csid, payload, d_pc, got>>

D == INSTANCE ChunkDemux WITH ChunkSize <- DemuxChunkSize, MaxLen <- DemuxMaxLen, pc <- d_pc

ASSUME DemuxSizes == D!DemuxAssumption

\* ChunkDemux: messages of several chunk streams are handed on whole, in order
\* and unmixed, until the publisher interleaves their chunks.
Demuxed == D!Demuxed
==============================================================================
