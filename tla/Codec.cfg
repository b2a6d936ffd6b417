CONSTANTS
    Ext = 7
    Half = 16
    MaxTime = 20
    ChunkSize = 5
    PeerChunks = {3, 4, 5, 6, 10}
    MaxLen = 16
    Csid = {audio, video}
    DemuxChunkSize = 2
    DemuxMaxLen = 4
    MaxMessages = 3
    MaxEntries = 2
SPECIFICATION Codec
INVARIANTS Drift PlayedWell ChunksWhole Demuxed HeadersRead PayloadsRead
PROPERTIES Forward MessagesEnd
\* One message is sent, or read; a publisher may stop.
CHECK_DEADLOCK FALSE
