# TLA+ models of RTMP-Server

RTMP-Server accepts RTMP connections, takes an audio/video stream from a
pushing client (ffmpeg) and relays it to pulling clients (VLC). It is a single
process that runs every connection as a coroutine of the State Threads library
(`3rdpart/st-1.9`), whose sources are part of the repository. This directory
models the control of both: who runs when, what the shared globals hold at that
moment, which bytes are taken from and put on the sockets, and how the library
schedules, waits, joins and looks at descriptors.

## The system

| component | state | operations |
|---|---|---|
| accept loop (`server.cpp`, `main_server.cpp`) | listening socket, `clients`, descriptors | `listen`, `cycle`, `accept`: create a client and its coroutine, `st_usleep(0)` |
| command dialogue (`client.cpp`, `rtmp_protocol.cpp`, `all_kinds_of_messages.cpp`) | `chunk_size`, the globals `csid_header` and `set_data_frame` | handshake, connect and replies, `IdentifyClient`, push sequence, pull sequence |
| media relay (`client.cpp` 227-345 and 448-470) | the globals `audio_video_buffer`, `curr_csid`, `csid_header`, `consumers` | push loop: receive, hand off, sleep, clear; play loop: poll the slot, send, reset the slot |
| chunking (`io_message.cpp`) | positions in the payload | `recv_audio_video_payload`, `write_message`, the send loop of a player |
| chunk headers (`io_message.cpp`, `util.cpp`) | `csid_header[csid]` | `write_header`, `read_basic_header`, `read_message_header` and their `audio_video` twins |
| message lengths, decoding (`all_kinds_of_messages.cpp`) | `object`, the global `set_data_frame` | a `write_payload` and a `read_payload` per message |
| sockets (`io_socket.cpp`, `io_buffer.cpp`, `io.c`) | `IO_Buffer` or `audio_video_buffer`, a local array, the vectors left to write | `read_nbytes`, `read_nbytes_cycle` and the `_av` twins, `write`, `writev` |
| scheduler (`sched.c`) | run queue, timeout heap, I/O queue | `st_usleep`, `st_poll`, the idle thread |
| threads (`sched.c`, `stk.c`) | zombie queue, free stacks, active count | `st_thread_create`, `st_thread_exit`, `st_thread_join`, `st_thread_interrupt` |
| synchronisation (`sync.c`) | wait queues, owner, thread flags | `st_cond_*`, `st_mutex_*`, `st_usleep` |
| event systems (`event.c`) | reference counts, bit sets, pollfd array, epoll set | `pollset_add`, `pollset_del`, `dispatch`, `fd_close` for select, poll and epoll |

The components meet in four places. All coroutines share the globals; nothing
but the absence of a context switch protects them. Publisher and players meet in
one pointer, `consumers.begin()->second`: the publisher stores the buffer there,
sleeps once and clears the buffer; every player polls the same pointer and
resets it. A command handler depends on what its peer answers to what the
server wrote before, in the order both happen to use. And everything that waits
ends in `st_poll` or in the timeout heap, so that the order in which the idle
thread empties them decides who meets whom.

What is hard here: the order in which coroutines resume after `st_usleep(0)`;
a player that blocks in `writev` while the publisher refills the buffer; return
codes that are ignored; a header decoded with another client's entry; a peer that
closes or stalls in the middle of a read; lengths and chunk sizes kept as
constants on both sides; signed bytes; the moment between a thread being made
runnable and running, in which signals, timeouts, interrupts, joins and closes
may come; a registration that fails half way; the last free descriptor.
`PROJECT.json` lists these hazards by line.

## Modules

| module | models | composed with |
|---|---|---|
| `StThreads` | the scheduler as the server uses it: `running`, `runq`, `sleepq`, `ioq`, `poll` | |
| `Relay` | accept loop, push loop, play loop | extends `StThreads` |
| `IoSocket` | the reading functions and the peer's stream | |
| `StWritev` | `write` and `writev` over `st_write` and `st_writev` | |
| `Acceptor` | start, accept loop, descriptors and descriptor objects | |
| `ChunkStream` | receive and send loops for one message, byte by byte | |
| `ChunkDemux` | the receive loop over the messages of several chunk streams | |
| `HeaderCodec` | chunk headers as bytes, written and read | |
| `AvTimestamps` | timestamps through decoder and player header | |
| `Amf0Sizes` | lengths of the server's messages, written and declared | |
| `Amf0Decode` | the payload readers over encoded AMF0 values | |
| `Dialogue` | handshake and commands of several clients with their peers | extends `Amf0Sizes` |
| `TimeoutHeap` | the timeout heap, operation by operation | implements `Timers` |
| `Timers` | abstract: a set of armed threads with due times | |
| `StSync` | sleep, one condition variable, one mutex, interrupts | implements `FifoLock` |
| `FifoLock` | abstract: a lock that passes to the longest waiter | |
| `ThreadLife` | creation, exit, join, interrupt, stacks, the end of the process | |
| `StPoll` | `st_poll` and what the event systems share | |
| `StSelect`, `StPollSys`, `StEpoll` | an event system each | extend `StPoll` |
| `EventSystems` | the three of them, of which `st_set_eventsys` takes one of `Systems` | extends `StSelect`, instantiates the others |
| `SocketIo` | a connection's socket, read and written | extends `IoSocket`, instantiates `StWritev` |
| `Media` | a publisher's media messages: times and chunks | extends `AvTimestamps`, instantiates `ChunkDemux` |
| `MCRelay`, `MCDialogue`, `MCConnections`, `MCSockets`, `MCCodec`, `MCEventSystems`, `MCScheduling`, `MCThreads` | instances for TLC | |
| `RelayProofs`, `StSyncProofs`, `ThreadLifeProofs`, `AcceptorProofs`, `SocketIoProofs`, `MediaProofs`, `EventSystemsProofs` | the proofs about the module of that name | extend it |
| `QueueLemmas` | what appending, joining, taking the head and unlinking do to a queue without repetitions; induction along a sequence | extended by the proofs that need them |

`MCConnections`, `MCSockets`, `MCCodec`, `MCEventSystems`, `MCScheduling` and
`MCThreads` take several components that share no state. A behaviour of such a run is about one of them,
chosen by `part` (or `eventsys`) in the initial state; the variables of the others
keep an initial value. This is the union of the components' state spaces, never
their product. Fairness and liveness are restricted to the part they belong to.
A definition that starts with "Faulty variant" is a plausible mistake in the
definition after it; no action uses it. With it in place of that definition the
property `PROJECT.json` names fails.

**StThreads.** `Usleep`, `PollWait` and `ThreadExit` are the three places where
`_st_vp_schedule` is reached; each takes the run queue as the running code leaves
it, so that a handler which creates a thread and then sleeps is one step.
`IdlePass(ready, late)` is one turn of the idle thread: `dispatch` moves the
threads with events to the run queue, in the order of the I/O queue, then
`_st_vp_check_clock` empties the timeout heap of everything due. A sleeper's due
time is the clock of the last pass, which is before any poll timeout that has
not fired yet, so sleepers precede timed-out threads. Among sleepers, all with
the same due time, the oldest is at the root of the heap and leaves first
(`OldestFirst` of `TimeoutHeap` is this assumption, checked on the heap); the
order of the rest depends on the shape of the heap and is left open.

**Relay.** `pc` is the place in `process_thread`; an action ends at a context
switch, or earlier with `Continue`. Media are counted in units (basic header,
message header, one per chunk), so that memory contents can be compared with
messages. Three things are kept because the code depends on them: the allocation a
slot points into (`append` may move `audio_video_buffer`), the contents of memory
beyond `size()`, and `csid_header[curr_csid]`, read afresh by every expression of
the play loop. `WriteBlock` and `WriteResume` are the two halves of a `writev` that
waits: the second half decides again, with the globals of that moment, whether
the chunk was the first one. `WriteNothing` is a pass that has nothing of its message
left to send while the buffer holds more: a header goes out, nothing changes, and
the loop repeats it without a context switch. Headers of media messages are full headers here;
types 1 to 3 are the subject of `AvTimestamps` and `ChunkDemux`. Once bytes of a
stream are lost everything read later decodes to anything. `Env` says what the
network may do: `block` (a socket is full), `fail` (a read or write returns -1),
`eof` (the peer closes). Every insertion into the unordered map `consumers` may
rehash it, so that `begin` may afterwards be any of its nodes. From the third
player on this can bring back a node whose slot a failed player left set: its
pointer may be older than the hand-off in progress. The history variable `handed` remembers
the node the last hand-off wrote to, and a pass over another node's pointer does
not count as one that took a hand-off (`clean`). With two players this cannot
happen; the proof of `CleanPassWhole` for any number is what required it.

**IoSocket.** `st_read_fully` is a loop of `read(2)` and `st_netfd_poll`; a call
of the server's functions goes through `read`, `poll` and, for the `_cycle`
variants, `loop`.

**StWritev.** A byte is its position in what the coroutine means to send, a
vector a start and a length. `WritevSome` is a `writev(2)` that takes part of the
vectors, with `Recut` the copy of the rest into the local array or an allocated one
(`Array`); the last vector goes through `WriteSome`. Memory may be short
(`WritevNoMemory`), the socket full (`NotReady`), the wait may fail (`Fails`). The
next call comes whatever the last one returned, since nearly every caller in
`client.cpp` ignores the result of `write_message`; `lost` remembers what the calls
that failed did not write.

**Acceptor.** Descriptors are numbers, the lowest free one first; descriptor
objects come from the free list or are new. `Accept` takes a connection through
`st_accept`, `Client`, `clients`, `Client::cycle` and `st_usleep(0)`;
`AcceptUndone`, `AcceptAborted` and `AcceptFull` are its failures. Clients only
block, get ready and end. `ListenFails` is there because `main` ignores the
result of `listen`.

**ChunkStream.** One message of every length, cut by the peer with every chunk
size in `PeerChunks` and a fmt 3 header of one to three bytes, with or without more
bytes behind it. `write_message` is the same loop with a header whose real length
is credited.

**ChunkDemux.** A publisher may leave out the length of a message
and may begin another stream's message before the last one is complete; the
server takes the first byte of every further chunk for a fmt 3 header of the
message it reads.

**HeaderCodec.** Bytes are 0..255, `Char` is the signed char that
`read_basic_header` computes csids with. Writer and reader are compared for
the edges of every form of a header.

**AvTimestamps.** The constants `Ext` and `Half` stand for 0xFFFFFF and 2^31, so
that TLC can use small ones and the proofs hold for all. `ReadHeader` is the
decoder's arithmetic, `PlayerHeader` the header a player gets.

**Amf0Decode.** Values are encoded to elements that keep tags, lengths and
positions; letters do not matter. `Reader` lists what each `read_payload`
asks for; `ObjectEntry`, `ObjectEnd` and `ArrayEntry` are the loops.

**Amf0Sizes and Dialogue.** `Opening`, `Push` and `Pull` are the programs of
`process_thread` as sequences of operations; `Recv`, `Send`, `Identify`, `Skip`
and `Await` execute them. The peers are not in this repository: `Answer`,
`PeerLen` and `PeerCsid` describe ffmpeg pushing (which echoes SetChunkSize, the
"unknown" message of the code) and VLC pulling (whose four-byte window
acknowledgement is what `IdentifyClient` looks for), and are marked external in
the map. An `Announcer` is a publisher that sends its own SetChunkSize, also four
bytes, first. Messages travel whole; a reader that cannot take one exactly is out
of step, and nothing is claimed about it from there on. Threads interleave freely
here, which includes the orders the scheduler produces. A peer may close
(`PeerCloses`): a thread still in the handshake ends (`HandshakeEnds`), any other goes
on to its next read without bytes and stays there (`ReadsNothing`), in `spinning`.
A player may come to spin in its loop (`PlaysNothing`). Nobody is scheduled after that,
and the behaviour ends.

**TimeoutHeap.** The tree of pointers is a sequence in which position i has the
children 2i and 2i+1, the numbering by which `heap_insert` finds its way.
`HeapInsert`, `HeapDelete`, `SiftDown` and `Drain` follow the loops of the code,
exchange by exchange. The clock may be set back.

**StSync and ThreadLife.** Threads call any operation in any order. A thread that
is woken stays in the wait queue until it runs, and that window is a state of the
model. Timeouts fire only in the idle thread, in any order. What the loops of
`st_cond_signal` and `st_mutex_unlock` find is stated, not computed: `Waiters` are
the threads of a queue in a waiting state, `First` the one before all others,
`InOrder` all of them in the order of the queue. `Signalled` is the same for the
condition variable of a thread's end. `ThreadLife` keeps the free list of stacks
in the order `ST_APPEND_LINK` builds it, also when `st_thread_create` gives a stack
back because there is no memory for a condition variable (`ThreadCreateFails`).

**StPoll and the event systems.** `StPoll` has `st_poll`, interrupts and the idle
pass; each event system adds its counts or registrations and its
`dispatch`. `ready` and the closing of descriptors are the environment's.
`RawClose` closes a descriptor behind the library's back, which is what the EBADF
path of `_st_select_dispatch` is for. `StEpoll` has a fork, and `epoll_ctl` calls that fail and
their undo: any call for a closed descriptor, and a registration for which the kernel
has no room (`Scarce`). When that happens to a request that
is registered again after a fork nobody notices; `missed` remembers whose it was,
and the counts that go wrong by it are followed. Its loops over entries and over the I/O queue
(`DelTurns`, `AddTurns`, `DelThreads`, `AddThreads`) are recursive functions of the
number of turns made, so that the proofs can follow them turn by turn. `raw` of
`StSelect` is a history variable, set once a descriptor was closed behind the
library's back: until then nobody waits on a closed one.

## Runs

| run | what it shows | bounds |
|---|---|---|
| `relay_one` | A hand-off holds exactly one message and its header (`HandoffWhole`); a pass that began in a hand-off and never blocked puts exactly its chunks on the wire (`CleanPassWhole`); the processor is always given up again, except by a player that writes nothing over and over (`YieldsCpu`). | 1 publisher, 1 player, 2 messages of 1 and 2 chunks on 2 chunk streams, 1 timeout or read error, writes may block and fail |
| `relay_players` | A hand-off in a quiet round is taken before the buffer is cleared (`HandoffTaken`); messages are played in order, each by one player (`PlayedOnceInOrder`). | 2 players; peers may also close |
| `sockets` | Reads are gapless, exact and return (`Gapless`, `ReadsExactly`, `ReadsReturn`); writes arrive whole or return -1, whatever failed before, and do return (`WritesWhole`, `CallReturns`); below the descriptor limit every accepted client is served (`Served`). | 6 bytes to read, requests up to 4; 5 bytes to write in several calls, up to 4 vectors of 0 to 3 bytes with a local array of 2; 3 connections, backlog 2, descriptors for the listener and 2 clients |
| `io_socket_closed` | Violation: a close does not end `read_nbytes_cycle`. | 6 bytes, requests up to 4 |
| `connections` | Descriptors, descriptor objects and clients stay accounted for (`AllAccounted`). Handlers meet their own messages (`StaysInStep`), peers can parse the server's (`StaysUnderstood`). | 4 connections, backlog 2, descriptors for the listener and 3 clients; publisher and player with names of 0, 97 and 98 bytes (equal command lengths, the last name that fits a chunk, the first that does not) and 1 failure per client; an announcing publisher with another publisher, and with a player |
| `dialogue_arrive` | A client of either kind that meets no fault arrives, whatever becomes of the other, unless a thread comes to spin (`ClientsArrive`). | 1 publisher, 1 player, names of 97 bytes, 1 fault per client: a read or write that fails, or its peer's close; a behaviour ends where a thread spins |
| `dialogue_meta` | Violation: the second player's onMetaData is longer than declared. | 2 players |
| `codec` | `Drift`, `PlayedWell`, `Forward` over all header sequences; when messages are received, cut and told apart (`ChunksWhole`, `Demuxed`, `MessagesEnd`); which headers and payloads are read right (`HeadersRead`, `PayloadsRead`). | field 0..7, ints -16..15, clock to 20; chunk size 5 against 3, 4, 5, 6, 10 and lengths to 16; 2 chunk streams, 3 messages of up to 4 bytes in chunks of 2; 13 csids at the edges of the three forms and of a signed char; objects of up to 2 entries |
| `event_systems` | Counts, arrays and kernel registrations follow the I/O queue (`SelectsRight`, `PollsRight`, `EpollsRight`); a turn wakes exactly whom it must and tells it what is ready (`TurnsExact` for select and poll, `EpollTurnsExact`); on epoll until a request is refused that is registered again after a fork. | 3 threads, 2 descriptors, a request of 1 entry and one of 3 with a descriptor twice, the same on all three systems; FD_SETSIZE and array sizes at which limits are met; the kernel may have no room for one of the descriptors (`Scarce`); while a request is missing, new ones are made only with all counts above 0 (`Below` = 0) |
| `threads` | No stack is given twice, one join succeeds, the process ends last (`LifeRight`). The heap is one (`HeapInv`), implements a set of timers (`ImplementsTimers`) and wakes the oldest `st_usleep(0)` first (`OldestFirst`). | 3 threads on 2 stacks of 2 sizes; 6 sleepers, the fewest for which a deletion must move an element up; timeouts 0, 1, 2; clock 0, 1 |
| `scheduling` | No signal or ownership is lost or given twice (`SyncInv`); the mutex is a first-come-first-served lock (`ImplementsFifoLock`, `Granted`); joins and polls return (`JoinReturns`, `ReadyServed`). | 3 threads on a mutex and a condition variable; 3 threads on 2 stacks, joined once; 2 pollers on 2 descriptors |
| `thread_life_join` | Violation: a second join blocks on a thread that has terminated. | 3 threads, 2 stacks |

More of anything in the bounds repeats what these instances contain: a third
player competes for the same slot as the second, a third message reuses the
allocation the second one left, a fourth waiter queues behind the third. The
symmetry sets of `event_systems` and `threads` permute threads that the
models treat alike, and these runs check no liveness.

Several properties say *when* the code is right rather than that it always is.

* `CleanPassWhole` excludes passes that blocked: there the code mixes two messages.
* `ReceivedWhole` and `SentWhole` (in `ChunksWhole`) are equivalences; their
  negative half is the 16-byte header credited with 12, the fmt 3 header of two
  bytes, the chunk size applied to a peer that did not adopt it.
* `YieldsCpu` excepts a player that writes headers without payload: it has sent its
  message, the buffer holds more, and it goes on for as long as its socket takes the
  bytes. It comes to that when a player takes the slot late, with a part of the next
  message already behind the one it sends. Only passes in which it waited, or took
  the slot late, end like that: a player that sends without waiting what was handed
  off to it gives up the processor.
* `WritesWhole` says what is left of the stream after an error: it has a gap, the rest
  of the call that failed, and goes on behind it.
* `EpollsRight` and `EpollTurnsExact` end where a registration after a fork is refused,
  and begin again with the next fork after which all can be registered. `_st_epoll_dispatch`
  means to put all descriptors on the I/O queue into the new epoll set (`event.c:1257`) and
  ignores whether `_st_epoll_pollset_add` could (1263). If the kernel has no room, that call
  takes the counts of the request back, the request stays on the queue unwatched, and when
  its thread returns it is subtracted from counts that never held it, down to -1. The
  server itself never forks.
* `ClientsArrive` is about behaviours in which no thread comes to spin. Whether a client
  of the other kind spins is not in a client's hands.
* `Drift` states how far the doubled full header shifts the time.
* `HandoffTaken` needs a quiet round: no other sleeper than polling players and
  nobody inside `writev`; if the accept loop sleeps in the same round it may be the
  oldest sleeper, the publisher may then come before the players, and the message is
  lost.
* `CsidRead` and `StopsAtEnd` (in `HeadersRead`) name the csids a signed char breaks
  and the headers after which reader and writer stand at different bytes.
* `HandsOnWhole` and `Unmixed` (in `Demuxed`) hold until chunks interleave; the
  server has one buffer for all chunk streams.
* `TurnsBelowLimit` and `Admitted` (in `Served`) end at the descriptor limit: there
  `st_accept` fails at once, the loop goes on without a switch, and one connection
  too many stops every client.
* `StaysInStep` says that an announcing publisher is taken for a player.

### Refinements

`ImplementsTimers` maps `TimeoutHeap` to `Timers`: the armed threads are those with
a heap index, their due times `due`. A look at the clock takes exactly the due
ones, in the order of their due times. `ImplementsFifoLock` maps `StSync` to
`FifoLock`: the threads that wait are those of the wait queue that were neither
handed the lock nor interrupted (either may still be linked until it runs), and
one came before another if it is before it in the queue. That mapping is what shows
that the lock passes at `st_mutex_unlock`, and not when the next owner runs. It is
model-checked on three threads and proved for any number.

### Findings

* `io_socket_closed`. `read_nbytes_cycle` treats a count of 0 as progress. The
  State Threads manual (`3rdpart/st-1.9/docs/reference.html:2254`) says that a value
  less than `nbyte` means the connection is closed. The loop neither ends nor
  yields, so one client that disconnects stops the server. `YieldsCpu` is
  therefore checked without `eof`, and `ClientsArrive` up to the first thread that spins.
* `dialogue_meta`. `OnMetaData` is sent with a length of 395, and each call adds an
  entry to the global metadata. The check that would report it is commented out
  (`io_message.cpp:74`).
* `thread_life_join`. The manual (`docs/reference.html:719-720`) says that
  `st_thread_join` does not block if the target has terminated. After a first join
  the target is runnable once more, to give back its stack; a second join in that
  window waits for a signal that was given already. The server joins no
  thread. `JoinReturns` is about programs that join a thread once.

### Fairness

* `Relay`: weak fairness of `Steps`, the next-state relation less the states in which a
  player writes nothing: a running coroutine is executed without pause and the idle thread returns from
  `select` when a sleeper is due. In those states nothing is assumed: the player may repeat
  its pass for ever, and only its peer decides whether the socket ever fills up or fails.
* `IoSocket`: weak fairness of the reading coroutine; the poll has a timer of
  five seconds. `StWritev`: the poll returns when the socket is writable (weak), and
  a peer that goes on reading lets the socket take bytes again and again (strong).
  `Acceptor`: weak fairness of the server's steps; peers need not connect.
* `ChunkStream`: the loops and the timer. `ChunkDemux`: the server's steps, and a
  publisher that goes on with a message it has begun.
* `Dialogue` (in `dialogue_arrive`): while no thread spins, each thread that can go on does,
  and each peer that is there answers. The scheduler is cooperative and guarantees the
  first only because every handler that has to wait does so in `st_poll` or
  `st_usleep`, which let the others run; what does not is `ReadsNothing` and `PlaysNothing`, after
  which no thread is scheduled and nothing is claimed.
* `StSync`, `ThreadLife`, `StSelect`: the library's own steps are weakly fair, the
  scheduler being a loop. User code is cooperative: without a thread that lets the
  others run again and again nothing is guaranteed, so the calls that give up the
  processor, and the owner's `st_mutex_unlock`, are strongly fair. Looks at
  the events are strongly fair since the idle thread only comes to them when the
  run queue is empty.

`CHECK_DEADLOCK FALSE` is used where the model ends or may stop: a message is
transferred, a dialogue is over, the modelled clock has run out, every thread waits
for an event that never comes, the process has ended.

## Proofs

All theorems hold for every value of the constants allowed by the named assumptions:
finite sets of threads, clients and connections of any size, distinct names for the
idle thread and the like, scripts whose messages have at least one chunk, a
`FD_SETSIZE` of at least one. `LifeAssumption` and `AcceptorAssumption` are
hypotheses of their theorems, because other runs instantiate those modules with
constants of their own; the MC modules check them. `EventSystems`, `SocketIo` and
`Media` assume what the modules they instantiate need: natural numbers for sizes and
lengths, a chunk size and a longest message that are not zero, and nothing else.

| theorem | property | from |
|---|---|---|
| `TypeCorrect`, `ThreadsInOnePlace`, `HandoffIsTaken` | `TypeOK`, `InOnePlace`, `HandoffTaken` of `Relay` | `IInv` |
| `HandoffIsWhole`, `CleanPassIsWhole`, `PlayedOnce` | `HandoffWhole`, `CleanPassWhole`, `PlayedOnceInOrder` of `Relay` | `MediaInv` |
| `SyncIsRight`, `MutexIsFifo` | `SyncInv`, `ImplementsFifoLock` of `StSync` | `IInv` |
| `LifeIsRight` | `LifeRight` of `ThreadLife` | `IInv` |
| `AcceptsAreAccounted` | `AllAccounted` of `Acceptor` | `IInv` |
| `SelectIsRight`, `PollIsRight`, `TurnsAreExact` | `SelectsRight`, `PollsRight`, `TurnsExact` of `EventSystems` | `AnyInv` (its parts `IInv`, `PollInv`) |
| `EpollIsRight`, `EpollTurnsAreExact` | `EpollsRight`, `EpollTurnsExact` of `EventSystems` | `AnyInv` (its part `EpollInv`) |
| `ArrayNotOverrun`, `ReadsAreExact`, `ReadsAreGapless` | `TypeOK`, `ReadsExactly`, `Gapless` of `IoSocket` | `SocketInv` |
| `WritesAreWhole` | `WritesWhole` of `SocketIo` | `WriteInv` |
| `DriftIsLastFullHeader`, `PlayedWhileInRange`, `TimesMoveForward` | `Drift`, `PlayedWell`, `Forward` of `AvTimestamps` | `TimeInv` |
| `MessagesDemuxed` | `Demuxed` of `Media` | `DemuxInv` |

**RelayProofs.** `SafetyStep` treats types and queues together, with one step per
action; the lemmas `UsleepStep`, `PollWaitStep`, `ThreadExitStep` and `IdlePassStep`
say what each context switch does to the queues. `HandoffTaken` is not inductive: it
speaks of the moment the publisher runs again. `HandoffInv` describes the whole
window from the hand-off to that moment: the slot is set, no player is sending,
every waiting player still polls, and one of them is ahead of the publisher, in the
sleep queue or in the run queue (`Ahead`). It needs three auxiliary facts: a player
past identification is in `consumers`, a sending player is the running thread, and a
polling player is not in the I/O queue.

**RelayProofs, the media.** The three properties `HandoffWhole`, `CleanPassWhole` and
`PlayedOnceInOrder` look at the end of something: a hand-off,
a pass, a list of passes. `MediaInv` says what holds on the way. `ReceiveInv`
follows `recv_audio_video`: at each place of the push loop, which units of which
message the buffer holds, which header `csid_header[curr_csid]` is and where the
publisher stands in its stream. `PassInv` follows the play loop: a clean pass reads
from the node handed off, the buffer cannot change below it since the publisher
sleeps, and what it has sent is the part of the message up to its position.
`PlayedInv` bounds what was played by the message handed off last, and strictly so
while that one can still be taken: that is why two players cannot play it both.
How much a read is to bring is settled before it waits; that what was
missing then still is when the wait ends takes `OthersWait`, that nobody else
makes the publisher wait or ends its wait. The
invariant for the buffer is needed for all states with `intact`, not only for those
of a hand-off; after a failed read inside a message nothing is claimed of the
content any more.

**StSyncProofs.** `SyncInv` is not inductive because it says nothing of the wait
queues. `IInv` adds that a queue links exactly the threads inside the call, woken or
not (`QueuesRight`), that only waiters and sleepers have a timeout (`ArmedRight`),
that a thread woken by a timeout or a signal is awake (`WokenRight`), and that
whoever is awake inside `st_mutex_lock` owns the mutex or was interrupted
(`LockWoken`). The last is the crux: `st_mutex_lock` looks at the owner only if it
was interrupted, so that without it a woken thread could report success and not own
the mutex. For `MutexIsFifo`, `StepRefines` maps every action to a step of
`FifoLock`: `LockFree` takes, `LockWait` enqueues, `MutexUnlock` lets go to the
first waiter, an interrupt of a waiter gives up, and everything else, the returns
with their unlinking included, leaves owner, waiters and their order alone.

**ThreadLifeProofs.** `EndsLast` depends on `_st_active_count`: `Counted` states
that it is the number of threads created and not exited, by cardinalities of finite
sets. `JoinOnce` depends on the zombie state: `Joins` says that a joined thread has
left it, and by `Ended` it has exited and cannot become a zombie again.
`StacksApart` needs `Fresh`, that a segment not allocated yet is in no list and
nobody's. `PutBackElems` says what the list becomes when a stack is given back.

**AcceptorProofs.** `Accounted` holds between calls only together with the free list
(`Objects`) and with a connection being in the kernel's queue or taken, never both
(`Met`); otherwise a second `st_accept` could enter the same client twice.
`FirstTurn` follows from `Turns` and `BegunFirst`: the accept loop sleeps after each
client, and the idle thread, which has to wake it, runs only when the run queue,
with the new client in it, is empty.

**EventSystemsProofs.** The three systems share `st_poll` and the idle pass; the
lemmas `Same...` say that the operators seen through the instances are the same
ones, so that what is proved of the I/O queue (`BaseInv`) is proved once.

*select.* `IInv` adds to `BaseInv` that the counts are those of the requests on the
I/O queue (`CountsRight`), that every pollfd on it asks for something (`Asks`), and that
as long as nothing was closed raw nobody waits on a closed descriptor
(`NeverBad`). A count is the cardinality of a set of entries: `Entries` over all
queued threads, which `EntriesSplit` divides when one joins or leaves, and which is
empty or not (`EntriesPositive`) exactly as the bit is clear or set.

*poll.* `fdcnt` is the size of the gathered array. `_st_poll_dispatch` finds the
results by walking queue and array side by side; `Places` says that a thread's
place in the array is the number of entries of the threads before it in the queue,
which is what makes the walk come out right (`GatheredIs`). This is the crux of `TurnsExact`.

*epoll.* `EpollInv` has two parts. `EpollBare` is what holds in any case: the types, which
allow counts below zero, and the queues. `EpollGood` holds as long as no request is missing
from the epoll set (`missed`): `KernelInv` says that the epoll set holds exactly the counted events and
`evtlist_cnt` the number of their descriptors, or that nothing is registered while
there is no epoll set after a failed `epoll_create`. `Held` says that only open descriptors are counted.
`Keeps` describes `_st_epoll_pollset_del` in the middle of a
dispatch, when the descriptors that fired are left for `Settle` and the kernel's
registrations deliberately lag behind the counts; `SettleIs` closes the gap.
`AddInv` follows a registration entry by entry until one cannot be registered, and
`UndoneIs` shows that the undo of such a registration leaves no trace, although
it takes back an entry that the kernel never took. The loop that registers everything
again after a fork ignores such a failure: `AddThreadsIs` says that it restores `KernelInv` if no request is
refused, and `EpollForkedStep` that a fork without a refusal brings back `EpollGood` even if requests were missed
before. `Bare...Step` are the steps in between.

**SocketIoProofs.** `SocketInv` adds that the bytes wanted and the bytes held make
up the goal of the call. `WriteInv` follows `st_writev` through its waits: the bytes on
the wire are those issued so far less what failed calls left, in order (`WireInOrder`); each of the two arrays of
vectors is without gaps (`Contig`); during a call, the vectors left begin with the byte the socket takes next and
add up to `nleft` (`Left`), and no vector is dropped before it is written
(`Behind`); between calls, the count returned tells whether something of the last call is lost
(`Counted`). Sums are
recursive functions; the lemmas get their equations first and compare them by the
smallest index at which they would differ.

**MediaProofs.** `TimeInv`: the stored delta is the publisher's last step,
the stored timestamp its time plus what the last full header added. The lemmas on
`AsInt` are the arithmetic of 32-bit ints, for any width. `DemuxInv` is `DemuxBase`
together with `InStep`, which relates buffer, position and wire to the message the
publisher is sending as long as no chunks were interleaved. Beyond that point even
"no more messages are handed on than were sent" fails, since one buffer for all chunk
streams can complete early; `InStep` claims nothing there.

**QueueLemmas.** A queue is a sequence without repetitions; the lemmas say what
`Append`, `Tail`, `\o` and `RemoveAt` do to its members. That a non-empty set of
indices has a smallest one follows from the library's fact that < is well-founded on
the naturals. From it come `Upwards`, which carries a set of indices closed under
"one more" up to any bound, and `Iterated`: a step repeated any number of times has a
result, so that a recursive function obeys its recursion. These two replace the
library's induction theorems, whose operator parameters the provers cannot
instantiate.

The inductive invariants were checked by TLC on small instances before they
were proved.

Only model-checked:

* all liveness (`YieldsCpu`, `ReadsReturn`, `CallReturns`, `Served`,
  `ClientsArrive`, `MessagesEnd`, `Granted`, `JoinReturns`, `ReadyServed`): the
  prover has no rules for fairness;
* `HeapInv`, `OldestFirst` and `ImplementsTimers` of `TimeoutHeap`: the loops
  `SiftDown` and `Drain` exchange elements along a path of the tree, and their
  effect on the whole tree has no proof yet;
* `StaysInStep` and `StaysUnderstood` of `Dialogue`, which rest on the lengths
  `Amf0Sizes` adds up, and `PayloadsRead`, on the nested loops of `Amf0Decode`;
* `HeadersRead`, which is decided by the edges of each header form that the run
  enumerates;
* `ChunksWhole`, an equivalence over products and remainders of lengths and chunk
  sizes, arithmetic that the solver does not decide.

## Not modelled

* The kqueue event system (`event.c` 604-1027): not compiled on Linux.
* Keys and thread-specific data, which the server does not use; context switches
  and platform macros (`md.h`, `md.S`), where a switch is a change of `running`; the
  DEBUG-only thread iteration; switch callbacks.
* The datagram calls, `st_connect`, `st_open`, descriptor serialisation: not called
  by the server. `POLLPRI`, a third bit treated as the two that are modelled; of
  `poll(2)`, POLLHUP and POLLERR, which are reported without being asked for (POLLNVAL and
  epoll's hang-ups are modelled).
* `epoll_ctl` calls that fail for other reasons than a closed descriptor, no room for a new one
  (ENOMEM, ENOSPC) or no epoll set: changing or deleting a registration needs no room.
* In `Dialogue`, a close in the middle of a message, which is a fault like the close before it, and
  errors of a connection that has been closed already. What a thread does after it has
  come to spin.
* Truncated AMF0 payloads: `Amf0Decode` feeds the readers whole values only.
* The four bytes of an extended timestamp that a fmt 3 header leaves behind:
  `AvTimestamps` ends the stream there (`unread`).
* The content of what two publishers mix in the shared buffer; the proofs of types
  and queues hold for any number of publishers.
* Logging; the unused `RTMP_Protocol::recv_connect_message`; the library's examples
  and extensions.

## Plan

1. Done: the modules, runs and proofs above.
2. `HeapInv` for any number of sleepers: `SiftDown` and `Drain` by the number of
   exchanges, as the loops of `StEpoll` are proved.
3. `ChunksWhole` for any length and chunk size, from lemmas on quotients.
4. An abstract relay (a message is offered, taken by one player or lost, and played
   whole or cut short) and `Relay` shown to refine it.
