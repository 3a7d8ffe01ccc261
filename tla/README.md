# A TLA+ model of ab_rtsp

`ab_rtsp` is a small RTSP/RTP implementation in C: a server that streams an
H.264 or H.265 file to any number of clients, and a client that writes what it
receives to a file. This directory holds TLA+ modules translated from that code,
TLC configurations that check them on small instances, and TLAPS proofs of the
results that hold for every instance.

All line numbers are those of the C files under `src/`; "the server file" is
`rtsp_server/ab_rtsp_server.c`.

## The system

| component | state | operations | who calls it |
|---|---|---|---|
| server object (`ab_rtsp_server.c`, `struct T`) | `clients` (a linked list), `mutex`, `sequence`, `timestamp`, `cache`, `rtp_buffer`, `quit` | `new`, `free`, `send` | main thread |
| client object (`ab_rtsp_client_t` of the server file) | `sock`, `ready`, `method`, ports | created by `accept_func`, changed by `process_client_request`, freed by `update_clients_list` | acceptor, looper |
| acceptor (`ab_tcp_server.c`) | listening socket, `quit` | `accept_event_loop_func`: select, accept, callback `accept_func` | a thread of its own |
| looper (`event_looper_cb`) | local `fd_set` | build the set under the mutex, select without it, receive / respond / prune under it | a thread of its own |
| framer (`ab_rtsp_server_send`) | `cache` | append a piece, cut complete NAL units, flush | main, every 40 ms |
| packetizer (`rtp_send_nalu`, `send_rtp_to_client`) | `rtp_buffer`, `sequence`, `timestamp` | slice a unit, one locked fan-out per packet | framer |
| sockets (`ab_socket.c`, `ab_udp_client.c`, `ab_tcp_client.c`) | a descriptor | thin wrappers of system calls | everybody |
| linked lists (`ab_list.c`) | nodes on the heap | push, pop, append, copy, reverse, free | acceptor, looper |
| RTSP client (`rtsp_client/`) | session, `quit`, child thread | OPTIONS, DESCRIBE, SETUP, PLAY, TEARDOWN; the child writes the payloads | client's main |
| address check (`ip_check.c`, `parse_rtsp_addr`) | none | pure functions | client |
| base (`ab_mem`, `ab_assert`, `ab_except`), log (`ab_logger`) | none that matters | | everybody |

Interaction: main reads the file and calls the framer, which calls the
packetizer, which locks the mutex and writes each packet to every client that
plays. The acceptor pushes new clients under the same mutex. The looper selects
*without* the mutex on descriptors it collected *with* it, and then serves the
readable clients with it. So the behaviours that are hard here are

* the readiness that select reports is used after the mutex was given up and
  taken again, while descriptors are reused by the kernel;
* sockets are freed in one loop and their objects in another, and in between the
  list holds objects with a NULL socket, which no thread may see;
* `send` and `recv` are made under the mutex: if one of them waits, all threads
  wait;
* packets and responses go to the same connection from two threads;
* clients join and leave while a packet is being fanned out;
* connections are reset, accept fails, peers stop reading;
* the stream arrives in pieces that cut units and start codes anywhere, and the
  cache is finite;
* datagrams are lost and reordered and the client does not look at sequence
  numbers;
* start-up and shutdown race with running threads, and SIGINT with both: the
  acceptor runs before the mutex exists and after it is destroyed.

## Modules

### The running server: `RtspServer`, `MediaBroadcast`

`RtspServer` is the server between the return of `ab_rtsp_server_new` and the
call of `ab_rtsp_server_free`. Every thread has a program counter; a step is the
code between two points where another thread can interfere: a lock, a blocking
system call, or one turn of a loop that makes system calls.

| thread | action | code |
|---|---|---|
| acceptor (`apc`) | `Accept`, `AcceptFails` | ab_tcp_server.c 96-106, ab_socket.c 147-160 |
| | `AcceptFuncLock`, `AcceptFuncPush` | accept_func; `list_push` reads the head in the first and the new head is stored in the second, so that a missing mutex would show |
| looper (`lpc`) | `LooperBuild` | 706-722 (with no client: sleeps, 724-725) |
| | `LooperSelect` | 727-735; an empty result is the timeout |
| | `LooperLock`, `LooperSkip` | 737-747 |
| | `RecvRequest`, `RecvEof`, `RecvError` | `recv_client_msg` by the result of recv, with all of `process_client_request` |
| | `LooperRespond` | the send at 693 |
| | `UpdateClientsList` | 748-749 |
| main (`mpc`) | `RtpLock`, `SendRtpToClient`, `RtpUnlock` | 415-420 and 469-474, one packet |
| peers | `PeerConnect`, `PeerRequest`, `PeerDrain`, `PeerClose`, `PeerReset` | external: what the sockets can do to the code |

Abstractions. The list is the set of its members: each pass visits every node
once and new ones are added at the head, and `AbList` checks the pointers.
Requests are kinds, and the request that a recv returns is chosen from all kinds;
a recv may return several of the pending ones, of which the code looks at the
first. The text of requests and responses, addresses and ports are left out.
A connection is a member of `Conn`, reused after its object was freed;
descriptors are reused by the kernel as soon as they are closed, also before the
object is freed. A connection goes from `est` to `fin` (the peer closed), `rst`
(reset, error not yet reported: the next send or recv fails once) and `dead`
(recv returns 0, send raises SIGPIPE). `stalled` says that the send buffer is
full; every send may fill it.

`MediaBroadcast` is what the streaming promises: one numbered sequence of
packets, each given at one instant to all the clients that play. `RtspServer`
implements it: the packet counts as published when main has taken the mutex
(`NextPacket`, `Players`, `Offered` are the mapping).

### The framer: `AnnexB`, `NaluFramer`

`AnnexB` defines the units of a whole byte stream at once, without a scan: the
reference. `NaluFramer` is `ab_rtsp_server_send` with the loop that feeds it.

| action | code |
|---|---|
| `ReadPiece` in `Feed`, `Refuse` | fread of main, and the two branches at 195-202: the piece fits in the cache, or is dropped with a warning |
| `ScanNalu`, `ScanRest`, `ScanStops` | one turn of the loop at 207-242: a start code with another one behind it, without one, and no start code |
| `Flush` | the call with no data (173-193) and main's rewind |

`Slide` is the memcpy at 228. The areas overlap when the rest is longer than what
was sent, and then C leaves open what happens: each such copy runs forward, which
is harmless, or backward, which replaces bytes before they are read. `spoilt`
records that a copy ran backward over overlapping areas. What is sent after that
is not described by any property, and `OverlapNeedsShortUnit` says when the case
can come up at all with a cache that is large enough: only when a unit of the file
is no longer than one piece (10 KiB), as small units are in any real stream.

### RTP: `RtpPacketizer`, `RtpTransfer`

`RtpPacketizer` holds the pure part: how many slices, which bytes, which slice
header (masks written with `\div` and `%`), and what the client writes for a
payload. The codec is a variable that is chosen once; each definition that differs
has a case for each. `RtpTransfer` sends units packet by packet over a network that
loses and reorders datagrams to a client's callback. That the client drops datagrams
of other senders (460-463) is abstracted: the network holds the server's only.

### Start-up and shutdown: `ServerLifecycle`

The program from the first line of `ab_rtsp_server_new` to the end of main. In
between, a connection is accepted, listed, served and closed, and main and the looper
walk the list and write to the peers, client by client, with the mutex held. A send
whose buffer is full waits until the peer reads (`PeerDrain`); SIGINT does not end it,
for `signal()` has an interrupted send restarted. What the threads say to whom is in
`RtspServer`, which begins when `new` has returned; here it is left open which clients
play, what they ask for, and whether a buffer has room.

| thread | action | code |
|---|---|---|
| main (`mpc`) | `TcpServerNew`, `UdpClientNew` (or `Asserts`), `SetClients`, `MutexInit`, `StartLooper` | `ab_rtsp_server_new` 120-132; the acceptor runs from the first of them on |
| | `StartRunning`, `MainHasPacket`, `StopRunning` | main.c 42-63; `StopRunning` closes a file that may not have been opened |
| | `MainLock`, `MainSends`, `MainUnlocks` | one packet: 415-418 (469-472 for a slice) and one turn of the walk at 346-368 |
| | `SetQuit`, `JoinLooper`, `DestroyMutex`, `Pop`, `Popped`, `PopEnds` | `ab_rtsp_server_free` 154-164 |
| | `SetTcpQuit`, `JoinAcceptor` | ab_tcp_server.c 71-72 |
| acceptor (`apc`) | `AcceptorTop`, `AcceptorTimeout`, `Accept` | ab_tcp_server.c 90-106 |
| | `AcceptFuncLock`, `AcceptFuncHangs`, `AcceptFuncPush` | 307-309 |
| looper (`lpc`) | `LooperBuild`, `LooperSelect`, `LooperLock`, `LooperEnds` | 706-738 |
| | `LooperServe`, `LooperServed`, `LooperUpdate` | one turn of the walk at 739-747 with `recv_client_msg`, then 748-749 |
| peers | `PeerConnect`, `PeerClose`, `PeerDrain` | a send in which main or the looper waits returns when its peer reads or leaves |
| any | `Sigint` | main.c 15-18; select fails in the thread that takes the signal, and its loop ends |

Locking a mutex that malloc has filled with anything fails, succeeds or hangs;
locking one that was destroyed fails; nobody looks at the result, so the push is
made in each case. Following a pointer that was never set or whose node is freed
ends the model (`proc = "undefined"`). `astray` holds the connections that were
pushed without a mutex, `hit` says that a SIGINT has ended the acceptor.

### The client: `RtspClient`

One run of the client's program, from connect to the end of
`ab_rtsp_client_free`, for all three values of `rtp_over_opt`, with and without a
file that could be opened (`opened`).

| thread | action | code |
|---|---|---|
| main (`mpc`) | `Connect` | ab_tcp_client.c 25-38, and the test at 134 |
| | `SendCmd`, `RecvResponse`, `RecvNothing` | the send and the recv of `send_cmd_*`; `NextCommand` ignores what they return |
| | `BindFails`, `RefuseAddress` | ab_udp_client.c 32-33; 96-102: NULL is returned, and main goes on with it |
| | `StartChild` | 141-144 and main.c 44 |
| | `Interrupt`, `SendTeardown`, `SetQuit`, `Join` | main.c 45-52, `ab_rtsp_client_free` |
| child (`cpc`) | `ChildLoop`, `ChildRecv`, `ChildRecvNothing`, `ChildAborts` | 376-380 |
| | `ScanFrame`, `ScanCutFrame`, `ScanForeign`, `ScanMistaken` | one turn of the loop at 383-437 by what stands at `start_pos` |
| | `ChildRecvUdp` | one turn of `process_rtp_over_udp` |
| external | `ServerAnswer`, `ServerFrame`, `ServerCloses`, `Lose` | the server as `RtspServer` has it, and the network |

The byte stream is a sequence of *parts*: every response and every interleaved
frame is cut in two, and recv returns any prefix. So a recv may end inside a
frame or a response, may return several, and may return the response to PLAY
together with frames. What the code then does with bytes it takes for something
else is not looked into: garbage is `Torn`, a wrong length leads anywhere, and
where it makes the callback read far outside the buffer (a length below 12, from
which 12 is subtracted) the process may die. The same holds for a write to the
file after `fclose`. `whole` records that every recv so far ended where a
response or a frame ends. The object comes from malloc, so `codec` and `port` may
be right by chance before the responses set them.

### Addresses: `RtspAddress`

What `ab_rtsp_client_new` makes of a URL: `Parse` is `parse_rtsp_addr` (166-209),
`Check` the test at 100-102 with `ip_check`. A character is a digit or one of five
others. The reference is stated without a scan: `Quad` (four numerals of a byte with
dots between them) and `Value` (a place value for each digit), against which stands
`Number`, the code's loop that multiplies by ten and adds. In `RtspClient` the outcome is the
choice between `Connect` and `RefuseAddress`.

### Lists: `ListSpec`, `ListOps`, `AbList`

`AbList` has the functions of `ab_list.c`, and `update_clients_list`, on an explicit
heap whose addresses are allocated again after a free; touching a node that is not
allocated is a fault.

| function | actions | code |
|---|---|---|
| `list_push`, `list_pop` | one each | ab_list.c 18-35 |
| `list_append` | the call, `AppendTurn`, `AppendReturns` | 52-58 |
| `list_list`, `list_copy` | the call, `ListTurn` or `CopyTurn`, the return; a turn of either is `Grows`, the end `GrowReturns` | 37-50, 60-70 |
| `list_reverse`, `list_free`, `list_map` | the call, the turn, the return | 72-103 |
| `update_clients_list` | the call, `PruneHeadTurn`, `PruneHeadEnds`, `PruneRestTurn`, `PruneReturns` | server file 482-509 |
| `NEW` with no memory left | `MemFailed` | ab_mem.c 15-27 |

The variables `cur`, `head` and `last` are the locals of the function that runs:
where it stands, what it is going to return, and the node in whose rest its `T *p`
points (or none, while `p` points to a variable). A rest that was not written yet
holds `Unset`. `list_length` and `list_to_array` change nothing and are left out.
`ListSpec` says what each function does to a sequence, and `AbList` implements it:
`ListValue` is the sequence that a list stands for while a loop is half through it.

### Order of the work

Done: `MediaBroadcast`, `RtspServer` and its proofs; `AnnexB`, `NaluFramer` and its
proofs; `RtpPacketizer`, `RtpTransfer` and their proofs; `RtspClient` and its proofs;
`ServerLifecycle` and its proofs; `ListSpec`, `AbList` and its proofs; `RtspAddress`
and its proofs.

Left: `RtspSession`, which would say what a session promises to both ends (responses
in order, then frames in order), implemented by `RtspClient` as it stands, and by the
composition of one connection of `RtspServer` with it.

## What is checked

| run | instance | properties |
|---|---|---|
| `server_safety` | 2 connections, 2 descriptors, 1 pending request each, 4 kinds of request, sequence numbers modulo 2 | `TypeOK`, `ListedSocketsLive`, `NoSocketLost`, `RecvNeverBlocks`, `SelectedStayOpen`, `Lockstep`, `ResponseBeforeStream`, `ImplementsBroadcast` |
| `server_liveness` | 2 connections that send OPTIONS | `RequestsRead` |
| `server_threads` | 1 connection, all kinds of request that differ, 2 pending | `ClosedPeersReaped`, `MutexReleased` |
| `lifecycle` | 2 connections, each opened once; SIGINT at any time and again, in any thread; any number of packets; peers that stop reading, for a while or for good; every outcome of undefined behaviour | `TypeOK`, `SocketsHeld`, `UndefinedOnlyAstray`, `ShutdownCompletes`, `ConnectionsAccepted` |
| `framer` | all files of up to 8 bytes over {0, 1, other}; all files of one unit of up to 3 bytes, with or without a second of 4 shapes; of three such; of three units of up to 9 bytes; pieces of 1 to 5 bytes; a cache of 14 or 20 | `TypeOK`, `SendsCompleteUnits`, `PassSendsAllUnits`, `NothingRefused`, `AbortsOnEmptyUnit`, `CacheDrained`, `OverlapNeedsShortUnit` |
| `rtp` | both codecs; 3 units out of 9 (H.264) or 8 (H.265), `RTP_MAX_SIZE` 4, 2 datagrams in flight | `TypeOK`, `ClientWritesTheStream`, `IntactUnitsSurvive`, `PacketsFitBuffer`, `UnitsHaveOwnTimestamp` |
| `client` | all three transports, 2 frames, with and without a file | `TypeOK`, `SessionReady`, `NothingElseLost`, `EndsOnlyForCause`, `CommandsComplete`, `FreeReturns` |
| `list` | 5 addresses, 2 elements, every loop turn by turn | `TypeOK`, `NoFault`, `NodesOwnedOnce`, `ImplementsListSpec` |
| `address` | hosts of 1 to 5 parts, those of four from 8 parts each (empty, bytes, a leading zero, 256, too long, no number), hosts of 63 and 64 characters; 8 ports, among them none, an empty one, 0, 65536 and a negative one; paths with a colon in them | `QuadsAccepted`, `PortTaken` |
| `server_sigpipe`, `server_accept`, `framer_assert` | | one statement of the code each, found violated (below) |

Bounds. `server_safety` needs two connections: one that leaves while the other
arrives and takes over its descriptor; descriptors are as many as connections since
no descriptor is held by anything else. Modulo 2 the sequence number wraps on every
second packet, and a packet that is skipped or doubled for one client still shows.
Handlers that are left out of a run answer and change nothing, like OPTIONS. The
proofs remove these bounds for the safety properties. In `lifecycle` two connections
are enough for a push that overwrites another one's, for a client that leaves
between the two that stay, and for a push while the list is emptied; each is opened
once, so an address of a freed node is never allocated again (that is in `AbList`).
In `framer` a piece can be shorter than a start code, cut it at each place, or hold
several units; three units let the cache slide twice. A cache of 14 is too small for
the larger units, one of 20 is large enough for every unit with pieces of up to 3
bytes. `NothingRefused` states the room from which on nothing is refused: a unit
with its code, a start code not recognized yet, and a piece. In the RTP runs the
lengths cover: below `RTP_MAX_SIZE`, a single short slice, a single full slice, two
and three slices with and without a rest; sequence numbers and timestamps wrap
within the run. A unit is bounded by `MaxUnits`, after which the run stops (deadlock
is not an error there). In `client` two frames allow a frame that comes with the
response to PLAY and one after it, a recv that returns both, and one that ends
inside either. In `list` five nodes allow two lists of two and three nodes, a copy of
a list of two, every shape of two dead neighbours, dead heads and dead tails, and
running out of memory in the middle of a copy. `address` takes
hosts and ports from lists that hold a value on each side of every comparison in the
code: 255 and 256, three and four digits, 63 and 64 characters, 65535 and 65536,
three, four and five parts.

Fairness (`FairSpec` of `RtspServer`). Each thread makes its steps (weak fairness).
Getting the mutex is strongly fair: main sleeps 40 ms between pieces and the looper
waits in select or sleeps up to 50 ms without it, so a waiter gets its turn,
although pthreads does not promise an order. A completed connection is accepted in
the end (strong fairness per connection: the kernel's queue is in order). Nothing is
asked of the peers and main need never send a packet. Two properties need peers that
read: `PeersDrain`, stated in front of them, since a send under the mutex waits for
a peer that does not. `MutexReleased` says that this is the only thing the threads
can wait for forever. For the client: both threads make their steps and the server
reads what it is sent (`RequestsRead` of `RtspServer`); it need not stream, close or
keep the connection, and nobody need press Ctrl-C. For `ServerLifecycle`: main, the
acceptor and the looper make their steps (weak fairness each), where whether main has
a packet is up to the file (`MainHasPacket` is not among the steps it owes). Getting
the mutex is strongly fair for main and the acceptor, for the reason above, and so is
`StopRunning`: main looks at `g_quit` again after each piece, and a piece holds
finitely many packets. Without any of these three a liveness
property of the run fails. Peers and
SIGINT owe nothing, so that a peer may leave main or the looper waiting in a send for
ever; `ShutdownCompletes` and `ConnectionsAccepted` therefore have `PeersDrain` in
front of them, and both fail without it: a client that plays over TCP and stops
reading keeps main in its loop after SIGINT, or the looper from being joined, and the
acceptor from the mutex.

What the properties do not say: under loss the client glues the slices of a unit
whose first slice is missing to the unit before; `IntactUnitsSurvive` says no more
than that intact units stay intact. A stream that does not begin with a start code
fills the cache and is never sent; `SendsCompleteUnits` states that nothing is sent
for it, and `CacheDrained` is checked on files that do begin with one.

`ServerLifecycle` names its exceptions too. A connection that is accepted before the
mutex is initialised (129), or while `ab_rtsp_server_free` empties the list, can be
lost, freed twice or lead a thread along a pointer that was never set (`astray`);
the acceptor can hang for ever on the uninitialised mutex, and then the server
cannot be shut down. A SIGINT that comes before main.c 42 is forgotten, after it may
have ended the acceptor or the looper: then the server goes on without that thread,
which is why `ShutdownCompletes` speaks of later signals and `ConnectionsAccepted`
excepts `hit`. A file that did not open leads to `fclose(NULL)`, which
`UndefinedOnlyAstray` excepts (`opened`). `RtspAddress` has two: an address whose first byte is missing
(`.1.2.3`) is let through, and a port is taken modulo 2^16.

The client's properties name their exceptions, and the exceptions are what the code
does: a recv that ends inside a frame spoils what follows (`whole`), frames that
arrive with the response to PLAY are lost (`lost`), and `ab_rtsp_client_free` hangs
when the child waits for data that does not come (`ChildWaits`), which is the usual
case: the server stops streaming at TEARDOWN, answers nothing and leaves the
connection open. When the server closes the TCP connection, `FreeReturns` says that
free does return. A response in two pieces leaves every later command with the
answer to an earlier one.

## Disagreements found

* `server_sigpipe`: the comment at line 662 of the server file says that the
  answer to TEARDOWN was disabled because the process died of SIGPIPE. Every
  other write to a connection, the responses (693) and the packets over TCP
  (361), has the same flags (ab_socket.c 173) and nothing masks the signal: a
  client that resets its connection while it plays still ends the server.
* `server_accept`: `accept_func` asserts its socket (292), the acceptor passes
  whatever `ab_socket_accept` returned (ab_tcp_server.c 104-106), NULL when accept
  fails.
* `framer_assert`: `rtp_send_nalu` asserts a unit that is not empty (398). A piece
  that does not fit behind what the cache still holds is dropped (199) while
  collecting goes on. What the cache holds then may end in a start code, which is not
  recognized before more bytes follow it; when the piece after the dropped one begins
  with a start code, or the rest of one, the two meet and the unit between them is
  empty. No unit need be larger than the cache: in the trace they have 4, 4 and 1
  bytes, the cache has 14, and it is the piece of 5 that has no room.

## What is proved

`RtspServerProofs` (TLAPS, 613 obligations) proves for every set of connections,
descriptors and request kinds, every bound of pending requests and every
`SeqMod`, from `ServerAssumption` alone:

* the safety properties of `server_safety`: `TypeCorrect`, `ListIsLive`,
  `NoAcceptedSocketIsLost`, `LooperNeverBlocksInRecv`, `SelectNeverSeesClosed`,
  `ClientsStayInStep`, and the action property `ResponsesComeFirst`;
* `ServerIsABroadcast`: `Spec => Broadcast!Spec`.

The argument. None of these properties is inductive by itself. `IInv` adds
* `MutexInv`: which program counters hold the mutex, so that exclusion follows;
* `AcceptorInv`: the socket in the acceptor's hand is open, not listed, and its
  client does not play; `accRest` is still the list when the head is stored;
* `SocketInv`: descriptors are distinct, so `FD_ISSET` of one client says nothing
  about another;
* `SelectInv`, `LooperInv`: the descriptors that select is asked about belong to
  listed clients, which only the looper frees, so they stay open; and what was
  readable stays readable until the looper receives, because only it receives. A
  client that is accepted meanwhile has a descriptor that is not in the set;
* `StreamInv`: only listed clients that play have a last packet, so pruning and
  new clients do not disturb `Lockstep`.

Each of the four `...KeepsIInv` lemmas has one step per action of a thread, with
the conjuncts in four groups (types and control, sockets, select, stream). The
refinement has a lemma per kind of step: `RtpLockPublishes`, `RequestRefines` and
`EofRefines` (a client joins or leaves), `WalkStutters`, `ListStutters` and
`OtherStepsStutter`.

`ServerLifecycleProofs` (1685 obligations) proves for every set of connections
`TypeCorrect`, `SocketsAreHeld` and `UndefinedIsAstray`, from `LifecycleAssumption`
(NULL and a pointer that was never set are two things and no connection). Its
invariant:
* `ControlInv`: which stages of `new` and `free` main can be in, by what the other
  two threads do and what the mutex is;
* `ShapeInv`: the list has no cycle, and nothing points to a connection that
  `list_push` has not stored yet. This holds in every state, also after a push went
  astray;
* `LockInv`: as long as none did, the acceptor that stores the new head, and main and
  the looper while they walk the list or wait in a send, hold the mutex, and the head
  that the acceptor and the looper have read is still the head;
* `WalkInv`: as long as none did, both walks stand on a node of the list, or at its
  end, also after the send in which they have waited;
* `ListInv`: as long as none did, no node on the list is freed, the pointer that was
  never set is on it only before line 128, and every accepted socket is on it, in the
  acceptor's hand, or in main's.

"As long as none did" suffices because `astray` only grows. `Walk` and `NextAlive` are
stated without recursion, as the least set that is closed under `rest` and as the
element of it from which all others that stay are reached: so the lemmas on walks can
be proved for any pointers (`WalkLeast`, `WalkNode`, `NoCycle`), and with them what the
three operations on the list do to it (`Push`, `Prune`, and `NoCycle` for the pop).

`RtspClientProofs` (1999 obligations) proves for every number of frames, with no
assumption but that it is a number, `TypeCorrect`, `SessionIsReady`,
`NothingElseIsLost` and `EndsForCause`. `NothingElseLost` counts frames in the file, in
the buffer, in the stream and under way, and none of these sets stays put: what makes
it inductive is the shape of the bytes in between. As long as every recv ended where a
response or a frame ends (`whole`):
* `ControlInv`, `PlayInv`: when there is a child, and that nothing is streamed before
  PLAY was sent;
* `StepInv`: client and server are in step: when a command is sent the stream is
  empty, when its response is awaited either the request or the response is under
  way, and nothing but frames stands behind the response to PLAY;
* `KnownInv`: what the responses so far have told (codec, port);
* `PairInv`: the stream and the buffer hold whole items, both halves of each;
* `OrderInv`: the numbers of the frames increase along the stream, those in the buffer
  come before those in the stream, those written before both; and over UDP a frame
  that was written is not under way any more.

`EndsForCause` says where the process can end, for each of its three violent ends: it
crashes at `fclose(NULL)`, or once the codec is known, when over TCP a recv has ended
within an item or an open file was closed before the child is joined; an assertion
fails only in a client that never had a connection; SIGPIPE comes only to main, never
with the first command, and only on a connection whose reset an earlier call, maybe one
of the child, has reported. It follows from `IInv` and a second invariant, `EndInv`:
where main is in the order of its commands, and that nothing passes through a
connection that was never made.

`RtpTransferProofs` (2305 obligations) begins with the pure part, for every unit and
every `RTP_MAX_SIZE`: `SlicesTile` (the slices cover the data without gap or overlap
and none is empty), that a packet fits the buffer, and `WrittenPart`: what the client
writes for slice `i` of a unit is the `i`-th part of start code and unit, byte for
byte, with the header that was split over the slice headers put together again.

Then it proves `TypeCorrect`, `PacketsAlwaysFitBuffer`,
`StreamIsWritten`, `IntactUnitsAreWritten` and `UnitsAreStamped`, for every set of
units, network bound, and width of sequence number and timestamp. The invariant:
* `NetInv`: every datagram, sent or under way or arrived, is a packet of a unit that
  was given to `rtp_send_nalu`;
* `OutInv`: the file is what the arrived datagrams lay out one behind the other
  (`Laid`), each where the one before it ends;
* `LogInv`: so is the stream of units laid out by all the packets in the order they
  were sent, so that packets that arrived as they were sent have left the same bytes;
* `StampInv`: how the timestamp of each packet follows from the one before.

The assumptions. `PacketizerAssumption`: the buffer has 19 bytes more than
`RTP_MAX_SIZE`; the code has 30. `TransferAssumption`: one step of the timestamp does
not wrap it around to itself (3600 of 2^32). `CarriableAssumption`: `Units` holds units
that the two ends can carry (`Carriable`). This is no restriction of the streams the
server is made for, since the standards ask as much of a unit (forbidden_zero_bit is
0; types 28 and 29 of H.264 are the fragmentation units themselves; an H.265 header
with a layer or a temporal id is the exception), but it is one of the code: the slice
header of H.264 has no place for the first bit, that of H.265 none for the layer and
the temporal id, which the client writes as 0 and 1, and a unit sent whole that looks
like a slice is taken for one.

`NaluFramerProofs` (3190 obligations) proves all seven
properties of the run `framer`, for every set of files, every size of a piece and of
the cache: `TypeCorrect`, `CompleteUnitsAreSent`, `AllUnitsAreSent`, `NoneIsRefused`,
`AbortsForCause`, `PassesStartEmpty`, `OverlapIsRare`. `FramerAssumption` asks that a
piece and four bytes fit the cache; the code has pieces of 10 KiB (main.c 44) and a
cache of 1 MiB (line 112).

Its first part relates the two ways to cut a stream into units. `AnnexB` has all
start codes at once; `Rank` numbers them, and the unit of a start code is the one with
its number (`UnitAt`). The code looks for one after the other (`FindStartCode`), each
time in the rest of the cache. `FindIs` says what a search returns, `ScanIs` that a
round of the scan which is at a start code yields the unit `AnnexB` has there and comes
to the next one, `FlushIs` that the flush yields the last; `BeginsCodes` and
`BeginsUnits` say that more bytes at the end add start codes and change no complete
unit. A start code of four bytes is what makes this delicate: it is found at the byte
before the three of `AnnexB` (`CodeAt`), and a zero at the end of the cache may be the
first byte of one.

The second part has the invariant:
* `DrainInv`: for a file that begins with a start code, the cache begins with one in
  every state, or holds so little that this cannot be seen yet; so every flush finds
  something to send, and leaves nothing. It also holds of passes with refused pieces,
  for whatever is dropped is dropped behind a start code;
* `ScanInv`: while no piece was refused, the cache is the rest of what was read from an
  offset on, at which there is a start code `c`, and the units sent are those before
  `c` (`InStep`). Between two calls no start code is left behind `c`; during a scan
  those that are left lie within the last piece and the four bytes before it;
* the properties themselves, which the flush, a refusal and a memcpy of overlapping
  areas each turn from `ScanInv` into a statement about the next state.

`AbListProofs` (3814 obligations) proves for every set of addresses and of elements,
and so for lists of every length, `TypeCorrect`, `NoFaultEver`, `NodesHaveOneOwner`,
and `ListsAreSequences`: `Spec => ImplementsListSpec`. It assumes no more than
`ListAssumption` (NULL and a rest that was never written are two things and no
address). None of these is inductive: they say nothing of the states in which a loop
is half through a list. The invariant is that in every state the allocated nodes make
up four chains (`Chain`: a sequence of nodes in which each rest points to the next),
and no node is on two of them or twice on one (`Owned`):
* what the loop has passed, or keeps (`a`); what is ahead of it (`b`); what it builds
  (`u`); and the list `other` (`t`);
* `Placed` says for each function where its pointers stand in them (`InAppend`,
  `InCopy`, ..., `InPruneRest`): that `cur` is the first node of `b`, for example, or
  that the last rest of `u` was not written yet.

So a store changes one chain only, and a freed node leaves one chain only, whatever
the address was used for before. Each turn hands a node over from one chain to another
or frees it, and there is one lemma per action (`CopyTurnStep`, `PruneRestTurnStep`,
...), which shows both that the invariant is kept and that the turn is a stutter of
`ListSpec`. No induction over the list is needed there: the sequence a list stands for
is read off a chain (`ListNodes`), and the lemmas on `Firsts` say what it becomes when
a node is added at either end. `WithoutIs` and `ReverseTurns` do the same for the
pruning and the reversal.

`RtspAddressProofs` (1525 obligations) proves `OnlyQuadsAreAccepted` and `PortIsTheUrls`
for every set of hosts, ports and paths that `AddressAssumption` admits: what stands
between the delimiters has no delimiter in it, which is no restriction since the text
is cut at them, and a port has at most seven characters, so that `atoi` does not
overflow. Three facts carry it:
* `TextIs`: what `parse_rtsp_addr` finds before the first colon of what is before the
  first slash is the host of the URL, and what it finds behind it the port;
* `CheckIsQuad`: `ip_check`, which counts parts and looks behind each dot, accepts just
  what `Quad` describes; `ValidIs` says that the tests of `isValidIPV4Num` let through
  the numerals of a byte and nothing else, and `FourApart` and `FourTogether` that four
  beginnings of parts are three dots in order;
* `NumberIsValue`: ten times what came before plus the next digit amounts to the place
  values.

A host that does not fit `host_buf` and has no port behind it leaves the buffer as it
was (empty, line 93) and is refused by `ip_check`; `QuadShort` says that no address is
that long.

`Induction` proves induction over the natural numbers for a set instead of a
predicate (`NatInSet`, `IntervalInSet`), since a theorem with a predicate as its
parameter cannot be instantiated by the provers at hand. With it `RecursionExists` shows
that a function defined by recursion on an interval exists and is what its definition
says: `Walk`, `Without` and `Number` are such functions. `StreamRecursion` unfolds the
recursive function `Stream` in the same way.

The invariants and the action properties that the passing runs check without fairness
are all proved, and so are both refinements. Only model-checked is all liveness
(`RequestsRead`, `ClosedPeersReaped`, `MutexReleased`, `CommandsComplete`, `FreeReturns`,
`ShutdownCompletes`, `ConnectionsAccepted`), which TLAPS does not do under fairness; and
the three disagreements above are counterexamples that TLC finds.

## Not modelled

`ab_logger` (output only); `ab_except` (nothing catches an exception, so raising
one, by an assertion or an allocation that fails, ends the process, which the models
have where an assertion can fail); `ab_mem` (wrappers; outside `AbList` allocations and
`pthread_create` are taken to succeed); in `ab_socket.c` the conversion of addresses
and the timeouts that no caller uses; the Windows branches; more connections than
`FD_SETSIZE`; a SETUP request without a Transport header (undefined behaviour of
`strstr(NULL, ...)` at 640); a URL longer than the buffers of `parse_rtsp_addr`; the
IPv6 half of `ip_check.c`, which no host that was cut at its colon can reach; and
RTCP, for which the code opens a socket it does not use.
