----------------------------- MODULE RtspServer -----------------------------
(***************************************************************************)
(* The running server of rtsp_server/ab_rtsp_server.c, between the return  *)
(* of ab_rtsp_server_new and the call of ab_rtsp_server_free.              *)
(*                                                                         *)
(* Three threads share the list of clients under one mutex:                *)
(*   - the acceptor (ab_tcp_server.c) accepts connections and pushes a     *)
(*     client object on the list;                                          *)
(*   - the looper (event_looper_cb) waits for readable sockets, serves the *)
(*     RTSP requests, frees the sockets of the peers that left and prunes  *)
(*     the list;                                                           *)
(*   - the main thread (main.c) streams: rtp_send_nalu locks the mutex and *)
(*     writes one RTP packet to every playing client.                      *)
(*                                                                         *)
(* A connection of Conn stands for the TCP connection, for the             *)
(* ab_rtsp_client_t that serves it and for its ab_socket_t.  The list is   *)
(* the set of its client objects: list_push adds at the head and every     *)
(* pass visits each node once, so only membership is kept.  RTP payloads,  *)
(* addresses, ports and the text of requests and responses are left out.   *)
(*                                                                         *)
(* The kernel's side of a connection (tcp, pending, stalled) is external:  *)
(* it is modelled from what accept, select, recv and send return to the    *)
(* code.                                                                   *)
(***************************************************************************)
EXTENDS Naturals

CONSTANTS
  Conn,        \* the connections peers may open; reusable once closed
  NoConn,      \* "no connection": accSock and lCur when unused
  Fd,          \* the descriptors accept() can return
  NoFd,        \* a NULL ab_socket_t
  Request,     \* the kinds of request the peers send, a subset of RequestKind
  MaxPending,  \* bound: unread requests in a connection's receive buffer
  SeqMod,      \* RTP sequence numbers are taken modulo this (2^16, uint16_t)
  NoSeq        \* "no packet written yet"

(* A request as process_client_request tells them apart.  SETUP_NONE names *)
(* no transport the server knows, NO_CSEQ carries no CSeq header, OTHER is *)
(* any method without a handler.                                           *)
RequestKind == {"OPTIONS", "DESCRIBE", "SETUP_TCP", "SETUP_UDP",
                "SETUP_NONE", "PLAY", "TEARDOWN", "OTHER", "NO_CSEQ"}

ASSUME ServerAssumption ==
  /\ NoConn \notin Conn
  /\ NoFd \notin Fd
  /\ Request \subseteq RequestKind
  /\ MaxPending \in Nat \ {0}
  /\ SeqMod \in Nat \ {0}
  /\ NoSeq \notin Nat

VARIABLES
  proc,       \* the process: "up", "sigpipe" (killed) or "abort" (assert)
  mutex,      \* rtsp->mutex: the thread that holds it, or "free"
  clients,    \* rtsp->clients: the connections whose object is listed
  ready,      \* client->ready
  method,     \* client->method
  fd,         \* client->sock: its descriptor, NoFd when NULL or not accepted
  tcp,        \* connection: "none", "est", "fin" (peer closed), "rst" (reset,
              \* error not reported yet), "dead" (reset, error reported)
  pending,    \* requests in the receive buffer
  stalled,    \* the send buffer is full: send() blocks
  apc, accSock, accRest,        \* acceptor: pc, accepted socket, node->rest
  lpc, rfds, lTodo, lCur,       \* looper: pc, fd_set, rest of the list, client
                                \* a response is owed to
  mpc, mTodo,                   \* main: pc, rest of the list
  sequence,   \* rtsp->sequence
  last        \* history: the last packet offered to a client since it plays

sockVars   == <<fd, tcp, pending, stalled>>
objVars    == <<ready, method>>
accVars    == <<apc, accSock, accRest>>
loopVars   == <<lpc, rfds, lTodo, lCur>>
mainVars   == <<mpc, mTodo, sequence>>
vars == <<proc, mutex, clients, sockVars, objVars, accVars, loopVars,
          mainVars, last>>

SeqNum == 0 .. SeqMod - 1

TypeOK ==
  /\ proc \in {"up", "sigpipe", "abort"}
  /\ mutex \in {"free", "acceptor", "looper", "main"}
  /\ clients \subseteq Conn
  /\ ready \in [Conn -> BOOLEAN]
  /\ method \in [Conn -> {"NONE", "TCP", "UDP"}]
  /\ fd \in [Conn -> Fd \cup {NoFd}]
  /\ tcp \in [Conn -> {"none", "est", "fin", "rst", "dead"}]
  /\ pending \in [Conn -> 0 .. MaxPending]
  /\ stalled \in [Conn -> BOOLEAN]
  /\ apc \in {"select", "accepted", "push"}
  /\ accSock \in Conn \cup {NoConn}
  /\ accRest \subseteq Conn
  /\ lpc \in {"build", "select", "lock", "process", "respond"}
  /\ rfds \subseteq Fd
  /\ lTodo \subseteq Conn
  /\ lCur \in Conn \cup {NoConn}
  /\ mpc \in {"idle", "send"}
  /\ mTodo \subseteq Conn
  /\ sequence \in SeqNum
  /\ last \in [Conn -> SeqNum \cup {NoSeq}]

Init ==
  /\ proc = "up"
  /\ mutex = "free"
  /\ clients = {}
  /\ ready = [c \in Conn |-> FALSE]
  /\ method = [c \in Conn |-> "NONE"]
  /\ fd = [c \in Conn |-> NoFd]
  /\ tcp = [c \in Conn |-> "none"]
  /\ pending = [c \in Conn |-> 0]
  /\ stalled = [c \in Conn |-> FALSE]
  /\ apc = "select" /\ accSock = NoConn /\ accRest = {}
  /\ lpc = "build" /\ rfds = {} /\ lTodo = {} /\ lCur = NoConn
  /\ mpc = "idle" /\ mTodo = {}
  /\ sequence = 0
  /\ last = [c \in Conn |-> NoSeq]

-----------------------------------------------------------------------------
(* What the kernel reports of a connection.                                *)

(* recv() would return at once: data, end of file or an error.             *)
Readable(c) == pending[c] > 0 \/ tcp[c] \in {"fin", "rst", "dead"}

OpenFds == {fd[c] : c \in Conn} \ {NoFd}

(* The completed connections accept() has not returned yet.                *)
AcceptQueue == {c \in Conn : tcp[c] # "none" /\ fd[c] = NoFd}

(* ab_socket_send on the TCP connection c.  The data fits the send buffer, *)
(* which it may fill; or the pending error of a reset is reported and the  *)
(* data is lost; or the connection is known to be broken and the kernel    *)
(* raises SIGPIPE, whose default action ends the process: neither the call *)
(* (flags 0) nor main masks it.  send blocks while the buffer is full.     *)
SockSend(c) ==
  \/ /\ tcp[c] \in {"est", "fin"} /\ ~stalled[c]
     /\ \E full \in BOOLEAN : stalled' = [stalled EXCEPT ![c] = full]
     /\ UNCHANGED <<tcp, proc>>
  \/ /\ tcp[c] = "rst"
     /\ tcp' = [tcp EXCEPT ![c] = "dead"]
     /\ UNCHANGED <<stalled, proc>>
  \/ /\ tcp[c] = "dead"
     /\ proc' = "sigpipe"
     /\ UNCHANGED <<tcp, stalled>>

-----------------------------------------------------------------------------
(* The peers.                                                              *)

(* A name of Conn is used again once the object that bore it is freed.     *)
PeerConnect(c) ==
  /\ proc = "up"
  /\ tcp[c] = "none" /\ c \notin clients
  /\ tcp' = [tcp EXCEPT ![c] = "est"]
  /\ UNCHANGED <<proc, mutex, clients, fd, pending, stalled, objVars, accVars,
                 loopVars, mainVars, last>>

PeerRequest(c) ==
  /\ proc = "up"
  /\ tcp[c] = "est" /\ pending[c] < MaxPending
  /\ pending' = [pending EXCEPT ![c] = @ + 1]
  /\ UNCHANGED <<proc, mutex, clients, fd, tcp, stalled, objVars, accVars,
                 loopVars, mainVars, last>>

(* The peer reads: the send buffer has room again.                         *)
PeerDrain(c) ==
  /\ proc = "up"
  /\ stalled[c]
  /\ stalled' = [stalled EXCEPT ![c] = FALSE]
  /\ UNCHANGED <<proc, mutex, clients, fd, tcp, pending, objVars, accVars,
                 loopVars, mainVars, last>>

PeerClose(c) ==
  /\ proc = "up"
  /\ tcp[c] = "est"
  /\ tcp' = [tcp EXCEPT ![c] = "fin"]
  /\ UNCHANGED <<proc, mutex, clients, fd, pending, stalled, objVars, accVars,
                 loopVars, mainVars, last>>

(* A reset arrives: the peer died, or data reached it after its close.     *)
PeerReset(c) ==
  /\ proc = "up"
  /\ \/ tcp[c] = "est" /\ tcp' = [tcp EXCEPT ![c] = "rst"]
     \/ tcp[c] = "fin" /\ tcp' = [tcp EXCEPT ![c] = "dead"]
  /\ UNCHANGED <<proc, mutex, clients, fd, pending, stalled, objVars, accVars,
                 loopVars, mainVars, last>>

-----------------------------------------------------------------------------
(* The acceptor thread: accept_event_loop_func and accept_func.            *)

(* select reports the listening socket, accept returns a connection.       *)
Accept(c) ==
  /\ proc = "up"
  /\ apc = "select" /\ c \in AcceptQueue
  /\ \E f \in Fd \ OpenFds : fd' = [fd EXCEPT ![c] = f]
  /\ accSock' = c /\ apc' = "accepted"
  /\ UNCHANGED <<proc, mutex, clients, tcp, pending, stalled, objVars, accRest,
                 loopVars, mainVars, last>>

(* accept fails, the process or the system being out of descriptors or the *)
(* connection in error: ab_socket_accept returns NULL, the loop hands NULL *)
(* to accept_func, whose assert(sock) aborts.                              *)
AcceptFails ==
  /\ proc = "up"
  /\ apc = "select" /\ AcceptQueue # {}
  /\ proc' = "abort"
  /\ UNCHANGED <<mutex, clients, sockVars, objVars, accVars, loopVars,
                 mainVars, last>>

(* accept_func fills the new object, locks, and list_push reads the head.  *)
AcceptFuncLock ==
  /\ proc = "up"
  /\ apc = "accepted" /\ mutex = "free"
  /\ mutex' = "acceptor" /\ apc' = "push"
  /\ ready' = [ready EXCEPT ![accSock] = FALSE]
  /\ method' = [method EXCEPT ![accSock] = "NONE"]
  /\ accRest' = clients
  /\ UNCHANGED <<proc, clients, sockVars, accSock, loopVars, mainVars, last>>

(* Fault: the new node is stored without its rest.                         *)
PushedAlone(rest, c) == {c}

Pushed(rest, c) == rest \cup {c}

(* The new head is stored and the mutex released.                          *)
AcceptFuncPush ==
  /\ proc = "up"
  /\ apc = "push"
  /\ clients' = Pushed(accRest, accSock)
  /\ mutex' = "free" /\ apc' = "select"
  /\ accSock' = NoConn /\ accRest' = {}
  /\ UNCHANGED <<proc, sockVars, objVars, loopVars, mainVars, last>>

-----------------------------------------------------------------------------
(* The looper thread: event_looper_cb.                                     *)

(* Fault: FD_ZERO is missing.                                              *)
SelectSetKept == rfds \cup {fd[c] : c \in clients}

SelectSet == {fd[c] : c \in clients}

(* The set of descriptors to wait for is built under the mutex.  With no   *)
(* client the thread sleeps and tries again.                               *)
LooperBuild ==
  /\ proc = "up"
  /\ lpc = "build" /\ mutex = "free" /\ clients # {}
  /\ rfds' = SelectSet
  /\ lpc' = "select"
  /\ UNCHANGED <<proc, mutex, clients, sockVars, objVars, accVars, lTodo, lCur,
                 mainVars, last>>

(* The descriptors of s that are readable.                                 *)
ReadableFds(s) == {f \in s : \E c \in Conn : fd[c] = f /\ Readable(c)}

(* select without the mutex: it keeps the readable descriptors, or times   *)
(* out with none and the loop starts over.                                 *)
LooperSelect ==
  /\ proc = "up"
  /\ lpc = "select"
  /\ rfds' = ReadableFds(rfds)
  /\ lpc' = IF rfds' = {} THEN "build" ELSE "lock"
  /\ UNCHANGED <<proc, mutex, clients, sockVars, objVars, accVars, lTodo, lCur,
                 mainVars, last>>

LooperLock ==
  /\ proc = "up"
  /\ lpc = "lock" /\ mutex = "free"
  /\ mutex' = "looper" /\ lpc' = "process"
  /\ lTodo' = clients
  /\ UNCHANGED <<proc, clients, sockVars, objVars, accVars, rfds, lCur,
                 mainVars, last>>

(* Fault: every client of the list is received from.                       *)
IsSetAlways(c) == c \in lTodo

(* FD_ISSET(fd, &rfds) for the client at the cursor.                       *)
IsSet(c) == fd[c] \in rfds

LooperSkip(c) ==
  /\ proc = "up"
  /\ lpc = "process" /\ c \in lTodo /\ ~IsSet(c)
  /\ lTodo' = lTodo \ {c}
  /\ UNCHANGED <<proc, mutex, clients, sockVars, objVars, accVars, lpc, rfds,
                 lCur, mainVars, last>>

(* The requests that get a response: the handlers' len > 0.                *)
Answered(r) == r \notin {"SETUP_NONE", "TEARDOWN", "NO_CSEQ"}

(* process_client_request on the object of c.                              *)
ProcessClientRequest(c, r) ==
  /\ method' = CASE r = "SETUP_TCP" -> [method EXCEPT ![c] = "TCP"]
                 [] r = "SETUP_UDP" -> [method EXCEPT ![c] = "UDP"]
                 [] OTHER           -> method
  /\ ready' = CASE r = "PLAY"     -> [ready EXCEPT ![c] = TRUE]
                [] r = "TEARDOWN" -> [ready EXCEPT ![c] = FALSE]
                [] OTHER          -> ready
  /\ last' = IF r = "TEARDOWN" THEN [last EXCEPT ![c] = NoSeq] ELSE last

(* recv_client_msg, recv > 0: it returns k of the requests the peer sent,  *)
(* and only the first of them is looked at.                                *)
RecvRequest(c, r) ==
  /\ proc = "up"
  /\ lpc = "process" /\ c \in lTodo /\ IsSet(c)
  /\ \E k \in 1 .. pending[c] : pending' = [pending EXCEPT ![c] = @ - k]
  /\ ProcessClientRequest(c, r)
  /\ lTodo' = lTodo \ {c}
  /\ IF Answered(r) THEN lpc' = "respond" /\ lCur' = c
                    ELSE UNCHANGED <<lpc, lCur>>
  /\ UNCHANGED <<proc, mutex, clients, fd, tcp, stalled, accVars, rfds,
                 mainVars>>

(* Fault: an end of file is taken for an empty request.                    *)
KeepSocket(c) == UNCHANGED <<fd, tcp, stalled, last>>

FreeSocket(c) ==
  /\ fd' = [fd EXCEPT ![c] = NoFd]
  /\ tcp' = [tcp EXCEPT ![c] = "none"]
  /\ stalled' = [stalled EXCEPT ![c] = FALSE]
  /\ last' = [last EXCEPT ![c] = NoSeq]

(* recv_client_msg, recv = 0: the socket is freed and set to NULL.         *)
RecvEof(c) ==
  /\ proc = "up"
  /\ lpc = "process" /\ c \in lTodo /\ IsSet(c)
  /\ pending[c] = 0 /\ tcp[c] \in {"fin", "dead"}
  /\ FreeSocket(c)
  /\ lTodo' = lTodo \ {c}
  /\ UNCHANGED <<proc, mutex, clients, pending, objVars, accVars, lpc, rfds,
                 lCur, mainVars>>

(* recv_client_msg, recv < 0: the error is logged, the socket is kept.     *)
RecvError(c) ==
  /\ proc = "up"
  /\ lpc = "process" /\ c \in lTodo /\ IsSet(c)
  /\ pending[c] = 0 /\ tcp[c] = "rst"
  /\ tcp' = [tcp EXCEPT ![c] = "dead"]
  /\ lTodo' = lTodo \ {c}
  /\ UNCHANGED <<proc, mutex, clients, fd, pending, stalled, objVars, accVars,
                 lpc, rfds, lCur, mainVars, last>>

(* The response is written, still under the mutex.                         *)
LooperRespond ==
  /\ proc = "up"
  /\ lpc = "respond"
  /\ SockSend(lCur)
  /\ lpc' = "process" /\ lCur' = NoConn
  /\ UNCHANGED <<mutex, clients, fd, pending, objVars, accVars, rfds, lTodo,
                 mainVars, last>>

(* Fault: only nodes after the head are pruned.                            *)
PrunedAfterHead(s) == {c \in s : fd[c] # NoFd \/ c = CHOOSE h \in s : TRUE}

Pruned(s) == {c \in s : fd[c] # NoFd}

(* Fault: the looper leaves its critical section without unlocking.        *)
UnlockForgotten == mutex

Unlocked == "free"

(* update_clients_list frees the objects whose socket is NULL; unlock.     *)
UpdateClientsList ==
  /\ proc = "up"
  /\ lpc = "process" /\ lTodo = {}
  /\ clients' = Pruned(clients)
  /\ mutex' = Unlocked /\ lpc' = "build"
  /\ UNCHANGED <<proc, sockVars, objVars, accVars, rfds, lTodo, lCur, mainVars,
                 last>>

-----------------------------------------------------------------------------
(* The main thread: one packet of rtp_send_nalu.                           *)

(* Fault: main does not wait for the mutex.                                *)
RtpMayLockAlways == TRUE

RtpMayLock == mutex = "free"

RtpLock ==
  /\ proc = "up"
  /\ mpc = "idle" /\ RtpMayLock
  /\ mutex' = "main" /\ mpc' = "send"
  /\ mTodo' = clients
  /\ UNCHANGED <<proc, clients, sockVars, objVars, accVars, loopVars, sequence,
                 last>>

(* The clients send_rtp_to_client writes to.                               *)
Playing(c) == ready[c] /\ fd[c] # NoFd /\ method[c] # "NONE"

(* One turn of the loop of send_rtp_to_client: a datagram, a framed packet *)
(* on the RTSP connection, or nothing.                                     *)
SendRtpToClient(c) ==
  /\ proc = "up"
  /\ mpc = "send" /\ c \in mTodo
  /\ mTodo' = mTodo \ {c}
  /\ IF Playing(c) THEN last' = [last EXCEPT ![c] = sequence]
                   ELSE UNCHANGED last
  /\ IF Playing(c) /\ method[c] = "TCP"
     THEN SockSend(c)
     ELSE UNCHANGED <<tcp, stalled, proc>>
  /\ UNCHANGED <<mutex, clients, fd, pending, objVars, accVars, loopVars, mpc,
                 sequence>>

(* Fault: the walk over the clients may end before the last of them.       *)
WalkDoneEarly == TRUE

WalkDone == mTodo = {}

(* Fault: the sequence number is kept in a wider integer.                  *)
NextSeqWide(n) == n + 1

NextSeq(n) == (n + 1) % SeqMod

RtpUnlock ==
  /\ proc = "up"
  /\ mpc = "send" /\ WalkDone
  /\ mutex' = "free" /\ mpc' = "idle"
  /\ sequence' = NextSeq(sequence)
  /\ UNCHANGED <<proc, clients, sockVars, objVars, accVars, loopVars, mTodo,
                 last>>

-----------------------------------------------------------------------------
(* A process that was killed or aborted stays so.                          *)
Gone == proc # "up" /\ UNCHANGED vars

PeerNext == \E c \in Conn : \/ PeerConnect(c) \/ PeerRequest(c) \/ PeerDrain(c)
                            \/ PeerClose(c)   \/ PeerReset(c)

AcceptorNext == \/ \E c \in Conn : Accept(c)
                \/ AcceptFails \/ AcceptFuncLock \/ AcceptFuncPush

LooperNext ==
  \/ LooperBuild \/ LooperSelect \/ LooperLock
  \/ \E c \in Conn : \/ LooperSkip(c) \/ RecvEof(c) \/ RecvError(c)
                     \/ \E r \in Request : RecvRequest(c, r)
  \/ LooperRespond \/ UpdateClientsList

MainNext == RtpLock \/ (\E c \in Conn : SendRtpToClient(c)) \/ RtpUnlock

Next == PeerNext \/ AcceptorNext \/ LooperNext \/ MainNext \/ Gone

Spec == Init /\ [][Next]_vars

(* The threads run; a lock that is free again and again is obtained, since *)
(* main sleeps 40 ms between two reads of the file and the looper waits in *)
(* select without the mutex.  Main need not have a packet to send, and     *)
(* nothing is asked of the peers.                                          *)
Fairness ==
  /\ WF_vars(AcceptorNext) /\ SF_vars(AcceptFuncLock)
  /\ WF_vars(LooperNext) /\ SF_vars(LooperBuild) /\ SF_vars(LooperLock)
  /\ WF_vars(RtpUnlock) /\ WF_vars(\E c \in Conn : SendRtpToClient(c))
  /\ \A c \in Conn : SF_vars(Accept(c))

FairSpec == Spec /\ Fairness

-----------------------------------------------------------------------------
(* Safety.                                                                 *)

(* Outside the looper's critical section every object of the list has a    *)
(* socket: ab_socket_fd(rtsp_client->sock) at lines 714 and 741 never      *)
(* fails its assert(sock), whatever peers left since the last pass.        *)
ListedSocketsLive ==
  mutex # "looper" => \A c \in clients : fd[c] # NoFd

(* No accepted socket is lost: it is held by the acceptor or by an object  *)
(* of the list, however list_push, the pruning and the peers interleave.   *)
NoSocketLost ==
  \A c \in Conn : fd[c] # NoFd => c \in clients \/ c = accSock

(* The recv of recv_client_msg, made under the mutex, never waits: what    *)
(* select reported without the mutex still holds of every client the loop  *)
(* finds set, sockets accepted and freed in between included.              *)
RecvNeverBlocks ==
  lpc = "process" => \A c \in lTodo : IsSet(c) => Readable(c)

(* While the looper waits in select, nobody closes a descriptor of its     *)
(* set: select never fails with EBADF, which would end the looper thread   *)
(* (nums < 0, line 730).                                                   *)
SelectedStayOpen == lpc = "select" => rfds \subseteq OpenFds

(* Every client that was sent a packet is in step with the stream: its     *)
(* last packet is the one before rtsp->sequence, or the current one when   *)
(* the walk of send_rtp_to_client has passed it.  A client misses no       *)
(* packet and sees none twice, from the PLAY to the TEARDOWN.              *)
Lockstep ==
  \A c \in Conn : last[c] # NoSeq =>
    IF mpc = "send" /\ c \notin mTodo
    THEN last[c] = sequence
    ELSE (last[c] + 1) % SeqMod = sequence

(* Between a request being read and its response being written, no RTP     *)
(* packet is written to that client: the answer to PLAY reaches a peer     *)
(* before the first packet of the stream.                                  *)
ResponseBeforeStream ==
  [][\A c \in Conn : lpc = "respond" /\ lCur = c => last'[c] = last[c]]_vars

(* The state of MediaBroadcast: once main has taken the mutex its packet   *)
(* counts as sent, also to the clients its walk has not come to yet.       *)
NextPacket == IF mpc = "send" THEN (sequence + 1) % SeqMod ELSE sequence
Players == {c \in clients : Playing(c)}
Offered ==
  [c \in Conn |-> IF mpc = "send" /\ c \in mTodo /\ Playing(c)
                  THEN sequence ELSE last[c]]

(* The stream is one broadcast (MediaBroadcast): taking the mutex for a    *)
(* packet publishes it to all clients that play, at once; the walk of the  *)
(* list, the arrivals and the departures around it do not show.            *)
Broadcast == INSTANCE MediaBroadcast WITH
  Subscriber <- Conn, next <- NextPacket, playing <- Players, last <- Offered
ImplementsBroadcast == Broadcast!Spec

-----------------------------------------------------------------------------
(* Liveness.                                                               *)

(* The peers keep reading what the server writes to them.                  *)
PeersDrain == \A c \in Conn : []<>~stalled[c]

(* Every connection that its peer closed or reset is noticed, its socket   *)
(* freed and its object dropped from the list, unless the process ends;    *)
(* provided that the peers drain.                                          *)
ClosedPeersReaped ==
  PeersDrain =>
    \A c \in Conn :
      tcp[c] \in {"fin", "rst", "dead"} ~>
        (fd[c] = NoFd /\ c \notin clients /\ c # accSock) \/ proc # "up"

(* Every request a peer sent is read, also one sent before the connection  *)
(* was accepted or while another is served, unless the process ends;       *)
(* provided that the peers drain.                                          *)
RequestsRead ==
  PeersDrain =>
    \A c \in Conn : pending[c] > 0 ~> pending[c] = 0 \/ proc # "up"

(* The mutex is released again and again, unless the process ends or a     *)
(* peer that stopped reading holds a send() made under the mutex for ever. *)
MutexReleased ==
  \/ []<>(mutex = "free")
  \/ <>[](proc # "up")
  \/ \E c \in Conn : <>[]stalled[c]

-----------------------------------------------------------------------------
(* What comments and assertions of the repository say of the process.      *)

(* No write to a connection raises SIGPIPE.                                *)
NoSigpipe == proc # "sigpipe"

(* accept_func is given a socket: its assert(sock) holds.                  *)
AcceptedSockNotNull == proc # "abort"
=============================================================================
