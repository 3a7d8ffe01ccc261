--------------------------- MODULE ServerLifecycle ---------------------------
(***************************************************************************)
(* The server from the first line of ab_rtsp_server_new to the end of      *)
(* main: which threads run while the object they share is being built and  *)
(* taken down again, and what SIGINT does to them.                         *)
(*                                                                         *)
(* ab_rtsp_server_new starts the acceptor before it has set the list of    *)
(* clients and initialised the mutex; ab_rtsp_server_free joins the looper *)
(* but destroys the mutex and empties the list before it stops the         *)
(* acceptor.  What the threads say to their peers between the two is in    *)
(* RtspServer; here a connection is accepted, listed, served and closed,   *)
(* and main walks the list with a packet.  Both walks write to the peers   *)
(* with the mutex held, and a send waits while the peer does not read: a   *)
(* signal need not end it, for signal() installs the handler so that the   *)
(* send is restarted.  Which clients play, what they ask for and whether   *)
(* the buffer of a connection has room is left open.                       *)
(*                                                                         *)
(* The list is kept with its pointers: the node of a connection bears its  *)
(* name, rest[c] is its rest.                                              *)
(*                                                                         *)
(* Undefined behaviour is a choice over what the build does.  A mutex that *)
(* is not initialised holds what malloc left in it: locking it fails with  *)
(* EINVAL, succeeds, or waits for ever.  One that is destroyed fails with  *)
(* EINVAL; destroying one that is held fails with EBUSY.  Following a wild *)
(* pointer or one to a freed node ends the model: "undefined".             *)
(***************************************************************************)

CONSTANTS
  Conn,   \* the connections peers open, each once
  NULL,
  Wild    \* a pointer that was never set

ASSUME LifecycleAssumption == NULL # Wild /\ {NULL, Wild} \cap Conn = {}

VARIABLES
  proc,     \* "up", "abort" (assert), "sigpipe", "undefined" or "exit"
  opened,   \* fopen returned a file
  mutex,    \* rtsp->mutex: "raw", "free", the thread that holds it, or "gone"
  clients,  \* rtsp->clients
  rest,     \* the rest of each node
  freed,    \* the nodes that were freed
  conn,     \* "none", "queued", "open", "eof" (its peer left) or "closed"
  mpc,      \* main: the next stage of new, "run", or of a packet, or of free
  gquit,    \* g_quit
  quit,     \* rtsp->quit
  tquit,    \* tcp_server->quit
  mNode,    \* main: the node list_pop has freed
  mHead,    \* main: the node send_rtp_to_client stands at
  apc, aSock, aRest,  \* acceptor: pc, accepted socket, argument of list_push
  lpc, lHead,         \* looper: pc, node or head of the list it walks
  hit,      \* history: a SIGINT has ended the acceptor
  astray    \* history: the connections pushed while there was no mutex

list     == <<clients, rest, freed>>
mptr     == <<mNode, mHead>>
main     == <<mpc, gquit, quit, tquit, mptr>>
acceptor == <<apc, aSock, aRest>>
looper   == <<lpc, lHead>>
history  == <<hit, astray>>
vars == <<proc, opened, mutex, list, conn, main, acceptor, looper, history>>

Starting == {"tcp", "udp", "clients", "mutex", "looper", "fopen"}
Popping  == {"pop", "popped", "tquit", "join acceptor"}
Pointer  == Conn \cup {NULL, Wild}

TypeOK ==
  /\ proc \in {"up", "abort", "sigpipe", "undefined", "exit"}
  /\ {opened, gquit, quit, tquit, hit} \subseteq BOOLEAN
  /\ mutex \in {"raw", "free", "main", "acceptor", "looper", "gone"}
  /\ {clients, mNode, mHead, aRest, lHead} \subseteq Pointer /\ rest \in [Conn -> Pointer]
  /\ freed \subseteq Conn /\ astray \subseteq Conn
  /\ conn \in [Conn -> {"none", "queued", "open", "eof", "closed"}]
  /\ mpc \in Starting \cup Popping
             \cup {"run", "lock", "walk", "waits", "free", "join looper", "destroy"}
  /\ apc \in {"none", "top", "select", "lock", "push", "stuck", "done"}
  /\ aSock \in Conn \cup {NULL}
  /\ lpc \in {"none", "top", "select", "lock", "serve", "waits", "update", "done"}

Init ==
  /\ proc = "up" /\ opened \in BOOLEAN
  /\ mutex = "raw"
  /\ clients \in {NULL, Wild} /\ rest = [c \in Conn |-> Wild] /\ freed = {}
  /\ conn = [c \in Conn |-> "none"]
  /\ mpc = "tcp" /\ gquit = TRUE /\ quit = FALSE /\ tquit = FALSE
  /\ mNode = NULL /\ mHead = NULL
  /\ apc = "none" /\ aSock = NULL /\ aRest = NULL
  /\ lpc = "none" /\ lHead = NULL
  /\ hit = FALSE /\ astray = {}

-----------------------------------------------------------------------------
(* The list.                                                               *)

(* The pointers a walk from p follows: the least set that holds p and the  *)
(* rest of every node in it.                                               *)
Closed(S) == \A c \in S \cap Conn : rest[c] \in S
Walk(p) == {q \in Pointer : \A S \in SUBSET Pointer : p \in S /\ Closed(S) => q \in S}

Broken(p) == Walk(p) \cap (freed \cup {Wild}) # {}

(* The first node from p on that still has its socket: the walk goes on    *)
(* from it to all the others.                                              *)
NextAlive(p) ==
  LET stays == {q \in Walk(p) : q \in Conn => conn[q] # "closed"}
  IN CHOOSE q \in stays : stays \subseteq Walk(q)

-----------------------------------------------------------------------------
(* main: ab_rtsp_server_new.                                               *)

MainGoes(from, to) == proc = "up" /\ mpc = from /\ mpc' = to

(* A port that cannot be bound fails an assertion.                         *)
Asserts(from) ==
  /\ proc = "up" /\ mpc = from /\ proc' = "abort"
  /\ UNCHANGED <<opened, mutex, list, conn, main, acceptor, looper, history>>

(* ab_tcp_server_new: the server listens and the acceptor runs.            *)
TcpServerNew ==
  \/ /\ MainGoes("tcp", "udp") /\ apc' = "top"
     /\ UNCHANGED <<proc, opened, mutex, list, conn, gquit, quit, tquit, mptr,
                    aSock, aRest, looper, history>>
  \/ Asserts("tcp")

UdpClientNew ==
  \/ /\ MainGoes("udp", "clients")
     /\ UNCHANGED <<proc, opened, mutex, list, conn, gquit, quit, tquit, mptr,
                    acceptor, looper, history>>
  \/ Asserts("udp")

SetClients ==
  /\ MainGoes("clients", "mutex")
  /\ clients' = NULL
  /\ UNCHANGED <<proc, opened, mutex, rest, freed, conn, gquit, quit, tquit,
                 mptr, acceptor, looper, history>>

(* Whoever holds it, the mutex is free now.                                *)
MutexInit ==
  /\ MainGoes("mutex", "looper")
  /\ mutex' = "free"
  /\ UNCHANGED <<proc, opened, list, conn, gquit, quit, tquit, mptr, acceptor,
                 looper, history>>

StartLooper ==
  /\ MainGoes("looper", "fopen")
  /\ quit' = FALSE /\ lpc' = "top"
  /\ UNCHANGED <<proc, opened, mutex, list, conn, gquit, tquit, mptr, acceptor,
                 lHead, history>>

(* main: g_quit = false, whatever signal came before.                      *)
StartRunning ==
  /\ MainGoes("fopen", "run")
  /\ gquit' = FALSE
  /\ UNCHANGED <<proc, opened, mutex, list, conn, quit, tquit, mptr, acceptor,
                 looper, history>>

(* A piece read from the file completes units to send, packet by packet.   *)
MainHasPacket ==
  /\ MainGoes("run", "lock") /\ opened
  /\ UNCHANGED <<proc, opened, mutex, list, conn, gquit, quit, tquit, mptr,
                 acceptor, looper, history>>

MainLock ==
  /\ MainGoes("lock", "walk") /\ mutex = "free"
  /\ mutex' = "main" /\ mHead' = clients
  /\ UNCHANGED <<proc, opened, list, conn, gquit, quit, tquit, mNode, acceptor,
                 looper, history>>

(* One turn of send_rtp_to_client: the client has not asked for packets or *)
(* is sent this one; its buffer is full; or its peer has reset it.         *)
MainSends ==
  /\ proc = "up" /\ mpc = "walk" /\ mHead # NULL
  /\ IF mHead \in freed \cup {Wild}
     THEN proc' = "undefined" /\ UNCHANGED <<mpc, mHead>>
     ELSE \/ mHead' = rest[mHead] /\ UNCHANGED <<proc, mpc>>
          \/ /\ conn[mHead] \in {"open", "eof"}
             /\ mpc' = "waits" /\ UNCHANGED <<proc, mHead>>
          \/ conn[mHead] = "eof" /\ proc' = "sigpipe" /\ UNCHANGED <<mpc, mHead>>
  /\ UNCHANGED <<opened, mutex, list, conn, gquit, quit, tquit, mNode, acceptor,
                 looper, history>>

MainUnlocks ==
  /\ MainGoes("walk", "run") /\ mHead = NULL
  /\ mutex' = "free"
  /\ UNCHANGED <<proc, opened, list, conn, gquit, quit, tquit, mptr, acceptor,
                 looper, history>>

-----------------------------------------------------------------------------
(* main: the end of its loop, and ab_rtsp_server_free.                     *)

(* fclose, of a file that may be NULL.                                     *)
StopRunning ==
  /\ proc = "up" /\ mpc = "run" /\ gquit
  /\ IF opened THEN mpc' = "free" /\ UNCHANGED proc
               ELSE proc' = "undefined" /\ UNCHANGED mpc
  /\ UNCHANGED <<opened, mutex, list, conn, gquit, quit, tquit, mptr, acceptor,
                 looper, history>>

SetQuit ==
  /\ MainGoes("free", "join looper")
  /\ quit' = TRUE
  /\ UNCHANGED <<proc, opened, mutex, list, conn, gquit, tquit, mptr, acceptor,
                 looper, history>>

(* Fault: nobody waits for the looper.                                     *)
LooperJoinedEarly == TRUE

LooperJoined == lpc = "done"

JoinLooper ==
  /\ MainGoes("join looper", "destroy") /\ LooperJoined
  /\ UNCHANGED <<proc, opened, mutex, list, conn, gquit, quit, tquit, mptr,
                 acceptor, looper, history>>

DestroyMutex ==
  /\ MainGoes("destroy", "pop")
  /\ mutex' = IF mutex = "free" THEN "gone" ELSE mutex
  /\ UNCHANGED <<proc, opened, list, conn, gquit, quit, tquit, mptr, acceptor,
                 looper, history>>

(* list_pop reads the rest of the first node and frees the node ...        *)
Pop ==
  /\ proc = "up" /\ mpc = "pop" /\ clients # NULL
  /\ IF clients \in freed \cup {Wild}
     THEN proc' = "undefined" /\ UNCHANGED <<mpc, mptr, freed>>
     ELSE mpc' = "popped" /\ mNode' = clients /\ freed' = freed \cup {clients}
          /\ UNCHANGED proc
  /\ UNCHANGED <<opened, mutex, clients, rest, conn, gquit, quit, tquit, mHead,
                 acceptor, looper, history>>

(* Fault: only the first client is popped, as with if for while.           *)
AfterPopOnce == "tquit"

AfterPop == "pop"

(* ... its rest becomes the list, and the client's socket is freed.        *)
Popped ==
  /\ MainGoes("popped", AfterPop)
  /\ clients' = rest[mNode]
  /\ conn' = [conn EXCEPT ![mNode] = "closed"]
  /\ mNode' = NULL
  /\ UNCHANGED <<proc, opened, mutex, rest, freed, gquit, quit, tquit, mHead,
                 acceptor, looper, history>>

PopEnds ==
  /\ MainGoes("pop", "tquit") /\ clients = NULL
  /\ UNCHANGED <<proc, opened, mutex, list, conn, gquit, quit, tquit, mptr,
                 acceptor, looper, history>>

(* ab_tcp_server_free, in two steps.                                       *)
SetTcpQuit ==
  /\ MainGoes("tquit", "join acceptor")
  /\ tquit' = TRUE
  /\ UNCHANGED <<proc, opened, mutex, list, conn, gquit, quit, mptr, acceptor,
                 looper, history>>

JoinAcceptor ==
  /\ proc = "up" /\ mpc = "join acceptor" /\ apc = "done"
  /\ proc' = "exit"
  /\ UNCHANGED <<opened, mutex, list, conn, main, acceptor, looper, history>>

-----------------------------------------------------------------------------
(* The acceptor.                                                           *)

AcceptorGoes(from, to) == proc = "up" /\ apc = from /\ apc' = to

AcceptorTop ==
  /\ AcceptorGoes("top", IF tquit THEN "done" ELSE "select")
  /\ UNCHANGED <<proc, opened, mutex, list, conn, main, aSock, aRest, looper,
                 history>>

(* Fault: a timeout is taken for an error.                                 *)
AfterTimeoutEnd == "done"

AfterTimeout == "top"

AcceptorTimeout ==
  /\ AcceptorGoes("select", AfterTimeout)
  /\ \A c \in Conn : conn[c] # "queued"
  /\ UNCHANGED <<proc, opened, mutex, list, conn, main, aSock, aRest, looper,
                 history>>

(* accept, which may fail: then NULL reaches the assertion of accept_func. *)
Accept(c) ==
  /\ proc = "up" /\ apc = "select" /\ conn[c] = "queued"
  /\ \/ /\ apc' = "lock" /\ aSock' = c
        /\ conn' = [conn EXCEPT ![c] = "open"]
        /\ UNCHANGED proc
     \/ proc' = "abort" /\ UNCHANGED <<apc, aSock, conn>>
  /\ UNCHANGED <<opened, mutex, list, main, aRest, looper, history>>

(* pthread_mutex_lock of accept_func, whose result is not looked at;       *)
(* list_push is given the head.                                            *)
AcceptFuncLock ==
  /\ AcceptorGoes("lock", "push")
  /\ \/ mutex = "free" /\ mutex' = "acceptor" /\ UNCHANGED astray
     \/ mutex = "raw" /\ mutex' \in {"raw", "acceptor"}
        /\ astray' = astray \cup {aSock}
     \/ mutex = "gone" /\ astray' = astray \cup {aSock} /\ UNCHANGED mutex
  /\ aRest' = clients
  /\ UNCHANGED <<proc, opened, list, conn, main, aSock, looper, hit>>

AcceptFuncHangs ==
  /\ AcceptorGoes("lock", "stuck") /\ mutex = "raw"
  /\ UNCHANGED <<proc, opened, mutex, list, conn, main, aSock, aRest, looper,
                 history>>

(* Fault: accept_func returns without unlocking.                           *)
UnlockForgotten == mutex

(* An initialised mutex is free after an unlock, whoever held it.          *)
Unlocked == IF mutex \in {"raw", "gone"} THEN mutex ELSE "free"

(* Once main empties the list it asks for no mutex: a push then is astray. *)
AcceptFuncPush ==
  /\ AcceptorGoes("push", "top")
  /\ rest' = [rest EXCEPT ![aSock] = aRest] /\ clients' = aSock
  /\ mutex' = Unlocked
  /\ astray' = IF mpc \in Popping THEN astray \cup {aSock} ELSE astray
  /\ aSock' = NULL /\ aRest' = NULL
  /\ UNCHANGED <<proc, opened, freed, conn, main, looper, hit>>

-----------------------------------------------------------------------------
(* The looper.                                                             *)

LooperGoes(from, to) == proc = "up" /\ lpc = from /\ lpc' = to

LooperEnds ==
  /\ LooperGoes("top", "done") /\ quit
  /\ UNCHANGED <<proc, opened, mutex, list, conn, main, acceptor, lHead, history>>

(* The walk that builds the set, under the mutex.                          *)
LooperBuild ==
  /\ proc = "up" /\ lpc = "top" /\ ~quit /\ mutex = "free" /\ clients # NULL
  /\ IF Broken(clients) THEN proc' = "undefined" /\ UNCHANGED lpc
                        ELSE lpc' = "select" /\ UNCHANGED proc
  /\ UNCHANGED <<opened, mutex, list, conn, main, acceptor, lHead, history>>

(* select times out, or reports some of its set.                           *)
LooperSelect ==
  /\ proc = "up" /\ lpc = "select"
  /\ lpc' \in {"top", "lock"}
  /\ UNCHANGED <<proc, opened, mutex, list, conn, main, acceptor, lHead, history>>

LooperLock ==
  /\ LooperGoes("lock", "serve") /\ mutex = "free"
  /\ mutex' = "looper" /\ lHead' = clients
  /\ UNCHANGED <<proc, opened, list, conn, main, acceptor, history>>

(* One turn of the walk: the client is not set, is read to no effect, or   *)
(* is answered; its peer has left and its socket is freed; or the answer   *)
(* finds a full buffer, or a peer that has reset the connection.           *)
LooperServe ==
  /\ proc = "up" /\ lpc = "serve" /\ lHead # NULL
  /\ IF lHead \in freed \cup {Wild}
     THEN proc' = "undefined" /\ UNCHANGED <<lpc, lHead, conn>>
     ELSE \/ lHead' = rest[lHead] /\ UNCHANGED <<proc, lpc, conn>>
          \/ /\ conn[lHead] = "eof" /\ lHead' = rest[lHead]
             /\ conn' = [conn EXCEPT ![lHead] = "closed"]
             /\ UNCHANGED <<proc, lpc>>
          \/ /\ conn[lHead] \in {"open", "eof"}
             /\ lpc' = "waits" /\ UNCHANGED <<proc, lHead, conn>>
          \/ conn[lHead] = "eof" /\ proc' = "sigpipe"
             /\ UNCHANGED <<lpc, lHead, conn>>
  /\ UNCHANGED <<opened, mutex, list, main, acceptor, history>>

(* update_clients_list is given the head as it is now.                     *)
LooperServed ==
  /\ proc = "up" /\ lpc = "serve" /\ lHead = NULL
  /\ IF Broken(clients) THEN proc' = "undefined" /\ UNCHANGED <<lpc, lHead>>
     ELSE lpc' = "update" /\ lHead' = clients /\ UNCHANGED proc
  /\ UNCHANGED <<opened, mutex, list, conn, main, acceptor, history>>

(* Fault: the walk frees what the last node points to as well.             *)
GoneAndEnd == {c \in Walk(lHead) : c \notin Conn \/ conn[c] = "closed"}

Gone == {c \in Walk(lHead) \cap Conn : conn[c] = "closed"}

(* The nodes without a socket are freed; unlock.                           *)
LooperUpdate ==
  /\ LooperGoes("update", "top")
  /\ freed' = freed \cup Gone
  /\ clients' = NextAlive(lHead)
  /\ rest' = [c \in Conn |-> IF c \in Walk(lHead) THEN NextAlive(rest[c]) ELSE rest[c]]
  /\ mutex' = "free" /\ lHead' = NULL
  /\ UNCHANGED <<proc, opened, conn, main, acceptor, history>>

-----------------------------------------------------------------------------
(* Peers and signals.                                                      *)

PeerConnect(c) ==
  /\ proc = "up" /\ mpc # "tcp" /\ conn[c] = "none"
  /\ conn' = [conn EXCEPT ![c] = "queued"]
  /\ UNCHANGED <<proc, opened, mutex, list, main, acceptor, looper, history>>

PeerClose(c) ==
  /\ proc = "up" /\ conn[c] = "open"
  /\ conn' = [conn EXCEPT ![c] = "eof"]
  /\ UNCHANGED <<proc, opened, mutex, list, main, acceptor, looper, history>>

(* The peer of c reads, or leaves: the send to it returns.                 *)
PeerDrain(c) ==
  /\ proc = "up"
  /\ \/ /\ mpc = "waits" /\ mHead = c
        /\ mpc' = "walk" /\ mHead' = rest[c] /\ UNCHANGED looper
     \/ /\ lpc = "waits" /\ lHead = c
        /\ lpc' = "serve" /\ lHead' = rest[c] /\ UNCHANGED <<mpc, mHead>>
  /\ UNCHANGED <<proc, opened, mutex, list, conn, gquit, quit, tquit, mNode,
                 acceptor, history>>

(* SIGINT, at any time and again.  Any thread may take it, and select,     *)
(* which is never restarted, then fails in that thread; both loops end     *)
(* when it fails.                                                          *)
Sigint(t) ==
  /\ proc = "up"
  /\ gquit' = TRUE
  /\ apc' = IF t = "acceptor" /\ apc = "select" THEN "done" ELSE apc
  /\ lpc' = IF t = "looper" /\ lpc = "select" THEN "done" ELSE lpc
  /\ hit' = (hit \/ apc' # apc)
  /\ UNCHANGED <<proc, opened, mutex, list, conn, mpc, quit, tquit, mptr,
                 aSock, aRest, lHead, astray>>

-----------------------------------------------------------------------------
(* What main does by itself; whether it has a packet is up to the file.    *)
MainSteps ==
  \/ TcpServerNew \/ UdpClientNew \/ SetClients \/ MutexInit \/ StartLooper
  \/ StartRunning \/ MainLock \/ MainSends \/ MainUnlocks \/ StopRunning
  \/ SetQuit \/ JoinLooper \/ DestroyMutex \/ Pop \/ Popped \/ PopEnds
  \/ SetTcpQuit \/ JoinAcceptor

AcceptorNext ==
  \/ AcceptorTop \/ AcceptorTimeout \/ (\E c \in Conn : Accept(c))
  \/ AcceptFuncLock \/ AcceptFuncHangs \/ AcceptFuncPush

LooperNext ==
  \/ LooperEnds \/ LooperBuild \/ LooperSelect \/ LooperLock
  \/ LooperServe \/ LooperServed \/ LooperUpdate

Next ==
  \/ MainSteps \/ MainHasPacket \/ AcceptorNext \/ LooperNext
  \/ \E c \in Conn : PeerConnect(c) \/ PeerClose(c) \/ PeerDrain(c)
  \/ \E t \in {"main", "acceptor", "looper"} : Sigint(t)

(* The three threads run; a lock that is free again and again is obtained, *)
(* since main sleeps 40 ms between two pieces and the looper waits in      *)
(* select without the mutex; and main looks at g_quit again and again,     *)
(* since a piece holds finitely many packets.  Nothing is asked of peers.  *)
Spec ==
  /\ Init /\ [][Next]_vars
  /\ WF_vars(MainSteps) /\ SF_vars(MainLock) /\ SF_vars(StopRunning)
  /\ WF_vars(AcceptorNext) /\ SF_vars(AcceptFuncLock)
  /\ WF_vars(LooperNext)

-----------------------------------------------------------------------------
(* An accepted socket has an owner until it is freed, the acceptor, the    *)
(* list, or main that pops it, and all are freed when the process exits:   *)
(* whichever way start-up, shutdown and connections interleave, unless a   *)
(* push went astray, its lock before line 129 or its store after line 157. *)
SocketsHeld ==
  astray = {} =>
    \A c \in Conn : conn[c] \in {"open", "eof"} =>
      /\ c \in {aSock, mNode} \cup Walk(clients)
      /\ proc # "exit"

(* Nothing else than a push astray makes a thread follow a wild or freed   *)
(* pointer, but for the file that could not be opened and is closed.       *)
UndefinedOnlyAstray == proc = "undefined" => astray # {} \/ ~opened

(* The connections a thread waits for in a send, with the mutex held.      *)
SentTo == {c \in Conn : \/ mpc = "waits" /\ mHead = c
                        \/ lpc = "waits" /\ lHead = c}

(* The peers keep reading what the server writes to them.                  *)
PeersDrain == \A c \in Conn : []<>(c \notin SentTo)

(* After a SIGINT that came once g_quit was false the server ends, also    *)
(* while connections arrive and packets are sent, and whatever thread took *)
(* the signal; unless the acceptor hangs on the mutex that was not         *)
(* initialised, and provided that the peers drain: one that stops reading  *)
(* keeps main in its loop, or the looper from being joined, for ever.      *)
ShutdownCompletes ==
  PeersDrain =>
    (gquit /\ mpc \notin Starting ~> proc # "up" \/ apc = "stuck")

(* A connection is accepted and handed to the list, unless the process     *)
(* ends, the acceptor hangs or is told to stop, or a SIGINT has ended it:  *)
(* then, if the SIGINT came during start-up and is forgotten, the server   *)
(* goes on without it.  The acceptor waits for the mutex behind main and   *)
(* the looper, and they for peers: provided that the peers drain.          *)
ConnectionsAccepted ==
  PeersDrain =>
    \A c \in Conn :
      conn[c] = "queued" ~>
        \/ conn[c] # "queued" /\ c # aSock
        \/ proc # "up" \/ apc = "stuck" \/ tquit \/ hit
=============================================================================
