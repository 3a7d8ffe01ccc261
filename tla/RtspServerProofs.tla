-------------------------- MODULE RtspServerProofs --------------------------
(***************************************************************************)
(* The safety properties of RtspServer hold, and it implements             *)
(* MediaBroadcast, for every set of connections, descriptors and requests  *)
(* and every SeqMod.  IInv is the inductive invariant all of it follows    *)
(* from.                                                                   *)
(***************************************************************************)
EXTENDS RtspServer, TLAPS

(* Who holds the mutex is where the threads are.                           *)
MutexInv ==
  /\ mutex = "main" <=> mpc = "send"
  /\ mutex = "looper" <=> lpc \in {"process", "respond"}
  /\ mutex = "acceptor" <=> apc = "push"

(* The acceptor owns the socket it has not listed yet, and the client it   *)
(* is about to list does not play.                                         *)
AcceptorInv ==
  /\ apc = "select" <=> accSock = NoConn
  /\ accSock \in Conn => fd[accSock] # NoFd /\ accSock \notin clients
  /\ apc = "push" => accRest = clients /\ ~ready[accSock]

(* Open sockets have descriptors of their own; a listed object whose       *)
(* socket was freed has no connection.                                     *)
SocketInv ==
  /\ \A c, d \in Conn : fd[c] # NoFd /\ fd[c] = fd[d] => c = d
  /\ \A c \in Conn : fd[c] # NoFd => tcp[c] # "none"
  /\ \A c \in clients : fd[c] = NoFd => tcp[c] = "none"

(* What the looper waits for, and what select told it, is about clients of *)
(* the list.                                                               *)
SelectInv ==
  /\ lpc \in {"select", "lock"} => \A f \in rfds : \E c \in clients : fd[c] = f
  /\ lpc = "lock" => \A c \in clients : IsSet(c) => Readable(c)

LooperInv ==
  /\ lpc \in {"process", "respond"} =>
       /\ lTodo \subseteq clients
       /\ \A c \in lTodo : fd[c] # NoFd /\ (IsSet(c) => Readable(c))
  /\ lpc = "respond" => lCur \in clients /\ fd[lCur] # NoFd

(* Only clients that play have a last packet.                              *)
StreamInv ==
  /\ mpc = "send" => mTodo \subseteq clients
  /\ \A c \in Conn : last[c] # NoSeq => c \in clients /\ Playing(c)

IInv ==
  /\ TypeOK
  /\ MutexInv
  /\ AcceptorInv
  /\ SocketInv
  /\ ListedSocketsLive
  /\ NoSocketLost
  /\ SelectInv
  /\ LooperInv
  /\ StreamInv
  /\ Lockstep

-----------------------------------------------------------------------------
(* The invariant holds initially and every action keeps it.                *)

(* The server starts in the invariant: no client, nothing sent.            *)
LEMMA InitEstablishesIInv == Init => IInv
<1> SUFFICES ASSUME Init PROVE IInv
  OBVIOUS
<1>1. TypeOK /\ MutexInv /\ AcceptorInv
  BY ServerAssumption DEF Init, TypeOK, MutexInv, AcceptorInv, SeqNum
<1>2. SocketInv /\ ListedSocketsLive /\ NoSocketLost
  BY DEF Init, SocketInv, ListedSocketsLive, NoSocketLost
<1>3. SelectInv /\ LooperInv
  BY DEF Init, SelectInv, LooperInv
<1>4. StreamInv /\ Lockstep
  BY DEF Init, StreamInv, Lockstep
<1> QED BY <1>1, <1>2, <1>3, <1>4 DEF IInv

(* The peers keep the invariant.                                           *)
LEMMA PeerKeepsIInv == IInv /\ PeerNext => IInv'
<1> SUFFICES ASSUME IInv, PeerNext PROVE IInv'
  OBVIOUS
<1> USE ServerAssumption
<1>1. ASSUME NEW c \in Conn, PeerConnect(c) PROVE IInv'
  <2>1. (TypeOK /\ MutexInv /\ AcceptorInv)'
    BY <1>1 DEF IInv, PeerConnect, TypeOK, MutexInv, AcceptorInv, objVars,
         accVars, loopVars, mainVars
  <2>2. (SocketInv /\ ListedSocketsLive /\ NoSocketLost)'
    BY <1>1 DEF IInv, PeerConnect, SocketInv, ListedSocketsLive, NoSocketLost,
         accVars
  <2>3. (SelectInv /\ LooperInv)'
    BY <1>1 DEF IInv, PeerConnect, SelectInv, LooperInv, Readable, IsSet,
         loopVars
  <2>4. (StreamInv /\ Lockstep)'
    BY <1>1 DEF IInv, PeerConnect, StreamInv, Lockstep, Playing, objVars,
         mainVars
  <2> QED BY <2>1, <2>2, <2>3, <2>4 DEF IInv
<1>2. ASSUME NEW c \in Conn, PeerRequest(c) PROVE IInv'
  <2>1. (TypeOK /\ MutexInv /\ AcceptorInv)'
    BY <1>2 DEF IInv, PeerRequest, TypeOK, MutexInv, AcceptorInv, objVars,
         accVars, loopVars, mainVars
  <2>2. (SocketInv /\ ListedSocketsLive /\ NoSocketLost)'
    BY <1>2 DEF IInv, PeerRequest, SocketInv, ListedSocketsLive, NoSocketLost,
         accVars
  <2>3. (SelectInv /\ LooperInv)'
    BY <1>2 DEF IInv, PeerRequest, TypeOK, SelectInv, LooperInv, Readable,
         IsSet, loopVars
  <2>4. (StreamInv /\ Lockstep)'
    BY <1>2 DEF IInv, PeerRequest, StreamInv, Lockstep, Playing, objVars,
         mainVars
  <2> QED BY <2>1, <2>2, <2>3, <2>4 DEF IInv
<1>3. ASSUME NEW c \in Conn, PeerDrain(c) PROVE IInv'
  <2>1. (TypeOK /\ MutexInv /\ AcceptorInv)'
    BY <1>3 DEF IInv, PeerDrain, TypeOK, MutexInv, AcceptorInv, objVars,
         accVars, loopVars, mainVars
  <2>2. (SocketInv /\ ListedSocketsLive /\ NoSocketLost)'
    BY <1>3 DEF IInv, PeerDrain, SocketInv, ListedSocketsLive, NoSocketLost,
         accVars
  <2>3. (SelectInv /\ LooperInv)'
    BY <1>3 DEF IInv, PeerDrain, SelectInv, LooperInv, Readable, IsSet,
         loopVars
  <2>4. (StreamInv /\ Lockstep)'
    BY <1>3 DEF IInv, PeerDrain, StreamInv, Lockstep, Playing, objVars,
         mainVars
  <2> QED BY <2>1, <2>2, <2>3, <2>4 DEF IInv
<1>4. ASSUME NEW c \in Conn, PeerClose(c) PROVE IInv'
  <2>1. (TypeOK /\ MutexInv /\ AcceptorInv)'
    BY <1>4 DEF IInv, PeerClose, TypeOK, MutexInv, AcceptorInv, objVars,
         accVars, loopVars, mainVars
  <2>2. (SocketInv /\ ListedSocketsLive /\ NoSocketLost)'
    BY <1>4 DEF IInv, PeerClose, SocketInv, ListedSocketsLive, NoSocketLost,
         accVars
  <2>3. (SelectInv /\ LooperInv)'
    BY <1>4 DEF IInv, PeerClose, SelectInv, LooperInv, Readable, IsSet,
         loopVars
  <2>4. (StreamInv /\ Lockstep)'
    BY <1>4 DEF IInv, PeerClose, StreamInv, Lockstep, Playing, objVars,
         mainVars
  <2> QED BY <2>1, <2>2, <2>3, <2>4 DEF IInv
<1>5. ASSUME NEW c \in Conn, PeerReset(c) PROVE IInv'
  <2>1. (TypeOK /\ MutexInv /\ AcceptorInv)'
    BY <1>5 DEF IInv, PeerReset, TypeOK, MutexInv, AcceptorInv, objVars,
         accVars, loopVars, mainVars
  <2>2. (SocketInv /\ ListedSocketsLive /\ NoSocketLost)'
    BY <1>5 DEF IInv, PeerReset, TypeOK, SocketInv, ListedSocketsLive,
         NoSocketLost, accVars
  <2>3. (SelectInv /\ LooperInv)'
    BY <1>5 DEF IInv, PeerReset, TypeOK, SelectInv, LooperInv, Readable,
         IsSet, loopVars
  <2>4. (StreamInv /\ Lockstep)'
    BY <1>5 DEF IInv, PeerReset, StreamInv, Lockstep, Playing, objVars,
         mainVars
  <2> QED BY <2>1, <2>2, <2>3, <2>4 DEF IInv
<1> QED BY <1>1, <1>2, <1>3, <1>4, <1>5 DEF PeerNext

(* The acceptor thread keeps the invariant.                                *)
LEMMA AcceptorKeepsIInv == IInv /\ AcceptorNext => IInv'
<1> SUFFICES ASSUME IInv, AcceptorNext PROVE IInv'
  OBVIOUS
<1> USE ServerAssumption
<1>1. ASSUME NEW c \in Conn, Accept(c) PROVE IInv'
  <2>1. (TypeOK /\ MutexInv /\ AcceptorInv)'
    BY <1>1 DEF IInv, Accept, TypeOK, MutexInv, AcceptorInv, SocketInv,
         objVars, loopVars, mainVars, AcceptQueue
  <2>2. (SocketInv /\ ListedSocketsLive /\ NoSocketLost)'
    BY <1>1 DEF IInv, Accept, AcceptorInv, SocketInv, ListedSocketsLive,
         NoSocketLost, OpenFds, AcceptQueue
  <2>3. (SelectInv /\ LooperInv)'
    BY <1>1 DEF IInv, Accept, SocketInv, SelectInv, LooperInv, Readable,
         IsSet, loopVars, AcceptQueue
  <2>4. (StreamInv /\ Lockstep)'
    BY <1>1 DEF IInv, Accept, StreamInv, Lockstep, Playing, objVars, mainVars
  <2> QED BY <2>1, <2>2, <2>3, <2>4 DEF IInv
<1>2. CASE AcceptFails
  <2>1. (TypeOK /\ MutexInv /\ AcceptorInv)'
    BY <1>2 DEF IInv, AcceptFails, TypeOK, MutexInv, AcceptorInv, sockVars,
         objVars, accVars, loopVars, mainVars
  <2>2. (SocketInv /\ ListedSocketsLive /\ NoSocketLost)'
    BY <1>2 DEF IInv, AcceptFails, SocketInv, ListedSocketsLive, NoSocketLost,
         sockVars, accVars
  <2>3. (SelectInv /\ LooperInv)'
    BY <1>2 DEF IInv, AcceptFails, SelectInv, LooperInv, Readable, IsSet,
         sockVars, loopVars
  <2>4. (StreamInv /\ Lockstep)'
    BY <1>2 DEF IInv, AcceptFails, StreamInv, Lockstep, Playing, sockVars,
         objVars, mainVars
  <2> QED BY <2>1, <2>2, <2>3, <2>4 DEF IInv
<1>3. CASE AcceptFuncLock
  <2>1. (TypeOK /\ MutexInv /\ AcceptorInv)'
    BY <1>3 DEF IInv, AcceptFuncLock, TypeOK, MutexInv, AcceptorInv, sockVars,
         loopVars, mainVars
  <2>2. (SocketInv /\ ListedSocketsLive /\ NoSocketLost)'
    BY <1>3 DEF IInv, AcceptFuncLock, SocketInv, ListedSocketsLive,
         NoSocketLost, sockVars
  <2>3. (SelectInv /\ LooperInv)'
    BY <1>3 DEF IInv, AcceptFuncLock, SelectInv, LooperInv, Readable, IsSet,
         sockVars, loopVars
  <2>4. (StreamInv /\ Lockstep)'
    BY <1>3 DEF IInv, AcceptFuncLock, AcceptorInv, StreamInv, Lockstep,
         Playing, sockVars, mainVars
  <2> QED BY <2>1, <2>2, <2>3, <2>4 DEF IInv
<1>4. CASE AcceptFuncPush
  <2>1. (TypeOK /\ MutexInv /\ AcceptorInv)'
    BY <1>4 DEF IInv, AcceptFuncPush, Pushed, TypeOK, MutexInv, AcceptorInv,
        sockVars,
         objVars, loopVars, mainVars
  <2>2. (SocketInv /\ ListedSocketsLive /\ NoSocketLost)'
    BY <1>4 DEF IInv, AcceptFuncPush, Pushed, TypeOK, MutexInv, AcceptorInv,
         SocketInv, ListedSocketsLive, NoSocketLost, sockVars
  <2>3. (SelectInv /\ LooperInv)'
    BY <1>4 DEF IInv, AcceptFuncPush, Pushed, TypeOK, AcceptorInv, SocketInv,
         SelectInv, LooperInv, Readable, IsSet, sockVars, loopVars
  <2>4. (StreamInv /\ Lockstep)'
    BY <1>4 DEF IInv, AcceptFuncPush, Pushed, AcceptorInv, StreamInv, Lockstep,
         Playing, sockVars, objVars, mainVars
  <2> QED BY <2>1, <2>2, <2>3, <2>4 DEF IInv
<1> QED BY <1>1, <1>2, <1>3, <1>4 DEF AcceptorNext

(* The looper thread keeps the invariant.                                  *)
LEMMA LooperKeepsIInv == IInv /\ LooperNext => IInv'
<1> SUFFICES ASSUME IInv, LooperNext PROVE IInv'
  OBVIOUS
<1> USE ServerAssumption
<1>1. CASE LooperBuild
  <2>1. (TypeOK /\ MutexInv /\ AcceptorInv)'
    BY <1>1 DEF IInv, LooperBuild, SelectSet, TypeOK, MutexInv, AcceptorInv,
         ListedSocketsLive, sockVars, objVars, accVars, mainVars
  <2>2. (SocketInv /\ ListedSocketsLive /\ NoSocketLost)'
    BY <1>1 DEF IInv, LooperBuild, SelectSet, SocketInv, ListedSocketsLive,
        NoSocketLost,
         sockVars, accVars
  <2>3. (SelectInv /\ LooperInv)'
    BY <1>1 DEF IInv, LooperBuild, SelectSet, SelectInv, LooperInv, sockVars
  <2>4. (StreamInv /\ Lockstep)'
    BY <1>1 DEF IInv, LooperBuild, SelectSet, StreamInv, Lockstep, Playing,
        sockVars,
         objVars, mainVars
  <2> QED BY <2>1, <2>2, <2>3, <2>4 DEF IInv
<1>2. CASE LooperSelect
  <2>1. (TypeOK /\ MutexInv /\ AcceptorInv)'
    BY <1>2 DEF IInv, LooperSelect, TypeOK, MutexInv, AcceptorInv, sockVars,
         objVars, accVars, mainVars, ReadableFds
  <2>2. (SocketInv /\ ListedSocketsLive /\ NoSocketLost)'
    BY <1>2 DEF IInv, LooperSelect, SocketInv, ListedSocketsLive,
         NoSocketLost, sockVars, accVars
  <2>3. (SelectInv /\ LooperInv)'
    BY <1>2 DEF IInv, LooperSelect, TypeOK, SocketInv, SelectInv, LooperInv,
         Readable, IsSet, sockVars, ReadableFds
  <2>4. (StreamInv /\ Lockstep)'
    BY <1>2 DEF IInv, LooperSelect, StreamInv, Lockstep, Playing, sockVars,
         objVars, mainVars
  <2> QED BY <2>1, <2>2, <2>3, <2>4 DEF IInv
<1>3. CASE LooperLock
  <2>1. (TypeOK /\ MutexInv /\ AcceptorInv)'
    BY <1>3 DEF IInv, LooperLock, TypeOK, MutexInv, AcceptorInv, sockVars,
         objVars, accVars, mainVars
  <2>2. (SocketInv /\ ListedSocketsLive /\ NoSocketLost)'
    BY <1>3 DEF IInv, LooperLock, SocketInv, ListedSocketsLive, NoSocketLost,
         sockVars, accVars
  <2>3. (SelectInv /\ LooperInv)'
    BY <1>3 DEF IInv, LooperLock, ListedSocketsLive, SelectInv, LooperInv,
         Readable, IsSet, sockVars
  <2>4. (StreamInv /\ Lockstep)'
    BY <1>3 DEF IInv, LooperLock, StreamInv, Lockstep, Playing, sockVars,
         objVars, mainVars
  <2> QED BY <2>1, <2>2, <2>3, <2>4 DEF IInv
<1>4. ASSUME NEW c \in Conn, LooperSkip(c) PROVE IInv'
  <2>1. (TypeOK /\ MutexInv /\ AcceptorInv)'
    BY <1>4 DEF IInv, LooperSkip, TypeOK, MutexInv, AcceptorInv, sockVars,
         objVars, accVars, mainVars
  <2>2. (SocketInv /\ ListedSocketsLive /\ NoSocketLost)'
    BY <1>4 DEF IInv, LooperSkip, SocketInv, ListedSocketsLive, NoSocketLost,
         sockVars, accVars
  <2>3. (SelectInv /\ LooperInv)'
    BY <1>4 DEF IInv, LooperSkip, SelectInv, LooperInv, Readable, IsSet,
         sockVars
  <2>4. (StreamInv /\ Lockstep)'
    BY <1>4 DEF IInv, LooperSkip, StreamInv, Lockstep, Playing, sockVars,
         objVars, mainVars
  <2> QED BY <2>1, <2>2, <2>3, <2>4 DEF IInv
<1>5. ASSUME NEW c \in Conn, RecvEof(c) PROVE IInv'
  <2>1. (TypeOK /\ MutexInv /\ AcceptorInv)'
    BY <1>5 DEF IInv, RecvEof, FreeSocket, TypeOK, MutexInv, AcceptorInv,
        LooperInv,
         objVars, accVars, mainVars
  <2>2. (SocketInv /\ ListedSocketsLive /\ NoSocketLost)'
    BY <1>5 DEF IInv, RecvEof, FreeSocket, TypeOK, MutexInv, SocketInv,
        ListedSocketsLive,
         NoSocketLost, accVars
  <2>3. (SelectInv /\ LooperInv)'
    BY <1>5 DEF IInv, RecvEof, FreeSocket, SelectInv, LooperInv, Readable,
        IsSet
  <2>4. (StreamInv /\ Lockstep)'
    BY <1>5 DEF IInv, RecvEof, FreeSocket, TypeOK, StreamInv, Lockstep,
        Playing, objVars,
         mainVars
  <2> QED BY <2>1, <2>2, <2>3, <2>4 DEF IInv
<1>6. ASSUME NEW c \in Conn, RecvError(c) PROVE IInv'
  <2>1. (TypeOK /\ MutexInv /\ AcceptorInv)'
    BY <1>6 DEF IInv, RecvError, TypeOK, MutexInv, AcceptorInv, objVars,
         accVars, mainVars
  <2>2. (SocketInv /\ ListedSocketsLive /\ NoSocketLost)'
    BY <1>6 DEF IInv, RecvError, SocketInv, ListedSocketsLive, NoSocketLost,
         accVars
  <2>3. (SelectInv /\ LooperInv)'
    BY <1>6 DEF IInv, RecvError, SelectInv, LooperInv, Readable, IsSet
  <2>4. (StreamInv /\ Lockstep)'
    BY <1>6 DEF IInv, RecvError, StreamInv, Lockstep, Playing, objVars,
         mainVars
  <2> QED BY <2>1, <2>2, <2>3, <2>4 DEF IInv
<1>7. ASSUME NEW c \in Conn, NEW r \in Request, RecvRequest(c, r) PROVE IInv'
  <2>1. (TypeOK /\ MutexInv /\ AcceptorInv)'
    BY <1>7 DEF IInv, RecvRequest, TypeOK, MutexInv, AcceptorInv, accVars,
         mainVars, ProcessClientRequest, LooperInv
  <2>2. (SocketInv /\ ListedSocketsLive /\ NoSocketLost)'
    BY <1>7 DEF IInv, RecvRequest, SocketInv, ListedSocketsLive, NoSocketLost,
         accVars
  <2>3. (SelectInv /\ LooperInv)'
    BY <1>7 DEF IInv, RecvRequest, SelectInv, LooperInv, Readable, IsSet
  <2>4. (StreamInv /\ Lockstep)'
    BY <1>7 DEF IInv, RecvRequest, TypeOK, StreamInv, Lockstep, Playing,
         mainVars, ProcessClientRequest
  <2> QED BY <2>1, <2>2, <2>3, <2>4 DEF IInv
<1>8. CASE LooperRespond
  <2>1. (TypeOK /\ MutexInv /\ AcceptorInv)'
    BY <1>8 DEF IInv, LooperRespond, TypeOK, MutexInv, AcceptorInv, objVars,
         accVars, mainVars, SockSend
  <2>2. (SocketInv /\ ListedSocketsLive /\ NoSocketLost)'
    BY <1>8 DEF IInv, LooperRespond, TypeOK, SocketInv, ListedSocketsLive,
         NoSocketLost, accVars, SockSend
  <2>3. (SelectInv /\ LooperInv)'
    BY <1>8 DEF IInv, LooperRespond, TypeOK, SelectInv, LooperInv, Readable,
         IsSet, SockSend
  <2>4. (StreamInv /\ Lockstep)'
    BY <1>8 DEF IInv, LooperRespond, StreamInv, Lockstep, Playing, objVars,
         mainVars
  <2> QED BY <2>1, <2>2, <2>3, <2>4 DEF IInv
<1>9. CASE UpdateClientsList
  <2>1. (TypeOK /\ MutexInv /\ AcceptorInv)'
    BY <1>9 DEF IInv, UpdateClientsList, Pruned, Unlocked, TypeOK, MutexInv,
        AcceptorInv,
         sockVars, objVars, accVars, mainVars
  <2>2. (SocketInv /\ ListedSocketsLive /\ NoSocketLost)'
    BY <1>9 DEF IInv, UpdateClientsList, Pruned, Unlocked, SocketInv,
        ListedSocketsLive,
         NoSocketLost, sockVars, accVars
  <2>3. (SelectInv /\ LooperInv)'
    BY <1>9 DEF IInv, UpdateClientsList, Pruned, Unlocked, SelectInv, LooperInv
  <2>4. (StreamInv /\ Lockstep)'
    BY <1>9 DEF IInv, UpdateClientsList, Pruned, Unlocked, MutexInv,
        StreamInv, Lockstep,
         Playing, sockVars, objVars, mainVars
  <2> QED BY <2>1, <2>2, <2>3, <2>4 DEF IInv
<1> QED BY <1>1, <1>2, <1>3, <1>4, <1>5, <1>6, <1>7, <1>8, <1>9 DEF LooperNext

(* The main thread keeps the invariant.                                    *)
LEMMA MainKeepsIInv == IInv /\ MainNext => IInv'
<1> SUFFICES ASSUME IInv, MainNext PROVE IInv'
  OBVIOUS
<1> USE ServerAssumption
<1>1. CASE RtpLock
  <2>1. (TypeOK /\ MutexInv /\ AcceptorInv)'
    BY <1>1 DEF IInv, RtpLock, RtpMayLock, TypeOK, MutexInv, AcceptorInv,
        sockVars,
         objVars, accVars, loopVars
  <2>2. (SocketInv /\ ListedSocketsLive /\ NoSocketLost)'
    BY <1>1 DEF IInv, RtpLock, RtpMayLock, SocketInv, ListedSocketsLive,
        NoSocketLost,
         sockVars, accVars
  <2>3. (SelectInv /\ LooperInv)'
    BY <1>1 DEF IInv, RtpLock, RtpMayLock, SelectInv, LooperInv, Readable,
        IsSet,
         sockVars, loopVars
  <2>4. (StreamInv /\ Lockstep)'
    BY <1>1 DEF IInv, RtpLock, RtpMayLock, StreamInv, Lockstep, Playing,
        sockVars, objVars
  <2> QED BY <2>1, <2>2, <2>3, <2>4 DEF IInv
<1>2. ASSUME NEW c \in Conn, SendRtpToClient(c) PROVE IInv'
  <2>1. (TypeOK /\ MutexInv /\ AcceptorInv)'
    BY <1>2 DEF IInv, SendRtpToClient, TypeOK, MutexInv, AcceptorInv, objVars,
         accVars, loopVars, SockSend
  <2>2. (SocketInv /\ ListedSocketsLive /\ NoSocketLost)'
    BY <1>2 DEF IInv, SendRtpToClient, TypeOK, SocketInv, ListedSocketsLive,
         NoSocketLost, accVars, SockSend
  <2>3. (SelectInv /\ LooperInv)'
    BY <1>2 DEF IInv, SendRtpToClient, TypeOK, SelectInv, LooperInv, Readable,
         IsSet, loopVars, SockSend
  <2>4. (StreamInv /\ Lockstep)'
    BY <1>2 DEF IInv, SendRtpToClient, TypeOK, StreamInv, Lockstep, Playing,
         objVars
  <2> QED BY <2>1, <2>2, <2>3, <2>4 DEF IInv
<1>3. CASE RtpUnlock
  <2>1. (TypeOK /\ MutexInv /\ AcceptorInv)'
    BY <1>3 DEF IInv, RtpUnlock, WalkDone, NextSeq, TypeOK, MutexInv,
        AcceptorInv, sockVars,
         objVars, accVars, loopVars, SeqNum
  <2>2. (SocketInv /\ ListedSocketsLive /\ NoSocketLost)'
    BY <1>3 DEF IInv, RtpUnlock, WalkDone, NextSeq, MutexInv, SocketInv,
        ListedSocketsLive,
         NoSocketLost, sockVars, accVars
  <2>3. (SelectInv /\ LooperInv)'
    BY <1>3 DEF IInv, RtpUnlock, WalkDone, NextSeq, SelectInv, LooperInv,
        Readable, IsSet,
         sockVars, loopVars
  <2>4. (StreamInv /\ Lockstep)'
    BY <1>3 DEF IInv, RtpUnlock, WalkDone, NextSeq, StreamInv, Lockstep,
        Playing, sockVars,
         objVars
  <2> QED BY <2>1, <2>2, <2>3, <2>4 DEF IInv
<1> QED BY <1>1, <1>2, <1>3 DEF MainNext

(* The invariant of the running server: the locks, the lists of sockets    *)
(* and the stream are consistent after every step of every thread.         *)
THEOREM InductiveInvariant == Spec => []IInv
<1>1. IInv /\ [Next]_vars => IInv'
  <2> SUFFICES ASSUME IInv, [Next]_vars PROVE IInv'
    OBVIOUS
  <2>1. CASE UNCHANGED vars
    BY <2>1 DEF IInv, vars, sockVars, objVars, accVars, loopVars, mainVars,
       TypeOK, MutexInv, AcceptorInv, SocketInv, ListedSocketsLive,
       NoSocketLost, SelectInv, LooperInv, StreamInv, Lockstep, Readable,
       IsSet, Playing
  <2>2. CASE Gone
    BY <2>1, <2>2 DEF Gone
  <2> QED BY <2>1, <2>2, PeerKeepsIInv, AcceptorKeepsIInv, LooperKeepsIInv,
             MainKeepsIInv DEF Next
<1> QED BY <1>1, InitEstablishesIInv, PTL DEF Spec

-----------------------------------------------------------------------------
(* The safety properties follow from the invariant.                        *)

(* Every variable stays in its type; the sequence number in particular     *)
(* wraps at SeqMod.                                                        *)
THEOREM TypeCorrect == Spec => []TypeOK
<1>1. IInv => TypeOK
  BY DEF IInv
<1> QED BY <1>1, InductiveInvariant, PTL

(* Outside the looper's critical section every listed client has a socket. *)
THEOREM ListIsLive == Spec => []ListedSocketsLive
<1>1. IInv => ListedSocketsLive
  BY DEF IInv
<1> QED BY <1>1, InductiveInvariant, PTL

(* No interleaving of list_push with the pruning loses an accepted socket. *)
THEOREM NoAcceptedSocketIsLost == Spec => []NoSocketLost
<1>1. IInv => NoSocketLost
  BY DEF IInv
<1> QED BY <1>1, InductiveInvariant, PTL

(* What select reported without the mutex is not stale when the looper     *)
(* receives under it: recv never waits.                                    *)
THEOREM LooperNeverBlocksInRecv == Spec => []RecvNeverBlocks
<1>1. IInv => RecvNeverBlocks
  BY DEF IInv, LooperInv, RecvNeverBlocks
<1> QED BY <1>1, InductiveInvariant, PTL

(* No descriptor is closed under the looper's select.                      *)
THEOREM SelectNeverSeesClosed == Spec => []SelectedStayOpen
<1>1. IInv => SelectedStayOpen
  <2> SUFFICES ASSUME IInv, lpc = "select", NEW f \in rfds PROVE f \in OpenFds
    BY DEF SelectedStayOpen
  <2>1. PICK c \in clients : fd[c] = f
    BY DEF IInv, SelectInv
  <2>2. c \in Conn /\ f # NoFd
    BY <2>1, ServerAssumption DEF IInv, TypeOK
  <2> QED BY <2>1, <2>2 DEF OpenFds
<1> QED BY <1>1, InductiveInvariant, PTL

(* No client misses a packet of the stream or is sent one twice while it   *)
(* plays.                                                                  *)
THEOREM ClientsStayInStep == Spec => []Lockstep
<1>1. IInv => Lockstep
  BY DEF IInv
<1> QED BY <1>1, InductiveInvariant, PTL

(* While a response is owed to a client, the looper holds the mutex, so    *)
(* main writes no packet.                                                  *)
THEOREM ResponsesComeFirst == Spec => ResponseBeforeStream
<1> DEFINE Kept == \A c \in Conn : lpc = "respond" /\ lCur = c => last'[c] = last[c]
<1>1. IInv /\ [Next]_vars => [Kept]_vars
  <2> SUFFICES ASSUME IInv, Next, NEW c \in Conn, lpc = "respond", lCur = c
               PROVE  last'[c] = last[c]
    OBVIOUS
  <2>1. mpc # "send"
    BY DEF IInv, MutexInv
  <2>2. CASE PeerNext
    BY <2>2 DEF PeerNext, PeerConnect, PeerRequest, PeerDrain, PeerClose,
       PeerReset
  <2>3. CASE AcceptorNext
    BY <2>3 DEF AcceptorNext, Accept, AcceptFails, AcceptFuncLock,
       AcceptFuncPush, Pushed
  <2>4. CASE LooperNext
    BY <2>4 DEF LooperNext, LooperBuild, SelectSet, LooperSelect, LooperLock,
        LooperSkip,
       RecvEof, FreeSocket, RecvError, RecvRequest, LooperRespond,
       UpdateClientsList, Pruned, Unlocked
  <2>5. CASE MainNext
    BY <2>1, <2>5 DEF MainNext, RtpLock, RtpMayLock, SendRtpToClient,
        RtpUnlock, WalkDone, NextSeq
  <2>6. CASE Gone
    BY <2>6 DEF Gone, vars
  <2> QED BY <2>2, <2>3, <2>4, <2>5, <2>6 DEF Next
<1> QED BY <1>1, InductiveInvariant, PTL DEF Spec, ResponseBeforeStream

-----------------------------------------------------------------------------
(* The server implements MediaBroadcast.                                   *)

(* No client and packet number 0.                                          *)
LEMMA InitRefines == Init => Broadcast!Init
BY DEF Init, Broadcast!Init, NextPacket, Players, Offered, Playing

(* Taking the mutex for a packet publishes it.                             *)
LEMMA RtpLockPublishes == IInv /\ RtpLock => Broadcast!Publish
<1> SUFFICES ASSUME IInv, RtpLock PROVE Broadcast!Publish
  OBVIOUS
<1>1. NextPacket = sequence /\ NextPacket' = (sequence + 1) % SeqMod
  BY DEF RtpLock, RtpMayLock, NextPacket
<1>2. Players' = Players
  BY DEF RtpLock, RtpMayLock, Players, Playing, sockVars, objVars
<1>3. Offered' = [c \in Conn |-> IF c \in Players THEN sequence ELSE Offered[c]]
  BY DEF RtpLock, RtpMayLock, Offered, Players, Playing, sockVars, objVars
<1> QED BY <1>1, <1>2, <1>3 DEF Broadcast!Publish

(* Walking the list and releasing the mutex shows nothing more.            *)
LEMMA WalkStutters ==
  ASSUME IInv, RtpUnlock \/ \E c \in Conn : SendRtpToClient(c)
  PROVE  UNCHANGED Broadcast!vars
<1>1. CASE RtpUnlock
  <2>1. NextPacket' = NextPacket
    BY <1>1 DEF RtpUnlock, WalkDone, NextSeq, NextPacket
  <2>2. Players' = Players
    BY <1>1 DEF RtpUnlock, WalkDone, NextSeq, Players, Playing, sockVars,
        objVars
  <2>3. Offered' = Offered
    BY <1>1 DEF RtpUnlock, WalkDone, NextSeq, Offered, Playing, sockVars,
        objVars
  <2> QED BY <2>1, <2>2, <2>3 DEF Broadcast!vars
<1>2. ASSUME NEW c \in Conn, SendRtpToClient(c) PROVE UNCHANGED Broadcast!vars
  <2>1. NextPacket' = NextPacket
    BY <1>2 DEF SendRtpToClient, NextPacket
  <2>2. Players' = Players
    BY <1>2 DEF SendRtpToClient, Players, Playing, objVars
  <2>3. Offered' = Offered
    BY <1>2 DEF SendRtpToClient, Offered, Playing, objVars, IInv, TypeOK
  <2> QED BY <2>1, <2>2, <2>3 DEF Broadcast!vars
<1> QED BY <1>1, <1>2

(* Reading a request lets a client join or leave, or shows nothing.        *)
LEMMA RequestRefines ==
  ASSUME IInv, NEW c \in Conn, NEW r \in Request, RecvRequest(c, r)
  PROVE  Broadcast!Join(c) \/ Broadcast!Leave(c) \/ UNCHANGED Broadcast!vars
<1>1. mpc # "send" /\ mpc' # "send"
  BY DEF RecvRequest, IInv, MutexInv, mainVars
<1>2. c \in clients /\ clients' = clients /\ fd[c] # NoFd /\ fd' = fd
  BY DEF RecvRequest, IInv, LooperInv
<1>3. NextPacket' = NextPacket
  BY <1>1 DEF RecvRequest, NextPacket, mainVars
<1>4. Offered = [d \in Conn |-> last[d]] /\ Offered' = [d \in Conn |-> last'[d]]
  BY <1>1 DEF Offered
<1>5. \A d \in Conn \ {c} : /\ Playing(d)' <=> Playing(d)
                            /\ last'[d] = last[d]
  BY <1>2 DEF RecvRequest, ProcessClientRequest, Playing, IInv, TypeOK
<1>6. CASE r = "TEARDOWN"
  <2>1. ~Playing(c)' /\ last' = [last EXCEPT ![c] = NoSeq]
    BY <1>6 DEF RecvRequest, ProcessClientRequest, Playing, IInv, TypeOK
  <2>2. Players' = Players \ {c}
    BY <1>2, <1>5, <2>1 DEF Players, IInv, TypeOK
  <2>3. Offered' = [Offered EXCEPT ![c] = NoSeq]
    BY <1>4, <2>1 DEF IInv, TypeOK
  <2>4. CASE Playing(c)
    BY <1>2, <1>3, <2>2, <2>3, <2>4 DEF Broadcast!Leave, Players
  <2>5. CASE ~Playing(c)
    <3>1. last[c] = NoSeq
      BY <2>5 DEF IInv, StreamInv
    <3>2. Offered' = Offered
      BY <1>4, <2>3, <3>1 DEF IInv, TypeOK
    <3>3. Players' = Players
      BY <2>2, <2>5 DEF Players
    <3> QED BY <1>3, <3>2, <3>3 DEF Broadcast!vars
  <2> QED BY <2>4, <2>5
<1>7. CASE r # "TEARDOWN"
  <2>1. Offered' = Offered
    BY <1>4, <1>7 DEF RecvRequest, ProcessClientRequest
  <2>2. Playing(c) => Playing(c)'
    BY <1>2, <1>7 DEF RecvRequest, ProcessClientRequest, Playing, IInv, TypeOK
  <2>3. CASE Playing(c)' /\ ~Playing(c)
    <3>1. c \notin Players /\ Players' = Players \cup {c}
      BY <1>2, <1>5, <2>3 DEF Players, IInv, TypeOK
    <3> QED BY <1>3, <2>1, <3>1 DEF Broadcast!Join
  <2>4. CASE Playing(c)' <=> Playing(c)
    <3>1. Players' = Players
      BY <1>2, <1>5, <2>4 DEF Players, IInv, TypeOK
    <3> QED BY <1>3, <2>1, <3>1 DEF Broadcast!vars
  <2> QED BY <2>2, <2>3, <2>4
<1> QED BY <1>6, <1>7

(* Freeing the socket of a peer that left lets its client leave.           *)
LEMMA EofRefines ==
  ASSUME IInv, NEW c \in Conn, RecvEof(c)
  PROVE  Broadcast!Leave(c) \/ UNCHANGED Broadcast!vars
<1>1. mpc # "send" /\ mpc' # "send"
  BY DEF RecvEof, FreeSocket, IInv, MutexInv, mainVars
<1>2. c \in clients /\ clients' = clients
  BY DEF RecvEof, FreeSocket, IInv, LooperInv
<1>3. NextPacket' = NextPacket
  BY <1>1 DEF RecvEof, FreeSocket, NextPacket, mainVars
<1>4. Offered = [d \in Conn |-> last[d]] /\ Offered' = [d \in Conn |-> last'[d]]
  BY <1>1 DEF Offered
<1>5. \A d \in Conn \ {c} : Playing(d)' <=> Playing(d)
  BY DEF RecvEof, FreeSocket, Playing, objVars, IInv, TypeOK
<1>6. ~Playing(c)'
  BY DEF RecvEof, FreeSocket, Playing, IInv, TypeOK
<1>7. Players' = Players \ {c}
  BY <1>2, <1>5, <1>6 DEF Players, IInv, TypeOK
<1>8. Offered' = [Offered EXCEPT ![c] = NoSeq]
  BY <1>4 DEF RecvEof, FreeSocket, IInv, TypeOK
<1>9. CASE Playing(c)
  BY <1>2, <1>3, <1>7, <1>8, <1>9 DEF Broadcast!Leave, Players
<1>10. CASE ~Playing(c)
  <2>1. last[c] = NoSeq
    BY <1>10 DEF IInv, StreamInv
  <2>2. Offered' = Offered
    BY <1>4, <1>8, <2>1 DEF IInv, TypeOK
  <2>3. Players' = Players
    BY <1>7, <1>10 DEF Players
  <2> QED BY <1>3, <2>2, <2>3 DEF Broadcast!vars
<1> QED BY <1>9, <1>10

(* Listing a new client and pruning dead ones: none of them plays.         *)
LEMMA ListStutters ==
  ASSUME IInv, AcceptFuncLock \/ AcceptFuncPush \/ UpdateClientsList
  PROVE  UNCHANGED Broadcast!vars
<1>1. CASE AcceptFuncLock
  <2>1. mpc # "send" /\ mpc' # "send"
    BY <1>1 DEF AcceptFuncLock, IInv, MutexInv, mainVars
  <2>2. \A c \in clients : Playing(c)' <=> Playing(c)
    BY <1>1 DEF AcceptFuncLock, Playing, sockVars, IInv, TypeOK, AcceptorInv
  <2> QED BY <1>1, <2>1, <2>2 DEF AcceptFuncLock, mainVars, Broadcast!vars,
             NextPacket, Players, Offered
<1>2. CASE AcceptFuncPush
  <2>1. mpc # "send" /\ mpc' # "send"
    BY <1>2 DEF AcceptFuncPush, Pushed, IInv, MutexInv, mainVars
  <2>2. \A c : Playing(c)' <=> Playing(c)
    BY <1>2 DEF AcceptFuncPush, Pushed, Playing, sockVars, objVars
  <2>3. ~Playing(accSock) /\ clients' = clients \cup {accSock}
    BY <1>2 DEF AcceptFuncPush, Pushed, Playing, IInv, AcceptorInv
  <2> QED BY <1>2, <2>1, <2>2, <2>3 DEF AcceptFuncPush, Pushed, mainVars,
             Broadcast!vars, NextPacket, Players, Offered
<1>3. CASE UpdateClientsList
  <2>1. mpc # "send" /\ mpc' # "send"
    BY <1>3 DEF UpdateClientsList, Pruned, Unlocked, IInv, MutexInv, mainVars
  <2>2. \A c : Playing(c)' <=> Playing(c)
    BY <1>3 DEF UpdateClientsList, Pruned, Unlocked, Playing, sockVars, objVars
  <2>3. Players' = Players
    BY <1>3, <2>2 DEF UpdateClientsList, Pruned, Unlocked, Players, Playing
  <2> QED BY <1>3, <2>1, <2>3 DEF UpdateClientsList, Pruned, Unlocked,
      mainVars, Broadcast!vars,
             NextPacket, Offered
<1> QED BY <1>1, <1>2, <1>3

(* The steps that change neither the list, nor the part of a client object *)
(* that says whether it plays, nor the stream.                             *)
LEMMA OtherStepsStutter ==
  ASSUME IInv,
         \/ PeerNext \/ (\E c \in Conn : Accept(c)) \/ AcceptFails
         \/ LooperBuild \/ LooperSelect \/ LooperLock \/ LooperRespond
         \/ \E c \in Conn : LooperSkip(c) \/ RecvError(c)
         \/ Gone \/ UNCHANGED vars
  PROVE  UNCHANGED Broadcast!vars
<1>1. ASSUME NEW c \in Conn, Accept(c) PROVE UNCHANGED Broadcast!vars
  <2>1. c \notin clients /\ (mpc = "send" => c \notin mTodo)
    BY <1>1 DEF Accept, AcceptQueue, IInv, SocketInv, StreamInv
  <2>2. \A d \in Conn \ {c} : Playing(d)' <=> Playing(d)
    BY <1>1 DEF Accept, Playing, objVars, IInv, TypeOK
  <2> QED BY <1>1, <2>1, <2>2 DEF Accept, mainVars, Broadcast!vars, NextPacket,
             Players, Offered, IInv, TypeOK
<1>2. CASE ~\E c \in Conn : Accept(c)
  <2>1. UNCHANGED <<clients, ready, method, fd, mpc, mTodo, sequence, last>>
    BY <1>2 DEF PeerNext, PeerConnect, PeerRequest, PeerDrain, PeerClose,
       PeerReset, AcceptFails, LooperBuild, SelectSet, LooperSelect,
       LooperLock,
       LooperSkip, RecvError, LooperRespond, Gone, vars, sockVars, objVars,
       mainVars
  <2> QED BY <2>1 DEF Broadcast!vars, NextPacket, Players, Offered, Playing
<1> QED BY <1>1, <1>2

(* Every step of the server is a step of the broadcast or shows nothing.   *)
LEMMA StepRefines == IInv /\ [Next]_vars => [Broadcast!Next]_(Broadcast!vars)
<1> SUFFICES ASSUME IInv, [Next]_vars, ~UNCHANGED Broadcast!vars
             PROVE  Broadcast!Next
  OBVIOUS
<1>1. CASE RtpLock
  BY <1>1, RtpLockPublishes DEF Broadcast!Next
<1>2. ASSUME NEW c \in Conn, NEW r \in Request, RecvRequest(c, r)
      PROVE  Broadcast!Next
  BY <1>2, RequestRefines DEF Broadcast!Next
<1>3. ASSUME NEW c \in Conn, RecvEof(c) PROVE Broadcast!Next
  BY <1>3, EofRefines DEF Broadcast!Next
<1>4. CASE AcceptFuncLock \/ AcceptFuncPush \/ UpdateClientsList
  BY <1>4, ListStutters
<1>5. CASE RtpUnlock \/ \E c \in Conn : SendRtpToClient(c)
  BY <1>5, WalkStutters
<1>6. CASE \/ PeerNext \/ (\E c \in Conn : Accept(c)) \/ AcceptFails
           \/ LooperBuild \/ LooperSelect \/ LooperLock \/ LooperRespond
           \/ \E c \in Conn : LooperSkip(c) \/ RecvError(c)
           \/ Gone \/ UNCHANGED vars
  BY <1>6, OtherStepsStutter
<1> QED BY <1>1, <1>2, <1>3, <1>4, <1>5, <1>6
        DEF Next, AcceptorNext, LooperNext, MainNext

(* For every number of clients, the threads together implement one         *)
(* broadcast of numbered packets to the clients that play.                 *)
THEOREM ServerIsABroadcast == Spec => ImplementsBroadcast
<1>1. Spec => [][Broadcast!Next]_(Broadcast!vars)
  BY InductiveInvariant, StepRefines, PTL DEF Spec
<1> QED BY <1>1, InitRefines, PTL DEF Spec, ImplementsBroadcast, Broadcast!Spec
=============================================================================
