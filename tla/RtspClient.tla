----------------------------- MODULE RtspClient -----------------------------
(***************************************************************************)
(* One run of the RTSP client: ab_rtsp_client_new and ab_rtsp_client_free  *)
(* of rtsp_client/ab_rtsp_client.c, the thread that the first of them      *)
(* starts, and main of rtsp_client/main.c around them.                     *)
(*                                                                         *)
(* main connects, sends OPTIONS, DESCRIBE, SETUP and PLAY and waits after  *)
(* each of them for one recv, then starts the child thread, which receives *)
(* RTP over the same connection or over UDP and hands it to a callback     *)
(* that writes a file.  After SIGINT main closes the file, sends TEARDOWN, *)
(* waits a second, sets quit and joins the child.                          *)
(*                                                                         *)
(* The connection is a byte stream, of which recv returns any prefix.  Of  *)
(* its bytes this much is kept: a response and an interleaved RTP frame    *)
(* are two parts each, the first of which begins with the first byte (the  *)
(* '$' of a frame, no '$' for a response).  A datagram is a frame number;  *)
(* what is written for one packet is in RtpTransfer.  Whether video_codec  *)
(* and udp_rtp_srv_port are those of the stream is all that is kept of     *)
(* them.  The server is external, and behaves as RtspServer does.          *)
(***************************************************************************)
EXTENDS Integers, Sequences

CONSTANT MaxFrames   \* bound: the RTP packets the server sends

ASSUME ClientAssumption == MaxFrames \in Nat

OPTIONS == 1  DESCRIBE == 2  SETUP == 3  PLAY == 4  TEARDOWN == 5
Command == OPTIONS .. PLAY
Frame == 1 .. MaxFrames
Torn == 0            \* written: bytes that are no frame, once or in a row

VARIABLES
  proc,      \* the process: "up", "abort" (assert), "sigpipe", "crash"
  over,      \* rtp_over_opt
  opened,    \* main: fopen returned a file
  conn,      \* tcp_client: "none" (NULL), "open", "fin" (the server closed),
             \* "rst" (reset, error not reported yet), "dead" (reported)
  stream,    \* what recv will return: parts of responses and frames
  dgrams,    \* the datagrams that wait in the UDP socket or on their way
  codec,     \* video_codec is that of the stream
  port,      \* udp_rtp_srv_port is the one the server sends from
  quit,      \* t->quit
  mpc,       \* main: "connect", "send", "recv" (inside send_cmd_*), "start",
             \* "run", "teardown" (the file is closed), "sleep", "join", "freed"
  cmd,       \* main: the command in hand
  cpc,       \* child: "none", "loop", "recv", "scan", "done"
  buf,       \* child: recv_buf from start_pos on
  written,   \* what the callback has written: frames, and Torn
  requests,  \* server: requests not read yet
  setup, playing, sent,   \* server: SETUP read, PLAY in force, frames sent
  whole,     \* history: every recv ended where a response or a frame ends
  lost       \* history: frames that went elsewhere: with the response to PLAY,
             \* dropped by the network, to a closed file

args == <<over, opened>>
srvVars == <<requests, setup, playing, sent>>
netVars == <<conn, stream, dgrams>>
mainVars == <<mpc, cmd, codec, port, quit>>
childVars == <<cpc, buf, written>>
vars == <<proc, args, netVars, mainVars, childVars, srvVars, whole, lost>>

Part == [kind : {"response"}, id : Command, half : 1 .. 2]
          \cup [kind : {"frame"}, id : Frame, half : 1 .. 2]

TypeOK ==
  /\ proc \in {"up", "abort", "sigpipe", "crash"}
  /\ over \in {"NONE", "TCP", "UDP"}
  /\ conn \in {"none", "open", "fin", "rst", "dead"}
  /\ stream \in Seq(Part) /\ buf \in Seq(Part)
  /\ dgrams \subseteq Frame /\ lost \subseteq Frame
  /\ {codec, port, quit, setup, playing, whole, opened} \subseteq BOOLEAN
  /\ mpc \in {"connect", "send", "recv", "start", "run", "teardown", "sleep",
              "join", "freed"}
  /\ cmd \in Command
  /\ cpc \in {"none", "loop", "recv", "scan", "done"}
  /\ written \in Seq(Frame \cup {Torn})
  /\ requests \in Seq(OPTIONS .. TEARDOWN)
  /\ sent \in 0 .. MaxFrames

(* The client object comes from malloc: its codec and port may hold        *)
(* anything until a response sets them.                                    *)
Init ==
  /\ proc = "up" /\ opened \in BOOLEAN
  /\ over \in {"NONE", "TCP", "UDP"}
  /\ conn = "none" /\ stream = <<>> /\ dgrams = {}
  /\ codec \in BOOLEAN /\ port \in BOOLEAN /\ quit = FALSE
  /\ mpc = "connect" /\ cmd = OPTIONS
  /\ cpc = "none" /\ buf = <<>> /\ written = <<>>
  /\ requests = <<>> /\ setup = FALSE /\ playing = FALSE /\ sent = 0
  /\ whole = TRUE /\ lost = {}

-----------------------------------------------------------------------------
(* The stream.                                                             *)

Item(kind, n) == [h \in 1 .. 2 |-> [kind |-> kind, id |-> n, half |-> h]]
First(s, n) == SubSeq(s, 1, n)
After(s, n) == SubSeq(s, n + 1, Len(s))
Frames(s) == {s[i].id : i \in {j \in DOMAIN s : s[j].kind = "frame"}}

(* Whether the text looked for in the response to command c is found in    *)
(* the bytes s: it is when all of the response is there, it may be when    *)
(* some is.                                                                *)
Tells(s, c) ==
  {b \in BOOLEAN : /\ b => \E i \in DOMAIN s : s[i] \in {Item("response", c)[h] : h \in 1 .. 2}
                   /\ ~b => \E h \in 1 .. 2 : \A i \in DOMAIN s : s[i] # Item("response", c)[h]}

(* A recv that returns the first n parts.                                  *)
Receive(n) ==
  /\ n \in DOMAIN stream
  /\ stream' = After(stream, n)
  /\ whole' = (whole /\ stream[n].half = 2)

(* A recv that returns 0 or -1: the connection has ended.                  *)
ReceiveFails ==
  /\ stream = <<>> /\ conn \in {"fin", "rst", "dead"}
  /\ conn' = IF conn = "rst" THEN "dead" ELSE conn

(* ab_tcp_client_send: a peer that closed answers what it is sent with a   *)
(* reset, sooner or later; after a reset the next call reports it, and     *)
(* later ones raise SIGPIPE.  ok and failed are what send_cmd_* does next. *)
Send(c, ok, failed) ==
  \/ /\ conn = "open" /\ requests' = Append(requests, c) /\ ok
     /\ UNCHANGED <<proc, conn>>
  \/ /\ conn = "fin" /\ conn' \in {"fin", "dead"} /\ ok
     /\ UNCHANGED <<proc, requests>>
  \/ /\ conn = "rst" /\ conn' = "dead" /\ failed
     /\ UNCHANGED <<proc, requests>>
  \/ /\ conn = "dead" /\ proc' = "sigpipe"
     /\ UNCHANGED <<conn, requests, mpc, cmd>>

-----------------------------------------------------------------------------
(* main: ab_rtsp_client_new.                                               *)

(* When connect fails ab_tcp_client_new returns NULL: the commands are     *)
(* left out, the child is started all the same.                            *)
Connect ==
  /\ proc = "up" /\ mpc = "connect"
  /\ \/ conn' = "open" /\ mpc' = "send"
     \/ conn' = "none" /\ mpc' = "start"
  /\ UNCHANGED <<proc, args, stream, dgrams, cmd, codec, port, quit,
                 childVars, srvVars, whole, lost>>

(* The UDP ports are taken: bind fails and an assertion with it.           *)
BindFails ==
  /\ proc = "up" /\ mpc = "connect" /\ over = "UDP"
  /\ proc' = "abort"
  /\ UNCHANGED <<args, netVars, mainVars, childVars, srvVars, whole, lost>>

(* The address is not accepted (RtspAddress): NULL is returned, no thread  *)
(* is started, and main waits for SIGINT all the same.                     *)
RefuseAddress ==
  /\ proc = "up" /\ mpc = "connect"
  /\ mpc' = "run"
  /\ UNCHANGED <<proc, args, netVars, cmd, codec, port, quit,
                 childVars, srvVars, whole, lost>>

(* Fault: PLAY is counted like the other commands.                         *)
NextCommandPast == cmd' = cmd + 1 /\ mpc' = IF cmd = PLAY THEN "start" ELSE "send"

(* send_cmd_* returns; its result is not looked at.                        *)
NextCommand ==
  IF cmd = PLAY THEN mpc' = "start" /\ UNCHANGED cmd
                ELSE mpc' = "send" /\ cmd' = cmd + 1

(* Fault: the response to OPTIONS is not waited for.                       *)
AnsweringHurried ==
  IF cmd = OPTIONS THEN NextCommand ELSE mpc' = "recv" /\ UNCHANGED cmd

Answering == mpc' = "recv" /\ UNCHANGED cmd

(* The first half of send_cmd_*; a SETUP for neither TCP nor UDP is not    *)
(* sent.                                                                   *)
SendCmd ==
  /\ proc = "up" /\ mpc = "send"
  /\ IF cmd = SETUP /\ over = "NONE"
     THEN NextCommand /\ UNCHANGED <<proc, conn, requests>>
     ELSE Send(cmd, Answering, NextCommand)
  /\ UNCHANGED <<args, stream, dgrams, codec, port, quit, childVars, setup,
                 playing, sent, whole, lost>>

(* The second half: one recv, whatever it returns is taken for the         *)
(* response.                                                               *)
RecvResponse ==
  /\ proc = "up" /\ mpc = "recv"
  /\ \E n \in DOMAIN stream :
       LET text == First(stream, n)
       IN /\ Receive(n)
          /\ IF cmd = DESCRIBE THEN codec' \in Tells(text, DESCRIBE)
                               ELSE UNCHANGED codec
          /\ IF cmd = SETUP /\ over = "UDP"
             THEN \E b \in Tells(text, SETUP) : port' = (port \/ b)
             ELSE UNCHANGED port
          /\ lost' = lost \cup Frames(text)
  /\ NextCommand
  /\ UNCHANGED <<proc, args, conn, dgrams, quit, childVars, srvVars>>

(* Fault: recv is tried again.                                             *)
AfterNothingAgain == UNCHANGED <<mpc, cmd>>

AfterNothing == NextCommand

(* The connection has ended: the next command is tried all the same.       *)
RecvNothing ==
  /\ proc = "up" /\ mpc = "recv"
  /\ ReceiveFails
  /\ AfterNothing
  /\ UNCHANGED <<proc, args, stream, dgrams, codec, port, quit, childVars,
                 srvVars, whole, lost>>

(* The child is started, and ab_rtsp_client_new returns; a SIGINT before   *)
(* this is forgotten, since main sets g_quit to false now.                 *)
StartChild ==
  /\ proc = "up" /\ mpc = "start"
  /\ quit' = FALSE
  /\ cpc' = IF over = "NONE" THEN "done" ELSE "loop"
  /\ mpc' = "run"
  /\ UNCHANGED <<proc, args, netVars, cmd, codec, port, buf, written, srvVars,
                 whole, lost>>

-----------------------------------------------------------------------------
(* main: the end.                                                          *)

(* SIGINT: main leaves its loop and closes the file; fclose(NULL) ends     *)
(* the process.                                                            *)
Interrupt ==
  /\ proc = "up" /\ mpc = "run"
  /\ IF opened THEN mpc' = "teardown" /\ UNCHANGED proc
               ELSE proc' = "crash" /\ UNCHANGED mpc
  /\ UNCHANGED <<args, netVars, cmd, codec, port, quit, childVars,
                 srvVars, whole, lost>>

FileOpen == mpc \in {"connect", "send", "recv", "start", "run"}

(* ab_rtsp_client_free asserts that there is a client, sends TEARDOWN,     *)
(* which asserts that there is a connection, and waits for no response.  *)
SendTeardown ==
  /\ proc = "up" /\ mpc = "teardown"
  /\ LET return == mpc' = "sleep" /\ UNCHANGED cmd
     IN \/ conn = "none" /\ proc' = "abort" /\ UNCHANGED <<conn, requests, mpc, cmd>>
        \/ Send(TEARDOWN, return, return)
  /\ UNCHANGED <<args, stream, dgrams, codec, port, quit, childVars, setup,
                 playing, sent, whole, lost>>

SetQuit ==
  /\ proc = "up" /\ mpc = "sleep"
  /\ quit' = TRUE /\ mpc' = "join"
  /\ UNCHANGED <<proc, args, netVars, cmd, codec, port, childVars, srvVars,
                 whole, lost>>

(* pthread_join returns; the sockets and the object are freed.             *)
Join ==
  /\ proc = "up" /\ mpc = "join" /\ cpc = "done"
  /\ mpc' = "freed"
  /\ UNCHANGED <<proc, args, netVars, cmd, codec, port, quit, childVars,
                 srvVars, whole, lost>>

-----------------------------------------------------------------------------
(* The child thread.                                                       *)

(* Fault: quit is never looked at.                                         *)
EndsNever == FALSE

Ends == quit

ChildLoop ==
  /\ proc = "up" /\ cpc = "loop"
  /\ cpc' = IF Ends THEN "done" ELSE "recv"
  /\ UNCHANGED <<proc, args, netVars, mainVars, buf, written, srvVars, whole, lost>>

(* The assertion of ab_tcp_client_recv, after a failed connect.            *)
ChildAborts ==
  /\ proc = "up" /\ cpc = "recv" /\ over = "TCP" /\ conn = "none"
  /\ proc' = "abort"
  /\ UNCHANGED <<args, netVars, mainVars, childVars, srvVars, whole, lost>>

ChildRecv ==
  /\ proc = "up" /\ cpc = "recv" /\ over = "TCP"
  /\ \E n \in DOMAIN stream : Receive(n) /\ buf' = First(stream, n)
  /\ cpc' = "scan"
  /\ UNCHANGED <<proc, args, conn, dgrams, mainVars, written, srvVars, lost>>

ChildRecvNothing ==
  /\ proc = "up" /\ cpc = "recv" /\ over = "TCP"
  /\ ReceiveFails
  /\ cpc' = "loop"
  /\ UNCHANGED <<proc, args, stream, dgrams, mainVars, buf, written, srvVars,
                 whole, lost>>

(* The inner loop goes on with rest, or ends.                              *)
ScanOn(rest) == buf' = rest /\ cpc' = IF rest = <<>> THEN "loop" ELSE "scan"

(* The callback.  Writing to the closed file is undefined: nothing happens *)
(* or the process dies; without a file nothing is written.  Without a      *)
(* known codec it is not called.                                           *)
Callback(f) ==
  IF codec /\ opened /\ FileOpen
  THEN /\ written' = IF f = Torn /\ written # <<>> /\ written[Len(written)] = Torn
                     THEN written ELSE Append(written, f)
       /\ UNCHANGED <<proc, lost>>
  ELSE /\ proc' \in IF codec /\ opened THEN {"up", "crash"} ELSE {"up"}
       /\ lost' = lost \cup ({f} \ {Torn})
       /\ UNCHANGED written

(* Fault: the loop ends after one frame.                                   *)
AfterFrameNone == <<>>

(* Fault: the length is added to start_pos without the 4 bytes before it.  *)
AfterFrameShort == After(buf, 1)

AfterFrame == After(buf, 2)

(* A whole frame at start_pos.                                             *)
ScanFrame ==
  /\ proc = "up" /\ cpc = "scan"
  /\ Len(buf) > 1 /\ buf[1].kind = "frame" /\ buf[1].half = 1
  /\ Callback(buf[1].id)
  /\ ScanOn(AfterFrame)
  /\ UNCHANGED <<args, netVars, mainVars, srvVars, whole>>

(* A frame of which only the beginning was received: what recv_buf holds   *)
(* behind it is written as its rest.  Its length may be missing as well;   *)
(* with a length read as less than 12 the callback is passed one near      *)
(* 2^32 and the process dies.                                              *)
ScanCutFrame ==
  /\ proc = "up" /\ cpc = "scan"
  /\ Len(buf) = 1 /\ buf[1].kind = "frame" /\ buf[1].half = 1
  /\ \/ Callback(Torn)
     \/ codec /\ proc' = "crash" /\ UNCHANGED <<written, lost>>
  /\ ScanOn(<<>>)
  /\ UNCHANGED <<args, netVars, mainVars, srvVars, whole>>

(* Anything else at start_pos that does not begin with '$': the rest of    *)
(* the buffer is dropped.                                                  *)
ScanForeign ==
  /\ proc = "up" /\ cpc = "scan"
  /\ buf[1].kind = "response" \/ buf[1].half = 2
  /\ ScanOn(<<>>)
  /\ UNCHANGED <<proc, args, netVars, mainVars, written, srvVars, whole, lost>>

(* The middle of a frame that looks like a '$': it is taken for a frame    *)
(* whose length leads anywhere behind it.                                  *)
ScanMistaken ==
  /\ proc = "up" /\ cpc = "scan"
  /\ buf[1].kind = "frame" /\ buf[1].half = 2
  /\ \/ Callback(Torn)
     \/ codec /\ proc' = "crash" /\ UNCHANGED <<written, lost>>
  /\ \E n \in DOMAIN buf : ScanOn(After(buf, n))
  /\ UNCHANGED <<args, netVars, mainVars, srvVars, whole>>

(* One turn of process_rtp_over_udp: a datagram from another port than the *)
(* one the server told is dropped.                                         *)
ChildRecvUdp ==
  /\ proc = "up" /\ cpc = "recv" /\ over = "UDP"
  /\ \E d \in dgrams :
       /\ dgrams' = dgrams \ {d}
       /\ IF port THEN Callback(d)
                  ELSE lost' = lost \cup {d} /\ UNCHANGED <<proc, written>>
  /\ cpc' = "loop"
  /\ UNCHANGED <<args, conn, stream, mainVars, buf, srvVars, whole>>

-----------------------------------------------------------------------------
(* The server and the network.                                             *)

(* The looper receives what has arrived of the requests, and looks at the  *)
(* first; it answers all of them but TEARDOWN.                             *)
ServerAnswer ==
  /\ conn = "open" /\ requests # <<>>
  /\ \E n \in DOMAIN requests : requests' = After(requests, n)
  /\ LET c == requests[1]
     IN /\ setup' = (setup \/ c = SETUP)
        /\ playing' = CASE c = PLAY -> TRUE [] c = TEARDOWN -> FALSE
                        [] OTHER -> playing
        /\ stream' = IF c = TEARDOWN THEN stream ELSE stream \o Item("response", c)
  /\ UNCHANGED <<proc, args, conn, dgrams, mainVars, childVars, sent, whole, lost>>

ServerFrame ==
  /\ conn = "open" /\ setup /\ playing /\ sent < MaxFrames
  /\ sent' = sent + 1
  /\ IF over = "TCP" THEN stream' = stream \o Item("frame", sent') /\ UNCHANGED dgrams
                     ELSE dgrams' = dgrams \cup {sent'} /\ UNCHANGED stream
  /\ UNCHANGED <<proc, args, conn, mainVars, childVars, requests, setup, playing,
                 whole, lost>>

ServerCloses ==
  /\ conn = "open"
  /\ conn' \in {"fin", "rst"}
  /\ UNCHANGED <<proc, args, stream, dgrams, mainVars, childVars, srvVars, whole, lost>>

Lose ==
  /\ \E d \in dgrams : dgrams' = dgrams \ {d} /\ lost' = lost \cup {d}
  /\ UNCHANGED <<proc, args, conn, stream, mainVars, childVars, srvVars, whole>>

-----------------------------------------------------------------------------
Main == Connect \/ BindFails \/ RefuseAddress \/ SendCmd \/ RecvResponse
          \/ RecvNothing \/ StartChild \/ SendTeardown \/ SetQuit \/ Join
Child == ChildLoop \/ ChildAborts \/ ChildRecv \/ ChildRecvNothing \/ ScanFrame
           \/ ScanCutFrame \/ ScanForeign \/ ScanMistaken \/ ChildRecvUdp

Next == Main \/ Interrupt \/ Child \/ ServerAnswer \/ ServerFrame
          \/ ServerCloses \/ Lose

Spec == Init /\ [][Next]_vars

(* Both threads make their steps, and the server reads what it is sent     *)
(* (RequestsRead of RtspServer).  It need not send a frame.                *)
FairSpec == Spec /\ WF_vars(Main) /\ WF_vars(Child) /\ WF_vars(ServerAnswer)

-----------------------------------------------------------------------------
(* Each command takes its response for its own only because there is one   *)
(* recv for each: as long as each recv returned a whole response, the      *)
(* client knows the codec (from DESCRIBE) and the server's port (from      *)
(* SETUP) before the server streams.                                       *)
SessionReady ==
  whole /\ (playing \/ sent > 0) => codec /\ (over = "UDP" => port)

(* As long as each recv ended where a frame ends: every frame is written   *)
(* once, over TCP in order, except those that came with the response to    *)
(* PLAY, that the network dropped, or that came without an open file.      *)
NothingElseLost ==
  whole =>
    /\ {written[i] : i \in DOMAIN written} \cup Frames(buf) \cup Frames(stream)
         \cup dgrams \cup lost = 1 .. sent
    /\ \A i, j \in DOMAIN written :
         i < j => IF over = "TCP" THEN written[i] < written[j]
                                  ELSE written[i] # written[j]

(* The process dies only for a named reason.  It crashes when fclose is    *)
(* given no file; and, once the codec is known, when over TCP a recv has   *)
(* ended within an item, or when a packet comes between fclose and the end *)
(* of the child: never while the recvs were whole and the file is open.    *)
(* An assertion fails only in a client that never had a connection, for    *)
(* want of UDP ports, in the first recv of the child or in the TEARDOWN:   *)
(* no server that accepted the connection makes one fail.  SIGPIPE comes   *)
(* only when main writes to a connection whose reset an earlier call has   *)
(* reported, thus never with the first command, and never in the child.    *)
EndsOnlyForCause ==
  /\ proc = "crash" =>
       \/ mpc = "run" /\ ~opened
       \/ mpc \in {"run", "teardown", "sleep", "join"}
            /\ codec /\ over = "TCP" /\ ~whole
       \/ mpc \in {"teardown", "sleep", "join"} /\ codec /\ opened
  /\ proc = "abort" =>
       /\ conn = "none" /\ requests = <<>> /\ sent = 0 /\ written = <<>>
       /\ IF mpc = "connect" THEN over = "UDP" ELSE over = "TCP" \/ mpc = "teardown"
  /\ proc = "sigpipe" =>
       conn = "dead" /\ mpc \in {"send", "teardown"} /\ cmd # OPTIONS

(* ab_rtsp_client_new returns, also when the connection ends between two   *)
(* commands, unless SIGPIPE ends the process or a response came in pieces  *)
(* and the answers got out of step.                                        *)
CommandsComplete ==
  <>(proc # "up" \/ ~whole \/ mpc \notin {"connect", "send", "recv"})

(* ab_rtsp_client_free returns, except for one reason: the child waits in  *)
(* recv, without a timeout, for data that does not come.  In particular it *)
(* returns when the server has closed the connection over TCP.             *)
ChildWaits ==
  cpc = "recv" /\ IF over = "TCP" THEN conn = "open" /\ stream = <<>>
                                  ELSE dgrams = {}
FreeReturns ==
  <>[](proc = "up" /\ mpc = "join") => <>[]ChildWaits
=============================================================================
