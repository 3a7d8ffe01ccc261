--------------------------- MODULE MediaBroadcast ---------------------------
(***************************************************************************)
(* What the streaming side of ab_rtsp_server promises the clients: one     *)
(* numbered sequence of packets, each published at one instant to all the  *)
(* clients that play.                                                      *)
(***************************************************************************)
EXTENDS Naturals

CONSTANTS
  Subscriber,  \* the clients that may play
  SeqMod,      \* packets are numbered modulo this
  NoSeq        \* "nothing received since it plays"

VARIABLES
  next,        \* the number of the next packet
  playing,     \* the clients that play
  last         \* the last packet each client that plays was given

vars == <<next, playing, last>>

Init ==
  /\ next = 0
  /\ playing = {}
  /\ last = [s \in Subscriber |-> NoSeq]

(* The next packet goes to everyone that plays.                            *)
Publish ==
  /\ last' = [s \in Subscriber |-> IF s \in playing THEN next ELSE last[s]]
  /\ next' = (next + 1) % SeqMod
  /\ UNCHANGED playing

Join(s) ==
  /\ s \notin playing
  /\ playing' = playing \cup {s}
  /\ UNCHANGED <<next, last>>

Leave(s) ==
  /\ s \in playing
  /\ playing' = playing \ {s}
  /\ last' = [last EXCEPT ![s] = NoSeq]
  /\ UNCHANGED next

Next == Publish \/ \E s \in Subscriber : Join(s) \/ Leave(s)

Spec == Init /\ [][Next]_vars
=============================================================================
