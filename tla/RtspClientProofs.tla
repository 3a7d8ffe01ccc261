-------------------------- MODULE RtspClientProofs --------------------------
(***************************************************************************)
(* The safety properties of RtspClient hold for every number of frames.    *)
(* IInv is the inductive invariant all of them follow from: as long as     *)
(* every recv has ended where a response or a frame ends, client and       *)
(* server are in step, and the stream and the buffer hold whole items.     *)
(***************************************************************************)
EXTENDS RtspClient, SequenceTheorems, TLAPS

(* The parts of s are whole items: each first half is followed by its      *)
(* second half, each second half follows a first one.                      *)
Paired(s) ==
  \A i \in 1 .. Len(s) :
    /\ s[i].half = 1 => /\ i < Len(s) /\ s[i + 1].half = 2
                        /\ s[i + 1].kind = s[i].kind /\ s[i + 1].id = s[i].id
    /\ s[i].half = 2 => i > 1 /\ s[i - 1].half = 1

OnlyFrames(s) == \A i \in DOMAIN s : s[i].kind = "frame"

(* The numbers of the frames in s increase.                                *)
Ordered(s) ==
  \A i, j \in DOMAIN s :
    i < j /\ s[i].kind = "frame" /\ s[j].kind = "frame" =>
      /\ s[i].id <= s[j].id
      /\ s[j].half = 1 => s[i].id < s[j].id

(* Every frame in s comes before every frame in t.                         *)
Precedes(s, t) ==
  \A i \in DOMAIN s, j \in DOMAIN t :
    s[i].kind = "frame" /\ t[j].kind = "frame" => s[i].id < t[j].id

(* What stands in the stream is the response to cmd, with frames behind it *)
(* if cmd is PLAY.                                                         *)
Answered ==
  /\ Len(stream) > 1
  /\ \A h \in 1 .. 2 : stream[h] = Item("response", cmd)[h]
  /\ \A i \in DOMAIN stream : i > 2 => stream[i].kind = "frame"
  /\ cmd # PLAY => Len(stream) = 2

(* Where the threads are.                                                  *)
ControlInv ==
  /\ mpc = "connect" => conn = "none" /\ stream = <<>> /\ requests = <<>>
                          /\ cmd = OPTIONS
  /\ FileOpen /\ mpc # "run" => cpc = "none" /\ written = <<>>
  /\ cpc = "scan" <=> buf # <<>>
  /\ cpc = "scan" => over = "TCP"

(* PLAY is the last command: nothing is streamed before it was sent.       *)
PlayInv ==
  playing \/ sent > 0 \/ (\E i \in DOMAIN requests : requests[i] = PLAY) =>
    cmd = PLAY /\ mpc \notin {"connect", "send"}

(* Each recv of a command takes the response to it.                        *)
StepInv ==
  whole =>
    /\ mpc = "send" => stream = <<>>
    /\ mpc = "recv" => stream = <<>> \/ Answered
    /\ mpc # "recv" => OnlyFrames(stream)
    /\ OnlyFrames(buf)
    /\ conn = "open" =>
         /\ mpc = "send" => requests = <<>>
         /\ mpc = "recv" => \/ requests = <<cmd>> /\ stream = <<>>
                               /\ ~playing /\ sent = 0
                            \/ requests = <<>> /\ Answered
         /\ mpc # "recv" => \A i \in DOMAIN requests : requests[i] = TEARDOWN

(* What the responses have told.                                           *)
KnownInv ==
  whole /\ (conn = "open" \/ playing \/ sent > 0) =>
    /\ cmd > DESCRIBE => codec
    /\ cmd > SETUP /\ over = "UDP" => port

PairInv == whole => Paired(stream) /\ Paired(buf)

(* Over TCP the frames come in order through the stream and the buffer;    *)
(* over UDP a datagram is received once.                                   *)
OrderInv ==
  whole =>
    /\ over = "TCP" =>
         /\ Ordered(stream) /\ Ordered(buf) /\ Precedes(buf, stream)
         /\ \A k \in DOMAIN written :
              /\ \A i \in DOMAIN buf : buf[i].kind = "frame" => written[k] < buf[i].id
              /\ \A i \in DOMAIN stream : stream[i].kind = "frame" => written[k] < stream[i].id
    /\ over # "TCP" => \A k \in DOMAIN written : written[k] \notin dgrams

IInv ==
  /\ TypeOK
  /\ ControlInv
  /\ PlayInv
  /\ StepInv
  /\ KnownInv
  /\ PairInv
  /\ OrderInv
  /\ NothingElseLost

-----------------------------------------------------------------------------
(* Sequences of parts.                                                     *)

(* What a part is.                                                         *)
LEMMA PartFields ==
  ASSUME NEW p \in Part
  PROVE  /\ p.half \in {1, 2} /\ p.kind \in {"response", "frame"} /\ p.id \in Nat
         /\ p.kind = "frame" => p.id \in Frame
         /\ p.kind = "response" => p.id \in Command
BY ClientAssumption DEF Part, Frame, Command, OPTIONS, PLAY

(* What First and After return.                                            *)
LEMMA Cut ==
  ASSUME NEW s \in Seq(Part), NEW n \in DOMAIN s
  PROVE  /\ First(s, n) \in Seq(Part) /\ Len(First(s, n)) = n
         /\ \A i \in 1 .. n : First(s, n)[i] = s[i]
         /\ After(s, n) \in Seq(Part) /\ Len(After(s, n)) = Len(s) - n
         /\ \A i \in 1 .. Len(s) - n : After(s, n)[i] = s[n + i]
<1>1. n \in 1 .. Len(s) /\ Len(s) \in Nat /\ \A i \in 1 .. Len(s) : s[i] \in Part
  OBVIOUS
<1>2. First(s, n) \in Seq(Part) /\ Len(First(s, n)) = n
      /\ \A i \in 1 .. n : First(s, n)[i] = s[i]
  <2>1. \A i \in 1 .. n : s[i] \in Part
    BY <1>1
  <2>2. /\ SubSeq(s, 1, n) \in Seq(Part)
        /\ Len(SubSeq(s, 1, n)) = IF 1 <= n THEN n - 1 + 1 ELSE 0
        /\ \A i \in 1 .. n - 1 + 1 : SubSeq(s, 1, n)[i] = s[1 + i - 1]
    BY <1>1, <2>1, SubSeqProperties
  <2> QED BY <1>1, <2>2 DEF First
<1>3. After(s, n) \in Seq(Part) /\ Len(After(s, n)) = Len(s) - n
      /\ \A i \in 1 .. Len(s) - n : After(s, n)[i] = s[n + i]
  <2>1. \A i \in n + 1 .. Len(s) : s[i] \in Part
    BY <1>1
  <2>2. /\ SubSeq(s, n + 1, Len(s)) \in Seq(Part)
        /\ Len(SubSeq(s, n + 1, Len(s)))
             = IF n + 1 <= Len(s) THEN Len(s) - (n + 1) + 1 ELSE 0
        /\ \A i \in 1 .. Len(s) - (n + 1) + 1 :
             SubSeq(s, n + 1, Len(s))[i] = s[n + 1 + i - 1]
    BY <1>1, <2>1, SubSeqProperties
  <2> QED BY <1>1, <2>2 DEF After
<1> QED BY <1>2, <1>3

(* An item has two halves.                                                 *)
LEMMA ItemHalves ==
  ASSUME NEW kind, NEW n
  PROVE  /\ Item(kind, n)[1] = [kind |-> kind, id |-> n, half |-> 1]
         /\ Item(kind, n)[2] = [kind |-> kind, id |-> n, half |-> 2]
         /\ \A h \in 1 .. 2 : /\ Item(kind, n)[h].kind = kind
                              /\ Item(kind, n)[h].id = n
                              /\ Item(kind, n)[h].half = h
BY DEF Item

(* What stands in a stream to which an item is added.                      *)
LEMMA AddItem ==
  ASSUME NEW s \in Seq(Part), NEW kind, NEW n,
         Item(kind, n)[1] \in Part, Item(kind, n)[2] \in Part
  PROVE  LET t == s \o Item(kind, n)
         IN /\ t \in Seq(Part) /\ Len(t) = Len(s) + 2
            /\ \A i \in 1 .. Len(s) : t[i] = s[i]
            /\ t[Len(s) + 1] = Item(kind, n)[1] /\ t[Len(s) + 2] = Item(kind, n)[2]
            /\ \A h \in 1 .. 2 : /\ t[Len(s) + h].kind = kind
                                 /\ t[Len(s) + h].id = n
                                 /\ t[Len(s) + h].half = h
<1> DEFINE u == Item(kind, n)
<1>1. u \in Seq(Part) /\ Len(u) = 2
  <2>1. u = <<u[1], u[2]>>
    BY DEF Item
  <2> HIDE DEF u
  <2>2. <<u[1], u[2]>> \in Seq(Part) /\ Len(<<u[1], u[2]>>) = 2
    BY DEF u
  <2> QED BY <2>1, <2>2
<1> HIDE DEF u
<1>2. /\ s \o u \in Seq(Part) /\ Len(s \o u) = Len(s) + Len(u)
      /\ \A i \in 1 .. Len(s) + Len(u) :
           (s \o u)[i] = IF i <= Len(s) THEN s[i] ELSE u[i - Len(s)]
  BY <1>1, ConcatProperties
<1>3. Len(s) \in Nat
  OBVIOUS
<1>4. \A h \in 1 .. 2 : (s \o u)[Len(s) + h] = u[h]
  BY <1>1, <1>2, <1>3
<1>5. \A h \in 1 .. 2 : u[h].kind = kind /\ u[h].id = n /\ u[h].half = h
  BY DEF u, Item
<1>6. /\ s \o u \in Seq(Part) /\ Len(s \o u) = Len(s) + 2
      /\ \A i \in 1 .. Len(s) : (s \o u)[i] = s[i]
  BY <1>1, <1>2, <1>3
<1>7. (s \o u)[Len(s) + 1] = u[1] /\ (s \o u)[Len(s) + 2] = u[2]
  <2>1. Len(s) + 1 \in 1 .. Len(s) + Len(u) /\ Len(s) + 2 \in 1 .. Len(s) + Len(u)
    BY <1>1, <1>3
  <2> QED BY <1>2, <1>3, <2>1
<1> QED BY <1>4, <1>5, <1>6, <1>7 DEF u

(* Both halves of whole items are cut off, or none.                        *)
LEMMA CutPaired ==
  ASSUME NEW s \in Seq(Part), NEW n \in DOMAIN s, Paired(s), s[n].half = 2
  PROVE  Paired(First(s, n)) /\ Paired(After(s, n))
<1>1. n \in 1 .. Len(s) /\ Len(s) \in Nat
  OBVIOUS
<1>2. Paired(First(s, n))
  <2> DEFINE t == First(s, n)
  <2>1. Len(t) = n /\ \A i \in 1 .. n : t[i] = s[i]
    BY Cut
  <2> HIDE DEF t
  <2> QED BY <1>1, <2>1 DEF Paired, t
<1>3. Paired(After(s, n))
  <2> DEFINE t == After(s, n)
             m == Len(s) - n
  <2>1. m \in Nat /\ Len(t) = m /\ \A i \in 1 .. m : t[i] = s[n + i]
    BY SMTT(30), <1>1, Cut
  <2> HIDE DEF t
  <2>2. ASSUME NEW i \in 1 .. m
        PROVE  /\ t[i].half = 1 => /\ i < m /\ t[i + 1].half = 2
                                   /\ t[i + 1].kind = t[i].kind
                                   /\ t[i + 1].id = t[i].id
               /\ t[i].half = 2 => i > 1 /\ t[i - 1].half = 1
    <3> DEFINE j == n + i
    <3>1. j \in 1 .. Len(s) /\ j > n
      BY <1>1
    <3>2. /\ s[j].half = 1 => /\ j < Len(s) /\ s[j + 1].half = 2
                              /\ s[j + 1].kind = s[j].kind /\ s[j + 1].id = s[j].id
          /\ s[j].half = 2 => j > 1 /\ s[j - 1].half = 1
      BY <3>1 DEF Paired
    <3>3. t[i] = s[j]
      BY <2>1
    <3>4. i < m => t[i + 1] = s[j + 1]
      <4> SUFFICES ASSUME i < m PROVE t[i + 1] = s[j + 1]
        OBVIOUS
      <4>1. i + 1 \in 1 .. m /\ n + (i + 1) = j + 1
        BY <1>1, <2>1
      <4> QED BY <2>1, <4>1
    <3>5. i > 1 => t[i - 1] = s[j - 1]
      <4> SUFFICES ASSUME i > 1 PROVE t[i - 1] = s[j - 1]
        OBVIOUS
      <4>1. i - 1 \in 1 .. m /\ n + (i - 1) = j - 1
        BY <1>1, <2>1
      <4> QED BY <2>1, <4>1
    <3>6. i = 1 => s[j - 1].half = 2
      <4>1. i = 1 => j - 1 = n
        BY <1>1
      <4> QED BY <4>1
    <3>7. (i = 1 \/ i > 1) /\ (j < Len(s) => i < m)
      BY <1>1, <2>1
    <3> HIDE DEF j, m
    <3>8. ASSUME t[i].half = 1
          PROVE  /\ i < m /\ t[i + 1].half = 2
                 /\ t[i + 1].kind = t[i].kind /\ t[i + 1].id = t[i].id
      BY <3>8, <3>2, <3>3, <3>4, <3>7
    <3>9. ASSUME t[i].half = 2
          PROVE  i > 1 /\ t[i - 1].half = 1
      BY <3>9, <3>2, <3>3, <3>5, <3>6, <3>7
    <3> QED BY <3>8, <3>9
  <2> QED BY <2>1, <2>2 DEF Paired, t
<1> QED BY <1>2, <1>3

(* A stream of whole items stays one when an item is added.                *)
LEMMA AddPaired ==
  ASSUME NEW s \in Seq(Part), NEW kind, NEW n, Paired(s),
         Item(kind, n)[1] \in Part, Item(kind, n)[2] \in Part
  PROVE  Paired(s \o Item(kind, n))
<1> DEFINE t == s \o Item(kind, n)
<1>1. /\ t \in Seq(Part) /\ Len(t) = Len(s) + 2 /\ Len(s) \in Nat
      /\ \A i \in 1 .. Len(s) : t[i] = s[i]
      /\ t[Len(s) + 1].half = 1 /\ t[Len(s) + 2].half = 2
      /\ t[Len(s) + 2].kind = t[Len(s) + 1].kind
      /\ t[Len(s) + 2].id = t[Len(s) + 1].id
  <2>1. /\ t \in Seq(Part) /\ Len(t) = Len(s) + 2
        /\ \A i \in 1 .. Len(s) : t[i] = s[i]
        /\ t[Len(s) + 1] = Item(kind, n)[1] /\ t[Len(s) + 2] = Item(kind, n)[2]
    BY AddItem
  <2> HIDE DEF t
  <2>2. /\ Item(kind, n)[1].half = 1 /\ Item(kind, n)[2].half = 2
        /\ Item(kind, n)[2].kind = Item(kind, n)[1].kind
        /\ Item(kind, n)[2].id = Item(kind, n)[1].id
    BY DEF Item
  <2>3. Len(s) \in Nat
    OBVIOUS
  <2> QED BY <2>1, <2>2, <2>3
<1> HIDE DEF t
<1>2. ASSUME NEW i \in 1 .. Len(s) + 2
      PROVE  /\ t[i].half = 1 => /\ i < Len(s) + 2 /\ t[i + 1].half = 2
                                 /\ t[i + 1].kind = t[i].kind /\ t[i + 1].id = t[i].id
             /\ t[i].half = 2 => i > 1 /\ t[i - 1].half = 1
  <2>1. CASE i \in 1 .. Len(s)
    BY SMTT(30), <1>1, <2>1 DEF Paired
  <2>2. CASE i = Len(s) + 1
    BY <1>1, <2>2
  <2>3. CASE i = Len(s) + 2
    BY <1>1, <2>3
  <2> QED BY <1>1, <2>1, <2>2, <2>3
<1> QED BY <1>1, <1>2 DEF Paired, t

(* The frames of s are those of its two parts.                             *)
LEMMA CutFrames ==
  ASSUME NEW s \in Seq(Part), NEW n \in DOMAIN s
  PROVE  Frames(s) = Frames(First(s, n)) \cup Frames(After(s, n))
<1> DEFINE f == First(s, n)
           a == After(s, n)
<1>1. /\ n \in 1 .. Len(s) /\ Len(s) \in Nat /\ DOMAIN s = 1 .. Len(s)
      /\ DOMAIN f = 1 .. n /\ \A i \in 1 .. n : f[i] = s[i]
      /\ DOMAIN a = 1 .. Len(s) - n /\ \A i \in 1 .. Len(s) - n : a[i] = s[n + i]
  BY Cut
<1> HIDE DEF f, a
<1>2. ASSUME NEW x \in Frames(s) PROVE x \in Frames(f) \cup Frames(a)
  <2>1. PICK i \in 1 .. Len(s) : s[i].kind = "frame" /\ s[i].id = x
    BY <1>1, <1>2 DEF Frames
  <2>2. CASE i <= n
    BY SMTT(30), <1>1, <2>1, <2>2 DEF Frames
  <2>3. CASE i > n
    <3>1. i - n \in DOMAIN a /\ a[i - n] = s[n + (i - n)] /\ n + (i - n) = i
      BY <1>1, <2>3
    <3> QED BY <2>1, <3>1 DEF Frames
  <2> QED BY <1>1, <2>2, <2>3
<1>3. ASSUME NEW x \in Frames(f) PROVE x \in Frames(s)
  BY <1>1, <1>3 DEF Frames
<1>4. ASSUME NEW x \in Frames(a) PROVE x \in Frames(s)
  <2>1. PICK i \in 1 .. Len(s) - n : a[i].kind = "frame" /\ a[i].id = x
    BY <1>1, <1>4 DEF Frames
  <2>2. n + i \in DOMAIN s /\ a[i] = s[n + i]
    BY <1>1
  <2> QED BY <2>1, <2>2 DEF Frames
<1> QED BY <1>2, <1>3, <1>4 DEF f, a

(* An item adds its frame, if it is one.                                   *)
LEMMA AddFrames ==
  ASSUME NEW s \in Seq(Part), NEW kind, NEW n,
         Item(kind, n)[1] \in Part, Item(kind, n)[2] \in Part
  PROVE  Frames(s \o Item(kind, n))
           = Frames(s) \cup IF kind = "frame" THEN {n} ELSE {}
<1> DEFINE t == s \o Item(kind, n)
<1>1. /\ DOMAIN t = 1 .. Len(s) + 2 /\ DOMAIN s = 1 .. Len(s) /\ Len(s) \in Nat
      /\ \A i \in 1 .. Len(s) : t[i] = s[i]
      /\ \A h \in 1 .. 2 : t[Len(s) + h].kind = kind /\ t[Len(s) + h].id = n
  BY AddItem
<1> HIDE DEF t
<1>2. /\ t[Len(s) + 1].kind = kind /\ t[Len(s) + 1].id = n
      /\ t[Len(s) + 2].kind = kind /\ t[Len(s) + 2].id = n
  BY <1>1
<1>3. ASSUME NEW x \in Frames(t)
      PROVE  x \in Frames(s) \cup IF kind = "frame" THEN {n} ELSE {}
  <2>1. PICK i \in 1 .. Len(s) + 2 : t[i].kind = "frame" /\ t[i].id = x
    BY <1>1, <1>3 DEF Frames
  <2>2. CASE i \in 1 .. Len(s)
    BY <1>1, <2>1, <2>2 DEF Frames
  <2>3. CASE i \in {Len(s) + 1, Len(s) + 2}
    BY <1>2, <2>1, <2>3
  <2> QED BY <1>1, <2>2, <2>3
<1>4. ASSUME NEW x \in Frames(s) PROVE x \in Frames(t)
  <2>1. PICK i \in 1 .. Len(s) : s[i].kind = "frame" /\ s[i].id = x
    BY <1>1, <1>4 DEF Frames
  <2>2. i \in DOMAIN t /\ t[i] = s[i]
    BY <1>1
  <2> QED BY <2>1, <2>2 DEF Frames
<1>5. kind = "frame" => n \in Frames(t)
  <2>1. Len(s) + 1 \in DOMAIN t
    BY <1>1
  <2> QED BY <1>2, <2>1 DEF Frames
<1> QED BY <1>3, <1>4, <1>5 DEF t

(* The frame at the front of whole items is the only one that goes when    *)
(* the first item is taken away.                                           *)
LEMMA DropFrames ==
  ASSUME NEW s \in Seq(Part), Paired(s), Len(s) > 1,
         s[1].kind = "frame", s[1].half = 1
  PROVE  /\ 2 \in DOMAIN s /\ s[2].half = 2
         /\ Frames(s) = {s[1].id} \cup Frames(After(s, 2))
<1>1. 1 \in 1 .. Len(s) /\ 2 \in 1 .. Len(s) /\ DOMAIN s = 1 .. Len(s)
  OBVIOUS
<1>2. s[2].half = 2 /\ s[2].kind = "frame" /\ s[2].id = s[1].id
  BY <1>1 DEF Paired
<1>3. Frames(First(s, 2)) = {s[1].id}
  <2>1. /\ DOMAIN First(s, 2) = 1 .. 2
        /\ First(s, 2)[1] = s[1] /\ First(s, 2)[2] = s[2]
    <3>1. /\ First(s, 2) \in Seq(Part) /\ Len(First(s, 2)) = 2
          /\ \A i \in 1 .. 2 : First(s, 2)[i] = s[i]
      BY <1>1, Cut
    <3> HIDE DEF First
    <3> QED BY <3>1
  <2>2. ASSUME NEW x \in Frames(First(s, 2)) PROVE x = s[1].id
    BY <1>2, <2>1, <2>2 DEF Frames
  <2>3. 1 \in DOMAIN First(s, 2) /\ First(s, 2)[1].kind = "frame"
    BY <2>1
  <2>4. s[1].id \in Frames(First(s, 2))
    BY <2>1, <2>3 DEF Frames
  <2> QED BY <2>2, <2>4
<1> QED BY <1>1, <1>2, <1>3, CutFrames

(* Cutting whole items in order gives two parts in order, one before the   *)
(* other.                                                                  *)
LEMMA CutOrdered ==
  ASSUME NEW s \in Seq(Part), NEW n \in DOMAIN s, Paired(s), s[n].half = 2,
         Ordered(s)
  PROVE  /\ Ordered(First(s, n)) /\ Ordered(After(s, n))
         /\ Precedes(First(s, n), After(s, n))
<1> DEFINE f == First(s, n)
           a == After(s, n)
<1>1. /\ n \in 1 .. Len(s) /\ Len(s) \in Nat /\ DOMAIN s = 1 .. Len(s)
      /\ DOMAIN f = 1 .. n /\ \A i \in 1 .. n : f[i] = s[i]
      /\ DOMAIN a = 1 .. Len(s) - n /\ \A i \in 1 .. Len(s) - n : a[i] = s[n + i]
  BY Cut
<1> HIDE DEF f, a
<1>2. Ordered(f)
  BY <1>1 DEF Ordered
<1>3. Ordered(a)
  <2> SUFFICES ASSUME NEW i \in DOMAIN a, NEW j \in DOMAIN a, i < j,
                      a[i].kind = "frame", a[j].kind = "frame"
               PROVE  a[i].id <= a[j].id /\ (a[j].half = 1 => a[i].id < a[j].id)
    BY DEF Ordered
  <2>1. /\ n + i \in DOMAIN s /\ n + j \in DOMAIN s /\ n + i < n + j
        /\ a[i] = s[n + i] /\ a[j] = s[n + j]
    BY <1>1
  <2> QED BY <2>1 DEF Ordered
<1>4. Precedes(f, a)
  <2> SUFFICES ASSUME NEW i \in DOMAIN f, NEW j \in DOMAIN a,
                      f[i].kind = "frame", a[j].kind = "frame"
               PROVE  f[i].id < a[j].id
    BY DEF Precedes
  <2> DEFINE k == n + j
  <2>1. i \in DOMAIN s /\ k \in DOMAIN s /\ i < k /\ f[i] = s[i] /\ a[j] = s[k] /\ k > n
    BY <1>1
  <2> HIDE DEF k
  <2>2. CASE s[k].half = 1
    BY <2>1, <2>2 DEF Ordered
  <2>3. CASE s[k].half = 2
    <3>1. k > 1 /\ k - 1 \in 1 .. Len(s) /\ s[k - 1].half = 1
      BY <1>1, <2>1, <2>3 DEF Paired
    <3>2. k - 1 # n
      BY <3>1
    <3>3. i < k - 1
      BY <1>1, <2>1, <3>1, <3>2
    <3>4. s[k - 1 + 1].kind = s[k - 1].kind /\ s[k - 1 + 1].id = s[k - 1].id
      BY <3>1 DEF Paired
    <3>5. k - 1 + 1 = k
      BY <1>1, <2>1
    <3>6. s[i].id < s[k - 1].id
      BY <1>1, <2>1, <3>1, <3>3, <3>4, <3>5 DEF Ordered
    <3> QED BY <2>1, <3>4, <3>5, <3>6
  <2>4. s[k] \in Part
    BY <2>1
  <2> QED BY <2>2, <2>3, <2>4, PartFields
<1> QED BY <1>2, <1>3, <1>4 DEF f, a

(* A new frame comes last.                                                 *)
LEMMA AddOrdered ==
  ASSUME NEW s \in Seq(Part), NEW n \in Frame, Ordered(s),
         \A x \in Frames(s) : x < n
  PROVE  Ordered(s \o Item("frame", n))
<1> DEFINE t == s \o Item("frame", n)
<1>1. Item("frame", n)[1] \in Part /\ Item("frame", n)[2] \in Part
  BY DEF Item, Part
<1>2. /\ DOMAIN t = 1 .. Len(s) + 2 /\ DOMAIN s = 1 .. Len(s) /\ Len(s) \in Nat
      /\ \A i \in 1 .. Len(s) : t[i] = s[i]
      /\ \A h \in 1 .. 2 : t[Len(s) + h].id = n /\ t[Len(s) + h].half = h
  BY <1>1, AddItem
<1> HIDE DEF t
<1>3. \A i \in 1 .. Len(s) : t[i].kind = "frame" => t[i].id < n
  BY <1>2 DEF Frames
<1>4. n \in Int
  BY DEF Frame
<1>5. ASSUME NEW i \in DOMAIN t, NEW j \in DOMAIN t, i < j,
             t[i].kind = "frame", t[j].kind = "frame"
      PROVE  t[i].id <= t[j].id /\ (t[j].half = 1 => t[i].id < t[j].id)
  <2>1. CASE j \in 1 .. Len(s)
    <3>1. i \in 1 .. Len(s)
      BY <1>2, <1>5, <2>1
    <3> QED BY <1>2, <1>5, <2>1, <3>1 DEF Ordered
  <2>2. CASE j = Len(s) + 1
    <3>1. i \in 1 .. Len(s)
      BY <1>2, <1>5, <2>2
    <3> QED BY <1>2, <1>3, <1>4, <1>5, <2>2, <3>1, PartFields
  <2>3. CASE j = Len(s) + 2
    <3>1. i \in 1 .. Len(s) \/ i = Len(s) + 1
      BY <1>2, <1>5, <2>3
    <3> QED BY <1>2, <1>3, <1>4, <1>5, <2>3, <3>1, PartFields
  <2> QED BY <1>2, <2>1, <2>2, <2>3
<1> QED BY <1>5 DEF Ordered, t

-----------------------------------------------------------------------------
(* The steps.                                                              *)

(* While the child scans, its buffer holds a part; as long as every recv   *)
(* ended where an item ends, a whole frame stands at start_pos.            *)
LEMMA ScanBuf ==
  ASSUME IInv, cpc = "scan"
  PROVE  /\ over = "TCP" /\ buf \in Seq(Part) /\ Len(buf) \in Nat /\ Len(buf) > 0
         /\ DOMAIN buf = 1 .. Len(buf) /\ buf[1] \in Part
         /\ whole => Len(buf) > 1 /\ buf[1].kind = "frame" /\ buf[1].half = 1
<1>1. over = "TCP" /\ buf \in Seq(Part) /\ buf # <<>>
  BY DEF IInv, TypeOK, ControlInv
<1>2. Len(buf) \in Nat /\ Len(buf) > 0 /\ DOMAIN buf = 1 .. Len(buf)
  BY <1>1, EmptySeq
<1>3. 1 \in 1 .. Len(buf) /\ buf[1] \in Part
  BY <1>1, <1>2
<1>4. ASSUME whole PROVE Len(buf) > 1 /\ buf[1].kind = "frame" /\ buf[1].half = 1
  <2>1. buf[1].kind = "frame"
    BY <1>2, <1>3, <1>4 DEF IInv, StepInv, OnlyFrames
  <2>2. Paired(buf)
    BY <1>4 DEF IInv, PairInv
  <2>3. buf[1].half # 2
    BY <1>3, <2>2 DEF Paired
  <2>4. buf[1].half = 1
    BY <1>3, <2>3, PartFields
  <2> QED BY <1>3, <2>1, <2>2, <2>4 DEF Paired
<1> QED BY <1>1, <1>2, <1>3, <1>4

(* What the callback leaves of the types, and why it may kill the process. *)
LEMMA CallbackType ==
  ASSUME TypeOK, NEW f \in Frame \cup {Torn}, Callback(f), proc = "up"
  PROVE  /\ written' \in Seq(Frame \cup {Torn}) /\ lost' \subseteq Frame
         /\ proc' \in {"up", "crash"}
         /\ proc' = "crash" => ~FileOpen
<1>1. written \in Seq(Frame \cup {Torn}) /\ lost \subseteq Frame
  BY DEF TypeOK
<1>2. Append(written, f) \in Seq(Frame \cup {Torn})
  BY <1>1
<1>3. written' \in {written, Append(written, f)}
  BY DEF Callback
<1>4. lost' \subseteq Frame
  BY <1>1 DEF Callback
<1>5. proc' \in {"up", "crash"} /\ (proc' = "crash" => ~FileOpen)
  BY DEF Callback
<1> QED BY <1>1, <1>2, <1>3, <1>4, <1>5
  
(* When the buffer does not begin with a whole frame a recv has ended      *)
(* within an item, and little is left to keep.                             *)
LEMMA AstrayKeepsIInv ==
  ASSUME IInv, ScanCutFrame \/ ScanForeign \/ ScanMistaken
  PROVE  IInv'
<1>1. proc = "up" /\ cpc = "scan"
  BY DEF ScanCutFrame, ScanForeign, ScanMistaken
<1>2. ~whole
  BY <1>1, ScanBuf DEF ScanCutFrame, ScanForeign, ScanMistaken
<1>3. /\ whole' = whole /\ UNCHANGED <<args, netVars, mainVars, srvVars>>
  BY DEF ScanCutFrame, ScanForeign, ScanMistaken
<1>4. /\ written' \in Seq(Frame \cup {Torn}) /\ lost' \subseteq Frame
      /\ proc' \in {"up", "crash"}
  <2>1. CASE Callback(Torn)
    BY <1>1, <2>1, CallbackType DEF IInv
  <2>2. CASE UNCHANGED <<written, lost>>
    BY <1>1, <2>2 DEF IInv, TypeOK, ScanCutFrame, ScanForeign, ScanMistaken, Callback
  <2> QED BY <2>1, <2>2 DEF ScanCutFrame, ScanForeign, ScanMistaken
<1>5. PICK rest \in Seq(Part) : ScanOn(rest)
  <2>1. <<>> \in Seq(Part)
    OBVIOUS
  <2>2. CASE ScanOn(<<>>)
    BY <2>1, <2>2
  <2>3. CASE \E n \in DOMAIN buf : ScanOn(After(buf, n))
    <3>1. PICK n \in DOMAIN buf : ScanOn(After(buf, n))
      BY <2>3
    <3>2. After(buf, n) \in Seq(Part)
      BY <1>1, ScanBuf, Cut
    <3> QED BY <3>1, <3>2
  <2> QED BY <2>2, <2>3 DEF ScanCutFrame, ScanForeign, ScanMistaken
<1>6. /\ buf' \in Seq(Part) /\ cpc' \in {"loop", "scan"}
      /\ cpc' = "scan" <=> buf' # <<>>
  BY <1>5 DEF ScanOn
<1>7. TypeOK'
  BY <1>3, <1>4, <1>6 DEF IInv, TypeOK, args, netVars, mainVars, srvVars
<1>8. ControlInv'
  BY <1>1, <1>3, <1>6, ScanBuf
     DEF IInv, ControlInv, FileOpen, args, netVars, mainVars, srvVars
<1>9. PlayInv'
  BY <1>3 DEF IInv, PlayInv, mainVars, srvVars
<1>10. (StepInv /\ KnownInv /\ PairInv /\ OrderInv /\ NothingElseLost)'
  BY <1>2, <1>3 DEF StepInv, KnownInv, PairInv, OrderInv, NothingElseLost
<1> QED BY <1>7, <1>8, <1>9, <1>10 DEF IInv

(* The callback writes the frame, or it goes elsewhere.                    *)
LEMMA CallbackFrame ==
  ASSUME TypeOK, NEW f \in Frame, Callback(f), proc = "up"
  PROVE  /\ \/ /\ DOMAIN written = 1 .. Len(written) /\ Len(written) \in Nat
               /\ DOMAIN written' = 1 .. Len(written) + 1
               /\ \A i \in 1 .. Len(written) : written'[i] = written[i]
               /\ written'[Len(written) + 1] = f
               /\ UNCHANGED lost
            \/ lost' = lost \cup {f} /\ UNCHANGED written
         /\ {written'[i] : i \in DOMAIN written'} \cup lost'
              = {written[i] : i \in DOMAIN written} \cup lost \cup {f}
<1>1. written \in Seq(Frame \cup {Torn}) /\ f # Torn /\ f \in Frame \cup {Torn}
  BY DEF TypeOK, Frame, Torn
<1>2. CASE written' = Append(written, f) /\ UNCHANGED lost
  <2>1. /\ DOMAIN written = 1 .. Len(written) /\ Len(written) \in Nat
        /\ DOMAIN written' = 1 .. Len(written) + 1
        /\ \A i \in 1 .. Len(written) : written'[i] = written[i]
        /\ written'[Len(written) + 1] = f
    BY <1>1, <1>2, AppendProperties
  <2>2. \A x \in {written'[i] : i \in DOMAIN written'} :
          x \in {written[i] : i \in DOMAIN written} \cup {f}
    BY <2>1
  <2>3. f \in {written'[i] : i \in DOMAIN written'}
    BY <2>1
  <2>4. \A x \in {written[i] : i \in DOMAIN written} :
          x \in {written'[i] : i \in DOMAIN written'}
    BY <2>1
  <2> QED BY <1>2, <2>1, <2>2, <2>3, <2>4
<1>3. CASE UNCHANGED written /\ lost' = lost \cup ({f} \ {Torn})
  BY <1>1, <1>3
<1> QED BY <1>1, <1>2, <1>3 DEF Callback

(* ChildRecv takes whole items off the stream, unless it goes astray.      *)
LEMMA ChildRecvKeepsIInv ==
  ASSUME IInv, ChildRecv
  PROVE  IInv'
<1>1. /\ proc = "up" /\ cpc = "recv" /\ over = "TCP" /\ cpc' = "scan"
      /\ UNCHANGED <<proc, args, conn, dgrams, mainVars, written, srvVars, lost>>
  BY DEF ChildRecv
<1>2. PICK n \in DOMAIN stream :
        /\ stream' = After(stream, n) /\ whole' = (whole /\ stream[n].half = 2)
        /\ buf' = First(stream, n)
  BY DEF ChildRecv, Receive
<1>3. stream \in Seq(Part) /\ Len(stream) \in Nat /\ DOMAIN stream = 1 .. Len(stream)
  BY DEF IInv, TypeOK
<1>4. /\ buf' \in Seq(Part) /\ DOMAIN buf' = 1 .. n
      /\ \A i \in 1 .. n : buf'[i] = stream[i] /\ i \in DOMAIN stream
      /\ stream' \in Seq(Part) /\ DOMAIN stream' = 1 .. Len(stream) - n
      /\ \A i \in DOMAIN stream' : stream'[i] = stream[n + i] /\ n + i \in DOMAIN stream
  <2>1. n \in 1 .. Len(stream)
    BY <1>3
  <2>2. /\ buf' \in Seq(Part) /\ Len(buf') = n
        /\ \A i \in 1 .. n : buf'[i] = stream[i]
        /\ stream' \in Seq(Part) /\ Len(stream') = Len(stream) - n
        /\ \A i \in 1 .. Len(stream) - n : stream'[i] = stream[n + i]
    BY <1>2, <1>3, Cut
  <2>3. DOMAIN buf' = 1 .. n /\ DOMAIN stream' = 1 .. Len(stream) - n
    BY <2>2
  <2> QED BY <1>3, <2>1, <2>2, <2>3
<1>5. buf' # <<>>
  BY <1>2, <1>3, <1>4
<1>6. buf = <<>> /\ (FileOpen => mpc = "run")
  BY <1>1 DEF IInv, ControlInv
<1>7. TypeOK'
  BY <1>1, <1>2, <1>4 DEF IInv, TypeOK, args, mainVars, srvVars
<1>8. ControlInv'
  BY <1>1, <1>5, <1>6 DEF IInv, ControlInv, FileOpen, args, mainVars, srvVars
<1>9. PlayInv'
  BY <1>1 DEF IInv, PlayInv, FileOpen, args, mainVars, srvVars
<1>10. ASSUME whole' PROVE whole /\ stream[n].half = 2 /\ OnlyFrames(stream) /\ Paired(stream)
  BY <1>2, <1>6, <1>10 DEF IInv, StepInv, PairInv, FileOpen
<1>11. StepInv'
  <2> SUFFICES ASSUME whole' PROVE StepInv'
    BY DEF StepInv
  <2>1. OnlyFrames(stream)' /\ OnlyFrames(buf)'
    BY <1>4, <1>10 DEF OnlyFrames
  <2> QED BY <1>1, <1>6, <1>10, <2>1
          DEF IInv, StepInv, FileOpen, args, mainVars, srvVars
<1>12. KnownInv'
  BY <1>1, <1>10 DEF IInv, KnownInv, args, mainVars, srvVars
<1>13. PairInv'
  BY <1>2, <1>3, <1>10, CutPaired DEF PairInv
<1>14. OrderInv'
  <2> SUFFICES ASSUME whole' PROVE OrderInv'
    BY DEF OrderInv
  <2>1. /\ Ordered(stream)
        /\ \A k \in DOMAIN written : \A i \in DOMAIN stream :
             stream[i].kind = "frame" => written[k] < stream[i].id
    BY <1>1, <1>10 DEF IInv, OrderInv
  <2>2. Ordered(buf') /\ Ordered(stream') /\ Precedes(buf', stream')
    BY <1>2, <1>3, <1>10, <2>1, CutOrdered
  <2>3. \A k \in DOMAIN written' :
          /\ \A i \in DOMAIN buf' : buf'[i].kind = "frame" => written'[k] < buf'[i].id
          /\ \A i \in DOMAIN stream' :
               stream'[i].kind = "frame" => written'[k] < stream'[i].id
    BY <1>1, <1>4, <2>1
  <2> QED BY <1>1, <2>2, <2>3 DEF OrderInv, args
<1>15. NothingElseLost'
  <2> SUFFICES ASSUME whole' PROVE NothingElseLost'
    BY DEF NothingElseLost
  <2>1. Frames(buf) = {}
    BY <1>6 DEF Frames
  <2>2. Frames(stream) = Frames(buf') \cup Frames(stream')
    BY <1>2, <1>3, CutFrames
  <2>3. Frames(buf)' = Frames(buf') /\ Frames(stream)' = Frames(stream')
    BY DEF Frames
  <2> QED BY <1>1, <1>10, <2>1, <2>2, <2>3 DEF IInv, NothingElseLost, args, srvVars
<1> QED BY <1>7, <1>8, <1>9, <1>11, <1>12, <1>13, <1>14, <1>15 DEF IInv

(* ScanFrame takes one whole frame off the buffer.                         *)
LEMMA ScanFrameKeepsIInv ==
  ASSUME IInv, ScanFrame
  PROVE  IInv'
<1> DEFINE f == buf[1].id
<1>1. /\ proc = "up" /\ cpc = "scan" /\ Len(buf) > 1
      /\ buf[1].kind = "frame" /\ buf[1].half = 1 /\ Callback(f)
      /\ buf' = After(buf, 2)
      /\ cpc' = IF buf' = <<>> THEN "loop" ELSE "scan"
      /\ UNCHANGED <<args, netVars, mainVars, srvVars, whole>>
  BY DEF ScanFrame, ScanOn, AfterFrame
<1>2. /\ over = "TCP" /\ buf \in Seq(Part) /\ Len(buf) \in Nat
      /\ DOMAIN buf = 1 .. Len(buf) /\ 1 \in DOMAIN buf /\ 2 \in DOMAIN buf
      /\ buf[1] \in Part
  BY <1>1, ScanBuf
<1>3. f \in Frame
  BY <1>1, <1>2, PartFields
<1>4. /\ buf' \in Seq(Part) /\ DOMAIN buf' = 1 .. Len(buf) - 2
      /\ \A i \in DOMAIN buf' : buf'[i] = buf[2 + i] /\ 2 + i \in DOMAIN buf
  <2>1. /\ buf' \in Seq(Part) /\ Len(buf') = Len(buf) - 2
        /\ \A i \in 1 .. Len(buf) - 2 : buf'[i] = buf[2 + i]
    BY <1>1, <1>2, Cut
  <2>2. DOMAIN buf' = 1 .. Len(buf) - 2
    BY <2>1
  <2> QED BY <1>2, <2>1, <2>2
<1>5. /\ written' \in Seq(Frame \cup {Torn}) /\ lost' \subseteq Frame
      /\ proc' \in {"up", "crash"} /\ (proc' = "crash" => ~FileOpen)
  BY <1>1, <1>3, CallbackType DEF IInv
<1>6. FileOpen => mpc = "run"
  BY <1>1 DEF IInv, ControlInv
<1>7. TypeOK'
  BY <1>1, <1>4, <1>5 DEF IInv, TypeOK, args, netVars, mainVars, srvVars
<1>8. ControlInv'
  BY <1>1, <1>2, <1>6 DEF IInv, ControlInv, FileOpen, args, netVars, mainVars, srvVars
<1>9. PlayInv'
  BY <1>1, <1>5
     DEF IInv, PlayInv, FileOpen, args, netVars, mainVars, srvVars
<1>10. ASSUME whole PROVE OnlyFrames(buf) /\ Paired(buf) /\ buf[2].half = 2
  BY <1>1, <1>2, <1>10, DropFrames DEF IInv, StepInv, PairInv
<1>11. StepInv'
  <2> SUFFICES ASSUME whole' PROVE StepInv'
    BY DEF StepInv
  <2>1. OnlyFrames(buf)'
    BY <1>1, <1>4, <1>10 DEF OnlyFrames
  <2>2. OnlyFrames(stream)' <=> OnlyFrames(stream)
    BY <1>1 DEF OnlyFrames, netVars
  <2>3. Answered' <=> Answered
    BY <1>1 DEF Answered, netVars, mainVars
  <2> QED BY <1>1, <2>1, <2>2, <2>3
          DEF IInv, StepInv, args, netVars, mainVars, srvVars
<1>12. KnownInv'
  BY <1>1 DEF IInv, KnownInv, args, netVars, mainVars, srvVars
<1>13. PairInv'
  BY <1>1, <1>2, <1>10, CutPaired DEF IInv, PairInv, netVars
<1>14. ASSUME whole
       PROVE  /\ Ordered(stream) /\ Ordered(buf) /\ Precedes(buf, stream)
              /\ \A k \in DOMAIN written :
                  /\ \A i \in DOMAIN buf : buf[i].kind = "frame" => written[k] < buf[i].id
                  /\ \A i \in DOMAIN stream :
                       stream[i].kind = "frame" => written[k] < stream[i].id
  BY <1>2, <1>14 DEF IInv, OrderInv
<1>15. OrderInv'
  <2> SUFFICES ASSUME whole' PROVE OrderInv'
    BY DEF OrderInv
  <2>1. whole /\ stream' = stream /\ over' = over
    BY <1>1 DEF netVars, args
  <2>2. Ordered(buf') /\ Precedes(First(buf, 2), buf')
    BY <1>1, <1>2, <1>10, <1>14, <2>1, CutOrdered
  <2>3. Precedes(buf', stream)
    BY <1>4, <1>14, <2>1 DEF Precedes
  <2>4. \A i \in DOMAIN buf' : buf'[i].kind = "frame" => f < buf'[i].id
    <3>1. 1 \in DOMAIN First(buf, 2) /\ First(buf, 2)[1] = buf[1]
      <4>1. /\ First(buf, 2) \in Seq(Part) /\ Len(First(buf, 2)) = 2
            /\ \A i \in 1 .. 2 : First(buf, 2)[i] = buf[i]
        BY <1>2, Cut
      <4> HIDE DEF First
      <4> QED BY <4>1
    <3> QED BY <1>1, <2>2, <3>1 DEF Precedes
  <2>5. \A i \in DOMAIN stream : stream[i].kind = "frame" => f < stream[i].id
    BY <1>1, <1>2, <1>14, <2>1 DEF Precedes
  <2>6. \A k \in DOMAIN written :
          /\ \A i \in DOMAIN buf' : buf'[i].kind = "frame" => written[k] < buf'[i].id
          /\ \A i \in DOMAIN stream : stream[i].kind = "frame" => written[k] < stream[i].id
    BY <1>4, <1>14, <2>1
  <2>7. \A k \in DOMAIN written' : written'[k] = f \/ (k \in DOMAIN written /\ written'[k] = written[k])
    <3> HIDE DEF f
    <3> QED BY <1>1, <1>3, CallbackFrame DEF IInv
  <2> HIDE DEF f
  <2>8. \A k \in DOMAIN written' :
          /\ \A i \in DOMAIN buf' : buf'[i].kind = "frame" => written'[k] < buf'[i].id
          /\ \A i \in DOMAIN stream : stream[i].kind = "frame" => written'[k] < stream[i].id
    BY <2>4, <2>5, <2>6, <2>7
  <2> QED BY <1>2, <1>14, <2>1, <2>2, <2>3, <2>8 DEF OrderInv
<1>16. NothingElseLost'
  <2> SUFFICES ASSUME whole' PROVE NothingElseLost'
    BY DEF NothingElseLost
  <2>1. whole /\ UNCHANGED <<stream, dgrams, over, sent>>
    BY <1>1 DEF netVars, args, srvVars
  <2>2. Frames(buf) = {f} \cup Frames(buf')
    BY <1>1, <1>2, <1>10, <2>1, DropFrames
  <2>3. Frames(buf)' = Frames(buf') /\ Frames(stream)' = Frames(stream)
    BY <2>1 DEF Frames
  <2>4. \A i \in DOMAIN written : written[i] < f
    BY <1>1, <1>2, <1>14, <2>1
  <2> HIDE DEF f
  <2>5. {written'[i] : i \in DOMAIN written'} \cup lost'
              = {written[i] : i \in DOMAIN written} \cup lost \cup {f}
    BY <1>1, <1>3, CallbackFrame DEF IInv
  <2>6. /\ {written[i] : i \in DOMAIN written} \cup Frames(buf) \cup Frames(stream)
             \cup dgrams \cup lost = 1 .. sent
        /\ \A i, j \in DOMAIN written : i < j => written[i] < written[j]
    BY <1>2, <2>1 DEF IInv, NothingElseLost
  <2>7. \A i, j \in DOMAIN written' : i < j => written'[i] < written'[j]
    <3>1. CASE UNCHANGED written
      BY <2>6, <3>1
    <3>2. CASE /\ DOMAIN written = 1 .. Len(written) /\ Len(written) \in Nat
               /\ DOMAIN written' = 1 .. Len(written) + 1
               /\ \A i \in 1 .. Len(written) : written'[i] = written[i]
               /\ written'[Len(written) + 1] = f
      BY <2>4, <2>6, <3>2
    <3> QED BY <1>1, <1>3, <3>1, <3>2, CallbackFrame DEF IInv
  <2>8. {written'[i] : i \in DOMAIN written'} \cup Frames(buf') \cup Frames(stream)
             \cup dgrams \cup lost' = 1 .. sent
    BY <2>2, <2>5, <2>6
  <2> QED BY <1>2, <2>1, <2>3, <2>7, <2>8 DEF NothingElseLost
<1> QED BY <1>7, <1>8, <1>9, <1>11, <1>12, <1>13, <1>15, <1>16 DEF IInv

(* ChildRecvUdp takes one datagram.                                        *)
LEMMA ChildRecvUdpKeepsIInv ==
  ASSUME IInv, ChildRecvUdp
  PROVE  IInv'
<1>1. PICK d \in dgrams :
        /\ dgrams' = dgrams \ {d}
        /\ IF port THEN Callback(d)
                   ELSE lost' = lost \cup {d} /\ UNCHANGED <<proc, written>>
  BY DEF ChildRecvUdp
<1>2. /\ proc = "up" /\ cpc = "recv" /\ over = "UDP" /\ cpc' = "loop"
      /\ UNCHANGED <<args, conn, stream, mainVars, buf, srvVars, whole>>
  BY DEF ChildRecvUdp
<1>3. d \in Frame
  BY DEF IInv, TypeOK
<1>4. /\ written' \in Seq(Frame \cup {Torn}) /\ lost' \subseteq Frame
      /\ proc' \in {"up", "crash"} /\ (proc' = "crash" => ~FileOpen)
  <2>1. CASE Callback(d)
    BY <1>2, <1>3, <2>1, CallbackType DEF IInv
  <2>2. CASE lost' = lost \cup {d} /\ UNCHANGED <<proc, written>>
    BY <1>2, <1>3, <2>2 DEF IInv, TypeOK
  <2> QED BY <1>1, <2>1, <2>2
<1>5. /\ \/ /\ DOMAIN written = 1 .. Len(written) /\ Len(written) \in Nat
            /\ DOMAIN written' = 1 .. Len(written) + 1
            /\ \A i \in 1 .. Len(written) : written'[i] = written[i]
            /\ written'[Len(written) + 1] = d
         \/ UNCHANGED written
      /\ {written'[i] : i \in DOMAIN written'} \cup lost'
           = {written[i] : i \in DOMAIN written} \cup lost \cup {d}
  <2>1. CASE Callback(d)
    BY <1>2, <1>3, <2>1, CallbackFrame DEF IInv
  <2>2. CASE lost' = lost \cup {d} /\ UNCHANGED <<proc, written>>
    BY <2>2
  <2> QED BY <1>1, <2>1, <2>2
<1>6. FileOpen => mpc = "run"
  BY <1>2 DEF IInv, ControlInv
<1>7. TypeOK'
  BY <1>1, <1>2, <1>4 DEF IInv, TypeOK, args, mainVars, srvVars
<1>8. ControlInv'
  BY <1>2, <1>6 DEF IInv, ControlInv, FileOpen, args, mainVars, srvVars
<1>9. PlayInv'
  BY <1>2, <1>4
     DEF IInv, PlayInv, FileOpen, args, mainVars, srvVars
<1>10. (StepInv /\ KnownInv /\ PairInv)'
  BY <1>2 DEF IInv, StepInv, KnownInv, PairInv, Answered, OnlyFrames, Paired,
              args, mainVars, srvVars
<1>11. ASSUME whole PROVE \A k \in DOMAIN written : written[k] \notin dgrams
  BY <1>2, <1>11 DEF IInv, OrderInv
<1>12. OrderInv'
  <2> SUFFICES ASSUME whole' PROVE OrderInv'
    BY DEF OrderInv
  <2>1. \A k \in DOMAIN written' : written'[k] \notin dgrams'
    BY <1>1, <1>2, <1>5, <1>11
  <2> QED BY <1>2, <2>1 DEF OrderInv, args
<1>13. NothingElseLost'
  <2> SUFFICES ASSUME whole' PROVE NothingElseLost'
    BY DEF NothingElseLost
  <2>1. /\ whole
        /\ {written[i] : i \in DOMAIN written} \cup Frames(buf) \cup Frames(stream)
             \cup dgrams \cup lost = 1 .. sent
        /\ \A i, j \in DOMAIN written : i < j => written[i] # written[j]
    BY <1>2 DEF IInv, NothingElseLost
  <2>2. Frames(buf)' = Frames(buf) /\ Frames(stream)' = Frames(stream)
    BY <1>2 DEF Frames
  <2>3. {written'[i] : i \in DOMAIN written'} \cup Frames(buf) \cup Frames(stream)
             \cup dgrams' \cup lost' = 1 .. sent
    BY <1>1, <1>5, <2>1
  <2>4. \A i, j \in DOMAIN written' : i < j => written'[i] # written'[j]
    <3>1. CASE UNCHANGED written
      BY <2>1, <3>1
    <3>2. CASE /\ DOMAIN written = 1 .. Len(written) /\ Len(written) \in Nat
               /\ DOMAIN written' = 1 .. Len(written) + 1
               /\ \A i \in 1 .. Len(written) : written'[i] = written[i]
               /\ written'[Len(written) + 1] = d
      BY <1>1, <1>11, <2>1, <3>2
    <3> QED BY <1>5, <3>1, <3>2
  <2> QED BY <1>2, <2>2, <2>3, <2>4 DEF NothingElseLost, args, srvVars
<1> QED BY <1>7, <1>8, <1>9, <1>10, <1>12, <1>13 DEF IInv

(* The frames of parts are frames.                                         *)
LEMMA FramesType ==
  ASSUME NEW s \in Seq(Part)
  PROVE  Frames(s) \subseteq Frame
<1> SUFFICES ASSUME NEW x \in Frames(s) PROVE x \in Frame
  OBVIOUS
<1>1. PICK i \in DOMAIN s : s[i].kind = "frame" /\ x = s[i].id
  BY DEF Frames
<1>2. s[i] \in Part
  OBVIOUS
<1> QED BY <1>1, <1>2, PartFields

(* Before the child is started it holds nothing and nothing is written.    *)
LEMMA NoChildYet ==
  ASSUME IInv, mpc \in {"send", "recv"}
  PROVE  cpc = "none" /\ written = <<>> /\ buf = <<>>
BY DEF IInv, ControlInv, FileOpen

(* A command is sent when the stream is empty and nothing is played.       *)
LEMMA SendCmdKeepsIInv ==
  ASSUME IInv, SendCmd
  PROVE  IInv'
<1> USE DEF Command, OPTIONS, DESCRIBE, SETUP, PLAY, TEARDOWN
<1>1. /\ proc = "up" /\ mpc = "send"
      /\ UNCHANGED <<args, stream, dgrams, codec, port, quit, childVars, setup,
                     playing, sent, whole, lost>>
      /\ \/ NextCommand /\ UNCHANGED <<proc, conn, requests>> /\ cmd = SETUP /\ over = "NONE"
         \/ Send(cmd, Answering, NextCommand)
  BY DEF SendCmd
<1>2. /\ ~playing /\ sent = 0 /\ \A i \in DOMAIN requests : requests[i] # PLAY
  BY <1>1 DEF IInv, PlayInv, TypeOK
<1>3. cpc = "none" /\ written = <<>> /\ buf = <<>>
  BY <1>1, NoChildYet
<1>4. /\ proc' \in {"up", "sigpipe"}
      /\ conn' \in {"open", "fin", "rst", "dead", conn} /\ (conn' = "open" => conn = "open")
      /\ mpc' \in {"send", "recv", "start"}
      /\ requests' \in {requests, Append(requests, cmd)}
  BY <1>1 DEF Send, Answering, NextCommand
<1>5. /\ cmd \in Command /\ requests \in Seq(OPTIONS .. TEARDOWN)
      /\ Append(requests, cmd) \in Seq(OPTIONS .. TEARDOWN)
  BY DEF IInv, TypeOK
<1>6. cmd' \in Command /\ (cmd' = cmd \/ (cmd' = cmd + 1 /\ mpc' = "send"))
  BY <1>1, <1>5 DEF Send, Answering, NextCommand
<1>7. TypeOK'
  BY ZenonT(30), <1>1, <1>4, <1>5, <1>6 DEF IInv, TypeOK, args, childVars
<1>8. ControlInv'
  BY <1>1, <1>3, <1>4 DEF IInv, ControlInv, FileOpen, args, childVars
<1>9. \A i \in DOMAIN requests' :
        requests'[i] = PLAY => cmd' = PLAY /\ mpc' = "recv"
  <2>1. CASE UNCHANGED requests
    BY <1>2, <2>1
  <2>2. CASE requests' = Append(requests, cmd) /\ Answering
    <3>1. \A i \in DOMAIN requests' :
            requests'[i] = cmd \/ (i \in DOMAIN requests /\ requests'[i] = requests[i])
      BY <1>5, <2>2, AppendProperties
    <3> QED BY <1>2, <2>2, <3>1 DEF Answering
  <2> QED BY <1>1, <2>1, <2>2 DEF Send
<1>10. PlayInv'
  BY <1>1, <1>2, <1>9 DEF PlayInv
<1>11. ASSUME whole
       PROVE  stream = <<>> /\ (conn = "open" => requests = <<>>)
  BY <1>1, <1>11 DEF IInv, StepInv
<1>12. StepInv'
  <2> SUFFICES ASSUME whole' PROVE StepInv'
    BY DEF StepInv
  <2>1. whole /\ stream' = <<>> /\ buf' = <<>>
    BY <1>1, <1>3, <1>11 DEF childVars
  <2>2. OnlyFrames(stream)' /\ OnlyFrames(buf)'
    BY <2>1 DEF OnlyFrames
  <2>3. ASSUME conn' = "open"
        PROVE  \/ mpc' = "send" /\ requests' = <<>>
               \/ mpc' = "recv" /\ requests' = <<cmd'>>
    <3>1. requests = <<>> /\ conn = "open"
      BY <1>4, <1>11, <2>1, <2>3
    <3>2. Append(requests, cmd) = <<cmd>>
      BY <3>1
    <3> QED BY <1>1, <3>1, <3>2 DEF Send, Answering, NextCommand
  <2>4. ~playing' /\ sent' = 0
    BY <1>1, <1>2
  <2> QED BY <1>4, <2>1, <2>2, <2>3, <2>4 DEF StepInv
<1>13. KnownInv'
  <2> SUFFICES ASSUME whole, conn' = "open",
                      cmd' > DESCRIBE
               PROVE  codec /\ (cmd' > SETUP /\ over = "UDP" => port)
    BY <1>1, <1>2, <1>5, <1>6 DEF KnownInv, args
  <2>1. conn = "open" /\ (cmd > DESCRIBE => codec) /\ (cmd > SETUP /\ over = "UDP" => port)
    BY <1>4 DEF IInv, KnownInv
  <2>2. cmd' = cmd \/ (cmd = SETUP /\ cmd' = PLAY /\ over = "NONE")
    BY <1>1, <1>5, <2>1 DEF Send, Answering, NextCommand
  <2> QED BY <2>1, <2>2
<1>14. (PairInv /\ OrderInv)'
  BY <1>1 DEF IInv, PairInv, OrderInv, Paired, Ordered, Precedes, childVars, args
<1>15. NothingElseLost'
  BY <1>1 DEF IInv, NothingElseLost, Frames, childVars, args
<1> QED BY <1>7, <1>8, <1>10, <1>12, <1>13, <1>14, <1>15 DEF IInv

(* TEARDOWN is sent last, and not answered.                                *)
LEMMA SendTeardownKeepsIInv ==
  ASSUME IInv, SendTeardown
  PROVE  IInv'
<1> USE DEF Command, OPTIONS, DESCRIBE, SETUP, PLAY, TEARDOWN
<1>1. /\ proc = "up" /\ mpc = "teardown" /\ cmd' = cmd
      /\ UNCHANGED <<args, stream, dgrams, codec, port, quit, childVars, setup,
                     playing, sent, whole, lost>>
      /\ mpc' \in {"teardown", "sleep"}
      /\ proc' \in {"up", "abort", "sigpipe"} /\ (proc' = "abort" => conn' = "none")
      /\ conn' \in {conn, "dead"}
      /\ requests' \in {requests, Append(requests, TEARDOWN)}
  BY DEF SendTeardown, Send
<1>2. /\ requests \in Seq(OPTIONS .. TEARDOWN)
      /\ Append(requests, TEARDOWN) \in Seq(OPTIONS .. TEARDOWN)
  BY DEF IInv, TypeOK
<1>3. \A i \in DOMAIN requests' :
        requests'[i] = TEARDOWN \/ (i \in DOMAIN requests /\ requests'[i] = requests[i])
  BY <1>1, <1>2, AppendProperties
<1>4. TypeOK'
  BY <1>1, <1>2 DEF IInv, TypeOK, args, childVars
<1>5. ControlInv'
  BY <1>1 DEF IInv, ControlInv, FileOpen, args, childVars
<1>6. PlayInv'
  BY <1>1, <1>3 DEF IInv, PlayInv
<1>7. StepInv'
  <2> SUFFICES ASSUME whole' PROVE StepInv'
    BY DEF StepInv
  <2>1. /\ OnlyFrames(stream) /\ OnlyFrames(buf)
        /\ conn = "open" => \A i \in DOMAIN requests : requests[i] = TEARDOWN
    BY <1>1 DEF IInv, StepInv
  <2>2. OnlyFrames(stream)' /\ OnlyFrames(buf)'
    BY <1>1, <2>1 DEF OnlyFrames, childVars
  <2>3. conn' = "open" => \A i \in DOMAIN requests' : requests'[i] = TEARDOWN
    BY <1>1, <1>3, <2>1
  <2> QED BY <1>1, <2>2, <2>3 DEF StepInv
<1>8. KnownInv'
  BY <1>1 DEF IInv, KnownInv, args
<1>9. (PairInv /\ OrderInv)'
  BY <1>1 DEF IInv, PairInv, OrderInv, Paired, Ordered, Precedes, childVars, args
<1>10. NothingElseLost'
  BY <1>1 DEF IInv, NothingElseLost, Frames, childVars, args
<1> QED BY <1>4, <1>5, <1>6, <1>7, <1>8, <1>9, <1>10 DEF IInv

(* One recv takes the whole response to the command, unless it goes        *)
(* astray, and the text that is looked for is in it.                       *)
LEMMA RecvResponseKeepsIInv ==
  ASSUME IInv, RecvResponse
  PROVE  IInv'
<1> USE DEF Command, OPTIONS, DESCRIBE, SETUP, PLAY, TEARDOWN
<1>1. /\ proc = "up" /\ mpc = "recv" /\ NextCommand
      /\ UNCHANGED <<proc, args, conn, dgrams, quit, childVars, srvVars>>
  BY DEF RecvResponse
<1>2. PICK n \in DOMAIN stream :
        /\ stream' = After(stream, n)
        /\ whole' = (whole /\ stream[n].half = 2)
        /\ IF cmd = DESCRIBE THEN codec' \in Tells(First(stream, n), DESCRIBE)
                             ELSE UNCHANGED codec
        /\ IF cmd = SETUP /\ over = "UDP"
           THEN \E b \in Tells(First(stream, n), SETUP) : port' = (port \/ b)
           ELSE UNCHANGED port
        /\ lost' = lost \cup Frames(First(stream, n))
  BY DEF RecvResponse, Receive
<1>3. stream \in Seq(Part) /\ Len(stream) \in Nat /\ DOMAIN stream = 1 .. Len(stream)
  BY DEF IInv, TypeOK
<1>4. /\ First(stream, n) \in Seq(Part) /\ Len(First(stream, n)) = n
      /\ \A i \in 1 .. n : First(stream, n)[i] = stream[i]
      /\ stream' \in Seq(Part) /\ Len(stream') = Len(stream) - n
      /\ \A i \in 1 .. Len(stream) - n : stream'[i] = stream[n + i]
  BY <1>2, <1>3, Cut
<1>5. cpc = "none" /\ written = <<>> /\ buf = <<>>
  BY <1>1, NoChildYet
<1>6. /\ cmd \in Command /\ cmd' \in Command /\ mpc' \in {"send", "start"}
      /\ \/ cmd = PLAY /\ cmd' = PLAY /\ mpc' = "start"
         \/ cmd # PLAY /\ cmd' = cmd + 1 /\ mpc' = "send"
  BY <1>1 DEF IInv, TypeOK, NextCommand
<1>7. TypeOK'
  <2>1. codec' \in BOOLEAN /\ port' \in BOOLEAN
    BY <1>2 DEF IInv, TypeOK, Tells
  <2>2. lost' \subseteq Frame
    BY <1>2, <1>4, FramesType DEF IInv, TypeOK
  <2>3. whole' \in BOOLEAN
    BY <1>2
  <2> QED BY <1>1, <1>4, <1>6, <2>1, <2>2, <2>3
          DEF IInv, TypeOK, args, childVars, srvVars
<1>8. ControlInv'
  BY <1>1, <1>5, <1>6 DEF IInv, ControlInv, FileOpen, args, childVars
<1>9. PlayInv'
  BY <1>1, <1>6 DEF IInv, PlayInv, srvVars
<1>10. ASSUME whole'
       PROVE  whole /\ stream[n].half = 2 /\ Answered /\ Paired(stream) /\ n \in 2 .. Len(stream)
  <2>1. whole /\ stream[n].half = 2
    BY <1>2, <1>10
  <2>2. Answered
    BY <1>1, <1>3, <2>1 DEF IInv, StepInv
  <2>3. Paired(stream)
    BY <2>1 DEF IInv, PairInv
  <2>4. stream[1].half = 1
    <3>1. stream[1] = Item("response", cmd)[1]
      BY <2>2 DEF Answered
    <3> QED BY <3>1 DEF Item
  <2> QED BY <1>3, <2>1, <2>2, <2>3, <2>4
<1>11. StepInv'
  <2> SUFFICES ASSUME whole' PROVE StepInv'
    BY DEF StepInv
  <2>1. OnlyFrames(stream)'
    <3>1. \A i \in 1 .. Len(stream) - n : n + i \in DOMAIN stream /\ n + i > 2
      BY <1>3, <1>10
    <3>2. DOMAIN stream' = 1 .. Len(stream) - n
      BY <1>4
    <3> QED BY <1>4, <1>10, <3>1, <3>2 DEF OnlyFrames, Answered
  <2>2. cmd # PLAY => stream' = <<>>
    <3> SUFFICES ASSUME cmd # PLAY PROVE stream' = <<>>
      OBVIOUS
    <3>1. Len(stream') = 0
      BY <1>3, <1>4, <1>10 DEF Answered
    <3> QED BY <1>4, <3>1, EmptySeq
  <2>3. OnlyFrames(buf)'
    BY <1>1, <1>5 DEF OnlyFrames, childVars
  <2>4. conn' = "open" => requests' = <<>>
    <3>1. stream # <<>>
      BY <1>3
    <3>2. ASSUME conn = "open"
          PROVE  (requests = <<cmd>> /\ stream = <<>>) \/ requests = <<>>
      BY <1>1, <1>10, <3>2 DEF IInv, StepInv
    <3> QED BY <1>1, <3>1, <3>2 DEF srvVars
  <2> QED BY <1>6, <2>1, <2>2, <2>3, <2>4 DEF StepInv
<1>12. KnownInv'
  <2> SUFFICES ASSUME whole', conn = "open" \/ playing \/ sent > 0
               PROVE  /\ cmd' > DESCRIBE => codec'
                      /\ cmd' > SETUP /\ over = "UDP" => port'
    BY <1>1 DEF KnownInv, args, srvVars
  <2>1. /\ cmd > DESCRIBE => codec
        /\ cmd > SETUP /\ over = "UDP" => port
    BY <1>10 DEF IInv, KnownInv
  <2>2. Tells(First(stream, n), cmd) \subseteq {TRUE}
    <3>1. \A h \in 1 .. 2 : First(stream, n)[h] = Item("response", cmd)[h]
      BY <1>4, <1>10 DEF Answered
    <3>2. DOMAIN First(stream, n) = 1 .. n
      BY <1>4
    <3>3. \A h \in 1 .. 2 : \E i \in DOMAIN First(stream, n) :
            First(stream, n)[i] = Item("response", cmd)[h]
      BY <1>3, <1>10, <3>1, <3>2
    <3> QED BY <3>3 DEF Tells
  <2>3. ASSUME cmd = DESCRIBE PROVE codec' = TRUE
    <3>1. codec' \in Tells(First(stream, n), cmd)
      BY <1>2, <2>3
    <3> QED BY <2>2, <3>1
  <2>4. ASSUME cmd = SETUP, over = "UDP" PROVE port' = TRUE
    <3>1. PICK b \in Tells(First(stream, n), cmd) : port' = (port \/ b)
      BY <1>2, <2>4
    <3>2. b = TRUE
      BY <2>2
    <3> QED BY <3>1, <3>2
  <2>5. (cmd # DESCRIBE => codec' = codec) /\ (~(cmd = SETUP /\ over = "UDP") => port' = port)
    BY <1>2
  <2>6. ASSUME cmd' > DESCRIBE PROVE codec'
    <3>1. CASE cmd = DESCRIBE
      BY <2>3, <3>1
    <3>2. CASE cmd # DESCRIBE
      <4>1. cmd > DESCRIBE
        BY <1>6, <2>6, <3>2
      <4> QED BY <2>1, <2>5, <3>2, <4>1
    <3> QED BY <3>1, <3>2
  <2>7. ASSUME cmd' > SETUP, over = "UDP" PROVE port'
    <3>1. CASE cmd = SETUP
      BY <2>4, <2>7, <3>1
    <3>2. CASE cmd # SETUP
      <4>1. cmd > SETUP
        BY <1>6, <2>7, <3>2
      <4> QED BY <2>1, <2>5, <2>7, <3>2, <4>1
    <3> QED BY <3>1, <3>2
  <2> QED BY <2>6, <2>7
<1>13. PairInv'
  BY <1>1, <1>2, <1>3, <1>10, CutPaired DEF IInv, PairInv, childVars
<1>14. OrderInv'
  <2> SUFFICES ASSUME whole' PROVE OrderInv'
    BY DEF OrderInv
  <2>1. over = "TCP" => Ordered(stream')
    BY <1>2, <1>3, <1>10, CutOrdered DEF IInv, OrderInv
  <2>2. buf' = <<>> /\ written' = <<>> /\ over' = over
    BY <1>1, <1>5 DEF childVars, args
  <2>3. DOMAIN buf' = {} /\ DOMAIN written' = {}
    BY <2>2
  <2> QED BY <2>1, <2>2, <2>3 DEF OrderInv, Ordered, Precedes
<1>15. NothingElseLost'
  <2> SUFFICES ASSUME whole' PROVE NothingElseLost'
    BY DEF NothingElseLost
  <2>1. Frames(stream) = Frames(First(stream, n)) \cup Frames(stream')
    BY <1>2, <1>3, CutFrames
  <2>2. Frames(buf)' = Frames(buf) /\ Frames(stream)' = Frames(stream')
    BY <1>1 DEF Frames, childVars
  <2> QED BY <1>1, <1>2, <1>10, <2>1, <2>2
          DEF IInv, NothingElseLost, childVars, args, srvVars
<1> QED BY <1>7, <1>8, <1>9, <1>11, <1>12, <1>13, <1>14, <1>15 DEF IInv

(* The server answers the first of the requests it has received.           *)
LEMMA ServerAnswerKeepsIInv ==
  ASSUME IInv, ServerAnswer
  PROVE  IInv'
<1> USE DEF Command, OPTIONS, DESCRIBE, SETUP, PLAY, TEARDOWN
<1> DEFINE c == requests[1]
<1>1. /\ conn = "open" /\ requests # <<>>
      /\ setup' = (setup \/ c = SETUP)
      /\ playing' = CASE c = PLAY -> TRUE [] c = TEARDOWN -> FALSE
                      [] OTHER -> playing
      /\ stream' = IF c = TEARDOWN THEN stream ELSE stream \o Item("response", c)
      /\ UNCHANGED <<proc, args, conn, dgrams, mainVars, childVars, sent, whole, lost>>
  BY DEF ServerAnswer
<1>2. PICK n \in DOMAIN requests : requests' = After(requests, n)
  BY DEF ServerAnswer
<1>3. /\ requests \in Seq(OPTIONS .. TEARDOWN) /\ Len(requests) \in Nat
      /\ DOMAIN requests = 1 .. Len(requests) /\ 1 \in DOMAIN requests
      /\ c \in OPTIONS .. TEARDOWN
  <2>1. requests \in Seq(OPTIONS .. TEARDOWN)
    BY DEF IInv, TypeOK
  <2>2. Len(requests) > 0
    BY <1>1, <2>1, EmptySeq
  <2> QED BY <2>1, <2>2
<1>4. /\ requests' \in Seq(OPTIONS .. TEARDOWN)
      /\ DOMAIN requests' = 1 .. Len(requests) - n
      /\ \A i \in DOMAIN requests' : n + i \in DOMAIN requests /\ requests'[i] = requests[n + i]
  <2>1. n \in 1 .. Len(requests) /\ \A i \in n + 1 .. Len(requests) : requests[i] \in OPTIONS .. TEARDOWN
    BY <1>3
  <2>2. /\ SubSeq(requests, n + 1, Len(requests)) \in Seq(OPTIONS .. TEARDOWN)
        /\ Len(SubSeq(requests, n + 1, Len(requests)))
             = IF n + 1 <= Len(requests) THEN Len(requests) - (n + 1) + 1 ELSE 0
        /\ \A i \in 1 .. Len(requests) - (n + 1) + 1 :
             SubSeq(requests, n + 1, Len(requests))[i] = requests[n + 1 + i - 1]
    BY SMTT(30), <1>3, <2>1, SubSeqProperties
  <2>3. requests' = SubSeq(requests, n + 1, Len(requests))
    BY <1>2 DEF After
  <2>4. Len(requests') = Len(requests) - n
    BY <1>3, <2>1, <2>2, <2>3
  <2>5. DOMAIN requests' = 1 .. Len(requests) - n
    BY <2>2, <2>3, <2>4
  <2>6. ASSUME NEW i \in DOMAIN requests'
        PROVE  n + i \in DOMAIN requests /\ requests'[i] = requests[n + i]
    <3>1. /\ i \in 1 .. Len(requests) - (n + 1) + 1 /\ n + i \in 1 .. Len(requests)
          /\ n + 1 + i - 1 = n + i
      BY <1>3, <2>1, <2>5
    <3>2. requests'[i] = requests[n + 1 + i - 1]
      BY <2>2, <2>3, <3>1
    <3> QED BY <1>3, <3>1, <3>2
  <2> QED BY <2>2, <2>3, <2>5, <2>6
<1>5. stream \in Seq(Part) /\ Len(stream) \in Nat /\ DOMAIN stream = 1 .. Len(stream)
  BY DEF IInv, TypeOK
<1> HIDE DEF c
<1>6. c # TEARDOWN => /\ c \in Command /\ Item("response", c)[1] \in Part
                      /\ Item("response", c)[2] \in Part
  BY <1>3 DEF Item, Part
<1>7. /\ stream' \in Seq(Part)
      /\ \A i \in DOMAIN stream' : stream'[i].kind = "frame" =>
           i \in DOMAIN stream /\ stream'[i] = stream[i]
  <2>1. CASE c = TEARDOWN
    BY <1>1, <1>5, <2>1
  <2>2. CASE c # TEARDOWN
    <3>1. /\ stream' \in Seq(Part) /\ Len(stream') = Len(stream) + 2
          /\ \A i \in 1 .. Len(stream) : stream'[i] = stream[i]
          /\ stream'[Len(stream) + 1].kind = "response"
          /\ stream'[Len(stream) + 2].kind = "response"
      <4> DEFINE t == stream \o Item("response", c)
      <4>1. stream' = t
        BY <1>1, <2>2
      <4>2. /\ t \in Seq(Part) /\ Len(t) = Len(stream) + 2
            /\ \A i \in 1 .. Len(stream) : t[i] = stream[i]
            /\ \A h \in 1 .. 2 : t[Len(stream) + h].kind = "response"
        BY <1>5, <1>6, <2>2, AddItem
      <4> HIDE DEF t
      <4> QED BY <4>1, <4>2
    <3>2. DOMAIN stream' = 1 .. Len(stream) + 2
      BY <3>1
    <3>3. \A i \in DOMAIN stream' : i \in DOMAIN stream \/ i = Len(stream) + 1 \/ i = Len(stream) + 2
      BY <1>5, <3>2
    <3> QED BY <1>5, <3>1, <3>3
  <2> QED BY <2>1, <2>2
<1>8. TypeOK'
  <2>1. setup' \in BOOLEAN /\ playing' \in BOOLEAN
    BY <1>1 DEF IInv, TypeOK
  <2> QED BY ZenonT(30), <1>1, <1>4, <1>7, <2>1 DEF IInv, TypeOK, args, mainVars, childVars
<1>9. ControlInv'
  BY <1>1 DEF IInv, ControlInv, FileOpen, args, mainVars, childVars
<1>10. PlayInv'
  <2> SUFFICES ASSUME playing' \/ sent' > 0 \/ (\E i \in DOMAIN requests' : requests'[i] = PLAY)
               PROVE  (cmd = PLAY /\ mpc \notin {"connect", "send"})'
    BY DEF PlayInv
  <2>1. playing \/ sent > 0 \/ (\E i \in DOMAIN requests : requests[i] = PLAY)
    BY <1>1, <1>3, <1>4 DEF c
  <2> QED BY <1>1, <2>1 DEF IInv, PlayInv, mainVars
<1>11. StepInv'
  <2> SUFFICES ASSUME whole' PROVE StepInv'
    BY DEF StepInv
  <2>1. whole /\ OnlyFrames(buf)'
    BY <1>1 DEF IInv, StepInv, OnlyFrames, childVars
  <2>2. CASE mpc = "recv"
    <3>1. requests = <<cmd>> /\ stream = <<>>
      BY <1>1, <2>1, <2>2 DEF IInv, StepInv
    <3>2. c = cmd /\ c # TEARDOWN
      BY <3>1 DEF IInv, TypeOK, c
    <3>3. requests' = <<>>
      <4>1. n = 1 /\ Len(requests) = 1
        BY <3>1
      <4>2. DOMAIN requests' = {}
        BY <1>4, <4>1
      <4> QED BY <1>4, <4>2
    <3>4. stream' = Item("response", cmd)
      <4>1. stream' = <<>> \o Item("response", cmd)
        BY <1>1, <3>1, <3>2
      <4>2. Item("response", cmd) = <<Item("response", cmd)[1], Item("response", cmd)[2]>>
        BY DEF Item
      <4>3. Item("response", cmd) \in Seq(Part)
        <5> DEFINE a == Item("response", cmd)[1]
                   b == Item("response", cmd)[2]
        <5>1. a \in Part /\ b \in Part
          BY <1>6, <3>2
        <5> HIDE DEF a, b
        <5>2. <<a, b>> \in Seq(Part)
          BY <5>1
        <5> QED BY <4>2, <5>2 DEF a, b
      <4> QED BY <4>1, <4>3
    <3>5. Answered'
      <4>1. cmd' = cmd
        BY <1>1 DEF mainVars
      <4>2. Len(stream') = 2 /\ DOMAIN stream' = 1 .. 2
        <5>1. DOMAIN Item("response", cmd) = 1 .. 2
          BY DEF Item
        <5> QED BY <1>7, <3>4, <5>1
      <4> QED BY SMTT(30), <3>4, <4>1, <4>2 DEF Answered
    <3> QED BY <1>1, <2>1, <2>2, <3>3, <3>5 DEF StepInv, mainVars
  <2>3. CASE mpc # "recv"
    <3>1. mpc # "send" /\ \A i \in DOMAIN requests : requests[i] = TEARDOWN
      BY <1>1, <2>1, <2>3 DEF IInv, StepInv
    <3>2. stream' = stream
      BY <1>1, <1>3, <3>1 DEF c
    <3>3. OnlyFrames(stream)'
      BY <2>1, <2>3, <3>2 DEF IInv, StepInv, OnlyFrames
    <3>4. \A i \in DOMAIN requests' : requests'[i] = TEARDOWN
      BY <1>4, <3>1
    <3> QED BY <1>1, <2>1, <2>3, <3>1, <3>3, <3>4 DEF StepInv, mainVars
  <2> QED BY <2>2, <2>3
<1>12. KnownInv'
  BY <1>1 DEF IInv, KnownInv, args, mainVars
<1>13. PairInv'
  <2> SUFFICES ASSUME whole' PROVE PairInv'
    BY DEF PairInv
  <2>1. Paired(stream) /\ Paired(buf)
    BY <1>1 DEF IInv, PairInv
  <2>2. Paired(stream')
    BY <1>1, <1>5, <1>6, <2>1, AddPaired
  <2> QED BY <1>1, <2>1, <2>2 DEF PairInv, childVars
<1>14. OrderInv'
  <2> SUFFICES ASSUME whole' PROVE OrderInv'
    BY DEF OrderInv
  <2>1. over' = over /\ buf' = buf /\ written' = written /\ dgrams' = dgrams /\ whole
    BY <1>1 DEF childVars, args
  <2>2. ASSUME over = "TCP"
        PROVE  /\ Ordered(stream') /\ Precedes(buf, stream')
               /\ \A k \in DOMAIN written : \A i \in DOMAIN stream' :
                    stream'[i].kind = "frame" => written[k] < stream'[i].id
    <3>1. /\ Ordered(stream) /\ Precedes(buf, stream)
          /\ \A k \in DOMAIN written : \A i \in DOMAIN stream :
               stream[i].kind = "frame" => written[k] < stream[i].id
      BY <2>1, <2>2 DEF IInv, OrderInv
    <3>2. Ordered(stream') /\ Precedes(buf, stream')
      BY <1>7, <3>1 DEF Ordered, Precedes
    <3> QED BY <1>7, <3>1, <3>2
  <2> QED BY <2>1, <2>2 DEF IInv, OrderInv
<1>15. NothingElseLost'
  <2>1. Frames(stream') = Frames(stream)
    BY <1>1, <1>5, <1>6, AddFrames
  <2>2. Frames(stream)' = Frames(stream') /\ Frames(buf)' = Frames(buf)
    BY <1>1 DEF Frames, childVars
  <2> QED BY <1>1, <2>1, <2>2 DEF IInv, NothingElseLost, args, childVars
<1> QED BY <1>8, <1>9, <1>10, <1>11, <1>12, <1>13, <1>14, <1>15 DEF IInv

(* The server sends the next frame: it has read PLAY, so the client waits  *)
(* for the response to PLAY or is past it.                                 *)
LEMMA ServerFrameKeepsIInv ==
  ASSUME IInv, ServerFrame
  PROVE  IInv'
<1> USE ClientAssumption DEF Command, OPTIONS, DESCRIBE, SETUP, PLAY, TEARDOWN
<1> DEFINE f == sent + 1
<1>1. /\ conn = "open" /\ playing /\ sent < MaxFrames /\ sent' = f
      /\ IF over = "TCP" THEN stream' = stream \o Item("frame", f) /\ dgrams' = dgrams
                         ELSE dgrams' = dgrams \cup {f} /\ stream' = stream
      /\ UNCHANGED <<proc, args, conn, mainVars, childVars, requests, setup, playing,
                     whole, lost>>
  BY DEF ServerFrame
<1>2. sent \in 0 .. MaxFrames /\ f \in Frame /\ f \in 0 .. MaxFrames /\ f > 0
  BY <1>1 DEF IInv, TypeOK, Frame
<1> HIDE DEF f
<1>3. stream \in Seq(Part) /\ Len(stream) \in Nat /\ DOMAIN stream = 1 .. Len(stream)
  BY DEF IInv, TypeOK
<1>4. Item("frame", f)[1] \in Part /\ Item("frame", f)[2] \in Part
  BY <1>2 DEF Item, Part
<1>5. ASSUME over = "TCP"
      PROVE  /\ stream' \in Seq(Part) /\ Len(stream') = Len(stream) + 2
             /\ DOMAIN stream' = 1 .. Len(stream) + 2
             /\ \A i \in 1 .. Len(stream) : stream'[i] = stream[i]
             /\ stream'[Len(stream) + 1].kind = "frame" /\ stream'[Len(stream) + 1].id = f
             /\ stream'[Len(stream) + 2].kind = "frame" /\ stream'[Len(stream) + 2].id = f
  <2> DEFINE t == stream \o Item("frame", f)
  <2>1. stream' = t
    BY <1>1, <1>5
  <2>2. /\ t \in Seq(Part) /\ Len(t) = Len(stream) + 2
        /\ \A i \in 1 .. Len(stream) : t[i] = stream[i]
        /\ \A h \in 1 .. 2 : t[Len(stream) + h].kind = "frame" /\ t[Len(stream) + h].id = f
    BY <1>3, <1>4, AddItem
  <2>3. DOMAIN t = 1 .. Len(stream) + 2
    BY <2>2
  <2> HIDE DEF t
  <2> QED BY <2>1, <2>2, <2>3
<1>6. cmd = PLAY /\ mpc \notin {"connect", "send"}
  BY <1>1 DEF IInv, PlayInv
<1>7. TypeOK'
  BY ZenonT(30), <1>1, <1>2, <1>5 DEF IInv, TypeOK, args, mainVars, childVars
<1>8. ControlInv'
  BY <1>1 DEF IInv, ControlInv, FileOpen, args, mainVars, childVars
<1>9. PlayInv'
  BY <1>1, <1>6 DEF PlayInv, mainVars
<1>10. StepInv'
  <2> SUFFICES ASSUME whole' PROVE StepInv'
    BY DEF StepInv
  <2>1. whole /\ OnlyFrames(buf)'
    BY <1>1 DEF IInv, StepInv, OnlyFrames, childVars
  <2>2. CASE mpc = "recv"
    <3>1. requests = <<>> /\ Answered
      BY <1>1, <2>1, <2>2 DEF IInv, StepInv
    <3>2. Answered'
      <4>1. cmd' = cmd
        BY <1>1 DEF mainVars
      <4>2. CASE over # "TCP"
        BY <1>1, <3>1, <4>1, <4>2 DEF Answered
      <4>3. CASE over = "TCP"
        <5>1. Len(stream) > 1 /\ stream'[1] = stream[1] /\ stream'[2] = stream[2]
          BY <1>3, <1>5, <3>1, <4>3 DEF Answered
        <5>2. \A h \in 1 .. 2 : stream'[h] = Item("response", cmd)[h]
          BY <3>1, <5>1 DEF Answered
        <5>3. \A i \in DOMAIN stream' : i > 2 => stream'[i].kind = "frame"
          <6>1. \A i \in DOMAIN stream' : i \in DOMAIN stream \/ i = Len(stream) + 1 \/ i = Len(stream) + 2
            BY <1>3, <1>5, <4>3
          <6> QED BY <1>3, <1>5, <3>1, <4>3, <6>1 DEF Answered
        <5> QED BY <1>3, <1>5, <1>6, <4>1, <4>3, <5>1, <5>2, <5>3 DEF Answered
      <4> QED BY <4>2, <4>3
    <3> QED BY <1>1, <2>1, <2>2, <3>1, <3>2 DEF StepInv, mainVars
  <2>3. CASE mpc # "recv"
    <3>1. OnlyFrames(stream) /\ \A i \in DOMAIN requests : requests[i] = TEARDOWN
      BY <1>1, <2>1, <2>3 DEF IInv, StepInv
    <3>2. OnlyFrames(stream)'
      <4>1. CASE over # "TCP"
        BY <1>1, <3>1, <4>1 DEF OnlyFrames
      <4>2. CASE over = "TCP"
        <5>1. \A i \in DOMAIN stream' : i \in DOMAIN stream \/ i = Len(stream) + 1 \/ i = Len(stream) + 2
          BY <1>3, <1>5, <4>2
        <5> QED BY <1>3, <1>5, <3>1, <4>2, <5>1 DEF OnlyFrames
      <4> QED BY <4>1, <4>2
    <3> QED BY <1>1, <1>6, <2>1, <2>3, <3>1, <3>2 DEF StepInv, mainVars
  <2> QED BY <2>2, <2>3
<1>11. KnownInv'
  BY <1>1 DEF IInv, KnownInv, args, mainVars
<1>12. PairInv'
  <2> SUFFICES ASSUME whole' PROVE PairInv'
    BY DEF PairInv
  <2>1. Paired(stream) /\ Paired(buf)
    BY <1>1 DEF IInv, PairInv
  <2>2. Paired(stream')
    BY <1>1, <1>3, <1>4, <2>1, AddPaired
  <2> QED BY <1>1, <2>1, <2>2 DEF PairInv, childVars
<1>13. ASSUME whole
       PROVE  /\ {written[i] : i \in DOMAIN written} \cup Frames(buf) \cup Frames(stream)
                   \cup dgrams \cup lost = 1 .. sent
              /\ \A x \in Frames(buf) \cup Frames(stream) : x < f
              /\ \A k \in DOMAIN written : written[k] < f
  <2>1. {written[i] : i \in DOMAIN written} \cup Frames(buf) \cup Frames(stream)
          \cup dgrams \cup lost = 1 .. sent
    BY <1>13 DEF IInv, NothingElseLost
  <2>2. \A x \in 1 .. sent : x < f
    BY <1>2 DEF f
  <2>3. \A k \in DOMAIN written : written[k] \in 1 .. sent
    BY <2>1
  <2> QED BY <2>1, <2>2, <2>3
<1>14. OrderInv'
  <2> SUFFICES ASSUME whole' PROVE OrderInv'
    BY DEF OrderInv
  <2>1. over' = over /\ buf' = buf /\ written' = written /\ whole
    BY <1>1 DEF childVars, args
  <2>2. CASE over = "TCP"
    <3>1. /\ Ordered(stream) /\ Ordered(buf) /\ Precedes(buf, stream)
          /\ \A k \in DOMAIN written :
               /\ \A i \in DOMAIN buf : buf[i].kind = "frame" => written[k] < buf[i].id
               /\ \A i \in DOMAIN stream : stream[i].kind = "frame" => written[k] < stream[i].id
      BY <2>1, <2>2 DEF IInv, OrderInv
    <3>2. Ordered(stream')
      BY <1>1, <1>2, <1>3, <1>13, <2>1, <2>2, <3>1, AddOrdered
    <3>3. \A i \in DOMAIN stream' : stream'[i].id = f \/ (i \in DOMAIN stream /\ stream'[i] = stream[i])
      <4>1. \A i \in DOMAIN stream' : i \in DOMAIN stream \/ i = Len(stream) + 1 \/ i = Len(stream) + 2
        BY <1>3, <1>5, <2>2
      <4> QED BY <1>3, <1>5, <2>2, <4>1
    <3>4. \A i \in DOMAIN buf : buf[i].kind = "frame" => buf[i].id < f
      BY <1>13, <2>1 DEF Frames
    <3>5. Precedes(buf, stream')
      BY <3>1, <3>3, <3>4 DEF Precedes
    <3>6. \A k \in DOMAIN written : \A i \in DOMAIN stream' :
            stream'[i].kind = "frame" => written[k] < stream'[i].id
      BY <1>13, <2>1, <3>1, <3>3
    <3> QED BY <2>1, <2>2, <3>1, <3>2, <3>5, <3>6 DEF OrderInv
  <2>3. CASE over # "TCP"
    <3>1. \A k \in DOMAIN written : written[k] \notin dgrams
      BY <2>1, <2>3 DEF IInv, OrderInv
    <3>2. \A k \in DOMAIN written : written[k] # f
      <4>1. \A k \in DOMAIN written : written[k] \in 1 .. sent
        BY <1>13, <2>1
      <4> QED BY <1>2, <4>1 DEF f
    <3>3. \A k \in DOMAIN written' : written'[k] \notin dgrams'
      BY <1>1, <2>1, <2>3, <3>1, <3>2
    <3> QED BY <2>1, <2>3, <3>3 DEF OrderInv
  <2> QED BY <2>2, <2>3
<1>15. NothingElseLost'
  <2> SUFFICES ASSUME whole' PROVE NothingElseLost'
    BY DEF NothingElseLost
  <2>1. whole /\ over' = over /\ written' = written /\ buf' = buf /\ lost' = lost
    BY <1>1 DEF childVars, args
  <2>2. Frames(stream') \cup dgrams' = Frames(stream) \cup dgrams \cup {f}
    <3>1. CASE over = "TCP"
      <4>1. Frames(stream \o Item("frame", f)) = Frames(stream) \cup {f}
        BY <1>3, <1>4, AddFrames
      <4> QED BY <1>1, <3>1, <4>1
    <3>2. CASE over # "TCP"
      BY <1>1, <3>2
    <3> QED BY <3>1, <3>2
  <2>3. Frames(stream)' = Frames(stream') /\ Frames(buf)' = Frames(buf)
    BY <2>1 DEF Frames
  <2>4. 1 .. f = (1 .. sent) \cup {f}
    BY <1>2 DEF f
  <2>5. {written[i] : i \in DOMAIN written} \cup Frames(buf) \cup Frames(stream')
          \cup dgrams' \cup lost = 1 .. f
    BY <1>13, <2>1, <2>2, <2>4
  <2> QED BY <1>1, <2>1, <2>3, <2>5 DEF IInv, NothingElseLost
<1> QED BY <1>7, <1>8, <1>9, <1>10, <1>11, <1>12, <1>14, <1>15 DEF IInv

(* main connects, goes on without an answer, starts the child and ends:     *)
(* nothing moves in the stream.                                            *)
LEMMA MainStepsKeepIInv ==
  ASSUME IInv,
         Connect \/ BindFails \/ RefuseAddress \/ RecvNothing \/ StartChild
           \/ Interrupt \/ SetQuit \/ Join
  PROVE  IInv'
<1> USE ClientAssumption
    DEF Command, Frame, OPTIONS, DESCRIBE, SETUP, PLAY, TEARDOWN
<1>1. CASE Connect
  <2>1. (TypeOK /\ ControlInv)'
    BY <1>1 DEF IInv, Connect,
                 TypeOK, ControlInv, FileOpen,
                 args, srvVars, netVars, mainVars, childVars
  <2>2. (PlayInv /\ StepInv /\ KnownInv)'
    BY <1>1 DEF IInv, Connect,
                 TypeOK, ControlInv, PlayInv, StepInv, KnownInv, Answered,
                 OnlyFrames, FileOpen,
                 args, srvVars, netVars, mainVars, childVars
  <2>3. (PairInv /\ OrderInv)'
    BY <1>1 DEF IInv, Connect,
                 PairInv, OrderInv, Paired, Ordered, Precedes,
                 args, srvVars, netVars, mainVars, childVars
  <2>4. NothingElseLost'
    BY <1>1 DEF IInv, Connect,
                 NothingElseLost, Frames,
                 args, srvVars, netVars, mainVars, childVars
  <2> QED BY <2>1, <2>2, <2>3, <2>4 DEF IInv
<1>2. CASE BindFails
  <2>1. (TypeOK /\ ControlInv)'
    BY <1>2 DEF IInv, BindFails,
                 TypeOK, ControlInv, FileOpen,
                 args, srvVars, netVars, mainVars, childVars
  <2>2. (PlayInv /\ StepInv /\ KnownInv)'
    BY <1>2 DEF IInv, BindFails,
                 TypeOK, ControlInv, PlayInv, StepInv, KnownInv, Answered,
                 OnlyFrames, FileOpen,
                 args, srvVars, netVars, mainVars, childVars
  <2>3. (PairInv /\ OrderInv)'
    BY <1>2 DEF IInv, BindFails,
                 PairInv, OrderInv, Paired, Ordered, Precedes,
                 args, srvVars, netVars, mainVars, childVars
  <2>4. NothingElseLost'
    BY <1>2 DEF IInv, BindFails,
                 NothingElseLost, Frames,
                 args, srvVars, netVars, mainVars, childVars
  <2> QED BY <2>1, <2>2, <2>3, <2>4 DEF IInv
<1>3. CASE RefuseAddress
  <2>1. (TypeOK /\ ControlInv)'
    BY <1>3 DEF IInv, RefuseAddress,
                 TypeOK, ControlInv, FileOpen,
                 args, srvVars, netVars, mainVars, childVars
  <2>2. (PlayInv /\ StepInv /\ KnownInv)'
    BY <1>3 DEF IInv, RefuseAddress,
                 TypeOK, ControlInv, PlayInv, StepInv, KnownInv, Answered,
                 OnlyFrames, FileOpen,
                 args, srvVars, netVars, mainVars, childVars
  <2>3. (PairInv /\ OrderInv)'
    BY <1>3 DEF IInv, RefuseAddress,
                 PairInv, OrderInv, Paired, Ordered, Precedes,
                 args, srvVars, netVars, mainVars, childVars
  <2>4. NothingElseLost'
    BY <1>3 DEF IInv, RefuseAddress,
                 NothingElseLost, Frames,
                 args, srvVars, netVars, mainVars, childVars
  <2> QED BY <2>1, <2>2, <2>3, <2>4 DEF IInv
<1>4. CASE RecvNothing
  <2>1. (TypeOK /\ ControlInv)'
    BY <1>4 DEF IInv, RecvNothing, NextCommand, ReceiveFails, AfterNothing,
                 TypeOK, ControlInv, FileOpen,
                 args, srvVars, netVars, mainVars, childVars
  <2>2. (PlayInv /\ StepInv /\ KnownInv)'
    BY <1>4 DEF IInv, RecvNothing, NextCommand, ReceiveFails, AfterNothing,
                 TypeOK, ControlInv, PlayInv, StepInv, KnownInv, Answered,
                 OnlyFrames, FileOpen,
                 args, srvVars, netVars, mainVars, childVars
  <2>3. (PairInv /\ OrderInv)'
    BY <1>4 DEF IInv, RecvNothing, NextCommand, ReceiveFails, AfterNothing,
                 PairInv, OrderInv, Paired, Ordered, Precedes,
                 args, srvVars, netVars, mainVars, childVars
  <2>4. NothingElseLost'
    BY <1>4 DEF IInv, RecvNothing, NextCommand, ReceiveFails, AfterNothing,
                 NothingElseLost, Frames,
                 args, srvVars, netVars, mainVars, childVars
  <2> QED BY <2>1, <2>2, <2>3, <2>4 DEF IInv
<1>5. CASE StartChild
  <2>1. (TypeOK /\ ControlInv)'
    BY <1>5 DEF IInv, StartChild,
                 TypeOK, ControlInv, FileOpen,
                 args, srvVars, netVars, mainVars, childVars
  <2>2. (PlayInv /\ StepInv /\ KnownInv)'
    BY <1>5 DEF IInv, StartChild,
                 TypeOK, ControlInv, PlayInv, StepInv, KnownInv, Answered,
                 OnlyFrames, FileOpen,
                 args, srvVars, netVars, mainVars, childVars
  <2>3. (PairInv /\ OrderInv)'
    BY <1>5 DEF IInv, StartChild,
                 PairInv, OrderInv, Paired, Ordered, Precedes,
                 args, srvVars, netVars, mainVars, childVars
  <2>4. NothingElseLost'
    BY <1>5 DEF IInv, StartChild,
                 NothingElseLost, Frames,
                 args, srvVars, netVars, mainVars, childVars
  <2> QED BY <2>1, <2>2, <2>3, <2>4 DEF IInv
<1>6. CASE Interrupt
  <2>1. (TypeOK /\ ControlInv)'
    BY <1>6 DEF IInv, Interrupt,
                 TypeOK, ControlInv, FileOpen,
                 args, srvVars, netVars, mainVars, childVars
  <2>2. (PlayInv /\ StepInv /\ KnownInv)'
    BY <1>6 DEF IInv, Interrupt,
                 TypeOK, ControlInv, PlayInv, StepInv, KnownInv, Answered,
                 OnlyFrames, FileOpen,
                 args, srvVars, netVars, mainVars, childVars
  <2>3. (PairInv /\ OrderInv)'
    BY <1>6 DEF IInv, Interrupt,
                 PairInv, OrderInv, Paired, Ordered, Precedes,
                 args, srvVars, netVars, mainVars, childVars
  <2>4. NothingElseLost'
    BY <1>6 DEF IInv, Interrupt,
                 NothingElseLost, Frames,
                 args, srvVars, netVars, mainVars, childVars
  <2> QED BY <2>1, <2>2, <2>3, <2>4 DEF IInv
<1>7. CASE SetQuit
  <2>1. (TypeOK /\ ControlInv)'
    BY <1>7 DEF IInv, SetQuit,
                 TypeOK, ControlInv, FileOpen,
                 args, srvVars, netVars, mainVars, childVars
  <2>2. (PlayInv /\ StepInv /\ KnownInv)'
    BY <1>7 DEF IInv, SetQuit,
                 TypeOK, ControlInv, PlayInv, StepInv, KnownInv, Answered,
                 OnlyFrames, FileOpen,
                 args, srvVars, netVars, mainVars, childVars
  <2>3. (PairInv /\ OrderInv)'
    BY <1>7 DEF IInv, SetQuit,
                 PairInv, OrderInv, Paired, Ordered, Precedes,
                 args, srvVars, netVars, mainVars, childVars
  <2>4. NothingElseLost'
    BY <1>7 DEF IInv, SetQuit,
                 NothingElseLost, Frames,
                 args, srvVars, netVars, mainVars, childVars
  <2> QED BY <2>1, <2>2, <2>3, <2>4 DEF IInv
<1>8. CASE Join
  <2>1. (TypeOK /\ ControlInv)'
    BY <1>8 DEF IInv, Join,
                 TypeOK, ControlInv, FileOpen,
                 args, srvVars, netVars, mainVars, childVars
  <2>2. (PlayInv /\ StepInv /\ KnownInv)'
    BY <1>8 DEF IInv, Join,
                 TypeOK, ControlInv, PlayInv, StepInv, KnownInv, Answered,
                 OnlyFrames, FileOpen,
                 args, srvVars, netVars, mainVars, childVars
  <2>3. (PairInv /\ OrderInv)'
    BY <1>8 DEF IInv, Join,
                 PairInv, OrderInv, Paired, Ordered, Precedes,
                 args, srvVars, netVars, mainVars, childVars
  <2>4. NothingElseLost'
    BY <1>8 DEF IInv, Join,
                 NothingElseLost, Frames,
                 args, srvVars, netVars, mainVars, childVars
  <2> QED BY <2>1, <2>2, <2>3, <2>4 DEF IInv
<1> QED BY <1>1, <1>2, <1>3, <1>4, <1>5, <1>6, <1>7, <1>8


(* The child goes round its loop without having received anything.         *)
LEMMA ChildStepsKeepIInv ==
  ASSUME IInv,
         ChildLoop \/ ChildAborts \/ ChildRecvNothing
  PROVE  IInv'
<1> USE ClientAssumption
    DEF Command, Frame, OPTIONS, DESCRIBE, SETUP, PLAY, TEARDOWN
<1>1. CASE ChildLoop
  <2>1. (TypeOK /\ ControlInv)'
    BY <1>1 DEF IInv, ChildLoop, Ends,
                 TypeOK, ControlInv, FileOpen,
                 args, srvVars, netVars, mainVars, childVars
  <2>2. (PlayInv /\ StepInv /\ KnownInv)'
    BY <1>1 DEF IInv, ChildLoop, Ends,
                 TypeOK, ControlInv, PlayInv, StepInv, KnownInv, Answered,
                 OnlyFrames, FileOpen,
                 args, srvVars, netVars, mainVars, childVars
  <2>3. (PairInv /\ OrderInv)'
    BY <1>1 DEF IInv, ChildLoop, Ends,
                 PairInv, OrderInv, Paired, Ordered, Precedes,
                 args, srvVars, netVars, mainVars, childVars
  <2>4. NothingElseLost'
    BY <1>1 DEF IInv, ChildLoop, Ends,
                 NothingElseLost, Frames,
                 args, srvVars, netVars, mainVars, childVars
  <2> QED BY <2>1, <2>2, <2>3, <2>4 DEF IInv
<1>2. CASE ChildAborts
  <2>1. (TypeOK /\ ControlInv)'
    BY <1>2 DEF IInv, ChildAborts,
                 TypeOK, ControlInv, FileOpen,
                 args, srvVars, netVars, mainVars, childVars
  <2>2. (PlayInv /\ StepInv /\ KnownInv)'
    BY <1>2 DEF IInv, ChildAborts,
                 TypeOK, ControlInv, PlayInv, StepInv, KnownInv, Answered,
                 OnlyFrames, FileOpen,
                 args, srvVars, netVars, mainVars, childVars
  <2>3. (PairInv /\ OrderInv)'
    BY <1>2 DEF IInv, ChildAborts,
                 PairInv, OrderInv, Paired, Ordered, Precedes,
                 args, srvVars, netVars, mainVars, childVars
  <2>4. NothingElseLost'
    BY <1>2 DEF IInv, ChildAborts,
                 NothingElseLost, Frames,
                 args, srvVars, netVars, mainVars, childVars
  <2> QED BY <2>1, <2>2, <2>3, <2>4 DEF IInv
<1>3. CASE ChildRecvNothing
  <2>1. (TypeOK /\ ControlInv)'
    BY <1>3 DEF IInv, ChildRecvNothing, ReceiveFails,
                 TypeOK, ControlInv, FileOpen,
                 args, srvVars, netVars, mainVars, childVars
  <2>2. (PlayInv /\ StepInv /\ KnownInv)'
    BY <1>3 DEF IInv, ChildRecvNothing, ReceiveFails,
                 TypeOK, ControlInv, PlayInv, StepInv, KnownInv, Answered,
                 OnlyFrames, FileOpen,
                 args, srvVars, netVars, mainVars, childVars
  <2>3. (PairInv /\ OrderInv)'
    BY <1>3 DEF IInv, ChildRecvNothing, ReceiveFails,
                 PairInv, OrderInv, Paired, Ordered, Precedes,
                 args, srvVars, netVars, mainVars, childVars
  <2>4. NothingElseLost'
    BY <1>3 DEF IInv, ChildRecvNothing, ReceiveFails,
                 NothingElseLost, Frames,
                 args, srvVars, netVars, mainVars, childVars
  <2> QED BY <2>1, <2>2, <2>3, <2>4 DEF IInv
<1> QED BY <1>1, <1>2, <1>3


(* The server closes the connection; the network drops a datagram.         *)
LEMMA NetworkStepsKeepIInv ==
  ASSUME IInv,
         ServerCloses \/ Lose
  PROVE  IInv'
<1> USE ClientAssumption
    DEF Command, Frame, OPTIONS, DESCRIBE, SETUP, PLAY, TEARDOWN
<1>1. CASE ServerCloses
  <2>1. (TypeOK /\ ControlInv)'
    BY <1>1 DEF IInv, ServerCloses,
                 TypeOK, ControlInv, FileOpen,
                 args, srvVars, netVars, mainVars, childVars
  <2>2. (PlayInv /\ StepInv /\ KnownInv)'
    BY <1>1 DEF IInv, ServerCloses,
                 TypeOK, ControlInv, PlayInv, StepInv, KnownInv, Answered,
                 OnlyFrames, FileOpen,
                 args, srvVars, netVars, mainVars, childVars
  <2>3. (PairInv /\ OrderInv)'
    BY <1>1 DEF IInv, ServerCloses,
                 PairInv, OrderInv, Paired, Ordered, Precedes,
                 args, srvVars, netVars, mainVars, childVars
  <2>4. NothingElseLost'
    BY <1>1 DEF IInv, ServerCloses,
                 NothingElseLost, Frames,
                 args, srvVars, netVars, mainVars, childVars
  <2> QED BY <2>1, <2>2, <2>3, <2>4 DEF IInv
<1>2. CASE Lose
  <2>1. (TypeOK /\ ControlInv)'
    BY <1>2 DEF IInv, Lose,
                 TypeOK, ControlInv, FileOpen,
                 args, srvVars, netVars, mainVars, childVars
  <2>2. (PlayInv /\ StepInv /\ KnownInv)'
    BY <1>2 DEF IInv, Lose,
                 TypeOK, ControlInv, PlayInv, StepInv, KnownInv, Answered,
                 OnlyFrames, FileOpen,
                 args, srvVars, netVars, mainVars, childVars
  <2>3. (PairInv /\ OrderInv)'
    BY <1>2 DEF IInv, Lose,
                 PairInv, OrderInv, Paired, Ordered, Precedes,
                 args, srvVars, netVars, mainVars, childVars
  <2>4. NothingElseLost'
    BY <1>2 DEF IInv, Lose,
                 NothingElseLost, Frames,
                 args, srvVars, netVars, mainVars, childVars
  <2> QED BY <2>1, <2>2, <2>3, <2>4 DEF IInv
<1> QED BY <1>1, <1>2

(* A step that changes nothing.                                            *)
LEMMA StutteringKeepsIInv ==
  ASSUME IInv, UNCHANGED vars
  PROVE  IInv'
BY SMTT(30) DEF IInv, TypeOK, ControlInv, PlayInv, StepInv, KnownInv, PairInv, OrderInv,
       NothingElseLost, FileOpen, Answered, OnlyFrames, Paired,
       Ordered, Precedes, Frames,
       vars, args, srvVars, netVars, mainVars, childVars

(* Before the first step nothing is sent, received or written.             *)
LEMMA InitEstablishesIInv == Init => IInv
<1> SUFFICES ASSUME Init PROVE IInv
  OBVIOUS
<1> USE ClientAssumption
    DEF Init, Command, Frame, OPTIONS, DESCRIBE, SETUP, PLAY, TEARDOWN
<1>1. TypeOK
  <2>1. /\ stream \in Seq(Part) /\ buf \in Seq(Part)
        /\ written \in Seq(Frame \cup {Torn}) /\ requests \in Seq(OPTIONS .. TEARDOWN)
    OBVIOUS
  <2>2. {codec, port, quit, setup, playing, whole, opened} \subseteq BOOLEAN
    OBVIOUS
  <2>3. sent \in 0 .. MaxFrames /\ cmd \in Command /\ dgrams \subseteq Frame /\ lost \subseteq Frame
    OBVIOUS
  <2> QED BY <2>1, <2>2, <2>3 DEF TypeOK
<1>2. ControlInv /\ PlayInv /\ StepInv /\ KnownInv
  BY DEF ControlInv, PlayInv, StepInv, KnownInv, FileOpen, OnlyFrames
<1>3. PairInv /\ OrderInv
  BY DEF PairInv, OrderInv, Paired, Ordered, Precedes
<1>4. NothingElseLost
  BY DEF NothingElseLost, Frames
<1> QED BY <1>1, <1>2, <1>3, <1>4 DEF IInv

-----------------------------------------------------------------------------
(* The theorems.                                                           *)

(* IInv is an invariant of the client: whatever the order of its threads,  *)
(* the server and the network, and wherever recv cuts the stream.          *)
THEOREM InductiveInvariant == Spec => []IInv
<1>1. IInv /\ [Next]_vars => IInv'
  <2> SUFFICES ASSUME IInv, [Next]_vars PROVE IInv'
    OBVIOUS
  <2>1. CASE Main
    BY <2>1, MainStepsKeepIInv, SendCmdKeepsIInv, SendTeardownKeepsIInv,
       RecvResponseKeepsIInv DEF Main
  <2>2. CASE Interrupt
    BY <2>2, MainStepsKeepIInv
  <2>3. CASE Child
    BY <2>3, ChildStepsKeepIInv, ChildRecvKeepsIInv, ScanFrameKeepsIInv,
       AstrayKeepsIInv, ChildRecvUdpKeepsIInv DEF Child
  <2>4. CASE ServerAnswer \/ ServerFrame
    BY <2>4, ServerAnswerKeepsIInv, ServerFrameKeepsIInv
  <2>5. CASE ServerCloses \/ Lose
    BY <2>5, NetworkStepsKeepIInv
  <2>6. CASE UNCHANGED vars
    BY <2>6, StutteringKeepsIInv
  <2> QED BY <2>1, <2>2, <2>3, <2>4, <2>5, <2>6 DEF Next
<1> QED BY InitEstablishesIInv, <1>1, PTL DEF Spec

(* The variables keep their types.                                         *)
THEOREM TypeCorrect == Spec => []TypeOK
<1>1. IInv => TypeOK
  BY DEF IInv
<1> QED BY <1>1, InductiveInvariant, PTL

(* As long as every recv ended where a response or a frame ends, the       *)
(* client knows codec and port before anything is streamed: send_cmd_*     *)
(* takes each response for that of its own command.                        *)
THEOREM SessionIsReady == Spec => []SessionReady
<1>1. IInv => SessionReady
  BY DEF IInv, PlayInv, KnownInv, SessionReady, OPTIONS, DESCRIBE, SETUP, PLAY
<1> QED BY <1>1, InductiveInvariant, PTL

(* As long as every recv ended where a response or a frame ends, every     *)
(* frame sent is written once, over TCP in order, or on its way, or lost   *)
(* for a named reason: the loop over recv_buf skips none.                  *)
THEOREM NothingElseIsLost == Spec => []NothingElseLost
<1>1. IInv => NothingElseLost
  BY DEF IInv
<1> QED BY <1>1, InductiveInvariant, PTL

-----------------------------------------------------------------------------
(* Why the process ends.                                                   *)

(* What the ends depend on: main has its place in the order of the         *)
(* commands, nothing passes through a connection that was never made, a    *)
(* reset is not reported before the first command is sent, and the child   *)
(* runs between its start and the join, receiving from the connection over *)
(* TCP alone.                                                              *)
EndInv ==
  /\ EndsOnlyForCause
  /\ conn # "none" => mpc \in {"send", "recv"} \/ cmd = PLAY
  /\ conn = "dead" => cmd # OPTIONS \/ mpc = "recv"
  /\ conn = "none" => stream = <<>> /\ dgrams = {} /\ requests = <<>> /\ sent = 0
  /\ conn = "none" => buf = <<>> /\ written = <<>> /\ mpc \notin {"send", "recv"}
  /\ mpc = "freed" => cpc = "done"

(* Where main and the child are when the child has a packet in hand.       *)
LEMMA ChildRuns ==
  ASSUME IInv, EndInv, proc = "up", cpc \in {"recv", "scan"}
  PROVE  /\ mpc \in {"run", "teardown", "sleep", "join"}
         /\ FileOpen <=> mpc = "run"
BY DEF IInv, EndInv, ControlInv, TypeOK, FileOpen

(* Main keeps EndInv.                                                      *)
LEMMA MainKeepsEndInv ==
  ASSUME IInv, EndInv, Main \/ Interrupt
  PROVE  EndInv'
<1> USE DEF Command, OPTIONS, DESCRIBE, SETUP, PLAY, TEARDOWN, EndInv,
            EndsOnlyForCause, args, srvVars, netVars, mainVars, childVars
<1>1. CASE Connect
  BY <1>1 DEF Connect, IInv, ControlInv, FileOpen
<1>2. CASE BindFails
  BY <1>2 DEF BindFails, IInv, ControlInv, PlayInv, TypeOK, FileOpen
<1>3. CASE RefuseAddress
  BY <1>3 DEF RefuseAddress, IInv, ControlInv
<1>4. CASE SendCmd
  <2>1. /\ proc = "up" /\ mpc = "send" /\ conn # "none"
        /\ UNCHANGED <<over, opened, stream, dgrams, codec, buf, written, cpc, sent, whole>>
    BY <1>4 DEF SendCmd
  <2>2. conn = "dead" => cmd # OPTIONS
    BY <2>1
  <2>3. CASE NextCommand /\ UNCHANGED <<proc, conn, requests>> /\ cmd = SETUP
    BY <2>1, <2>3 DEF NextCommand
  <2>4. CASE Send(cmd, Answering, NextCommand)
    BY <2>1, <2>2, <2>4 DEF Send, Answering, NextCommand, IInv, TypeOK
  <2> QED BY <1>4, <2>3, <2>4 DEF SendCmd
<1>5. CASE RecvResponse
  BY <1>5 DEF RecvResponse, NextCommand, Receive, IInv, TypeOK
<1>6. CASE RecvNothing
  BY <1>6 DEF RecvNothing, ReceiveFails, AfterNothing, NextCommand, IInv, TypeOK
<1>7. CASE StartChild
  BY <1>7 DEF StartChild
<1>8. CASE SendTeardown
  BY <1>8 DEF SendTeardown, Send
<1>9. CASE SetQuit
  BY <1>9 DEF SetQuit
<1>10. CASE Join
  BY <1>10 DEF Join
<1>11. CASE Interrupt
  BY <1>11 DEF Interrupt
<1> QED BY <1>1, <1>2, <1>3, <1>4, <1>5, <1>6, <1>7, <1>8, <1>9, <1>10, <1>11 DEF Main

(* The child keeps EndInv.                                                 *)
LEMMA ChildKeepsEndInv ==
  ASSUME IInv, EndInv, Child
  PROVE  EndInv'
<1> USE DEF OPTIONS, PLAY, EndInv, EndsOnlyForCause,
            args, srvVars, netVars, mainVars, childVars
<1>1. CASE ChildLoop
  BY <1>1 DEF ChildLoop
<1>2. CASE ChildAborts
  BY <1>2, ChildRuns DEF ChildAborts
<1>3. CASE ChildRecv
  BY <1>3 DEF ChildRecv, Receive
<1>4. CASE ChildRecvNothing
  BY <1>4, ChildRuns DEF ChildRecvNothing, ReceiveFails
<1>5. CASE ScanFrame \/ ScanCutFrame \/ ScanForeign \/ ScanMistaken
  <2>1. /\ proc = "up" /\ cpc = "scan" /\ over = "TCP" /\ buf # <<>>
        /\ UNCHANGED <<args, netVars, mainVars, srvVars, whole>>
    BY <1>5, ScanBuf DEF ScanFrame, ScanCutFrame, ScanForeign, ScanMistaken
  <2>2. ~ScanFrame => ~whole
    BY <1>5, <2>1, ScanBuf DEF ScanCutFrame, ScanForeign, ScanMistaken
  <2>3. proc' = "up" \/ (proc' = "crash" /\ codec /\ (~whole \/ (opened /\ ~FileOpen)))
    BY <1>5, <2>1, <2>2
       DEF ScanFrame, ScanCutFrame, ScanForeign, ScanMistaken, Callback
  <2>4. conn # "none"
    BY <2>1
  <2> QED BY <2>1, <2>3, <2>4, ChildRuns
<1>6. CASE ChildRecvUdp
  <2>1. /\ proc = "up" /\ cpc = "recv" /\ dgrams # {}
        /\ UNCHANGED <<args, conn, stream, mainVars, buf, srvVars, whole>>
    BY <1>6 DEF ChildRecvUdp
  <2>2. proc' = "up" \/ (proc' = "crash" /\ codec /\ opened /\ ~FileOpen)
    BY <1>6, <2>1 DEF ChildRecvUdp, Callback
  <2> QED BY <1>6, <2>1, <2>2, ChildRuns
<1> QED BY <1>1, <1>2, <1>3, <1>4, <1>5, <1>6 DEF Child

(* The server and the network keep EndInv.                                 *)
LEMMA PeerKeepsEndInv ==
  ASSUME IInv, EndInv, ServerAnswer \/ ServerFrame \/ ServerCloses \/ Lose
  PROVE  EndInv'
<1> USE DEF OPTIONS, PLAY, EndInv, EndsOnlyForCause,
            args, srvVars, netVars, mainVars, childVars
<1>1. CASE ServerAnswer \/ ServerFrame \/ ServerCloses
  <2>1. /\ conn = "open" /\ conn' \in {"open", "fin", "rst"}
        /\ UNCHANGED <<proc, args, mainVars, childVars, whole>>
    BY <1>1 DEF ServerAnswer, ServerFrame, ServerCloses
  <2>2. cmd' = cmd /\ mpc' = mpc /\ cpc' = cpc /\ proc' = proc
    BY <2>1
  <2>3. EndsOnlyForCause'
    BY <2>1
  <2> QED BY <2>1, <2>2, <2>3
<1>2. CASE Lose
  BY <1>2 DEF Lose
<1> QED BY <1>1, <1>2

(* The process crashes, fails an assertion or is killed by SIGPIPE only    *)
(* for a named cause.  It crashes when main closes a file that was never   *)
(* opened; and with a known codec, when over TCP a recv has ended within   *)
(* an item, or between fclose and the end of the child.  An assertion      *)
(* fails only when no connection was ever made.  SIGPIPE comes only to     *)
(* main, with a command or the TEARDOWN, after an earlier call has         *)
(* reported a reset, never with the first command.                         *)
THEOREM EndsForCause == Spec => []EndsOnlyForCause
<1>1. Init => EndInv
  BY DEF Init, EndInv, EndsOnlyForCause
<1>2. IInv /\ EndInv /\ [Next]_vars => EndInv'
  <2> SUFFICES ASSUME IInv, EndInv, [Next]_vars PROVE EndInv'
    OBVIOUS
  <2>1. CASE UNCHANGED vars
    BY <2>1 DEF EndInv, EndsOnlyForCause, vars, args, srvVars, netVars, mainVars, childVars
  <2> QED BY <2>1, MainKeepsEndInv, ChildKeepsEndInv, PeerKeepsEndInv DEF Next
<1>3. EndInv => EndsOnlyForCause
  BY DEF EndInv
<1> QED BY InductiveInvariant, <1>1, <1>2, <1>3, PTL DEF Spec
=============================================================================
