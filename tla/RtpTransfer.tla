----------------------------- MODULE RtpTransfer -----------------------------
(***************************************************************************)
(* A stream on its way from rtp_send_nalu to the callback of a playing     *)
(* client, over UDP (process_rtp_over_udp).  The network may lose and      *)
(* reorder datagrams; nothing is retried or sorted, since the client looks *)
(* at no RTP header.                                                       *)
(***************************************************************************)
EXTENDS RtpPacketizer

CONSTANTS
  Units,      \* the NAL units the server may be given, per codec
  MaxUnits,   \* bound: units sent
  MaxWire,    \* bound: datagrams in the network, or in the socket's buffer
  SeqMod,     \* 2^16: rtsp->sequence is a uint16_t
  StampMod,   \* 2^32: rtsp->timestamp is a uint32_t
  StampStep   \* 90000 / 25

ASSUME TransferAssumption ==
  /\ Units \in [Codecs -> SUBSET Unit]
  /\ MaxUnits \in Nat /\ MaxWire \in Nat
  /\ {SeqMod, StampMod, StampStep} \subseteq Nat \ {0} /\ StampStep < StampMod

(* Nothing else is sent.                                                  *)
ASSUME CarriableAssumption == \A c \in Codecs : \A u \in Units[c] : Carriable(c, u)

VARIABLES
  units,      \* history: the units rtp_send_nalu was called with
  slice,      \* packets of the last of them already sent
  sequence,   \* rtsp->sequence
  timestamp,  \* rtsp->timestamp
  wire,       \* datagrams not received yet
  log,        \* history: the datagrams sent
  delivered,  \* history: the datagrams received
  out         \* what the client's callback was given

vars == <<codec, units, slice, sequence, timestamp, wire, log, delivered, out>>

Datagram == [seq : 0 .. SeqMod - 1, stamp : 0 .. StampMod - 1,
             unit : 1 .. MaxUnits, payload : Seq(Byte)]

TypeOK ==
  /\ codec \in Codecs
  /\ units \in Seq(Units[codec]) /\ Len(units) <= MaxUnits
  /\ slice \in Nat
  /\ sequence \in 0 .. SeqMod - 1
  /\ timestamp \in 0 .. StampMod - 1
  /\ wire \in Seq(Datagram) /\ log \in Seq(Datagram)
  /\ delivered \in Seq(Datagram)
  /\ out \in Seq(Byte)

Init ==
  /\ codec \in Codecs
  /\ units = <<>> /\ slice = 0
  /\ sequence = 0 /\ timestamp = 0
  /\ wire = <<>> /\ log = <<>> /\ delivered = <<>>
  /\ out = <<>>

Current == units[Len(units)]

(* rtp_send_nalu is inside its loop over the slices.                       *)
Sending == units # <<>> /\ slice < SliceNum(Current)

RtpSendNalu(u) ==
  /\ ~Sending /\ Len(units) < MaxUnits
  /\ units' = Append(units, u)
  /\ slice' = 0
  /\ UNCHANGED <<codec, sequence, timestamp, wire, log, delivered, out>>

(* Fault: the timestamp advances with every packet.                        *)
StampAfterEach(u, i) ==
  IF IsParameterSet(u) THEN timestamp ELSE (timestamp + StampStep) % StampMod

(* The timestamp once packet i of the unit u is sent.                      *)
StampAfter(u, i) ==
  IF i < SliceNum(u) - 1 \/ IsParameterSet(u) THEN timestamp
  ELSE (timestamp + StampStep) % StampMod

(* Fault: the sequence number is kept in a wider integer.                  *)
IncrementedWide(n) == n + 1

(* ++rtsp->sequence, a uint16_t.                                           *)
Incremented(n) == (n + 1) % SeqMod

(* The next packet of the unit.                                            *)
SendPacket ==
  LET d == [seq |-> sequence, stamp |-> timestamp, unit |-> Len(units),
            payload |-> Payload(Current, slice)]
  IN /\ Sending /\ Len(wire) < MaxWire
     /\ wire' = Append(wire, d) /\ log' = Append(log, d)
     /\ sequence' = Incremented(sequence)
     /\ timestamp' = StampAfter(Current, slice)
     /\ slice' = slice + 1
     /\ UNCHANGED <<codec, units, delivered, out>>

Without(s, k) == SubSeq(s, 1, k - 1) \o SubSeq(s, k + 1, Len(s))

(* process_rtp_over_udp: one datagram of the server is received.           *)
ProcessRtpOverUdp(k) ==
  /\ delivered' = Append(delivered, wire[k])
  /\ out' = out \o Written(wire[k].payload)
  /\ wire' = Without(wire, k)
  /\ UNCHANGED <<codec, units, slice, sequence, timestamp, log>>

Lose(k) ==
  /\ wire' = Without(wire, k)
  /\ UNCHANGED <<codec, units, slice, sequence, timestamp, log, delivered, out>>

Next ==
  \/ \E u \in Units[codec] : RtpSendNalu(u)
  \/ SendPacket
  \/ \E k \in DOMAIN wire : ProcessRtpOverUdp(k) \/ Lose(k)

Spec == Init /\ [][Next]_vars

-----------------------------------------------------------------------------
(* The bytes of a stream of units with a start code before each.           *)
Stream[k \in 0 .. MaxUnits] ==
  IF k = 0 THEN <<>> ELSE Stream[k - 1] \o StartCode \o units[k]

Prefix(s, t) == Len(s) <= Len(t) /\ s = SubSeq(t, 1, Len(s))

(* As long as nothing is lost or reordered, the client writes the stream   *)
(* the server was given, byte by byte: no slice of a unit is forgotten,    *)
(* doubled or misplaced, whatever its length is modulo RTP_MAX_SIZE, and   *)
(* its header is restored.                                                 *)
ClientWritesTheStream ==
  /\ Prefix(delivered, log) => Prefix(out, Stream[Len(units)])
  /\ ~Sending /\ delivered = log => out = Stream[Len(units)]

(* Over any network: a unit all packets of which arrive in a row is        *)
(* written intact, with its start code, whatever arrives around it.        *)
IntactUnitsSurvive ==
  \A k \in 1 .. Len(units) :
    LET n == SliceNum(units[k])
        whole(j) == \A i \in 1 .. n : /\ delivered[j + i].unit = k
                                      /\ delivered[j + i].payload = Payload(units[k], i - 1)
        text == StartCode \o units[k]
    IN (\E j \in 0 .. Len(delivered) - n : whole(j)) =>
       \E p \in 0 .. Len(out) - Len(text) : text = SubSeq(out, p + 1, p + Len(text))

(* Every packet fits the buffer it is built in: the memcpy of the data and *)
(* the headers before it stay inside rtp_buffer.                           *)
PacketsFitBuffer ==
  Sending => BufferUsed(Current, slice) <= BufferSize

(* The types after which the next unit has the same timestamp: SPS (7) and *)
(* PPS (8) of H.264; in H.265, where the mask 0x1f cuts the type, STSA_N   *)
(* (4), IDR_N_LP (20), EOS (36) and the reserved type 52.                  *)
KeepsStamp(u) == IF codec = "H264" THEN u[1] % 32 \in {7, 8}
                                   ELSE u[1] \div 2 \in {4, 20, 36, 52}

(* All packets of a unit carry one timestamp, and the unit after it has    *)
(* another one unless the type of the unit keeps it, across the wrap.      *)
UnitsHaveOwnTimestamp ==
  \A i, j \in DOMAIN log :
    /\ log[i].unit = log[j].unit => log[i].stamp = log[j].stamp
    /\ log[j].unit = log[i].unit + 1 =>
         (log[i].stamp = log[j].stamp) = KeepsStamp(units[log[i].unit])
=============================================================================
