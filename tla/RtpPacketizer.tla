--------------------------- MODULE RtpPacketizer ----------------------------
(***************************************************************************)
(* The RTP payload format both ends use: how rtp_send_nalu of              *)
(* rtsp_server/ab_rtsp_server.c cuts a NAL unit into packets, and what the *)
(* client (rtsp_client/ab_rtsp_client.c) writes for one packet.            *)
(*                                                                         *)
(* A byte is a number of 0 .. 255; masks and shifts are written with \div  *)
(* and %.  Of the headers in front of the payload only their length is     *)
(* kept here.                                                              *)
(***************************************************************************)
EXTENDS Integers, Sequences

CONSTANTS
  MaxSize,     \* RTP_MAX_SIZE, 1370
  BufferSize   \* rtp_buffer.size, 1400

VARIABLE codec   \* video_codec of both ends, fixed before the first packet

(* The packet and its headers (4 + 12 + 3) fit the buffer it is built in.  *)
ASSUME PacketizerAssumption ==
  /\ MaxSize \in Nat /\ MaxSize > 2
  /\ BufferSize \in Nat /\ BufferSize >= MaxSize + 19

Codecs == {"H264", "H265"}
Byte == 0 .. 255
Unit == {u \in Seq(Byte) : u # <<>>}

InterleavedLen == 4   \* sizeof(ab_rtsp_interleaved_frame_t)
RtpHeaderLen == 12    \* sizeof(ab_rtp_header_t)

HeaderLen == IF codec = "H264" THEN 2 ELSE 3
DataOffset == IF codec = "H264" THEN 1 ELSE 2

-----------------------------------------------------------------------------
(* The server.                                                             *)

(* Fault: a unit is cut only when it is longer than the buffer itself.     *)
FragmentedLate(u) == Len(u) > BufferSize

Fragmented(u) == Len(u) >= MaxSize

DataLen(u) == Len(u) - DataOffset
Remain(u) == DataLen(u) % MaxSize

(* Fault: the last, shorter slice is forgotten.                            *)
RestSlicesNone(u) == 0

RestSlices(u) == IF Remain(u) = 0 THEN 0 ELSE 1

(* The number of packets of a unit.                                        *)
SliceNum(u) ==
  IF Fragmented(u) THEN DataLen(u) \div MaxSize + RestSlices(u) ELSE 1

(* The bytes of the unit that packet i carries when it is fragmented.      *)
PkgDataLen(u, i) ==
  IF i < SliceNum(u) - 1 \/ Remain(u) = 0 THEN MaxSize ELSE Remain(u)

(* Fault: an only slice is marked as the last, not as the first.           *)
SliceFlagEndFirst(total, i) ==
  IF i = total - 1 THEN 64 ELSE IF i = 0 THEN 128 ELSE 0

(* Bits 0x80 (first slice) and 0x40 (last slice) of the slice header.      *)
SliceFlag(total, i) ==
  IF i = 0 THEN 128 ELSE IF i = total - 1 THEN 64 ELSE 0

(* set_h264_slice_header and set_h265_slice_header.                        *)
SliceHeader(t, total, i) ==
  IF codec = "H264"
  THEN << (((t \div 32) % 4) * 32) + 28, (t % 32) + SliceFlag(total, i) >>
  ELSE << 98, 1, ((t \div 2) % 64) + SliceFlag(total, i) >>

(* What follows the RTP header in packet i of the unit u.                  *)
Payload(u, i) ==
  IF Fragmented(u)
  THEN LET start == i * MaxSize + DataOffset
       IN SliceHeader(u[1], SliceNum(u), i)
            \o SubSeq(u, start + 1, start + PkgDataLen(u, i))
  ELSE u

(* rtp_buffer.used when packet i is sent.                                  *)
BufferUsed(u, i) == InterleavedLen + RtpHeaderLen + Len(Payload(u, i))

(* The units after which the timestamp stands still, (type & 0x1f) of the  *)
(* first byte whatever the codec: SPS and PPS in H.264.                    *)
IsParameterSet(u) == u[1] % 32 \in {7, 8}

-----------------------------------------------------------------------------
(* The client.                                                             *)

StartCode == <<0, 0, 0, 1>>   \* the bytes of the int 0x1000000

(* The payload is a slice of a fragmented unit, and the first one.         *)
IsSlice(p) == IF codec = "H264" THEN p[1] % 32 \in {28, 29}
                                ELSE p[1] = 98 /\ p[2] = 1
IsFirstSlice(p) == IF codec = "H264" THEN p[2] \div 32 = 4
                                     ELSE p[3] \div 64 = 2

(* The header of the unit, put together from its first slice.              *)
UnitHeader(p) == IF codec = "H264"
                 THEN << ((p[1] \div 32) * 32) + (p[2] % 32) >>
                 ELSE << (p[3] * 2) % 128, 1 >>

Data(p) == SubSeq(p, HeaderLen + 1, Len(p))

(* The bytes the callback is given for a packet with the payload p.        *)
Written(p) ==
  IF ~IsSlice(p) THEN StartCode \o p
  ELSE IF IsFirstSlice(p) THEN StartCode \o UnitHeader(p) \o Data(p)
  ELSE Data(p)

(* The units of codec c that the two ends can carry.  The bits of a header *)
(* that a slice header has no room for must be 0, in H.265 its second byte *)
(* 1 (LayerId 0, TID 1); and a unit sent whole must not look like a slice. *)
Carriable(c, u) ==
  /\ c = "H264" => IF Fragmented(u) THEN u[1] < 128 ELSE u[1] % 32 \notin {28, 29}
  /\ c = "H265" => /\ Len(u) > 1 /\ u[1] < 128 /\ u[1] % 2 = 0
                   /\ IF Fragmented(u) THEN u[2] = 1 ELSE ~(u[1] = 98 /\ u[2] = 1)
=============================================================================
