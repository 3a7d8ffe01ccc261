------------------------- MODULE RtpTransferProofs --------------------------
(***************************************************************************)
(* What a stream becomes on its way to the callback of a playing client,   *)
(* for every RTP_MAX_SIZE, every width of the counters, and any number of  *)
(* units of any length.                                                    *)
(*                                                                         *)
(* First, what the slicing of rtp_send_nalu guarantees for every unit: the *)
(* slices tile it, every packet fits rtp_buffer, and the client writes the *)
(* unit, its header restored, from its packets.                            *)
(***************************************************************************)
EXTENDS RtpTransfer, Induction, SequenceTheorems, TLAPS

-----------------------------------------------------------------------------
(* The slices of a unit.                                                   *)

(* Division with remainder.                                                *)
LEMMA DivMod ==
  ASSUME NEW n \in Nat, NEW m \in Nat \ {0}
  PROVE  /\ n \div m \in Nat /\ n % m \in 0 .. m - 1
         /\ n = m * (n \div m) + (n % m)
  BY SMT

(* Multiplication keeps the order.                                         *)
LEMMA TimesMonotonic ==
  ASSUME NEW a \in Nat, NEW b \in Nat, NEW m \in Nat, a <= b
  PROVE  a * m <= b * m
BY SMT

(* The header of a unit is one byte long in H.264 and two in H.265.        *)
LEMMA DataOffsetType == DataOffset \in {1, 2}
BY DEF DataOffset

(* The slices of a fragmented unit tile its data: every slice but the last *)
(* has RTP_MAX_SIZE bytes, the last has the rest, none is empty, and the   *)
(* last one ends where the unit does (lines 430 to 446).                   *)
THEOREM SlicesTile ==
  ASSUME NEW u \in Unit, Fragmented(u)
  PROVE  /\ SliceNum(u) \in Nat \ {0}
         /\ \A i \in 0 .. SliceNum(u) - 1 : PkgDataLen(u, i) \in 1 .. MaxSize
         /\ \A i \in 0 .. SliceNum(u) - 2 : PkgDataLen(u, i) = MaxSize
         /\ (SliceNum(u) - 1) * MaxSize + PkgDataLen(u, SliceNum(u) - 1) = DataLen(u)
<1> DEFINE q == DataLen(u) \div MaxSize
           r == DataLen(u) % MaxSize
<1>1. DataLen(u) \in Nat \ {0} /\ MaxSize \in Nat \ {0}
  BY PacketizerAssumption, DataOffsetType DEF Fragmented, DataLen, Unit
<1>2. q \in Nat /\ r \in 0 .. MaxSize - 1 /\ DataLen(u) = MaxSize * q + r
  BY <1>1, DivMod
<1>3. SliceNum(u) = IF r = 0 THEN q ELSE q + 1
  BY <1>2 DEF SliceNum, RestSlices, Remain
<1>4. \A i : PkgDataLen(u, i) = IF i < SliceNum(u) - 1 \/ r = 0 THEN MaxSize ELSE r
  BY DEF PkgDataLen, Remain
<1> HIDE DEF q, r
<1>5. CASE r = 0
  <2>1. q # 0
    BY <1>1, <1>2, <1>5
  <2>2. (q - 1) * MaxSize + MaxSize = MaxSize * q
    BY <1>1, <1>2
  <2> QED BY <1>1, <1>2, <1>3, <1>4, <1>5, <2>1, <2>2
<1>6. CASE r # 0
  <2>1. SliceNum(u) - 1 = q /\ q * MaxSize = MaxSize * q
    BY <1>1, <1>2, <1>3, <1>6
  <2>2. SliceNum(u) \in Nat \ {0}
    BY <1>2, <1>3, <1>6
  <2>3. \A i \in 0 .. SliceNum(u) - 1 : PkgDataLen(u, i) \in 1 .. MaxSize
    BY <1>1, <1>2, <1>4, <1>6
  <2>4. \A i \in 0 .. SliceNum(u) - 2 : PkgDataLen(u, i) = MaxSize
    BY <1>4, <2>2
  <2>5. PkgDataLen(u, SliceNum(u) - 1) = r
    BY <1>2, <1>4, <1>6, <2>1
  <2> QED BY <1>2, <2>1, <2>2, <2>3, <2>4, <2>5
<1> QED BY <1>5, <1>6

(* A packet with all its headers is at most BufferSize bytes long.         *)
LEMMA PacketFits ==
  ASSUME NEW u \in Unit, NEW i \in Nat, i < SliceNum(u)
  PROVE  BufferUsed(u, i) <= BufferSize
<1>1. CASE ~Fragmented(u)
  <2>1. Payload(u, i) = u /\ Len(u) \in Nat /\ Len(u) < MaxSize
    BY <1>1, PacketizerAssumption DEF Payload, Fragmented, Unit
  <2> QED BY <2>1, PacketizerAssumption DEF BufferUsed, InterleavedLen, RtpHeaderLen
<1>2. CASE Fragmented(u)
  <2> DEFINE start == i * MaxSize + DataOffset
             header == SliceHeader(u[1], SliceNum(u), i)
             data == SubSeq(u, start + 1, start + PkgDataLen(u, i))
  <2>1. PkgDataLen(u, i) \in 1 .. MaxSize
    BY <1>2, SlicesTile
  <2>2. header \in Seq(Int) /\ Len(header) <= 3
    <3>1. u[1] \in Int
      <4>1. u \in Seq(Byte) /\ 1 \in 1 .. Len(u)
        BY <1>2, PacketizerAssumption DEF Fragmented, Unit
      <4>2. u[1] \in Byte
        BY <4>1, ElementOfSeq
      <4> QED BY <4>2 DEF Byte
    <3>2. SliceFlag(SliceNum(u), i) \in Int
      BY DEF SliceFlag
    <3>3. /\ ((u[1] \div 32) % 4) * 32 + 28 \in Int
          /\ (u[1] % 32) + SliceFlag(SliceNum(u), i) \in Int
          /\ ((u[1] \div 2) % 64) + SliceFlag(SliceNum(u), i) \in Int
      BY <3>1, <3>2
    <3> QED BY <3>3 DEF SliceHeader
  <2>3. start \in Nat
    BY PacketizerAssumption, DataOffsetType
  <2>4. start + PkgDataLen(u, i) <= Len(u)
    <3> DEFINE n == SliceNum(u) - 1
    <3>1. n \in Nat /\ i <= n /\ n * MaxSize + PkgDataLen(u, n) = DataLen(u)
      BY <1>2, SlicesTile
    <3>2. i * MaxSize + PkgDataLen(u, i) <= DataLen(u)
      <4>1. CASE i = n
        BY <3>1, <4>1, <2>1, PacketizerAssumption
      <4>2. CASE i < n
        <5>1. PkgDataLen(u, i) = MaxSize /\ PkgDataLen(u, n) \in Nat
          BY <1>2, <3>1, <4>2, SlicesTile
        <5>2. (i + 1) * MaxSize <= n * MaxSize
          BY <3>1, <4>2, TimesMonotonic, PacketizerAssumption
        <5>3. (i + 1) * MaxSize = i * MaxSize + MaxSize
          BY PacketizerAssumption
        <5> QED BY <3>1, <5>1, <5>2, <5>3, PacketizerAssumption
      <4> QED BY <3>1, <4>1, <4>2
    <3> QED BY <3>2, <2>1, DataOffsetType, PacketizerAssumption DEF DataLen, Unit
  <2>5. data \in Seq(Byte) /\ Len(data) = PkgDataLen(u, i)
    BY <2>1, <2>3, <2>4 DEF Unit
  <2>6. Payload(u, i) = header \o data
    BY <1>2 DEF Payload
  <2>7. Len(Payload(u, i)) = Len(header) + Len(data)
    BY <2>2, <2>5, <2>6
  <2> QED BY SMTT(30), <2>1, <2>2, <2>5, <2>7, PacketizerAssumption DEF BufferUsed, InterleavedLen, RtpHeaderLen
<1> QED BY <1>1, <1>2

-----------------------------------------------------------------------------
(* What the client writes for the packets of a unit.                       *)

Text(u) == StartCode \o u

(* How many bytes of Text(u) the packets before packet i carry.            *)
Bound(u, i) ==
  IF i = 0 THEN 0
  ELSE IF i = SliceNum(u) THEN 4 + Len(u) ELSE 4 + DataOffset + i * MaxSize

(* The bytes of s from offset a up to offset b.                            *)
LEMMA CutBytes ==
  ASSUME NEW s \in Seq(Byte), NEW a \in Nat, NEW b \in Nat, a <= b, b <= Len(s)
  PROVE  /\ SubSeq(s, a + 1, b) \in Seq(Byte) /\ Len(SubSeq(s, a + 1, b)) = b - a
         /\ \A k \in 1 .. b - a : SubSeq(s, a + 1, b)[k] = s[a + k]
<1>1. \A i \in a + 1 .. b : s[i] \in Byte
  OBVIOUS
<1>2. /\ SubSeq(s, a + 1, b) \in Seq(Byte)
      /\ Len(SubSeq(s, a + 1, b)) = IF a + 1 <= b THEN b - (a + 1) + 1 ELSE 0
      /\ \A i \in 1 .. b - (a + 1) + 1 : SubSeq(s, a + 1, b)[i] = s[a + 1 + i - 1]
  BY <1>1, SubSeqProperties
<1>3. \A k \in 1 .. b - a : a + 1 + k - 1 = a + k /\ k \in 1 .. b - (a + 1) + 1
  OBVIOUS
<1>4. ASSUME NEW k \in 1 .. b - a PROVE SubSeq(s, a + 1, b)[k] = s[a + k]
  BY <1>2, <1>3
<1> QED BY <1>2, <1>4

(* A unit begins with a byte.                                              *)
LEMMA UnitBytes ==
  ASSUME NEW u \in Unit
  PROVE  /\ u \in Seq(Byte) /\ Len(u) \in Nat /\ Len(u) > 0 /\ DOMAIN u = 1 .. Len(u)
         /\ \A k \in 1 .. Len(u) : u[k] \in Byte
<1>1. u \in Seq(Byte) /\ u # <<>>
  BY DEF Unit
<1>2. Len(u) > 0
  BY <1>1, EmptySeq
<1> QED BY <1>1, <1>2

(* What Text(u) is made of.                                                *)
LEMMA TextBytes ==
  ASSUME NEW u \in Unit
  PROVE  /\ Text(u) \in Seq(Byte) /\ Len(Text(u)) = 4 + Len(u)
         /\ \A k \in 1 .. 4 : Text(u)[k] = StartCode[k]
         /\ \A k \in 1 .. Len(u) : Text(u)[4 + k] = u[k]
<1>1. u \in Seq(Byte) /\ Len(u) \in Nat /\ Len(u) > 0
  BY UnitBytes
<1>2. StartCode \in Seq(Byte) /\ Len(StartCode) = 4
  BY DEF StartCode, Byte
<1> HIDE DEF StartCode
<1>3. /\ StartCode \o u \in Seq(Byte) /\ Len(StartCode \o u) = Len(StartCode) + Len(u)
      /\ \A i \in 1 .. Len(StartCode) + Len(u) :
           (StartCode \o u)[i] = IF i <= Len(StartCode) THEN StartCode[i]
                                 ELSE u[i - Len(StartCode)]
  BY <1>1, <1>2, ConcatProperties
<1>4. ASSUME NEW k \in 1 .. Len(u) PROVE (StartCode \o u)[4 + k] = u[k]
  <2>1. 4 + k \in 1 .. Len(StartCode) + Len(u) /\ ~(4 + k <= Len(StartCode))
        /\ 4 + k - Len(StartCode) = k
    BY <1>1, <1>2
  <2> QED BY <1>3, <2>1
<1>5. ASSUME NEW k \in 1 .. 4 PROVE (StartCode \o u)[k] = StartCode[k]
  BY <1>1, <1>2, <1>3
<1> QED BY <1>1, <1>2, <1>3, <1>4, <1>5 DEF Text

(* A fragmented unit: where slice i begins and ends.                       *)
LEMMA SliceBounds ==
  ASSUME NEW u \in Unit, Fragmented(u), NEW i \in 0 .. SliceNum(u) - 1
  PROVE  LET start == i * MaxSize + DataOffset
         IN /\ start \in Nat /\ start >= DataOffset
            /\ PkgDataLen(u, i) \in 1 .. MaxSize
            /\ start + PkgDataLen(u, i) <= Len(u)
            /\ Bound(u, i + 1) = 4 + start + PkgDataLen(u, i)
            /\ i > 0 => Bound(u, i) = 4 + start
<1> DEFINE n == SliceNum(u) - 1
           here == i * MaxSize
           before == n * MaxSize
           start == here + DataOffset
           len == PkgDataLen(u, i)
<1>1. /\ n \in Nat /\ i \in 0 .. n /\ SliceNum(u) = n + 1
      /\ MaxSize \in Nat /\ Len(u) \in Nat
      /\ DataOffset \in {1, 2} /\ DataOffset + DataLen(u) = Len(u) /\ DataLen(u) \in Int
      /\ here \in Nat /\ before \in Nat
  BY SlicesTile, PacketizerAssumption, UnitBytes, DataOffsetType DEF DataLen
<1>2. len \in 1 .. MaxSize
  BY SlicesTile
<1>3. before + PkgDataLen(u, n) = DataLen(u) /\ PkgDataLen(u, n) \in 1 .. MaxSize
  BY SMTT(30), <1>1, SlicesTile
<1>4. i > 0 /\ i # SliceNum(u) => Bound(u, i) = 4 + DataOffset + here
  BY DEF Bound
<1>5. i + 1 # SliceNum(u) => Bound(u, i + 1) = 4 + DataOffset + (i + 1) * MaxSize
  BY SMTT(30), <1>1 DEF Bound
<1>6. i + 1 = SliceNum(u) => Bound(u, i + 1) = 4 + Len(u)
  BY <1>1 DEF Bound
<1>7. i < n => len = MaxSize
  <2>1. i < n => i \in 0 .. SliceNum(u) - 2
    BY <1>1
  <2> QED BY <2>1, SlicesTile
<1>8. (i + 1) * MaxSize = here + MaxSize /\ (i < n => (i + 1) * MaxSize <= before)
  BY <1>1, TimesMonotonic
<1>9. i = n => here = before /\ len = PkgDataLen(u, n)
  OBVIOUS
<1> HIDE DEF n, here, before, len
<1>10. start \in Nat /\ start >= DataOffset
  BY <1>1
<1>11. start + len <= Len(u)
  BY <1>1, <1>2, <1>3, <1>7, <1>8, <1>9
<1>12. Bound(u, i + 1) = 4 + start + len
  <2>1. CASE i = n
    <3>1. Bound(u, i + 1) = 4 + Len(u)
      BY <1>1, <1>6, <2>1
    <3>2. here + len = DataLen(u)
      BY <1>3, <1>9, <2>1
    <3> QED BY <1>1, <1>2, <3>1, <3>2
  <2>2. CASE i < n
    BY <1>1, <1>5, <1>7, <1>8, <2>2
  <2> QED BY <1>1, <2>1, <2>2
<1>13. i > 0 => Bound(u, i) = 4 + start
  BY <1>1, <1>4
<1> QED BY <1>2, <1>10, <1>11, <1>12, <1>13 DEF here, len

(* What the masks and shifts of set_h264_slice_header lose and keep.       *)
LEMMA H264Bits ==
  ASSUME NEW t \in 0 .. 127, NEW f \in {0, 64, 128}
  PROVE  /\ (((t \div 32) % 4) * 32 + 28) % 32 = 28
         /\ ((((t \div 32) % 4) * 32 + 28) \div 32) * 32 = (t \div 32) * 32
         /\ ((t % 32) + f) % 32 = t % 32
         /\ (t \div 32) * 32 + (t % 32) = t
         /\ ((t % 32) + f) \div 32 = 4 <=> f = 128
<1>1. (((t \div 32) % 4) * 32 + 28) % 32 = 28
  BY SMT
<1>2. ((((t \div 32) % 4) * 32 + 28) \div 32) * 32 = (t \div 32) * 32
  BY SMT
<1>3. ((t % 32) + f) % 32 = t % 32 /\ (((t % 32) + f) \div 32 = 4 <=> f = 128)
  BY SMT
<1>4. (t \div 32) * 32 + (t % 32) = t
  BY SMT
<1> QED BY <1>1, <1>2, <1>3, <1>4

(* What those of set_h265_slice_header do.                                 *)
LEMMA H265Bits ==
  ASSUME NEW t \in 0 .. 127, t % 2 = 0, NEW f \in {0, 64, 128}
  PROVE  /\ (((t \div 2) % 64) + f) \div 64 = 2 <=> f = 128
         /\ f = 128 => ((((t \div 2) % 64) + f) * 2) % 128 = t
BY SMT

(* The header of a slice, and what the client makes of it.                 *)
LEMMA HeaderRestored ==
  ASSUME NEW u \in Unit, codec \in Codecs, Carriable(codec, u), Fragmented(u),
         NEW n \in Nat \ {0}, NEW i \in 0 .. n - 1, NEW p,
         \A k \in 1 .. HeaderLen : p[k] = SliceHeader(u[1], n, i)[k]
  PROVE  /\ IsSlice(p) /\ (IsFirstSlice(p) <=> i = 0)
         /\ i = 0 => UnitHeader(p) = SubSeq(u, 1, DataOffset)
<1>1. u[1] \in 0 .. 255 /\ Len(u) \in Nat /\ Len(u) > 0 /\ u \in Seq(Byte)
  <2>1. u[1] \in Byte
    BY UnitBytes
  <2> QED BY <2>1, UnitBytes DEF Byte
<1>2. SliceFlag(n, i) \in {0, 64, 128} /\ (SliceFlag(n, i) = 128 <=> i = 0)
  BY DEF SliceFlag
<1> DEFINE t == u[1]
           f == SliceFlag(n, i)
<1>3. t \in 0 .. 255
  BY <1>1
<1> HIDE DEF t, f
<1>4. CASE codec = "H264"
  <2>1. p[1] = ((t \div 32) % 4) * 32 + 28 /\ p[2] = (t % 32) + f
    BY <1>4 DEF HeaderLen, SliceHeader, t, f
  <2>2. t \in 0 .. 127 /\ f \in {0, 64, 128}
    BY <1>2, <1>3, <1>4 DEF Carriable, t, f
  <2>3. p[1] % 32 = 28 /\ (p[2] \div 32 = 4 <=> f = 128)
        /\ (p[1] \div 32) * 32 + (p[2] % 32) = t
    <3>1. p[1] % 32 = 28 /\ (p[1] \div 32) * 32 = (t \div 32) * 32
      BY <2>1, <2>2, H264Bits
    <3>2. p[2] % 32 = t % 32 /\ (p[2] \div 32 = 4 <=> f = 128)
      BY <2>1, <2>2, H264Bits
    <3>3. (t \div 32) * 32 + (t % 32) = t
      BY <2>2, H264Bits
    <3> QED BY <3>1, <3>2, <3>3
  <2>4. UnitHeader(p) = << t >>
    BY <1>4, <2>3 DEF UnitHeader
  <2>5. SubSeq(u, 1, DataOffset) = << u[1] >>
    <3>1. DataOffset = 1
      BY <1>4 DEF DataOffset
    <3> DEFINE v == SubSeq(u, 0 + 1, 1)
    <3>2. v \in Seq(Byte) /\ Len(v) = 1 /\ \A k \in 1 .. 1 : v[k] = u[0 + k]
      BY <1>1, CutBytes
    <3> HIDE DEF v
    <3>3. v = << u[1] >>
      BY <3>2
    <3> QED BY <3>1, <3>3 DEF v
  <2> QED BY <1>2, <1>4, <2>3, <2>4, <2>5 DEF IsSlice, IsFirstSlice, t, f
<1>5. CASE codec = "H265"
  <2>1. p[1] = 98 /\ p[2] = 1 /\ p[3] = ((t \div 2) % 64) + f
    BY <1>5 DEF HeaderLen, SliceHeader, t, f
  <2>2. t \in 0 .. 127 /\ t % 2 = 0 /\ u[2] = 1 /\ Len(u) > 1 /\ f \in {0, 64, 128}
    <3>1. Len(u) > 1 /\ t < 128 /\ t % 2 = 0 /\ u[2] = 1
      BY <1>5 DEF Carriable, t
    <3> QED BY SMTT(30), <1>2, <1>3, <3>1 DEF f
  <2>3. (p[3] \div 64 = 2 <=> f = 128) /\ (f = 128 => (p[3] * 2) % 128 = t)
    BY <2>1, <2>2, H265Bits
  <2>4. f = 128 => UnitHeader(p) = << t, u[2] >>
    BY <1>5, <2>2, <2>3 DEF UnitHeader
  <2>5. SubSeq(u, 1, DataOffset) = << u[1], u[2] >>
    <3>1. DataOffset = 2
      BY <1>5 DEF DataOffset
    <3> DEFINE v == SubSeq(u, 0 + 1, 2)
    <3>2. v \in Seq(Byte) /\ Len(v) = 2 /\ \A k \in 1 .. 2 : v[k] = u[0 + k]
      BY <1>1, <2>2, CutBytes
    <3> HIDE DEF v
    <3>3. v = << u[1], u[2] >>
      BY <3>2
    <3> QED BY <3>1, <3>3 DEF v
  <2> QED BY <1>2, <1>5, <2>1, <2>3, <2>4, <2>5 DEF IsSlice, IsFirstSlice, t, f
<1> QED BY <1>4, <1>5 DEF Codecs

(* What a concatenation is made of.                                        *)
LEMMA ConcatParts ==
  ASSUME NEW S, NEW s \in Seq(S), NEW t \in Seq(S)
  PROVE  /\ s \o t \in Seq(S) /\ Len(s) \in Nat /\ Len(t) \in Nat
         /\ Len(s \o t) = Len(s) + Len(t)
         /\ \A k \in 1 .. Len(s) : (s \o t)[k] = s[k]
         /\ \A k \in 1 .. Len(t) : (s \o t)[Len(s) + k] = t[k]
<1>1. Len(s) \in Nat /\ Len(t) \in Nat
  OBVIOUS
<1>2. /\ s \o t \in Seq(S) /\ Len(s \o t) = Len(s) + Len(t)
      /\ \A i \in 1 .. Len(s) + Len(t) :
           (s \o t)[i] = IF i <= Len(s) THEN s[i] ELSE t[i - Len(s)]
  BY ConcatProperties
<1> DEFINE st == s \o t
<1> HIDE DEF st
<1>3. ASSUME NEW k \in 1 .. Len(s) PROVE st[k] = s[k]
  BY <1>1, <1>2 DEF st
<1>4. ASSUME NEW k \in 1 .. Len(t) PROVE st[Len(s) + k] = t[k]
  <2>1. /\ Len(s) + k \in 1 .. Len(s) + Len(t) /\ ~(Len(s) + k <= Len(s))
        /\ Len(s) + k - Len(s) = k
    BY <1>1
  <2> QED BY <1>2, <2>1 DEF st
<1> QED BY <1>1, <1>2, <1>3, <1>4 DEF st

(* A slice is its header followed by its part of the unit.                 *)
LEMMA SlicePayload ==
  ASSUME NEW u \in Unit, codec \in Codecs, Fragmented(u), NEW i \in 0 .. SliceNum(u) - 1
  PROVE  LET p == Payload(u, i)
             start == i * MaxSize + DataOffset
             header == SliceHeader(u[1], SliceNum(u), i)
         IN /\ p \in Seq(Byte) /\ Len(p) = HeaderLen + PkgDataLen(u, i)
            /\ \A k \in 1 .. HeaderLen : p[k] = header[k]
            /\ Data(p) \in Seq(Byte) /\ Len(Data(p)) = PkgDataLen(u, i)
            /\ \A k \in 1 .. PkgDataLen(u, i) : Data(p)[k] = u[start + k]
<1> DEFINE p == Payload(u, i)
           start == i * MaxSize + DataOffset
           header == SliceHeader(u[1], SliceNum(u), i)
           len == PkgDataLen(u, i)
           data == SubSeq(u, start + 1, start + len)
<1>1. /\ start \in Nat /\ len \in Nat /\ start + len <= Len(u)
      /\ u \in Seq(Byte) /\ u[1] \in 0 .. 255
  <2>1. u[1] \in Byte
    BY UnitBytes
  <2> QED BY <2>1, SliceBounds, UnitBytes, PacketizerAssumption DEF Byte
<1>2. /\ data \in Seq(Byte) /\ Len(data) = len
      /\ \A k \in 1 .. len : data[k] = u[start + k]
  <2> HIDE DEF start, len
  <2> QED BY <1>1, CutBytes
<1>3. header \in Seq(Byte) /\ Len(header) = HeaderLen /\ HeaderLen \in {2, 3}
  <2> DEFINE t == u[1]
             f == SliceFlag(SliceNum(u), i)
  <2>1. f \in {0, 64, 128} /\ t \in 0 .. 255
    BY <1>1 DEF SliceFlag
  <2> HIDE DEF t, f
  <2>2. CASE codec = "H264"
    <3>1. header = << (((t \div 32) % 4) * 32) + 28, (t % 32) + f >>
      BY <2>2 DEF SliceHeader, t, f
    <3>2. (((t \div 32) % 4) * 32) + 28 \in Byte /\ (t % 32) + f \in Byte
      BY <2>1 DEF Byte
    <3> HIDE DEF header
    <3> QED BY <2>2, <3>1, <3>2 DEF HeaderLen
  <2>3. CASE codec = "H265"
    <3>1. header = << 98, 1, ((t \div 2) % 64) + f >>
      BY <2>3 DEF SliceHeader, t, f
    <3>2. 98 \in Byte /\ 1 \in Byte /\ ((t \div 2) % 64) + f \in Byte
      BY <2>1 DEF Byte
    <3> HIDE DEF header
    <3> QED BY <2>3, <3>1, <3>2 DEF HeaderLen
  <2> QED BY <2>2, <2>3 DEF Codecs
<1>4. p = header \o data
  BY DEF Payload
<1> HIDE DEF p, header, data, start, len
<1>5. /\ p \in Seq(Byte) /\ Len(p) = HeaderLen + len
      /\ \A k \in 1 .. HeaderLen : p[k] = header[k]
      /\ \A k \in 1 .. len : p[HeaderLen + k] = data[k]
  BY <1>2, <1>3, <1>4, ConcatParts
<1>6. /\ Data(p) \in Seq(Byte) /\ Len(Data(p)) = len
      /\ \A k \in 1 .. len : Data(p)[k] = p[HeaderLen + k]
  <2> DEFINE b == Len(p)
  <2>1. b \in Nat /\ HeaderLen \in Nat /\ HeaderLen <= b /\ b - HeaderLen = len
    BY <1>1, <1>3, <1>5
  <2> HIDE DEF b
  <2>2. /\ SubSeq(p, HeaderLen + 1, b) \in Seq(Byte)
        /\ Len(SubSeq(p, HeaderLen + 1, b)) = b - HeaderLen
        /\ \A k \in 1 .. b - HeaderLen : SubSeq(p, HeaderLen + 1, b)[k] = p[HeaderLen + k]
    <3>1. b <= Len(p)
      BY <2>1 DEF b
    <3> QED BY <1>5, <2>1, <3>1, CutBytes
  <2> QED BY <2>1, <2>2 DEF Data, b
<1>7. \A k \in 1 .. len : Data(p)[k] = u[start + k]
  BY <1>2, <1>5, <1>6
<1> QED BY <1>5, <1>6, <1>7 DEF p, start, header, len

(* What the client writes for packet i of a unit is the part of its text   *)
(* between the two bounds.                                                 *)
LEMMA WrittenPart ==
  ASSUME NEW u \in Unit, codec \in Codecs, Carriable(codec, u),
         NEW i \in 0 .. SliceNum(u) - 1
  PROVE  LET w == Written(Payload(u, i))
         IN /\ w \in Seq(Byte) /\ Bound(u, i) \in Nat
            /\ Bound(u, i + 1) = Bound(u, i) + Len(w)
            /\ Bound(u, i + 1) <= Len(Text(u))
            /\ \A k \in 1 .. Len(w) : w[k] = Text(u)[Bound(u, i) + k]
<1> DEFINE p == Payload(u, i)
           w == Written(p)
<1>1. /\ u \in Seq(Byte) /\ Len(u) \in Nat /\ Len(u) > 0
      /\ Text(u) \in Seq(Byte) /\ Len(Text(u)) = 4 + Len(u)
  BY UnitBytes, TextBytes
<1>2. CASE ~Fragmented(u)
  <2>1. SliceNum(u) = 1 /\ i = 0 /\ p = u
    BY <1>2 DEF SliceNum, Payload
  <2>2. ~IsSlice(u)
    BY <1>2 DEF IsSlice, Carriable, Codecs
  <2>3. w = Text(u)
    BY <2>1, <2>2 DEF Written, Text
  <2>4. Bound(u, i) = 0 /\ Bound(u, i + 1) = 4 + Len(u)
    BY <2>1 DEF Bound
  <2> HIDE DEF w
  <2> QED BY <1>1, <2>3, <2>4 DEF w
<1>3. CASE Fragmented(u)
  <2> DEFINE start == i * MaxSize + DataOffset
             len == PkgDataLen(u, i)
             d == Data(p)
  <2>1. /\ start \in Nat /\ len \in 1 .. MaxSize /\ start + len <= Len(u)
        /\ Bound(u, i + 1) = 4 + start + len
        /\ i > 0 => Bound(u, i) = 4 + start
        /\ MaxSize \in Nat /\ (i = 0 => start = DataOffset)
        /\ DataOffset \in {1, 2} /\ DataOffset <= start
    BY <1>3, SliceBounds, PacketizerAssumption, DataOffsetType
  <2>2. /\ d \in Seq(Byte) /\ Len(d) = len
        /\ \A k \in 1 .. len : d[k] = u[start + k]
    BY <1>3, SlicePayload
  <2>3. /\ IsSlice(p) /\ (IsFirstSlice(p) <=> i = 0)
        /\ i = 0 => UnitHeader(p) = SubSeq(u, 1, DataOffset)
    <3> DEFINE n == SliceNum(u)
    <3>1. \A k \in 1 .. HeaderLen : p[k] = SliceHeader(u[1], n, i)[k]
      BY <1>3, SlicePayload
    <3>2. n \in Nat \ {0} /\ i \in 0 .. n - 1
      BY <1>3, SlicesTile
    <3> HIDE DEF p, n
    <3> QED BY SMTT(30), <1>3, <3>1, <3>2, HeaderRestored
  <2> HIDE DEF p, start, len, d
  <2>4. CASE i = 0
    <3> DEFINE h == SubSeq(u, 0 + 1, DataOffset)
    <3>1. w = (StartCode \o h) \o d
      <4>1. UnitHeader(p) = h
        BY <2>3, <2>4
      <4>2. Written(p) = StartCode \o UnitHeader(p) \o Data(p)
        BY <2>3, <2>4 DEF Written
      <4> HIDE DEF h
      <4> QED BY <4>1, <4>2 DEF d
    <3>2. /\ h \in Seq(Byte) /\ Len(h) = DataOffset
          /\ \A k \in 1 .. DataOffset : h[k] = u[0 + k]
      BY <1>1, <2>1, CutBytes
    <3>3. StartCode \in Seq(Byte) /\ Len(StartCode) = 4
      BY DEF StartCode, Byte
    <3> HIDE DEF h, w, StartCode
    <3> DEFINE z == DataOffset
    <3>z. z \in {1, 2} /\ Len(h) = z
      BY <2>1, <3>2
    <3> HIDE DEF z
    <3> DEFINE g == StartCode \o h
    <3>4. /\ g \in Seq(Byte) /\ Len(g) = 4 + DataOffset
          /\ \A k \in 1 .. 4 : g[k] = StartCode[k]
          /\ \A k \in 1 .. DataOffset : g[4 + k] = h[k]
      <4>1. /\ g \in Seq(Byte) /\ Len(g) = Len(StartCode) + Len(h)
            /\ \A k \in 1 .. Len(StartCode) : g[k] = StartCode[k]
            /\ \A k \in 1 .. Len(h) : g[Len(StartCode) + k] = h[k]
        <5>1. h \in Seq(Byte) /\ StartCode \in Seq(Byte)
          BY <3>2, <3>3
        <5>2. /\ StartCode \o h \in Seq(Byte) /\ Len(StartCode \o h) = Len(StartCode) + Len(h)
              /\ \A k \in 1 .. Len(StartCode) : (StartCode \o h)[k] = StartCode[k]
              /\ \A k \in 1 .. Len(h) : (StartCode \o h)[Len(StartCode) + k] = h[k]
          BY <5>1, ConcatParts
        <5> QED BY <5>2
      <4> HIDE DEF g
      <4> QED BY <3>2, <3>3, <3>z, <4>1 DEF z
    <3> HIDE DEF g
    <3>5. /\ w \in Seq(Byte) /\ Len(w) = 4 + DataOffset + len
          /\ \A k \in 1 .. 4 + DataOffset : w[k] = g[k]
          /\ \A k \in 1 .. len : w[4 + DataOffset + k] = d[k]
      <4>1. w = g \o d
        BY <3>1 DEF g
      <4>2. /\ w \in Seq(Byte) /\ Len(w) = Len(g) + Len(d)
            /\ \A k \in 1 .. Len(g) : w[k] = g[k]
            /\ \A k \in 1 .. Len(d) : w[Len(g) + k] = d[k]
        <5>1. g \in Seq(Byte) /\ d \in Seq(Byte)
          BY <2>2, <3>4
        <5>2. /\ g \o d \in Seq(Byte) /\ Len(g \o d) = Len(g) + Len(d)
              /\ \A k \in 1 .. Len(g) : (g \o d)[k] = g[k]
              /\ \A k \in 1 .. Len(d) : (g \o d)[Len(g) + k] = d[k]
          BY <5>1, ConcatParts
        <5> QED BY <4>1, <5>2
      <4> QED BY <2>2, <3>4, <4>2
    <3>6. Bound(u, i) = 0 /\ Bound(u, i + 1) = Len(w)
      BY <2>1, <2>4, <3>5 DEF Bound
    <3>7. ASSUME NEW k \in 1 .. Len(w) PROVE w[k] = Text(u)[k]
      <4>1. CASE k \in 1 .. 4
        <5>1. k \in 1 .. 4 + DataOffset
          BY <2>1, <4>1
        <5> QED BY <3>4, <3>5, <4>1, <5>1, TextBytes
      <4>2. CASE k \in 5 .. 4 + DataOffset
        <5> DEFINE j == k - 4
        <5>1. j \in 1 .. DataOffset /\ j \in 1 .. Len(u) /\ k = 4 + j
          BY <1>1, <2>1, <4>2
        <5> HIDE DEF j
        <5>2. w[k] = g[k] /\ g[k] = h[j] /\ h[j] = u[j]
          BY <2>1, <3>2, <3>4, <3>5, <4>2, <5>1
        <5> QED BY <5>1, <5>2, TextBytes
      <4>3. CASE k \in 4 + DataOffset + 1 .. Len(w)
        <5> DEFINE j == k - (4 + DataOffset)
        <5>1. /\ j \in 1 .. len /\ start + j \in 1 .. Len(u)
              /\ k = 4 + DataOffset + j /\ k = 4 + (start + j)
          BY <1>1, <2>1, <2>4, <3>5, <4>3
        <5> HIDE DEF j
        <5>2. w[k] = d[j] /\ d[j] = u[start + j]
          BY <2>2, <3>5, <5>1
        <5> QED BY <5>1, <5>2, TextBytes
      <4> QED BY SMTT(30), <2>1, <3>5, <4>1, <4>2, <4>3
    <3>8. Bound(u, i + 1) <= Len(Text(u))
      BY <1>1, <2>1
    <3> QED BY <1>1, <2>1, <3>5, <3>6, <3>7, <3>8 DEF w, p
  <2>5. CASE i > 0
    <3>1. w = d
      BY <2>3, <2>5 DEF Written, d
    <3> HIDE DEF w
    <3>2. ASSUME NEW k \in 1 .. len PROVE d[k] = Text(u)[4 + start + k]
      <4>1. start + k \in 1 .. Len(u) /\ 4 + (start + k) = 4 + start + k
        BY <1>1, <2>1
      <4> QED BY <2>2, <4>1, TextBytes
    <3>3. Bound(u, i) = 4 + start /\ Bound(u, i + 1) = 4 + start + len
      BY <2>1, <2>5
    <3>4. \A k \in 1 .. Len(w) : w[k] = Text(u)[Bound(u, i) + k]
      <4>1. ASSUME NEW k \in 1 .. Len(w) PROVE w[k] = Text(u)[Bound(u, i) + k]
        <5>1. k \in 1 .. len
          BY <2>2, <3>1, <4>1
        <5>2. w[k] = d[k]
          BY <3>1
        <5> QED BY <3>2, <3>3, <5>1, <5>2
      <4> QED BY <4>1
    <3>5. w \in Seq(Byte) /\ Len(w) = len
      BY <2>2, <3>1
    <3>6. Bound(u, i) \in Nat /\ Bound(u, i + 1) = Bound(u, i) + Len(w)
      BY <2>1, <3>3, <3>5
    <3>7. Bound(u, i + 1) <= Len(Text(u))
      BY <1>1, <2>1, <3>3
    <3> QED BY <3>4, <3>5, <3>6, <3>7 DEF w, p
  <2> QED BY <2>4, <2>5 DEF p
<1> QED BY <1>2, <1>3

(* A unit makes at least one packet, and its last packet ends its text.    *)
LEMMA LastBound ==
  ASSUME NEW u \in Unit
  PROVE  /\ SliceNum(u) \in Nat \ {0}
         /\ Bound(u, 0) = 0 /\ Bound(u, SliceNum(u)) = Len(Text(u))
<1>1. SliceNum(u) \in Nat \ {0}
  BY SlicesTile DEF SliceNum
<1> QED BY <1>1, TextBytes DEF Bound

-----------------------------------------------------------------------------
(* The stream of the units.                                                *)

(* Stream as a function of the units alone.                                *)
StreamOf(us) ==
  CHOOSE g : g = [k \in 0 .. MaxUnits |->
                    IF k = 0 THEN <<>> ELSE g[k - 1] \o StartCode \o us[k]]

(* The recursion of Stream has a solution.                                 *)
LEMMA StreamRecursion ==
  ASSUME NEW us
  PROVE  StreamOf(us) =
           [k \in 0 .. MaxUnits |->
              IF k = 0 THEN <<>> ELSE StreamOf(us)[k - 1] \o StartCode \o us[k]]
<1> DEFINE Ok(g, n) == g = [k \in 0 .. n |->
                              IF k = 0 THEN <<>> ELSE g[k - 1] \o StartCode \o us[k]]
           T == {n \in Nat : \E g : Ok(g, n)}
<1>1. 0 \in T
  <2>1. Ok([k \in 0 .. 0 |-> <<>>], 0)
    OBVIOUS
  <2> HIDE DEF Ok
  <2> QED BY <2>1
<1>2. ASSUME NEW n \in Nat, n \in T PROVE n + 1 \in T
  <2>1. PICK g : Ok(g, n)
    BY <1>2
  <2> DEFINE h == [k \in 0 .. n + 1 |->
                     IF k = n + 1 THEN g[n] \o StartCode \o us[n + 1] ELSE g[k]]
  <2>2. Ok(h, n + 1)
    <3> SUFFICES ASSUME NEW k \in 0 .. n + 1
                 PROVE  h[k] = IF k = 0 THEN <<>> ELSE h[k - 1] \o StartCode \o us[k]
      OBVIOUS
    <3>1. CASE k = n + 1
      <4>1. h[k - 1] = g[n] /\ k - 1 \in 0 .. n + 1
        BY <3>1
      <4>2. h[k] = g[n] \o StartCode \o us[n + 1] /\ k # 0 /\ us[k] = us[n + 1]
        <5> DEFINE x == g[n] \o StartCode \o us[n + 1]
                   m == n + 1
        <5>1. m \in 0 .. m /\ k = m /\ k # 0
          BY <3>1
        <5> HIDE DEF x, m
        <5>2. [j \in 0 .. m |-> IF j = m THEN x ELSE g[j]][m] = x
          BY <5>1
        <5> QED BY <5>1, <5>2 DEF x, m
      <4> HIDE DEF h
      <4> QED BY <4>1, <4>2
    <3>2. CASE k # n + 1
      <4>1. k \in 0 .. n /\ h[k] = g[k]
        BY <3>2
      <4>2. k # 0 => k - 1 \in 0 .. n /\ h[k - 1] = g[k - 1]
        BY <4>1
      <4>3. g[k] = IF k = 0 THEN <<>> ELSE g[k - 1] \o StartCode \o us[k]
        BY <2>1, <4>1
      <4> QED BY <4>1, <4>2, <4>3
    <3> QED BY <3>1, <3>2
  <2> HIDE DEF h, Ok
  <2> QED BY <2>2
<1> HIDE DEF Ok
<1>3. MaxUnits \in T
  <2> HIDE DEF T
  <2> QED BY <1>1, <1>2, NatInSet, TransferAssumption
<1>4. \E g : Ok(g, MaxUnits)
  BY <1>3
<1> QED BY <1>4 DEF Ok, StreamOf

(* Stream is that function.                                                *)
LEMMA StreamIsStreamOf == Stream = StreamOf(units)
BY DEF Stream, StreamOf

(* The stream of no units.                                                 *)
LEMMA StreamFirst ==
  ASSUME NEW us
  PROVE  StreamOf(us)[0] = <<>>
<1>1. 0 \in 0 .. MaxUnits
  BY TransferAssumption
<1> QED BY <1>1, StreamRecursion

(* Unit k follows the stream of the units before it.                       *)
LEMMA StreamStep ==
  ASSUME NEW us, NEW k \in 1 .. MaxUnits
  PROVE  StreamOf(us)[k] = StreamOf(us)[k - 1] \o StartCode \o us[k]
<1>1. k \in 0 .. MaxUnits /\ k # 0
  BY TransferAssumption
<1> QED BY <1>1, StreamRecursion

(* The same, counted from the unit before.                                 *)
LEMMA StreamNext ==
  ASSUME NEW us, NEW k \in 0 .. MaxUnits - 1
  PROVE  StreamOf(us)[k + 1] = StreamOf(us)[k] \o StartCode \o us[k + 1]
<1> DEFINE j == k + 1
<1>1. j \in 1 .. MaxUnits /\ j - 1 = k
  BY TransferAssumption
<1> HIDE DEF j
<1>2. StreamOf(us)[j] = StreamOf(us)[j - 1] \o StartCode \o us[j]
  BY <1>1, StreamStep
<1>3. StreamOf(us)[j] = StreamOf(us)[k] \o StartCode \o us[j]
  BY <1>1, <1>2
<1> QED BY <1>3 DEF j

(* The stream of the first k units, byte by byte.                          *)
LEMMA StreamType ==
  ASSUME NEW us \in Seq(Unit), Len(us) <= MaxUnits
  PROVE  \A k \in 0 .. Len(us) : StreamOf(us)[k] \in Seq(Byte)
<1> DEFINE N == Len(us)
           T == {k \in 0 .. N : StreamOf(us)[k] \in Seq(Byte)}
<1>1. N \in Nat /\ N <= MaxUnits /\ MaxUnits \in Nat
  BY TransferAssumption
<1> HIDE DEF N
<1>2. 0 \in T
  <2>1. StreamOf(us)[0] = <<>>
    BY StreamFirst
  <2>2. StreamOf(us)[0] \in Seq(Byte)
    BY <2>1, EmptySeq
  <2> QED BY <1>1, <2>2
<1>3. ASSUME NEW k \in 0 .. N - 1, k \in T PROVE k + 1 \in T
  <2>1. k \in 0 .. MaxUnits - 1 /\ k + 1 \in 1 .. N /\ k + 1 - 1 = k
    BY <1>1
  <2>2. us[k + 1] \in Seq(Byte)
    <3>1. us[k + 1] \in Unit
      BY <2>1 DEF N
    <3> QED BY <3>1 DEF Unit
  <2>3. StartCode \in Seq(Byte)
    BY DEF StartCode, Byte
  <2>4. StreamOf(us)[k] \in Seq(Byte)
    BY <1>3
  <2>5. StreamOf(us)[k + 1] = StreamOf(us)[k] \o StartCode \o us[k + 1]
    BY <2>1, StreamNext
  <2> HIDE DEF StartCode
  <2>6. StreamOf(us)[k] \o StartCode \in Seq(Byte)
    BY <2>3, <2>4, ConcatParts
  <2>7. (StreamOf(us)[k] \o StartCode) \o us[k + 1] \in Seq(Byte)
    BY <2>2, <2>6, ConcatParts
  <2>8. StreamOf(us)[k + 1] \in Seq(Byte)
    BY <2>5, <2>7
  <2>9. k + 1 \in 0 .. N
    BY <1>1
  <2> QED BY <2>8, <2>9
<1>4. 0 .. N \subseteq T
  <2> HIDE DEF T
  <2> QED BY <1>1, <1>2, <1>3, IntervalInSet
<1> QED BY <1>4 DEF N

(* Unit k adds its text to the stream of the units before it.              *)
LEMMA StreamGrows ==
  ASSUME NEW us \in Seq(Unit), Len(us) <= MaxUnits, NEW k \in 1 .. Len(us)
  PROVE  LET s == StreamOf(us)[k - 1]
             t == StreamOf(us)[k]
         IN /\ us[k] \in Unit /\ s \in Seq(Byte) /\ t \in Seq(Byte)
            /\ Len(t) = Len(s) + Len(Text(us[k]))
            /\ \A x \in 1 .. Len(s) : t[x] = s[x]
            /\ \A x \in 1 .. Len(Text(us[k])) : t[Len(s) + x] = Text(us[k])[x]
<1> DEFINE s == StreamOf(us)[k - 1]
           t == StreamOf(us)[k]
           u == us[k]
           b == Text(u)
<1>1. us[k] \in Unit /\ Len(us) \in Nat /\ k \in 1 .. MaxUnits
      /\ k \in 0 .. Len(us) /\ k - 1 \in 0 .. Len(us)
  BY TransferAssumption
<1>2. s \in Seq(Byte) /\ t \in Seq(Byte) /\ b \in Seq(Byte) /\ u \in Seq(Byte)
  BY <1>1, StreamType, TextBytes, UnitBytes
<1>3. t = s \o b
  <2>1. t = (s \o StartCode) \o u
    BY <1>1, StreamStep
  <2>2. StartCode \in Seq(Byte)
    BY DEF StartCode, Byte
  <2> HIDE DEF s, t, u, StartCode
  <2>3. (s \o StartCode) \o u = s \o (StartCode \o u)
    <3>1. s \in Seq(Byte) /\ StartCode \in Seq(Byte) /\ u \in Seq(Byte)
      BY <1>2, <2>2
    <3> QED BY SMTT(30), <3>1, ConcatAssociative
  <2> QED BY <2>1, <2>3 DEF Text
<1> HIDE DEF s, t, b
<1>4. /\ Len(s \o b) = Len(s) + Len(b)
      /\ \A x \in 1 .. Len(s) : (s \o b)[x] = s[x]
      /\ \A x \in 1 .. Len(b) : (s \o b)[Len(s) + x] = b[x]
  BY <1>2, ConcatParts
<1>5. /\ Len(t) = Len(s) + Len(b)
      /\ \A x \in 1 .. Len(s) : t[x] = s[x]
      /\ \A x \in 1 .. Len(b) : t[Len(s) + x] = b[x]
  BY <1>3, <1>4
<1> QED BY <1>1, <1>2, <1>5 DEF s, t, b

(* A further unit leaves the stream of the units before it as it is.       *)
LEMMA StreamKept ==
  ASSUME NEW us \in Seq(Unit), Len(us) < MaxUnits, NEW u
  PROVE  \A k \in 0 .. Len(us) : StreamOf(Append(us, u))[k] = StreamOf(us)[k]
<1> DEFINE N == Len(us)
           vs == Append(us, u)
           T == {k \in 0 .. N : StreamOf(vs)[k] = StreamOf(us)[k]}
<1>1. N \in Nat /\ N <= MaxUnits /\ MaxUnits \in Nat
      /\ \A k \in 1 .. N : vs[k] = us[k]
  BY TransferAssumption
<1> HIDE DEF N, vs
<1>2. 0 \in T
  BY <1>1, StreamFirst
<1>3. ASSUME NEW k \in 0 .. N - 1, k \in T PROVE k + 1 \in T
  <2>1. k \in 0 .. MaxUnits - 1 /\ k + 1 \in 1 .. N /\ k + 1 \in 0 .. N /\ k + 1 - 1 = k
    BY <1>1
  <2>2. StreamOf(us)[k + 1] = StreamOf(us)[k] \o StartCode \o us[k + 1]
    BY <2>1, StreamNext
  <2>3. StreamOf(vs)[k + 1] = StreamOf(vs)[k] \o StartCode \o vs[k + 1]
    BY <2>1, StreamNext
  <2>4. StreamOf(vs)[k] = StreamOf(us)[k] /\ vs[k + 1] = us[k + 1]
    BY <1>1, <1>3, <2>1
  <2> QED BY <2>1, <2>2, <2>3, <2>4
<1>4. 0 .. N \subseteq T
  <2> HIDE DEF T
  <2> QED BY <1>1, <1>2, <1>3, IntervalInSet
<1> QED BY <1>4 DEF N, vs

-----------------------------------------------------------------------------
(* What a sequence of datagrams leaves in a text.                          *)

(* In the text s, datagram k of ds fills the bytes after e[k - 1] up to    *)
(* e[k] with what the client writes for it.                                *)
Laid(ds, s, e) ==
  /\ e \in [0 .. Len(ds) -> Nat] /\ e[0] = 0
  /\ \A k \in 1 .. Len(ds) :
       LET w == Written(ds[k].payload)
       IN /\ w \in Seq(Byte) /\ e[k] = e[k - 1] + Len(w) /\ e[k] <= Len(s)
          /\ \A x \in 1 .. Len(w) : s[e[k - 1] + x] = w[x]

(* No datagrams fill nothing.                                              *)
LEMMA LaidEmpty ==
  ASSUME NEW s
  PROVE  Laid(<<>>, s, [k \in 0 .. 0 |-> 0])
<1>1. Len(<<>>) = 0
  OBVIOUS
<1>2. [k \in 0 .. 0 |-> 0] \in [0 .. 0 -> Nat] /\ [k \in 0 .. 0 |-> 0][0] = 0
  OBVIOUS
<1>3. 1 .. 0 = {}
  OBVIOUS
<1> QED BY <1>1, <1>2, <1>3 DEF Laid

(* The bytes that one datagram fills.                                      *)
LEMMA LaidStep ==
  ASSUME NEW ds, NEW s, NEW e, Laid(ds, s, e), Len(ds) \in Nat,
         NEW k \in 0 .. Len(ds) - 1
  PROVE  LET w == Written(ds[k + 1].payload)
         IN /\ w \in Seq(Byte) /\ Len(w) \in Nat /\ e[k] \in Nat /\ e[k + 1] \in Nat
            /\ e[k + 1] = e[k] + Len(w) /\ e[k + 1] <= Len(s)
            /\ \A x \in 1 .. Len(w) : s[e[k] + x] = w[x]
<1> DEFINE j == k + 1
           w == Written(ds[j].payload)
<1>1. j \in 1 .. Len(ds) /\ j - 1 = k /\ j \in 0 .. Len(ds) /\ k \in 0 .. Len(ds)
  OBVIOUS
<1> HIDE DEF j
<1>2. /\ w \in Seq(Byte) /\ e[j] = e[j - 1] + Len(w) /\ e[j] <= Len(s)
      /\ \A x \in 1 .. Len(w) : s[e[j - 1] + x] = w[x]
  BY <1>1 DEF Laid
<1>3. e[k] \in Nat /\ e[j] \in Nat
  BY <1>1 DEF Laid
<1> HIDE DEF w
<1>4. Len(w) \in Nat
  BY <1>2
<1>5. /\ e[j] = e[k] + Len(w)
      /\ \A x \in 1 .. Len(w) : s[e[k] + x] = w[x]
  BY <1>1, <1>2
<1> QED BY <1>2, <1>3, <1>4, <1>5 DEF j, w

(* The ends ascend.                                                        *)
LEMMA LaidAscends ==
  ASSUME NEW ds, NEW s, NEW e, Laid(ds, s, e), Len(ds) \in Nat,
         NEW i \in 0 .. Len(ds)
  PROVE  \A k \in i .. Len(ds) : e[i] <= e[k]
<1> DEFINE N == Len(ds)
           T == {k \in 0 .. N : k >= i => e[i] <= e[k]}
<1>1. N \in Nat /\ i \in 0 .. N /\ \A k \in 0 .. N : e[k] \in Nat
  BY DEF Laid
<1>2. 0 \in T
  BY <1>1
<1>3. ASSUME NEW k \in 0 .. N - 1, k \in T PROVE k + 1 \in T
  <2>1. e[k] \in Nat /\ e[k + 1] \in Nat /\ e[k] <= e[k + 1]
    BY LaidStep
  <2>2. k + 1 \in 0 .. N
    BY <1>1
  <2>3. ASSUME k + 1 >= i PROVE e[i] <= e[k + 1]
    <3>1. CASE k + 1 = i
      BY <1>1, <2>1, <3>1
    <3>2. CASE k >= i
      BY <1>1, <1>3, <2>1, <3>2
    <3> QED BY <1>1, <2>3, <3>1, <3>2
  <2> QED BY <2>2, <2>3
<1> HIDE DEF N
<1>4. 0 .. N \subseteq T
  <2> HIDE DEF T
  <2> QED BY <1>1, <1>2, <1>3, IntervalInSet
<1>5. ASSUME NEW k \in i .. N PROVE e[i] <= e[k]
  <2>1. k \in T /\ k >= i
    BY <1>1, <1>4
  <2> QED BY <2>1
<1> QED BY <1>5 DEF N

(* A longer text that begins with s has the same datagrams.                *)
LEMMA LaidLonger ==
  ASSUME NEW ds, NEW s \in Seq(Byte), NEW t \in Seq(Byte), NEW e,
         Laid(ds, s, e), Len(ds) \in Nat,
         Len(s) <= Len(t), \A x \in 1 .. Len(s) : t[x] = s[x]
  PROVE  Laid(ds, t, e)
<1>1. e \in [0 .. Len(ds) -> Nat] /\ e[0] = 0
  BY DEF Laid
<1>2. ASSUME NEW k \in 1 .. Len(ds)
      PROVE  LET w == Written(ds[k].payload)
             IN /\ w \in Seq(Byte) /\ e[k] = e[k - 1] + Len(w) /\ e[k] <= Len(t)
                /\ \A x \in 1 .. Len(w) : t[e[k - 1] + x] = w[x]
  <2> DEFINE w == Written(ds[k].payload)
             b == e[k - 1]
  <2>1. /\ w \in Seq(Byte) /\ e[k] = b + Len(w) /\ e[k] <= Len(s)
        /\ \A x \in 1 .. Len(w) : s[b + x] = w[x]
    BY DEF Laid
  <2>2. b \in Nat /\ e[k] \in Nat
    BY SMTT(30), <1>1
  <2> HIDE DEF w, b
  <2>3. Len(w) \in Nat /\ Len(s) \in Nat /\ Len(t) \in Nat
    BY <2>1
  <2>4. ASSUME NEW x \in 1 .. Len(w) PROVE t[b + x] = w[x]
    <3>1. b + x \in 1 .. Len(s)
      BY <2>1, <2>2, <2>3
    <3> QED BY <2>1, <3>1
  <2>5. e[k] <= Len(t)
    BY <2>1, <2>2, <2>3
  <2> QED BY <2>1, <2>4, <2>5 DEF w, b
<1> QED BY <1>1, <1>2 DEF Laid

(* One more datagram.                                                      *)
LEMMA LaidAppend ==
  ASSUME NEW D, NEW ds \in Seq(D), NEW d \in D, NEW s, NEW e, Laid(ds, s, e),
         Written(d.payload) \in Seq(Byte),
         e[Len(ds)] + Len(Written(d.payload)) <= Len(s),
         \A x \in 1 .. Len(Written(d.payload)) :
            s[e[Len(ds)] + x] = Written(d.payload)[x]
  PROVE  \E f : /\ Laid(Append(ds, d), s, f)
                /\ f[Len(Append(ds, d))] = e[Len(ds)] + Len(Written(d.payload))
<1> DEFINE N == Len(ds)
           cs == Append(ds, d)
           W(k) == Written(cs[k].payload)
           w == Written(d.payload)
           z == e[N] + Len(w)
           f == [k \in 0 .. N + 1 |-> IF k = N + 1 THEN z ELSE e[k]]
<1>1. /\ N \in Nat /\ Len(cs) = N + 1 /\ cs[N + 1] = d
      /\ \A k \in 1 .. N : cs[k] = ds[k]
  OBVIOUS
<1>2. e \in [0 .. N -> Nat] /\ e[0] = 0 /\ w \in Seq(Byte)
  BY DEF Laid
<1>3. \A k \in 1 .. N :
        /\ Written(ds[k].payload) \in Seq(Byte)
        /\ e[k] = e[k - 1] + Len(Written(ds[k].payload)) /\ e[k] <= Len(s)
        /\ \A x \in 1 .. Len(Written(ds[k].payload)) :
             s[e[k - 1] + x] = Written(ds[k].payload)[x]
  BY DEF Laid
<1> HIDE DEF cs, N
<1>4. z \in Nat
  <2>1. Len(w) \in Nat /\ e[N] \in Nat
    BY <1>1, <1>2
  <2> QED BY <2>1
<1>5. z <= Len(s) /\ \A x \in 1 .. Len(w) : s[e[N] + x] = w[x]
  BY DEF N
<1>6. z = e[N] + Len(w)
  OBVIOUS
<1> HIDE DEF z
<1>7. f \in [0 .. N + 1 -> Nat] /\ f[0] = 0 /\ f[N + 1] = z
      /\ \A k \in 0 .. N : f[k] = e[k]
  BY <1>1, <1>2, <1>4
<1> HIDE DEF f, w
<1>8. ASSUME NEW k \in 1 .. N + 1
      PROVE  /\ W(k) \in Seq(Byte) /\ f[k] = f[k - 1] + Len(W(k)) /\ f[k] <= Len(s)
             /\ \A x \in 1 .. Len(W(k)) : s[f[k - 1] + x] = W(k)[x]
  <2>1. CASE k = N + 1
    <3>1. W(k) = w
      BY <1>1, <2>1 DEF w
    <3>2. f[k] = z /\ f[k - 1] = e[N]
      BY <1>1, <1>7, <2>1
    <3> HIDE DEF W
    <3> QED BY <1>2, <1>5, <1>6, <3>1, <3>2
  <2>2. CASE k \in 1 .. N
    <3>1. W(k) = Written(ds[k].payload)
      BY <1>1, <2>2
    <3>2. k - 1 \in 0 .. N /\ k \in 0 .. N
      BY <1>1, <2>2
    <3>3. f[k] = e[k] /\ f[k - 1] = e[k - 1]
      BY <1>7, <3>2
    <3> HIDE DEF W
    <3> QED BY <1>3, <2>2, <3>1, <3>3
  <2> QED BY <1>1, <2>1, <2>2
<1>9. Laid(cs, s, f)
  BY <1>1, <1>7, <1>8 DEF Laid
<1> QED BY <1>1, <1>6, <1>7, <1>9 DEF cs, N, w

(* Where a datagram ends depends on those before it alone.                 *)
LEMMA LaidPrefix ==
  ASSUME NEW ds, NEW s, NEW e, Laid(ds, s, e), Len(ds) \in Nat,
         NEW cs, NEW t, NEW g, Laid(cs, t, g), Len(cs) \in Nat,
         Len(ds) <= Len(cs), \A k \in 1 .. Len(ds) : ds[k] = cs[k]
  PROVE  \A k \in 0 .. Len(ds) : e[k] = g[k]
<1> DEFINE N == Len(ds)
           T == {k \in 0 .. N : e[k] = g[k]}
<1>1. N \in Nat
  OBVIOUS
<1>2. 0 \in T
  BY <1>1 DEF Laid
<1>3. ASSUME NEW k \in 0 .. N - 1, k \in T PROVE k + 1 \in T
  <2>1. e[k + 1] = e[k] + Len(Written(ds[k + 1].payload))
    BY LaidStep
  <2>2. g[k + 1] = g[k] + Len(Written(cs[k + 1].payload))
    <3>1. k \in 0 .. Len(cs) - 1
      OBVIOUS
    <3> QED BY <3>1, LaidStep
  <2>3. ds[k + 1] = cs[k + 1] /\ k + 1 \in 0 .. N /\ e[k] = g[k]
    BY <1>3
  <2> QED BY <2>1, <2>2, <2>3
<1> HIDE DEF N
<1>4. 0 .. N \subseteq T
  <2> HIDE DEF T
  <2> QED BY <1>1, <1>2, <1>3, IntervalInSet
<1> QED BY <1>4 DEF N

(* Every byte up to the last end is a byte of some datagram.               *)
LEMMA LaidCovers ==
  ASSUME NEW ds, NEW s, NEW e, Laid(ds, s, e), Len(ds) \in Nat,
         NEW p \in 1 .. e[Len(ds)]
  PROVE  \E k \in 0 .. Len(ds) - 1 :
            \E x \in 1 .. Len(Written(ds[k + 1].payload)) : p = e[k] + x
<1> DEFINE N == Len(ds)
           S == {k \in 0 .. N : p <= e[k]}
<1>1. N \in Nat /\ e[0] = 0 /\ \A k \in 0 .. N : e[k] \in Nat
  BY DEF Laid
<1>2. p \in Nat /\ p > 0 /\ N \in S /\ S \in SUBSET Nat
  BY <1>1
<1>3. PICK m \in S : \A k \in S : m <= k
  <2> HIDE DEF S
  <2> QED BY <1>2, LeastInSet
<1>4. m \in 0 .. N /\ m # 0 /\ p <= e[m]
  BY <1>1, <1>2, <1>3
<1> DEFINE k == m - 1
           w == Written(ds[k + 1].payload)
<1>5. k \in 0 .. N - 1 /\ k + 1 = m /\ k \notin S /\ k \in 0 .. N
  BY <1>1, <1>3, <1>4
<1>6. e[k] \in Nat /\ e[k] < p
  BY <1>1, <1>2, <1>5
<1>7. Len(w) \in Nat /\ e[k + 1] = e[k] + Len(w)
  <2>1. k \in 0 .. Len(ds) - 1
    BY <1>5
  <2> HIDE DEF k
  <2>2. /\ Len(Written(ds[k + 1].payload)) \in Nat
        /\ e[k + 1] = e[k] + Len(Written(ds[k + 1].payload))
    BY <2>1, LaidStep
  <2> QED BY <2>2
<1> HIDE DEF w, k, N
<1>8. e[k + 1] = e[m]
  BY <1>5
<1>9. e[m] \in Nat
  BY <1>1, <1>4
<1> DEFINE x == p - e[k]
<1>10. x \in 1 .. Len(w) /\ p = e[k] + x
  BY <1>2, <1>4, <1>6, <1>7, <1>8, <1>9
<1> HIDE DEF x
<1> QED BY <1>5, <1>10 DEF w, N

(* The packets of a unit in a row make its text.                           *)
LEMMA LaidUnit ==
  ASSUME NEW ds, NEW s, NEW e, Laid(ds, s, e), Len(ds) \in Nat,
         NEW u \in Unit, codec \in Codecs, Carriable(codec, u),
         NEW j \in Nat, j + SliceNum(u) <= Len(ds),
         \A i \in 1 .. SliceNum(u) : ds[j + i].payload = Payload(u, i - 1)
  PROVE  /\ e[j] \in Nat /\ e[j] + Len(Text(u)) <= Len(s)
         /\ \A x \in 1 .. Len(Text(u)) : s[e[j] + x] = Text(u)[x]
<1> DEFINE n == SliceNum(u)
           at == e[j]
           Good(i) == /\ e[j + i] = at + Bound(u, i)
                      /\ \A x \in 1 .. Bound(u, i) : s[at + x] = Text(u)[x]
           T == {i \in 0 .. n : Good(i)}
<1>1. n \in Nat \ {0} /\ Bound(u, 0) = 0 /\ Bound(u, n) = Len(Text(u))
      /\ Len(Text(u)) \in Nat
  BY LastBound, TextBytes
<1>2. j \in 0 .. Len(ds) /\ j + n \in 0 .. Len(ds)
  BY <1>1
<1>3. at \in Nat /\ \A k \in 0 .. Len(ds) : e[k] \in Nat
  BY <1>2 DEF Laid
<1>4. \A i \in 0 .. n - 1 : ds[j + i + 1].payload = Payload(u, i)
  <2> SUFFICES ASSUME NEW i \in 0 .. n - 1 PROVE ds[j + i + 1].payload = Payload(u, i)
    OBVIOUS
  <2> DEFINE k == i + 1
  <2>1. k \in 1 .. n /\ k - 1 = i /\ j + i + 1 = j + k
    BY <1>1
  <2> HIDE DEF k, n
  <2>2. ds[j + k].payload = Payload(u, k - 1)
    BY <2>1 DEF n
  <2> QED BY <2>1, <2>2
<1> HIDE DEF n
<1>5. 0 \in T
  <2>1. e[j + 0] = at
    BY <1>2
  <2>2. 1 .. Bound(u, 0) = {}
    BY <1>1
  <2> HIDE DEF at
  <2>3. Good(0)
    BY <1>1, <1>3, <2>1, <2>2
  <2> HIDE DEF Good
  <2> QED BY <1>1, <2>3
<1>6. ASSUME NEW i \in 0 .. n - 1, i \in T PROVE i + 1 \in T
  <2> DEFINE w == Written(Payload(u, i))
             b == Bound(u, i)
             c == Bound(u, i + 1)
             k == j + i
  <2>1. Good(i)
    BY <1>6
  <2>2. /\ w \in Seq(Byte) /\ b \in Nat /\ c = b + Len(w)
        /\ \A x \in 1 .. Len(w) : w[x] = Text(u)[b + x]
    <3>1. i \in 0 .. SliceNum(u) - 1
      BY <1>6 DEF n
    <3> QED BY <3>1, WrittenPart
  <2>3. k \in 0 .. Len(ds) - 1 /\ k + 1 = j + (i + 1) /\ i + 1 \in 0 .. n
        /\ ds[k + 1].payload = Payload(u, i)
    BY <1>1, <1>2, <1>4
  <2> HIDE DEF w, k
  <2>4. /\ e[k + 1] = e[k] + Len(w) /\ e[k + 1] <= Len(s)
        /\ \A x \in 1 .. Len(w) : s[e[k] + x] = w[x]
    <3>1. k \in 0 .. Len(ds) - 1
      BY <2>3
    <3> DEFINE v == Written(ds[k + 1].payload)
    <3>2. /\ e[k + 1] = e[k] + Len(v) /\ e[k + 1] <= Len(s)
          /\ \A x \in 1 .. Len(v) : s[e[k] + x] = v[x]
      BY <3>1, LaidStep
    <3>3. v = w
      BY <2>3 DEF w
    <3> HIDE DEF v
    <3> QED BY <3>2, <3>3
  <2>5. e[k] = at + b /\ \A x \in 1 .. b : s[at + x] = Text(u)[x]
    BY <2>1 DEF k
  <2> HIDE DEF b, c, at
  <2>6. Len(w) \in Nat
    BY <2>2
  <2>7. e[j + (i + 1)] = at + c
    <3>1. e[k + 1] = at + c
      BY <1>3, <2>2, <2>4, <2>5, <2>6
    <3> QED BY <2>3, <3>1
  <2>8. ASSUME NEW x \in 1 .. c PROVE s[at + x] = Text(u)[x]
    <3>1. CASE x <= b
      <4>1. x \in 1 .. b
        BY <2>2, <2>6, <3>1
      <4> QED BY <2>5, <4>1
    <3>2. CASE x > b
      <4> DEFINE y == x - b
      <4>1. y \in 1 .. Len(w) /\ x = b + y /\ at + x = at + b + y
        BY <1>3, <2>2, <2>6, <3>2
      <4> HIDE DEF y
      <4>2. s[e[k] + y] = w[y] /\ w[y] = Text(u)[b + y]
        BY <2>2, <2>4, <4>1
      <4>3. s[at + x] = w[y]
        BY <2>5, <4>1, <4>2
      <4> QED BY <4>1, <4>2, <4>3
    <3> QED BY <2>2, <2>6, <3>1, <3>2
  <2>9. Good(i + 1)
    BY <2>7, <2>8 DEF c
  <2> HIDE DEF Good
  <2> QED BY <2>3, <2>9
<1>7. n \in T
  <2>1. 0 .. n \subseteq T
    <3> HIDE DEF T
    <3> QED BY <1>1, <1>5, <1>6, IntervalInSet
  <2> QED BY <1>1, <2>1
<1>8. e[j + n] = at + Len(Text(u)) /\ \A x \in 1 .. Len(Text(u)) : s[at + x] = Text(u)[x]
  BY <1>1, <1>7
<1>9. e[j + n] <= Len(s)
  <2> DEFINE k == j + n
  <2>1. k \in 1 .. Len(ds)
    BY <1>1, <1>2
  <2> HIDE DEF k
  <2>2. e[k] <= Len(s)
    BY <2>1 DEF Laid
  <2> QED BY <2>2 DEF k
<1> QED BY <1>3, <1>8, <1>9

-----------------------------------------------------------------------------
(* The inductive invariant.                                                *)

(* A datagram of the server: its payload is a packet of the unit it names. *)
FromUnit(d) ==
  /\ d \in Datagram /\ d.unit \in 1 .. Len(units)
  /\ \E i \in 0 .. SliceNum(units[d.unit]) - 1 : d.payload = Payload(units[d.unit], i)

NetInv ==
  /\ TypeOK
  /\ units # <<>> => slice <= SliceNum(Current)
  /\ \A k \in 1 .. Len(wire) : FromUnit(wire[k])
  /\ \A k \in 1 .. Len(log) : FromUnit(log[k])
  /\ \A k \in 1 .. Len(delivered) : FromUnit(delivered[k])

(* The codec never changes, so neither does what it decides.               *)
LEMMA SameCodec ==
  ASSUME codec' = codec
  PROVE  /\ \A u : SliceNum(u)' = SliceNum(u)
         /\ \A u, i : Payload(u, i)' = Payload(u, i)
         /\ \A u, i : Bound(u, i)' = Bound(u, i)
         /\ \A p : Written(p)' = Written(p)
         /\ \A ds, s, e : Laid(ds, s, e)' <=> Laid(ds, s, e)
<1>1. DataOffset' = DataOffset /\ HeaderLen' = HeaderLen
  BY DEF DataOffset, HeaderLen
<1>2. \A u : DataLen(u)' = DataLen(u)
  BY <1>1 DEF DataLen
<1>3. \A u : Remain(u)' = Remain(u) /\ RestSlices(u)' = RestSlices(u)
  BY <1>2 DEF Remain, RestSlices
<1>4. \A u : SliceNum(u)' = SliceNum(u)
  BY <1>2, <1>3 DEF SliceNum, Fragmented
<1>5. \A u, i : PkgDataLen(u, i)' = PkgDataLen(u, i)
  BY <1>3, <1>4 DEF PkgDataLen
<1>6. \A t, n, i : SliceHeader(t, n, i)' = SliceHeader(t, n, i)
  BY DEF SliceHeader, SliceFlag
<1>7. \A u, i : Payload(u, i)' = Payload(u, i)
  BY <1>1, <1>4, <1>5, <1>6 DEF Payload, Fragmented
<1>8. \A u, i : Bound(u, i)' = Bound(u, i)
  BY <1>1, <1>4 DEF Bound
<1>9. \A p : /\ IsSlice(p)' = IsSlice(p) /\ IsFirstSlice(p)' = IsFirstSlice(p)
             /\ UnitHeader(p)' = UnitHeader(p) /\ Data(p)' = Data(p)
  BY <1>1 DEF IsSlice, IsFirstSlice, UnitHeader, Data
<1>10. \A p : Written(p)' = Written(p)
  BY <1>9 DEF Written, StartCode
<1>11. \A ds, s, e : Laid(ds, s, e)' <=> Laid(ds, s, e)
  BY SMTT(30), <1>10 DEF Laid, Byte
<1> QED BY <1>4, <1>7, <1>8, <1>10, <1>11

(* A packet is a sequence of bytes, and so is what the client writes.      *)
LEMMA PacketType ==
  ASSUME NEW u \in Unit, codec \in Codecs, NEW i \in 0 .. SliceNum(u) - 1
  PROVE  Payload(u, i) \in Seq(Byte)
<1>1. CASE Fragmented(u)
  BY <1>1, SlicePayload
<1>2. CASE ~Fragmented(u)
  BY <1>2, UnitBytes DEF Payload
<1> QED BY <1>1, <1>2

(* The units are ones both ends can carry.                                 *)
LEMMA SentUnit ==
  ASSUME TypeOK, NEW k \in 1 .. Len(units)
  PROVE  units[k] \in Unit /\ Carriable(codec, units[k])
<1>1. codec \in Codecs /\ units[k] \in Units[codec]
  BY DEF TypeOK
<1>2. Units[codec] \subseteq Unit
  BY <1>1, TransferAssumption
<1> QED BY <1>1, <1>2, CarriableAssumption

(* The client writes bytes for every datagram of the server.               *)
LEMMA FromUnitWritten ==
  ASSUME TypeOK, NEW d, FromUnit(d)
  PROVE  Written(d.payload) \in Seq(Byte)
<1> DEFINE u == units[d.unit]
<1>1. u \in Unit /\ Carriable(codec, u) /\ codec \in Codecs
  BY SentUnit DEF FromUnit, TypeOK
<1>2. PICK i \in 0 .. SliceNum(u) - 1 : d.payload = Payload(u, i)
  BY DEF FromUnit
<1> HIDE DEF u
<1>3. Written(Payload(u, i)) \in Seq(Byte)
  BY <1>1, WrittenPart
<1> QED BY <1>2, <1>3

(* A datagram stays one while units are added.                             *)
LEMMA FromUnitKept ==
  ASSUME codec' = codec, Len(units) \in Nat, Len(units') \in Nat,
         Len(units) <= Len(units'), \A k \in 1 .. Len(units) : units'[k] = units[k]
  PROVE  \A d : FromUnit(d) => FromUnit(d)'
<1> SUFFICES ASSUME NEW d, FromUnit(d) PROVE FromUnit(d)'
  OBVIOUS
<1> DEFINE u == units[d.unit]
<1>1. d \in Datagram /\ d.unit \in 1 .. Len(units)
  BY DEF FromUnit
<1>2. PICK i \in 0 .. SliceNum(u) - 1 : d.payload = Payload(u, i)
  BY DEF FromUnit
<1>3. units'[d.unit] = u /\ d.unit \in 1 .. Len(units')
  BY <1>1
<1> HIDE DEF u
<1> QED BY <1>1, <1>2, <1>3, SameCodec DEF FromUnit, Datagram, Byte

(* What is left when a datagram is taken out.                              *)
LEMMA WithoutParts ==
  ASSUME NEW S, NEW s \in Seq(S), NEW k \in 1 .. Len(s)
  PROVE  /\ Without(s, k) \in Seq(S)
         /\ \A i \in 1 .. Len(Without(s, k)) : \E j \in 1 .. Len(s) : Without(s, k)[i] = s[j]
<1> DEFINE a == SubSeq(s, 1, k - 1)
           b == SubSeq(s, k + 1, Len(s))
<1>1. Len(s) \in Nat /\ \A i \in 1 .. Len(s) : s[i] \in S
  OBVIOUS
<1>2. /\ a \in Seq(S) /\ Len(a) = k - 1
      /\ \A i \in 1 .. Len(a) : a[i] = s[i]
  BY <1>1
<1>3. /\ b \in Seq(S) /\ Len(b) = Len(s) - k
      /\ \A i \in 1 .. Len(b) : b[i] = s[k + i]
  BY <1>1
<1> HIDE DEF a, b
<1>4. /\ a \o b \in Seq(S) /\ Len(a \o b) = Len(a) + Len(b)
      /\ \A i \in 1 .. Len(a) : (a \o b)[i] = a[i]
      /\ \A i \in 1 .. Len(b) : (a \o b)[Len(a) + i] = b[i]
  <2>1. a \in Seq(S) /\ b \in Seq(S)
    BY <1>2, <1>3
  <2> QED BY <2>1, ConcatParts
<1> DEFINE c == a \o b
<1> HIDE DEF c
<1>5. ASSUME NEW i \in 1 .. Len(c) PROVE \E j \in 1 .. Len(s) : c[i] = s[j]
  <2>1. CASE i <= Len(a)
    <3>1. i \in 1 .. Len(a) /\ i \in 1 .. Len(s)
      BY <1>1, <1>2, <2>1
    <3> QED BY <1>2, <1>4, <3>1 DEF c
  <2>2. CASE i > Len(a)
    <3> DEFINE j == i - Len(a)
    <3>1. j \in 1 .. Len(b) /\ i = Len(a) + j /\ k + j \in 1 .. Len(s)
      BY <1>1, <1>2, <1>3, <1>4, <2>2 DEF c
    <3> HIDE DEF j
    <3>2. c[i] = s[k + j]
      BY <1>3, <1>4, <3>1 DEF c
    <3> QED BY <3>1, <3>2
  <2> QED BY <1>2, <2>1, <2>2
<1> QED BY <1>4, <1>5 DEF Without, a, b, c

(* An element of a longer sequence.                                        *)
LEMMA AppendParts ==
  ASSUME NEW S, NEW s \in Seq(S), NEW d \in S
  PROVE  /\ Append(s, d) \in Seq(S) /\ Len(Append(s, d)) = Len(s) + 1 /\ Len(s) \in Nat
         /\ \A k \in 1 .. Len(s) : Append(s, d)[k] = s[k]
         /\ Append(s, d)[Len(s) + 1] = d
         /\ \A k \in 1 .. Len(s) + 1 : k \in 1 .. Len(s) \/ k = Len(s) + 1
OBVIOUS

(* The units sent so far, and one more.                                    *)
LEMMA UnitsGrow ==
  ASSUME TypeOK, NEW u \in Units[codec], RtpSendNalu(u)
  PROVE  /\ Len(units) \in Nat /\ Len(units') = Len(units) + 1 /\ Len(units) < MaxUnits
         /\ \A k \in 1 .. Len(units) : units'[k] = units[k]
         /\ units'[Len(units')] = u /\ units' \in Seq(Units[codec])
         /\ u \in Unit /\ Carriable(codec, u)
<1>1. units \in Seq(Units[codec]) /\ codec \in Codecs
  BY DEF TypeOK
<1>2. units' = Append(units, u) /\ Len(units) < MaxUnits
  BY DEF RtpSendNalu
<1>3. Units[codec] \subseteq Unit
  BY <1>1, TransferAssumption
<1> QED BY <1>1, <1>2, <1>3, CarriableAssumption

(* The packet SendPacket sends.                                            *)
Packet == [seq |-> sequence, stamp |-> timestamp, unit |-> Len(units),
           payload |-> Payload(Current, slice)]

(* It is a packet of the unit being sent.                                  *)
LEMMA PacketSent ==
  ASSUME NetInv, SendPacket
  PROVE  /\ Packet \in Datagram /\ FromUnit(Packet)
         /\ Len(units) \in 1 .. MaxUnits /\ Len(units) \in 1 .. Len(units)
         /\ Current \in Unit /\ Carriable(codec, Current)
         /\ slice \in 0 .. SliceNum(Current) - 1 /\ SliceNum(Current) \in Nat \ {0}
<1>1. /\ units \in Seq(Units[codec]) /\ Len(units) <= MaxUnits /\ slice \in Nat
      /\ sequence \in 0 .. SeqMod - 1 /\ timestamp \in 0 .. StampMod - 1
      /\ codec \in Codecs /\ TypeOK
  BY DEF NetInv, TypeOK
<1>2. units # <<>> /\ slice < SliceNum(Current)
  BY DEF SendPacket, Sending
<1>3. Len(units) \in 1 .. Len(units)
  BY <1>1, <1>2
<1>4. Current \in Unit /\ Carriable(codec, Current)
  BY <1>1, <1>3, SentUnit DEF Current
<1>5. SliceNum(Current) \in Nat \ {0}
  BY <1>4, LastBound
<1>6. slice \in 0 .. SliceNum(Current) - 1
  BY <1>1, <1>2, <1>5
<1>7. Payload(Current, slice) \in Seq(Byte)
  BY <1>1, <1>4, <1>6, PacketType
<1>8. Len(units) \in 1 .. MaxUnits
  BY <1>1, <1>3, TransferAssumption
<1>9. Packet \in Datagram
  BY <1>1, <1>7, <1>8 DEF Packet, Datagram
<1>10. FromUnit(Packet)
  <2>1. Packet.unit = Len(units) /\ Packet.payload = Payload(Current, slice)
    BY DEF Packet
  <2> QED BY <1>3, <1>6, <1>9, <2>1 DEF FromUnit, Current
<1> QED BY <1>3, <1>4, <1>5, <1>6, <1>8, <1>9, <1>10

(* NetInv holds at first.                                                  *)
LEMMA NetInit == Init => NetInv
<1> SUFFICES ASSUME Init PROVE NetInv
  OBVIOUS
<1>1. /\ 0 \in 0 .. SeqMod - 1 /\ 0 \in 0 .. StampMod - 1 /\ MaxUnits \in Nat
  BY TransferAssumption
<1>2. Len(<<>>) = 0 /\ 1 .. 0 = {}
  OBVIOUS
<1>3. TypeOK
  BY <1>1 DEF Init, TypeOK
<1> QED BY <1>2, <1>3 DEF Init, NetInv

(* rtp_send_nalu is called.                                                *)
LEMMA NetNalu ==
  ASSUME NetInv, NEW u \in Units[codec], RtpSendNalu(u)
  PROVE  NetInv'
<1>1. TypeOK
  BY DEF NetInv
<1>2. /\ Len(units) \in Nat /\ Len(units') = Len(units) + 1 /\ Len(units) < MaxUnits
      /\ \A k \in 1 .. Len(units) : units'[k] = units[k]
      /\ units'[Len(units')] = u /\ units' \in Seq(Units[codec])
      /\ u \in Unit /\ Carriable(codec, u)
  BY <1>1, UnitsGrow
<1>3. /\ slice' = 0 /\ codec' = codec /\ sequence' = sequence /\ timestamp' = timestamp
      /\ wire' = wire /\ log' = log /\ delivered' = delivered /\ out' = out
  BY DEF RtpSendNalu
<1>4. TypeOK'
  <2>1. Len(units') <= MaxUnits
    BY <1>2, TransferAssumption
  <2> QED BY <1>1, <1>2, <1>3, <2>1 DEF TypeOK, Datagram, Byte
<1>5. \A d : FromUnit(d) => FromUnit(d)'
  BY <1>2, <1>3, FromUnitKept
<1>6. slice' <= SliceNum(Current)'
  <2>1. SliceNum(u) \in Nat \ {0}
    BY <1>2, LastBound
  <2>2. SliceNum(u)' = SliceNum(u) /\ Current' = u
    BY <1>2, <1>3, SameCodec DEF Current
  <2>3. SliceNum(Current)' = SliceNum(u)
    BY <1>3, <2>2, SameCodec
  <2> QED BY <1>3, <2>1, <2>3
<1> QED BY <1>3, <1>4, <1>5, <1>6 DEF NetInv

(* A packet is sent.                                                       *)
LEMMA NetSend ==
  ASSUME NetInv, SendPacket
  PROVE  NetInv'
<1>1. /\ Packet \in Datagram /\ FromUnit(Packet)
      /\ slice \in 0 .. SliceNum(Current) - 1 /\ SliceNum(Current) \in Nat \ {0}
  BY PacketSent
<1>2. /\ wire' = Append(wire, Packet) /\ log' = Append(log, Packet)
      /\ slice' = slice + 1 /\ codec' = codec /\ units' = units
      /\ sequence' = Incremented(sequence) /\ timestamp' = StampAfter(Current, slice)
      /\ delivered' = delivered /\ out' = out
  BY DEF SendPacket, Packet
<1>3. TypeOK /\ wire \in Seq(Datagram) /\ log \in Seq(Datagram)
      /\ sequence \in Nat /\ timestamp \in 0 .. StampMod - 1 /\ slice \in Nat
      /\ Len(units) \in Nat
  BY DEF NetInv, TypeOK
<1> HIDE DEF Packet
<1>4. /\ wire' \in Seq(Datagram) /\ log' \in Seq(Datagram) /\ Len(wire) \in Nat
      /\ Len(log) \in Nat /\ Len(wire') = Len(wire) + 1 /\ Len(log') = Len(log) + 1
      /\ \A k \in 1 .. Len(wire) : wire'[k] = wire[k]
      /\ \A k \in 1 .. Len(log) : log'[k] = log[k]
      /\ wire'[Len(wire) + 1] = Packet /\ log'[Len(log) + 1] = Packet
  BY <1>1, <1>2, <1>3, AppendParts
<1>5. sequence' \in 0 .. SeqMod - 1
  <2>1. SeqMod \in Nat \ {0} /\ sequence + 1 \in Nat
    BY <1>3, TransferAssumption
  <2> QED BY <1>2, <2>1, DivMod DEF Incremented
<1>6. timestamp' \in 0 .. StampMod - 1
  <2>1. StampMod \in Nat \ {0} /\ timestamp + StampStep \in Nat
    BY <1>3, TransferAssumption
  <2>2. (timestamp + StampStep) % StampMod \in 0 .. StampMod - 1
    BY <2>1, DivMod
  <2> QED BY <1>2, <1>3, <2>2 DEF StampAfter
<1>7. TypeOK'
  BY <1>2, <1>3, <1>4, <1>5, <1>6 DEF TypeOK, Datagram, Byte
<1>8. \A d : FromUnit(d) => FromUnit(d)'
  BY <1>2, <1>3, FromUnitKept
<1>9. slice' <= SliceNum(Current)'
  <2>1. SliceNum(Current)' = SliceNum(Current)
    BY <1>2, SameCodec DEF Current
  <2> QED BY <1>1, <1>2, <2>1
<1>10. \A k \in 1 .. Len(wire) : FromUnit(wire[k])
  BY DEF NetInv
<1>11. \A k \in 1 .. Len(log) : FromUnit(log[k])
  BY DEF NetInv
<1>12. \A k \in 1 .. Len(wire') : FromUnit(wire[k])'
  BY <1>1, <1>4, <1>8, <1>10
<1>13. \A k \in 1 .. Len(log') : FromUnit(log[k])'
  <2> SUFFICES ASSUME NEW k \in 1 .. Len(log') PROVE FromUnit(log[k])'
    OBVIOUS
  <2>1. k \in 1 .. Len(log) \/ k = Len(log) + 1
    BY <1>4
  <2>2. FromUnit(log'[k])
    BY <1>1, <1>4, <1>11, <2>1
  <2> QED BY <1>8, <2>2
<1>14. \A k \in 1 .. Len(delivered') : FromUnit(delivered[k])'
  BY <1>2, <1>8 DEF NetInv
<1> QED BY <1>7, <1>9, <1>12, <1>13, <1>14 DEF NetInv

(* A datagram is received or lost.                                         *)
LEMMA NetNetwork ==
  ASSUME NetInv, NEW k \in DOMAIN wire, ProcessRtpOverUdp(k) \/ Lose(k)
  PROVE  NetInv'
<1>1. /\ wire' = Without(wire, k) /\ codec' = codec /\ units' = units /\ slice' = slice
      /\ sequence' = sequence /\ timestamp' = timestamp /\ log' = log
  BY DEF ProcessRtpOverUdp, Lose
<1>2. TypeOK /\ wire \in Seq(Datagram) /\ delivered \in Seq(Datagram) /\ out \in Seq(Byte)
      /\ Len(units) \in Nat
  BY DEF NetInv, TypeOK
<1>3. k \in 1 .. Len(wire) /\ wire[k] \in Datagram
  BY <1>2
<1>4. /\ wire' \in Seq(Datagram)
      /\ \A i \in 1 .. Len(wire') : \E j \in 1 .. Len(wire) : wire'[i] = wire[j]
  BY <1>1, <1>2, <1>3, WithoutParts
<1>5. \A d : FromUnit(d) => FromUnit(d)'
  BY <1>1, <1>2, FromUnitKept
<1>6. FromUnit(wire[k]) /\ \A j \in 1 .. Len(wire) : FromUnit(wire[j])
  BY <1>3 DEF NetInv
<1>7. \A i \in 1 .. Len(wire') : FromUnit(wire[i])'
  BY <1>4, <1>5, <1>6
<1>8. /\ out' \in Seq(Byte) /\ delivered' \in Seq(Datagram)
      /\ \A i \in 1 .. Len(delivered') : FromUnit(delivered[i])'
  <2>1. \A i \in 1 .. Len(delivered) : FromUnit(delivered[i])
    BY DEF NetInv
  <2>2. CASE Lose(k)
    BY <1>2, <1>5, <2>1, <2>2 DEF Lose
  <2>3. CASE ProcessRtpOverUdp(k)
    <3>1. Written(wire[k].payload) \in Seq(Byte)
      BY <1>2, <1>6, FromUnitWritten
    <3>2. out' \in Seq(Byte)
      BY <1>2, <2>3, <3>1, ConcatParts DEF ProcessRtpOverUdp
    <3>3. delivered' = Append(delivered, wire[k])
      BY <2>3 DEF ProcessRtpOverUdp
    <3>4. /\ delivered' \in Seq(Datagram) /\ Len(delivered') = Len(delivered) + 1
          /\ Len(delivered) \in Nat
          /\ \A i \in 1 .. Len(delivered) : delivered'[i] = delivered[i]
          /\ delivered'[Len(delivered) + 1] = wire[k]
      BY <1>2, <1>3, <3>3, AppendParts
    <3>5. \A i \in 1 .. Len(delivered') : FromUnit(delivered[i])'
      BY <1>5, <1>6, <2>1, <3>4
    <3> QED BY <3>2, <3>4, <3>5
  <2> QED BY <2>2, <2>3
<1>9. TypeOK'
  BY <1>1, <1>2, <1>4, <1>8 DEF TypeOK, Datagram, Byte
<1>10. units' # <<>> => slice' <= SliceNum(Current)'
  <2>1. SliceNum(Current)' = SliceNum(Current)
    BY <1>1, SameCodec DEF Current
  <2> QED BY <1>1, <2>1 DEF NetInv
<1>11. \A i \in 1 .. Len(log') : FromUnit(log[i])'
  BY <1>1, <1>5 DEF NetInv
<1> QED BY <1>7, <1>8, <1>9, <1>10, <1>11 DEF NetInv

(* Nothing happens.                                                        *)
LEMMA NetStutter ==
  ASSUME NetInv, UNCHANGED vars
  PROVE  NetInv'
<1>1. /\ wire' = wire /\ codec' = codec /\ units' = units /\ slice' = slice
      /\ sequence' = sequence /\ timestamp' = timestamp /\ log' = log
      /\ delivered' = delivered /\ out' = out
  BY DEF vars
<1>2. Len(units) \in Nat
  BY DEF NetInv, TypeOK
<1>3. \A d : FromUnit(d) => FromUnit(d)'
  BY <1>1, <1>2, FromUnitKept
<1>4. SliceNum(Current)' = SliceNum(Current)
  BY <1>1, SameCodec DEF Current
<1> QED BY <1>1, <1>3, <1>4 DEF NetInv, TypeOK, Datagram, Byte

(* NetInv is inductive.                                                    *)
LEMMA NetNext == NetInv /\ [Next]_vars => NetInv'
BY NetNalu, NetSend, NetNetwork, NetStutter DEF Next

(* What the client has written is the datagrams it has received.           *)
OutInv == \E e : Laid(delivered, out, e) /\ e[Len(delivered)] = Len(out)

(* How far into the stream of the units the packets sent reach.            *)
Sent == IF units = <<>> THEN 0
        ELSE Len(StreamOf(units)[Len(units) - 1]) + Bound(Current, slice)

(* The datagrams sent are the stream up to there.                          *)
LogInv == \E g : Laid(log, StreamOf(units)[Len(units)], g) /\ g[Len(log)] = Sent

(* OutInv holds at first.                                                  *)
LEMMA OutInit == Init => OutInv
<1> SUFFICES ASSUME Init PROVE OutInv
  OBVIOUS
<1>1. delivered = <<>> /\ out = <<>> /\ Len(<<>>) = 0
  BY DEF Init
<1>2. Laid(<<>>, <<>>, [k \in 0 .. 0 |-> 0]) /\ [k \in 0 .. 0 |-> 0][0] = 0
  BY LaidEmpty
<1> QED BY <1>1, <1>2 DEF OutInv

(* LogInv holds at first.                                                  *)
LEMMA LogInit == Init => LogInv
<1> SUFFICES ASSUME Init PROVE LogInv
  OBVIOUS
<1>1. log = <<>> /\ units = <<>> /\ Len(<<>>) = 0
  BY DEF Init
<1>2. /\ Laid(<<>>, StreamOf(units)[Len(units)], [k \in 0 .. 0 |-> 0])
      /\ [k \in 0 .. 0 |-> 0][0] = 0
  BY LaidEmpty
<1>3. Sent = 0
  BY <1>1 DEF Sent
<1> QED BY <1>1, <1>2, <1>3 DEF LogInv

(* Every step keeps OutInv.                                                *)
LEMMA OutNext ==
  ASSUME NetInv, OutInv, [Next]_vars
  PROVE  OutInv'
<1>1. PICK e : Laid(delivered, out, e) /\ e[Len(delivered)] = Len(out)
  BY DEF OutInv
<1>2. codec' = codec
  BY DEF Next, RtpSendNalu, SendPacket, ProcessRtpOverUdp, Lose, vars
<1>3. ASSUME out' = out, delivered' = delivered PROVE OutInv'
  <2>1. Laid(delivered, out, e)'
    BY <1>1, <1>2, <1>3, SameCodec
  <2> QED BY <1>1, <1>3, <2>1 DEF OutInv
<1>4. ASSUME NEW k \in DOMAIN wire, ProcessRtpOverUdp(k) PROVE OutInv'
  <2> DEFINE d == wire[k]
             w == Written(d.payload)
  <2>1. /\ delivered \in Seq(Datagram) /\ out \in Seq(Byte) /\ wire \in Seq(Datagram)
        /\ TypeOK
    BY DEF NetInv, TypeOK
  <2>2. d \in Datagram /\ FromUnit(d)
    BY <2>1, <1>4 DEF NetInv
  <2>3. w \in Seq(Byte)
    BY <2>1, <2>2, FromUnitWritten
  <2>4. delivered' = Append(delivered, d) /\ out' = out \o w
    BY <1>4 DEF ProcessRtpOverUdp
  <2> HIDE DEF d, w
  <2>5. /\ out' \in Seq(Byte) /\ Len(out') = Len(out) + Len(w)
        /\ \A x \in 1 .. Len(out) : out'[x] = out[x]
        /\ \A x \in 1 .. Len(w) : out'[Len(out) + x] = w[x]
    BY <2>1, <2>3, <2>4, ConcatParts
  <2>6. Laid(delivered, out', e)
    <3>1. Len(delivered) \in Nat /\ Len(out) \in Nat /\ Len(w) \in Nat
      BY <2>1, <2>3
    <3>2. Len(out) <= Len(out')
      BY <2>5, <3>1
    <3> QED BY <1>1, <2>1, <2>5, <3>1, <3>2, LaidLonger
  <2>7. /\ Written(d.payload) \in Seq(Byte)
        /\ e[Len(delivered)] + Len(Written(d.payload)) <= Len(out')
        /\ \A x \in 1 .. Len(Written(d.payload)) :
              out'[e[Len(delivered)] + x] = Written(d.payload)[x]
    <3>1. Len(out) + Len(w) <= Len(out')
      BY <2>1, <2>3, <2>5
    <3> QED BY <1>1, <2>3, <2>5, <3>1 DEF w
  <2>8. \E f : /\ Laid(Append(delivered, d), out', f)
               /\ f[Len(Append(delivered, d))] =
                    e[Len(delivered)] + Len(Written(d.payload))
    BY SMTT(30), <2>1, <2>2, <2>6, <2>7, LaidAppend
  <2>9. PICK f : Laid(delivered', out', f) /\ f[Len(delivered')] = Len(out')
    BY <1>1, <2>4, <2>5, <2>8 DEF w
  <2>10. Laid(delivered, out, f)'
    BY <1>2, <2>9, SameCodec
  <2> QED BY <2>9, <2>10 DEF OutInv
<1> QED BY <1>3, <1>4 DEF Next, RtpSendNalu, SendPacket, Lose, vars

(* Text of the last unit: where it lies in the stream.                     *)
LEMMA LastUnit ==
  ASSUME NetInv, units # <<>>
  PROVE  LET s == StreamOf(units)[Len(units) - 1]
             t == StreamOf(units)[Len(units)]
             u == Current
         IN /\ u \in Unit /\ Carriable(codec, u) /\ s \in Seq(Byte) /\ t \in Seq(Byte)
            /\ Len(s) \in Nat /\ Len(t) = Len(s) + Len(Text(u)) /\ Len(Text(u)) \in Nat
            /\ \A x \in 1 .. Len(Text(u)) : t[Len(s) + x] = Text(u)[x]
<1>1. TypeOK /\ units \in Seq(Units[codec]) /\ codec \in Codecs /\ Len(units) <= MaxUnits
  BY DEF NetInv, TypeOK
<1>2. units \in Seq(Unit)
  <2>1. Units[codec] \subseteq Unit
    BY <1>1, TransferAssumption
  <2> QED BY <1>1, <2>1
<1>3. Len(units) \in 1 .. Len(units)
  BY <1>1
<1>4. Current \in Unit /\ Carriable(codec, Current)
  BY <1>1, <1>3, SentUnit DEF Current
<1>5. Text(Current) \in Seq(Byte)
  BY <1>4, TextBytes
<1> DEFINE s == StreamOf(units)[Len(units) - 1]
           t == StreamOf(units)[Len(units)]
<1>6. /\ s \in Seq(Byte) /\ t \in Seq(Byte)
      /\ Len(t) = Len(s) + Len(Text(Current))
      /\ \A x \in 1 .. Len(Text(Current)) : t[Len(s) + x] = Text(Current)[x]
  BY <1>1, <1>2, <1>3, StreamGrows DEF Current
<1> HIDE DEF s, t
<1>7. Len(s) \in Nat /\ Len(Text(Current)) \in Nat
  BY <1>5, <1>6
<1> QED BY <1>4, <1>6, <1>7 DEF s, t

(* Once the last unit is sent, the whole stream is.                        *)
LEMMA AllSent ==
  ASSUME NetInv, ~Sending
  PROVE  Sent = Len(StreamOf(units)[Len(units)])
<1>1. CASE units = <<>>
  BY <1>1, StreamFirst DEF Sent
<1>2. CASE units # <<>>
  <2>1. slice = SliceNum(Current)
    <3>1. Current \in Unit /\ slice \in Nat /\ slice <= SliceNum(Current)
      BY <1>2, LastUnit DEF NetInv, TypeOK
    <3>2. SliceNum(Current) \in Nat
      BY <3>1, LastBound
    <3> QED BY <1>2, <3>1, <3>2 DEF Sending
  <2>2. Bound(Current, slice) = Len(Text(Current))
    BY <1>2, <2>1, LastUnit, LastBound
  <2> QED BY <1>2, <2>2, LastUnit DEF Sent
<1> QED BY <1>1, <1>2

(* A further unit makes the stream longer, not what is sent of it.         *)
LEMMA LogNalu ==
  ASSUME NetInv, LogInv, NEW u \in Units[codec], RtpSendNalu(u)
  PROVE  LogInv'
<1> DEFINE N == Len(units)
           t == StreamOf(units)[N]
           v == StreamOf(units')[N + 1]
<1>1. PICK g : Laid(log, t, g) /\ g[Len(log)] = Sent
  BY DEF LogInv
<1>2. /\ TypeOK /\ units \in Seq(Units[codec]) /\ codec \in Codecs /\ log \in Seq(Datagram)
  BY DEF NetInv, TypeOK
<1>3. /\ N \in Nat /\ Len(units') = N + 1 /\ N < MaxUnits
      /\ \A k \in 1 .. N : units'[k] = units[k]
      /\ units'[N + 1] = u /\ units' \in Seq(Units[codec]) /\ u \in Unit
  BY <1>2, UnitsGrow
<1>4. ~Sending /\ units' = Append(units, u) /\ slice' = 0 /\ codec' = codec /\ log' = log
  BY DEF RtpSendNalu
<1>5. units \in Seq(Unit) /\ units' \in Seq(Unit)
  <2>1. Units[codec] \subseteq Unit
    BY <1>2, TransferAssumption
  <2> QED BY <1>2, <1>3, <2>1
<1>6. StreamOf(units')[N] = t
  <2>1. \A k \in 0 .. N : StreamOf(Append(units, u))[k] = StreamOf(units)[k]
    BY <1>3, <1>5, StreamKept
  <2> QED BY <1>3, <1>4, <2>1
<1>7. /\ t \in Seq(Byte) /\ v \in Seq(Byte) /\ Len(v) = Len(t) + Len(Text(u))
      /\ \A x \in 1 .. Len(t) : v[x] = t[x]
  <2> DEFINE k == N + 1
             vs == units'
  <2>1. k \in 1 .. Len(vs) /\ Len(vs) <= MaxUnits /\ k - 1 = N /\ vs \in Seq(Unit) /\ vs[k] = u
    BY <1>3, <1>5, TransferAssumption
  <2> HIDE DEF k, vs
  <2>2. LET s == StreamOf(vs)[k - 1]
            r == StreamOf(vs)[k]
        IN /\ s \in Seq(Byte) /\ r \in Seq(Byte)
           /\ Len(r) = Len(s) + Len(Text(vs[k]))
           /\ \A x \in 1 .. Len(s) : r[x] = s[x]
    BY <2>1, StreamGrows
  <2>3. StreamOf(vs)[k - 1] = t
    BY <1>6, <2>1 DEF vs
  <2>4. StreamOf(vs)[k] = v
    BY DEF vs, k
  <2> HIDE DEF t, v
  <2> QED BY <2>1, <2>2, <2>3, <2>4
<1>8. Sent = Len(t)
  BY <1>4, AllSent
<1>9. Laid(log, v, g)
  <2>1. Len(log) \in Nat /\ Len(t) \in Nat /\ Len(Text(u)) \in Nat
    BY <1>2, <1>3, <1>7, TextBytes
  <2>2. Len(t) <= Len(v)
    BY <1>7, <2>1
  <2> HIDE DEF t, v
  <2> QED BY <1>1, <1>7, <2>1, <2>2, LaidLonger
<1>10. Sent' = Len(t)
  <2>1. units' # <<>> /\ Len(units') - 1 = N
    BY <1>3
  <2>2. StreamOf(units')[Len(units') - 1] = t
    BY <1>6, <2>1
  <2>3. Bound(Current, slice)' = 0
    <3>1. Current' = u
      BY <1>3 DEF Current
    <3>2. Bound(u, 0) = 0
      BY DEF Bound
    <3> QED BY <1>4, <3>1, <3>2, SameCodec
  <2>4. Len(t) \in Nat
    BY <1>7
  <2>5. Sent' = Len(StreamOf(units')[Len(units') - 1]) + Bound(Current, slice)'
    BY <2>1 DEF Sent, StreamOf, StartCode
  <2> HIDE DEF t
  <2> QED BY <2>2, <2>3, <2>4, <2>5
<1>11. Laid(log, StreamOf(units)[Len(units)], g)'
  <2>1. StreamOf(units)[Len(units)]' = v
    BY <1>3 DEF StreamOf, StartCode
  <2> QED BY <1>4, <1>9, <2>1, SameCodec
<1>12. g[Len(log')] = Sent'
  BY <1>1, <1>4, <1>8, <1>10
<1> QED BY <1>11, <1>12 DEF LogInv

(* The next packet sent carries the next bytes of the stream.              *)
LEMMA LogSend ==
  ASSUME NetInv, LogInv, SendPacket
  PROVE  LogInv'
<1> DEFINE s == StreamOf(units)[Len(units) - 1]
           t == StreamOf(units)[Len(units)]
           u == Current
           w == Written(Payload(u, slice))
           b == Bound(u, slice)
           c == Bound(u, slice + 1)
<1>1. PICK g : Laid(log, t, g) /\ g[Len(log)] = Sent
  BY DEF LogInv
<1>2. /\ units # <<>> /\ Packet \in Datagram /\ codec \in Codecs /\ log \in Seq(Datagram)
      /\ slice \in 0 .. SliceNum(u) - 1
  BY PacketSent DEF SendPacket, Sending, NetInv, TypeOK
<1>3. /\ u \in Unit /\ Carriable(codec, u) /\ s \in Seq(Byte) /\ t \in Seq(Byte)
      /\ Len(s) \in Nat /\ Len(t) = Len(s) + Len(Text(u)) /\ Len(Text(u)) \in Nat
      /\ \A x \in 1 .. Len(Text(u)) : t[Len(s) + x] = Text(u)[x]
  BY <1>2, LastUnit
<1> HIDE DEF u
<1>4. /\ w \in Seq(Byte) /\ b \in Nat /\ c = b + Len(w) /\ c <= Len(Text(u))
      /\ \A k \in 1 .. Len(w) : w[k] = Text(u)[b + k]
  BY <1>2, <1>3, WrittenPart
<1>5. Sent = Len(s) + b
  BY <1>2 DEF Sent, u
<1>6. Packet.payload = Payload(u, slice)
  BY DEF Packet, u
<1> HIDE DEF s, t, w, b, c
<1>7. Len(w) \in Nat
  BY <1>4
<1>8. Sent + Len(w) <= Len(t)
  BY <1>3, <1>4, <1>5, <1>7
<1>9. ASSUME NEW x \in 1 .. Len(w) PROVE t[Sent + x] = w[x]
  <2>1. b + x \in 1 .. Len(Text(u)) /\ Sent + x = Len(s) + (b + x)
    BY SMTT(30), <1>3, <1>4, <1>5, <1>7
  <2>2. t[Len(s) + (b + x)] = Text(u)[b + x]
    BY <1>3, <2>1
  <2>3. t[Sent + x] = Text(u)[b + x]
    BY <2>1, <2>2
  <2> QED BY <1>4, <2>3
<1>10. Written(Packet.payload) = w
  BY <1>6 DEF w
<1>11. \E f : /\ Laid(Append(log, Packet), t, f)
              /\ f[Len(Append(log, Packet))] = Sent + Len(w)
  <2> HIDE DEF Sent, Packet
  <2>1. /\ Written(Packet.payload) \in Seq(Byte)
        /\ g[Len(log)] + Len(Written(Packet.payload)) <= Len(t)
        /\ \A x \in 1 .. Len(Written(Packet.payload)) :
              t[g[Len(log)] + x] = Written(Packet.payload)[x]
    BY <1>1, <1>4, <1>8, <1>9, <1>10
  <2>2. \E f : /\ Laid(Append(log, Packet), t, f)
               /\ f[Len(Append(log, Packet))] =
                    g[Len(log)] + Len(Written(Packet.payload))
    BY <1>1, <1>2, <2>1, LaidAppend
  <2> QED BY <1>1, <1>10, <2>2
<1>12. /\ log' = Append(log, Packet) /\ units' = units /\ codec' = codec
       /\ slice' = slice + 1
  BY DEF SendPacket, Packet
<1>13. PICK f : Laid(log', t, f) /\ f[Len(log')] = Sent + Len(w)
  BY <1>11, <1>12
<1>14. Sent' = Sent + Len(w)
  <2>1. Bound(Current, slice)' = c
    BY <1>12, SameCodec DEF c, u, Current
  <2>2. Sent' = Len(s) + c
    BY <1>2, <1>12, <2>1 DEF Sent, s, StreamOf, StartCode
  <2> QED BY <1>3, <1>4, <1>5, <1>7, <2>2
<1>15. Laid(log, StreamOf(units)[Len(units)], f)'
  <2>1. StreamOf(units)[Len(units)]' = t
    BY <1>12 DEF t, StreamOf, StartCode
  <2> QED BY <1>12, <1>13, <2>1, SameCodec
<1> QED BY <1>13, <1>14, <1>15 DEF LogInv

(* Every step keeps LogInv.                                                *)
LEMMA LogNext ==
  ASSUME NetInv, LogInv, [Next]_vars
  PROVE  LogInv'
<1>1. ASSUME UNCHANGED <<codec, units, slice, log>> PROVE LogInv'
  <2>1. PICK g : Laid(log, StreamOf(units)[Len(units)], g) /\ g[Len(log)] = Sent
    BY DEF LogInv
  <2>2. Bound(Current, slice)' = Bound(Current, slice)
    BY <1>1, SameCodec DEF Current
  <2>3. Sent' = Sent
    BY <1>1, <2>2 DEF Sent, StreamOf, StartCode
  <2>4. StreamOf(units)[Len(units)]' = StreamOf(units)[Len(units)]
    BY <1>1 DEF StreamOf, StartCode
  <2>5. Laid(log, StreamOf(units)[Len(units)], g)'
    BY <1>1, <2>1, <2>4, SameCodec
  <2> QED BY <1>1, <2>1, <2>3, <2>5 DEF LogInv
<1> QED BY <1>1, LogNalu, LogSend DEF Next, ProcessRtpOverUdp, Lose, vars

-----------------------------------------------------------------------------
(* What the invariants say of the text the client writes.                  *)

(* The datagrams of a unit in a row leave its text in out.                 *)
LEMMA IntactUnits ==
  ASSUME NetInv, OutInv
  PROVE  IntactUnitsSurvive
<1>1. PICK e : Laid(delivered, out, e) /\ e[Len(delivered)] = Len(out)
  BY DEF OutInv
<1>2. TypeOK /\ delivered \in Seq(Datagram) /\ Len(delivered) \in Nat /\ out \in Seq(Byte)
      /\ codec \in Codecs
  BY DEF NetInv, TypeOK
<1>3. ASSUME NEW k \in 1 .. Len(units), NEW j \in 0 .. Len(delivered) - SliceNum(units[k]),
             \A i \in 1 .. SliceNum(units[k]) :
                 delivered[j + i].payload = Payload(units[k], i - 1)
      PROVE  \E p \in 0 .. Len(out) - Len(StartCode \o units[k]) :
                 StartCode \o units[k] = SubSeq(out, p + 1, p + Len(StartCode \o units[k]))
  <2> DEFINE u == units[k]
             p == e[j]
             text == Text(u)
             q == p + Len(text)
  <2>1. u \in Unit /\ Carriable(codec, u)
    BY <1>2, SentUnit
  <2>2. SliceNum(u) \in Nat /\ text \in Seq(Byte) /\ Len(text) \in Nat
    BY <2>1, LastBound, TextBytes
  <2>3. j \in Nat /\ j + SliceNum(u) <= Len(delivered)
    BY <1>2, <2>2
  <2>4. \A i \in 1 .. SliceNum(u) : delivered[j + i].payload = Payload(u, i - 1)
    BY <1>3
  <2> HIDE DEF u
  <2>5. /\ p \in Nat /\ q <= Len(out)
        /\ \A x \in 1 .. Len(text) : out[p + x] = text[x]
    BY <1>1, <1>2, <2>1, <2>3, <2>4, LaidUnit
  <2> HIDE DEF p, text
  <2>6. q \in Nat /\ p <= q /\ q - p = Len(text) /\ p \in 0 .. Len(out) - Len(text)
    BY <1>2, <2>2, <2>5
  <2> HIDE DEF q
  <2>7. /\ SubSeq(out, p + 1, q) \in Seq(Byte) /\ Len(SubSeq(out, p + 1, q)) = q - p
        /\ \A x \in 1 .. q - p : SubSeq(out, p + 1, q)[x] = out[p + x]
    BY <1>2, <2>5, <2>6, CutBytes
  <2> DEFINE v == SubSeq(out, p + 1, q)
  <2> HIDE DEF v
  <2>8. text = v
    <3>1. Len(text) = Len(v) /\ \A x \in 1 .. Len(text) : text[x] = v[x]
      BY <2>5, <2>6, <2>7 DEF v
    <3>2. text \in Seq(Byte) /\ v \in Seq(Byte)
      BY <2>2, <2>7 DEF v
    <3> QED BY <3>1, <3>2, SeqEqual
  <2>9. text = SubSeq(out, p + 1, p + Len(text))
    BY <2>8 DEF v, q
  <2>10. text = StartCode \o units[k]
    BY DEF text, Text, u
  <2> QED BY <2>6, <2>9, <2>10
<1> QED BY <1>3 DEF IntactUnitsSurvive

(* The datagrams received are a prefix of those sent, and so out of Stream.*)
LEMMA WritesTheStream ==
  ASSUME NetInv, OutInv, LogInv
  PROVE  ClientWritesTheStream
<1> DEFINE t == StreamOf(units)[Len(units)]
           N == Len(delivered)
<1>1. PICK e : Laid(delivered, out, e) /\ e[N] = Len(out)
  BY DEF OutInv
<1>2. PICK g : Laid(log, t, g) /\ g[Len(log)] = Sent
  BY DEF LogInv
<1>3. /\ delivered \in Seq(Datagram) /\ log \in Seq(Datagram) /\ N \in Nat
      /\ Len(log) \in Nat /\ out \in Seq(Byte) /\ Len(out) \in Nat
  BY DEF NetInv, TypeOK
<1>4. t \in Seq(Byte) /\ Len(t) \in Nat
  <2>1. CASE units = <<>>
    <3>1. t = <<>>
      BY <2>1, StreamFirst
    <3> QED BY <3>1, EmptySeq
  <2>2. CASE units # <<>>
    <3>1. t \in Seq(Byte)
      BY <2>2, LastUnit
    <3> HIDE DEF t
    <3> QED BY <3>1
  <2> QED BY <2>1, <2>2
<1>5. Stream[Len(units)] = t
  BY StreamIsStreamOf
<1> HIDE DEF t
<1>6. ASSUME Prefix(delivered, log)
      PROVE  /\ Len(out) <= Len(t) /\ \A p \in 1 .. Len(out) : out[p] = t[p]
             /\ Len(out) = g[N] /\ N <= Len(log)
  <2>1. N <= Len(log) /\ \A k \in 1 .. N : delivered[k] = log[k]
    <3>1. N <= Len(log) /\ delivered = SubSeq(log, 1, N)
      BY <1>6 DEF Prefix
    <3>2. \A k \in 1 .. N : SubSeq(log, 1, N)[k] = log[k]
      BY <1>3, <3>1
    <3> QED BY <3>1, <3>2
  <2>2. \A k \in 0 .. N : e[k] = g[k]
    BY <1>1, <1>2, <1>3, <2>1, LaidPrefix
  <2>3. Len(out) = g[N]
    BY <1>1, <1>3, <2>2
  <2>4. Len(out) <= Len(t)
    <3>1. CASE N = 0
      <4>1. e[0] = 0
        BY <1>1 DEF Laid
      <4> QED BY <1>1, <1>4, <3>1, <4>1
    <3>2. CASE N # 0
      <4>1. N \in 1 .. Len(log)
        BY <1>3, <2>1, <3>2
      <4>2. g[N] <= Len(t)
        BY <1>2, <4>1 DEF Laid
      <4> QED BY <2>3, <4>2
    <3> QED BY <3>1, <3>2
  <2>5. ASSUME NEW p \in 1 .. Len(out) PROVE out[p] = t[p]
    <3>1. p \in 1 .. e[N]
      BY <1>1
    <3>2. PICK k \in 0 .. N - 1 :
             \E x \in 1 .. Len(Written(delivered[k + 1].payload)) : p = e[k] + x
      BY <1>1, <1>3, <3>1, LaidCovers
    <3>3. PICK x \in 1 .. Len(Written(delivered[k + 1].payload)) : p = e[k] + x
      BY <3>2
    <3> DEFINE w == Written(delivered[k + 1].payload)
    <3>4. out[e[k] + x] = w[x]
      BY <1>1, <1>3, <3>3, LaidStep
    <3>5. w = Written(log[k + 1].payload)
      <4>1. k + 1 \in 1 .. N
        BY <1>3
      <4>2. delivered[k + 1] = log[k + 1]
        BY <2>1, <4>1
      <4> QED BY <4>2
    <3>6. t[g[k] + x] = w[x]
      <4> DEFINE v == Written(log[k + 1].payload)
      <4>1. k \in 0 .. Len(log) - 1
        BY <1>3, <2>1
      <4>2. \A y \in 1 .. Len(v) : t[g[k] + y] = v[y]
        BY <1>2, <1>3, <4>1, LaidStep
      <4>3. x \in 1 .. Len(v)
        BY <3>3, <3>5
      <4> QED BY <3>5, <4>2, <4>3
    <3>7. e[k] = g[k]
      BY <1>3, <2>2
    <3> HIDE DEF w
    <3> QED BY <3>3, <3>4, <3>6, <3>7
  <2> QED BY <2>1, <2>3, <2>4, <2>5
<1>7. ASSUME Prefix(delivered, log) PROVE Prefix(out, t)
  <2>1. Len(out) <= Len(t) /\ \A p \in 1 .. Len(out) : out[p] = t[p]
    BY <1>6, <1>7
  <2> DEFINE m == Len(out)
             v == SubSeq(t, 1, m)
  <2>2. /\ v \in Seq(Byte) /\ Len(v) = m
        /\ \A p \in 1 .. m : v[p] = t[p]
    BY <1>3, <1>4, <2>1
  <2> HIDE DEF v
  <2>3. out = v
    BY <1>3, <2>1, <2>2, SeqEqual
  <2> QED BY <2>1, <2>3 DEF Prefix, v
<1>8. ASSUME ~Sending, delivered = log PROVE out = t
  <2>1. Prefix(delivered, log)
    <3> DEFINE v == SubSeq(log, 1, Len(log))
    <3>1. v \in Seq(Datagram) /\ Len(v) = Len(log) /\ \A k \in 1 .. Len(log) : v[k] = log[k]
      BY <1>3
    <3> HIDE DEF v
    <3>2. log = v
      BY <1>3, <3>1, SeqEqual
    <3> QED BY <1>3, <1>8, <3>2 DEF Prefix, v
  <2>2. Len(out) = Len(t)
    <3>1. Len(out) = g[N] /\ N = Len(log)
      BY <1>6, <1>8, <2>1
    <3>2. Sent = Len(t)
      BY <1>8, AllSent DEF t
    <3> QED BY <1>2, <3>1, <3>2
  <2>3. \A p \in 1 .. Len(out) : out[p] = t[p]
    BY <1>6, <2>1
  <2> QED BY <1>3, <1>4, <2>2, <2>3, SeqEqual
<1> QED BY <1>5, <1>7, <1>8 DEF ClientWritesTheStream

-----------------------------------------------------------------------------
(* The timestamps.                                                         *)

(* The timestamp of the unit after one with the timestamp t.               *)
After(u, t) == IF IsParameterSet(u) THEN t ELSE (t + StampStep) % StampMod

StampInv ==
  \* a unit is stamped with the timestamp its first packet finds, ...
  /\ \A i \in 1 .. Len(log) :
       log[i].unit = Len(units) =>
         /\ slice > 0
         /\ timestamp = IF Sending THEN log[i].stamp ELSE After(Current, log[i].stamp)
  \* ... which the last packet of the unit before has advanced
  /\ \A i \in 1 .. Len(log) :
       Sending /\ log[i].unit + 1 = Len(units) =>
         timestamp = After(units[log[i].unit], log[i].stamp)
  \* the packets of the log, two by two
  /\ \A i, j \in 1 .. Len(log) :
       /\ log[i].unit = log[j].unit => log[i].stamp = log[j].stamp
       /\ log[j].unit = log[i].unit + 1 =>
            log[j].stamp = After(units[log[i].unit], log[i].stamp)

(* The packets of the log are of the units given to rtp_send_nalu.         *)
LEMMA LogUnits ==
  ASSUME NetInv
  PROVE  /\ log \in Seq(Datagram) /\ Len(log) \in Nat /\ Len(units) \in Nat
         /\ slice \in Nat /\ timestamp \in 0 .. StampMod - 1 /\ codec \in Codecs
         /\ \A i \in 1 .. Len(log) : /\ log[i].unit \in 1 .. Len(units)
                                     /\ log[i].stamp \in 0 .. StampMod - 1
<1>1. log \in Seq(Datagram) /\ units \in Seq(Units[codec]) /\ slice \in Nat
      /\ timestamp \in 0 .. StampMod - 1 /\ codec \in Codecs
  BY DEF NetInv, TypeOK
<1>2. ASSUME NEW i \in 1 .. Len(log)
      PROVE  log[i].unit \in 1 .. Len(units) /\ log[i].stamp \in 0 .. StampMod - 1
  <2>1. FromUnit(log[i])
    BY DEF NetInv
  <2> QED BY <2>1 DEF FromUnit, Datagram
<1> QED BY <1>1, <1>2

(* StampInv holds at first.                                                *)
LEMMA StampInit == Init => StampInv
<1>1. Len(<<>>) = 0 /\ 1 .. 0 = {}
  OBVIOUS
<1> QED BY <1>1 DEF Init, StampInv

(* The unit before a new one is complete: the timestamp is after it.       *)
LEMMA StampNalu ==
  ASSUME NetInv, StampInv, NEW u \in Units[codec], RtpSendNalu(u)
  PROVE  StampInv'
<1>1. /\ Len(log) \in Nat /\ Len(units) \in Nat
      /\ \A i \in 1 .. Len(log) : log[i].unit \in 1 .. Len(units)
  BY LogUnits
<1>2. /\ Len(units') = Len(units) + 1 /\ \A k \in 1 .. Len(units) : units'[k] = units[k]
  BY UnitsGrow DEF NetInv
<1>3. ~Sending /\ log' = log /\ timestamp' = timestamp /\ codec' = codec
  BY DEF RtpSendNalu
<1>4. ASSUME NEW i \in 1 .. Len(log), log[i].unit = Len(units')
      PROVE  FALSE
  BY <1>1, <1>2, <1>4
<1>5. ASSUME NEW i \in 1 .. Len(log), log[i].unit + 1 = Len(units')
      PROVE  timestamp = After(units[log[i].unit], log[i].stamp)
  <2>1. log[i].unit = Len(units)
    BY <1>1, <1>2, <1>5
  <2> QED BY <1>3, <2>1 DEF StampInv, Current
<1>6. ASSUME NEW i \in 1 .. Len(log) PROVE units'[log[i].unit] = units[log[i].unit]
  BY <1>1, <1>2
<1>7. \A i, j \in 1 .. Len(log) :
        /\ log[i].unit = log[j].unit => log[i].stamp = log[j].stamp
        /\ log[j].unit = log[i].unit + 1 =>
             log[j].stamp = After(units[log[i].unit], log[i].stamp)
  BY DEF StampInv
<1>8. \A u1, t : After(u1, t)' = After(u1, t)
  BY DEF After, IsParameterSet
<1>9. \A i \in 1 .. Len(log) : log[i].unit # Len(units')
  BY <1>4
<1>10. \A i \in 1 .. Len(log) :
         log[i].unit + 1 = Len(units') =>
           timestamp = After(units'[log[i].unit], log[i].stamp)
  BY <1>5, <1>6
<1>11. \A i, j \in 1 .. Len(log) :
         log[j].unit = log[i].unit + 1 =>
           log[j].stamp = After(units'[log[i].unit], log[i].stamp)
  BY <1>6, <1>7
<1> QED BY <1>3, <1>7, <1>8, <1>9, <1>10, <1>11 DEF StampInv

(* A packet has the timestamp of its unit; the last one advances it.       *)
LEMMA StampSend ==
  ASSUME NetInv, StampInv, SendPacket
  PROVE  StampInv'
<1> DEFINE N == Len(log)
           m == Len(units)
           d == Packet
<1>1. /\ log \in Seq(Datagram) /\ N \in Nat /\ m \in Nat /\ slice \in Nat
      /\ \A i \in 1 .. N : log[i].unit \in 1 .. m
  BY LogUnits
<1>2. Packet \in Datagram /\ SliceNum(Current) \in Nat
      /\ slice \in 0 .. SliceNum(Current) - 1
  BY PacketSent
<1>3. /\ Sending /\ units' = units /\ slice' = slice + 1 /\ codec' = codec
      /\ log' = Append(log, d) /\ timestamp' = StampAfter(Current, slice)
  BY DEF SendPacket, Packet
<1>4. /\ Len(log') = N + 1 /\ log'[N + 1] = d /\ \A i \in 1 .. N : log'[i] = log[i]
      /\ \A k \in 1 .. N + 1 : k \in 1 .. N \/ k = N + 1
  BY <1>1, <1>2, <1>3, AppendParts
<1>5. d.unit = m /\ d.stamp = timestamp
  BY DEF Packet
<1> HIDE DEF d
<1>6. SliceNum(Current)' = SliceNum(Current) /\ Current' = Current
  BY <1>3, SameCodec DEF Current
<1>7. Sending' <=> slice + 1 < SliceNum(Current)
  BY <1>3, <1>6 DEF Sending
<1>8. timestamp' = IF Sending' THEN timestamp ELSE After(Current, timestamp)
  <2>1. slice < SliceNum(Current) - 1 <=> slice + 1 < SliceNum(Current)
    BY <1>1, <1>2
  <2> QED BY <1>3, <1>7, <2>1 DEF StampAfter, After
<1>9. \A i \in 1 .. N : log[i].unit = m => log[i].stamp = timestamp
  BY <1>3 DEF StampInv
<1>10. \A i \in 1 .. N : log[i].unit + 1 = m =>
         timestamp = After(units[log[i].unit], log[i].stamp)
  BY <1>3 DEF StampInv
<1>11. \A i, j \in 1 .. N :
         /\ log[i].unit = log[j].unit => log[i].stamp = log[j].stamp
         /\ log[j].unit = log[i].unit + 1 =>
              log[j].stamp = After(units[log[i].unit], log[i].stamp)
  BY DEF StampInv
<1> HIDE DEF N, m
<1>12. ASSUME NEW i \in 1 .. N + 1, log'[i].unit = m
       PROVE  log'[i].stamp = timestamp
  BY <1>4, <1>5, <1>9, <1>12
<1>13. ASSUME NEW i \in 1 .. N + 1, log'[i].unit + 1 = m
       PROVE  timestamp = After(units[log'[i].unit], log'[i].stamp)
  <2>1. i \in 1 .. N
    BY <1>1, <1>4, <1>5, <1>13
  <2> QED BY <1>4, <1>10, <1>13, <2>1
<1>14. ASSUME NEW i \in 1 .. N + 1, NEW j \in 1 .. N + 1,
              log'[i].unit = log'[j].unit
       PROVE  log'[i].stamp = log'[j].stamp
  BY <1>4, <1>5, <1>9, <1>11, <1>14
<1>15. ASSUME NEW i \in 1 .. N + 1, NEW j \in 1 .. N + 1,
              log'[j].unit = log'[i].unit + 1
       PROVE  log'[j].stamp = After(units[log'[i].unit], log'[i].stamp)
  <2>1. CASE j = N + 1
    BY <1>4, <1>5, <1>13, <1>15, <2>1
  <2>2. CASE j \in 1 .. N
    <3>1. i \in 1 .. N
      BY <1>1, <1>4, <1>5, <1>15, <2>2
    <3> QED BY <1>4, <1>11, <1>15, <2>2, <3>1
  <2> QED BY <1>4, <2>1, <2>2
<1>16. \A u, t : After(u, t)' = After(u, t)
  BY DEF After, IsParameterSet
<1>17. Len(log)' = N + 1 /\ Len(units)' = m
  BY <1>3, <1>4 DEF m
<1>18. slice' > 0
  BY <1>1, <1>3
<1>19. \A i \in 1 .. N + 1 :
         log'[i].unit = m =>
           /\ slice' > 0
           /\ timestamp' = IF Sending' THEN log'[i].stamp
                                       ELSE After(Current, log'[i].stamp)
  BY <1>8, <1>12, <1>18
<1>20. \A i \in 1 .. N + 1 :
         Sending' /\ log'[i].unit + 1 = m =>
           timestamp' = After(units[log'[i].unit], log'[i].stamp)
  BY <1>8, <1>13
<1>21. \A i \in 1 .. Len(log') :
         log'[i].unit = Len(units') =>
           /\ slice' > 0
           /\ timestamp' = IF Sending' THEN log'[i].stamp
                                       ELSE After(Current, log[i].stamp)'
  BY <1>6, <1>16, <1>17, <1>19
<1>22. \A i \in 1 .. Len(log') :
         Sending' /\ log'[i].unit + 1 = Len(units') =>
           timestamp' = After(units'[log'[i].unit], log'[i].stamp)
  BY <1>3, <1>17, <1>20
<1>23. \A i, j \in 1 .. Len(log') :
         /\ log'[i].unit = log'[j].unit => log'[i].stamp = log'[j].stamp
         /\ log'[j].unit = log'[i].unit + 1 =>
              log'[j].stamp = After(units'[log'[i].unit], log'[i].stamp)
  BY <1>3, <1>14, <1>15, <1>17
<1> QED BY <1>16, <1>21, <1>22, <1>23 DEF StampInv

(* Every step keeps StampInv.                                              *)
LEMMA StampNext ==
  ASSUME NetInv, StampInv, [Next]_vars
  PROVE  StampInv'
<1>1. ASSUME UNCHANGED <<codec, units, slice, timestamp, log>> PROVE StampInv'
  <2>1. Sending' <=> Sending
    <3>1. SliceNum(Current)' = SliceNum(Current)
      BY <1>1, SameCodec DEF Current
    <3> QED BY <1>1, <3>1 DEF Sending
  <2> QED BY SMTT(30), <1>1, <2>1 DEF StampInv, After, IsParameterSet, Current
<1> QED BY <1>1, StampNalu, StampSend DEF Next, ProcessRtpOverUdp, Lose, vars

(* What KeepsStamp and IsParameterSet have in common.                      *)
LEMMA ParameterSets ==
  ASSUME codec \in Codecs, NEW u \in Unit, Carriable(codec, u)
  PROVE  KeepsStamp(u) <=> IsParameterSet(u)
<1> DEFINE t == u[1]
<1>1. t \in 0 .. 255
  <2>1. u[1] \in Byte
    BY UnitBytes
  <2> QED BY <2>1 DEF Byte
<1>2. CASE codec = "H264"
  BY <1>2 DEF KeepsStamp, IsParameterSet
<1>3. CASE codec = "H265"
  <2>1. t < 128 /\ t % 2 = 0
    BY <1>3 DEF Carriable
  <2>2. KeepsStamp(u) <=> t \div 2 \in {4, 20, 36, 52}
    BY <1>3 DEF KeepsStamp
  <2>3. IsParameterSet(u) <=> t % 32 \in {7, 8}
    BY DEF IsParameterSet
  <2> HIDE DEF t
  <2>4. t \div 2 \in {4, 20, 36, 52} <=> t % 32 \in {7, 8}
    BY <1>1, <2>1, SMT
  <2> QED BY <2>2, <2>3, <2>4
<1> QED BY <1>2, <1>3 DEF Codecs

(* Two timestamps that follow each other differ, across the wrap.          *)
LEMMA StampMoves ==
  ASSUME NEW t \in 0 .. StampMod - 1
  PROVE  (t + StampStep) % StampMod # t
<1>1. StampMod \in Nat /\ StampStep \in Nat /\ StampStep > 0 /\ StampStep < StampMod
  BY TransferAssumption
<1>2. CASE t + StampStep < StampMod
  <2>1. (t + StampStep) % StampMod = t + StampStep
    BY <1>1, <1>2, SMT
  <2> QED BY <1>1, <2>1
<1>3. CASE t + StampStep >= StampMod
  <2>1. (t + StampStep) % StampMod = t + StampStep - StampMod
    BY <1>1, <1>3, SMT
  <2> QED BY <1>1, <2>1
<1> QED BY <1>1, <1>2, <1>3

(* StampInv says what the property does.                                   *)
LEMMA OwnTimestamp ==
  ASSUME NetInv, StampInv
  PROVE  UnitsHaveOwnTimestamp
<1> SUFFICES ASSUME NEW i \in DOMAIN log, NEW j \in DOMAIN log
             PROVE  /\ log[i].unit = log[j].unit => log[i].stamp = log[j].stamp
                    /\ log[j].unit = log[i].unit + 1 =>
                         (log[i].stamp = log[j].stamp) = KeepsStamp(units[log[i].unit])
  BY DEF UnitsHaveOwnTimestamp
<1> DEFINE u == units[log[i].unit]
           s == log[i].stamp
<1>1. i \in 1 .. Len(log) /\ j \in 1 .. Len(log)
  BY LogUnits
<1>2. /\ log[i].unit \in 1 .. Len(units) /\ s \in 0 .. StampMod - 1
      /\ codec \in Codecs /\ TypeOK
  BY <1>1, LogUnits DEF NetInv
<1>3. u \in Unit /\ Carriable(codec, u)
  BY <1>2, SentUnit
<1>4. KeepsStamp(u) <=> IsParameterSet(u)
  BY <1>2, <1>3, ParameterSets
<1>5. /\ log[i].unit = log[j].unit => s = log[j].stamp
      /\ log[j].unit = log[i].unit + 1 => log[j].stamp = After(u, s)
  BY <1>1 DEF StampInv
<1>6. s = After(u, s) <=> IsParameterSet(u)
  BY <1>2, StampMoves DEF After
<1>7. KeepsStamp(u) \in BOOLEAN
  <2>1. CASE codec = "H264"
    BY <2>1 DEF KeepsStamp
  <2>2. CASE codec # "H264"
    BY <2>2 DEF KeepsStamp
  <2> QED BY <2>1, <2>2
<1>8. ASSUME log[j].unit = log[i].unit + 1
      PROVE  (s = log[j].stamp) = KeepsStamp(u)
  <2>1. log[j].stamp = After(u, s)
    BY <1>5, <1>8
  <2>2. (s = log[j].stamp) <=> KeepsStamp(u)
    BY <1>4, <1>6, <2>1
  <2> QED BY <1>7, <2>2
<1> QED BY <1>5, <1>8

-----------------------------------------------------------------------------
IInv == NetInv /\ OutInv /\ LogInv /\ StampInv

(* The inductive invariant: what is in the network is packets of the units *)
(* sent, what the client wrote is the datagrams it received, what was sent *)
(* is the stream up to the current packet, and each unit has its stamp.    *)
THEOREM InductiveInvariant == Spec => []IInv
<1>1. Init => IInv
  BY NetInit, OutInit, LogInit, StampInit DEF IInv
<1>2. IInv /\ [Next]_vars => IInv'
  BY NetNext, OutNext, LogNext, StampNext DEF IInv
<1> QED BY <1>1, <1>2, PTL DEF Spec

(* Every variable keeps its type: sequence numbers and timestamps stay     *)
(* inside their widths, and only bytes reach the callback.                 *)
THEOREM TypeCorrect == Spec => []TypeOK
<1>1. IInv => TypeOK
  BY DEF IInv, NetInv
<1> QED BY <1>1, InductiveInvariant, PTL

(* The memcpy of rtp_send_nalu never writes behind the end of rtp_buffer,  *)
(* for every RTP_MAX_SIZE that leaves 19 bytes of it for headers.          *)
THEOREM PacketsAlwaysFitBuffer == Spec => []PacketsFitBuffer
<1>1. IInv => PacketsFitBuffer
  <2> SUFFICES ASSUME IInv, Sending PROVE BufferUsed(Current, slice) <= BufferSize
    BY DEF PacketsFitBuffer
  <2>1. Current \in Unit /\ slice \in Nat /\ slice < SliceNum(Current)
    BY LastUnit DEF IInv, NetInv, TypeOK, Sending
  <2> QED BY <2>1, PacketFits
<1> QED BY <1>1, InductiveInvariant, PTL

(* A unit all packets of which arrive in a row is written intact, whatever *)
(* the network loses or reorders around it.                                *)
THEOREM IntactUnitsAreWritten == Spec => []IntactUnitsSurvive
<1>1. IInv => IntactUnitsSurvive
  BY IntactUnits DEF IInv
<1> QED BY <1>1, InductiveInvariant, PTL

(* Without loss and reordering the client writes the stream the server was *)
(* given, byte by byte.                                                    *)
THEOREM StreamIsWritten == Spec => []ClientWritesTheStream
<1>1. IInv => ClientWritesTheStream
  BY WritesTheStream DEF IInv
<1> QED BY <1>1, InductiveInvariant, PTL

(* The packets of a unit share a timestamp, and the next unit has another  *)
(* one exactly when the type of the unit does not keep it.                 *)
THEOREM UnitsAreStamped == Spec => []UnitsHaveOwnTimestamp
<1>1. IInv => UnitsHaveOwnTimestamp
  BY OwnTimestamp DEF IInv
<1> QED BY <1>1, InductiveInvariant, PTL
=============================================================================
