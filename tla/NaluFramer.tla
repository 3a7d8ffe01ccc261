----------------------------- MODULE NaluFramer -----------------------------
(***************************************************************************)
(* How the server cuts a byte stream into NAL units: ab_rtsp_server_send   *)
(* of rtsp_server/ab_rtsp_server.c, fed by the read loop of                *)
(* rtsp_server/main.c.                                                     *)
(*                                                                         *)
(* main reads a file (Annex B: each NAL unit is preceded by the start code *)
(* 00 00 01 or 00 00 00 01) in pieces and hands them over; the bytes are   *)
(* collected in rtsp->cache and every NAL unit that a later start code     *)
(* ends is passed to rtp_send_nalu.  At the end of the file an empty piece *)
(* flushes the cache, and main reads the file again from its beginning.    *)
(*                                                                         *)
(* Bytes are Zero, One and any others.  Positions are offsets from 0, as   *)
(* in the code; the byte at offset i of the sequence s is s[i + 1].        *)
(***************************************************************************)
EXTENDS Integers, Sequences, AnnexB

CONSTANTS
  Byte,          \* the bytes a file is made of
  Files,         \* the files main may be started on
  ChunkSizes,    \* the values tried for data_buf_size
  CacheSizes     \* the values tried for data_cache_size

(* The code has one piece of 10 KiB (data_buf of main) and one cache of    *)
(* 1 MiB (rtsp_server_new).  That a piece and a start code fit the cache is *)
(* all that is supposed of them.                                           *)
ASSUME FramerAssumption ==
  /\ {0, 1} \subseteq Byte
  /\ Files \subseteq Seq(Byte)
  /\ ChunkSizes \cup CacheSizes \subseteq Nat \ {0}
  /\ \A n \in ChunkSizes, m \in CacheSizes : n + 4 <= m

VARIABLES
  file,      \* the file
  chunk,     \* data_buf_size
  size,      \* rtsp->cache.size
  pos,       \* how much of the file was read
  cache,     \* the used bytes of rtsp->cache
  pc,        \* "read" (main's loop), "scan" (the loop of
             \* ab_rtsp_server_send) or "abort" (a failed assert)
  startPos,  \* start_pos of that loop
  sent,      \* history: the NAL units sent in this pass over the file
  clean,     \* history: all bytes of this pass entered the cache, and it
             \* held none of an earlier pass
  spoilt     \* history: a memcpy has damaged the bytes it moved (see Slide)

input == <<file, chunk, size>>
vars == <<input, pos, cache, pc, startPos, sent, clean, spoilt>>

TypeOK ==
  /\ file \in Seq(Byte)
  /\ chunk \in ChunkSizes /\ size \in CacheSizes
  /\ pos \in 0 .. Len(file)
  /\ cache \in Seq(Byte) /\ Len(cache) <= size
  /\ pc \in {"read", "scan", "abort"}
  /\ startPos \in 0 .. size
  /\ sent \in Seq(Seq(Byte))
  /\ clean \in BOOLEAN /\ spoilt \in BOOLEAN

-----------------------------------------------------------------------------
(* Start codes.  StartCode3 is that of AnnexB.                             *)

StartCode4(s, i) == i + 4 <= Len(s) /\ s[i + 1] = 0 /\ StartCode3(s, i + 1)

(* Fault: the search stops one offset short.                               *)
OffsetsShort(s) == 0 .. Len(s) - 5

(* Where a start code with a byte behind it may begin.                     *)
Offsets(s) == 0 .. Len(s) - 4

(* The offset of the first start code that has a byte behind it, or -1.    *)
(* At the last offset looked at only the three-byte code is tried.         *)
FindStartCode(s) ==
  LET found == {i \in Offsets(s) :
                  StartCode3(s, i) \/ (i < Len(s) - 4 /\ StartCode4(s, i))}
  IN IF found = {} THEN -1 ELSE Min(found)

(* Fault: only the three-byte code is counted.                             *)
StartCodeLenThree(s) == IF StartCode3(s, 0) THEN 3 ELSE 0

StartCodeLen(s) == IF StartCode3(s, 0) THEN 3
                   ELSE IF StartCode4(s, 0) THEN 4 ELSE 0

(* The bytes of s from offset i on.                                        *)
From(s, i) == SubSeq(s, i + 1, Len(s))

(* Fault: the rest is not moved; it stays behind the bytes already sent.   *)
SlideUnmoved(s, p, backward) == SubSeq(s, 1, Len(s) - p)

(* Fault: the number of used bytes is not lowered.                         *)
SlideKept(s, p, backward) == s

(* memcpy of the bytes from offset p on to the front of the cache.  When   *)
(* the two areas overlap memcpy is free to go wrong: a copy that begins    *)
(* with the last bytes reads bytes it has already replaced.                *)
Slide(s, p, backward) ==
  LET n == Len(s) - p
      From1(k) == Min({k + p * j : j \in {i \in 1 .. n : k + p * i > n}})
  IN IF backward THEN [k \in 1 .. n |-> s[From1(k)]] ELSE From(s, p)

(* The directions in which the copy may run; there is none when p is 0.    *)
Directions(s, p) == IF p # 0 /\ Len(s) - p > p THEN BOOLEAN ELSE {FALSE}

-----------------------------------------------------------------------------
Init ==
  /\ file \in Files /\ chunk \in ChunkSizes /\ size \in CacheSizes
  /\ pos = 0
  /\ cache = <<>>
  /\ pc = "read" /\ startPos = 0
  /\ sent = <<>> /\ clean = FALSE /\ spoilt = FALSE

(* Fault: fread is asked for the whole file, not for data_buf_size.        *)
NReadWhole == Len(file) - pos

(* What fread returns: less than it was asked for only at the end.         *)
NRead == IF Len(file) - pos < chunk THEN Len(file) - pos ELSE chunk

(* main reads the next piece of the file.                                  *)
ReadPiece ==
  /\ pc = "read" /\ pos < Len(file)
  /\ pos' = pos + NRead
  /\ sent' = IF pos = 0 THEN <<>> ELSE sent
  /\ UNCHANGED <<input, spoilt>>

(* Fault: the room left in the cache is not looked at.                     *)
HasRoomAlways == TRUE

HasRoom == size - Len(cache) >= NRead

(* The bytes read fit in the cache.                                        *)
Feed ==
  /\ ReadPiece /\ HasRoom
  /\ cache' = cache \o SubSeq(file, pos + 1, pos + NRead)
  /\ pc' = "scan" /\ startPos' = 0
  /\ clean' = IF pos = 0 THEN cache = <<>> ELSE clean

(* They do not fit: a warning, and they are gone.                          *)
Refuse ==
  /\ ReadPiece /\ ~HasRoom
  /\ clean' = FALSE
  /\ UNCHANGED <<cache, pc, startPos>>

(* rtp_send_nalu, which asserts that there is something to send.           *)
RtpSendNalu(nalu) ==
  IF nalu = <<>> THEN pc' = "abort" /\ UNCHANGED sent
                 ELSE sent' = Append(sent, nalu) /\ UNCHANGED pc

(* What the loop has not looked at, and how far behind the start code it   *)
(* begins with the next one is.                                            *)
Rest == From(cache, startPos)
NextCode == FindStartCode(From(Rest, StartCodeLen(Rest)))

AtCode == pc = "scan" /\ startPos < Len(cache) /\ FindStartCode(Rest) = 0

(* A start code at start_pos and another one behind it: what is between is *)
(* sent and the loop goes on at the second.                                *)
ScanNalu ==
  LET code == StartCodeLen(Rest)
  IN /\ AtCode /\ NextCode # -1
     /\ RtpSendNalu(SubSeq(Rest, code + 1, code + NextCode))
     /\ startPos' = startPos + code + NextCode
     /\ UNCHANGED <<input, pos, cache, clean, spoilt>>

(* A start code at start_pos and no other: the rest stays in the cache.    *)
ScanRest ==
  /\ AtCode /\ NextCode = -1
  /\ \E backward \in Directions(cache, startPos) :
       /\ cache' = Slide(cache, startPos, backward)
       /\ spoilt' = (spoilt \/ backward)
  /\ pc' = "read"
  /\ UNCHANGED <<input, pos, startPos, sent, clean>>

(* No start code at start_pos: the cache is left as it is.                 *)
ScanStops ==
  /\ pc = "scan"
  /\ startPos < Len(cache) => FindStartCode(Rest) # 0
  /\ pc' = "read"
  /\ UNCHANGED <<input, pos, cache, startPos, sent, clean, spoilt>>

(* Fault: the flushed bytes stay in the cache.                             *)
FlushedKept == cache

(* What the flush leaves in the cache: cache.used = 0.                     *)
Flushed == <<>>

(* fread returns nothing: the cache is flushed and the file rewound.       *)
Flush ==
  /\ pc = "read" /\ pos = Len(file)
  /\ pos' = 0
  /\ IF FindStartCode(cache) = 0
     THEN RtpSendNalu(From(cache, StartCodeLen(cache))) /\ cache' = Flushed
     ELSE UNCHANGED <<pc, sent, cache>>
  /\ UNCHANGED <<input, startPos, clean, spoilt>>

Aborted == pc = "abort" /\ UNCHANGED vars

Next == Feed \/ Refuse \/ ScanNalu \/ ScanRest \/ ScanStops \/ Flush \/ Aborted

Spec == Init /\ [][Next]_vars

-----------------------------------------------------------------------------
Prefix == SubSeq(file, 1, pos)

(* However the file is cut into pieces, a start code spread over several   *)
(* included: when ab_rtsp_server_send returns, exactly the units that the  *)
(* bytes read so far complete have been sent, as Annex B delimits them,    *)
(* and none if the file does not begin with a start code.  This and all    *)
(* the following but for TypeOK suppose that no memcpy did damage.         *)
SendsCompleteUnits ==
  pc = "read" /\ clean /\ ~spoilt /\ pos > 0 =>
    sent = IF BeginsWithCode(Prefix) THEN Complete(Units(Prefix)) ELSE <<>>

(* A pass over the file ends with every unit of it sent: the flush at the  *)
(* end of the file sends the last one whole.                               *)
PassSendsAllUnits ==
  pc = "read" /\ clean /\ ~spoilt /\ pos = 0 /\ BeginsWithCode(file) => sent = Units(file)

(* The assertion of rtp_send_nalu fails only on a stream in which a start  *)
(* code follows another one.                                               *)
AbortsOnEmptyUnit ==
  pc = "abort" /\ clean /\ ~spoilt =>
    \E k \in DOMAIN Units(Prefix) : Units(Prefix)[k] = <<>>

(* Nothing is refused when the cache has room for the largest unit with    *)
(* its start code, a start code not recognized yet and one piece.          *)
Longest == Max({Len(Units(file)[k]) : k \in DOMAIN Units(file)})
NothingRefused ==
  pos > 0 /\ BeginsWithCode(file) /\ size >= Longest + 8 + chunk => clean \/ spoilt

(* Every pass begins with an empty cache, whatever was refused in the one  *)
(* before: no byte of one pass is glued to those of the next, and a stream *)
(* that begins with a start code cannot wedge the cache.                   *)
CacheDrained ==
  pc = "read" /\ pos = 0 /\ BeginsWithCode(file) => cache = <<>> \/ spoilt

(* With a cache large enough, memcpy has overlapping areas to copy only    *)
(* when a unit of the file is no longer than one piece.                    *)
OverlapNeedsShortUnit ==
  spoilt /\ BeginsWithCode(file) /\ size >= Longest + 8 + chunk =>
    \E k \in DOMAIN Units(file) : Len(Units(file)[k]) <= chunk

(* assert(nalu && nalu_len > 0) of rtp_send_nalu.                          *)
NaluNotEmpty == pc # "abort"
=============================================================================
