------------------------------- MODULE AnnexB -------------------------------
(***************************************************************************)
(* The byte stream format of H.264 and H.265 (Annex B) as the server reads *)
(* it: the units of a whole stream, defined at once and without a scan.    *)
(* Offsets count from 0.                                                   *)
(***************************************************************************)
EXTENDS Integers, Sequences, FiniteSetsExt

(* The bytes 00 00 01 are at offset i.                                     *)
StartCode3(s, i) ==
  i + 3 <= Len(s) /\ s[i + 1] = 0 /\ s[i + 2] = 0 /\ s[i + 3] = 1

(* The offsets of the start codes that have a byte behind them.            *)
Codes(s) == {i \in 0 .. Len(s) - 4 : StartCode3(s, i)}

(* The stream begins with 00 00 01 or 00 00 00 01.                         *)
BeginsWithCode(s) == 0 \in Codes(s) \/ (1 \in Codes(s) /\ s[1] = 0)

(* Where the unit of the start code at i ends: at the next start code, or  *)
(* one byte earlier when that one has a leading zero byte of its own.      *)
UnitEnd(s, i) ==
  LET later == {j \in Codes(s) : j > i}
      j == Min(later)
  IN IF later = {} THEN Len(s)
     ELSE IF j > i + 3 /\ s[j] = 0 THEN j - 1 ELSE j

(* The units of a stream, in order.                                        *)
Units(s) ==
  [k \in 1 .. Cardinality(Codes(s)) |->
     LET i == CHOOSE c \in Codes(s) :
                Cardinality({d \in Codes(s) : d < c}) = k - 1
     IN SubSeq(s, i + 4, UnitEnd(s, i))]

(* All of them but the last, which the end of s may have cut.              *)
Complete(u) == SubSeq(u, 1, Len(u) - 1)
=============================================================================
