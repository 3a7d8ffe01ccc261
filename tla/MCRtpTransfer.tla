---------------------------- MODULE MCRtpTransfer ----------------------------
(* RtpTransfer with units of a few lengths around multiples of a small     *)
(* RTP_MAX_SIZE.                                                           *)
EXTENDS RtpTransfer

(* A unit of n bytes with the header h; its bytes differ from each other.  *)
Filled(h, n) == [k \in 1 .. n |-> IF k <= Len(h) THEN h[k] ELSE 200 + k]

(* H.264: an SPS, an IDR slice and a slice without reference.  H.265: a    *)
(* VPS, an IDR_N_LP, an IDR_W_RADL and a trailing slice, LayerId 0, TID 1. *)
UnitsOf == [
  H264 |-> {Filled(<<103>>, n) : n \in {2, 5}}
             \cup {Filled(<<101>>, n) : n \in {1, 4, 5, 7, 9}}
             \cup {Filled(<<1>>, n) : n \in {3, 10}},
  H265 |-> {Filled(<<64, 1>>, 4)} \cup {Filled(<<40, 1>>, n) : n \in {3, 7}}
             \cup {Filled(<<38, 1>>, n) : n \in {5, 6, 10}}
             \cup {Filled(<<2, 1>>, n) : n \in {2, 11}}]
=============================================================================
