---------------------------- MODULE MCNaluFramer ----------------------------
(* NaluFramer with small files for TLC; a byte is 0, 1 or 2 (any other).   *)
EXTENDS NaluFramer

MCByte == 0 .. 2

(* Any file of at most 8 bytes.                                            *)
AnyFile == UNION {[1 .. m -> MCByte] : m \in 1 .. 8}

(* What Annex B allows a unit to be: not empty, its last byte not 0, and   *)
(* neither 00 00 00 nor 00 00 01 in it.  Here: of at most MaxUnit bytes.   *)
MaxUnit == 3
WellFormedUnit ==
  {u \in UNION {[1 .. m -> MCByte] : m \in 1 .. MaxUnit} :
     /\ u[Len(u)] # 0
     /\ \A i \in 1 .. Len(u) - 2 :
          ~(u[i] = 0 /\ u[i + 1] = 0 /\ u[i + 2] \in {0, 1})}

Code == {<<0, 0, 1>>, <<0, 0, 0, 1>>}
Coded(units) == {code \o u : code \in Code, u \in units}

(* Files of one unit, of two with any first one, and of three of a few     *)
(* shapes.                                                                 *)
FewUnit == {<<1>>, <<0, 1>>, <<2, 0, 2>>, <<0, 0, 2>>}
WellFormedFile ==
  Coded(WellFormedUnit)
    \cup {v \o w : v \in Coded(WellFormedUnit), w \in Coded(FewUnit)}
    \cup {u \o v \o w : u, v, w \in Coded(FewUnit)}

(* Files whose units may leave too little room in a cache of 14.           *)
Long(n) == [i \in 1 .. n |-> 2]
BigUnitFile ==
  {u \o v \o w : u, v \in Coded({Long(n) : n \in {1, 4, 5, 9}}),
                 w \in Coded({Long(n) : n \in 1 .. 3})}

AnnexBFile == WellFormedFile \cup BigUnitFile
MCFile == AnyFile \cup AnnexBFile
=============================================================================
