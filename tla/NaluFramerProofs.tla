------------------------- MODULE NaluFramerProofs ---------------------------
(***************************************************************************)
(* Proofs about NaluFramer.                                                *)
(*                                                                         *)
(* First lemmas about texts and start codes: what the definitions of       *)
(* AnnexB say of a text and of the beginning and the rest of it, that is,  *)
(* which start codes it has, in which order (Rank), and which unit each    *)
(* has.  Then what the search of the code returns in these terms: a round  *)
(* of the scan sends the unit of the start code it is at and comes to the  *)
(* next one (ScanIs), the flush sends the last one (FlushIs).              *)
(*                                                                         *)
(* The argument: while no piece was refused and no memcpy did damage, the  *)
(* cache is the rest of what was read of the file, from a start code c on, *)
(* and the units sent are just those before c (InStep).  Reading a piece   *)
(* lengthens both; a round of the scan goes from c to the next start code  *)
(* and sends the unit between them; the slide drops what was sent.  When   *)
(* ab_rtsp_server_send returns, no start code is left behind c, so all     *)
(* units that are complete have been sent.                                 *)
(***************************************************************************)
EXTENDS NaluFramer, Induction, SequenceTheorems, FiniteSetTheorems

-----------------------------------------------------------------------------
(* Bytes, minima and start codes.                                          *)

(* A part of a text.                                                       *)
LEMMA Cut ==
  ASSUME NEW s \in Seq(Byte), NEW a \in Nat, NEW b \in Nat, a <= b, b <= Len(s)
  PROVE  /\ SubSeq(s, a + 1, b) \in Seq(Byte) /\ Len(SubSeq(s, a + 1, b)) = b - a
         /\ \A k \in 1 .. b - a : SubSeq(s, a + 1, b)[k] = s[a + k]
<1>1. \A i \in a + 1 .. b : s[i] \in Byte
  OBVIOUS
<1>2. /\ SubSeq(s, a + 1, b) \in Seq(Byte)
      /\ Len(SubSeq(s, a + 1, b)) = IF a + 1 <= b THEN b - (a + 1) + 1 ELSE 0
      /\ \A i \in 1 .. b - (a + 1) + 1 : SubSeq(s, a + 1, b)[i] = s[a + 1 + i - 1]
  BY <1>1, SubSeqProperties
<1>3. \A k \in 1 .. b - a : a + 1 + k - 1 = a + k /\ k \in 1 .. b - (a + 1) + 1
  OBVIOUS
<1>4. ASSUME NEW k \in 1 .. b - a PROVE SubSeq(s, a + 1, b)[k] = s[a + k]
  BY <1>2, <1>3
<1> QED BY <1>2, <1>4

(* The rest of a text.                                                     *)
LEMMA FromBytes ==
  ASSUME NEW s \in Seq(Byte), NEW p \in 0 .. Len(s)
  PROVE  /\ From(s, p) \in Seq(Byte) /\ Len(From(s, p)) = Len(s) - p
         /\ \A k \in 1 .. Len(s) - p : From(s, p)[k] = s[p + k]
<1>1. Len(s) \in Nat /\ p \in Nat /\ p <= Len(s)
  BY LenProperties
<1> QED BY <1>1, Cut DEF From

(* The rest of a rest.                                                     *)
LEMMA FromFrom ==
  ASSUME NEW s \in Seq(Byte), NEW p \in Nat, NEW q \in Nat, p + q <= Len(s)
  PROVE  From(From(s, p), q) = From(s, p + q)
<1>1. Len(s) \in Nat /\ p \in 0 .. Len(s) /\ p + q \in 0 .. Len(s)
  BY LenProperties
<1> DEFINE t == From(s, p)
           u == From(t, q)
           v == From(s, p + q)
<1>2. t \in Seq(Byte) /\ Len(t) = Len(s) - p /\ \A k \in 1 .. Len(s) - p : t[k] = s[p + k]
  BY <1>1, FromBytes
<1>3. v \in Seq(Byte) /\ Len(v) = Len(s) - (p + q)
      /\ \A k \in 1 .. Len(s) - (p + q) : v[k] = s[p + q + k]
  BY <1>1, FromBytes
<1> HIDE DEF t, v
<1>4. u \in Seq(Byte) /\ Len(u) = Len(t) - q /\ \A k \in 1 .. Len(t) - q : u[k] = t[q + k]
  <2>1. q \in 0 .. Len(t)
    BY <1>1, <1>2
  <2> QED BY <1>2, <2>1, FromBytes
<1> HIDE DEF u
<1>5. \A k \in 1 .. Len(u) : u[k] = v[k]
  <2> TAKE k \in 1 .. Len(u)
  <2>1. u[k] = t[q + k] /\ q + k \in 1 .. Len(s) - p /\ k \in 1 .. Len(s) - (p + q)
    BY <1>1, <1>2, <1>4
  <2>2. t[q + k] = s[p + (q + k)] /\ v[k] = s[p + q + k]
    BY <1>2, <1>3, <2>1
  <2>3. p + (q + k) = p + q + k
    BY <2>1
  <2> QED BY <2>1, <2>2, <2>3
<1>6. Len(u) = Len(v)
  BY <1>1, <1>2, <1>3, <1>4
<1>7. u = v
  BY <1>3, <1>4, <1>5, <1>6, SeqEqual
<1> QED BY <1>7 DEF t, u, v

(* The least number of a set.                                              *)
LEMMA MinIs ==
  ASSUME NEW S \in SUBSET Nat, S # {}
  PROVE  Min(S) \in S /\ \A y \in S : Min(S) <= y
<1>1. \E x \in S : \A y \in S : x <= y
  BY LeastInSet
<1> QED BY <1>1 DEF Min

(* A number that is the least one is Min.                                  *)
LEMMA MinUnique ==
  ASSUME NEW S \in SUBSET Nat, NEW m \in S, \A y \in S : m <= y
  PROVE  Min(S) = m
<1>1. Min(S) \in S /\ Min(S) <= m /\ m <= Min(S)
  BY MinIs
<1>2. Min(S) \in Nat /\ m \in Nat
  BY <1>1
<1> HIDE DEF Min
<1> QED BY <1>1, <1>2

(* What a code is.                                                         *)
LEMMA CodesAre ==
  ASSUME NEW s \in Seq(Byte)
  PROVE  /\ Codes(s) \in SUBSET Nat
         /\ \A i \in Nat : i \in Codes(s) <=>
              i + 4 <= Len(s) /\ s[i + 1] = 0 /\ s[i + 2] = 0 /\ s[i + 3] = 1
<1>1. Len(s) \in Nat
  BY LenProperties
<1> QED BY <1>1 DEF Codes, StartCode3

(* The start codes of a text are finite in number.                         *)
LEMMA CodesFinite ==
  ASSUME NEW s \in Seq(Byte)
  PROVE  IsFiniteSet(Codes(s)) /\ Cardinality(Codes(s)) \in Nat
<1>1. Len(s) \in Nat /\ Codes(s) \in SUBSET (0 .. Len(s) - 4)
  BY LenProperties DEF Codes
<1>2. IsFiniteSet(0 .. Len(s) - 4)
  BY <1>1, FS_Interval
<1>3. IsFiniteSet(Codes(s))
  BY <1>1, <1>2, FS_Subset
<1> QED BY <1>3, FS_CardinalityType

(* Two codes have no byte in common.                                       *)
LEMMA CodesApart ==
  ASSUME NEW s \in Seq(Byte), NEW c \in Codes(s), NEW d \in Codes(s), c < d
  PROVE  c + 3 <= d
<1>1. c \in Nat /\ d \in Nat
  BY CodesAre
<1>2. s[c + 3] = 1 /\ s[d + 1] = 0 /\ s[d + 2] = 0
  BY <1>1, CodesAre
<1>3. d + 1 # c + 3 /\ d + 2 # c + 3
  BY <1>2
<1> QED BY <1>1, <1>3

(* The codes of the rest of a text.                                        *)
LEMMA FromCodes ==
  ASSUME NEW s \in Seq(Byte), NEW p \in 0 .. Len(s), NEW i \in Nat
  PROVE  i \in Codes(From(s, p)) <=> p + i \in Codes(s)
<1> DEFINE t == From(s, p)
<1>1. Len(s) \in Nat /\ p \in Nat
  BY LenProperties
<1>2. t \in Seq(Byte) /\ Len(t) = Len(s) - p /\ \A k \in 1 .. Len(s) - p : t[k] = s[p + k]
  BY FromBytes
<1> HIDE DEF t
<1>3. i \in Codes(t) <=> i + 4 <= Len(t) /\ t[i + 1] = 0 /\ t[i + 2] = 0 /\ t[i + 3] = 1
  BY <1>2, CodesAre
<1>4. p + i \in Codes(s) <=> p + i + 4 <= Len(s) /\ s[p + i + 1] = 0
                             /\ s[p + i + 2] = 0 /\ s[p + i + 3] = 1
  BY <1>1, CodesAre
<1>5. i + 4 <= Len(t) <=> p + i + 4 <= Len(s)
  BY <1>1, <1>2
<1>6. ASSUME i + 4 <= Len(t)
      PROVE  /\ t[i + 1] = s[p + i + 1] /\ t[i + 2] = s[p + i + 2]
             /\ t[i + 3] = s[p + i + 3]
  <2>1. /\ i + 1 \in 1 .. Len(s) - p /\ i + 2 \in 1 .. Len(s) - p
        /\ i + 3 \in 1 .. Len(s) - p
    BY <1>1, <1>2, <1>6
  <2>2. /\ t[i + 1] = s[p + (i + 1)] /\ t[i + 2] = s[p + (i + 2)]
        /\ t[i + 3] = s[p + (i + 3)]
    BY <1>2, <2>1
  <2>3. /\ p + (i + 1) = p + i + 1 /\ p + (i + 2) = p + i + 2
        /\ p + (i + 3) = p + i + 3
    BY <1>1
  <2> QED BY <2>2, <2>3
<1> QED BY <1>3, <1>4, <1>5, <1>6 DEF t

(* s is the beginning of t.                                                *)
Begins(s, t) == Len(s) <= Len(t) /\ \A k \in 1 .. Len(s) : s[k] = t[k]

(* The codes of the beginning of a text.                                   *)
LEMMA BeginsCodes ==
  ASSUME NEW s \in Seq(Byte), NEW t \in Seq(Byte), Begins(s, t), NEW i \in Nat
  PROVE  i \in Codes(s) <=> i \in Codes(t) /\ i + 4 <= Len(s)
<1>1. Len(s) \in Nat /\ Len(t) \in Nat /\ Len(s) <= Len(t)
  BY LenProperties DEF Begins
<1>2. i \in Codes(s) <=> i + 4 <= Len(s) /\ s[i + 1] = 0 /\ s[i + 2] = 0 /\ s[i + 3] = 1
  BY CodesAre
<1>3. i \in Codes(t) <=> i + 4 <= Len(t) /\ t[i + 1] = 0 /\ t[i + 2] = 0 /\ t[i + 3] = 1
  BY CodesAre
<1>4. ASSUME i + 4 <= Len(s)
      PROVE  s[i + 1] = t[i + 1] /\ s[i + 2] = t[i + 2] /\ s[i + 3] = t[i + 3]
  <2>1. i + 1 \in 1 .. Len(s) /\ i + 2 \in 1 .. Len(s) /\ i + 3 \in 1 .. Len(s)
    BY <1>1, <1>4
  <2> QED BY <2>1 DEF Begins
<1> QED BY <1>1, <1>2, <1>3, <1>4

-----------------------------------------------------------------------------
(* The units of a stream.                                                  *)

(* How many start codes there are before c.                                *)
Rank(s, c) == Cardinality({d \in Codes(s) : d < c})

(* The start codes behind c.                                               *)
Later(s, c) == {d \in Codes(s) : d > c}

(* There are finitely many start codes before c, and no more than in all.  *)
LEMMA RankType ==
  ASSUME NEW s \in Seq(Byte), NEW c
  PROVE  /\ IsFiniteSet({d \in Codes(s) : d < c})
         /\ Rank(s, c) \in Nat /\ Rank(s, c) <= Cardinality(Codes(s))
<1> DEFINE S == {d \in Codes(s) : d < c}
<1>1. S \in SUBSET Codes(s)
  OBVIOUS
<1> HIDE DEF S
<1>2. IsFiniteSet(S) /\ Cardinality(S) <= Cardinality(Codes(s)) /\ Cardinality(S) \in Nat
  BY <1>1, CodesFinite, FS_Subset, FS_CardinalityType
<1> QED BY <1>2 DEF S, Rank

(* The code after c has the next rank.                                     *)
LEMMA RankNext ==
  ASSUME NEW s \in Seq(Byte), NEW c \in Codes(s), NEW e \in Nat, c < e,
         \A d \in Codes(s) : d < e => d <= c
  PROVE  Rank(s, e) = Rank(s, c) + 1
<1> DEFINE S == {d \in Codes(s) : d < c}
           T == {d \in Codes(s) : d < e}
<1>1. Codes(s) \in SUBSET Nat
  BY CodesAre
<1>2. c \in Nat /\ \A d \in Codes(s) : d \in Nat
  BY <1>1
<1>3. T = S \cup {c} /\ c \notin S
  <2>1. ASSUME NEW d \in Codes(s) PROVE d < e <=> d < c \/ d = c
    <3>1. c \in Nat /\ d \in Nat /\ (d < e => d <= c)
      BY <1>2
    <3> QED BY <3>1
  <2>2. c \in Codes(s) /\ ~(c < c)
    BY <1>2
  <2> QED BY <2>1, <2>2
<1>4. IsFiniteSet(S)
  BY RankType
<1> HIDE DEF S, T
<1>5. Cardinality(T) = Cardinality(S) + 1
  BY <1>3, <1>4, FS_AddElement
<1> QED BY <1>5 DEF Rank, S, T

(* The last code has the last rank.                                        *)
LEMMA RankLast ==
  ASSUME NEW s \in Seq(Byte), NEW c \in Codes(s), \A d \in Codes(s) : d <= c
  PROVE  Cardinality(Codes(s)) = Rank(s, c) + 1
<1>1. c \in Nat /\ \A d \in Codes(s) : d \in Nat
  BY CodesAre
<1>2. Rank(s, c + 1) = Rank(s, c) + 1
  BY <1>1, RankNext
<1>3. {d \in Codes(s) : d < c + 1} = Codes(s)
  <2>1. ASSUME NEW d \in Codes(s) PROVE d < c + 1
    <3>1. c \in Nat /\ d \in Nat /\ d <= c
      BY <1>1
    <3> QED BY <3>1
  <2> QED BY <2>1
<1> QED BY <1>2, <1>3 DEF Rank

(* Ranks are different.                                                    *)
LEMMA RankOrders ==
  ASSUME NEW s \in Seq(Byte), NEW c \in Codes(s), NEW d \in Codes(s), c < d
  PROVE  Rank(s, c) < Rank(s, d)
<1> DEFINE S == {x \in Codes(s) : x < c}
           T == {x \in Codes(s) : x < d}
<1>1. c \in Nat /\ d \in Nat /\ \A x \in Codes(s) : x \in Nat
  BY CodesAre
<1>2. S \cup {c} \in SUBSET T /\ c \notin S
  <2>1. ASSUME NEW x \in Codes(s), x < c PROVE x < d
    <3>1. x \in Nat /\ c \in Nat /\ d \in Nat
      BY <1>1
    <3> QED BY <2>1, <3>1
  <2>2. ~(c < c)
    BY <1>1
  <2> QED BY <2>1, <2>2
<1>3. IsFiniteSet(S) /\ IsFiniteSet(T) /\ Rank(s, c) = Cardinality(S)
      /\ Rank(s, d) = Cardinality(T) /\ Cardinality(S) \in Nat /\ Cardinality(T) \in Nat
  BY RankType DEF Rank
<1> HIDE DEF S, T
<1>4. Cardinality(S \cup {c}) = Cardinality(S) + 1
  BY <1>2, <1>3, FS_AddElement
<1>5. Cardinality(S \cup {c}) <= Cardinality(T)
  BY <1>2, <1>3, FS_Subset
<1> QED BY <1>3, <1>4, <1>5

(* Start codes that have the same number are the same.                     *)
LEMMA RankInjective ==
  ASSUME NEW s \in Seq(Byte), NEW c \in Codes(s), NEW d \in Codes(s), Rank(s, c) = Rank(s, d)
  PROVE  c = d
<1>1. c \in Nat /\ d \in Nat /\ Rank(s, c) \in Nat
  BY CodesAre, RankType
<1>2. ~(c < d) /\ ~(d < c)
  BY <1>1, RankOrders
<1> QED BY <1>1, <1>2

(* The number of a start code is less than how many there are.             *)
LEMMA RankBound ==
  ASSUME NEW s \in Seq(Byte), NEW c \in Codes(s)
  PROVE  Rank(s, c) \in Nat /\ Rank(s, c) < Cardinality(Codes(s))
<1> DEFINE S == {d \in Codes(s) : d < c}
<1>1. c \in Nat
  BY CodesAre
<1>2. S \in SUBSET Codes(s) /\ c \notin S
  BY <1>1
<1>3. IsFiniteSet(Codes(s)) /\ Rank(s, c) = Cardinality(S)
  BY CodesFinite DEF Rank
<1> HIDE DEF S
<1>4. Cardinality(S) <= Cardinality(Codes(s)) /\ Cardinality(S) # Cardinality(Codes(s))
  BY <1>2, <1>3, FS_Subset
<1>5. Rank(s, c) \in Nat /\ Cardinality(Codes(s)) \in Nat
  BY RankType, CodesFinite
<1> QED BY <1>3, <1>4, <1>5

(* Each rank is that of a code.                                            *)
LEMMA RankOnto ==
  ASSUME NEW s \in Seq(Byte), NEW k \in 1 .. Cardinality(Codes(s))
  PROVE  \E c \in Codes(s) : Rank(s, c) = k - 1
<1> DEFINE N == Cardinality(Codes(s))
           f == [c \in Codes(s) |-> Rank(s, c) + 1]
<1>1. N \in Nat /\ IsFiniteSet(Codes(s))
  BY CodesFinite
<1>2. \A c \in Codes(s) : f[c] = Rank(s, c) + 1 /\ Rank(s, c) \in Nat /\ f[c] \in 1 .. N
  <2> TAKE c \in Codes(s)
  <2>1. Rank(s, c) \in Nat /\ Rank(s, c) < N
    BY RankBound
  <2> QED BY <1>1, <2>1
<1>3. f \in [Codes(s) -> 1 .. N]
  BY <1>2
<1> HIDE DEF f, N
<1>4. \A c, d \in Codes(s) : f[c] = f[d] => c = d
  <2> TAKE c, d \in Codes(s)
  <2>1. f[c] = f[d] => Rank(s, c) = Rank(s, d)
    BY <1>2
  <2> QED BY <2>1, RankInjective
<1>5. f \in Injection(Codes(s), 1 .. N)
  BY <1>3, <1>4 DEF Injection, IsInjective
<1>6. IsFiniteSet(1 .. N) /\ Cardinality(1 .. N) = N
  BY <1>1, FS_Interval
<1>7. f \in Surjection(Codes(s), 1 .. N)
  BY <1>1, <1>5, <1>6, FS_Injection DEF N
<1>8. \E c \in Codes(s) : f[c] = k
  BY <1>7 DEF Surjection, N
<1>9. PICK c \in Codes(s) : f[c] = k
  BY <1>8
<1>10. Rank(s, c) = k - 1
  BY <1>2, <1>9
<1> QED BY <1>10

(* The unit of a code.                                                     *)
LEMMA UnitAt ==
  ASSUME NEW s \in Seq(Byte), NEW c \in Codes(s)
  PROVE  /\ DOMAIN Units(s) = 1 .. Cardinality(Codes(s))
         /\ Rank(s, c) + 1 \in DOMAIN Units(s)
         /\ Units(s)[Rank(s, c) + 1] = SubSeq(s, c + 4, UnitEnd(s, c))
<1> DEFINE N == Cardinality(Codes(s))
           k == Rank(s, c) + 1
           i == CHOOSE x \in Codes(s) : Cardinality({d \in Codes(s) : d < x}) = k - 1
<1>1. k \in 1 .. N /\ Rank(s, c) = k - 1
  BY RankBound, CodesFinite
<1>2. i \in Codes(s) /\ Rank(s, i) = k - 1
  BY <1>1 DEF Rank
<1>3. i = c
  BY <1>1, <1>2, RankInjective
<1> HIDE DEF k
<1>4. Units(s)[k] = SubSeq(s, i + 4, UnitEnd(s, i)) /\ DOMAIN Units(s) = 1 .. N
  BY <1>1 DEF Units
<1> HIDE DEF i, N
<1> QED BY <1>1, <1>3, <1>4 DEF k, N

(* Where it ends.                                                          *)
LEMMA UnitEnds ==
  ASSUME NEW s \in Seq(Byte), NEW c \in Codes(s)
  PROVE  /\ c \in Nat /\ c + 4 <= Len(s)
         /\ Later(s, c) = {} => UnitEnd(s, c) = Len(s)
         /\ \A j \in Later(s, c) : (\A d \in Later(s, c) : j <= d) =>
              /\ j \in Nat /\ j >= c + 3
              /\ UnitEnd(s, c) = IF j > c + 3 /\ s[j] = 0 THEN j - 1 ELSE j
         /\ UnitEnd(s, c) \in Nat /\ c + 3 <= UnitEnd(s, c) /\ UnitEnd(s, c) <= Len(s)
<1>1. Len(s) \in Nat /\ Codes(s) \in SUBSET Nat /\ c \in Nat
  BY LenProperties, CodesAre
<1>2. \A d \in Codes(s) : d \in Nat /\ d + 4 <= Len(s)
  BY <1>1, CodesAre
<1>3. Later(s, c) \in SUBSET Nat /\ \A d \in Later(s, c) : d \in Codes(s) /\ d > c
  BY <1>1 DEF Later
<1>4. UnitEnd(s, c) = IF Later(s, c) = {} THEN Len(s)
                      ELSE IF Min(Later(s, c)) > c + 3 /\ s[Min(Later(s, c))] = 0
                           THEN Min(Later(s, c)) - 1 ELSE Min(Later(s, c))
  BY DEF UnitEnd, Later
<1>5. ASSUME NEW j \in Later(s, c), \A d \in Later(s, c) : j <= d
      PROVE  /\ j \in Nat /\ j >= c + 3 /\ j + 4 <= Len(s)
             /\ UnitEnd(s, c) = IF j > c + 3 /\ s[j] = 0 THEN j - 1 ELSE j
  <2>1. Min(Later(s, c)) = j
    BY <1>3, <1>5, MinUnique
  <2>2. j \in Codes(s) /\ j \in Nat /\ c < j
    BY <1>2, <1>3
  <2>3. c + 3 <= j
    BY <2>2, CodesApart
  <2> QED BY <1>1, <1>2, <1>4, <2>1, <2>2, <2>3
<1>6. UnitEnd(s, c) \in Nat /\ c + 3 <= UnitEnd(s, c) /\ UnitEnd(s, c) <= Len(s)
  <2>1. CASE Later(s, c) = {}
    BY <1>1, <1>2, <1>4, <2>1
  <2>2. CASE Later(s, c) # {}
    <3>1. PICK j \in Later(s, c) : \A d \in Later(s, c) : j <= d
      BY <1>3, <2>2, LeastInSet
    <3>2. /\ j \in Nat /\ j >= c + 3 /\ j + 4 <= Len(s)
          /\ UnitEnd(s, c) = IF j > c + 3 /\ s[j] = 0 THEN j - 1 ELSE j
      BY <1>5, <3>1
    <3> QED BY <1>1, <3>2
  <2> QED BY <2>1, <2>2
<1> QED BY <1>1, <1>2, <1>4, <1>5, <1>6

(* What the text begins with has the same codes before c, and the same     *)
(* unit there if it has a later code.                                      *)
LEMMA BeginsUnits ==
  ASSUME NEW s \in Seq(Byte), NEW t \in Seq(Byte), Begins(s, t), NEW c \in Codes(s)
  PROVE  /\ c \in Codes(t) /\ Rank(t, c) = Rank(s, c)
         /\ Later(s, c) # {} =>
              /\ UnitEnd(t, c) = UnitEnd(s, c)
              /\ Units(t)[Rank(s, c) + 1] = Units(s)[Rank(s, c) + 1]
<1>1. Len(s) \in Nat /\ Codes(s) \in SUBSET Nat /\ Codes(t) \in SUBSET Nat /\ c \in Nat
  BY LenProperties, CodesAre
<1>2. c \in Codes(t) /\ c + 4 <= Len(s)
  BY <1>1, BeginsCodes
<1>3. {d \in Codes(s) : d < c} = {d \in Codes(t) : d < c}
  <2>1. ASSUME NEW d \in Nat, d < c PROVE d \in Codes(s) <=> d \in Codes(t)
    BY <1>1, <1>2, <2>1, BeginsCodes
  <2> QED BY <1>1, <2>1
<1>4. Rank(t, c) = Rank(s, c)
  BY <1>3 DEF Rank
<1>5. ASSUME Later(s, c) # {}
      PROVE  /\ UnitEnd(t, c) = UnitEnd(s, c)
             /\ Units(t)[Rank(s, c) + 1] = Units(s)[Rank(s, c) + 1]
  <2>1. Later(s, c) \in SUBSET Nat
    BY <1>1 DEF Later
  <2>2. PICK j \in Later(s, c) : \A d \in Later(s, c) : j <= d
    BY <1>5, <2>1, LeastInSet
  <2>3. j \in Nat /\ j \in Codes(s) /\ j > c
    BY <2>1, <2>2 DEF Later
  <2>4. j \in Codes(t) /\ j + 4 <= Len(s) /\ j \in Later(t, c)
    BY <2>3, BeginsCodes DEF Later
  <2>5. \A d \in Later(t, c) : j <= d
    <3> SUFFICES ASSUME NEW d \in Later(t, c), d < j PROVE FALSE
      BY <1>1, <2>3 DEF Later
    <3>1. d \in Nat /\ d \in Codes(t) /\ d > c /\ d + 4 <= Len(s)
      BY <1>1, <2>3, <2>4 DEF Later
    <3>2. d \in Later(s, c)
      BY <3>1, BeginsCodes DEF Later
    <3> QED BY <2>2, <2>3, <3>1, <3>2
  <2>6. j >= c + 3 /\ UnitEnd(s, c) = IF j > c + 3 /\ s[j] = 0 THEN j - 1 ELSE j
    BY <2>2, UnitEnds
  <2>7. UnitEnd(t, c) = IF j > c + 3 /\ t[j] = 0 THEN j - 1 ELSE j
    BY <1>2, <2>4, <2>5, UnitEnds
  <2>8. j > c + 3 => s[j] = t[j]
    <3>1. j > c + 3 => j \in 1 .. Len(s)
      BY <1>1, <2>3, <2>4
    <3> QED BY <3>1 DEF Begins
  <2>9. UnitEnd(t, c) = UnitEnd(s, c)
    BY <2>6, <2>7, <2>8
  <2> DEFINE e == UnitEnd(s, c)
  <2>10. e \in Nat /\ c + 3 <= e /\ e <= Len(s) /\ Len(s) <= Len(t) /\ Len(t) \in Nat
    BY UnitEnds, LenProperties DEF Begins
  <2> HIDE DEF e
  <2>11. SubSeq(t, c + 3 + 1, e) = SubSeq(s, c + 3 + 1, e)
    <3> DEFINE v == SubSeq(t, c + 3 + 1, e)
               w == SubSeq(s, c + 3 + 1, e)
    <3>1. c + 3 \in Nat /\ e <= Len(t)
      BY <1>1, <2>10
    <3>2. v \in Seq(Byte) /\ Len(v) = e - (c + 3) /\ \A k \in 1 .. e - (c + 3) : v[k] = t[c + 3 + k]
      BY <2>10, <3>1, Cut
    <3>3. w \in Seq(Byte) /\ Len(w) = e - (c + 3) /\ \A k \in 1 .. e - (c + 3) : w[k] = s[c + 3 + k]
      BY <2>10, <3>1, Cut
    <3> HIDE DEF v, w
    <3>4. \A k \in 1 .. Len(v) : v[k] = w[k]
      <4> TAKE k \in 1 .. Len(v)
      <4>1. k \in 1 .. e - (c + 3) /\ c + 3 + k \in 1 .. Len(s)
        BY <1>1, <2>10, <3>2
      <4>2. s[c + 3 + k] = t[c + 3 + k]
        BY <4>1 DEF Begins
      <4> QED BY <3>2, <3>3, <4>1, <4>2
    <3>5. v = w
      BY <3>2, <3>3, <3>4, SeqEqual
    <3> QED BY <3>5 DEF v, w
  <2>12. c + 3 + 1 = c + 4
    BY <1>1
  <2>13. SubSeq(t, c + 4, UnitEnd(t, c)) = SubSeq(s, c + 4, UnitEnd(s, c))
    BY <2>9, <2>11, <2>12 DEF e
  <2>14. Units(s)[Rank(s, c) + 1] = SubSeq(s, c + 4, UnitEnd(s, c))
    BY UnitAt
  <2>15. Units(t)[Rank(t, c) + 1] = SubSeq(t, c + 4, UnitEnd(t, c))
    BY <1>2, UnitAt
  <2> QED BY <1>4, <2>9, <2>13, <2>14, <2>15
<1> QED BY <1>2, <1>4, <1>5

-----------------------------------------------------------------------------
(* The search for a start code.                                            *)

(* There is a start code at offset at of s, with three bytes from c on.    *)
CodeAt(s, at, c) == c \in Codes(s) /\ (c = at \/ (c = at + 1 /\ s[c] = 0))

(* The search returns where the first start code begins.                   *)
LEMMA FindIs ==
  ASSUME NEW s \in Seq(Byte)
  PROVE  /\ Codes(s) = {} => FindStartCode(s) = -1
         /\ \A c \in Codes(s) : (\A d \in Codes(s) : c <= d) =>
              FindStartCode(s) = IF c > 0 /\ s[c] = 0 THEN c - 1 ELSE c
<1> DEFINE found == {i \in Offsets(s) :
                       StartCode3(s, i) \/ (i < Len(s) - 4 /\ StartCode4(s, i))}
<1>1. Len(s) \in Nat
  BY LenProperties
<1>2. found \in SUBSET Nat
  BY <1>1 DEF Offsets
<1>3. FindStartCode(s) = IF found = {} THEN -1 ELSE Min(found)
  BY DEF FindStartCode
<1>4. \A i \in Nat : i \in found <=>
        i \in Codes(s) \/ (i + 1 \in Codes(s) /\ s[i + 1] = 0)
  <2> TAKE i \in Nat
  <2>1. i \in Codes(s) <=> i <= Len(s) - 4 /\ StartCode3(s, i)
    BY <1>1 DEF Codes
  <2>2. i + 1 \in Codes(s) <=> i + 1 <= Len(s) - 4 /\ StartCode3(s, i + 1)
    BY <1>1 DEF Codes
  <2>3. StartCode4(s, i) <=> i + 4 <= Len(s) /\ s[i + 1] = 0 /\ StartCode3(s, i + 1)
    BY DEF StartCode4
  <2>4. i \in found <=> i <= Len(s) - 4
                        /\ (StartCode3(s, i) \/ (i < Len(s) - 4 /\ StartCode4(s, i)))
    BY <1>1 DEF Offsets
  <2> HIDE DEF found
  <2> QED BY <1>1, <2>1, <2>2, <2>3, <2>4
<1> HIDE DEF found
<1>5. \A d \in Codes(s) : d \in Nat
  BY CodesAre
<1>6. ASSUME Codes(s) = {} PROVE FindStartCode(s) = -1
  <2>1. found = {}
    BY <1>2, <1>4, <1>6
  <2> QED BY <1>3, <2>1
<1>7. ASSUME NEW c \in Codes(s), \A d \in Codes(s) : c <= d
      PROVE  FindStartCode(s) = IF c > 0 /\ s[c] = 0 THEN c - 1 ELSE c
  <2> DEFINE v == IF c > 0 /\ s[c] = 0 THEN c - 1 ELSE c
  <2>1. c \in Nat /\ v \in Nat
    BY <1>5
  <2>2. v \in found
    <3>1. CASE c > 0 /\ s[c] = 0
      <4>1. c - 1 \in Nat /\ c - 1 + 1 = c
        BY <2>1, <3>1
      <4> QED BY <1>4, <3>1, <4>1
    <3>2. CASE ~(c > 0 /\ s[c] = 0)
      BY <1>4, <2>1, <3>2
    <3> QED BY <3>1, <3>2
  <2>3. \A y \in found : v <= y
    <3> TAKE y \in found
    <3>1. y \in Nat
      BY <1>2
    <3>2. CASE y \in Codes(s)
      BY <1>7, <2>1, <3>1, <3>2
    <3>3. CASE y + 1 \in Codes(s) /\ s[y + 1] = 0
      <4>1. c <= y + 1
        BY <1>7, <3>3
      <4>2. CASE c = y + 1
        BY <3>1, <3>3, <4>2
      <4>3. CASE c # y + 1
        BY <2>1, <3>1, <4>1, <4>3
      <4> QED BY <4>2, <4>3
    <3> QED BY <1>4, <3>1, <3>2, <3>3
  <2> HIDE DEF v
  <2>4. Min(found) = v
    BY <1>2, <2>2, <2>3, MinUnique
  <2> QED BY <1>3, <2>2, <2>4 DEF v
<1> QED BY <1>6, <1>7

(* There is only one start code at an offset, and none earlier behind it.  *)
LEMMA CodeAtFirst ==
  ASSUME NEW s \in Seq(Byte), NEW at \in Nat, NEW c, CodeAt(s, at, c)
  PROVE  /\ c \in Nat /\ c \in Codes(s) /\ c \in {at, at + 1}
         /\ \A d \in Codes(s) : d >= at => d >= c
<1>1. c \in Codes(s) /\ c \in {at, at + 1} /\ \A d \in Codes(s) : d \in Nat
  BY CodesAre DEF CodeAt
<1>2. ASSUME NEW d \in Codes(s), d >= at PROVE d >= c
  <2> SUFFICES ASSUME d < c PROVE FALSE
    BY <1>1
  <2>1. d \in Nat /\ c \in Nat /\ d + 3 <= c
    BY <1>1, CodesApart
  <2> QED BY <1>1, <1>2, <2>1
<1> QED BY <1>1, <1>2

(* A text begins with a start code just when there is one at offset 0.     *)
LEMMA CodeAtStart ==
  ASSUME NEW s \in Seq(Byte)
  PROVE  BeginsWithCode(s) <=> \E c : CodeAt(s, 0, c)
<1>1. BeginsWithCode(s) => CodeAt(s, 0, 0) \/ CodeAt(s, 0, 1)
  BY DEF BeginsWithCode, CodeAt
<1>2. ASSUME NEW c, CodeAt(s, 0, c) PROVE BeginsWithCode(s)
  BY <1>2 DEF BeginsWithCode, CodeAt
<1> QED BY <1>1, <1>2

(* The search returns 0 just when the text begins with a start code.       *)
LEMMA FindZero ==
  ASSUME NEW s \in Seq(Byte)
  PROVE  FindStartCode(s) = 0 <=> BeginsWithCode(s)
<1>1. ASSUME BeginsWithCode(s) PROVE FindStartCode(s) = 0
  <2>1. PICK c : CodeAt(s, 0, c)
    BY <1>1, CodeAtStart
  <2>2. /\ c \in Nat /\ c \in Codes(s) /\ c \in {0, 1}
        /\ \A d \in Codes(s) : d >= 0 => d >= c
    BY <2>1, CodeAtFirst
  <2>3. \A d \in Codes(s) : c <= d
    <3> TAKE d \in Codes(s)
    <3>1. d \in Nat
      BY CodesAre
    <3>2. d >= c
      BY <2>2, <3>1
    <3> QED BY <2>2, <3>1, <3>2
  <2>4. FindStartCode(s) = IF c > 0 /\ s[c] = 0 THEN c - 1 ELSE c
    BY <2>2, <2>3, FindIs
  <2>5. c = 1 => s[c] = 0
    BY <2>1 DEF CodeAt
  <2> QED BY <2>2, <2>4, <2>5
<1>2. ASSUME FindStartCode(s) = 0 PROVE BeginsWithCode(s)
  <2>1. Codes(s) # {} /\ Codes(s) \in SUBSET Nat
    BY <1>2, FindIs, CodesAre
  <2>2. PICK c \in Codes(s) : \A d \in Codes(s) : c <= d
    BY <2>1, LeastInSet
  <2>3. 0 = IF c > 0 /\ s[c] = 0 THEN c - 1 ELSE c
    BY <1>2, <2>2, FindIs
  <2>4. c \in Nat
    BY <2>1
  <2>5. c = 0 \/ (c = 1 /\ s[c] = 0)
    BY <2>3, <2>4
  <2> QED BY <2>5 DEF BeginsWithCode
<1> QED BY <1>1, <1>2

(* How long the start code is that a text begins with.                     *)
LEMMA CodeLenIs ==
  ASSUME NEW s \in Seq(Byte), NEW c, CodeAt(s, 0, c)
  PROVE  StartCodeLen(s) = 3 + c
<1>1. Len(s) \in Nat /\ c \in {0, 1} /\ c \in Codes(s)
  BY LenProperties DEF CodeAt
<1>2. c + 4 <= Len(s) /\ s[c + 1] = 0 /\ s[c + 2] = 0 /\ s[c + 3] = 1
  BY <1>1, CodesAre
<1>3. CASE c = 0
  <2>1. 3 <= Len(s) /\ s[1] = 0 /\ s[2] = 0 /\ s[3] = 1
    BY <1>1, <1>2, <1>3
  <2>2. StartCode3(s, 0)
    BY <2>1 DEF StartCode3
  <2> QED BY <1>3, <2>2 DEF StartCodeLen
<1>4. CASE c = 1
  <2>1. 5 <= Len(s) /\ s[2] = 0 /\ s[3] = 0 /\ s[4] = 1
    BY <1>1, <1>2, <1>4
  <2>2. s[1] = 0
    BY <1>4 DEF CodeAt
  <2>3. ~StartCode3(s, 0)
    BY <2>1 DEF StartCode3
  <2>4. StartCode4(s, 0)
    BY <1>1, <2>1, <2>2 DEF StartCode4, StartCode3
  <2> QED BY <1>4, <2>3, <2>4 DEF StartCodeLen
<1> QED BY <1>1, <1>3, <1>4

(* What the search finds behind the start code at c is the end of its unit.*)
LEMMA NextIs ==
  ASSUME NEW s \in Seq(Byte), NEW c \in Codes(s)
  PROVE  FindStartCode(From(s, c + 3)) =
           IF Later(s, c) = {} THEN -1 ELSE UnitEnd(s, c) - (c + 3)
<1> DEFINE t == From(s, c + 3)
<1>1. Len(s) \in Nat /\ c \in Nat /\ c + 4 <= Len(s) /\ c + 3 \in 0 .. Len(s)
  BY LenProperties, CodesAre
<1>2. t \in Seq(Byte) /\ \A k \in 1 .. Len(s) - (c + 3) : t[k] = s[c + 3 + k]
  BY <1>1, FromBytes
<1>3. \A i \in Nat : i \in Codes(t) <=> c + 3 + i \in Codes(s)
  BY <1>1, FromCodes
<1> HIDE DEF t
<1>4. \A i \in Codes(t) : i \in Nat
  BY <1>2, CodesAre
<1>5. \A d \in Later(s, c) : d \in Codes(s) /\ d \in Nat /\ d >= c + 3
                              /\ d - (c + 3) \in Codes(t)
  <2> TAKE d \in Later(s, c)
  <2>1. d \in Codes(s) /\ c < d /\ d \in Nat
    BY <1>1, CodesAre DEF Later
  <2>2. c + 3 <= d
    BY <2>1, CodesApart
  <2>3. d - (c + 3) \in Nat /\ c + 3 + (d - (c + 3)) = d
    BY <1>1, <2>1, <2>2
  <2> QED BY <1>1, <1>3, <2>1, <2>2, <2>3
<1>6. \A i \in Codes(t) : c + 3 + i \in Later(s, c)
  BY <1>1, <1>3, <1>4 DEF Later
<1>7. CASE Later(s, c) = {}
  <2>1. Codes(t) = {}
    BY <1>6, <1>7
  <2> QED BY <1>2, <1>7, <2>1, FindIs DEF t
<1>8. CASE Later(s, c) # {}
  <2>1. Later(s, c) \in SUBSET Nat
    BY <1>5
  <2>2. PICK j \in Later(s, c) : \A d \in Later(s, c) : j <= d
    BY <1>8, <2>1, LeastInSet
  <2> DEFINE i == j - (c + 3)
  <2>3. j \in Nat /\ j >= c + 3 /\ i \in Codes(t) /\ i \in Nat /\ c + 3 + i = j
        /\ j \in Codes(s)
    BY <1>1, <1>5, <2>2
  <2>4. \A d \in Codes(t) : i <= d
    <3> TAKE d \in Codes(t)
    <3>1. j <= c + 3 + d /\ d \in Nat
      BY <1>4, <1>6, <2>2
    <3> QED BY <1>1, <2>3, <3>1
  <2>5. j + 4 <= Len(s)
    BY <2>3, CodesAre
  <2> HIDE DEF i
  <2>6. FindStartCode(t) = IF i > 0 /\ t[i] = 0 THEN i - 1 ELSE i
    BY <1>2, <2>3, <2>4, FindIs
  <2>7. i > 0 => t[i] = s[j]
    <3>1. i > 0 => i \in 1 .. Len(s) - (c + 3)
      BY <1>1, <2>3, <2>5
    <3> QED BY <1>2, <2>3, <3>1
  <2>8. UnitEnd(s, c) = IF j > c + 3 /\ s[j] = 0 THEN j - 1 ELSE j
    BY <2>2, UnitEnds
  <2>9. j > c + 3 <=> i > 0
    BY <1>1, <2>3
  <2>10. FindStartCode(t) = UnitEnd(s, c) - (c + 3)
    <3>1. i - 1 = j - 1 - (c + 3) /\ i = j - (c + 3)
      BY <1>1, <2>3
    <3> QED BY <2>6, <2>7, <2>8, <2>9, <3>1
  <2> QED BY <1>8, <2>10 DEF t
<1> QED BY <1>7, <1>8

(* The rest of a text from a start code on begins with it, and goes on with*)
(* what is behind it.                                                      *)
LEMMA RestAt ==
  ASSUME NEW s \in Seq(Byte), NEW at \in 0 .. Len(s), NEW c, CodeAt(s, at, c)
  PROVE  LET r == From(s, at)
         IN /\ BeginsWithCode(r) /\ StartCodeLen(r) = 3 + (c - at) /\ at < Len(s)
            /\ From(r, StartCodeLen(r)) = From(s, c + 3)
<1> DEFINE r == From(s, at)
<1>1. /\ Len(s) \in Nat /\ at \in Nat /\ c \in Nat /\ c \in Codes(s) /\ c \in {at, at + 1}
      /\ c + 4 <= Len(s)
  BY LenProperties, CodeAtFirst, CodesAre
<1>2. r \in Seq(Byte) /\ Len(r) = Len(s) - at /\ \A k \in 1 .. Len(s) - at : r[k] = s[at + k]
  BY FromBytes
<1>3. \A i \in Nat : i \in Codes(r) <=> at + i \in Codes(s)
  BY FromCodes
<1> HIDE DEF r
<1>4. CodeAt(r, 0, c - at)
  <2>1. c - at \in {0, 1} /\ c - at \in Nat /\ at + (c - at) = c
    BY <1>1
  <2>2. c - at \in Codes(r)
    BY <1>1, <1>3, <2>1
  <2>3. c = at + 1 => r[1] = 0
    <3>1. c = at + 1 => 1 \in 1 .. Len(s) - at /\ s[at + 1] = 0
      BY <1>1 DEF CodeAt
    <3> QED BY <1>2, <3>1
  <2>4. c - at = 0 \/ (c - at = 0 + 1 /\ c = at + 1)
    BY <1>1
  <2> QED BY <2>2, <2>3, <2>4 DEF CodeAt
<1>5. BeginsWithCode(r) /\ StartCodeLen(r) = 3 + (c - at)
  BY <1>2, <1>4, CodeAtStart, CodeLenIs
<1>6. 3 + (c - at) \in Nat /\ at + (3 + (c - at)) = c + 3 /\ at + (3 + (c - at)) <= Len(s)
  BY <1>1
<1>7. From(r, 3 + (c - at)) = From(s, c + 3)
  BY <1>1, <1>6, FromFrom DEF r
<1>8. at < Len(s)
  BY <1>1
<1> QED BY <1>5, <1>7, <1>8 DEF r

(* The other way round.                                                    *)
LEMMA RestBegins ==
  ASSUME NEW s \in Seq(Byte), NEW at \in 0 .. Len(s), BeginsWithCode(From(s, at))
  PROVE  \E c \in Codes(s) : CodeAt(s, at, c)
<1> DEFINE r == From(s, at)
<1>1. Len(s) \in Nat /\ at \in Nat
  BY LenProperties
<1>2. r \in Seq(Byte) /\ Len(r) = Len(s) - at /\ \A k \in 1 .. Len(s) - at : r[k] = s[at + k]
  BY FromBytes
<1>3. \A i \in Nat : i \in Codes(r) <=> at + i \in Codes(s)
  BY FromCodes
<1> HIDE DEF r
<1>4. 0 \in Codes(r) \/ (1 \in Codes(r) /\ r[1] = 0)
  BY DEF BeginsWithCode, r
<1>5. CASE 0 \in Codes(r)
  <2>1. at + 0 = at /\ at + 0 \in Codes(s)
    BY <1>1, <1>3, <1>5
  <2> QED BY <2>1 DEF CodeAt
<1>6. CASE 1 \in Codes(r) /\ r[1] = 0
  <2>1. at + 1 \in Codes(s)
    BY <1>3, <1>6
  <2>2. 1 + 4 <= Len(r)
    BY <1>2, <1>6, CodesAre
  <2>3. 1 \in 1 .. Len(s) - at
    BY <1>1, <1>2, <2>2
  <2>4. s[at + 1] = 0
    BY <1>2, <1>6, <2>3
  <2> QED BY <2>1, <2>4 DEF CodeAt
<1> QED BY <1>4, <1>5, <1>6

(* One round of the scan, from a start code at offset at: what it sends,   *)
(* and where it goes on.                                                   *)
LEMMA ScanIs ==
  ASSUME NEW s \in Seq(Byte), NEW at \in 0 .. Len(s), NEW c, CodeAt(s, at, c)
  PROVE  LET r == From(s, at)
             code == StartCodeLen(r)
             next == FindStartCode(From(r, code))
         IN /\ code \in Nat /\ next \in Int
            /\ next = -1 <=> Later(s, c) = {}
            /\ next # -1 =>
                 /\ code + next \in Nat
                 /\ at + (code + next) = UnitEnd(s, c) /\ UnitEnd(s, c) <= Len(s)
                 /\ SubSeq(r, code + 1, code + next) = Units(s)[Rank(s, c) + 1]
                 /\ SubSeq(r, code + 1, code + next) \in Seq(Byte)
                 /\ Len(Units(s)[Rank(s, c) + 1]) = UnitEnd(s, c) - (c + 3)
                 /\ \E j \in Later(s, c) : CodeAt(s, UnitEnd(s, c), j)
                                           /\ \A d \in Later(s, c) : j <= d
<1> DEFINE r == From(s, at)
           code == StartCodeLen(r)
           next == FindStartCode(From(r, code))
           e == UnitEnd(s, c)
<1>1. /\ Len(s) \in Nat /\ at \in Nat /\ c \in Nat /\ c \in Codes(s) /\ c \in {at, at + 1}
      /\ c + 4 <= Len(s)
  BY LenProperties, CodeAtFirst, CodesAre
<1>2. code = 3 + (c - at) /\ From(r, code) = From(s, c + 3)
  BY RestAt
<1>3. next = IF Later(s, c) = {} THEN -1 ELSE e - (c + 3)
  BY <1>1, <1>2, NextIs
<1>4. e \in Nat /\ c + 3 <= e /\ e <= Len(s)
  BY <1>1, UnitEnds
<1>5. r \in Seq(Byte) /\ Len(r) = Len(s) - at /\ \A k \in 1 .. Len(s) - at : r[k] = s[at + k]
  BY FromBytes
<1>6. Units(s)[Rank(s, c) + 1] = SubSeq(s, c + 4, e)
  BY <1>1, UnitAt
<1> HIDE DEF r, code, next, e
<1>7. code \in Nat /\ next \in Int /\ (next = -1 <=> Later(s, c) = {})
  BY <1>1, <1>2, <1>3, <1>4
<1>8. ASSUME next # -1
      PROVE  /\ code + next \in Nat
             /\ at + (code + next) = e
             /\ SubSeq(r, code + 1, code + next) = Units(s)[Rank(s, c) + 1]
             /\ SubSeq(r, code + 1, code + next) \in Seq(Byte)
             /\ Len(Units(s)[Rank(s, c) + 1]) = e - (c + 3)
             /\ \E j \in Later(s, c) : CodeAt(s, e, j) /\ \A d \in Later(s, c) : j <= d
  <2>1. next = e - (c + 3) /\ Later(s, c) # {}
    BY <1>3, <1>8
  <2>2. /\ code + next \in Nat /\ at + (code + next) = e /\ code <= code + next
        /\ code + next <= Len(r) /\ code + next - code = e - (c + 3)
        /\ code + next = e - at
    BY <1>1, <1>2, <1>4, <1>5, <2>1
  <2> DEFINE v == SubSeq(r, code + 1, code + next)
             w == SubSeq(s, c + 3 + 1, e)
  <2>3. v \in Seq(Byte) /\ Len(v) = e - (c + 3) /\ \A k \in 1 .. e - (c + 3) : v[k] = r[code + k]
    <3> DEFINE b == code + next
    <3>1. b \in Nat /\ code \in Nat /\ code <= b /\ b <= Len(r) /\ b - code = e - (c + 3)
      <4>1. next \in Int
        BY <1>1, <1>4, <2>1
      <4> QED BY <1>7, <2>2, <4>1
    <3> HIDE DEF b
    <3>2. /\ SubSeq(r, code + 1, b) \in Seq(Byte) /\ Len(SubSeq(r, code + 1, b)) = b - code
          /\ \A k \in 1 .. b - code : SubSeq(r, code + 1, b)[k] = r[code + k]
      BY <1>5, <3>1, Cut
    <3> QED BY <3>1, <3>2 DEF b
  <2>4. w \in Seq(Byte) /\ Len(w) = e - (c + 3) /\ \A k \in 1 .. e - (c + 3) : w[k] = s[c + 3 + k]
    BY <1>1, <1>4, Cut
  <2> HIDE DEF v, w
  <2>5. \A k \in 1 .. Len(v) : v[k] = w[k]
    <3> TAKE k \in 1 .. Len(v)
    <3>1. k \in 1 .. e - (c + 3) /\ code + k \in 1 .. Len(s) - at
          /\ at + (code + k) = c + 3 + k
      BY SMTT(30), <1>1, <1>2, <1>4, <1>5, <2>2, <2>3
    <3>2. v[k] = r[code + k] /\ r[code + k] = s[at + (code + k)] /\ w[k] = s[c + 3 + k]
      BY <1>5, <2>3, <2>4, <3>1
    <3> QED BY <3>1, <3>2
  <2>6. v = w
    BY <2>3, <2>4, <2>5, SeqEqual
  <2>7. c + 3 + 1 = c + 4
    BY <1>1
  <2>8. w = Units(s)[Rank(s, c) + 1]
    BY <1>6, <2>7 DEF w
  <2>9. Later(s, c) \in SUBSET Nat
    BY CodesAre DEF Later
  <2>10. PICK j \in Later(s, c) : \A d \in Later(s, c) : j <= d
    BY <2>1, <2>9, LeastInSet
  <2>11. j \in Nat /\ j >= c + 3 /\ e = (IF j > c + 3 /\ s[j] = 0 THEN j - 1 ELSE j)
    BY <1>1, <2>10, UnitEnds DEF e
  <2>12. j \in Codes(s)
    BY <2>10 DEF Later
  <2>13. j = e \/ (j = e + 1 /\ s[j] = 0)
    BY <2>11
  <2>14. CodeAt(s, e, j)
    BY <2>12, <2>13 DEF CodeAt
  <2> QED BY <2>2, <2>3, <2>4, <2>6, <2>8, <2>10, <2>14 DEF v
<1> QED BY <1>4, <1>7, <1>8 DEF r, code, next, e

(* What the flush sends.                                                   *)
LEMMA FlushIs ==
  ASSUME NEW s \in Seq(Byte), NEW at \in 0 .. Len(s), NEW c, CodeAt(s, at, c),
         Later(s, c) = {}
  PROVE  LET r == From(s, at)
         IN From(r, StartCodeLen(r)) = Units(s)[Rank(s, c) + 1]
<1>1. c \in Nat /\ c \in Codes(s)
  BY CodeAtFirst
<1>2. Units(s)[Rank(s, c) + 1] = SubSeq(s, c + 4, UnitEnd(s, c)) /\ UnitEnd(s, c) = Len(s)
  BY <1>1, UnitAt, UnitEnds
<1>3. From(s, c + 3) = SubSeq(s, c + 3 + 1, Len(s)) /\ c + 3 + 1 = c + 4
  BY <1>1 DEF From
<1> QED BY <1>2, <1>3, RestAt

(* What the flush sends is not empty.                                      *)
LEMMA FlushSome ==
  ASSUME NEW s \in Seq(Byte), BeginsWithCode(s)
  PROVE  From(s, StartCodeLen(s)) \in Seq(Byte) /\ From(s, StartCodeLen(s)) # <<>>
<1>1. PICK c : CodeAt(s, 0, c)
  BY CodeAtStart
<1>2. c \in {0, 1} /\ c \in Codes(s) /\ Len(s) \in Nat
  BY <1>1, CodeAtFirst, LenProperties
<1>3. c + 4 <= Len(s) /\ StartCodeLen(s) = 3 + c
  BY <1>1, <1>2, CodesAre, CodeLenIs
<1>4. 3 + c \in 0 .. Len(s) /\ Len(s) - (3 + c) > 0
  BY <1>2, <1>3
<1>5. From(s, 3 + c) \in Seq(Byte) /\ Len(From(s, 3 + c)) = Len(s) - (3 + c)
  BY <1>4, FromBytes
<1>6. From(s, 3 + c) # <<>>
  BY <1>4, <1>5
<1> QED BY <1>3, <1>5, <1>6

(* However memcpy copies, it moves bytes, and as many as there are.        *)
LEMMA SlideType ==
  ASSUME NEW s \in Seq(Byte), NEW p \in 0 .. Len(s), NEW backward \in Directions(s, p)
  PROVE  /\ Slide(s, p, backward) \in Seq(Byte) /\ Len(Slide(s, p, backward)) = Len(s) - p
         /\ ~backward => Slide(s, p, backward) = From(s, p)
<1> DEFINE n == Len(s) - p
           Js(k) == {i \in 1 .. n : k + p * i > n}
           Reached(k) == {k + p * j : j \in Js(k)}
<1>1. Len(s) \in Nat /\ p \in Nat /\ n \in Nat /\ backward \in BOOLEAN
  <2>1. Len(s) \in Nat /\ p \in Nat /\ n \in Nat
    BY LenProperties
  <2>2. Directions(s, p) \subseteq {TRUE, FALSE}
    BY DEF Directions
  <2>3. backward \in BOOLEAN
    BY <2>2
  <2> QED BY <2>1, <2>3
<1>2. CASE ~backward
  <2>1. Slide(s, p, backward) = From(s, p)
    BY <1>2 DEF Slide
  <2> QED BY <2>1, FromBytes
<1>3. CASE backward
  <2>1. p # 0
    BY <1>3 DEF Directions
  <2>2. ASSUME NEW k \in 1 .. n PROVE Min(Reached(k)) \in 1 .. Len(s)
    <3>1. Js(k) \in SUBSET Nat
      BY <1>1
    <3>2. n \in Js(k)
      <4>1. p - 1 \in Nat /\ p * n = (p - 1) * n + n
        BY <1>1, <2>1
      <4>2. (p - 1) * n \in Nat
        BY <1>1, <4>1
      <4>3. k \in Nat /\ k > 0 /\ n \in 1 .. n
        BY <1>1, <2>2
      <4>4. k + p * n > n
        BY <1>1, <4>1, <4>2, <4>3
      <4> QED BY <4>3, <4>4
    <3>3. PICK j \in Js(k) : \A i \in Js(k) : j <= i
      BY <3>1, <3>2, LeastInSet
    <3>4. j \in Nat /\ j >= 1 /\ j <= n /\ k + p * j > n /\ k \in Nat /\ k >= 1 /\ k <= n
      BY <1>1, <2>2, <3>1, <3>3
    <3>5. k + p * j \in Nat /\ k + p * j <= n + p
      <4>1. p * j \in Nat /\ p * j = p * (j - 1) + p
        BY <1>1, <3>4
      <4>2. CASE j = 1
        BY <1>1, <3>4, <4>1, <4>2
      <4>3. CASE j # 1
        <5>1. j - 1 \in 1 .. n /\ j - 1 < j
          BY <1>1, <3>4, <4>3
        <5>2. ~(k + p * (j - 1) > n)
          BY <3>3, <3>4, <5>1
        <5>3. p * (j - 1) \in Int
          BY <1>1, <5>1
        <5> HIDE DEF n
        <5> QED BY <1>1, <3>4, <4>1, <5>2, <5>3
      <4> QED BY <4>2, <4>3
    <3>6. Reached(k) \in SUBSET Nat /\ k + p * j \in Reached(k)
      <4>1. \A i \in Js(k) : k + p * i \in Nat
        BY <1>1, <3>1, <3>4
      <4> QED BY <3>3, <4>1
    <3>7. Min(Reached(k)) \in Reached(k) /\ Min(Reached(k)) <= k + p * j
      BY <3>6, MinIs
    <3>8. Min(Reached(k)) \in Nat /\ Min(Reached(k)) > n
      <4>1. \A x \in Reached(k) : x \in Nat /\ x > n
        BY <3>6
      <4> QED BY <3>7, <4>1
    <3> DEFINE m == Min(Reached(k))
    <3>9. m \in Nat /\ m > n /\ m <= k + p * j
      BY <3>7, <3>8
    <3> HIDE DEF m
    <3>10. m \in 1 .. Len(s)
      BY <1>1, <3>5, <3>9
    <3> QED BY <3>10 DEF m
  <2>3. Slide(s, p, backward) = [k \in 1 .. n |-> s[Min(Reached(k))]]
    BY <1>3 DEF Slide
  <2>4. \A k \in 1 .. n : s[Min(Reached(k))] \in Byte
    <3> TAKE k \in 1 .. n
    <3> HIDE DEF Reached, n
    <3> QED BY <2>2
  <2> DEFINE f == [k \in 1 .. n |-> s[Min(Reached(k))]]
  <2>5. f \in [1 .. n -> Byte]
    <3> HIDE DEF Reached, n
    <3> QED BY <2>4
  <2> HIDE DEF f
  <2>6. f \in Seq(Byte) /\ Len(f) = n
    <3> HIDE DEF n
    <3> QED BY <1>1, <2>5
  <2> QED BY <1>3, <2>3, <2>6 DEF f
<1> QED BY <1>1, <1>2, <1>3

(* A unit is a sequence of bytes, and how long it is.                      *)
LEMMA UnitLen ==
  ASSUME NEW s \in Seq(Byte), NEW c \in Codes(s)
  PROVE  /\ Units(s)[Rank(s, c) + 1] \in Seq(Byte)
         /\ Len(Units(s)[Rank(s, c) + 1]) = UnitEnd(s, c) - (c + 3)
<1> DEFINE e == UnitEnd(s, c)
<1>1. c \in Nat /\ e \in Nat /\ c + 3 \in Nat /\ c + 3 <= e /\ e <= Len(s) /\ c + 3 + 1 = c + 4
  BY UnitEnds
<1>2. Units(s)[Rank(s, c) + 1] = SubSeq(s, c + 4, e)
  BY UnitAt
<1> HIDE DEF e
<1>3. SubSeq(s, c + 3 + 1, e) \in Seq(Byte) /\ Len(SubSeq(s, c + 3 + 1, e)) = e - (c + 3)
  BY <1>1, Cut
<1>4. SubSeq(s, c + 3 + 1, e) = SubSeq(s, c + 4, e)
  BY <1>1
<1> QED BY <1>2, <1>3, <1>4 DEF e

(* No unit of the file is longer than the longest.                         *)
LEMMA LongestIs ==
  ASSUME file \in Seq(Byte), NEW c \in Codes(file)
  PROVE  Longest \in Nat /\ UnitEnd(file, c) - (c + 3) <= Longest
<1> DEFINE N == Cardinality(Codes(file))
           U == Units(file)
           S == {Len(U[k]) : k \in DOMAIN U}
           R == {Len(file) - x : x \in S}
<1>1. Len(file) \in Nat /\ Longest = Max(S)
  BY LenProperties DEF Longest
<1>2. DOMAIN U = 1 .. N /\ Rank(file, c) + 1 \in 1 .. N
  BY UnitAt
<1>3. \A k \in 1 .. N : Len(U[k]) \in Nat /\ Len(U[k]) <= Len(file)
  <2> TAKE k \in 1 .. N
  <2>1. PICK d \in Codes(file) : Rank(file, d) = k - 1
    BY RankOnto
  <2>2. Rank(file, d) + 1 = k
    BY <2>1
  <2>3. Len(U[k]) = UnitEnd(file, d) - (d + 3)
    BY <2>2, UnitLen
  <2>4. d \in Nat /\ UnitEnd(file, d) \in Nat /\ d + 3 <= UnitEnd(file, d)
        /\ UnitEnd(file, d) <= Len(file)
    BY UnitEnds
  <2> QED BY <1>1, <2>3, <2>4
<1>4. Len(U[Rank(file, c) + 1]) = UnitEnd(file, c) - (c + 3)
  BY UnitLen
<1> HIDE DEF U, N
<1>5. /\ \A x \in S : x \in Nat /\ x <= Len(file)
      /\ UnitEnd(file, c) - (c + 3) \in S
  BY <1>2, <1>3, <1>4
<1> HIDE DEF S
<1>6. R \in SUBSET Nat /\ R # {}
  BY <1>1, <1>5
<1>7. PICK r \in R : \A y \in R : r <= y
  BY <1>6, LeastInSet
<1>8. PICK x \in S : r = Len(file) - x
  BY <1>7
<1>9. \A y \in S : x >= y
  <2> TAKE y \in S
  <2>1. Len(file) - y \in R
    OBVIOUS
  <2>2. Len(file) - x <= Len(file) - y
    BY <1>7, <1>8, <2>1
  <2> QED BY <1>1, <1>5, <2>2
<1>10. Max(S) \in S /\ \A y \in S : Max(S) >= y
  BY <1>9 DEF Max
<1> HIDE DEF Max
<1> DEFINE m == Max(S)
<1>11. m \in S /\ m >= UnitEnd(file, c) - (c + 3)
  BY <1>5, <1>10
<1>12. m \in Nat /\ UnitEnd(file, c) - (c + 3) \in Nat
  BY <1>5, <1>11
<1> HIDE DEF m
<1>13. UnitEnd(file, c) - (c + 3) <= m
  BY <1>11, <1>12
<1> QED BY <1>1, <1>12, <1>13 DEF m

(* The whole of a text, and its beginning.                                 *)
LEMMA FromZero ==
  ASSUME NEW s \in Seq(Byte)
  PROVE  From(s, 0) = s
<1> DEFINE t == From(s, 0)
<1>1. Len(s) \in Nat /\ 0 \in 0 .. Len(s)
  BY LenProperties
<1>2. t \in Seq(Byte) /\ Len(t) = Len(s) - 0 /\ \A k \in 1 .. Len(s) - 0 : t[k] = s[0 + k]
  BY <1>1, FromBytes
<1> HIDE DEF t
<1>3. Len(t) = Len(s) /\ \A k \in 1 .. Len(t) : t[k] = s[k]
  <2>1. Len(s) - 0 = Len(s) /\ \A k \in 1 .. Len(s) : 0 + k = k
    BY <1>1
  <2> QED BY <1>2, <2>1
<1>4. t = s
  BY <1>2, <1>3, SeqEqual
<1> QED BY <1>4 DEF t

(* The beginning of a text, as SubSeq gives it.                            *)
LEMMA HeadIs ==
  ASSUME NEW s \in Seq(Byte), NEW p \in 0 .. Len(s)
  PROVE  /\ SubSeq(s, 1, p) \in Seq(Byte) /\ Len(SubSeq(s, 1, p)) = p
         /\ \A k \in 1 .. p : SubSeq(s, 1, p)[k] = s[k]
         /\ Begins(SubSeq(s, 1, p), s)
<1>1. Len(s) \in Nat /\ p \in Nat /\ p <= Len(s) /\ 0 + 1 = 1 /\ p - 0 = p
      /\ \A k \in 1 .. p : 0 + k = k
  BY LenProperties
<1> DEFINE h == SubSeq(s, 1, p)
<1>2. /\ SubSeq(s, 0 + 1, p) \in Seq(Byte) /\ Len(SubSeq(s, 0 + 1, p)) = p - 0
      /\ \A k \in 1 .. p - 0 : SubSeq(s, 0 + 1, p)[k] = s[0 + k]
  BY <1>1, Cut
<1>3. h \in Seq(Byte) /\ Len(h) = p /\ \A k \in 1 .. p : h[k] = s[k]
  BY <1>1, <1>2
<1> HIDE DEF h
<1>4. Begins(h, s)
  BY <1>1, <1>3 DEF Begins
<1> QED BY <1>3, <1>4 DEF h

(* Two texts, one behind the other.                                        *)
LEMMA JoinIs ==
  ASSUME NEW t \in Seq(Byte), NEW x \in Seq(Byte)
  PROVE  /\ t \o x \in Seq(Byte) /\ Len(t \o x) = Len(t) + Len(x)
         /\ \A k \in 1 .. Len(t) + Len(x) :
              (t \o x)[k] = IF k <= Len(t) THEN t[k] ELSE x[k - Len(t)]
BY ConcatProperties

(* The beginning of a text, and t with the bytes from p to q behind it.    *)
Opening(s, p) == SubSeq(s, 1, p)
WithPiece(t, s, p, q) == t \o SubSeq(s, p + 1, q)

(* A longer beginning goes on as the text does.                            *)
LEMMA HeadGrows ==
  ASSUME NEW s \in Seq(Byte), NEW p \in Nat, NEW q \in Nat, NEW base \in Nat,
         NEW t \in Seq(Byte), p <= q, q <= Len(s), base <= p, t = From(Opening(s, p), base)
  PROVE  WithPiece(t, s, p, q) = From(Opening(s, q), base)
<1> USE DEF Opening, WithPiece
<1> DEFINE h == SubSeq(s, 1, p)
           g == SubSeq(s, 1, q)
           x == SubSeq(s, p + 1, q)
           w == From(g, base)
           v == t \o x
<1>1. Len(s) \in Nat /\ p \in 0 .. Len(s) /\ q \in 0 .. Len(s) /\ base \in 0 .. p
      /\ base \in 0 .. q
  BY LenProperties
<1>2. /\ h \in Seq(Byte) /\ Len(h) = p /\ \A k \in 1 .. p : h[k] = s[k]
      /\ g \in Seq(Byte) /\ Len(g) = q /\ \A k \in 1 .. q : g[k] = s[k]
  BY <1>1, HeadIs
<1>3. x \in Seq(Byte) /\ Len(x) = q - p /\ \A k \in 1 .. q - p : x[k] = s[p + k]
  BY Cut
<1>4. Len(t) = p - base /\ \A k \in 1 .. p - base : t[k] = h[base + k]
  <2>1. t = From(h, base)
    OBVIOUS
  <2> HIDE DEF h, g, x
  <2>2. /\ Len(From(h, base)) = Len(h) - base
        /\ \A k \in 1 .. Len(h) - base : From(h, base)[k] = h[base + k]
    BY <1>1, <1>2, FromBytes
  <2> QED BY <1>2, <2>1, <2>2
<1> HIDE DEF h, g, x
<1>5. w \in Seq(Byte) /\ Len(w) = q - base /\ \A k \in 1 .. q - base : w[k] = g[base + k]
  BY <1>1, <1>2, FromBytes
<1> HIDE DEF w
<1>6. /\ v \in Seq(Byte) /\ Len(v) = Len(t) + Len(x)
      /\ \A k \in 1 .. Len(t) + Len(x) :
           v[k] = IF k <= Len(t) THEN t[k] ELSE x[k - Len(t)]
  BY <1>3, JoinIs
<1> HIDE DEF v
<1>7. Len(v) = Len(w)
  BY <1>3, <1>4, <1>5, <1>6
<1>8. \A k \in 1 .. Len(v) : v[k] = w[k]
  <2> TAKE k \in 1 .. Len(v)
  <2>1. k \in Nat /\ k >= 1 /\ k <= q - base /\ Len(t) = p - base /\ k \in 1 .. Len(t) + Len(x)
    <3>1. Len(v) = Len(t) + Len(x) /\ Len(v) = q - base
      BY <1>5, <1>6, <1>7
    <3>2. Len(v) \in Nat /\ k \in 1 .. q - base
      BY <3>1, <1>1
    <3> QED BY <1>1, <1>4, <3>1, <3>2
  <2>2. w[k] = s[base + k]
    <3>1. k \in 1 .. q - base /\ base + k \in 1 .. q
      BY <1>1, <2>1
    <3> QED BY <1>2, <1>5, <3>1
  <2>3. CASE k <= p - base
    <3>1. k \in 1 .. p - base /\ base + k \in 1 .. p
      BY <1>1, <2>1, <2>3
    <3>2. v[k] = t[k] /\ t[k] = h[base + k] /\ h[base + k] = s[base + k]
      BY <1>2, <1>4, <1>6, <2>1, <2>3, <3>1
    <3> QED BY <2>2, <3>2
  <2>4. CASE ~(k <= p - base)
    <3>1. k - (p - base) \in 1 .. q - p /\ p + (k - (p - base)) = base + k
      BY <1>1, <2>1, <2>4
    <3>2. v[k] = x[k - (p - base)]
      BY <1>6, <2>1, <2>4
    <3>3. x[k - (p - base)] = s[p + (k - (p - base))]
      BY <1>3, <3>1
    <3> QED BY <2>2, <3>1, <3>2, <3>3
  <2> QED BY <2>3, <2>4
<1>9. v = w
  BY <1>5, <1>6, <1>7, <1>8, SeqEqual
<1> QED BY <1>9 DEF v, w, g, x

(* A text begins with a start code if its beginning does; the other way    *)
(* round only if the beginning is long enough.                             *)
LEMMA BeginsStart ==
  ASSUME NEW s \in Seq(Byte), NEW t \in Seq(Byte), Begins(s, t)
  PROVE  /\ BeginsWithCode(s) => BeginsWithCode(t)
         /\ BeginsWithCode(t) /\ ~BeginsWithCode(s) => Len(s) <= 4
         /\ \A at \in Nat : \A c : CodeAt(s, at, c) => CodeAt(t, at, c)
<1>1. Len(s) \in Nat /\ Len(s) <= Len(t)
  BY LenProperties DEF Begins
<1>2. ASSUME NEW at \in Nat, NEW c, CodeAt(s, at, c) PROVE CodeAt(t, at, c)
  <2>1. c \in Nat /\ c \in Codes(s) /\ c \in {at, at + 1}
    BY <1>2, CodeAtFirst
  <2>2. c \in Codes(t) /\ c + 4 <= Len(s)
    BY <2>1, BeginsCodes
  <2>3. c = at + 1 => c \in 1 .. Len(s)
    BY <1>1, <2>1, <2>2
  <2>4. c = at + 1 => s[c] = t[c]
    BY <2>3 DEF Begins
  <2> QED BY <1>2, <2>2, <2>4 DEF CodeAt
<1>3. ASSUME BeginsWithCode(t), Len(s) > 4 PROVE BeginsWithCode(s)
  <2>1. PICK c : CodeAt(t, 0, c)
    BY <1>3, CodeAtStart
  <2>2. c \in {0, 1} /\ c \in Codes(t)
    BY <2>1 DEF CodeAt
  <2>3. c + 4 <= Len(s) /\ c \in Nat
    BY <1>1, <1>3, <2>2
  <2>4. c \in Codes(s)
    BY <2>2, <2>3, BeginsCodes
  <2>5. c = 1 => s[c] = t[c]
    <3>1. 1 \in 1 .. Len(s)
      BY <1>1, <1>3
    <3> QED BY <3>1 DEF Begins
  <2>6. CodeAt(s, 0, c)
    BY <2>1, <2>4, <2>5 DEF CodeAt
  <2> QED BY <2>6, CodeAtStart
<1>4. BeginsWithCode(s) => BeginsWithCode(t)
  BY <1>2, CodeAtStart
<1> QED BY <1>1, <1>2, <1>3, <1>4

-----------------------------------------------------------------------------
(* What the actions do.                                                    *)

(* The cache begins at this offset of the file, and the scan is at this.   *)
Base == pos - Len(cache)
Seen == IF pc = "scan" THEN Base + startPos ELSE Base

(* What the type invariant and the assumption on the sizes say of the      *)
(* state.                                                                  *)
LEMMA StateTypes ==
  ASSUME TypeOK
  PROVE  /\ file \in Seq(Byte) /\ cache \in Seq(Byte) /\ sent \in Seq(Seq(Byte))
         /\ Len(file) \in Nat /\ Len(cache) \in Nat /\ Len(sent) \in Nat
         /\ pos \in 0 .. Len(file) /\ pos \in Nat /\ pos <= Len(file) /\ startPos \in Nat
         /\ chunk \in Nat /\ chunk > 0 /\ size \in Nat /\ chunk + 4 <= size
         /\ Len(cache) <= size
<1>1. chunk \in ChunkSizes /\ size \in CacheSizes
  BY DEF TypeOK
<1>2. chunk \in Nat /\ chunk > 0 /\ size \in Nat /\ chunk + 4 <= size
  BY <1>1, FramerAssumption
<1>3. file \in Seq(Byte) /\ cache \in Seq(Byte) /\ sent \in Seq(Seq(Byte))
      /\ pos \in 0 .. Len(file) /\ startPos \in 0 .. size /\ Len(cache) <= size
  BY DEF TypeOK
<1>4. Len(file) \in Nat /\ Len(cache) \in Nat /\ Len(sent) \in Nat
  BY <1>3, LenProperties
<1> QED BY <1>2, <1>3, <1>4

(* What was read of the file is its beginning.                             *)
LEMMA PrefixIs ==
  ASSUME TypeOK
  PROVE  Prefix \in Seq(Byte) /\ Len(Prefix) = pos /\ Begins(Prefix, file)
BY StateTypes, HeadIs DEF Prefix

(* main reads a piece.                                                     *)
LEMMA ReadIs ==
  ASSUME TypeOK, ReadPiece
  PROVE  /\ pc = "read" /\ pos' = pos + NRead /\ NRead \in Nat /\ NRead > 0 /\ NRead <= chunk
         /\ pos' \in Nat /\ pos' <= Len(file) /\ pos' \in 0 .. Len(file)
         /\ UNCHANGED <<file, chunk, size, spoilt>>
         /\ sent' = IF pos = 0 THEN <<>> ELSE sent
         /\ Prefix' \in Seq(Byte) /\ Len(Prefix') = pos' /\ Begins(Prefix', file)
         /\ Begins(Prefix, Prefix')
<1>1. /\ pc = "read" /\ pos' = pos + NRead /\ pos < Len(file)
      /\ UNCHANGED <<file, chunk, size, spoilt>>
      /\ sent' = IF pos = 0 THEN <<>> ELSE sent
  BY DEF ReadPiece, input
<1>2. NRead \in Nat /\ NRead > 0 /\ NRead <= chunk /\ pos + NRead <= Len(file)
  BY <1>1, StateTypes DEF NRead
<1>3. pos' \in Nat /\ pos' <= Len(file) /\ pos' \in 0 .. Len(file) /\ pos <= pos'
  BY SMTT(30), <1>1, <1>2, StateTypes
<1>4. Prefix' = SubSeq(file, 1, pos')
  BY <1>1 DEF Prefix
<1>5. /\ Prefix' \in Seq(Byte) /\ Len(Prefix') = pos' /\ Begins(Prefix', file)
      /\ \A k \in 1 .. pos' : Prefix'[k] = file[k]
  BY <1>3, <1>4, StateTypes, HeadIs
<1>6. Prefix \in Seq(Byte) /\ Len(Prefix) = pos /\ \A k \in 1 .. pos : Prefix[k] = file[k]
  BY StateTypes, HeadIs DEF Prefix
<1>7. \A k \in 1 .. pos : k \in 1 .. pos'
  BY <1>3, StateTypes
<1>8. Begins(Prefix, Prefix')
  BY <1>3, <1>5, <1>6, <1>7 DEF Begins
<1> QED BY <1>1, <1>2, <1>3, <1>5, <1>8

(* The piece is put behind the bytes in the cache.                         *)
LEMMA FeedIs ==
  ASSUME TypeOK, Feed
  PROVE  /\ cache' \in Seq(Byte) /\ Len(cache') = Len(cache) + NRead
         /\ Begins(cache, cache')
         /\ \A base \in Nat : base <= pos /\ cache = From(Prefix, base)
              => cache' = From(Prefix', base)
         /\ cache = Prefix => cache' = Prefix'
         /\ cache = <<>> /\ pos = 0 => cache' = Prefix'
<1> DEFINE x == SubSeq(file, pos + 1, pos + NRead)
<1>1. ReadPiece /\ cache' = cache \o x
  BY DEF Feed
<1>2. NRead \in Nat /\ pos + NRead <= Len(file) /\ pos' = pos + NRead /\ pos' \in Nat
      /\ UNCHANGED file /\ pos <= pos'
  BY <1>1, ReadIs, StateTypes
<1>3. x \in Seq(Byte) /\ Len(x) = NRead
  <2> DEFINE q == pos + NRead
  <2>1. q \in Nat /\ pos <= q /\ q <= Len(file) /\ q - pos = NRead
    BY <1>2, StateTypes
  <2> HIDE DEF q
  <2>2. SubSeq(file, pos + 1, q) \in Seq(Byte) /\ Len(SubSeq(file, pos + 1, q)) = q - pos
    BY <2>1, StateTypes, Cut
  <2> QED BY <2>1, <2>2 DEF q
<1>4. Prefix \in Seq(Byte) /\ Prefix' \in Seq(Byte) /\ Len(Prefix) = pos
  BY <1>1, PrefixIs, ReadIs
<1>5. \A base \in Nat : base <= pos /\ cache = From(Prefix, base) => cache' = From(Prefix', base)
  <2> SUFFICES ASSUME NEW base \in Nat, base <= pos, cache = From(Prefix, base)
               PROVE  cache' = From(Prefix', base)
    OBVIOUS
  <2>1. cache = From(SubSeq(file, 1, pos), base)
    BY DEF Prefix
  <2>2. cache \o SubSeq(file, pos + 1, pos') = From(SubSeq(file, 1, pos'), base)
    <3>1. file \in Seq(Byte) /\ cache \in Seq(Byte) /\ pos \in Nat
      BY StateTypes
    <3>2. cache = From(Opening(file, pos), base)
      BY <2>1 DEF Opening
    <3>3. ASSUME NEW q \in Nat, pos <= q, q <= Len(file)
          PROVE  WithPiece(cache, file, pos, q) = From(Opening(file, q), base)
      BY <3>1, <3>2, <3>3, HeadGrows
    <3>4. pos' \in Nat /\ pos <= pos' /\ pos' <= Len(file)
      BY <1>2, StateTypes
    <3>5. WithPiece(cache, file, pos, pos') = From(Opening(file, pos'), base)
      BY <3>3, <3>4
    <3> QED BY <3>5 DEF Opening, WithPiece
  <2>3. Prefix' = SubSeq(file, 1, pos')
    BY <1>2 DEF Prefix
  <2>4. x = SubSeq(file, pos + 1, pos')
    BY <1>2
  <2> QED BY <1>1, <2>2, <2>3, <2>4
<1> HIDE DEF x
<1>6. cache = Prefix => cache' = Prefix'
  <2>1. 0 \in Nat /\ 0 <= pos
    BY StateTypes
  <2>2. From(Prefix, 0) = Prefix /\ From(Prefix', 0) = Prefix'
    BY <1>4, FromZero
  <2> QED BY <1>5, <2>1, <2>2
<1>7. cache = <<>> /\ pos = 0 => cache = Prefix
  BY <1>4, EmptySeq
<1>8. /\ cache \o x \in Seq(Byte) /\ Len(cache \o x) = Len(cache) + NRead
      /\ \A k \in 1 .. Len(cache) : (cache \o x)[k] = cache[k]
  <2>1. /\ cache \o x \in Seq(Byte) /\ Len(cache \o x) = Len(cache) + Len(x)
        /\ \A i \in 1 .. Len(cache) + Len(x) :
             (cache \o x)[i] = IF i <= Len(cache) THEN cache[i] ELSE x[i - Len(cache)]
    BY <1>3, StateTypes, ConcatProperties
  <2>2. \A k \in 1 .. Len(cache) : k \in 1 .. Len(cache) + Len(x) /\ k <= Len(cache)
    BY <1>2, <1>3, StateTypes
  <2> QED BY <1>3, <2>1, <2>2
<1>9. Begins(cache, cache')
  BY <1>1, <1>2, <1>8, StateTypes DEF Begins
<1> QED BY <1>1, <1>5, <1>6, <1>7, <1>8, <1>9

(* There is room for a piece behind an unrecognized start code.            *)
LEMMA RoomBehindFour ==
  ASSUME TypeOK, ReadPiece, Len(cache) <= 4
  PROVE  HasRoom
<1>1. NRead \in Nat /\ NRead <= chunk
  BY ReadIs
<1> QED BY <1>1, StateTypes DEF HasRoom

(* The scan is at a start code just when the rest of the cache begins with *)
(* one.                                                                    *)
LEMMA RestIs ==
  ASSUME TypeOK, startPos <= Len(cache)
  PROVE  /\ startPos \in 0 .. Len(cache) /\ Rest \in Seq(Byte)
         /\ Len(Rest) = Len(cache) - startPos
         /\ FindStartCode(Rest) = 0 <=> BeginsWithCode(Rest)
         /\ BeginsWithCode(Rest) => startPos < Len(cache)
<1>1. startPos \in 0 .. Len(cache)
  BY StateTypes
<1>2. Rest \in Seq(Byte) /\ Len(Rest) = Len(cache) - startPos
  BY <1>1, StateTypes, FromBytes DEF Rest
<1>3. ASSUME BeginsWithCode(Rest) PROVE startPos < Len(cache)
  <2>1. PICK c \in Codes(cache) : CodeAt(cache, startPos, c)
    BY <1>1, <1>3, StateTypes, RestBegins DEF Rest
  <2> QED BY <1>1, <2>1, StateTypes, RestAt
<1> QED BY <1>1, <1>2, <1>3, FindZero

(* One round of the scan.                                                  *)
NaluNow == SubSeq(Rest, StartCodeLen(Rest) + 1, StartCodeLen(Rest) + NextCode)

(* One round of the scan: it passes that unit on, and start_pos comes to   *)
(* the next start code.                                                    *)
LEMMA ScanNaluIs ==
  ASSUME TypeOK, startPos <= Len(cache), ScanNalu
  PROVE  /\ pc = "scan" /\ BeginsWithCode(Rest) /\ UNCHANGED <<file, chunk, size>>
         /\ UNCHANGED <<pos, cache, clean, spoilt>> /\ NextCode # -1
         /\ startPos' = startPos + (StartCodeLen(Rest) + NextCode)
         /\ startPos' \in 0 .. Len(cache) /\ BeginsWithCode(From(cache, startPos'))
         /\ NaluNow \in Seq(Byte)
         /\ \/ NaluNow = <<>> /\ pc' = "abort" /\ sent' = sent
            \/ NaluNow # <<>> /\ pc' = "scan" /\ sent' = Append(sent, NaluNow)
<1>1. /\ AtCode /\ NextCode # -1 /\ RtpSendNalu(NaluNow)
      /\ startPos' = startPos + StartCodeLen(Rest) + NextCode
      /\ UNCHANGED <<file, chunk, size>> /\ UNCHANGED <<pos, cache, clean, spoilt>>
  BY DEF ScanNalu, NaluNow, input
<1>2. pc = "scan" /\ startPos < Len(cache) /\ FindStartCode(Rest) = 0
  BY <1>1 DEF AtCode
<1>3. BeginsWithCode(Rest) /\ startPos \in 0 .. Len(cache) /\ startPos \in Nat
  BY <1>2, RestIs
<1>4. PICK c \in Codes(cache) : CodeAt(cache, startPos, c)
  BY <1>3, StateTypes, RestBegins DEF Rest
<1>5. LET r == From(cache, startPos)
          code == StartCodeLen(r)
          next == FindStartCode(From(r, code))
      IN /\ code \in Nat /\ next \in Int
         /\ next # -1 =>
              /\ code + next \in Nat
              /\ startPos + (code + next) = UnitEnd(cache, c)
              /\ UnitEnd(cache, c) <= Len(cache)
              /\ SubSeq(r, code + 1, code + next) \in Seq(Byte)
              /\ \E j \in Later(cache, c) : CodeAt(cache, UnitEnd(cache, c), j)
  BY <1>3, <1>4, StateTypes, ScanIs
<1> DEFINE code == StartCodeLen(Rest)
           e == UnitEnd(cache, c)
<1>6. /\ code \in Nat /\ NextCode \in Int /\ code + NextCode \in Nat
      /\ startPos + (code + NextCode) = e /\ e <= Len(cache) /\ NaluNow \in Seq(Byte)
      /\ \E j \in Later(cache, c) : CodeAt(cache, e, j)
  BY <1>1, <1>5 DEF Rest, NextCode, NaluNow
<1>7. startPos' = startPos + code + NextCode
  BY <1>1
<1> HIDE DEF code, e
<1>8. startPos' = startPos + (code + NextCode) /\ startPos' = e /\ e \in 0 .. Len(cache)
  BY <1>3, <1>6, <1>7, StateTypes
<1>9. BeginsWithCode(From(cache, e))
  BY <1>6, <1>8, StateTypes, RestAt
<1>10. \/ NaluNow = <<>> /\ pc' = "abort" /\ sent' = sent
       \/ NaluNow # <<>> /\ pc' = "scan" /\ sent' = Append(sent, NaluNow)
  BY <1>1, <1>2 DEF RtpSendNalu
<1> QED BY <1>1, <1>2, <1>3, <1>6, <1>8, <1>9, <1>10 DEF code

(* The scan has found no other start code.                                 *)
LEMMA ScanRestIs ==
  ASSUME TypeOK, startPos <= Len(cache), ScanRest
  PROVE  /\ pc = "scan" /\ pc' = "read" /\ BeginsWithCode(Rest) /\ NextCode = -1
         /\ UNCHANGED <<file, chunk, size>> /\ UNCHANGED <<pos, startPos, sent, clean>>
         /\ cache' \in Seq(Byte) /\ Len(cache') = Len(cache) - startPos
         /\ \/ spoilt' = spoilt /\ cache' = Rest
            \/ spoilt' = TRUE /\ startPos # 0 /\ Len(cache) - startPos > startPos
<1>1. /\ AtCode /\ NextCode = -1 /\ pc' = "read"
      /\ UNCHANGED <<file, chunk, size>> /\ UNCHANGED <<pos, startPos, sent, clean>>
      /\ \E b \in Directions(cache, startPos) :
           cache' = Slide(cache, startPos, b) /\ spoilt' = (spoilt \/ b)
  BY DEF ScanRest, input
<1>2. pc = "scan" /\ BeginsWithCode(Rest) /\ startPos \in 0 .. Len(cache)
  BY <1>1, RestIs DEF AtCode
<1>3. PICK b \in Directions(cache, startPos) :
        cache' = Slide(cache, startPos, b) /\ spoilt' = (spoilt \/ b)
  BY <1>1
<1>4. /\ cache' \in Seq(Byte) /\ Len(cache') = Len(cache) - startPos
      /\ ~b => cache' = Rest
  BY <1>2, <1>3, StateTypes, SlideType DEF Rest
<1>5. CASE b
  <2>1. startPos # 0 /\ Len(cache) - startPos > startPos
    BY <1>5 DEF Directions
  <2>2. spoilt' = TRUE
    BY <1>3, <1>5
  <2> QED BY <1>1, <1>2, <1>4, <2>1, <2>2
<1>6. CASE ~b
  <2>1. spoilt' = spoilt
    <3>1. spoilt \in BOOLEAN
      BY DEF TypeOK
    <3> QED BY <1>3, <1>6, <3>1
  <2> QED BY <1>1, <1>2, <1>4, <1>6, <2>1
<1> QED BY <1>5, <1>6

(* The end of the file.                                                    *)
LEMMA FlushIsDone ==
  ASSUME TypeOK, Flush
  PROVE  /\ pc = "read" /\ pc' = "read" /\ pos = Len(file) /\ pos' = 0
         /\ UNCHANGED <<file, chunk, size>> /\ UNCHANGED <<startPos, clean, spoilt>>
         /\ \/ /\ BeginsWithCode(cache) /\ cache' = <<>>
               /\ From(cache, StartCodeLen(cache)) \in Seq(Byte)
               /\ sent' = Append(sent, From(cache, StartCodeLen(cache)))
            \/ ~BeginsWithCode(cache) /\ cache' = cache /\ sent' = sent
<1> DEFINE nalu == From(cache, StartCodeLen(cache))
<1>1. /\ pc = "read" /\ pos = Len(file) /\ pos' = 0
      /\ UNCHANGED <<file, chunk, size>> /\ UNCHANGED <<startPos, clean, spoilt>>
      /\ IF FindStartCode(cache) = 0 THEN RtpSendNalu(nalu) /\ cache' = <<>>
                                     ELSE UNCHANGED <<pc, sent, cache>>
  BY DEF Flush, input, Flushed
<1>2. FindStartCode(cache) = 0 <=> BeginsWithCode(cache)
  BY StateTypes, FindZero
<1>3. CASE BeginsWithCode(cache)
  <2>1. nalu \in Seq(Byte) /\ nalu # <<>>
    BY <1>3, StateTypes, FlushSome
  <2>2. RtpSendNalu(nalu) /\ cache' = <<>>
    BY <1>1, <1>2, <1>3
  <2> HIDE DEF nalu
  <2>3. sent' = Append(sent, nalu) /\ pc' = "read"
    BY <1>1, <2>1, <2>2 DEF RtpSendNalu
  <2> QED BY <1>1, <1>3, <2>1, <2>2, <2>3 DEF nalu
<1>4. CASE ~BeginsWithCode(cache)
  <2>1. UNCHANGED <<pc, sent, cache>>
    BY <1>1, <1>2, <1>4
  <2> QED BY <1>1, <1>4, <2>1
<1> QED BY <1>3, <1>4

-----------------------------------------------------------------------------
(* Types, and how the cache is emptied.                                    *)

(* Every step keeps the types; what a step adds to the cache fits it.      *)
LEMMA TypesKept ==
  ASSUME TypeOK, pc = "scan" => startPos <= Len(cache), [Next]_vars
  PROVE  TypeOK'
<1> DEFINE Typed == /\ pos' \in 0 .. Len(file) /\ cache' \in Seq(Byte) /\ Len(cache') <= size
                    /\ pc' \in {"read", "scan", "abort"} /\ startPos' \in 0 .. size
                    /\ sent' \in Seq(Seq(Byte)) /\ clean' \in BOOLEAN /\ spoilt' \in BOOLEAN
<1>1. ASSUME UNCHANGED <<file, chunk, size>>, Typed PROVE TypeOK'
  BY <1>1 DEF TypeOK
<1>2. /\ pos \in 0 .. Len(file) /\ cache \in Seq(Byte) /\ Len(cache) <= size
      /\ pc \in {"read", "scan", "abort"} /\ startPos \in 0 .. size
      /\ sent \in Seq(Seq(Byte)) /\ clean \in BOOLEAN /\ spoilt \in BOOLEAN
      /\ size \in Nat /\ Len(cache) \in Nat
  BY StateTypes DEF TypeOK
<1>3. \A n \in 0 .. Len(cache) : n \in 0 .. size
  BY <1>2
<1>4. CASE Feed
  <2>1. ReadPiece /\ pc' = "scan" /\ startPos' = 0 /\ HasRoom
        /\ clean' = IF pos = 0 THEN cache = <<>> ELSE clean
    BY <1>4 DEF Feed
  <2>2. /\ pos' \in 0 .. Len(file) /\ UNCHANGED <<file, chunk, size, spoilt>>
        /\ sent' = IF pos = 0 THEN <<>> ELSE sent
        /\ NRead \in Nat
    BY <2>1, ReadIs
  <2>3. cache' \in Seq(Byte) /\ Len(cache') = Len(cache) + NRead
    BY <1>4, FeedIs
  <2>4. Len(cache') <= size
    BY <1>2, <2>1, <2>2, <2>3 DEF HasRoom
  <2>5. sent' \in Seq(Seq(Byte))
    BY <1>2, <2>2
  <2>6. clean' \in BOOLEAN
    BY <1>2, <2>1
  <2>7. Typed
    BY <1>2, <2>1, <2>2, <2>3, <2>4, <2>5, <2>6
  <2> QED BY <1>1, <2>2, <2>7
<1>5. CASE Refuse
  <2>1. ReadPiece /\ clean' = FALSE /\ UNCHANGED <<cache, pc, startPos>>
    BY <1>5 DEF Refuse
  <2>2. /\ pos' \in 0 .. Len(file) /\ UNCHANGED <<file, chunk, size, spoilt>>
        /\ sent' = IF pos = 0 THEN <<>> ELSE sent
    BY <2>1, ReadIs
  <2>3. sent' \in Seq(Seq(Byte))
    BY <1>2, <2>2
  <2>4. Typed
    BY <1>2, <2>1, <2>2, <2>3
  <2> QED BY <1>1, <2>2, <2>4
<1>6. CASE ScanNalu
  <2>1. pc = "scan"
    BY <1>6 DEF ScanNalu, AtCode
  <2>2. /\ UNCHANGED <<file, chunk, size>> /\ UNCHANGED <<pos, cache, clean, spoilt>>
        /\ startPos' \in 0 .. Len(cache) /\ NaluNow \in Seq(Byte)
        /\ \/ NaluNow = <<>> /\ pc' = "abort" /\ sent' = sent
           \/ NaluNow # <<>> /\ pc' = "scan" /\ sent' = Append(sent, NaluNow)
    BY <1>6, <2>1, ScanNaluIs
  <2>3. sent' \in Seq(Seq(Byte)) /\ pc' \in {"read", "scan", "abort"}
    <3> DEFINE B == Seq(Byte)
    <3>1. sent \in Seq(B) /\ NaluNow \in B
      BY <1>2, <2>2
    <3> HIDE DEF B
    <3>2. Append(sent, NaluNow) \in Seq(B)
      BY <3>1
    <3> QED BY <2>2, <3>1, <3>2 DEF B
  <2>4. Typed
    BY <1>2, <1>3, <2>2, <2>3
  <2> QED BY <1>1, <2>2, <2>4
<1>7. CASE ScanRest
  <2>1. pc = "scan"
    BY <1>7 DEF ScanRest, AtCode
  <2>2. /\ pc' = "read"
        /\ UNCHANGED <<file, chunk, size>> /\ UNCHANGED <<pos, startPos, sent, clean>>
        /\ cache' \in Seq(Byte) /\ Len(cache') = Len(cache) - startPos
        /\ (spoilt' = spoilt \/ spoilt' = TRUE)
    BY <1>7, <2>1, ScanRestIs
  <2>3. Len(cache') <= size
    BY <1>2, <2>2
  <2>4. Typed
    BY <1>2, <2>2, <2>3
  <2> QED BY <1>1, <2>2, <2>4
<1>8. CASE ScanStops
  <2>1. /\ pc' = "read" /\ UNCHANGED <<file, chunk, size>>
        /\ UNCHANGED <<pos, cache, startPos, sent, clean, spoilt>>
    BY <1>8 DEF ScanStops, input
  <2>2. Typed
    BY <1>2, <2>1
  <2> QED BY <1>1, <2>1, <2>2
<1>9. CASE Flush
  <2>1. /\ pc' = "read" /\ pos' = 0
        /\ UNCHANGED <<file, chunk, size>> /\ UNCHANGED <<startPos, clean, spoilt>>
        /\ \/ /\ cache' = <<>> /\ From(cache, StartCodeLen(cache)) \in Seq(Byte)
              /\ sent' = Append(sent, From(cache, StartCodeLen(cache)))
           \/ cache' = cache /\ sent' = sent
    BY <1>9, FlushIsDone
  <2>2. sent' \in Seq(Seq(Byte))
    <3> DEFINE B == Seq(Byte)
               nalu == From(cache, StartCodeLen(cache))
    <3>1. sent \in Seq(B)
          /\ (sent' = sent \/ (nalu \in B /\ sent' = Append(sent, nalu)))
      BY <1>2, <2>1
    <3> HIDE DEF B, nalu
    <3>2. sent' \in Seq(B)
      BY <3>1
    <3> QED BY <3>2 DEF B
  <2>3. cache' \in Seq(Byte) /\ Len(cache') <= size
    <3>1. cache' = <<>> => cache' \in Seq(Byte) /\ Len(cache') = 0
      OBVIOUS
    <3> QED BY <1>2, <2>1, <3>1
  <2>4. pos' \in 0 .. Len(file)
    BY <1>2, <2>1
  <2>5. Typed
    BY <1>2, <2>1, <2>2, <2>3, <2>4
  <2> QED BY <1>1, <2>1, <2>5
<1>10. CASE UNCHANGED vars
  <2>1. UNCHANGED <<file, chunk, size>>
        /\ UNCHANGED <<pos, cache, pc, startPos, sent, clean, spoilt>>
    BY <1>10 DEF vars, input
  <2>2. Typed
    BY <1>2, <2>1
  <2> QED BY <1>1, <2>1, <2>2
<1> QED BY <1>4, <1>5, <1>6, <1>7, <1>8, <1>9, <1>10 DEF Next, Aborted

(* Too little has been read to tell whether the file begins with a start   *)
(* code, and all of it is in the cache.                                    *)
Undecided == cache = Prefix /\ ~BeginsWithCode(Prefix)

(* The cache of a file that begins with a start code begins with one too.  *)
DrainInv ==
  /\ pc = "scan" => pos > 0 /\ startPos <= Len(cache)
  /\ BeginsWithCode(file) /\ ~spoilt =>
       /\ pc = "read" /\ pos = 0 => cache = <<>>
       /\ pc = "read" /\ pos > 0 => BeginsWithCode(cache) \/ Undecided
       /\ pc = "scan" => BeginsWithCode(Rest) \/ (startPos = 0 /\ Undecided)

(* A piece is refused only when the cache holds something that begins with *)
(* a start code: what is not yet decided is no longer than four bytes, and *)
(* leaves room.                                                            *)
LEMMA RefusedIsLong ==
  ASSUME TypeOK, DrainInv, Refuse, BeginsWithCode(file), ~spoilt
  PROVE  pos > 0 /\ BeginsWithCode(cache)
<1>1. ReadPiece /\ ~HasRoom /\ pc = "read"
  BY ReadIs DEF Refuse
<1>2. Len(cache) > 4
  BY <1>1, StateTypes, RoomBehindFour
<1>3. pos > 0
  <2>1. pos = 0 => Len(cache) = 0
    BY <1>1 DEF DrainInv
  <2> QED BY <1>2, <2>1, StateTypes
<1>4. ~Undecided
  <2>1. ~BeginsWithCode(Prefix) => Len(Prefix) <= 4
    BY StateTypes, PrefixIs, BeginsStart
  <2>2. cache = Prefix => Len(Prefix) > 4
    BY <1>2
  <2>3. Len(Prefix) \in Nat
    BY PrefixIs, StateTypes
  <2> QED BY <2>1, <2>2, <2>3 DEF Undecided
<1> QED BY <1>1, <1>3, <1>4 DEF DrainInv

(* Every step keeps the shape of the cache, and the flush empties it.      *)
LEMMA DrainKept ==
  ASSUME TypeOK, DrainInv, [Next]_vars
  PROVE  DrainInv'
<1>1. pc = "scan" => pos > 0 /\ startPos <= Len(cache)
  BY DEF DrainInv
<1>2. /\ file \in Seq(Byte) /\ cache \in Seq(Byte) /\ pos \in Nat /\ Len(cache) \in Nat
      /\ Prefix \in Seq(Byte) /\ Len(Prefix) = pos
  BY StateTypes, PrefixIs
<1>3. CASE Feed
  <2>1. ReadPiece /\ pc' = "scan" /\ startPos' = 0
    BY <1>3 DEF Feed
  <2>2. /\ pc = "read" /\ pos' \in Nat /\ pos' > 0 /\ UNCHANGED <<file, spoilt>>
        /\ Prefix' \in Seq(Byte)
    <3>1. /\ pc = "read" /\ pos' = pos + NRead /\ NRead \in Nat /\ NRead > 0
          /\ UNCHANGED <<file, spoilt>> /\ Prefix' \in Seq(Byte)
      BY <2>1, ReadIs
    <3> QED BY <1>2, <3>1
  <2>3. /\ cache' \in Seq(Byte) /\ Begins(cache, cache')
        /\ cache = Prefix => cache' = Prefix'
        /\ cache = <<>> /\ pos = 0 => cache' = Prefix'
    BY <1>3, FeedIs
  <2>4. startPos' <= Len(cache')
    BY <2>1, <2>3, LenProperties
  <2>5. Rest' = cache'
    BY <2>1, <2>3, FromZero DEF Rest
  <2>6. ASSUME BeginsWithCode(file), ~spoilt
        PROVE  BeginsWithCode(Rest') \/ Undecided'
    <3>1. CASE pos = 0
      BY <1>2, <2>2, <2>3, <2>5, <2>6, <3>1 DEF DrainInv, Undecided
    <3>2. CASE pos > 0 /\ BeginsWithCode(cache)
      BY <1>2, <2>3, <2>5, <3>2, BeginsStart
    <3>3. CASE pos > 0 /\ Undecided
      BY <2>3, <2>5, <3>3 DEF Undecided
    <3>4. pos = 0 \/ pos > 0
      BY <1>2
    <3> QED BY <2>2, <2>6, <3>1, <3>2, <3>3, <3>4 DEF DrainInv
  <2> QED BY <2>1, <2>2, <2>4, <2>6 DEF DrainInv
<1>4. CASE Refuse
  <2>1. ReadPiece /\ UNCHANGED <<cache, pc, startPos>>
    BY <1>4 DEF Refuse
  <2>2. pc = "read" /\ pos' \in Nat /\ pos' > 0 /\ UNCHANGED <<file, spoilt>>
    <3>1. /\ pc = "read" /\ pos' = pos + NRead /\ NRead \in Nat /\ NRead > 0
          /\ UNCHANGED <<file, spoilt>>
      BY <2>1, ReadIs
    <3> QED BY <1>2, <3>1
  <2>3. BeginsWithCode(file) /\ ~spoilt => BeginsWithCode(cache')
    BY <1>4, <2>1, RefusedIsLong
  <2> QED BY <2>1, <2>2, <2>3 DEF DrainInv
<1>5. CASE ScanNalu
  <2>1. pc = "scan"
    BY <1>5 DEF ScanNalu, AtCode
  <2>2. /\ UNCHANGED file /\ UNCHANGED <<pos, cache, clean, spoilt>>
        /\ startPos' \in 0 .. Len(cache) /\ BeginsWithCode(From(cache, startPos'))
        /\ pc' \in {"abort", "scan"}
    BY <1>1, <1>5, <2>1, ScanNaluIs
  <2>3. Rest' = From(cache, startPos')
    BY <2>2 DEF Rest
  <2> QED BY <1>1, <1>2, <2>1, <2>2, <2>3 DEF DrainInv
<1>6. CASE ScanRest
  <2>1. pc = "scan"
    BY <1>6 DEF ScanRest, AtCode
  <2>2. /\ pc' = "read" /\ BeginsWithCode(Rest) /\ UNCHANGED <<file, pos>>
        /\ (spoilt' = spoilt /\ cache' = Rest) \/ spoilt' = TRUE
    BY <1>1, <1>6, <2>1, ScanRestIs
  <2> QED BY <1>1, <1>2, <2>1, <2>2 DEF DrainInv
<1>7. CASE ScanStops
  <2>1. /\ pc = "scan" /\ pc' = "read" /\ UNCHANGED file
        /\ UNCHANGED <<pos, cache, startPos, sent, clean, spoilt>>
        /\ startPos < Len(cache) => FindStartCode(Rest) # 0
    BY <1>7 DEF ScanStops, input
  <2>2. ~BeginsWithCode(Rest)
    BY <1>1, <2>1, RestIs
  <2>3. BeginsWithCode(file) /\ ~spoilt => Undecided
    BY <2>1, <2>2 DEF DrainInv
  <2>4. Undecided' <=> Undecided
    BY <2>1 DEF Undecided, Prefix
  <2> QED BY <1>1, <1>2, <2>1, <2>3, <2>4 DEF DrainInv
<1>8. CASE Flush
  <2>1. /\ pc = "read" /\ pc' = "read" /\ pos = Len(file) /\ pos' = 0
        /\ UNCHANGED <<file, startPos, clean, spoilt>>
        /\ \/ BeginsWithCode(cache) /\ cache' = <<>>
           \/ ~BeginsWithCode(cache) /\ cache' = cache
    BY <1>8, FlushIsDone
  <2>2. ASSUME BeginsWithCode(file), ~spoilt PROVE cache' = <<>>
    <3>1. CASE pos = 0
      BY <2>1, <2>2, <3>1 DEF DrainInv
    <3>2. CASE pos > 0
      <4>1. ~Undecided
        <5>1. Prefix = file
          BY <1>2, <2>1 DEF Prefix
        <5> QED BY <2>2, <5>1 DEF Undecided
      <4> QED BY <2>1, <2>2, <3>2, <4>1 DEF DrainInv
    <3> QED BY <1>2, <3>1, <3>2
  <2> QED BY <2>1, <2>2 DEF DrainInv
<1>9. CASE UNCHANGED vars
  <2>1. UNCHANGED <<file, pos, cache, pc, startPos, spoilt>>
    BY <1>9 DEF vars, input
  <2>2. Undecided' = Undecided /\ Rest' = Rest
    BY <2>1 DEF Undecided, Prefix, Rest
  <2> QED BY <2>1, <2>2 DEF DrainInv
<1> QED BY <1>3, <1>4, <1>5, <1>6, <1>7, <1>8, <1>9 DEF Next, Aborted

-----------------------------------------------------------------------------
(* The units sent.                                                         *)

(* Just the units of s before the start code at c are in u.                *)
SentUpTo(s, c, u) == Len(u) = Rank(s, c) /\ \A k \in 1 .. Len(u) : u[k] = Units(s)[k]

(* The start code the framer has come to is at c.                          *)
InStep(c) ==
  /\ CodeAt(Prefix, Seen, c) /\ SentUpTo(Prefix, c, sent)
  /\ pc = "read" => Later(Prefix, c) = {}
  /\ pc = "scan" => \A d \in Later(Prefix, c) : d + chunk + 4 > pos
  /\ pc = "scan" /\ startPos > 0 =>
       /\ Seen + chunk + 4 >= pos
       /\ \E k \in DOMAIN Units(file) : Len(Units(file)[k]) + 3 <= startPos

(* Of a pass no piece of which was refused: the cache is the rest of what  *)
(* was read from Base on.  Before the file shows whether it begins with a  *)
(* start code nothing was sent and everything is in the cache; from then   *)
(* on the framer is in step with a start code.                             *)
ScanInv ==
  clean /\ ~spoilt /\ pos > 0 /\ pc # "abort" =>
    /\ Len(cache) <= pos /\ cache = From(Prefix, Base)
    /\ ~BeginsWithCode(Prefix) =>
         sent = <<>> /\ cache = Prefix /\ (pc = "scan" => startPos = 0)
    /\ BeginsWithCode(Prefix) => \E c \in Codes(Prefix) : InStep(c)

(* Nothing is sent before the first start code.                            *)
LEMMA SentNone ==
  ASSUME NEW s \in Seq(Byte), NEW c, CodeAt(s, 0, c)
  PROVE  SentUpTo(s, c, <<>>)
<1>1. c \in Nat /\ \A d \in Codes(s) : d \in Nat /\ d >= c
  <2>1. c \in Nat /\ \A d \in Codes(s) : d >= 0 => d >= c
    BY CodeAtFirst
  <2>2. \A d \in Codes(s) : d \in Nat
    BY CodesAre
  <2> QED BY <2>1, <2>2
<1>2. {d \in Codes(s) : d < c} = {}
  BY <1>1
<1>3. Rank(s, c) = 0
  BY <1>2, FS_EmptySet DEF Rank
<1> QED BY <1>3 DEF SentUpTo

(* More of the file changes nothing of that.                               *)
LEMMA SentGrows ==
  ASSUME NEW s \in Seq(Byte), NEW t \in Seq(Byte), NEW c \in Codes(s), NEW u,
         Begins(s, t), SentUpTo(s, c, u)
  PROVE  SentUpTo(t, c, u)
<1>1. Rank(t, c) = Rank(s, c) /\ Rank(s, c) \in Nat /\ Rank(s, c) < Cardinality(Codes(s))
  BY BeginsUnits, RankBound
<1>2. Cardinality(Codes(s)) \in Nat
  BY CodesFinite
<1>3. ASSUME NEW k \in 1 .. Len(u) PROVE u[k] = Units(t)[k]
  <2>1. k \in 1 .. Rank(s, c) /\ u[k] = Units(s)[k]
    BY <1>3 DEF SentUpTo
  <2>2. k \in 1 .. Cardinality(Codes(s)) /\ k - 1 < Rank(s, c) /\ k - 1 + 1 = k
    BY <1>1, <1>2, <2>1
  <2>3. PICK d \in Codes(s) : Rank(s, d) = k - 1
    BY <2>2, RankOnto
  <2>4. d \in Nat /\ c \in Nat /\ d < c
    <3>1. d \in Nat /\ c \in Nat
      BY CodesAre
    <3>2. c < d => Rank(s, c) < Rank(s, d)
      BY RankOrders
    <3>3. ~(c < d) /\ c # d
      BY <1>1, <2>2, <2>3, <3>2
    <3> QED BY <3>1, <3>3
  <2>5. Later(s, d) # {}
    BY <2>4 DEF Later
  <2>6. Units(t)[Rank(s, d) + 1] = Units(s)[Rank(s, d) + 1]
    BY <2>5, BeginsUnits
  <2> QED BY <2>1, <2>2, <2>3, <2>6
<1> QED BY <1>1, <1>3 DEF SentUpTo

(* The unit at c is sent; the next start code is at j.                     *)
LEMMA SentNext ==
  ASSUME NEW s \in Seq(Byte), NEW c \in Codes(s), NEW u \in Seq(Seq(Byte)),
         NEW j \in Later(s, c), SentUpTo(s, c, u), \A d \in Later(s, c) : j <= d
  PROVE  SentUpTo(s, j, Append(u, Units(s)[Rank(s, c) + 1]))
<1> DEFINE n == Units(s)[Rank(s, c) + 1]
           v == Append(u, n)
<1>1. c \in Nat /\ j \in Nat /\ c < j /\ j \in Codes(s)
  BY CodesAre DEF Later
<1>2. \A d \in Codes(s) : d < j => d <= c
  <2> SUFFICES ASSUME NEW d \in Codes(s), d < j, d > c PROVE FALSE
    BY <1>1, CodesAre
  <2>1. d \in Later(s, c)
    BY DEF Later
  <2>2. d \in Nat
    BY CodesAre
  <2> QED BY <1>1, <2>1, <2>2
<1>3. Rank(s, j) = Rank(s, c) + 1 /\ Rank(s, c) \in Nat
  BY <1>1, <1>2, RankNext, RankType
<1>4. Len(u) = Rank(s, c) /\ \A k \in 1 .. Len(u) : u[k] = Units(s)[k]
  BY DEF SentUpTo
<1>5. n \in Seq(Byte)
  BY UnitLen
<1> DEFINE B == Seq(Byte)
<1>6. u \in Seq(B) /\ n \in B
  BY <1>5
<1>7. n = Units(s)[Len(u) + 1]
  BY <1>4
<1> HIDE DEF B, n
<1>8. /\ Len(v) = Len(u) + 1 /\ v[Len(u) + 1] = n
      /\ \A k \in 1 .. Len(u) : v[k] = u[k]
  BY <1>6
<1> HIDE DEF v
<1>9. \A k \in 1 .. Len(v) : v[k] = Units(s)[k]
  <2> TAKE k \in 1 .. Len(v)
  <2>1. k \in 1 .. Len(u) \/ k = Len(u) + 1
    BY <1>3, <1>4, <1>8
  <2> QED BY <1>4, <1>7, <1>8, <2>1
<1> QED BY <1>3, <1>4, <1>8, <1>9 DEF SentUpTo, v, n

-----------------------------------------------------------------------------
(* The scan keeps in step with the stream.                                 *)

(* The offsets Base and Seen, and the texts that begin there.              *)
LEMMA BaseTypes ==
  ASSUME TypeOK, DrainInv, ScanInv, clean, ~spoilt, pos > 0, pc # "abort"
  PROVE  /\ Base \in Nat /\ Base <= pos /\ cache = From(Prefix, Base)
         /\ Seen \in Nat /\ Seen \in 0 .. pos /\ Base + Len(cache) = pos
         /\ pc = "scan" => Seen = Base + startPos /\ Rest = From(Prefix, Seen)
         /\ pc # "scan" => Seen = Base /\ cache = From(Prefix, Seen)
<1>1. /\ pos \in Nat /\ Len(cache) \in Nat /\ Len(cache) <= pos /\ startPos \in Nat
      /\ cache = From(Prefix, Base) /\ Prefix \in Seq(Byte) /\ Len(Prefix) = pos
  BY StateTypes, PrefixIs DEF ScanInv
<1>2. Base \in Nat /\ Base <= pos /\ Base + Len(cache) = pos
  BY <1>1 DEF Base
<1>3. pc = "scan" => startPos <= Len(cache)
  BY DEF DrainInv
<1>4. CASE pc = "scan"
  <2>1. Seen = Base + startPos /\ Seen \in Nat /\ Seen \in 0 .. pos
    BY <1>1, <1>2, <1>3, <1>4 DEF Seen
  <2>2. Base + startPos <= Len(Prefix)
    BY <1>1, <1>2, <1>3, <1>4
  <2>3. From(From(Prefix, Base), startPos) = From(Prefix, Base + startPos)
    BY <1>1, <1>2, <2>2, FromFrom
  <2>4. Rest = From(From(Prefix, Base), startPos)
    BY <1>1 DEF Rest
  <2> QED BY <1>1, <1>2, <1>4, <2>1, <2>3, <2>4
<1>5. CASE pc # "scan"
  BY <1>1, <1>2, <1>5 DEF Seen
<1> QED BY <1>4, <1>5

(* At a start code the framer is in step.                                  *)
LEMMA InStepAtCode ==
  ASSUME TypeOK, DrainInv, ScanInv, clean, ~spoilt, pos > 0, pc = "scan",
         BeginsWithCode(Rest)
  PROVE  BeginsWithCode(Prefix) /\ \E c \in Codes(Prefix) : InStep(c)
<1>1. Prefix \in Seq(Byte) /\ Rest = Rest
  BY PrefixIs
<1>2. ASSUME ~BeginsWithCode(Prefix) PROVE FALSE
  <2>1. cache = Prefix /\ startPos = 0
    BY <1>2 DEF ScanInv
  <2>2. Rest = Prefix
    BY <1>1, <2>1, FromZero DEF Rest
  <2> QED BY <1>2, <2>2
<1> QED BY <1>2 DEF ScanInv

(* The first piece.                                                        *)
LEMMA FeedFirst ==
  ASSUME TypeOK, Feed, pos = 0, cache = <<>>
  PROVE  ScanInv'
<1>1. /\ ReadPiece /\ pc' = "scan" /\ startPos' = 0
  BY DEF Feed
<1>2. /\ pos' = pos + NRead /\ NRead \in Nat /\ NRead <= chunk /\ pos' \in Nat
      /\ UNCHANGED chunk /\ sent' = <<>> /\ Prefix' \in Seq(Byte) /\ Len(Prefix') = pos'
  BY <1>1, ReadIs
<1>3. cache' = Prefix' /\ Len(cache') = pos'
  BY <1>2, FeedIs
<1>4. Base' = 0 /\ Seen' = 0
  BY <1>1, <1>2, <1>3 DEF Base, Seen
<1>5. cache' = From(Prefix', 0)
  BY <1>2, <1>3, FromZero
<1>6. ASSUME BeginsWithCode(Prefix') PROVE \E c \in Codes(Prefix') : InStep(c)'
  <2> DEFINE s == Prefix'
  <2>1. s \in Seq(Byte)
    BY <1>2
  <2>2. BeginsWithCode(s)
    BY <1>6
  <2>3. PICK c : CodeAt(s, 0, c)
    BY <2>1, <2>2, CodeAtStart
  <2>4. SentUpTo(s, c, <<>>) /\ c \in Codes(s)
    BY <2>1, <2>3, SentNone, CodeAtFirst
  <2>5. \A d \in Later(s, c) : d \in Nat
    BY <2>1, CodesAre DEF Later
  <2> HIDE DEF s
  <2>6. \A d \in Later(s, c) : d + chunk + 4 > pos'
    BY <1>2, <2>5, StateTypes
  <2>7. InStep(c)'
    BY <1>1, <1>2, <1>4, <2>3, <2>4, <2>6 DEF InStep, s
  <2> QED BY <2>4, <2>7 DEF s
<1> QED BY <1>1, <1>2, <1>3, <1>4, <1>5, <1>6 DEF ScanInv

(* A later piece.                                                          *)
LEMMA FeedMore ==
  ASSUME TypeOK, DrainInv, ScanInv, Feed, pos > 0, clean, ~spoilt
  PROVE  ScanInv'
<1>1. /\ ReadPiece /\ pc = "read" /\ pc' = "scan" /\ startPos' = 0
  BY ReadIs DEF Feed
<1>2. /\ pos' = pos + NRead /\ NRead \in Nat /\ NRead <= chunk /\ pos' \in Nat
      /\ pos \in Nat /\ chunk \in Nat
      /\ UNCHANGED <<file, chunk>> /\ sent' = sent /\ Prefix' \in Seq(Byte)
      /\ Len(Prefix') = pos' /\ Begins(Prefix, Prefix') /\ Prefix \in Seq(Byte)
      /\ Len(Prefix) = pos
  <2>1. sent' = sent
    BY <1>1, ReadIs, StateTypes
  <2> QED BY <1>1, <2>1, ReadIs, StateTypes, PrefixIs
<1>3. /\ Base \in Nat /\ Base <= pos /\ cache = From(Prefix, Base) /\ Base + Len(cache) = pos
      /\ Seen = Base /\ Len(cache) \in Nat
  BY <1>1, BaseTypes, StateTypes
<1>4. cache' = From(Prefix', Base) /\ Len(cache') = Len(cache) + NRead
      /\ (cache = Prefix => cache' = Prefix')
  BY <1>3, FeedIs
<1>5. Base' = Base /\ Seen' = Base /\ Len(cache') <= pos'
  <2>1. Base' = pos' - Len(cache') /\ Len(cache') \in Nat
    BY <1>2, <1>3, <1>4 DEF Base
  <2>2. Base' = Base /\ Len(cache') <= pos'
    BY <1>2, <1>3, <1>4, <2>1
  <2>3. Seen' = Base'
    BY <1>1, <1>3, <2>2 DEF Seen
  <2> QED BY <2>2, <2>3
<1>6. ASSUME ~BeginsWithCode(Prefix') PROVE sent' = <<>> /\ cache' = Prefix'
  <2>1. ~BeginsWithCode(Prefix)
    BY <1>2, <1>6, BeginsStart
  <2> QED BY <1>1, <1>2, <1>4, <2>1 DEF ScanInv
<1> DEFINE s == Prefix
           t == Prefix'
<1>7. s \in Seq(Byte) /\ t \in Seq(Byte) /\ Begins(s, t) /\ Len(s) = pos
  BY <1>2
<1>8. ASSUME NEW c \in Codes(t), CodeAt(t, Base, c), SentUpTo(t, c, sent),
             \A d \in Later(t, c) : d + chunk + 4 > pos'
      PROVE  InStep(c)'
  BY <1>1, <1>2, <1>5, <1>8 DEF InStep
<1>9. ASSUME BeginsWithCode(t), ~BeginsWithCode(s) PROVE \E c \in Codes(t) : InStep(c)'
  <2>1. sent = <<>> /\ cache = Prefix
    BY <1>1, <1>9 DEF ScanInv
  <2>2. Base = 0
    BY <1>2, <2>1 DEF Base
  <2> HIDE DEF s, t
  <2>3. PICK c : CodeAt(t, 0, c)
    BY <1>7, <1>9, CodeAtStart
  <2>4. SentUpTo(t, c, sent) /\ c \in Codes(t) /\ c \in Nat
    BY <1>7, <2>1, <2>3, SentNone, CodeAtFirst
  <2>5. pos <= 4
    BY <1>7, <1>9, BeginsStart
  <2>6. \A d \in Later(t, c) : d + chunk + 4 > pos'
    <3> TAKE d \in Later(t, c)
    <3>1. d \in Nat /\ d \in Codes(t) /\ d > c
      BY <1>7, CodesAre DEF Later
    <3>2. c + 3 <= d
      BY <1>7, <2>4, <3>1, CodesApart
    <3> QED BY <1>2, <2>4, <2>5, <3>1, <3>2
  <2> QED BY <1>8, <2>2, <2>3, <2>4, <2>6
<1>10. ASSUME BeginsWithCode(s) PROVE \E c \in Codes(t) : InStep(c)'
  <2>1. PICK c \in Codes(s) : InStep(c)
    BY <1>1, <1>10 DEF ScanInv
  <2>2. CodeAt(s, Base, c) /\ SentUpTo(s, c, sent) /\ Later(s, c) = {}
    BY <1>1, <1>3, <2>1 DEF InStep
  <2> HIDE DEF s, t
  <2>3. CodeAt(t, Base, c) /\ c \in Codes(t)
    BY <1>3, <1>7, <2>1, <2>2, BeginsStart, BeginsUnits
  <2>4. SentUpTo(t, c, sent)
    BY <1>7, <2>1, <2>2, SentGrows
  <2>5. \A d \in Later(t, c) : d + chunk + 4 > pos'
    <3> TAKE d \in Later(t, c)
    <3>1. d \in Nat /\ d \in Codes(t) /\ d > c
      BY <1>7, CodesAre DEF Later
    <3>2. d \notin Codes(s)
      BY <2>2, <3>1 DEF Later
    <3>3. d + 4 > pos
      BY <1>7, <1>2, <3>1, <3>2, BeginsCodes
    <3> QED BY <1>2, <3>1, <3>3
  <2> QED BY <1>8, <2>3, <2>4, <2>5
<1>11. BeginsWithCode(t) => \E c \in Codes(t) : InStep(c)'
  BY <1>9, <1>10
<1> QED BY <1>1, <1>4, <1>5, <1>6, <1>11 DEF ScanInv

(* A unit is sent.                                                         *)
LEMMA NaluInStep ==
  ASSUME TypeOK, DrainInv, ScanInv, ScanNalu, clean, ~spoilt, NEW c \in Codes(Prefix),
         InStep(c), BeginsWithCode(Prefix)
  PROVE  /\ NaluNow = Units(Prefix)[Rank(Prefix, c) + 1]
         /\ pc' = "scan" => ScanInv'
<1> DEFINE s == Prefix
           e == UnitEnd(s, c)
           n == Units(s)[Rank(s, c) + 1]
<1>1. pc = "scan" /\ pos > 0 /\ startPos <= Len(cache)
  BY DEF ScanNalu, AtCode, DrainInv
<1>2. /\ UNCHANGED <<file, chunk, size>> /\ UNCHANGED <<pos, cache, clean, spoilt>>
      /\ NextCode # -1 /\ startPos' = startPos + (StartCodeLen(Rest) + NextCode)
      /\ (pc' = "scan" => sent' = Append(sent, NaluNow))
  BY <1>1, ScanNaluIs
<1>3. /\ s \in Seq(Byte) /\ Len(s) = pos /\ pos \in Nat /\ startPos \in Nat /\ chunk \in Nat
      /\ Begins(s, file) /\ file \in Seq(Byte) /\ sent \in Seq(Seq(Byte))
  BY StateTypes, PrefixIs
<1>4. /\ Seen = Base + startPos /\ Rest = From(s, Seen) /\ Seen \in 0 .. Len(s) /\ Seen \in Nat
      /\ Base \in Nat
  BY <1>1, <1>3, BaseTypes
<1>5. /\ CodeAt(s, Seen, c) /\ SentUpTo(s, c, sent) /\ c \in Codes(s)
      /\ \A d \in Later(s, c) : d + chunk + 4 > pos
  BY <1>1 DEF InStep
<1>6. s' = s
  BY <1>2 DEF Prefix
<1>7. From(s, Base) = cache /\ Len(cache) <= pos
  BY <1>1 DEF ScanInv
<1> HIDE DEF s
<1>8. LET r == From(s, Seen)
          code == StartCodeLen(r)
          next == FindStartCode(From(r, code))
      IN /\ next # -1 =>
              /\ code + next \in Nat
              /\ Seen + (code + next) = e /\ e <= Len(s)
              /\ SubSeq(r, code + 1, code + next) = n
              /\ Len(n) = e - (c + 3)
              /\ \E j \in Later(s, c) : CodeAt(s, e, j) /\ \A d \in Later(s, c) : j <= d
  BY <1>3, <1>4, <1>5, ScanIs
<1> DEFINE step == StartCodeLen(Rest) + NextCode
<1>9. /\ step \in Nat /\ Seen + step = e /\ e <= Len(s) /\ NaluNow = n /\ Len(n) = e - (c + 3)
      /\ \E j \in Later(s, c) : CodeAt(s, e, j) /\ \A d \in Later(s, c) : j <= d
  BY <1>2, <1>4, <1>8 DEF NextCode, NaluNow
<1>10. PICK j \in Later(s, c) : CodeAt(s, e, j) /\ \A d \in Later(s, c) : j <= d
  BY <1>9
<1>11. startPos' = startPos + step
  BY <1>2
<1>12. /\ e \in Nat /\ c + 3 <= e /\ c \in Nat /\ c \in {Seen, Seen + 1}
  BY <1>3, <1>4, <1>5, UnitEnds, CodeAtFirst
<1>13. /\ j \in Codes(s) /\ j \in Nat /\ j > c /\ j \in {e, e + 1} /\ j + chunk + 4 > pos
  <2>1. j \in Codes(s) /\ j > c
    BY <1>10 DEF Later
  <2>2. j \in {e, e + 1}
    BY <1>10 DEF CodeAt
  <2>3. j \in Nat
    BY <1>12, <2>2
  <2> QED BY <1>5, <1>10, <2>1, <2>2, <2>3
<1> HIDE DEF step, e
<1>14. ASSUME pc' = "scan" PROVE ScanInv'
  <2>1. Base' = Base /\ Seen' = e
    <3>1. Base' = Base
      BY <1>2 DEF Base
    <3>2. Seen' = Base + startPos'
      BY <1>14, <3>1 DEF Seen
    <3> QED BY <1>3, <1>4, <1>9, <1>11, <3>1, <3>2
  <2>2. SentUpTo(s, j, sent')
    <3>1. sent' = Append(sent, n)
      BY <1>2, <1>9, <1>14
    <3>2. SentUpTo(s, j, Append(sent, n))
      BY <1>3, <1>5, <1>10, SentNext
    <3> QED BY <3>1, <3>2
  <2>3. \A d \in Later(s, j) : d + chunk + 4 > pos
    <3> TAKE d \in Later(s, j)
    <3>1. d \in Codes(s) /\ d > j /\ d \in Nat
      BY <1>3, CodesAre DEF Later
    <3>2. d \in Later(s, c)
      BY <1>12, <1>13, <3>1 DEF Later
    <3> QED BY <1>5, <3>2
  <2>4. e + chunk + 4 >= pos
    BY <1>3, <1>12, <1>13
  <2>5. \E k \in DOMAIN Units(file) : Len(Units(file)[k]) + 3 <= startPos'
    <3>1. Later(s, c) # {}
      BY <1>10
    <3>2. /\ c \in Codes(file) /\ Rank(file, c) = Rank(s, c)
          /\ Units(file)[Rank(s, c) + 1] = n
      BY <1>3, <1>5, <3>1, BeginsUnits
    <3>3. Rank(s, c) + 1 \in DOMAIN Units(file)
      BY <1>3, <3>2, UnitAt
    <3>4. Len(n) + 3 <= startPos'
      <4> HIDE DEF n
      <4> QED BY <1>3, <1>4, <1>9, <1>11, <1>12
    <3> QED BY <3>2, <3>3, <3>4
  <2> HIDE DEF n
  <2>6. InStep(j)'
    <3>1. /\ CodeAt(s, e, j)
      BY <1>10
    <3> QED BY <1>2, <1>6, <1>14, <2>1, <2>2, <2>3, <2>4, <2>5, <3>1 DEF InStep, s
  <2>7. BeginsWithCode(Prefix')
    BY <1>6 DEF s
  <2>8. cache' = From(Prefix', Base') /\ Len(cache') <= pos'
    BY <1>2, <1>6, <1>7, <2>1 DEF s
  <2>9. j \in Codes(Prefix')
    BY <1>6, <1>13 DEF s
  <2> QED BY <2>6, <2>7, <2>8, <2>9 DEF ScanInv
<1> QED BY <1>9, <1>14 DEF n, s

(* What is left stays in the cache.                                        *)
LEMMA RestKept ==
  ASSUME TypeOK, DrainInv, ScanInv, ScanRest, clean, ~spoilt, ~spoilt'
  PROVE  ScanInv'
<1>1. pc = "scan" /\ pos > 0 /\ startPos <= Len(cache)
  BY DEF ScanRest, AtCode, DrainInv
<1>2. /\ pc' = "read" /\ BeginsWithCode(Rest) /\ NextCode = -1
      /\ UNCHANGED <<file, chunk, size>> /\ UNCHANGED <<pos, startPos, sent, clean>>
      /\ cache' = Rest /\ Len(cache') = Len(cache) - startPos
  BY <1>1, ScanRestIs
<1>3. BeginsWithCode(Prefix) /\ \E c \in Codes(Prefix) : InStep(c)
  BY <1>1, <1>2, InStepAtCode
<1>4. PICK c \in Codes(Prefix) : InStep(c)
  BY <1>3
<1>5. Prefix \in Seq(Byte) /\ Len(Prefix) = pos /\ pos \in Nat /\ startPos \in Nat
      /\ Len(cache) \in Nat
  BY StateTypes, PrefixIs
<1>6. /\ Seen = Base + startPos /\ Rest = From(Prefix, Seen) /\ Seen \in 0 .. Len(Prefix)
      /\ Base + Len(cache) = pos /\ Base \in Nat
  BY <1>1, <1>5, BaseTypes
<1>7. CodeAt(Prefix, Seen, c) /\ SentUpTo(Prefix, c, sent)
  BY <1>4 DEF InStep
<1>8. Later(Prefix, c) = {}
  <2>1. LET r == From(Prefix, Seen)
        IN FindStartCode(From(r, StartCodeLen(r))) = -1 <=> Later(Prefix, c) = {}
    BY <1>5, <1>6, <1>7, ScanIs
  <2> QED BY <1>2, <1>6, <2>1 DEF NextCode
<1>9. Prefix' = Prefix
  BY <1>2 DEF Prefix
<1>10. Base' = Seen /\ Seen' = Seen /\ Len(cache') <= pos'
  <2>1. Base' = pos - Len(cache')
    BY <1>2 DEF Base
  <2>2. Base' = Seen /\ Len(cache') <= pos
    BY <1>2, <1>5, <1>6, <2>1
  <2>3. Seen' = Base'
    BY <1>2 DEF Seen
  <2> QED BY <1>2, <2>2, <2>3
<1>11. InStep(c)'
  BY <1>2, <1>7, <1>8, <1>9, <1>10 DEF InStep
<1> QED BY <1>2, <1>3, <1>4, <1>6, <1>9, <1>10, <1>11 DEF ScanInv

(* Every step keeps the framer in step with the stream: pieces are         *)
(* appended, each round of the scan goes on to the next start code, and    *)
(* the slide drops just what was sent.                                     *)
LEMMA ScanKept ==
  ASSUME TypeOK, DrainInv, ScanInv, [Next]_vars
  PROVE  ScanInv'
<1> SUFFICES ASSUME clean', ~spoilt', pos' > 0, pc' # "abort" PROVE ScanInv'
  BY DEF ScanInv
<1>1. CASE Feed
  <2>1. /\ ReadPiece /\ clean' = IF pos = 0 THEN cache = <<>> ELSE clean
    BY <1>1 DEF Feed
  <2>2. ~spoilt /\ pos \in Nat
    BY <2>1, ReadIs, StateTypes
  <2>3. CASE pos = 0
    BY <1>1, <2>1, <2>3, FeedFirst
  <2>4. CASE pos > 0
    <3>1. clean' = clean
      <4>1. pos # 0
        BY <2>2, <2>4
      <4> QED BY <2>1, <4>1
    <3>2. clean
      BY <3>1
    <3> QED BY <1>1, <2>2, <2>4, <3>2, FeedMore
  <2> QED BY <2>2, <2>3, <2>4
<1>2. CASE Refuse
  BY <1>2 DEF Refuse
<1>3. CASE ScanNalu
  <2>1. pc = "scan" /\ pos > 0 /\ startPos <= Len(cache)
    BY <1>3 DEF ScanNalu, AtCode, DrainInv
  <2>2. clean /\ ~spoilt /\ BeginsWithCode(Rest) /\ pc' \in {"scan", "abort"}
    <3>1. /\ clean' = clean /\ spoilt' = spoilt /\ BeginsWithCode(Rest)
          /\ pc' \in {"scan", "abort"}
      BY <1>3, <2>1, ScanNaluIs
    <3> QED BY <3>1
  <2>3. PICK c \in Codes(Prefix) : InStep(c) /\ BeginsWithCode(Prefix)
    BY <2>1, <2>2, InStepAtCode
  <2> QED BY <1>3, <2>2, <2>3, NaluInStep
<1>4. CASE ScanRest
  <2>1. pc = "scan" /\ startPos <= Len(cache)
    BY <1>4 DEF ScanRest, AtCode, DrainInv
  <2>2. clean /\ ~spoilt
    <3>1. clean' = clean /\ (spoilt' = spoilt \/ spoilt' = TRUE)
      BY <1>4, <2>1, ScanRestIs
    <3> QED BY <3>1
  <2> QED BY <1>4, <2>2, RestKept
<1>5. CASE ScanStops
  <2>1. /\ pc = "scan" /\ pc' = "read" /\ UNCHANGED <<file, chunk>>
        /\ UNCHANGED <<pos, cache, startPos, sent, clean, spoilt>>
        /\ startPos < Len(cache) => FindStartCode(Rest) # 0
    BY <1>5 DEF ScanStops, input
  <2>2. startPos <= Len(cache)
    BY <2>1 DEF DrainInv
  <2>3. ~BeginsWithCode(Rest)
    BY <2>1, <2>2, RestIs
  <2>4. clean /\ ~spoilt /\ pos > 0
    BY <2>1
  <2>5. ~BeginsWithCode(Prefix)
    <3> SUFFICES ASSUME BeginsWithCode(Prefix) PROVE FALSE
      OBVIOUS
    <3>1. PICK c \in Codes(Prefix) : InStep(c)
      BY <2>1, <2>4 DEF ScanInv
    <3>2. CodeAt(Prefix, Seen, c)
      BY <3>1 DEF InStep
    <3>3. Seen \in 0 .. Len(Prefix) /\ Rest = From(Prefix, Seen) /\ Prefix \in Seq(Byte)
      BY <2>1, <2>4, BaseTypes, PrefixIs
    <3>4. BeginsWithCode(From(Prefix, Seen))
      BY <3>2, <3>3, RestAt
    <3> QED BY <2>3, <3>3, <3>4
  <2>6. Prefix' = Prefix /\ Base' = Base
    BY <2>1 DEF Prefix, Base
  <2>7. sent = <<>> /\ cache = Prefix /\ Len(cache) <= pos /\ cache = From(Prefix, Base)
    BY <2>1, <2>4, <2>5 DEF ScanInv
  <2> QED BY <2>1, <2>5, <2>6, <2>7 DEF ScanInv
<1>6. CASE Flush
  BY <1>6, FlushIsDone
<1>7. CASE UNCHANGED vars
  <2>1. UNCHANGED <<file, chunk, pos, cache, pc, startPos, sent, clean, spoilt>>
    BY <1>7 DEF vars, input
  <2>2. Prefix' = Prefix /\ Base' = Base /\ Seen' = Seen
    BY <2>1 DEF Prefix, Base, Seen
  <2>3. \A c : InStep(c)' <=> InStep(c)
    BY <2>1, <2>2 DEF InStep
  <2>4. Codes(Prefix') = Codes(Prefix) /\ BeginsWithCode(Prefix') = BeginsWithCode(Prefix)
    BY <2>2
  <2> QED BY <2>1, <2>2, <2>3, <2>4 DEF ScanInv
<1> QED BY <1>1, <1>2, <1>3, <1>4, <1>5, <1>6, <1>7 DEF Next, Aborted

(* The units are a function.                                               *)
LEMMA UnitsFun ==
  ASSUME NEW s
  PROVE  /\ DOMAIN Units(s) = 1 .. Cardinality(Codes(s))
         /\ Units(s) = [k \in 1 .. Cardinality(Codes(s)) |-> Units(s)[k]]
<1> DEFINE N == Cardinality(Codes(s))
           G(k) == LET i == CHOOSE c \in Codes(s) :
                              Cardinality({d \in Codes(s) : d < c}) = k - 1
                   IN SubSeq(s, i + 4, UnitEnd(s, i))
           U == Units(s)
<1>1. U = [k \in 1 .. N |-> G(k)]
  BY DEF Units
<1> HIDE DEF G, U, N
<1>2. DOMAIN U = 1 .. N /\ U = [k \in 1 .. N |-> U[k]]
  BY <1>1
<1> QED BY <1>2 DEF U, N

-----------------------------------------------------------------------------
(* The properties.                                                         *)

(* At the end of the file the last unit is sent.                           *)
LEMMA PassKept ==
  ASSUME TypeOK, DrainInv, ScanInv, PassSendsAllUnits, [Next]_vars
  PROVE  PassSendsAllUnits'
<1>1. pc = "scan" => pos > 0
  BY DEF DrainInv
<1>2. pos \in Nat
  BY StateTypes
<1>3. CASE Feed \/ Refuse
  <2>1. ReadPiece
    BY <1>3 DEF Feed, Refuse
  <2>2. pos' \in Nat /\ pos' = pos + NRead /\ NRead \in Nat /\ NRead > 0
    BY <2>1, ReadIs
  <2>3. pos' # 0
    BY <1>2, <2>2
  <2> QED BY <2>3 DEF PassSendsAllUnits
<1>4. CASE ScanNalu \/ ScanRest \/ ScanStops
  <2>1. pc = "scan" /\ pos' = pos
    BY <1>4 DEF ScanNalu, ScanRest, ScanStops, AtCode
  <2>2. pos' # 0
    BY <1>1, <1>2, <2>1
  <2> QED BY <2>2 DEF PassSendsAllUnits
<1>5. CASE Flush
  <2>1. /\ pc = "read" /\ pos = Len(file) /\ UNCHANGED <<file, clean, spoilt>>
        /\ \/ /\ BeginsWithCode(cache) /\ From(cache, StartCodeLen(cache)) \in Seq(Byte)
              /\ sent' = Append(sent, From(cache, StartCodeLen(cache)))
           \/ ~BeginsWithCode(cache) /\ sent' = sent
    BY <1>5, FlushIsDone
  <2> SUFFICES ASSUME clean, ~spoilt, BeginsWithCode(file) PROVE sent' = Units(file)
    BY <2>1 DEF PassSendsAllUnits
  <2> DEFINE s == file
  <2>2. s \in Seq(Byte) /\ Len(s) = pos /\ sent \in Seq(Seq(Byte))
    BY <2>1, StateTypes
  <2>3. Prefix = s
    BY <2>1, <2>2 DEF Prefix
  <2>4. pos > 0
    <3>1. PICK c : CodeAt(s, 0, c)
      BY <2>2, CodeAtStart
    <3>2. c \in Codes(s) /\ c \in Nat
      BY <2>2, <3>1, CodeAtFirst
    <3>3. c + 4 <= Len(s)
      BY <2>2, <3>2, CodesAre
    <3> QED BY <1>2, <2>2, <3>2, <3>3
  <2>5. PICK c \in Codes(s) : InStep(c)
    BY <2>1, <2>3, <2>4 DEF ScanInv
  <2>6. /\ Seen \in 0 .. Len(s) /\ cache = From(s, Seen) /\ CodeAt(s, Seen, c)
        /\ SentUpTo(s, c, sent) /\ Later(s, c) = {}
    BY <2>1, <2>2, <2>3, <2>4, <2>5, BaseTypes DEF InStep
  <2> HIDE DEF s
  <2>7. BeginsWithCode(cache)
    BY <2>2, <2>6, RestAt
  <2> DEFINE n == From(cache, StartCodeLen(cache))
             U == Units(s)
  <2>8. n = U[Rank(s, c) + 1]
    BY <2>2, <2>6, FlushIs
  <2>9. n \in Seq(Byte) /\ sent' = Append(sent, n)
    BY <2>1, <2>7
  <2>10. Len(sent) = Rank(s, c) /\ \A k \in 1 .. Len(sent) : sent[k] = U[k]
    BY <2>6 DEF SentUpTo
  <2>11. DOMAIN U = 1 .. Cardinality(Codes(s)) /\ Cardinality(Codes(s)) = Rank(s, c) + 1
    <3>1. \A d \in Codes(s) : d <= c
      BY <2>2, <2>5, <2>6, CodesAre DEF Later, s
    <3> QED BY <2>2, <2>5, <3>1, UnitAt, RankLast DEF s
  <2>12. U = [k \in DOMAIN U |-> U[k]]
    BY UnitsFun
  <2> DEFINE B == Seq(Byte)
  <2>13. sent \in Seq(B) /\ n \in B
    BY <2>2, <2>9
  <2> HIDE DEF B, n, U
  <2>14. /\ sent' \in Seq(B) /\ Len(sent') = Len(sent) + 1 /\ sent'[Len(sent) + 1] = n
         /\ \A k \in 1 .. Len(sent) : sent'[k] = sent[k]
    BY <2>9, <2>13
  <2>15. sent' = [k \in 1 .. Len(sent') |-> sent'[k]]
    BY <2>14
  <2>16. 1 .. Len(sent') = DOMAIN U
    BY <2>10, <2>11, <2>14
  <2>17. \A k \in DOMAIN U : sent'[k] = U[k]
    <3> TAKE k \in DOMAIN U
    <3>1. k \in 1 .. Len(sent) \/ k = Len(sent) + 1
      BY <2>10, <2>11, <2>13
    <3> QED BY <2>8, <2>10, <2>14, <3>1
  <2>18. sent' = U
    BY <2>12, <2>15, <2>16, <2>17
  <2> QED BY <2>18 DEF U, s
<1>6. CASE UNCHANGED vars
  BY <1>6 DEF vars, input, PassSendsAllUnits
<1> QED BY <1>3, <1>4, <1>5, <1>6 DEF Next, Aborted

(* The assertion fails only on an empty unit.                              *)
LEMMA AbortKept ==
  ASSUME TypeOK, DrainInv, ScanInv, AbortsOnEmptyUnit, [Next]_vars
  PROVE  AbortsOnEmptyUnit'
<1>1. CASE Feed \/ Refuse
  <2>1. pc = "read" /\ pc' \in {"read", "scan"}
    BY <1>1, ReadIs DEF Feed, Refuse
  <2> QED BY <2>1 DEF AbortsOnEmptyUnit
<1>2. CASE ScanNalu
  <2>1. pc = "scan" /\ pos > 0 /\ startPos <= Len(cache)
    BY <1>2 DEF ScanNalu, AtCode, DrainInv
  <2>2. /\ clean' = clean /\ spoilt' = spoilt /\ BeginsWithCode(Rest)
        /\ UNCHANGED <<file, pos>>
        /\ (pc' = "abort" => NaluNow = <<>>)
    BY <1>2, <2>1, ScanNaluIs
  <2> SUFFICES ASSUME pc' = "abort", clean', ~spoilt'
               PROVE  \E k \in DOMAIN Units(Prefix') : Units(Prefix')[k] = <<>>
    BY DEF AbortsOnEmptyUnit
  <2>3. clean /\ ~spoilt
    BY <2>2
  <2>4. PICK c \in Codes(Prefix) : InStep(c) /\ BeginsWithCode(Prefix)
    BY <2>1, <2>2, <2>3, InStepAtCode
  <2>5. Units(Prefix)[Rank(Prefix, c) + 1] = <<>>
    BY <1>2, <2>2, <2>3, <2>4, NaluInStep
  <2>6. Rank(Prefix, c) + 1 \in DOMAIN Units(Prefix)
    BY PrefixIs, UnitAt
  <2>7. Prefix' = Prefix
    BY <2>2 DEF Prefix
  <2> QED BY <2>5, <2>6, <2>7
<1>3. CASE ScanRest \/ ScanStops
  BY <1>3 DEF ScanRest, ScanStops, AbortsOnEmptyUnit
<1>4. CASE Flush
  BY <1>4, FlushIsDone DEF AbortsOnEmptyUnit
<1>5. CASE UNCHANGED vars
  <2>1. UNCHANGED <<pc, clean, spoilt>> /\ Prefix' = Prefix
    BY <1>5 DEF vars, input, Prefix
  <2> QED BY <2>1 DEF AbortsOnEmptyUnit
<1> QED BY <1>1, <1>2, <1>3, <1>4, <1>5 DEF Next, Aborted

(* What is kept in the cache is no longer than a unit and a little more.   *)
LEMMA KeptIsShort ==
  ASSUME TypeOK, DrainInv, ScanInv, clean, ~spoilt, pos > 0, pc = "read",
         BeginsWithCode(file)
  PROVE  Longest \in Nat /\ Len(cache) <= Longest + 8
<1>1. /\ file \in Seq(Byte) /\ Prefix \in Seq(Byte) /\ Len(Prefix) = pos /\ pos \in Nat
      /\ Begins(Prefix, file) /\ Len(cache) \in Nat /\ pos <= Len(file)
      /\ Len(file) \in Nat
  BY StateTypes, PrefixIs
<1>2. CASE ~BeginsWithCode(Prefix)
  <2>1. pos <= 4
    BY <1>1, <1>2, BeginsStart
  <2>2. cache = Prefix
    BY <1>2 DEF ScanInv
  <2>3. PICK c : CodeAt(file, 0, c)
    BY <1>1, CodeAtStart
  <2>4. c \in Codes(file)
    BY <1>1, <2>3, CodeAtFirst
  <2>5. Longest \in Nat
    BY <1>1, <2>4, LongestIs
  <2> QED BY <1>1, <2>1, <2>2, <2>5
<1>3. CASE BeginsWithCode(Prefix)
  <2>1. PICK c \in Codes(Prefix) : InStep(c)
    BY <1>3 DEF ScanInv
  <2>2. CodeAt(Prefix, Seen, c) /\ Later(Prefix, c) = {}
    BY <2>1 DEF InStep
  <2>3. Seen = Base /\ Seen \in Nat /\ Base + Len(cache) = pos
    BY BaseTypes
  <2>4. c \in Nat /\ c <= Base + 1
    BY <1>1, <2>2, <2>3, CodeAtFirst
  <2>5. c \in Codes(file)
    BY <1>1, BeginsUnits
  <2> DEFINE e == UnitEnd(file, c)
  <2>6. e \in Nat /\ Longest \in Nat /\ e - (c + 3) <= Longest
    BY <1>1, <2>5, LongestIs, UnitEnds
  <2>7. e + 4 >= pos
    <3>1. CASE Later(file, c) = {}
      BY <1>1, <2>5, <3>1, UnitEnds
    <3>2. CASE Later(file, c) # {}
      <4>1. Later(file, c) \in SUBSET Nat
        BY <1>1, CodesAre DEF Later
      <4>2. PICK j \in Later(file, c) : \A d \in Later(file, c) : j <= d
        BY <3>2, <4>1, LeastInSet
      <4>3. j \in Nat /\ j \in Codes(file) /\ j > c /\ j \notin Codes(Prefix)
        BY <2>2, <4>1, <4>2 DEF Later
      <4>4. j + 4 > pos
        BY <1>1, <4>3, BeginsCodes
      <4>5. e = IF j > c + 3 /\ file[j] = 0 THEN j - 1 ELSE j
        BY <1>1, <2>5, <4>2, UnitEnds
      <4>6. e >= j - 1
        BY <4>3, <4>5
      <4> QED BY <1>1, <2>6, <4>3, <4>4, <4>6
    <3> QED BY <3>1, <3>2
  <2> HIDE DEF e
  <2> QED BY <1>1, <2>3, <2>4, <2>6, <2>7
<1> QED BY <1>2, <1>3

(* Every step keeps NothingRefused: a cache that has no room for a piece   *)
(* holds a unit longer than size - chunk - 8.                              *)
LEMMA RefusedKept ==
  ASSUME TypeOK, DrainInv, ScanInv, NothingRefused, [Next]_vars
  PROVE  NothingRefused'
<1>1. pos \in Nat /\ clean \in BOOLEAN /\ spoilt \in BOOLEAN
  BY StateTypes DEF TypeOK
<1>2. UNCHANGED file => Longest' = Longest
  BY DEF Longest
<1>3. CASE Feed
  <2>1. ReadPiece /\ clean' = IF pos = 0 THEN cache = <<>> ELSE clean
    BY <1>3 DEF Feed
  <2>2. UNCHANGED <<file, chunk, size>> /\ spoilt' = spoilt /\ pc = "read"
    BY <2>1, ReadIs
  <2>3. CASE pos = 0
    <3>1. BeginsWithCode(file) => (cache = <<>>) \/ spoilt
      BY <2>2, <2>3 DEF DrainInv
    <3> QED BY <2>1, <2>2, <2>3, <3>1 DEF NothingRefused
  <2>4. CASE pos > 0
    <3>1. clean' = clean
      <4>1. pos # 0
        BY <1>1, <2>4
      <4> QED BY <2>1, <4>1
    <3> QED BY <1>2, <2>2, <2>4, <3>1 DEF NothingRefused
  <2> QED BY <1>1, <2>3, <2>4
<1>4. CASE Refuse
  <2>1. ReadPiece /\ ~HasRoom /\ pc = "read"
    BY <1>4, ReadIs DEF Refuse
  <2>2. /\ UNCHANGED <<file, chunk, size>> /\ spoilt' = spoilt
        /\ NRead \in Nat /\ NRead <= chunk
    BY <2>1, ReadIs
  <2> SUFFICES ASSUME BeginsWithCode(file), size >= Longest + 8 + chunk, ~spoilt
               PROVE  FALSE
    BY <1>2, <2>2 DEF NothingRefused
  <2>3. pos > 0
    BY <1>4, RefusedIsLong
  <2>4. clean
    BY <2>3 DEF NothingRefused
  <2>5. Longest \in Nat /\ Len(cache) <= Longest + 8
    BY <2>1, <2>3, <2>4, KeptIsShort
  <2>6. size - Len(cache) < NRead
    BY <2>1, <2>2, StateTypes DEF HasRoom
  <2> QED BY <2>2, <2>5, <2>6, StateTypes
<1>5. CASE ScanNalu
  <2>1. pc = "scan" /\ startPos <= Len(cache)
    BY <1>5 DEF ScanNalu, AtCode, DrainInv
  <2>2. UNCHANGED <<file, chunk, size>> /\ UNCHANGED <<pos, cache, clean, spoilt>>
    BY <1>5, <2>1, ScanNaluIs
  <2> QED BY <1>2, <2>2 DEF NothingRefused
<1>6. CASE ScanRest
  <2>1. pc = "scan" /\ startPos <= Len(cache)
    BY <1>6 DEF ScanRest, AtCode, DrainInv
  <2>2. /\ UNCHANGED <<file, chunk, size>> /\ UNCHANGED <<pos, startPos, sent, clean>>
        /\ (spoilt' = spoilt \/ spoilt' = TRUE)
    BY <1>6, <2>1, ScanRestIs
  <2> QED BY <1>1, <1>2, <2>2 DEF NothingRefused
<1>7. CASE ScanStops
  <2>1. UNCHANGED <<file, chunk, size>> /\ UNCHANGED <<pos, clean, spoilt>>
    BY <1>7 DEF ScanStops, input
  <2> QED BY <1>2, <2>1 DEF NothingRefused
<1>8. CASE Flush
  <2>1. pos' = 0
    BY <1>8 DEF Flush
  <2> QED BY <2>1 DEF NothingRefused
<1>9. CASE UNCHANGED vars
  <2>1. UNCHANGED <<file, chunk, size>> /\ UNCHANGED <<pos, clean, spoilt>>
    BY <1>9 DEF vars, input
  <2> QED BY <1>2, <2>1 DEF NothingRefused
<1> QED BY <1>3, <1>4, <1>5, <1>6, <1>7, <1>8, <1>9 DEF Next, Aborted

(* Every step keeps OverlapNeedsShortUnit: the areas overlap only if more  *)
(* remains than was consumed; at most one piece and four bytes remain, and *)
(* at least a unit and its start code were consumed.                       *)
LEMMA OverlapKept ==
  ASSUME TypeOK, DrainInv, ScanInv, NothingRefused, OverlapNeedsShortUnit, [Next]_vars
  PROVE  OverlapNeedsShortUnit'
<1>1. UNCHANGED file => Longest' = Longest
  BY DEF Longest
<1>2. ASSUME UNCHANGED <<file, chunk, size>>, spoilt' = spoilt PROVE OverlapNeedsShortUnit'
  BY <1>1, <1>2 DEF OverlapNeedsShortUnit
<1>3. CASE Feed \/ Refuse
  BY <1>2, <1>3, ReadIs DEF Feed, Refuse
<1>4. CASE ScanNalu \/ ScanStops \/ Flush \/ UNCHANGED vars
  <2>1. UNCHANGED <<file, chunk, size>> /\ spoilt' = spoilt
    BY <1>4 DEF ScanNalu, ScanStops, Flush, vars, input
  <2> QED BY <1>2, <2>1
<1>5. CASE ScanRest
  <2>1. pc = "scan" /\ pos > 0 /\ startPos <= Len(cache)
    BY <1>5 DEF ScanRest, AtCode, DrainInv
  <2>2. /\ UNCHANGED <<file, chunk, size>> /\ BeginsWithCode(Rest)
        /\ \/ spoilt' = spoilt
           \/ startPos # 0 /\ Len(cache) - startPos > startPos
    BY <1>5, <2>1, ScanRestIs
  <2>3. CASE spoilt' = spoilt
    BY <1>2, <2>2, <2>3
  <2>4. CASE startPos # 0 /\ Len(cache) - startPos > startPos
    <3> SUFFICES ASSUME BeginsWithCode(file), size >= Longest + 8 + chunk
                 PROVE  \E k \in DOMAIN Units(file) : Len(Units(file)[k]) <= chunk
      BY <1>1, <2>2 DEF OverlapNeedsShortUnit
    <3>1. CASE spoilt
      BY <3>1 DEF OverlapNeedsShortUnit
    <3>2. CASE ~spoilt
      <4>1. clean
        BY <2>1, <3>2 DEF NothingRefused
      <4>2. PICK c \in Codes(Prefix) : InStep(c)
        BY <2>1, <2>2, <3>2, <4>1, InStepAtCode
      <4>3. /\ startPos \in Nat /\ startPos > 0 /\ Len(cache) \in Nat /\ chunk \in Nat
            /\ pos \in Nat /\ file \in Seq(Byte)
        BY <2>4, StateTypes
      <4>4. /\ Seen + chunk + 4 >= pos
            /\ \E k \in DOMAIN Units(file) : Len(Units(file)[k]) + 3 <= startPos
        BY <2>1, <4>2, <4>3 DEF InStep
      <4>5. Seen = Base + startPos /\ Base + Len(cache) = pos /\ Base \in Nat
        BY <2>1, <3>2, <4>1, BaseTypes
      <4>6. startPos < chunk + 4
        BY <2>4, <4>3, <4>4, <4>5
      <4>7. PICK k \in DOMAIN Units(file) : Len(Units(file)[k]) + 3 <= startPos
        BY <4>4
      <4>8. Len(Units(file)[k]) \in Nat
        <5>1. k \in 1 .. Cardinality(Codes(file))
          BY <4>7 DEF Units
        <5>2. PICK d \in Codes(file) : Rank(file, d) = k - 1
          BY <4>3, <5>1, RankOnto
        <5>3. Rank(file, d) + 1 = k
          BY <5>1, <5>2, <4>3, CodesFinite
        <5>4. Units(file)[k] \in Seq(Byte)
          BY <4>3, <5>3, UnitLen
        <5> QED BY <5>4, LenProperties
      <4>9. Len(Units(file)[k]) <= chunk
        BY <4>3, <4>6, <4>7, <4>8
      <4> QED BY <4>7, <4>9
    <3> QED BY <3>1, <3>2
  <2> QED BY <2>2, <2>3, <2>4
<1> QED BY <1>3, <1>4, <1>5 DEF Next, Aborted

-----------------------------------------------------------------------------
(* The inductive invariant.  That the cache is drained does not need the   *)
(* framer to be in step, and holds of passes with refused pieces too; that *)
(* units are sent does.                                                    *)
IInv ==
  /\ TypeOK /\ DrainInv /\ ScanInv
  /\ PassSendsAllUnits /\ NothingRefused /\ AbortsOnEmptyUnit /\ OverlapNeedsShortUnit

(* The invariant holds before the first piece is read.                     *)
LEMMA InitFramed == Init => IInv
<1> SUFFICES ASSUME Init PROVE IInv
  OBVIOUS
<1>1. /\ file \in Seq(Byte) /\ chunk \in ChunkSizes /\ size \in CacheSizes /\ size \in Nat
      /\ pos = 0 /\ cache = <<>> /\ pc = "read" /\ startPos = 0 /\ sent = <<>>
      /\ clean = FALSE /\ spoilt = FALSE
  BY FramerAssumption DEF Init
<1>2. TypeOK
  <2>1. /\ <<>> \in Seq(Byte) /\ Len(<<>>) = 0 /\ <<>> \in Seq(Seq(Byte))
    OBVIOUS
  <2>2. Len(file) \in Nat
    BY <1>1, LenProperties
  <2>3. pos \in 0 .. Len(file) /\ startPos \in 0 .. size /\ Len(cache) <= size
    BY <1>1, <2>1, <2>2
  <2>4. /\ cache \in Seq(Byte) /\ sent \in Seq(Seq(Byte)) /\ pc \in {"read", "scan", "abort"}
        /\ clean \in BOOLEAN /\ spoilt \in BOOLEAN
    BY <1>1, <2>1
  <2> QED BY <1>1, <2>3, <2>4 DEF TypeOK
<1>3. DrainInv /\ ScanInv
  BY <1>1 DEF DrainInv, ScanInv
<1>4. PassSendsAllUnits /\ NothingRefused /\ AbortsOnEmptyUnit /\ OverlapNeedsShortUnit
  BY <1>1 DEF PassSendsAllUnits, NothingRefused, AbortsOnEmptyUnit, OverlapNeedsShortUnit
<1> QED BY <1>2, <1>3, <1>4 DEF IInv

(* IInv is an invariant of the framer, for every set of files, all sizes   *)
(* of pieces and of the cache, and however the start codes lie across the  *)
(* pieces that main hands to ab_rtsp_server_send.                          *)
THEOREM InductiveInvariant == Spec => []IInv
<1>1. ASSUME IInv, [Next]_vars PROVE IInv'
  <2>1. TypeOK'
    BY <1>1, TypesKept DEF IInv, DrainInv
  <2> QED BY <1>1, <2>1, DrainKept, ScanKept, PassKept, AbortKept, RefusedKept, OverlapKept
          DEF IInv
<1> QED BY <1>1, InitFramed, PTL DEF Spec

(* Every variable keeps its type: used never exceeds the size of           *)
(* rtsp->cache, and start_pos never leaves it.                             *)
THEOREM TypeCorrect == Spec => []TypeOK
<1>1. IInv => TypeOK
  BY DEF IInv
<1> QED BY <1>1, InductiveInvariant, PTL

(* A pass over a file that begins with a start code, no piece of which was *)
(* refused and no memcpy of which did damage, ends with every unit of the  *)
(* file sent, in order, once and whole: the last one by the flush at the   *)
(* end of the file.                                                        *)
THEOREM AllUnitsAreSent == Spec => []PassSendsAllUnits
<1>1. IInv => PassSendsAllUnits
  BY DEF IInv
<1> QED BY <1>1, InductiveInvariant, PTL

(* ab_rtsp_server_send refuses no piece if the cache has room for the      *)
(* longest unit, eight bytes of start codes and one piece, as long as no   *)
(* memcpy did damage.                                                      *)
THEOREM NoneIsRefused == Spec => []NothingRefused
<1>1. IInv => NothingRefused
  BY DEF IInv
<1> QED BY <1>1, InductiveInvariant, PTL

(* While no piece was refused and no memcpy did damage, the assertion of   *)
(* rtp_send_nalu that a unit is not empty fails only on a file in which a  *)
(* start code follows another one.                                         *)
THEOREM AbortsForCause == Spec => []AbortsOnEmptyUnit
<1>1. IInv => AbortsOnEmptyUnit
  BY DEF IInv
<1> QED BY <1>1, InductiveInvariant, PTL

(* With a cache that large, the memcpy that slides the cache is given      *)
(* overlapping areas only if a unit of the file is no longer than one      *)
(* piece.                                                                  *)
THEOREM OverlapIsRare == Spec => []OverlapNeedsShortUnit
<1>1. IInv => OverlapNeedsShortUnit
  BY DEF IInv
<1> QED BY <1>1, InductiveInvariant, PTL

(* Every pass over a file that begins with a start code begins with an     *)
(* empty cache, whatever was refused in the pass before and unless a       *)
(* memcpy did damage: the flush of ab_rtsp_server_send leaves nothing      *)
(* behind.                                                                 *)
THEOREM PassesStartEmpty == Spec => []CacheDrained
<1>1. IInv => CacheDrained
  BY DEF IInv, DrainInv, CacheDrained
<1> QED BY <1>1, InductiveInvariant, PTL

(* All units of s but the last.                                            *)
LEMMA CompleteIs ==
  ASSUME NEW s \in Seq(Byte), NEW c \in Codes(s), NEW u \in Seq(Seq(Byte)),
         Later(s, c) = {}, SentUpTo(s, c, u)
  PROVE  u = Complete(Units(s))
<1> DEFINE N == Cardinality(Codes(s))
           U == Units(s)
           B == Seq(Byte)
<1>1. \A d \in Codes(s) : d <= c
  BY CodesAre DEF Later
<1>2. N = Rank(s, c) + 1 /\ Rank(s, c) \in Nat /\ N \in Nat /\ DOMAIN U = 1 .. N
  BY <1>1, RankLast, RankType, CodesFinite, UnitAt
<1>3. Len(u) = Rank(s, c) /\ \A k \in 1 .. Len(u) : u[k] = U[k]
  BY DEF SentUpTo
<1>4. U = [k \in 1 .. N |-> U[k]]
  BY UnitsFun
<1>5. \A k \in 1 .. N : U[k] \in B
  <2> TAKE k \in 1 .. N
  <2>1. PICK d \in Codes(s) : Rank(s, d) = k - 1
    BY RankOnto
  <2>2. Rank(s, d) + 1 = k
    BY <1>2, <2>1
  <2> QED BY <2>2, UnitLen
<1> HIDE DEF U, N, B
<1>6. U \in Seq(B) /\ Len(U) = N
  BY SMTT(30), <1>2, <1>4, <1>5
<1> DEFINE w == SubSeq(U, 1, N - 1)
<1>7. w \in Seq(B) /\ Len(w) = N - 1 /\ \A k \in 1 .. N - 1 : w[k] = U[k]
  BY <1>2, <1>6
<1>8. u \in Seq(B)
  BY DEF B
<1> HIDE DEF w
<1>9. u = w
  <2>1. Len(u) = Len(w) /\ \A k \in 1 .. Len(u) : u[k] = w[k]
    BY <1>2, <1>3, <1>7
  <2> QED BY <1>7, <1>8, <2>1, SeqEqual
<1>10. Complete(U) = SubSeq(U, 1, Len(U) - 1)
  BY DEF Complete
<1> QED BY <1>6, <1>9, <1>10 DEF w, U

(* Whenever ab_rtsp_server_send returns, what it has sent in this pass is  *)
(* just the units that the bytes read so far complete, as Annex B delimits *)
(* them; and nothing if the file does not begin with a start code.  This   *)
(* supposes that no piece was refused and no memcpy did damage.            *)
THEOREM CompleteUnitsAreSent == Spec => []SendsCompleteUnits
<1>1. IInv => SendsCompleteUnits
  <2> SUFFICES ASSUME IInv, pc = "read", clean, ~spoilt, pos > 0
               PROVE  sent = IF BeginsWithCode(Prefix) THEN Complete(Units(Prefix)) ELSE <<>>
    BY DEF SendsCompleteUnits
  <2>1. TypeOK /\ ScanInv
    BY DEF IInv
  <2>2. CASE ~BeginsWithCode(Prefix)
    BY <2>1, <2>2 DEF ScanInv
  <2>3. CASE BeginsWithCode(Prefix)
    <3>1. PICK c \in Codes(Prefix) : InStep(c)
      BY <2>1, <2>3 DEF ScanInv
    <3>2. Later(Prefix, c) = {} /\ SentUpTo(Prefix, c, sent)
      BY <3>1 DEF InStep
    <3>3. Prefix \in Seq(Byte) /\ sent \in Seq(Seq(Byte))
      BY <2>1, PrefixIs, StateTypes
    <3>4. sent = Complete(Units(Prefix))
      BY <3>2, <3>3, CompleteIs
    <3> QED BY <2>3, <3>4
  <2> QED BY <2>2, <2>3
<1> QED BY <1>1, InductiveInvariant, PTL
=============================================================================
