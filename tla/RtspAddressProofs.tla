------------------------- MODULE RtspAddressProofs --------------------------
(***************************************************************************)
(* Proofs about RtspAddress.                                               *)
(*                                                                         *)
(* The argument: the host that parse_rtsp_addr cuts out of the text of a   *)
(* URL is the host of the URL, and what stands after the colon is its port *)
(* (TextIs).  A host passes ip_check just when it is four numerals with    *)
(* dots between them (CheckIsQuad): it has three dots, and isValidIPV4Num  *)
(* lets through the numerals of a byte and nothing else (ValidIs).  What   *)
(* the digits of a port amount to one after the other is the sum of their  *)
(* place values (NumberIsValue).                                           *)
(***************************************************************************)
EXTENDS RtspAddress, Induction, SequenceTheorems, FiniteSetTheorems

-----------------------------------------------------------------------------
(* Parts of a sequence of characters.                                      *)

(* The elements of a sequence.                                             *)
LEMMA RangeIs ==
  ASSUME NEW S, NEW s \in Seq(S)
  PROVE  /\ Len(s) \in Nat /\ DOMAIN s = 1 .. Len(s)
         /\ \A i \in 1 .. Len(s) : s[i] \in S /\ s[i] \in Range(s)
         /\ \A x : x \in Range(s) <=> \E i \in 1 .. Len(s) : s[i] = x
<1>1. Len(s) \in Nat /\ DOMAIN s = 1 .. Len(s)
  BY LenProperties
<1>2. \A i \in 1 .. Len(s) : s[i] \in S
  BY ElementOfSeq
<1> QED BY <1>1, <1>2 DEF Range

(* The elements from a on, up to b.                                        *)
LEMMA CutIs ==
  ASSUME NEW S, NEW s \in Seq(S), NEW a \in Nat, NEW b \in Nat, a >= 1, b <= Len(s), a <= b + 1
  PROVE  /\ SubSeq(s, a, b) \in Seq(S) /\ Len(SubSeq(s, a, b)) = (b - a) + 1
         /\ \A k \in 1 .. (b - a) + 1 : SubSeq(s, a, b)[k] = s[(a + k) - 1]
         /\ \A i \in a .. b : SubSeq(s, a, b)[(i - a) + 1] = s[i]
<1>1. Len(s) \in Nat
  BY LenProperties
<1>2. \A i \in a .. b : s[i] \in S
  BY <1>1, ElementOfSeq
<1>3. /\ SubSeq(s, a, b) \in Seq(S)
      /\ Len(SubSeq(s, a, b)) = IF a <= b THEN b - a + 1 ELSE 0
      /\ \A i \in 1 .. b - a + 1 : SubSeq(s, a, b)[i] = s[a + i - 1]
  BY <1>2, SubSeqProperties
<1> DEFINE w == SubSeq(s, a, b)
<1> HIDE DEF w
<1>4. /\ w \in Seq(S) /\ Len(w) = IF a <= b THEN b - a + 1 ELSE 0
      /\ \A i \in 1 .. b - a + 1 : w[i] = s[a + i - 1]
  BY <1>3 DEF w
<1>5. Len(w) = (b - a) + 1
  BY <1>4
<1>6. ASSUME NEW k \in 1 .. (b - a) + 1 PROVE w[k] = s[(a + k) - 1]
  <2>1. k \in 1 .. b - a + 1 /\ a + k - 1 = (a + k) - 1
    OBVIOUS
  <2> QED BY <1>4, <2>1
<1>7. ASSUME NEW i \in a .. b PROVE w[(i - a) + 1] = s[i]
  <2>1. (i - a) + 1 \in 1 .. (b - a) + 1 /\ (a + ((i - a) + 1)) - 1 = i
    OBVIOUS
  <2> QED BY <1>6, <2>1
<1> QED BY <1>4, <1>5, <1>6, <1>7 DEF w

(* A number that is the least one of a set is Min.                         *)
LEMMA LeastIs ==
  ASSUME NEW T \in SUBSET Nat, NEW m \in T, \A y \in T : m <= y
  PROVE  Min(T) = m
<1>1. Min(T) \in T /\ \A y \in T : Min(T) <= y
  BY DEF Min
<1>2. Min(T) <= m /\ m <= Min(T) /\ Min(T) \in Nat /\ m \in Nat
  BY <1>1
<1> HIDE DEF Min
<1> QED BY <1>2

(* The part before the first c.                                            *)
LEMMA BeforeIs ==
  ASSUME NEW S, NEW s \in Seq(S), NEW c, NEW n \in 0 .. Len(s),
         \A i \in 1 .. n : s[i] # c, n < Len(s) => s[n + 1] = c
  PROVE  Before(s, c) = SubSeq(s, 1, n)
<1>1. Len(s) \in Nat /\ DOMAIN s = 1 .. Len(s)
  BY LenProperties
<1> DEFINE T == {i \in DOMAIN s : s[i] = c} \cup {Len(s) + 1}
           m == Min(T)
<1>2. T \in SUBSET Nat /\ n + 1 \in T /\ n + 1 \in Nat
  BY <1>1
<1>3. ASSUME NEW y \in T PROVE n + 1 <= y
  BY <1>1
<1> HIDE DEF T
<1>4. m - 1 = n
  <2>1. m = n + 1
    BY <1>2, <1>3, LeastIs
  <2> HIDE DEF m
  <2> QED BY <1>1, <2>1
<1>5. Before(s, c) = SubSeq(s, 1, m - 1)
  BY DEF Before, T, m
<1> QED BY <1>4, <1>5

(* A sequence of nothing but digits is all digits.                         *)
LEMMA DigitsIs ==
  ASSUME NEW s \in Seq(Digit)
  PROVE  Digits(s) = s
<1>1. Len(s) \in Nat /\ DOMAIN s = 1 .. Len(s) /\ \A i \in 1 .. Len(s) : s[i] \in Digit
  BY RangeIs
<1> DEFINE T == {i \in DOMAIN s : s[i] \notin Digit} \cup {Len(s) + 1}
           m == Min(T)
<1>2. T = {Len(s) + 1}
  BY <1>1
<1> HIDE DEF T
<1>3. T \in SUBSET Nat /\ Len(s) + 1 \in T /\ \A y \in T : Len(s) + 1 <= y
  BY <1>1, <1>2
<1>4. m - 1 = Len(s)
  <2>1. m = Len(s) + 1
    BY <1>3, LeastIs
  <2> HIDE DEF m
  <2> QED BY <1>1, <2>1
<1>5. Digits(s) = SubSeq(s, 1, m - 1)
  BY DEF Digits, T, m
<1> QED BY <1>4, <1>5, SubSeqFull

(* A sequence of digits, character by character.                           *)
LEMMA AllDigits ==
  ASSUME NEW S, NEW s \in Seq(S), Range(s) \subseteq Digit
  PROVE  s \in Seq(Digit)
<1>1. Len(s) \in Nat /\ \A i \in 1 .. Len(s) : s[i] \in Digit
  BY RangeIs
<1>2. s \in [1 .. Len(s) -> Digit]
  BY <1>1, LenProperties
<1> QED BY <1>1, <1>2, SeqDef

-----------------------------------------------------------------------------
(* Numbers.                                                                *)

(* What the first i digits of s amount to, for every i.                    *)
NumberOf(s) ==
  CHOOSE n : n = [i \in 0 .. Len(s) |-> IF i = 0 THEN 0 ELSE 10 * n[i - 1] + s[i]]

(* Each digit counts ten times as much when another one follows.           *)
LEMMA NumberIs ==
  ASSUME NEW s \in Seq(Digit)
  PROVE  /\ Number(s) = NumberOf(s)[Len(s)] /\ Len(s) \in Nat
         /\ \A i \in 0 .. Len(s) : NumberOf(s)[i] \in Nat
         /\ NumberOf(s)[0] = 0
         /\ \A i \in 1 .. Len(s) : NumberOf(s)[i] = 10 * NumberOf(s)[i - 1] + s[i]
<1> DEFINE N == Len(s)
           F == [p \in (1 .. N) \X Nat |-> 10 * p[2] + s[p[1]]]
<1>1. N \in Nat /\ \A i \in 1 .. N : s[i] \in Nat
  BY RangeIs DEF Digit
<1> HIDE DEF N
<1>2. \A k \in 1 .. N, x \in Nat : F[<<k, x>>] = 10 * x + s[k]
  OBVIOUS
<1> HIDE DEF F
<1>3. ASSUME NEW k \in 1 .. N, NEW x \in Nat PROVE F[<<k, x>>] \in Nat
  <2>1. F[<<k, x>>] = 10 * x + s[k] /\ s[k] \in Nat
    BY <1>1, <1>2
  <2> QED BY <2>1
<1>4. PICK g : Iterates(g, N, 0, F) /\ \A k \in 0 .. N : g[k] \in Nat
  BY <1>1, <1>3, RecursionExists
<1>5. ASSUME NEW k \in 0 .. N
      PROVE  g[k] = IF k = 0 THEN 0 ELSE 10 * g[k - 1] + s[k]
  <2>1. CASE k = 0
    BY <1>4, <2>1 DEF Iterates
  <2>2. CASE k # 0
    <3>1. k \in 1 .. N /\ k - 1 \in 0 .. N
      BY <1>1, <2>2
    <3>2. g[k - 1] \in Nat
      BY <1>4, <3>1
    <3>3. g[k] = F[<<k, g[k - 1]>>]
      BY <1>4, <2>2 DEF Iterates
    <3> QED BY <1>2, <2>2, <3>1, <3>2, <3>3
  <2> QED BY <2>1, <2>2
<1>6. g = [k \in 0 .. N |-> g[k]]
  BY <1>4 DEF Iterates
<1>7. g = [k \in 0 .. N |-> IF k = 0 THEN 0 ELSE 10 * g[k - 1] + s[k]]
  BY <1>5, <1>6
<1>8. NumberOf(s) = [k \in 0 .. N |-> IF k = 0 THEN 0 ELSE 10 * NumberOf(s)[k - 1] + s[k]]
  BY <1>7 DEF NumberOf, N
<1> DEFINE w == NumberOf(s)
<1>9. Number(s) = w[N]
  BY DEF Number, NumberOf, N
<1> HIDE DEF w
<1>10. \A k \in 0 .. N : w[k] = IF k = 0 THEN 0 ELSE 10 * w[k - 1] + s[k]
  BY <1>8 DEF w
<1>11. w[0] = 0 /\ \A k \in 1 .. N : w[k] = 10 * w[k - 1] + s[k]
  BY <1>1, <1>10
<1> DEFINE T == {k \in 0 .. N : w[k] \in Nat}
<1>12. 0 .. N \subseteq T
  <2>1. 0 \in T
    BY <1>1, <1>11
  <2>2. ASSUME NEW n \in 0 .. N - 1, n \in T PROVE n + 1 \in T
    <3>1. n + 1 \in 1 .. N /\ (n + 1) - 1 = n /\ n + 1 \in 0 .. N
      BY <1>1
    <3>2. w[n + 1] = 10 * w[n] + s[n + 1] /\ w[n] \in Nat /\ s[n + 1] \in Nat
      BY <1>1, <1>11, <2>2, <3>1
    <3> QED BY <3>1, <3>2
  <2> HIDE DEF T
  <2> QED BY <1>1, <2>1, <2>2, IntervalInSet
<1> QED BY <1>1, <1>9, <1>11, <1>12 DEF w, N

(* What a few digits amount to.                                            *)
LEMMA NumberSmall ==
  ASSUME NEW s \in Seq(Digit)
  PROVE  /\ Number(s) \in Nat
         /\ Len(s) = 0 => Number(s) = 0
         /\ Len(s) = 1 => Number(s) = s[1]
         /\ Len(s) = 2 => Number(s) = 10 * s[1] + s[2]
         /\ Len(s) = 3 => Number(s) = 100 * s[1] + 10 * s[2] + s[3]
<1> DEFINE w == NumberOf(s)
<1>1. /\ Number(s) = w[Len(s)] /\ Len(s) \in Nat /\ w[0] = 0
      /\ \A i \in 0 .. Len(s) : w[i] \in Nat
      /\ \A i \in 1 .. Len(s) : w[i] = 10 * w[i - 1] + s[i]
  BY NumberIs
<1>2. \A i \in 1 .. Len(s) : s[i] \in Nat
  BY RangeIs DEF Digit
<1> HIDE DEF w
<1>3. Len(s) >= 1 => w[1] = s[1]
  BY <1>1, <1>2
<1>4. Len(s) >= 2 => w[2] = 10 * s[1] + s[2]
  <2>1. Len(s) >= 2 => w[2] = 10 * w[1] + s[2]
    BY <1>1
  <2> QED BY <1>1, <1>3, <2>1
<1>5. Len(s) >= 3 => w[3] = 100 * s[1] + 10 * s[2] + s[3]
  <2>1. Len(s) >= 3 => w[3] = 10 * w[2] + s[3]
    BY <1>1
  <2>2. Len(s) >= 3 => s[1] \in Nat /\ s[2] \in Nat /\ s[3] \in Nat
    BY <1>1, <1>2
  <2> QED BY <1>1, <1>4, <2>1, <2>2
<1>6. Number(s) \in Nat
  BY <1>1
<1>7. Len(s) = 0 => Number(s) = 0
  BY <1>1
<1>8. Len(s) = 1 => Number(s) = s[1]
  BY <1>1, <1>3
<1>9. Len(s) = 2 => Number(s) = 10 * s[1] + s[2]
  BY <1>1, <1>4
<1>10. Len(s) = 3 => Number(s) = 100 * s[1] + 10 * s[2] + s[3]
  BY <1>1, <1>5
<1> QED BY <1>6, <1>7, <1>8, <1>9, <1>10

(* The value of a port is what its digits amount to.                       *)
LEMMA NumberIsValue ==
  ASSUME NEW s \in Seq(Digit), Len(s) <= 7
  PROVE  Number(s) = Value(s)
<1> DEFINE w == NumberOf(s)
           L == Len(s)
           p == [k \in 0 .. 6 |-> Place(s, k)]
           v == [k \in 0 .. 7 |-> IF k <= L THEN w[L - k] ELSE 0]
<1>1. /\ Number(s) = w[L] /\ L \in Nat /\ w[0] = 0
      /\ \A i \in 0 .. L : w[i] \in Nat
      /\ \A i \in 1 .. L : w[i] = 10 * w[i - 1] + s[i]
  BY NumberIs
<1>2. L <= 7 /\ \A i \in 1 .. L : s[i] \in Nat
  BY RangeIs DEF Digit
<1>3. \A k \in 0 .. 6 : p[k] = IF k < L THEN s[L - k] ELSE 0
  BY DEF Place
<1>4. Value(s) = p[0] + 10 * p[1] + 100 * p[2] + 1000 * p[3]
                   + 10000 * p[4] + 100000 * p[5] + 1000000 * p[6]
  <2>1. /\ p[0] = Place(s, 0) /\ p[1] = Place(s, 1) /\ p[2] = Place(s, 2)
        /\ p[3] = Place(s, 3) /\ p[4] = Place(s, 4) /\ p[5] = Place(s, 5)
        /\ p[6] = Place(s, 6)
    OBVIOUS
  <2> HIDE DEF p
  <2> QED BY <2>1 DEF Value
<1> HIDE DEF w, L, p
<1>5. \A k \in 0 .. 7 : v[k] = IF k <= L THEN w[L - k] ELSE 0
  OBVIOUS
<1> HIDE DEF v
<1>6. ASSUME NEW k \in 0 .. 6
      PROVE  p[k] \in Nat /\ v[k] \in Nat /\ v[k + 1] \in Nat /\ v[k] = 10 * v[k + 1] + p[k]
  <2>0. k + 1 \in 0 .. 7 /\ k \in 0 .. 7
    OBVIOUS
  <2>1. CASE k < L
    <3>1. /\ L - k \in 1 .. L /\ L - (k + 1) = (L - k) - 1 /\ k <= L /\ k + 1 <= L
          /\ L - k \in 0 .. L /\ (L - k) - 1 \in 0 .. L
      BY <1>1, <2>1
    <3>2. v[k] = w[L - k] /\ v[k + 1] = w[(L - k) - 1] /\ p[k] = s[L - k]
      BY <1>3, <1>5, <2>0, <2>1, <3>1
    <3>3. /\ w[L - k] = 10 * w[(L - k) - 1] + s[L - k] /\ w[L - k] \in Nat
          /\ w[(L - k) - 1] \in Nat /\ s[L - k] \in Nat
      BY <1>1, <1>2, <3>1
    <3> QED BY <3>2, <3>3
  <2>2. CASE ~(k < L)
    <3>0. ~(k + 1 <= L)
      BY <1>1, <2>2
    <3>1. v[k + 1] = 0 /\ p[k] = 0
      BY <1>3, <1>5, <2>0, <2>2, <3>0
    <3>2. v[k] = 0
      <4>1. k <= L => L - k = 0
        BY <1>1, <2>2
      <4> QED BY <1>1, <1>5, <2>0, <4>1
    <3> QED BY <3>1, <3>2
  <2> QED BY <2>1, <2>2
<1>7. v[7] = 0
  <2>1. 7 <= L => L - 7 = 0
    BY <1>1, <1>2
  <2> QED BY SMTT(30), <1>1, <1>5, <2>1
<1>8. v[0] = Number(s)
  <2>1. 0 <= L /\ L - 0 = L
    BY <1>1
  <2> QED BY <1>1, <1>5, <2>1
<1>9. /\ p[0] \in Nat /\ p[1] \in Nat /\ p[2] \in Nat /\ p[3] \in Nat
      /\ p[4] \in Nat /\ p[5] \in Nat /\ p[6] \in Nat
      /\ v[0] \in Nat /\ v[1] \in Nat /\ v[2] \in Nat /\ v[3] \in Nat
      /\ v[4] \in Nat /\ v[5] \in Nat /\ v[6] \in Nat
  BY <1>6
<1>10. /\ v[0] = 10 * v[1] + p[0] /\ v[1] = 10 * v[2] + p[1] /\ v[2] = 10 * v[3] + p[2]
       /\ v[3] = 10 * v[4] + p[3] /\ v[4] = 10 * v[5] + p[4] /\ v[5] = 10 * v[6] + p[5]
  <2>1. v[0] = 10 * v[0 + 1] + p[0] /\ 0 + 1 = 1
    BY <1>6
  <2>2. v[1] = 10 * v[1 + 1] + p[1] /\ 1 + 1 = 2
    BY <1>6
  <2>3. v[2] = 10 * v[2 + 1] + p[2] /\ 2 + 1 = 3
    BY <1>6
  <2>4. v[3] = 10 * v[3 + 1] + p[3] /\ 3 + 1 = 4
    BY <1>6
  <2>5. v[4] = 10 * v[4 + 1] + p[4] /\ 4 + 1 = 5
    BY <1>6
  <2>6. v[5] = 10 * v[5 + 1] + p[5] /\ 5 + 1 = 6
    BY <1>6
  <2> QED BY <2>1, <2>2, <2>3, <2>4, <2>5, <2>6
<1>11. v[6] = p[6]
  <2>1. v[6] = 10 * v[6 + 1] + p[6] /\ 6 + 1 = 7
    BY <1>6
  <2> QED BY SMTT(30), <1>7, <1>9, <2>1
<1>12. v[0] = p[0] + 10 * p[1] + 100 * p[2] + 1000 * p[3]
                + 10000 * p[4] + 100000 * p[5] + 1000000 * p[6]
  <2>1. PICK a \in Nat, b \in Nat, c \in Nat, d \in Nat, e \in Nat, f \in Nat, g \in Nat :
          /\ a = p[0] /\ b = p[1] /\ c = p[2] /\ d = p[3] /\ e = p[4] /\ f = p[5] /\ g = p[6]
    BY <1>9
  <2>2. PICK t \in Nat, u \in Nat, m \in Nat, n \in Nat, x \in Nat, y \in Nat :
          /\ t = v[0] /\ u = v[1] /\ m = v[2] /\ n = v[3] /\ x = v[4] /\ y = v[5]
    BY <1>9
  <2>3. /\ t = 10 * u + a /\ u = 10 * m + b /\ m = 10 * n + c
        /\ n = 10 * x + d /\ x = 10 * y + e /\ y = 10 * g + f
    BY <1>10, <1>11, <2>1, <2>2
  <2>4. t = a + 10 * b + 100 * c + 1000 * d + 10000 * e + 100000 * f + 1000000 * g
    BY <2>3
  <2> QED BY <2>1, <2>2, <2>4
<1> QED BY <1>4, <1>8, <1>12

-----------------------------------------------------------------------------
(* The decimal numerals of a byte.                                         *)

(* They have one digit to three.                                           *)
LEMMA NumeralsAre ==
  ASSUME NEW s, s \in Numerals
  PROVE  /\ s \in Seq(Digit) /\ Len(s) \in 1 .. 3
         /\ s[1] = 0 => Len(s) = 1
         /\ Number(s) <= 255
<1>1. CASE s \in {<<n>> : n \in Digit}
  <2>1. PICK n \in Digit : s = <<n>>
    BY <1>1
  <2>2. s \in Seq(Digit) /\ Len(s) = 1 /\ s[1] = n /\ n \in 0 .. 9
    BY <2>1 DEF Digit
  <2>3. Number(s) = n
    BY <2>2, NumberSmall
  <2> QED BY <2>2, <2>3
<1>2. CASE s \in {<<n \div 10, n % 10>> : n \in 10 .. 99}
  <2>1. PICK n \in 10 .. 99 : s = <<n \div 10, n % 10>>
    BY <1>2
  <2>2. PICK a \in 1 .. 9, b \in 0 .. 9 : a = n \div 10 /\ b = n % 10 /\ n = 10 * a + b
    OBVIOUS
  <2>3. s = <<a, b>> /\ a \in Digit /\ b \in Digit
    BY <2>1, <2>2 DEF Digit
  <2>4. s \in Seq(Digit) /\ Len(s) = 2 /\ s[1] = a /\ s[2] = b
    BY <2>3
  <2>5. Number(s) = 10 * a + b
    BY <2>4, NumberSmall
  <2> QED BY <2>2, <2>4, <2>5
<1>3. CASE s \in {<<n \div 100, (n \div 10) % 10, n % 10>> : n \in 100 .. 255}
  <2>1. PICK n \in 100 .. 255 : s = <<n \div 100, (n \div 10) % 10, n % 10>>
    BY <1>3
  <2>2. PICK a \in 1 .. 9, b \in 0 .. 9, c \in 0 .. 9 :
          a = n \div 100 /\ b = (n \div 10) % 10 /\ c = n % 10 /\ n = 100 * a + 10 * b + c
    OBVIOUS
  <2>3. s = <<a, b, c>> /\ a \in Digit /\ b \in Digit /\ c \in Digit
    BY <2>1, <2>2 DEF Digit
  <2>4. s \in Seq(Digit) /\ Len(s) = 3 /\ s[1] = a /\ s[2] = b /\ s[3] = c
    BY <2>3
  <2>5. Number(s) = 100 * a + 10 * b + c
    BY <2>4, NumberSmall
  <2> QED BY <2>2, <2>4, <2>5
<1> QED BY <1>1, <1>2, <1>3 DEF Numerals

(* What isValidIPV4Num lets through is just these, and nothing at all.     *)
LEMMA ValidIs ==
  ASSUME NEW S, NEW s \in Seq(S)
  PROVE  isValidIPV4Num(s) <=> s \in Numerals \cup {<<>>}
<1>1. ASSUME s \in Numerals PROVE isValidIPV4Num(s)
  <2>1. s \in Seq(Digit)
    BY <1>1, NumeralsAre
  <2>2. PICK m \in 1 .. 3 : m = Len(s)
    BY <1>1, NumeralsAre
  <2>3. m <= 3
    OBVIOUS
  <2>4. (s[1] = 0 => Len(s) = 1) /\ Number(s) <= 255
    BY <1>1, NumeralsAre
  <2>5. Range(s) \subseteq Digit
    BY <2>1, RangeIs
  <2> QED BY <2>2, <2>3, <2>4, <2>5, Zenon DEF isValidIPV4Num
<1>2. ASSUME s = <<>> PROVE isValidIPV4Num(s)
  <2>1. s \in Seq(Digit) /\ Len(s) = 0
    BY <1>2
  <2>2. PICK n \in Nat : n = Number(s) /\ n <= 255
    <3>1. Number(s) = 0
      BY <2>1, NumberSmall, Zenon
    <3>2. PICK n : n = Number(s)
      OBVIOUS
    <3>3. n \in Nat /\ n <= 255
      BY <3>1, <3>2
    <3> QED BY <3>2, <3>3
  <2>3. Range(s) \subseteq Digit
    <3>1. Len(s) \in Nat /\ \A x : x \in Range(s) <=> \E i \in 1 .. Len(s) : s[i] = x
      BY <2>1, RangeIs
    <3> HIDE DEF Digit
    <3> QED BY <2>1, <3>1
  <2>4. PICK m \in Nat : m = Len(s) /\ m <= 3
    BY <2>1
  <2> QED BY <1>2, <2>2, <2>3, <2>4, Zenon DEF isValidIPV4Num
<1>3. ASSUME isValidIPV4Num(s), s # <<>> PROVE s \in Numerals
  <2>1. /\ s[1] = 0 => Len(s) = 1
        /\ Len(s) <= 3 /\ Range(s) \subseteq Digit /\ Number(s) <= 255
    BY <1>3 DEF isValidIPV4Num
  <2>2. s \in Seq(Digit)
    BY <2>1, AllDigits
  <2>3. Len(s) \in 1 .. 3
    <3>1. PICK m \in Nat \ {0} : m = Len(s)
      BY <1>3, <2>2, EmptySeq
    <3>2. m <= 3
      BY <2>1, <3>1
    <3> QED BY <3>1, <3>2
  <2>4. \A i \in 1 .. Len(s) : s[i] \in 0 .. 9
    BY <2>2, RangeIs DEF Digit
  <2>5. CASE Len(s) = 1
    <3>1. s = <<s[1]>> /\ s[1] \in Digit
      BY <2>2, <2>4, <2>5 DEF Digit
    <3> QED BY <3>1 DEF Numerals
  <2>6. CASE Len(s) = 2
    <3>1. PICK a \in 0 .. 9, b \in 0 .. 9 : a = s[1] /\ b = s[2]
      BY <2>4, <2>6
    <3>2. s = <<a, b>> /\ a # 0
      BY <2>1, <2>2, <2>6, <3>1
    <3>3. PICK n \in 10 .. 99 : n = 10 * a + b
      BY <3>2
    <3>4. a = n \div 10 /\ b = n % 10
      BY <3>3
    <3> QED BY <3>2, <3>4 DEF Numerals
  <2>7. CASE Len(s) = 3
    <3>1. PICK a \in 0 .. 9, b \in 0 .. 9, c \in 0 .. 9 : a = s[1] /\ b = s[2] /\ c = s[3]
      BY <2>4, <2>7
    <3>2. s = <<a, b, c>> /\ a # 0
      BY <2>1, <2>2, <2>7, <3>1
    <3>3. 100 * a + 10 * b + c <= 255
      BY <2>1, <2>2, <2>7, <3>1, NumberSmall
    <3>4. PICK n \in 100 .. 255 : n = 100 * a + 10 * b + c
      BY <3>2, <3>3
    <3>5. a = n \div 100 /\ b = (n \div 10) % 10 /\ c = n % 10
      BY <3>4
    <3> QED BY <3>2, <3>5 DEF Numerals
  <2> QED BY <2>3, <2>5, <2>6, <2>7
<1> QED BY <1>1, <1>2, <1>3

-----------------------------------------------------------------------------
(* The dots of a host.                                                     *)

(* The least element of a set, and how many others there are.              *)
LEMMA LeastApart ==
  ASSUME NEW S \in SUBSET Nat, IsFiniteSet(S), NEW n \in Nat, Cardinality(S) = n + 1
  PROVE  \E m \in S : /\ \A x \in S \ {m} : m < x
                      /\ S \ {m} \in SUBSET Nat /\ IsFiniteSet(S \ {m})
                      /\ Cardinality(S \ {m}) = n
<1>1. S # {}
  BY FS_EmptySet
<1>2. PICK m \in S : \A x \in S : m <= x
  BY <1>1, LeastInSet
<1>3. \A x \in S \ {m} : m < x
  BY <1>2
<1>4. IsFiniteSet(S \ {m}) /\ Cardinality(S \ {m}) = Cardinality(S) - 1
  BY FS_RemoveElement
<1>5. Cardinality(S \ {m}) = n
  BY <1>4
<1> QED BY <1>3, <1>4, <1>5

(* Four numbers are one, a second, a third and a fourth one.               *)
LEMMA FourApart ==
  ASSUME NEW S \in SUBSET Nat, IsFiniteSet(S), Cardinality(S) = 4
  PROVE  \E a, b, c, d \in S : a < b /\ b < c /\ c < d /\ S = {a, b, c, d}
<1>1. PICK a \in S : /\ \A x \in S \ {a} : a < x
                     /\ S \ {a} \in SUBSET Nat /\ IsFiniteSet(S \ {a})
                     /\ Cardinality(S \ {a}) = 3
  <2>1. 3 \in Nat /\ 4 = 3 + 1
    OBVIOUS
  <2> QED BY <2>1, LeastApart
<1> DEFINE T == S \ {a}
<1> HIDE DEF T
<1>2. PICK b \in T : /\ \A x \in T \ {b} : b < x
                     /\ T \ {b} \in SUBSET Nat /\ IsFiniteSet(T \ {b})
                     /\ Cardinality(T \ {b}) = 2
  <2>1. 2 \in Nat /\ 3 = 2 + 1
    OBVIOUS
  <2> QED BY <1>1, <2>1, LeastApart DEF T
<1> DEFINE U == T \ {b}
<1> HIDE DEF U
<1>3. PICK c \in U : /\ \A x \in U \ {c} : c < x
                     /\ U \ {c} \in SUBSET Nat /\ IsFiniteSet(U \ {c})
                     /\ Cardinality(U \ {c}) = 1
  <2>1. 1 \in Nat /\ 2 = 1 + 1
    OBVIOUS
  <2> QED BY <1>2, <2>1, LeastApart DEF U
<1> DEFINE V == U \ {c}
<1> HIDE DEF V
<1>4. PICK d \in V : /\ V \ {d} \in SUBSET Nat /\ IsFiniteSet(V \ {d})
                     /\ Cardinality(V \ {d}) = 0
  <2>1. 0 \in Nat /\ 1 = 0 + 1
    OBVIOUS
  <2> QED BY <1>3, <2>1, LeastApart DEF V
<1>5. V = {d}
  BY <1>4, FS_EmptySet
<1>6. U = {c, d} /\ T = {b, c, d} /\ S = {a, b, c, d}
  BY <1>1, <1>2, <1>3, <1>5 DEF T, U, V
<1>7. a < b /\ b < c /\ c < d
  <2>1. b \in S \ {a} /\ c \in T \ {b} /\ d \in U \ {c}
    BY <1>3, <1>4 DEF T, U, V
  <2> QED BY <1>1, <1>2, <1>3, <2>1
<1> QED BY <1>6, <1>7

(* And three together with a smaller one are four.                         *)
LEMMA FourTogether ==
  ASSUME NEW a \in Nat, NEW b \in Nat, NEW c \in Nat, NEW d \in Nat, a < b, b < c, c < d
  PROVE  Cardinality({a, b, c, d}) = 4
<1>1. IsFiniteSet({d}) /\ Cardinality({d}) = 1
  BY FS_Singleton
<1>2. IsFiniteSet({c, d}) /\ Cardinality({c, d}) = 2
  <2>1. c \notin {d} /\ {d} \cup {c} = {c, d}
    OBVIOUS
  <2> QED BY <1>1, <2>1, FS_AddElement
<1>3. IsFiniteSet({b, c, d}) /\ Cardinality({b, c, d}) = 3
  <2>1. b \notin {c, d} /\ {c, d} \cup {b} = {b, c, d}
    OBVIOUS
  <2> QED BY <1>2, <2>1, FS_AddElement
<1>4. a \notin {b, c, d} /\ {b, c, d} \cup {a} = {a, b, c, d}
  OBVIOUS
<1> QED BY <1>3, <1>4, FS_AddElement

-----------------------------------------------------------------------------
(* The parts of a host between its dots.                                   *)

(* Where the dots are.                                                     *)
DotsOf(h) == {i \in DOMAIN h : h[i] = Dot}

(* The part that begins at b and ends at e, where a dot or the end comes.  *)
LEMMA PartIs ==
  ASSUME NEW h \in Seq(Char), NEW b \in Nat, NEW e \in Nat, b >= 1, b <= e + 1, e <= Len(h),
         \A x \in DotsOf(h) : ~(b <= x /\ x <= e),
         e < Len(h) => e + 1 \in DotsOf(h)
  PROVE  Before(SubSeq(h, b, Len(h)), Dot) = SubSeq(h, b, e)
<1>1. Len(h) \in Nat /\ DOMAIN h = 1 .. Len(h)
  BY LenProperties
<1> DEFINE s == SubSeq(h, b, Len(h))
           n == (e - b) + 1
<1>2. /\ s \in Seq(Char) /\ Len(s) = (Len(h) - b) + 1
      /\ \A k \in 1 .. (Len(h) - b) + 1 : s[k] = h[(b + k) - 1]
  BY <1>1, CutIs
<1> HIDE DEF s
<1>3. n \in 0 .. Len(s)
  BY <1>1, <1>2
<1>4. ASSUME NEW k \in 1 .. n PROVE s[k] # Dot
  <2>1. k \in 1 .. (Len(h) - b) + 1 /\ (b + k) - 1 \in 1 .. Len(h)
        /\ b <= (b + k) - 1 /\ (b + k) - 1 <= e
    BY <1>1
  <2>2. (b + k) - 1 \notin DotsOf(h)
    BY <2>1
  <2>3. h[(b + k) - 1] # Dot
    BY <1>1, <2>1, <2>2 DEF DotsOf
  <2> QED BY <1>2, <2>1, <2>3
<1>5. n < Len(s) => s[n + 1] = Dot
  <2> SUFFICES ASSUME n < Len(s) PROVE s[n + 1] = Dot
    OBVIOUS
  <2>1. e < Len(h) /\ n + 1 \in 1 .. (Len(h) - b) + 1 /\ (b + (n + 1)) - 1 = e + 1
    BY <1>1, <1>2
  <2>2. h[e + 1] = Dot
    BY <2>1 DEF DotsOf
  <2>3. s[n + 1] = h[e + 1]
    BY <1>2, <2>1
  <2> QED BY <2>2, <2>3
<1>6. Before(s, Dot) = SubSeq(s, 1, n)
  <2> HIDE DEF n
  <2> QED BY <1>2, <1>3, <1>4, <1>5, BeforeIs
<1>7. SubSeq(s, 1, n) = SubSeq(h, b, e)
  <2> DEFINE v == SubSeq(s, 1, n)
             w == SubSeq(h, b, e)
  <2>1. n \in Nat /\ 1 <= n + 1 /\ n <= Len(s) /\ (n - 1) + 1 = n
    BY <1>1, <1>2, <1>3
  <2>2. v \in Seq(Char) /\ Len(v) = n /\ \A k \in 1 .. n : v[k] = s[(1 + k) - 1]
    <3> HIDE DEF n
    <3>1. 1 \in Nat /\ 1 >= 1
      OBVIOUS
    <3>2. /\ SubSeq(s, 1, n) \in Seq(Char) /\ Len(SubSeq(s, 1, n)) = (n - 1) + 1
          /\ \A k \in 1 .. (n - 1) + 1 : SubSeq(s, 1, n)[k] = s[(1 + k) - 1]
      BY <1>2, <2>1, <3>1, CutIs
    <3> QED BY <2>1, <3>2
  <2>3. w \in Seq(Char) /\ Len(w) = n /\ \A k \in 1 .. n : w[k] = h[(b + k) - 1]
    BY CutIs
  <2> HIDE DEF v, w
  <2>4. ASSUME NEW k \in 1 .. n PROVE v[k] = w[k]
    <3>1. (1 + k) - 1 = k /\ k \in 1 .. (Len(h) - b) + 1
      BY <1>1
    <3> QED BY <1>2, <2>2, <2>3, <3>1
  <2> HIDE DEF n
  <2>5. v = w
    BY <2>2, <2>3, <2>4, SeqEqual
  <2> QED BY <2>5 DEF v, w
<1> QED BY <1>6, <1>7 DEF s

(* The dots of an address are at i, j and k.                               *)
ThreeDots(h, i, j, k) == i < j /\ j < k /\ DotsOf(h) = {i, j, k}

(* Then it has these four parts.                                           *)
LEMMA PartsAre ==
  ASSUME NEW h \in Seq(Char), NEW i \in Nat, NEW j \in Nat, NEW k \in Nat, ThreeDots(h, i, j, k)
  PROVE  /\ i >= 1 /\ k <= Len(h) /\ Len(h) \in Nat
         /\ Before(SubSeq(h, 1, Len(h)), Dot) = SubSeq(h, 1, i - 1)
         /\ Before(SubSeq(h, i + 1, Len(h)), Dot) = SubSeq(h, i + 1, j - 1)
         /\ Before(SubSeq(h, j + 1, Len(h)), Dot) = SubSeq(h, j + 1, k - 1)
         /\ Before(SubSeq(h, k + 1, Len(h)), Dot) = SubSeq(h, k + 1, Len(h))
<1>1. Len(h) \in Nat /\ DOMAIN h = 1 .. Len(h)
  BY LenProperties
<1>2. i < j /\ j < k /\ \A x : x \in DotsOf(h) <=> x = i \/ x = j \/ x = k
  BY DEF ThreeDots
<1>3. i >= 1 /\ k <= Len(h)
  BY <1>1, <1>2 DEF DotsOf
<1>4. Before(SubSeq(h, 1, Len(h)), Dot) = SubSeq(h, 1, i - 1)
  <2>1. /\ 1 \in Nat /\ 1 >= 1 /\ i - 1 \in Nat /\ 1 <= (i - 1) + 1
        /\ i - 1 <= Len(h) /\ (i - 1) + 1 = i
    BY <1>1, <1>2, <1>3
  <2>2. \A x \in DotsOf(h) : ~(1 <= x /\ x <= i - 1)
    BY <1>2
  <2>3. (i - 1) + 1 \in DotsOf(h)
    BY <1>2, <2>1
  <2> QED BY <2>1, <2>2, <2>3, PartIs
<1>5. Before(SubSeq(h, i + 1, Len(h)), Dot) = SubSeq(h, i + 1, j - 1)
  <2>1. /\ i + 1 \in Nat /\ i + 1 >= 1 /\ j - 1 \in Nat /\ i + 1 <= (j - 1) + 1
        /\ j - 1 <= Len(h) /\ (j - 1) + 1 = j
    BY <1>1, <1>2, <1>3
  <2>2. \A x \in DotsOf(h) : ~(i + 1 <= x /\ x <= j - 1)
    BY <1>2
  <2>3. (j - 1) + 1 \in DotsOf(h)
    BY <1>2, <2>1
  <2> QED BY <2>1, <2>2, <2>3, PartIs
<1>6. Before(SubSeq(h, j + 1, Len(h)), Dot) = SubSeq(h, j + 1, k - 1)
  <2>1. /\ j + 1 \in Nat /\ j + 1 >= 1 /\ k - 1 \in Nat /\ j + 1 <= (k - 1) + 1
        /\ k - 1 <= Len(h) /\ (k - 1) + 1 = k
    BY <1>1, <1>2, <1>3
  <2>2. \A x \in DotsOf(h) : ~(j + 1 <= x /\ x <= k - 1)
    BY <1>2
  <2>3. (k - 1) + 1 \in DotsOf(h)
    BY <1>2, <2>1
  <2> QED BY <2>1, <2>2, <2>3, PartIs
<1>7. Before(SubSeq(h, k + 1, Len(h)), Dot) = SubSeq(h, k + 1, Len(h))
  <2>1. k + 1 \in Nat /\ k + 1 >= 1 /\ k + 1 <= Len(h) + 1
    BY <1>1, <1>3
  <2>2. \A x \in DotsOf(h) : ~(k + 1 <= x /\ x <= Len(h))
    BY <1>2
  <2>3. Len(h) <= Len(h) /\ ~(Len(h) < Len(h))
    BY <1>1
  <2> QED BY <1>1, <2>1, <2>2, <2>3, PartIs
<1> QED BY <1>1, <1>3, <1>4, <1>5, <1>6, <1>7

(* The four parts are numerals, of which the first may be missing.         *)
Numbered(h, i, j, k) ==
  /\ SubSeq(h, 1, i - 1) \in Numerals \cup {<<>>}
  /\ SubSeq(h, i + 1, j - 1) \in Numerals
  /\ SubSeq(h, j + 1, k - 1) \in Numerals
  /\ SubSeq(h, k + 1, Len(h)) \in Numerals

(* doCheck asks for just that of an address with three dots.               *)
LEMMA CheckIs ==
  ASSUME NEW h \in Seq(Char), NEW i \in Nat, NEW j \in Nat, NEW k \in Nat, ThreeDots(h, i, j, k)
  PROVE  doCheck(h) <=> Numbered(h, i, j, k)
<1>1. /\ i >= 1 /\ k <= Len(h) /\ Len(h) \in Nat
      /\ Before(SubSeq(h, 1, Len(h)), Dot) = SubSeq(h, 1, i - 1)
      /\ Before(SubSeq(h, i + 1, Len(h)), Dot) = SubSeq(h, i + 1, j - 1)
      /\ Before(SubSeq(h, j + 1, Len(h)), Dot) = SubSeq(h, j + 1, k - 1)
      /\ Before(SubSeq(h, k + 1, Len(h)), Dot) = SubSeq(h, k + 1, Len(h))
  BY PartsAre
<1>2. i < j /\ j < k /\ DotsOf(h) = {i, j, k} /\ DOMAIN h = 1 .. Len(h)
  BY LenProperties DEF ThreeDots
<1> DEFINE p == SubSeq(h, 1, i - 1)
           q == SubSeq(h, i + 1, j - 1)
           r == SubSeq(h, j + 1, k - 1)
           s == SubSeq(h, k + 1, Len(h))
<1>3. p \in Seq(Char)
  BY <1>1, <1>2, CutIs
<1>4. q \in Seq(Char) /\ Len(q) = (j - i) - 1
  <2>1. i + 1 \in Nat /\ i + 1 >= 1 /\ j - 1 \in Nat /\ j - 1 <= Len(h) /\ i + 1 <= (j - 1) + 1
    BY <1>1, <1>2
  <2>2. q \in Seq(Char) /\ Len(q) = ((j - 1) - (i + 1)) + 1
    BY <2>1, CutIs
  <2> HIDE DEF q
  <2> QED BY <2>2
<1>5. r \in Seq(Char) /\ Len(r) = (k - j) - 1
  <2>1. j + 1 \in Nat /\ j + 1 >= 1 /\ k - 1 \in Nat /\ k - 1 <= Len(h) /\ j + 1 <= (k - 1) + 1
    BY <1>1, <1>2
  <2>2. r \in Seq(Char) /\ Len(r) = ((k - 1) - (j + 1)) + 1
    BY <2>1, CutIs
  <2> HIDE DEF r
  <2> QED BY <2>2
<1>6. s \in Seq(Char) /\ Len(s) = Len(h) - k
  <2>1. k + 1 \in Nat /\ k + 1 >= 1 /\ k + 1 <= Len(h) + 1 /\ Len(h) <= Len(h)
    BY <1>1
  <2>2. s \in Seq(Char) /\ Len(s) = (Len(h) - (k + 1)) + 1
    BY <1>1, <2>1, CutIs
  <2> HIDE DEF s
  <2> QED BY <1>1, <2>2
<1> DEFINE Dots == {x \in DOMAIN h : h[x] = Dot}
           Begins == {1} \cup {x + 1 : x \in Dots}
           Ahead == \A x \in Dots : x + 1 \in DOMAIN h \ Dots
           Valid == \A b \in Begins : isValidIPV4Num(Before(SubSeq(h, b, Len(h)), Dot))
<1>7. Dots = {i, j, k}
  BY <1>2 DEF DotsOf
<1>8. Begins = {1, i + 1, j + 1, k + 1}
  BY <1>7
<1>9. doCheck(h) <=> Ahead /\ Valid /\ Cardinality(Begins) = 4
  BY DEF doCheck
<1> HIDE DEF Dots, Begins
<1>10. Cardinality(Begins) = 4
  <2>1. 1 \in Nat /\ i + 1 \in Nat /\ j + 1 \in Nat /\ k + 1 \in Nat
        /\ 1 < i + 1 /\ i + 1 < j + 1 /\ j + 1 < k + 1
    BY <1>1, <1>2
  <2> QED BY <1>8, <2>1, FourTogether
<1>11. Ahead <=> i + 1 < j /\ j + 1 < k /\ k + 1 <= Len(h)
  BY <1>1, <1>2, <1>7
<1> HIDE DEF Ahead
<1>12. Valid <=> isValidIPV4Num(p) /\ isValidIPV4Num(q) /\ isValidIPV4Num(r) /\ isValidIPV4Num(s)
  <2>1. Valid <=> /\ isValidIPV4Num(Before(SubSeq(h, 1, Len(h)), Dot))
                  /\ isValidIPV4Num(Before(SubSeq(h, i + 1, Len(h)), Dot))
                  /\ isValidIPV4Num(Before(SubSeq(h, j + 1, Len(h)), Dot))
                  /\ isValidIPV4Num(Before(SubSeq(h, k + 1, Len(h)), Dot))
    BY <1>8, Zenon
  <2> QED BY <1>1, <2>1
<1> HIDE DEF Valid, p, q, r, s
<1>13. /\ isValidIPV4Num(p) <=> p \in Numerals \cup {<<>>}
       /\ isValidIPV4Num(q) <=> q \in Numerals \cup {<<>>}
       /\ isValidIPV4Num(r) <=> r \in Numerals \cup {<<>>}
       /\ isValidIPV4Num(s) <=> s \in Numerals \cup {<<>>}
  BY <1>3, <1>4, <1>5, <1>6, ValidIs
<1>14. /\ q # <<>> <=> i + 1 < j
       /\ r # <<>> <=> j + 1 < k
       /\ s # <<>> <=> k + 1 <= Len(h)
  <2>1. /\ q # <<>> <=> Len(q) # 0
        /\ r # <<>> <=> Len(r) # 0
        /\ s # <<>> <=> Len(s) # 0
    BY <1>4, <1>5, <1>6, EmptySeq
  <2>2. /\ (j - i) - 1 # 0 <=> i + 1 < j
        /\ (k - j) - 1 # 0 <=> j + 1 < k
        /\ Len(h) - k # 0 <=> k + 1 <= Len(h)
    <3>1. PICK n \in Nat : n = Len(h) /\ k <= n /\ i < j /\ j < k
      BY <1>1, <1>2
    <3>2. (j - i) - 1 # 0 <=> i + 1 < j
      BY <3>1
    <3>3. (k - j) - 1 # 0 <=> j + 1 < k
      BY <3>1
    <3>4. n - k # 0 <=> k + 1 <= n
      BY <3>1
    <3> QED BY <3>1, <3>2, <3>3, <3>4
  <2>3. Len(q) = (j - i) - 1 /\ Len(r) = (k - j) - 1 /\ Len(s) = Len(h) - k
    BY <1>4, <1>5, <1>6
  <2> QED BY <2>1, <2>2, <2>3
<1>15. <<>> \notin Numerals
  <2> SUFFICES ASSUME <<>> \in Numerals PROVE FALSE
    OBVIOUS
  <2>1. Len(<<>>) \in 1 .. 3
    BY NumeralsAre
  <2> QED BY <2>1
<1>16. Numbered(h, i, j, k) <=>
         p \in Numerals \cup {<<>>} /\ q \in Numerals /\ r \in Numerals /\ s \in Numerals
  BY DEF Numbered, p, q, r, s
<1> QED BY <1>9, <1>10, <1>11, <1>12, <1>13, <1>14, <1>15, <1>16

(* A part that is a numeral has no dot.                                    *)
LEMMA NoDotIn ==
  ASSUME NEW h \in Seq(Char), NEW b \in Nat, NEW e \in Nat, b >= 1, b <= e + 1, e <= Len(h),
         SubSeq(h, b, e) \in Numerals \cup {<<>>}
  PROVE  \A x \in b .. e : x \notin DotsOf(h)
<1>1. \A x \in b .. e : SubSeq(h, b, e)[(x - b) + 1] = h[x]
  BY CutIs
<1>2. Len(SubSeq(h, b, e)) = (e - b) + 1
  BY CutIs
<1> DEFINE w == SubSeq(h, b, e)
<1>3. w \in Seq(Digit)
  <2>1. w \in Numerals \/ w = <<>>
    OBVIOUS
  <2> HIDE DEF w
  <2> QED BY <2>1, NumeralsAre, EmptySeq
<1> HIDE DEF w
<1>4. ASSUME NEW x \in b .. e PROVE x \notin DotsOf(h)
  <2>1. (x - b) + 1 \in 1 .. Len(w)
    BY <1>2 DEF w
  <2>2. w[(x - b) + 1] \in Digit
    BY <1>3, <2>1, ElementOfSeq
  <2>3. h[x] \in Digit
    BY <1>1, <2>2 DEF w
  <2> QED BY <2>3 DEF DotsOf, Digit, Dot
<1> QED BY <1>4

(* An address that is said to be four numerals has just three dots.        *)
LEMMA QuadIs ==
  ASSUME NEW h \in Seq(Char)
  PROVE  Quad(h) <=> \E i, j, k \in Nat : ThreeDots(h, i, j, k) /\ Numbered(h, i, j, k)
<1>1. Len(h) \in Nat /\ DOMAIN h = 1 .. Len(h)
  BY LenProperties
<1>2. Quad(h) <=> \E i, j, k \in DotsOf(h) : i < j /\ j < k /\ Numbered(h, i, j, k)
  BY DEF Quad, Numbered, DotsOf
<1>3. ASSUME NEW i \in DotsOf(h), NEW j \in DotsOf(h), NEW k \in DotsOf(h), i < j, j < k,
             Numbered(h, i, j, k)
      PROVE  i \in Nat /\ j \in Nat /\ k \in Nat /\ ThreeDots(h, i, j, k)
  <2>1. i \in 1 .. Len(h) /\ j \in 1 .. Len(h) /\ k \in 1 .. Len(h)
    BY <1>1 DEF DotsOf
  <2>2. \A x \in 1 .. i - 1 : x \notin DotsOf(h)
    <3>1. /\ 1 \in Nat /\ i - 1 \in Nat /\ 1 >= 1 /\ 1 <= (i - 1) + 1 /\ i - 1 <= Len(h)
      BY <1>1, <2>1
    <3> QED BY <1>3, <3>1, NoDotIn DEF Numbered
  <2>3. \A x \in i + 1 .. j - 1 : x \notin DotsOf(h)
    <3>1. i + 1 \in Nat /\ j - 1 \in Nat /\ i + 1 >= 1 /\ i + 1 <= (j - 1) + 1 /\ j - 1 <= Len(h)
      BY <1>1, <1>3, <2>1
    <3> QED BY <1>3, <3>1, NoDotIn DEF Numbered
  <2>4. \A x \in j + 1 .. k - 1 : x \notin DotsOf(h)
    <3>1. j + 1 \in Nat /\ k - 1 \in Nat /\ j + 1 >= 1 /\ j + 1 <= (k - 1) + 1 /\ k - 1 <= Len(h)
      BY <1>1, <1>3, <2>1
    <3> QED BY <1>3, <3>1, NoDotIn DEF Numbered
  <2>5. \A x \in k + 1 .. Len(h) : x \notin DotsOf(h)
    <3>1. k + 1 \in Nat /\ k + 1 >= 1 /\ k + 1 <= Len(h) + 1 /\ Len(h) <= Len(h)
      BY <1>1, <2>1
    <3> QED BY <1>1, <1>3, <3>1, NoDotIn DEF Numbered
  <2>6. ASSUME NEW x \in DotsOf(h) PROVE x \in {i, j, k}
    <3>1. x \in 1 .. Len(h)
      BY <1>1 DEF DotsOf
    <3>2. \/ x \in 1 .. i - 1 \/ x = i \/ x \in i + 1 .. j - 1 \/ x = j
          \/ x \in j + 1 .. k - 1 \/ x = k \/ x \in k + 1 .. Len(h)
      BY <1>1, <2>1, <3>1
    <3> QED BY <2>2, <2>3, <2>4, <2>5, <2>6, <3>2
  <2>7. DotsOf(h) = {i, j, k}
    BY <2>6
  <2> QED BY <1>3, <2>1, <2>7 DEF ThreeDots
<1>4. ASSUME NEW i \in Nat, NEW j \in Nat, NEW k \in Nat, ThreeDots(h, i, j, k)
      PROVE  i \in DotsOf(h) /\ j \in DotsOf(h) /\ k \in DotsOf(h) /\ i < j /\ j < k
  BY <1>4 DEF ThreeDots
<1> QED BY <1>2, <1>3, <1>4

(* ip_check lets an address through just when it is that.                  *)
LEMMA CheckIsQuad ==
  ASSUME NEW h \in Seq(Char)
  PROVE  ip_check(h) <=> Quad(h)
<1>1. Len(h) \in Nat /\ DOMAIN h = 1 .. Len(h)
  BY LenProperties
<1>2. ASSUME ip_check(h) PROVE Quad(h)
  <2>1. doCheck(h)
    BY <1>2 DEF ip_check
  <2> DEFINE Begins == {1} \cup {x + 1 : x \in DotsOf(h)}
  <2>2. Cardinality(Begins) = 4
    BY <2>1 DEF doCheck, DotsOf
  <2>3. Begins \in SUBSET (1 .. Len(h) + 1)
    BY <1>1 DEF DotsOf
  <2>4. Begins \in SUBSET Nat /\ IsFiniteSet(Begins)
    <3>1. 1 \in Int /\ Len(h) + 1 \in Int
      BY <1>1
    <3>2. IsFiniteSet(1 .. Len(h) + 1)
      BY <3>1, FS_Interval
    <3> HIDE DEF Begins
    <3>3. IsFiniteSet(Begins)
      BY <2>3, <3>2, FS_Subset
    <3>4. \A x \in 1 .. Len(h) + 1 : x \in Nat
      BY <1>1
    <3> QED BY <2>3, <3>3, <3>4
  <2>5. \A x \in Nat : x \in DotsOf(h) <=> x >= 1 /\ x + 1 \in Begins
    BY <1>1 DEF DotsOf
  <2>6. 1 \in Begins /\ DotsOf(h) \in SUBSET Nat
    BY <1>1 DEF DotsOf
  <2> HIDE DEF Begins
  <2>7. PICK a, b, c, d \in Begins : a < b /\ b < c /\ c < d /\ Begins = {a, b, c, d}
    BY <2>2, <2>4, FourApart
  <2>8. a = 1 /\ b \in Nat /\ c \in Nat /\ d \in Nat /\ b >= 2
    BY <2>3, <2>6, <2>7
  <2>9. PICK i, j, k \in Nat : i = b - 1 /\ j = c - 1 /\ k = d - 1
    BY <2>7, <2>8
  <2>10. i >= 1 /\ i < j /\ j < k /\ b = i + 1 /\ c = j + 1 /\ d = k + 1
    BY <2>7, <2>8, <2>9
  <2>11. DotsOf(h) = {i, j, k}
    <3>1. ASSUME NEW x \in Nat PROVE x \in DotsOf(h) <=> x \in {i, j, k}
      <4>1. x + 1 \in Begins <=> x + 1 = 1 \/ x + 1 = i + 1 \/ x + 1 = j + 1 \/ x + 1 = k + 1
        BY <2>7, <2>8, <2>10
      <4> QED BY <2>5, <2>10, <4>1
    <3> QED BY <2>6, <3>1
  <2>12. ThreeDots(h, i, j, k)
    BY <2>10, <2>11 DEF ThreeDots
  <2> QED BY <2>1, <2>12, CheckIs, QuadIs
<1>3. ASSUME Quad(h) PROVE ip_check(h)
  <2>1. PICK i, j, k \in Nat : ThreeDots(h, i, j, k) /\ Numbered(h, i, j, k)
    BY <1>3, QuadIs
  <2>2. doCheck(h)
    BY <2>1, CheckIs
  <2>3. i \in 1 .. Len(h) /\ h[i] = Dot
    BY <1>1, <2>1 DEF ThreeDots, DotsOf
  <2> QED BY <2>2, <2>3 DEF ip_check, Contains
<1> QED BY <1>2, <1>3

-----------------------------------------------------------------------------
(* The text of a URL.                                                      *)

(* A part that has no c, and nothing behind it but what begins with c.     *)
LEMMA CutOff ==
  ASSUME NEW s \in Seq(Char), NEW t \in Seq(Char), NEW c, c \notin Range(s),
         t = <<>> \/ t[1] = c
  PROVE  Before(s \o t, c) = s
<1> DEFINE w == s \o t
           n == Len(s)
<1>1. /\ w \in Seq(Char) /\ Len(w) = n + Len(t)
      /\ \A i \in 1 .. n + Len(t) : w[i] = IF i <= n THEN s[i] ELSE t[i - n]
  BY ConcatProperties
<1>2. n \in Nat /\ Len(t) \in Nat /\ \A i \in 1 .. n : s[i] # c
  BY RangeIs
<1> HIDE DEF w
<1>3. n \in 0 .. Len(w)
  BY <1>1, <1>2
<1>4. \A i \in 1 .. n : w[i] = s[i]
  BY <1>1, <1>2
<1>5. n < Len(w) => w[n + 1] = c
  <2> SUFFICES ASSUME n < Len(w) PROVE w[n + 1] = c
    OBVIOUS
  <2>1. n + 1 \in 1 .. n + Len(t) /\ ~(n + 1 <= n) /\ (n + 1) - n = 1 /\ Len(t) # 0
    BY <1>1, <1>2
  <2>2. t # <<>>
    BY <2>1, EmptySeq
  <2> QED BY <1>1, <2>1, <2>2
<1>6. Before(w, c) = SubSeq(w, 1, n)
  <2>1. \A i \in 1 .. n : w[i] # c
    BY <1>2, <1>4
  <2> HIDE DEF n
  <2> QED BY <1>1, <1>3, <1>5, <2>1, BeforeIs
<1>7. SubSeq(w, 1, n) = s
  <2>1. 1 \in Nat /\ 1 >= 1 /\ 1 <= n + 1 /\ n <= Len(w) /\ (n - 1) + 1 = n
    BY <1>2, <1>3
  <2> DEFINE v == SubSeq(w, 1, n)
  <2>2. v \in Seq(Char) /\ Len(v) = n /\ \A i \in 1 .. n : v[(i - 1) + 1] = w[i]
    BY <1>1, <1>2, <2>1, CutIs
  <2> HIDE DEF v
  <2>3. ASSUME NEW i \in 1 .. n PROVE v[i] = s[i]
    <3>1. (i - 1) + 1 = i
      OBVIOUS
    <3> QED BY <1>4, <2>2, <3>1
  <2>4. v = s
    BY <2>2, <2>3, SeqEqual
  <2> QED BY <2>4 DEF v
<1> QED BY <1>6, <1>7 DEF w

(* The part behind the first c.                                            *)
LEMMA CutAfter ==
  ASSUME NEW s \in Seq(Char), NEW t \in Seq(Char), NEW c \in Char, c \notin Range(s)
  PROVE  After(s \o (<<c>> \o t), c) = t
<1> DEFINE u == <<c>> \o t
           w == s \o u
           n == Len(s)
           m == Len(t)
<1>1. /\ u \in Seq(Char) /\ Len(u) = m + 1 /\ u[1] = c /\ m \in Nat /\ n \in Nat
      /\ \A i \in 1 .. m : u[i + 1] = t[i]
  <2>1. <<c>> \in Seq(Char) /\ Len(<<c>>) = 1 /\ <<c>>[1] = c
    OBVIOUS
  <2> DEFINE o == <<c>>
  <2> HIDE DEF o
  <2>2. o \in Seq(Char) /\ Len(o) = 1 /\ o[1] = c
    BY <2>1 DEF o
  <2>3. /\ o \o t \in Seq(Char) /\ Len(o \o t) = Len(o) + m
        /\ \A i \in 1 .. Len(o) + m : (o \o t)[i] = IF i <= Len(o) THEN o[i] ELSE t[i - Len(o)]
    BY <2>2, ConcatProperties
  <2>4. m \in Nat /\ n \in Nat
    BY LenProperties
  <2>5. (o \o t)[1] = c
    BY <2>2, <2>3, <2>4
  <2>6. ASSUME NEW i \in 1 .. m PROVE (o \o t)[i + 1] = t[i]
    <3>1. i + 1 \in 1 .. Len(o) + m /\ ~(i + 1 <= Len(o)) /\ (i + 1) - Len(o) = i
      BY <2>2, <2>4
    <3> QED BY <2>3, <3>1
  <2>7. Len(o \o t) = m + 1
    BY <2>2, <2>3, <2>4
  <2> QED BY <2>3, <2>4, <2>5, <2>6, <2>7 DEF o
<1> HIDE DEF u
<1>2. Before(w, c) = s
  BY <1>1, CutOff
<1>3. /\ w \in Seq(Char) /\ Len(w) = n + (m + 1)
      /\ \A i \in 1 .. n + (m + 1) : w[i] = IF i <= n THEN s[i] ELSE u[i - n]
  <2>1. u \in Seq(Char) /\ Len(u) = m + 1
    BY <1>1
  <2>2. /\ w \in Seq(Char) /\ Len(w) = n + Len(u)
        /\ \A i \in 1 .. n + Len(u) : w[i] = IF i <= n THEN s[i] ELSE u[i - n]
    BY <2>1, ConcatProperties
  <2> HIDE DEF n, m, w
  <2> QED BY <2>1, <2>2
<1> HIDE DEF w
<1> DEFINE v == SubSeq(w, n + 2, Len(w))
<1>4. v \in Seq(Char) /\ Len(v) = m /\ \A k \in 1 .. m : v[k] = w[((n + 2) + k) - 1]
  <2>1. /\ n + 2 \in Nat /\ n + 2 >= 1 /\ Len(w) \in Nat /\ Len(w) <= Len(w) /\ n + 2 <= Len(w) + 1
        /\ (Len(w) - (n + 2)) + 1 = m
    BY <1>1, <1>3
  <2> QED BY <1>3, <2>1, CutIs
<1>5. After(w, c) = v
  BY <1>2 DEF After
<1> HIDE DEF v
<1>6. ASSUME NEW k \in 1 .. m PROVE v[k] = t[k]
  <2>1. /\ ((n + 2) + k) - 1 = n + (k + 1) /\ n + (k + 1) \in 1 .. n + (m + 1)
        /\ ~(n + (k + 1) <= n) /\ (n + (k + 1)) - n = k + 1
    BY <1>1
  <2> QED BY <1>1, <1>3, <1>4, <2>1
<1>7. v = t
  BY <1>4, <1>6, SeqEqual
<1> QED BY <1>5, <1>7 DEF w, u

(* What the parser finds in a URL.                                         *)
LEMMA TextIs ==
  ASSUME NEW u, u.host \in Hosts, u.port \in Ports \cup {NoPort}, u.path \in Paths
  PROVE  LET buf == WithoutPath(Text(u))
         IN /\ u.host \in Seq(Char) /\ Before(buf, Colon) = u.host
            /\ Contains(buf, Colon) <=> u.port # NoPort
            /\ u.port # NoPort => After(buf, Colon) = u.port /\ u.port \in Ports
            /\ u.port = NoPort => buf = u.host
<1> DEFINE h == u.host
           q == u.path
           p == IF u.port = NoPort THEN <<>> ELSE <<Colon>> \o u.port
           buf == WithoutPath(Text(u))
<1>1. /\ h \in Seq(Char) /\ Colon \notin Range(h) /\ Slash \notin Range(h)
      /\ q \in Seq(Char) /\ (q = <<>> \/ q[1] = Slash)
  BY AddressAssumption
<1>2. Colon \in Char /\ Slash # Colon
  BY DEF Char, Colon, Slash
<1>3. p \in Seq(Char) /\ Slash \notin Range(p)
  <2>1. CASE u.port = NoPort
    <3>1. p = <<>> /\ p \in Seq(Char) /\ Len(p) = 0
      BY <2>1
    <3> HIDE DEF p
    <3>2. p \in Seq(Char) /\ ~\E i \in 1 .. Len(p) : p[i] = Slash
      BY <3>1
    <3> QED BY <3>2, RangeIs
  <2>2. CASE u.port # NoPort
    <3>1. u.port \in Seq(Char) /\ Slash \notin Range(u.port)
      BY <2>2, AddressAssumption
    <3>2. <<Colon>> \in Seq(Char) /\ Len(<<Colon>>) = 1 /\ <<Colon>>[1] = Colon
      BY <1>2
    <3> DEFINE o == <<Colon>>
               r == u.port
    <3> HIDE DEF o
    <3>3. o \in Seq(Char) /\ Len(o) = 1 /\ o[1] = Colon
      BY <3>2 DEF o
    <3> HIDE DEF r
    <3>4. r \in Seq(Char) /\ Slash \notin Range(r)
      BY <3>1 DEF r
    <3>5. /\ o \o r \in Seq(Char) /\ Len(o \o r) = Len(o) + Len(r)
          /\ \A i \in 1 .. Len(o) + Len(r) : (o \o r)[i] = IF i <= Len(o) THEN o[i] ELSE r[i - Len(o)]
      BY <3>3, <3>4, ConcatProperties
    <3>6. Len(r) \in Nat /\ \A i \in 1 .. Len(r) : r[i] # Slash
      BY <3>4, RangeIs
    <3>7. ASSUME NEW i \in 1 .. Len(o \o r) PROVE (o \o r)[i] # Slash
      <4>1. i <= 1 => i = 1
        BY <3>3, <3>5, <3>6
      <4>2. ~(i <= 1) => i - 1 \in 1 .. Len(r)
        BY <3>3, <3>5, <3>6
      <4> QED BY <1>2, <3>3, <3>5, <3>6, <4>1, <4>2
    <3>8. Slash \notin Range(o \o r)
      BY <3>5, <3>7, RangeIs
    <3> QED BY <2>2, <3>5, <3>8 DEF o, r
  <2> QED BY <2>1, <2>2
<1>4. buf = h \o p
  <2>1. Text(u) = (h \o p) \o q
    BY DEF Text
  <2> HIDE DEF h, p, q
  <2>2. h \o p \in Seq(Char) /\ Slash \notin Range(h \o p)
    <3>1. /\ h \o p \in Seq(Char) /\ Len(h \o p) = Len(h) + Len(p)
          /\ \A i \in 1 .. Len(h) + Len(p) : (h \o p)[i] = IF i <= Len(h) THEN h[i] ELSE p[i - Len(h)]
      BY <1>1, <1>3, ConcatProperties
    <3>2. /\ Len(h) \in Nat /\ \A i \in 1 .. Len(h) : h[i] # Slash
          /\ Len(p) \in Nat /\ \A i \in 1 .. Len(p) : p[i] # Slash
      BY <1>1, <1>3, RangeIs
    <3>3. ASSUME NEW i \in 1 .. Len(h \o p) PROVE (h \o p)[i] # Slash
      <4>1. ~(i <= Len(h)) => i - Len(h) \in 1 .. Len(p)
        BY <3>1, <3>2
      <4>2. i <= Len(h) => i \in 1 .. Len(h)
        BY <3>1, <3>2
      <4> QED BY <3>1, <3>2, <4>1, <4>2
    <3> QED BY <3>1, <3>3, RangeIs
  <2> DEFINE x == h \o p
  <2> HIDE DEF x
  <2>3. Before(x \o q, Slash) = x
    BY <1>1, <2>2, CutOff DEF x
  <2> QED BY <2>1, <2>3 DEF WithoutPath, x
<1> HIDE DEF buf
<1>5. CASE u.port = NoPort
  <2>1. p = <<>> /\ buf = h
    <3>1. p = <<>>
      BY <1>5
    <3> HIDE DEF h, p
    <3> QED BY <1>1, <1>4, <3>1, ConcatEmptySeq
  <2> HIDE DEF h
  <2>2. ~Contains(buf, Colon)
    BY <1>1, <2>1, RangeIs DEF Contains
  <2>3. Before(h \o <<>>, Colon) = h
    <3>1. <<>> \in Seq(Char)
      OBVIOUS
    <3> QED BY <1>1, <3>1, CutOff
  <2>4. h \o <<>> = h
    BY <1>1, ConcatEmptySeq
  <2> QED BY <1>1, <1>5, <2>1, <2>2, <2>3, <2>4 DEF buf, h
<1>6. CASE u.port # NoPort
  <2>1. u.port \in Ports /\ u.port \in Seq(Char)
    BY <1>6, AddressAssumption
  <2> DEFINE r == u.port
  <2>2. p = <<Colon>> \o r
    BY <1>6
  <2>3. r \in Seq(Char)
    BY <2>1
  <2> HIDE DEF h, p, r
  <2>4. Len(p) = Len(r) + 1 /\ p[1] = Colon /\ Len(r) \in Nat
    <3>1. <<Colon>> \in Seq(Char) /\ Len(<<Colon>>) = 1 /\ <<Colon>>[1] = Colon
      BY <1>2
    <3> DEFINE o == <<Colon>>
    <3> HIDE DEF o
    <3>2. o \in Seq(Char) /\ Len(o) = 1 /\ o[1] = Colon
      BY <3>1 DEF o
    <3>3. /\ Len(o \o r) = Len(o) + Len(r) /\ Len(r) \in Nat
          /\ \A i \in 1 .. Len(o) + Len(r) : (o \o r)[i] = IF i <= Len(o) THEN o[i] ELSE r[i - Len(o)]
      BY <2>3, <3>2, ConcatProperties, LenProperties
    <3>4. (o \o r)[1] = Colon /\ Len(o \o r) = Len(r) + 1
      BY <3>2, <3>3
    <3> QED BY <2>2, <3>3, <3>4 DEF o
  <2>5. Before(buf, Colon) = h
    BY <1>1, <1>3, <1>4, <2>4, CutOff
  <2>6. After(buf, Colon) = r
    BY <1>1, <1>2, <1>4, <2>2, <2>3, CutAfter
  <2>7. Contains(buf, Colon)
    <3>1. /\ Len(h \o p) = Len(h) + Len(p) /\ Len(h) \in Nat
          /\ \A i \in 1 .. Len(h) + Len(p) : (h \o p)[i] = IF i <= Len(h) THEN h[i] ELSE p[i - Len(h)]
      BY <1>1, <1>3, ConcatProperties, LenProperties
    <3>2. Len(h) + 1 \in 1 .. Len(h \o p) /\ ~(Len(h) + 1 <= Len(h)) /\ (Len(h) + 1) - Len(h) = 1
      BY <2>4, <3>1
    <3>3. (h \o p)[Len(h) + 1] = Colon
      BY <2>4, <3>1, <3>2
    <3> QED BY <1>4, <3>2, <3>3 DEF Contains
  <2> QED BY <1>1, <1>6, <2>1, <2>5, <2>6, <2>7 DEF buf, h, r
<1> QED BY <1>5, <1>6

(* An address that ip_check lets through fits host_buf, and is not empty.  *)
LEMMA QuadShort ==
  ASSUME NEW h \in Seq(Char), Quad(h)
  PROVE  Len(h) \in Nat /\ Len(h) < HostBufSize /\ h # <<>>
<1>1. PICK i, j, k \in Nat : ThreeDots(h, i, j, k) /\ Numbered(h, i, j, k)
  BY QuadIs
<1>2. i >= 1 /\ k <= Len(h) /\ Len(h) \in Nat /\ i < j /\ j < k
  BY <1>1, PartsAre DEF ThreeDots
<1> DEFINE p == SubSeq(h, 1, i - 1)
           q == SubSeq(h, i + 1, j - 1)
           r == SubSeq(h, j + 1, k - 1)
           s == SubSeq(h, k + 1, Len(h))
<1>3. Len(p) = ((i - 1) - 1) + 1
  <2>1. 1 \in Nat /\ 1 >= 1 /\ i - 1 \in Nat /\ 1 <= (i - 1) + 1 /\ i - 1 <= Len(h)
    BY <1>2
  <2> QED BY <2>1, CutIs
<1>4. Len(q) = ((j - 1) - (i + 1)) + 1
  <2>1. i + 1 \in Nat /\ i + 1 >= 1 /\ j - 1 \in Nat /\ j - 1 <= Len(h) /\ i + 1 <= (j - 1) + 1
    BY <1>2
  <2> QED BY <2>1, CutIs
<1>5. Len(r) = ((k - 1) - (j + 1)) + 1
  <2>1. j + 1 \in Nat /\ j + 1 >= 1 /\ k - 1 \in Nat /\ k - 1 <= Len(h) /\ j + 1 <= (k - 1) + 1
    BY <1>2
  <2> QED BY <2>1, CutIs
<1>6. Len(s) = (Len(h) - (k + 1)) + 1
  <2>1. k + 1 \in Nat /\ k + 1 >= 1 /\ k + 1 <= Len(h) + 1 /\ Len(h) <= Len(h)
    BY <1>2
  <2> QED BY <1>2, <2>1, CutIs
<1>7. (p \in Numerals \/ p = <<>>) /\ q \in Numerals /\ r \in Numerals /\ s \in Numerals
  BY <1>1 DEF Numbered
<1> HIDE DEF p, q, r, s
<1>8. PICK a \in 0 .. 3, b \in 1 .. 3, c \in 1 .. 3, d \in 1 .. 3 :
        a = Len(p) /\ b = Len(q) /\ c = Len(r) /\ d = Len(s)
  <2>1. Len(q) \in 1 .. 3 /\ Len(r) \in 1 .. 3 /\ Len(s) \in 1 .. 3
    BY <1>7, NumeralsAre
  <2>2. Len(p) \in 0 .. 3
    <3>1. CASE p \in Numerals
      <4>1. Len(p) \in 1 .. 3
        BY <3>1, NumeralsAre
      <4> QED BY <4>1
    <3>2. CASE p = <<>>
      BY <3>2
    <3> QED BY <1>7, <3>1, <3>2
  <2> QED BY <2>1, <2>2
<1>9. PICK n \in Nat : n = Len(h)
  BY <1>2
<1>10. n <= 15 /\ n >= 1
  <2>1. /\ a = ((i - 1) - 1) + 1 /\ b = ((j - 1) - (i + 1)) + 1 /\ c = ((k - 1) - (j + 1)) + 1
        /\ d = (n - (k + 1)) + 1
    BY <1>3, <1>4, <1>5, <1>6, <1>8, <1>9
  <2> QED BY <1>2, <1>9, <2>1
<1>11. n < 64 /\ n # 0
  BY <1>10
<1> QED BY <1>9, <1>11 DEF HostBufSize

(* A remainder of 16 bits.                                                 *)
LEMMA ShortIs ==
  ASSUME NEW n \in Int
  PROVE  AsUnsignedShort(n) \in Nat /\ AsUnsignedShort(n) < 65536
BY DEF AsUnsignedShort

(* What atoi makes of characters is a whole number.                        *)
LEMMA AtoiIs ==
  ASSUME NEW s \in Seq(Char)
  PROVE  /\ Atoi(s) \in Int
         /\ Range(s) \subseteq Digit => Atoi(s) = Number(s)
<1>1. ASSUME NEW w \in Seq(Char) PROVE Number(Digits(w)) \in Nat
  <2> DEFINE T == {i \in DOMAIN w : w[i] \notin Digit} \cup {Len(w) + 1}
             n == Min(T) - 1
  <2>1. Len(w) \in Nat /\ DOMAIN w = 1 .. Len(w)
    BY LenProperties
  <2>2. T \in SUBSET Nat /\ T # {} /\ \A x \in T : x \in 1 .. Len(w) + 1
    BY <2>1
  <2>3. Len(w) + 1 \in T /\ \A x \in 1 .. Len(w) : x \notin T => w[x] \in Digit
    BY <2>1
  <2> HIDE DEF T
  <2>4. Min(T) \in T /\ \A y \in T : Min(T) <= y
    <3>1. \E x \in T : \A y \in T : x <= y
      BY <2>2, LeastInSet
    <3> QED BY <3>1 DEF Min
  <2>5. n \in 0 .. Len(w) /\ \A x \in 1 .. n : w[x] \in Digit
    <3>1. Min(T) \in 1 .. Len(w) + 1
      BY <2>2, <2>4
    <3>2. n \in 0 .. Len(w) /\ n + 1 = Min(T)
      BY <2>1, <3>1
    <3> HIDE DEF n
    <3>3. ASSUME NEW x \in 1 .. n PROVE w[x] \in Digit
      <4>1. x \in 1 .. Len(w) /\ ~(n + 1 <= x) /\ x \in Nat
        BY <2>1, <3>2
      <4>2. x \notin T
        BY <2>4, <3>2, <4>1
      <4> QED BY <2>3, <4>1, <4>2
    <3> QED BY <3>2, <3>3
  <2>6. Digits(w) = SubSeq(w, 1, n)
    BY DEF Digits, T
  <2> HIDE DEF n
  <2>7. SubSeq(w, 1, n) \in Seq(Digit)
    <3>1. 1 \in Int /\ n \in Int
      BY <2>1, <2>5
    <3> QED BY <2>5, <3>1, SubSeqProperties
  <2> QED BY <2>6, <2>7, NumberSmall
<1>2. CASE s # <<>> /\ s[1] = Minus
  <2>1. Tail(s) \in Seq(Char)
    BY <1>2, HeadTailProperties
  <2>2. Atoi(s) \in Int
    <3>1. PICK n \in Nat : n = Number(Digits(Tail(s)))
      BY <1>1, <2>1
    <3>2. Atoi(s) = 0 - n
      BY <1>2, <3>1 DEF Atoi
    <3> QED BY <3>2
  <2>3. ~(Range(s) \subseteq Digit)
    <3>1. 1 \in 1 .. Len(s)
      BY <1>2, EmptySeq
    <3>2. Minus \in Range(s)
      BY <1>2, <3>1, RangeIs
    <3> QED BY <3>2 DEF Digit, Minus
  <2> QED BY <2>2, <2>3
<1>3. CASE ~(s # <<>> /\ s[1] = Minus)
  <2>1. Atoi(s) = Number(Digits(s))
    BY <1>3 DEF Atoi
  <2>2. Number(Digits(s)) \in Nat
    BY <1>1
  <2>3. Range(s) \subseteq Digit => Digits(s) = s
    BY AllDigits, DigitsIs
  <2> QED BY <2>1, <2>2, <2>3
<1> QED BY <1>2, <1>3

-----------------------------------------------------------------------------
(* The inductive invariant.                                                *)

(* What was cut out of the URL.                                            *)
Cutout ==
  /\ url.scheme
  /\ host = IF Len(url.host) < HostBufSize THEN url.host ELSE <<>>
  /\ url.port = NoPort => port = 554
  /\ url.port # NoPort => port = AsUnsignedShort(Atoi(url.port))

(* The invariant: what the verdict says of the URL and of the two parts.   *)
IInv ==
  /\ url.host \in Hosts /\ url.port \in Ports \cup {NoPort} /\ url.path \in Paths
  /\ verdict \in {"new", "parsed", "connect", "refused"}
  /\ verdict = "new" => host = <<>>
  /\ verdict \in {"parsed", "connect"} => Cutout
  /\ verdict = "connect" => Quad(host) /\ port # 0
  /\ verdict = "refused" => ~url.scheme \/ ~Quad(url.host) \/ port = 0

(* parse_rtsp_addr cuts out the host and the port, or refuses the URL.     *)
LEMMA ParseStep ==
  ASSUME IInv, Parse
  PROVE  IInv'
<1> DEFINE buf == WithoutPath(Text(url))
<1>1. /\ url.host \in Seq(Char) /\ Before(buf, Colon) = url.host
      /\ Contains(buf, Colon) <=> url.port # NoPort
      /\ url.port # NoPort => After(buf, Colon) = url.port /\ url.port \in Ports
      /\ url.port = NoPort => buf = url.host
  BY TextIs DEF IInv
<1>2. verdict = "new" /\ host = <<>> /\ url' = url
  BY DEF Parse, IInv
<1>3. \/ /\ ~url.scheme \/ (Contains(buf, Colon) /\ Len(Before(buf, Colon)) >= HostBufSize)
         /\ verdict' = "refused" /\ UNCHANGED <<host, port>>
      \/ /\ url.scheme /\ Contains(buf, Colon) /\ Len(Before(buf, Colon)) < HostBufSize
         /\ host' = Before(buf, Colon) /\ port' = AsUnsignedShort(Atoi(After(buf, Colon)))
         /\ verdict' = "parsed"
      \/ /\ url.scheme /\ ~Contains(buf, Colon)
         /\ host' = IF Len(buf) < HostBufSize THEN buf ELSE host
         /\ port' = 554
         /\ verdict' = "parsed"
  BY DEF Parse
<1> HIDE DEF buf
<1>4. CASE /\ ~url.scheme \/ (Contains(buf, Colon) /\ Len(Before(buf, Colon)) >= HostBufSize)
           /\ verdict' = "refused" /\ UNCHANGED <<host, port>>
  <2>1. ~url.scheme \/ ~Quad(url.host)
    <3> SUFFICES ASSUME Len(url.host) >= HostBufSize PROVE ~Quad(url.host)
      BY <1>1, <1>4
    <3> SUFFICES ASSUME Quad(url.host) PROVE FALSE
      OBVIOUS
    <3>1. Len(url.host) \in Nat /\ Len(url.host) < HostBufSize
      BY <1>1, QuadShort
    <3> QED BY <3>1 DEF HostBufSize
  <2> QED BY <1>2, <1>4, <2>1 DEF IInv
<1>5. CASE /\ url.scheme /\ Contains(buf, Colon) /\ Len(Before(buf, Colon)) < HostBufSize
           /\ host' = Before(buf, Colon) /\ port' = AsUnsignedShort(Atoi(After(buf, Colon)))
           /\ verdict' = "parsed"
  <2>1. Cutout'
    BY <1>1, <1>2, <1>5 DEF Cutout
  <2> QED BY <1>2, <1>5, <2>1 DEF IInv
<1>6. CASE /\ url.scheme /\ ~Contains(buf, Colon)
           /\ host' = IF Len(buf) < HostBufSize THEN buf ELSE host
           /\ port' = 554
           /\ verdict' = "parsed"
  <2>1. Cutout'
    BY <1>1, <1>2, <1>6 DEF Cutout
  <2> QED BY <1>2, <1>6, <2>1 DEF IInv
<1> QED BY <1>3, <1>4, <1>5, <1>6

(* Only an address and a port other than 0 are connected to; others fail.  *)
LEMMA CheckStep ==
  ASSUME IInv, Check
  PROVE  IInv'
<1>1. /\ verdict = "parsed" /\ UNCHANGED <<url, host, port>>
      /\ verdict' = IF ip_check(host) /\ port # 0 THEN "connect" ELSE "refused"
  BY DEF Check
<1>2. Cutout /\ url.host \in Seq(Char)
  BY <1>1, AddressAssumption DEF IInv
<1>3. host \in Seq(Char)
  BY <1>2, EmptySeq DEF Cutout
<1>4. ip_check(host) <=> Quad(host)
  BY <1>3, CheckIsQuad
<1>5. Quad(url.host) => Quad(host)
  BY <1>2, QuadShort DEF Cutout
<1>6. Cutout'
  BY <1>1, <1>2 DEF Cutout
<1>7. verdict' = "connect" => Quad(host)' /\ port' # 0
  BY <1>1, <1>4
<1>8. verdict' = "refused" => ~Quad(url.host)' \/ port' = 0
  BY <1>1, <1>4, <1>5
<1>9. verdict' \in {"connect", "refused"}
  BY <1>1
<1>10. url'.host \in Hosts /\ url'.port \in Ports \cup {NoPort} /\ url'.path \in Paths
  BY <1>1 DEF IInv
<1> QED BY <1>6, <1>7, <1>8, <1>9, <1>10 DEF IInv

(* Every step keeps the invariant.                                         *)
LEMMA StepInv == IInv /\ [Next]_vars => IInv'
<1> SUFFICES ASSUME IInv, [Next]_vars PROVE IInv'
  OBVIOUS
<1>1. CASE Parse
  BY <1>1, ParseStep
<1>2. CASE Check
  BY <1>2, CheckStep
<1>3. CASE UNCHANGED vars
  BY <1>3 DEF vars, IInv, Cutout
<1> QED BY <1>1, <1>2, <1>3 DEF Next

-----------------------------------------------------------------------------
(* The theorems.                                                           *)

(* IInv is an invariant of the client's parser, for every set of URLs.     *)
THEOREM InductiveInvariant == Spec => []IInv
<1>1. Init => IInv
  BY DEF Init, IInv
<1> QED BY <1>1, StepInv, PTL DEF Spec

(* The client connects to four bytes in decimal, or to three behind an     *)
(* empty one, and refuses such an address for its port only.               *)
THEOREM OnlyQuadsAreAccepted == Spec => []QuadsAccepted
<1>1. IInv => QuadsAccepted
  <2> SUFFICES ASSUME IInv PROVE QuadsAccepted
    OBVIOUS
  <2>1. ASSUME verdict = "connect" PROVE url.scheme /\ host = url.host /\ Quad(url.host)
    <3>1. Cutout /\ Quad(host)
      BY <2>1 DEF IInv
    <3>2. ~Quad(<<>>)
      <4>1. <<>> \in Seq(Char)
        BY EmptySeq
      <4> QED BY <4>1, QuadShort
    <3>3. host = url.host
      BY <3>1, <3>2 DEF Cutout
    <3> QED BY <3>1, <3>3 DEF Cutout
  <2> QED BY <2>1 DEF QuadsAccepted, IInv
<1> QED BY <1>1, InductiveInvariant, PTL

(* The port connected to is the number after the colon modulo 2^16, or 554 *)
(* if there is no colon; it is never 0.                                    *)
THEOREM PortIsTheUrls == Spec => []PortTaken
<1>1. IInv => PortTaken
  <2> SUFFICES ASSUME IInv, verdict = "connect"
               PROVE  /\ port \in Nat /\ 0 < port /\ port < 65536
                      /\ url.port = NoPort => port = 554
                      /\ url.port # NoPort /\ Range(url.port) \subseteq Digit
                           => port = Value(url.port) % 65536
    BY DEF PortTaken
  <2>1. Cutout /\ port # 0 /\ url.port \in Ports \cup {NoPort}
    BY DEF IInv
  <2>2. CASE url.port = NoPort
    <3>1. port = 554
      BY <2>1, <2>2 DEF Cutout
    <3>2. port \in Nat /\ 0 < port /\ port < 65536
      BY <3>1
    <3> QED BY <2>2, <3>1, <3>2
  <2>3. CASE url.port # NoPort
    <3>1. url.port \in Seq(Char) /\ Len(url.port) <= 7
      BY <2>1, <2>3, AddressAssumption
    <3>2. PICK n : n = Atoi(url.port)
      OBVIOUS
    <3>3. port = AsUnsignedShort(n) /\ n \in Int
      BY <2>1, <2>3, <3>1, <3>2, AtoiIs DEF Cutout
    <3>4. port \in Nat /\ 0 < port /\ port < 65536
      <4>1. port \in Nat /\ port < 65536
        BY <3>3, ShortIs
      <4> QED BY <2>1, <4>1
    <3>5. ASSUME Range(url.port) \subseteq Digit PROVE port = Value(url.port) % 65536
      <4>1. n = Number(url.port) /\ url.port \in Seq(Digit)
        BY <3>1, <3>2, <3>5, AtoiIs, AllDigits
      <4>2. Number(url.port) = Value(url.port)
        BY <3>1, <4>1, NumberIsValue
      <4>3. port = n % 65536
        BY <3>3 DEF AsUnsignedShort
      <4> QED BY <4>1, <4>2, <4>3
    <3> QED BY <2>3, <3>4, <3>5
  <2> QED BY <2>2, <2>3
<1> QED BY <1>1, InductiveInvariant, PTL
=============================================================================
