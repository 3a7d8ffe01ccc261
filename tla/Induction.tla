------------------------------ MODULE Induction ------------------------------
(***************************************************************************)
(* Induction over the natural numbers, stated for a set instead of a       *)
(* predicate: P(n) holds for every n if {n \in Nat : P(n)} is Nat.         *)
(***************************************************************************)
EXTENDS Integers, WellFoundedInduction, TLAPS

(* A set of natural numbers that is not empty has a least element.         *)
LEMMA LeastInSet ==
  ASSUME NEW S \in SUBSET Nat, S # {}
  PROVE  \E m \in S : \A k \in S : m <= k
<1> DEFINE R == {ss \in Nat \X Nat : ss[1] < ss[2]}
<1>1. IsWellFoundedOn(R, Nat)
  BY NatLessThanWellFounded DEF OpToRel
<1>2. \A x, y \in Nat : <<y, x>> \in R <=> y < x
  OBVIOUS
<1> HIDE DEF R
<1>3. \E x \in S : \A y \in S : ~(<<y, x>> \in R)
  BY <1>1, WFMin
<1>4. PICK m \in S : \A k \in S : ~(<<k, m>> \in R)
  BY <1>3
<1>5. \A k \in S : ~(k < m)
  BY <1>2, <1>4
<1> QED BY <1>5

(* A set that holds 0, and the successor of each number it holds, holds    *)
(* all of them.                                                            *)
LEMMA NatInSet ==
  ASSUME NEW T, 0 \in T, \A n \in Nat : n \in T => n + 1 \in T
  PROVE  Nat \subseteq T
<1> DEFINE S == Nat \ T
<1> SUFFICES ASSUME S # {} PROVE FALSE
  OBVIOUS
<1>1. PICK m \in S : \A k \in S : m <= k
  BY LeastInSet
<1>2. m - 1 \in Nat /\ m - 1 \notin S
  BY <1>1
<1> QED BY <1>2

(* The same up to a bound.                                                 *)
LEMMA IntervalInSet ==
  ASSUME NEW N \in Nat, NEW T, 0 \in T, \A n \in 0 .. N - 1 : n \in T => n + 1 \in T
  PROVE  0 .. N \subseteq T
<1> DEFINE S == (0 .. N) \ T
<1> SUFFICES ASSUME S # {} PROVE FALSE
  OBVIOUS
<1>1. S \in SUBSET Nat
  OBVIOUS
<1>2. PICK m \in S : \A k \in S : m <= k
  BY <1>1, LeastInSet
<1>3. m - 1 \in 0 .. N - 1 /\ m - 1 \notin S
  BY <1>2
<1> QED BY <1>3

-----------------------------------------------------------------------------
(* g is the function on 0 .. N that starts with a and goes on with F,      *)
(* which is given the argument and the value before it.                    *)
Iterates(g, N, a, F) == g = [k \in 0 .. N |-> IF k = 0 THEN a ELSE F[<<k, g[k - 1]>>]]

(* Such a function exists: the functions defined by recursion on 0 .. N    *)
(* are what their definitions say.                                         *)
LEMMA RecursionExists ==
  ASSUME NEW N \in Nat, NEW X, NEW a \in X, NEW F,
         \A k \in 1 .. N, x \in X : F[<<k, x>>] \in X
  PROVE  \E g : Iterates(g, N, a, F) /\ \A k \in 0 .. N : g[k] \in X
<1> DEFINE Ok(g, n) == /\ g = [k \in 0 .. n |-> IF k = 0 THEN a ELSE F[<<k, g[k - 1]>>]]
                       /\ \A k \in 0 .. n : g[k] \in X
           T == {n \in 0 .. N : \E g : Ok(g, n)}
<1>1. 0 \in T
  <2> DEFINE g == [k \in 0 .. 0 |-> a]
  <2>1. Ok(g, 0)
    OBVIOUS
  <2> HIDE DEF Ok, g
  <2> QED BY <2>1
<1>2. ASSUME NEW n \in 0 .. N - 1, n \in T PROVE n + 1 \in T
  <2>1. PICK g : Ok(g, n)
    BY <1>2
  <2> DEFINE m == n + 1
             z == F[<<m, g[n]>>]
             h == [k \in 0 .. m |-> IF k = m THEN z ELSE g[k]]
  <2>2. m \in 1 .. N /\ m \in 0 .. m /\ n \in 0 .. n /\ m - 1 = n /\ m # 0
    OBVIOUS
  <2>3. \A k \in 0 .. m : k = m \/ (k # m /\ k \in 0 .. n)
    OBVIOUS
  <2>4. \A k \in 0 .. n : k \in 0 .. m /\ k # m /\ (k # 0 => k - 1 \in 0 .. n)
    OBVIOUS
  <2> HIDE DEF m
  <2>5. g[n] \in X
    BY <2>1, <2>2
  <2>6. z \in X
    BY <2>2, <2>5
  <2> HIDE DEF z
  <2>7. h[m] = z /\ \A k \in 0 .. n : h[k] = g[k]
    BY <2>2, <2>4
  <2>8. h = [k \in 0 .. m |-> h[k]]
    OBVIOUS
  <2> HIDE DEF h
  <2>9. ASSUME NEW k \in 0 .. m
        PROVE  h[k] \in X /\ h[k] = IF k = 0 THEN a ELSE F[<<k, h[k - 1]>>]
    <3>1. CASE k = m
      <4>1. h[k - 1] = g[n] /\ h[k] = z
        BY <2>2, <2>7, <3>1
      <4> QED BY <2>2, <2>6, <3>1, <4>1 DEF z
    <3>2. CASE k # m
      <4>1. k \in 0 .. n /\ h[k] = g[k]
        BY <2>3, <2>7, <3>2
      <4>2. k # 0 => h[k - 1] = g[k - 1]
        BY <2>4, <2>7, <4>1
      <4>3. g[k] \in X /\ g[k] = IF k = 0 THEN a ELSE F[<<k, g[k - 1]>>]
        BY <2>1, <4>1
      <4> QED BY <4>1, <4>2, <4>3
    <3> QED BY <3>1, <3>2
  <2>10. Ok(h, m)
    BY <2>8, <2>9
  <2>11. m \in 0 .. N
    BY <2>2
  <2> HIDE DEF Ok
  <2> QED BY <2>10, <2>11 DEF m
<1> HIDE DEF Ok, T
<1>3. N \in T
  <2>1. 0 .. N \subseteq T
    BY <1>1, <1>2, IntervalInSet
  <2> QED BY <2>1
<1> QED BY <1>3 DEF Ok, T, Iterates
=============================================================================
