--------------------------- MODULE AbListProofs -----------------------------
(***************************************************************************)
(* Proofs about AbList.                                                    *)
(*                                                                         *)
(* The argument: the allocated nodes make up four chains, each of them a   *)
(* sequence of nodes in which every rest points to the next one, and no    *)
(* node is on two of them or twice on one (IInv).  So a write to the rest  *)
(* of a node changes one chain only, and a freed node was on one chain     *)
(* only.  At each turn of a loop a node goes over from one chain to        *)
(* another, or is freed and leaves its chain; what the list is said to     *)
(* hold (ListValue) is the same before and after.                          *)
(***************************************************************************)
EXTENDS AbList, Induction, SequenceTheorems, FiniteSetTheorems

-----------------------------------------------------------------------------
(* Sequences.                                                              *)

(* The elements of s, and the last one.                                    *)
On(s) == {s[i] : i \in 1 .. Len(s)}
LastOf(s) == IF s = <<>> THEN NULL ELSE s[Len(s)]

(* No element is twice on s.                                               *)
Once(s) == \A i, j \in 1 .. Len(s) : s[i] = s[j] => i = j

(* An element in front of a sequence.                                      *)
LEMMA ConsIs ==
  ASSUME NEW S, NEW x \in S, NEW s \in Seq(S)
  PROVE  /\ <<x>> \o s \in Seq(S) /\ Len(<<x>> \o s) = Len(s) + 1 /\ Len(s) \in Nat
         /\ (<<x>> \o s)[1] = x
         /\ \A i \in 1 .. Len(s) : (<<x>> \o s)[i + 1] = s[i]
<1>1. Len(s) \in Nat
  BY LenProperties
<1>2. <<x>> \in Seq(S) /\ Len(<<x>>) = 1 /\ <<x>>[1] = x
  OBVIOUS
<1> DEFINE o == <<x>>
<1> HIDE DEF o
<1>3. o \in Seq(S) /\ Len(o) = 1 /\ o[1] = x
  BY <1>2 DEF o
<1>4. /\ o \o s \in Seq(S) /\ Len(o \o s) = Len(o) + Len(s)
      /\ \A i \in 1 .. Len(o) + Len(s) : (o \o s)[i] = IF i <= Len(o) THEN o[i] ELSE s[i - Len(o)]
  BY <1>3, ConcatProperties
<1> DEFINE w == o \o s
<1> HIDE DEF w
<1>5. /\ w \in Seq(S) /\ Len(w) = 1 + Len(s)
      /\ \A i \in 1 .. 1 + Len(s) : w[i] = IF i <= 1 THEN o[i] ELSE s[i - 1]
  BY <1>3, <1>4 DEF w
<1>6. w[1] = x /\ \A i \in 1 .. Len(s) : w[i + 1] = s[i]
  BY <1>1, <1>3, <1>5
<1> QED BY <1>1, <1>5, <1>6 DEF w, o

(* An element behind a sequence.                                           *)
LEMMA SnocIs ==
  ASSUME NEW S, NEW s \in Seq(S), NEW x \in S
  PROVE  /\ Append(s, x) \in Seq(S) /\ Len(Append(s, x)) = Len(s) + 1 /\ Len(s) \in Nat
         /\ \A i \in 1 .. Len(s) : Append(s, x)[i] = s[i]
         /\ Append(s, x)[Len(s) + 1] = x
BY AppendProperties, LenProperties

(* A sequence behind another one.                                          *)
LEMMA CatIs ==
  ASSUME NEW S, NEW s \in Seq(S), NEW t \in Seq(S)
  PROVE  /\ s \o t \in Seq(S) /\ Len(s \o t) = Len(s) + Len(t)
         /\ Len(s) \in Nat /\ Len(t) \in Nat
         /\ \A i \in 1 .. Len(s) : (s \o t)[i] = s[i]
         /\ \A i \in 1 .. Len(t) : (s \o t)[Len(s) + i] = t[i]
<1>1. Len(s) \in Nat /\ Len(t) \in Nat
  BY LenProperties
<1>2. /\ s \o t \in Seq(S) /\ Len(s \o t) = Len(s) + Len(t)
      /\ \A i \in 1 .. Len(s) + Len(t) : (s \o t)[i] = IF i <= Len(s) THEN s[i] ELSE t[i - Len(s)]
  BY ConcatProperties
<1> DEFINE w == s \o t
<1> HIDE DEF w
<1>3. \A i \in 1 .. Len(s) + Len(t) : w[i] = IF i <= Len(s) THEN s[i] ELSE t[i - Len(s)]
  BY <1>2 DEF w
<1>4. ASSUME NEW i \in 1 .. Len(s) PROVE w[i] = s[i]
  BY <1>1, <1>3
<1>5. ASSUME NEW i \in 1 .. Len(t) PROVE w[Len(s) + i] = t[i]
  <2>1. Len(s) + i \in 1 .. Len(s) + Len(t) /\ ~(Len(s) + i <= Len(s)) /\ Len(s) + i - Len(s) = i
    BY <1>1
  <2> QED BY <1>3, <2>1
<1> QED BY <1>1, <1>2, <1>4, <1>5 DEF w

(* The same of a sequence that is known to be two others.                  *)
LEMMA CatAs ==
  ASSUME NEW S, NEW s \in Seq(S), NEW t \in Seq(S), NEW w, w = s \o t
  PROVE  /\ w \in Seq(S) /\ Len(w) = Len(s) + Len(t)
         /\ Len(s) \in Nat /\ Len(t) \in Nat
         /\ \A i \in 1 .. Len(s) : w[i] = s[i]
         /\ \A i \in 1 .. Len(t) : w[Len(s) + i] = t[i]
BY CatIs

(* A sequence that is not empty is its first element in front of the rest. *)
LEMMA TailIs ==
  ASSUME NEW S, NEW s \in Seq(S), s # <<>>
  PROVE  /\ Tail(s) \in Seq(S) /\ Len(s) \in Nat /\ Len(s) > 0 /\ Len(Tail(s)) = Len(s) - 1
         /\ \A i \in 1 .. Len(s) - 1 : Tail(s)[i] = s[i + 1]
         /\ s[1] \in S /\ s = <<s[1]>> \o Tail(s)
<1>1. /\ Head(s) = s[1] /\ Tail(s) \in Seq(S) /\ Len(Tail(s)) = Len(s) - 1
      /\ \A i \in 1 .. Len(Tail(s)) : Tail(s)[i] = s[i + 1]
      /\ Head(s) \in S
  BY HeadTailProperties
<1>2. Len(s) \in Nat /\ Len(s) > 0
  BY LenProperties, EmptySeq
<1> DEFINE t == Tail(s)
           w == <<s[1]>> \o t
<1> HIDE DEF t
<1>3. /\ w \in Seq(S) /\ Len(w) = Len(t) + 1 /\ w[1] = s[1]
      /\ \A i \in 1 .. Len(t) : w[i + 1] = t[i]
  BY <1>1, ConsIs DEF t
<1> HIDE DEF w
<1>4. Len(t) = Len(s) - 1 /\ \A i \in 1 .. Len(s) - 1 : t[i] = s[i + 1]
  BY <1>1 DEF t
<1>5. ASSUME NEW i \in 1 .. Len(s) PROVE s[i] = w[i]
  <2>1. CASE i = 1
    BY <1>3, <2>1
  <2>2. CASE i # 1
    <3>1. i - 1 \in 1 .. Len(s) - 1 /\ (i - 1) + 1 = i
      BY <1>2, <2>2
    <3> QED BY <1>3, <1>4, <3>1
  <2> QED BY <2>1, <2>2
<1>6. s = w
  BY <1>2, <1>3, <1>4, <1>5, SeqEqual
<1> QED BY <1>1, <1>2, <1>4, <1>6 DEF w, t

(* What is on a sequence.                                                  *)
LEMMA OnIs ==
  ASSUME NEW S, NEW s \in Seq(S)
  PROVE  On(s) \in SUBSET S /\ (On(s) = {} <=> s = <<>>)
<1>1. Len(s) \in Nat /\ (Len(s) = 0 <=> s = <<>>) /\ \A i \in 1 .. Len(s) : s[i] \in S
  BY LenProperties, EmptySeq, ElementOfSeq
<1>2. On(s) \in SUBSET S
  BY <1>1 DEF On
<1>3. CASE s = <<>>
  <2>1. 1 .. Len(s) = {}
    BY <1>1, <1>3
  <2> QED BY <1>2, <1>3, <2>1 DEF On
<1>4. CASE s # <<>>
  <2>1. 1 \in 1 .. Len(s)
    BY <1>1, <1>4
  <2> QED BY <1>2, <1>4, <2>1 DEF On
<1> QED BY <1>3, <1>4

(* What is on a sequence with an element more in front, and when it is     *)
(* there once.                                                             *)
LEMMA OnCons ==
  ASSUME NEW S, NEW x \in S, NEW s \in Seq(S)
  PROVE  /\ On(<<x>> \o s) = {x} \cup On(s)
         /\ Once(s) /\ x \notin On(s) => Once(<<x>> \o s)
<1> DEFINE w == <<x>> \o s
<1>1. /\ Len(w) = Len(s) + 1 /\ Len(s) \in Nat /\ w[1] = x
      /\ \A i \in 1 .. Len(s) : w[i + 1] = s[i]
  BY ConsIs
<1> HIDE DEF w
<1>2. \A i \in 1 .. Len(w) : i = 1 \/ (i - 1 \in 1 .. Len(s) /\ w[i] = s[i - 1])
  BY <1>1
<1>3. \A i \in 1 .. Len(s) : i + 1 \in 1 .. Len(w)
  BY <1>1
<1>4. 1 \in 1 .. Len(w)
  BY <1>1
<1>5. On(w) = {x} \cup On(s)
  BY <1>1, <1>2, <1>3, <1>4 DEF On
<1>6. ASSUME Once(s), x \notin On(s), NEW i \in 1 .. Len(w), NEW j \in 1 .. Len(w), w[i] = w[j]
      PROVE  i = j
  <2>1. \A k \in 1 .. Len(s) : s[k] # x
    BY <1>6 DEF On
  <2>2. CASE i = 1 /\ j = 1
    BY <2>2
  <2>3. CASE i = 1 /\ j # 1
    BY <1>1, <1>2, <1>6, <2>1, <2>3
  <2>4. CASE i # 1 /\ j = 1
    BY <1>1, <1>2, <1>6, <2>1, <2>4
  <2>5. CASE i # 1 /\ j # 1
    <3>1. i - 1 = j - 1
      BY <1>2, <1>6, <2>5 DEF Once
    <3> QED BY <3>1
  <2> QED BY <2>2, <2>3, <2>4, <2>5
<1> QED BY <1>5, <1>6 DEF w, Once

(* The same of an element behind it.                                       *)
LEMMA OnSnoc ==
  ASSUME NEW S, NEW s \in Seq(S), NEW x \in S
  PROVE  /\ On(Append(s, x)) = On(s) \cup {x}
         /\ Once(s) /\ x \notin On(s) => Once(Append(s, x))
         /\ Append(s, x) # <<>> /\ LastOf(Append(s, x)) = x
<1> DEFINE w == Append(s, x)
<1>1. /\ w \in Seq(S) /\ Len(w) = Len(s) + 1 /\ Len(s) \in Nat
      /\ \A i \in 1 .. Len(s) : w[i] = s[i]
      /\ w[Len(s) + 1] = x
  BY SnocIs
<1> HIDE DEF w
<1>2. \A i \in 1 .. Len(w) : i = Len(s) + 1 \/ i \in 1 .. Len(s)
  BY <1>1
<1>3. \A i \in 1 .. Len(s) : i \in 1 .. Len(w)
  BY <1>1
<1>4. Len(s) + 1 \in 1 .. Len(w)
  BY <1>1
<1>5. On(w) = On(s) \cup {x}
  BY <1>1, <1>2, <1>3, <1>4 DEF On
<1>6. ASSUME Once(s), x \notin On(s), NEW i \in 1 .. Len(w), NEW j \in 1 .. Len(w), w[i] = w[j]
      PROVE  i = j
  <2>1. \A k \in 1 .. Len(s) : s[k] # x
    BY <1>6 DEF On
  <2> QED BY <1>1, <1>2, <1>6, <2>1 DEF Once
<1>7. w # <<>> /\ LastOf(w) = x
  <2>1. w # <<>>
    BY <1>1, EmptySeq
  <2> QED BY <1>1, <2>1 DEF LastOf
<1> QED BY <1>5, <1>6, <1>7 DEF w, Once

(* The same of two sequences that have nothing in common.                  *)
LEMMA OnCat ==
  ASSUME NEW S, NEW s \in Seq(S), NEW t \in Seq(S)
  PROVE  /\ On(s \o t) = On(s) \cup On(t)
         /\ Once(s) /\ Once(t) /\ On(s) \cap On(t) = {} => Once(s \o t)
<1> DEFINE w == s \o t
<1>1. /\ Len(w) = Len(s) + Len(t) /\ Len(s) \in Nat /\ Len(t) \in Nat
      /\ \A i \in 1 .. Len(s) : w[i] = s[i]
      /\ \A i \in 1 .. Len(t) : w[Len(s) + i] = t[i]
  BY CatIs
<1> HIDE DEF w
<1>2. ASSUME NEW i \in 1 .. Len(w)
      PROVE  i \in 1 .. Len(s) \/ (i - Len(s) \in 1 .. Len(t) /\ w[i] = t[i - Len(s)])
  <2>1. CASE i <= Len(s)
    BY <1>1, <2>1
  <2>2. CASE ~(i <= Len(s))
    <3>1. i - Len(s) \in 1 .. Len(t) /\ Len(s) + (i - Len(s)) = i
      BY <1>1, <2>2
    <3> QED BY <1>1, <3>1
  <2> QED BY <2>1, <2>2
<1>3. /\ \A i \in 1 .. Len(s) : i \in 1 .. Len(w)
      /\ \A i \in 1 .. Len(t) : Len(s) + i \in 1 .. Len(w)
  BY <1>1
<1>4. On(w) = On(s) \cup On(t)
  <2>1. ASSUME NEW y \in On(w) PROVE y \in On(s) \cup On(t)
    BY SMTT(30), <1>1, <1>2 DEF On
  <2>2. ASSUME NEW y \in On(s) PROVE y \in On(w)
    BY <1>1, <1>3 DEF On
  <2>3. ASSUME NEW y \in On(t) PROVE y \in On(w)
    BY <1>1, <1>3 DEF On
  <2> QED BY <2>1, <2>2, <2>3
<1>5. ASSUME Once(s), Once(t), On(s) \cap On(t) = {},
             NEW i \in 1 .. Len(w), NEW j \in 1 .. Len(w), w[i] = w[j]
      PROVE  i = j
  <2>1. \A k \in 1 .. Len(s), l \in 1 .. Len(t) : s[k] # t[l]
    BY <1>5 DEF On
  <2>2. CASE i \in 1 .. Len(s) /\ j \in 1 .. Len(s)
    BY <1>1, <1>5, <2>2 DEF Once
  <2>3. CASE i \in 1 .. Len(s) /\ j \notin 1 .. Len(s)
    BY <1>1, <1>2, <1>5, <2>1, <2>3
  <2>4. CASE i \notin 1 .. Len(s) /\ j \in 1 .. Len(s)
    BY <1>1, <1>2, <1>5, <2>1, <2>4
  <2>5. CASE i \notin 1 .. Len(s) /\ j \notin 1 .. Len(s)
    <3>1. i - Len(s) = j - Len(s)
      BY <1>2, <1>5, <2>5 DEF Once
    <3> QED BY <1>1, <3>1
  <2> QED BY <2>2, <2>3, <2>4, <2>5
<1> QED BY <1>4, <1>5 DEF w, Once

-----------------------------------------------------------------------------
(* Chains of nodes.                                                        *)

(* From q on the nodes of s follow each other, and the last one points to  *)
(* e; q is e when there are none.                                          *)
Chain(h, q, s, e) ==
  /\ s \in Seq(DOMAIN h) /\ Once(s)
  /\ q = IF s = <<>> THEN e ELSE s[1]
  /\ \A i \in 1 .. Len(s) : h[s[i]].rest = IF i = Len(s) THEN e ELSE s[i + 1]

(* A chain without nodes.                                                  *)
LEMMA ChainEmpty ==
  ASSUME NEW h, NEW q, NEW e
  PROVE  /\ Chain(h, q, <<>>, e) <=> q = e
         /\ On(<<>>) = {} /\ LastOf(<<>>) = NULL
<1>1. <<>> \in Seq(DOMAIN h) /\ Len(<<>>) = 0
  BY EmptySeq, LenProperties
<1>2. On(<<>>) = {}
  BY <1>1, OnIs
<1> QED BY <1>1, <1>2 DEF Chain, Once, LastOf

(* The nodes of a chain are allocated; it begins at the first one and has  *)
(* a last one, or begins where it ends.                                    *)
LEMMA ChainTypes ==
  ASSUME NEW h, NEW q, NEW s, NEW e, Chain(h, q, s, e)
  PROVE  /\ s \in Seq(DOMAIN h) /\ On(s) \in SUBSET DOMAIN h /\ Len(s) \in Nat
         /\ s # <<>> => q \in On(s) /\ s[1] = q /\ LastOf(s) \in On(s) /\ Len(s) > 0
         /\ s = <<>> => q = e /\ On(s) = {} /\ LastOf(s) = NULL
<1>1. s \in Seq(DOMAIN h)
  BY DEF Chain
<1>2. On(s) \in SUBSET DOMAIN h /\ Len(s) \in Nat /\ (s = <<>> <=> Len(s) = 0)
  BY <1>1, OnIs, LenProperties, EmptySeq
<1>3. s # <<>> => 1 \in 1 .. Len(s) /\ Len(s) \in 1 .. Len(s)
  BY <1>2
<1>4. s # <<>> => q \in On(s) /\ s[1] = q /\ LastOf(s) \in On(s)
  BY <1>3 DEF On, LastOf, Chain
<1>5. s = <<>> => q = e /\ On(s) = {} /\ LastOf(s) = NULL
  BY ChainEmpty
<1> QED BY <1>1, <1>2, <1>4, <1>5

(* A node put in front of a chain.                                         *)
LEMMA ChainCons ==
  ASSUME NEW h, NEW q, NEW s, NEW e, Chain(h, q, s, e),
         NEW n \in DOMAIN h, n \notin On(s), h[n].rest = q
  PROVE  Chain(h, n, <<n>> \o s, e) /\ On(<<n>> \o s) = {n} \cup On(s) /\ <<n>> \o s # <<>>
<1> DEFINE w == <<n>> \o s
<1>1. s \in Seq(DOMAIN h) /\ Once(s)
  BY DEF Chain
<1>2. /\ w \in Seq(DOMAIN h) /\ Len(w) = Len(s) + 1 /\ Len(s) \in Nat /\ w[1] = n
      /\ \A i \in 1 .. Len(s) : w[i + 1] = s[i]
  BY <1>1, ConsIs
<1>3. On(w) = {n} \cup On(s) /\ Once(w)
  BY <1>1, OnCons
<1> HIDE DEF w
<1>4. w # <<>> /\ (s = <<>> <=> Len(s) = 0)
  BY <1>1, <1>2, EmptySeq
<1>5. ASSUME NEW i \in 1 .. Len(w)
      PROVE  h[w[i]].rest = IF i = Len(w) THEN e ELSE w[i + 1]
  <2>1. CASE i = 1
    <3>1. h[w[i]].rest = IF s = <<>> THEN e ELSE s[1]
      BY <1>2, <2>1 DEF Chain
    <3>2. s # <<>> => 1 \in 1 .. Len(s)
      BY <1>2, <1>4
    <3>3. s # <<>> => w[i + 1] = s[1]
      BY <1>2, <2>1, <3>2
    <3> QED BY <1>2, <1>4, <2>1, <3>1, <3>3
  <2>2. CASE i # 1
    <3>1. i - 1 \in 1 .. Len(s) /\ (i - 1) + 1 = i
      BY <1>2, <2>2
    <3>2. w[i] = s[i - 1]
      BY <1>2, <3>1
    <3>3. h[s[i - 1]].rest = IF i - 1 = Len(s) THEN e ELSE s[i]
      BY <3>1 DEF Chain
    <3>4. i # Len(w) => i \in 1 .. Len(s) /\ w[i + 1] = s[i]
      BY <1>2, <3>1
    <3> QED BY <1>2, <3>1, <3>2, <3>3, <3>4
  <2> QED BY <2>1, <2>2
<1>6. Chain(h, n, w, e)
  BY <1>2, <1>3, <1>4, <1>5 DEF Chain
<1> QED BY <1>3, <1>4, <1>6 DEF w

(* A chain that does not end at once without its first node.               *)
LEMMA ChainTail ==
  ASSUME NEW h, NEW q, NEW s, NEW e, Chain(h, q, s, e), q # e
  PROVE  /\ s # <<>> /\ q \in DOMAIN h /\ q \in On(s) /\ s = <<q>> \o Tail(s)
         /\ Chain(h, h[q].rest, Tail(s), e) /\ On(Tail(s)) = On(s) \ {q}
<1> DEFINE w == Tail(s)
<1>1. s # <<>> /\ s \in Seq(DOMAIN h) /\ Once(s) /\ s[1] = q
  BY DEF Chain
<1>2. /\ w \in Seq(DOMAIN h) /\ Len(s) \in Nat /\ Len(s) > 0 /\ Len(w) = Len(s) - 1
      /\ \A i \in 1 .. Len(s) - 1 : w[i] = s[i + 1]
      /\ s[1] \in DOMAIN h /\ s = <<s[1]>> \o w
  BY <1>1, TailIs
<1> HIDE DEF w
<1>3. On(s) = {q} \cup On(w)
  <2>1. q \in DOMAIN h /\ s = <<q>> \o w
    BY <1>1, <1>2
  <2>2. On(<<q>> \o w) = {q} \cup On(w)
    BY <1>2, <2>1, OnCons
  <2> QED BY <2>1, <2>2
<1>4. Once(w) /\ q \notin On(w)
  <2>1. ASSUME NEW i \in 1 .. Len(w), NEW j \in 1 .. Len(w), w[i] = w[j] PROVE i = j
    <3>1. i + 1 \in 1 .. Len(s) /\ j + 1 \in 1 .. Len(s) /\ s[i + 1] = s[j + 1]
      BY <1>2, <2>1
    <3>2. i + 1 = j + 1
      BY <1>1, <3>1 DEF Once
    <3> QED BY <3>2
  <2>2. ASSUME NEW i \in 1 .. Len(w) PROVE w[i] # q
    <3>1. i + 1 \in 1 .. Len(s) /\ 1 \in 1 .. Len(s) /\ w[i] = s[i + 1] /\ i + 1 # 1
      BY <1>2
    <3> QED BY <1>1, <3>1 DEF Once
  <2> QED BY <2>1, <2>2 DEF Once, On
<1>5. ASSUME NEW i \in 1 .. Len(w)
      PROVE  h[w[i]].rest = IF i = Len(w) THEN e ELSE w[i + 1]
  <2>1. i + 1 \in 1 .. Len(s) /\ w[i] = s[i + 1]
    BY <1>2
  <2>2. h[s[i + 1]].rest = IF i + 1 = Len(s) THEN e ELSE s[(i + 1) + 1]
    BY <2>1 DEF Chain
  <2>3. i # Len(w) => w[i + 1] = s[(i + 1) + 1]
    BY <1>2
  <2> QED BY <1>2, <2>1, <2>2, <2>3
<1>6. h[q].rest = IF w = <<>> THEN e ELSE w[1]
  <2>1. 1 \in 1 .. Len(s) /\ (w = <<>> <=> Len(w) = 0)
    BY <1>2, EmptySeq
  <2>2. h[s[1]].rest = IF 1 = Len(s) THEN e ELSE s[1 + 1]
    BY <2>1 DEF Chain
  <2>3. Len(s) # 1 => w[1] = s[1 + 1]
    BY <1>2
  <2> QED BY <1>1, <1>2, <2>1, <2>2, <2>3
<1>7. Chain(h, h[q].rest, w, e)
  BY <1>2, <1>4, <1>5, <1>6 DEF Chain
<1> QED BY <1>1, <1>2, <1>3, <1>4, <1>7 DEF w

(* A chain stays one as long as its nodes and their rests do.              *)
LEMMA ChainKept ==
  ASSUME NEW h, NEW q, NEW s, NEW e, Chain(h, q, s, e),
         NEW g, On(s) \in SUBSET DOMAIN g, \A n \in On(s) : g[n].rest = h[n].rest
  PROVE  Chain(g, q, s, e)
<1>1. s \in Seq(DOMAIN h) /\ Len(s) \in Nat
  BY LenProperties DEF Chain
<1>2. \A i \in 1 .. Len(s) : s[i] \in On(s)
  BY DEF On
<1>3. s \in Seq(DOMAIN g)
  <2>1. s = [i \in 1 .. Len(s) |-> s[i]] /\ \A i \in 1 .. Len(s) : s[i] \in DOMAIN g
    BY <1>1, <1>2, LenProperties
  <2> QED BY <1>1, <2>1, IsASeq
<1> QED BY <1>2, <1>3 DEF Chain

(* The node at which a chain ends, put behind it.                          *)
LEMMA ChainSnoc ==
  ASSUME NEW h, NEW q, NEW s, NEW n \in DOMAIN h, Chain(h, q, s, n), n \notin On(s)
  PROVE  /\ Chain(h, q, Append(s, n), h[n].rest) /\ On(Append(s, n)) = On(s) \cup {n}
         /\ Append(s, n) # <<>> /\ LastOf(Append(s, n)) = n
<1> DEFINE w == Append(s, n)
           e == h[n].rest
<1>1. s \in Seq(DOMAIN h) /\ Once(s)
  BY DEF Chain
<1>2. /\ w \in Seq(DOMAIN h) /\ Len(w) = Len(s) + 1 /\ Len(s) \in Nat
      /\ \A i \in 1 .. Len(s) : w[i] = s[i]
      /\ w[Len(s) + 1] = n
  BY <1>1, SnocIs
<1>3. On(w) = On(s) \cup {n} /\ Once(w) /\ w # <<>> /\ LastOf(w) = n
  BY <1>1, OnSnoc
<1> HIDE DEF w
<1>4. s = <<>> <=> Len(s) = 0
  BY <1>1, EmptySeq
<1>5. q = w[1]
  <2>1. CASE s = <<>>
    BY <1>2, <1>4, <2>1 DEF Chain
  <2>2. CASE s # <<>>
    <3>1. 1 \in 1 .. Len(s)
      BY <1>2, <1>4, <2>2
    <3> QED BY <1>2, <2>2, <3>1 DEF Chain
  <2> QED BY <2>1, <2>2
<1>6. ASSUME NEW i \in 1 .. Len(w)
      PROVE  h[w[i]].rest = IF i = Len(w) THEN e ELSE w[i + 1]
  <2>1. CASE i = Len(w)
    BY <1>2, <2>1
  <2>2. CASE i # Len(w)
    <3>1. i \in 1 .. Len(s) /\ w[i] = s[i]
      BY <1>2, <2>2
    <3>2. h[s[i]].rest = IF i = Len(s) THEN n ELSE s[i + 1]
      BY <3>1 DEF Chain
    <3>3. i # Len(s) => i + 1 \in 1 .. Len(s) /\ w[i + 1] = s[i + 1]
      BY <1>2, <3>1
    <3> QED BY <1>2, <2>2, <3>1, <3>2, <3>3
  <2> QED BY <2>1, <2>2
<1>7. Chain(h, q, w, e)
  BY <1>2, <1>3, <1>5, <1>6 DEF Chain
<1> QED BY <1>3, <1>7 DEF w

(* The last node of a chain is made to point elsewhere.                    *)
LEMMA ChainEnds ==
  ASSUME NEW h, NEW q, NEW s, NEW e, Chain(h, q, s, e), s # <<>>,
         NEW g, On(s) \in SUBSET DOMAIN g,
         \A n \in On(s) \ {LastOf(s)} : g[n].rest = h[n].rest
  PROVE  Chain(g, q, s, g[LastOf(s)].rest)
<1>1. s \in Seq(DOMAIN h) /\ Len(s) \in Nat /\ Once(s) /\ LastOf(s) = s[Len(s)]
  BY LenProperties DEF Chain, LastOf
<1>2. \A i \in 1 .. Len(s) : s[i] \in On(s)
  BY DEF On
<1>3. s \in Seq(DOMAIN g)
  <2>1. s = [i \in 1 .. Len(s) |-> s[i]] /\ \A i \in 1 .. Len(s) : s[i] \in DOMAIN g
    BY <1>1, <1>2, LenProperties
  <2> QED BY <1>1, <2>1, IsASeq
<1>4. ASSUME NEW i \in 1 .. Len(s)
      PROVE  g[s[i]].rest = IF i = Len(s) THEN g[LastOf(s)].rest ELSE s[i + 1]
  <2>1. CASE i = Len(s)
    BY <1>1, <2>1
  <2>2. CASE i # Len(s)
    <3>1. s[i] # LastOf(s) /\ s[i] \in On(s)
      <4>1. Len(s) \in 1 .. Len(s)
        BY <1>1
      <4> QED BY <1>1, <1>2, <2>2, <4>1 DEF Once
    <3>2. h[s[i]].rest = s[i + 1]
      BY <2>2 DEF Chain
    <3> QED BY <2>2, <3>1, <3>2
  <2> QED BY <2>1, <2>2
<1>5. q = s[1]
  BY DEF Chain
<1> QED BY <1>1, <1>3, <1>4, <1>5 DEF Chain

(* Two chains, the second one from where the first one ends.               *)
LEMMA ChainCat ==
  ASSUME NEW h, NEW q, NEW s, NEW r, NEW t, NEW e, Chain(h, q, s, r), Chain(h, r, t, e),
         On(s) \cap On(t) = {}
  PROVE  Chain(h, q, s \o t, e) /\ On(s \o t) = On(s) \cup On(t)
<1> DEFINE w == s \o t
<1>1. s \in Seq(DOMAIN h) /\ t \in Seq(DOMAIN h) /\ Once(s) /\ Once(t)
  BY DEF Chain
<1>2. /\ w \in Seq(DOMAIN h) /\ Len(w) = Len(s) + Len(t)
      /\ Len(s) \in Nat /\ Len(t) \in Nat
      /\ \A i \in 1 .. Len(s) : w[i] = s[i]
      /\ \A i \in 1 .. Len(t) : w[Len(s) + i] = t[i]
  BY <1>1, CatIs
<1>3. On(w) = On(s) \cup On(t) /\ Once(w)
  BY <1>1, OnCat
<1> HIDE DEF w
<1>4. (s = <<>> <=> Len(s) = 0) /\ (t = <<>> <=> Len(t) = 0) /\ (w = <<>> <=> Len(w) = 0)
  BY <1>1, <1>2, EmptySeq
<1>5. r = IF t = <<>> THEN e ELSE t[1]
  BY DEF Chain
<1>6. t # <<>> => w[Len(s) + 1] = t[1] /\ 1 \in 1 .. Len(t)
  BY <1>2, <1>4
<1>7. q = IF w = <<>> THEN e ELSE w[1]
  <2>1. CASE s = <<>>
    <3>1. q = r
      BY <2>1 DEF Chain
    <3> QED BY <1>2, <1>4, <1>5, <1>6, <2>1, <3>1
  <2>2. CASE s # <<>>
    <3>1. 1 \in 1 .. Len(s) /\ q = s[1]
      BY <1>2, <1>4, <2>2 DEF Chain
    <3> QED BY <1>2, <1>4, <2>2, <3>1
  <2> QED BY <2>1, <2>2
<1>8. ASSUME NEW i \in 1 .. Len(w)
      PROVE  h[w[i]].rest = IF i = Len(w) THEN e ELSE w[i + 1]
  <2>1. CASE i <= Len(s)
    <3>1. i \in 1 .. Len(s) /\ w[i] = s[i]
      BY <1>2, <2>1
    <3>2. h[s[i]].rest = IF i = Len(s) THEN r ELSE s[i + 1]
      BY <3>1 DEF Chain
    <3>3. i # Len(s) => w[i + 1] = s[i + 1] /\ i # Len(w)
      BY <1>2, <3>1
    <3>4. i = Len(s) => (IF i = Len(w) THEN e ELSE w[i + 1]) = r
      BY <1>2, <1>4, <1>5, <1>6
    <3> QED BY <3>1, <3>2, <3>3, <3>4
  <2>2. CASE ~(i <= Len(s))
    <3> DEFINE k == i - Len(s)
    <3>1. k \in 1 .. Len(t) /\ Len(s) + k = i /\ Len(s) + (k + 1) = i + 1
      BY <1>2, <2>2
    <3> HIDE DEF k
    <3>2. w[i] = t[k]
      BY <1>2, <3>1
    <3>3. h[t[k]].rest = IF k = Len(t) THEN e ELSE t[k + 1]
      BY <3>1 DEF Chain
    <3>4. k # Len(t) => w[i + 1] = t[k + 1]
      <4>1. k # Len(t) => k + 1 \in 1 .. Len(t)
        BY <1>2, <3>1
      <4> QED BY <1>2, <3>1, <4>1
    <3>5. k = Len(t) <=> i = Len(w)
      BY <1>2, <3>1
    <3> QED BY <3>2, <3>3, <3>4, <3>5
  <2> QED BY <2>1, <2>2
<1>9. Chain(h, q, w, e)
  BY <1>2, <1>3, <1>7, <1>8 DEF Chain
<1> QED BY <1>3, <1>9 DEF w

-----------------------------------------------------------------------------
(* The heap.                                                               *)

(* Finitely many nodes are allocated, and their members have their types.  *)
HeapTyped(h) ==
  h \in [DOMAIN h -> Cell] /\ DOMAIN h \in SUBSET Node /\ IsFiniteSet(DOMAIN h)

(* g has the nodes S of h, unchanged.                                      *)
Agree(g, h, S) == S \in SUBSET DOMAIN g /\ \A n \in S : g[n] = h[n]

(* A heap with its types is no fault, and NULL and Unset are no nodes.     *)
LEMMA HeapTypes ==
  ASSUME NEW h, HeapTyped(h)
  PROVE  /\ h # Fault /\ NULL \notin DOMAIN h /\ Unset \notin DOMAIN h
         /\ \E D \in SUBSET Node : h \in [D -> Cell]
         /\ \A n \in DOMAIN h : /\ h[n].first \in Elem /\ h[n].rest \in Pointer \cup {Unset}
                                /\ n \in Node /\ Live(h, n) /\ n # NULL /\ n # Unset
                                /\ Rest(h, n) = h[n].rest /\ First(h, n) = h[n].first
<1>1. NULL \notin DOMAIN h /\ Unset \notin DOMAIN h
  BY ListAssumption DEF HeapTyped
<1>2. h # Fault
  <2>1. NULL \in DOMAIN Fault
    BY DEF Fault
  <2> QED BY <1>1, <2>1
<1>3. ASSUME NEW n \in DOMAIN h
      PROVE  /\ h[n].first \in Elem /\ h[n].rest \in Pointer \cup {Unset}
             /\ n \in Node /\ Live(h, n) /\ n # NULL /\ n # Unset
             /\ Rest(h, n) = h[n].rest /\ First(h, n) = h[n].first
  <2>1. h[n] \in Cell /\ n \in Node
    BY DEF HeapTyped
  <2> QED BY <1>1, <2>1 DEF Cell, Live, Rest, First
<1> QED BY <1>1, <1>2, <1>3 DEF HeapTyped

(* Nothing is allocated.                                                   *)
LEMMA HeapEmpty == HeapTyped(<<>>) /\ DOMAIN <<>> = {}
<1>1. DOMAIN <<>> = {}
  OBVIOUS
<1>2. <<>> \in [{} -> Cell]
  OBVIOUS
<1>3. IsFiniteSet({})
  BY FS_EmptySet
<1> QED BY <1>1, <1>2, <1>3 DEF HeapTyped

(* g has a node more than h, n with the members x and r.                   *)
Extended(g, h, n, x, r) ==
  /\ HeapTyped(g) /\ DOMAIN g = DOMAIN h \cup {n} /\ Agree(g, h, DOMAIN h)
  /\ n \in DOMAIN g /\ g[n].rest = r /\ g[n].first = x

(* A node is allocated.                                                    *)
LEMMA WithIs ==
  ASSUME NEW h, NEW n \in Node, NEW x \in Elem, NEW r \in Pointer \cup {Unset}, NEW g,
         HeapTyped(h), n \notin DOMAIN h, g = With(h, n, x, r)
  PROVE  Extended(g, h, n, x, r)
<1> DEFINE c == [first |-> x, rest |-> r]
<1>1. c \in Cell /\ c.rest = r /\ c.first = x
  BY DEF Cell
<1> HIDE DEF c
<1>2. DOMAIN g = DOMAIN h \cup {n} /\ g[n] = c /\ \A q \in DOMAIN h : g[q] = h[q]
  BY DEF With, c
<1>3. g = [q \in DOMAIN g |-> g[q]]
  BY DEF With
<1>4. \A q \in DOMAIN g : g[q] \in Cell
  BY <1>1, <1>2 DEF HeapTyped
<1>5. g \in [DOMAIN g -> Cell]
  BY <1>3, <1>4
<1>6. DOMAIN g \in SUBSET Node /\ IsFiniteSet(DOMAIN g)
  BY <1>2, FS_AddElement DEF HeapTyped
<1> QED BY <1>1, <1>2, <1>5, <1>6 DEF HeapTyped, Agree, Extended

(* A node is freed.                                                        *)
LEMMA FreedIs ==
  ASSUME NEW h, HeapTyped(h), NEW q \in DOMAIN h
  PROVE  LET g == Freed(h, q)
         IN HeapTyped(g) /\ DOMAIN g = DOMAIN h \ {q} /\ Agree(g, h, DOMAIN h \ {q})
<1> DEFINE g == Freed(h, q)
<1>1. g = [n \in DOMAIN h \ {q} |-> h[n]]
  BY HeapTypes DEF Freed
<1> HIDE DEF g
<1>2. DOMAIN g = DOMAIN h \ {q} /\ \A n \in DOMAIN h \ {q} : g[n] = h[n]
  BY <1>1
<1>3. g \in [DOMAIN g -> Cell]
  BY <1>1, <1>2 DEF HeapTyped
<1>4. DOMAIN g \in SUBSET Node /\ IsFiniteSet(DOMAIN g)
  BY <1>2, FS_RemoveElement DEF HeapTyped
<1> QED BY <1>2, <1>3, <1>4 DEF HeapTyped, Agree, g

(* The rest of a node is written.                                          *)
LEMMA SetRestIs ==
  ASSUME NEW h, NEW q \in DOMAIN h, NEW r \in Pointer \cup {Unset}, NEW g,
         HeapTyped(h), g = SetRest(h, q, r)
  PROVE  /\ HeapTyped(g) /\ DOMAIN g = DOMAIN h /\ Agree(g, h, DOMAIN h \ {q})
         /\ g[q].rest = r /\ g[q].first = h[q].first
<1> DEFINE c == [h[q] EXCEPT !.rest = r]
<1>1. h[q] \in Cell
  BY DEF HeapTyped
<1>2. c \in Cell /\ c.rest = r /\ c.first = h[q].first
  BY <1>1 DEF Cell
<1>3. g = [h EXCEPT ![q] = c]
  BY HeapTypes DEF SetRest
<1> HIDE DEF c
<1>4. DOMAIN g = DOMAIN h /\ g[q] = c /\ \A n \in DOMAIN h \ {q} : g[n] = h[n]
  BY <1>3
<1>5. g \in [DOMAIN g -> Cell]
  BY <1>2, <1>3, <1>4 DEF HeapTyped
<1> QED BY <1>2, <1>4, <1>5 DEF HeapTyped, Agree

(* The first of a node is written.                                         *)
LEMMA SetFirstIs ==
  ASSUME NEW h, HeapTyped(h), NEW q \in DOMAIN h, NEW x \in Elem
  PROVE  LET g == SetFirst(h, q, x)
         IN /\ HeapTyped(g) /\ DOMAIN g = DOMAIN h /\ Agree(g, h, DOMAIN h \ {q})
            /\ g[q].first = x /\ g[q].rest = h[q].rest
<1> DEFINE g == SetFirst(h, q, x)
           c == [h[q] EXCEPT !.first = x]
<1>1. h[q] \in Cell
  BY DEF HeapTyped
<1>2. c \in Cell /\ c.first = x /\ c.rest = h[q].rest
  BY <1>1 DEF Cell
<1>3. g = [h EXCEPT ![q] = c]
  BY HeapTypes DEF SetFirst
<1> HIDE DEF g, c
<1>4. DOMAIN g = DOMAIN h /\ g[q] = c /\ \A n \in DOMAIN h \ {q} : g[n] = h[n]
  BY <1>3
<1>5. g \in [DOMAIN g -> Cell]
  BY <1>2, <1>3, <1>4 DEF HeapTyped
<1> QED BY <1>2, <1>4, <1>5 DEF HeapTyped, Agree, g

(* A chain stays one as long as its nodes stay unchanged.                  *)
LEMMA ChainAgrees ==
  ASSUME NEW h, NEW q, NEW s, NEW e, Chain(h, q, s, e), NEW g, NEW S,
         Agree(g, h, S), On(s) \in SUBSET S
  PROVE  Chain(g, q, s, e)
BY ChainKept DEF Agree

(* Where a list begins: at a node of it, or nowhere.                       *)
LEMMA ListBegins ==
  ASSUME NEW h, HeapTyped(h), NEW q, NEW s, Chain(h, q, s, NULL)
  PROVE  /\ q \in Pointer /\ (q = NULL <=> s = <<>>) /\ On(s) \in SUBSET DOMAIN h
         /\ q # NULL => q \in DOMAIN h
<1>1. CASE s = <<>>
  BY <1>1, ChainTypes DEF Pointer
<1>2. CASE s # <<>>
  <2>1. q \in On(s) /\ On(s) \in SUBSET DOMAIN h
    BY <1>2, ChainTypes
  <2> QED BY <1>2, <2>1, HeapTypes DEF Pointer
<1> QED BY <1>1, <1>2

-----------------------------------------------------------------------------
(* The elements of a chain.                                                *)

Firsts(h, s) == [i \in 1 .. Len(s) |-> h[s[i]].first]

(* The elements of a chain are as many as its nodes.                       *)
LEMMA FirstsType ==
  ASSUME NEW h, HeapTyped(h), NEW s \in Seq(DOMAIN h)
  PROVE  /\ Firsts(h, s) \in Seq(Elem) /\ Len(Firsts(h, s)) = Len(s) /\ Len(s) \in Nat
         /\ \A i \in 1 .. Len(s) : Firsts(h, s)[i] = h[s[i]].first
<1>1. Len(s) \in Nat
  BY LenProperties
<1>2. \A i \in 1 .. Len(s) : s[i] \in DOMAIN h
  BY ElementOfSeq
<1>3. \A i \in 1 .. Len(s) : h[s[i]].first \in Elem
  BY <1>2, HeapTypes
<1> DEFINE f == Firsts(h, s)
<1>4. f = [i \in 1 .. Len(s) |-> f[i]] /\ \A i \in 1 .. Len(s) : f[i] = h[s[i]].first
  BY DEF Firsts
<1> HIDE DEF f
<1>5. f \in Seq(Elem)
  BY <1>1, <1>3, <1>4, IsASeq
<1>6. Len(f) = Len(s)
  BY <1>1, <1>4, <1>5, LenProperties
<1> QED BY <1>1, <1>4, <1>5, <1>6 DEF f

(* Unchanged nodes have unchanged elements.                                *)
LEMMA FirstsAgree ==
  ASSUME NEW h, NEW g, NEW s, NEW S, Agree(g, h, S), On(s) \in SUBSET S
  PROVE  Firsts(g, s) = Firsts(h, s)
<1>1. \A i \in 1 .. Len(s) : g[s[i]] = h[s[i]]
  BY DEF Agree, On
<1> QED BY <1>1 DEF Firsts

(* A chain without nodes has no elements.                                  *)
LEMMA FirstsEmpty ==
  ASSUME NEW h
  PROVE  Firsts(h, <<>>) = <<>>
BY DEF Firsts

(* The elements of a chain with a node more in front.                      *)
LEMMA FirstsCons ==
  ASSUME NEW h, HeapTyped(h), NEW n \in DOMAIN h, NEW s \in Seq(DOMAIN h)
  PROVE  Firsts(h, <<n>> \o s) = <<h[n].first>> \o Firsts(h, s)
<1> DEFINE w == <<n>> \o s
           x == h[n].first
           f == Firsts(h, s)
           v == <<x>> \o f
           u == Firsts(h, w)
<1>1. /\ w \in Seq(DOMAIN h) /\ Len(w) = Len(s) + 1 /\ Len(s) \in Nat /\ w[1] = n
      /\ \A i \in 1 .. Len(s) : w[i + 1] = s[i]
  BY ConsIs
<1>2. /\ f \in Seq(Elem) /\ Len(f) = Len(s)
      /\ \A i \in 1 .. Len(s) : f[i] = h[s[i]].first
  BY FirstsType
<1>3. x \in Elem
  BY HeapTypes
<1> HIDE DEF w, f, x
<1>4. /\ v \in Seq(Elem) /\ Len(v) = Len(f) + 1 /\ v[1] = x
      /\ \A i \in 1 .. Len(f) : v[i + 1] = f[i]
  BY <1>2, <1>3, ConsIs
<1>5. /\ u \in Seq(Elem) /\ Len(u) = Len(w)
      /\ \A i \in 1 .. Len(w) : u[i] = h[w[i]].first
  BY <1>1, FirstsType
<1> HIDE DEF u, v
<1>6. ASSUME NEW i \in 1 .. Len(u) PROVE u[i] = v[i]
  <2>1. CASE i = 1
    BY <1>1, <1>4, <1>5, <2>1 DEF x
  <2>2. CASE i # 1
    <3>1. i - 1 \in 1 .. Len(s) /\ (i - 1) + 1 = i
      BY <1>1, <1>5, <2>2
    <3>2. u[i] = h[w[i]].first /\ w[i] = s[i - 1]
      BY <1>1, <1>5, <3>1
    <3>3. v[i] = f[i - 1] /\ f[i - 1] = h[s[i - 1]].first
      BY <1>2, <1>4, <3>1
    <3> QED BY <3>2, <3>3
  <2> QED BY <2>1, <2>2
<1>7. u = v
  BY <1>1, <1>2, <1>4, <1>5, <1>6, SeqEqual
<1> QED BY <1>7 DEF u, v, w, f, x

(* The elements of a chain with a node more behind it.                     *)
LEMMA FirstsSnoc ==
  ASSUME NEW h, HeapTyped(h), NEW s \in Seq(DOMAIN h), NEW n \in DOMAIN h
  PROVE  Firsts(h, Append(s, n)) = Append(Firsts(h, s), h[n].first)
<1> DEFINE w == Append(s, n)
           x == h[n].first
           f == Firsts(h, s)
           v == Append(f, x)
           u == Firsts(h, w)
<1>1. /\ w \in Seq(DOMAIN h) /\ Len(w) = Len(s) + 1 /\ Len(s) \in Nat
      /\ \A i \in 1 .. Len(s) : w[i] = s[i]
      /\ w[Len(s) + 1] = n
  BY SnocIs
<1>2. /\ f \in Seq(Elem) /\ Len(f) = Len(s)
      /\ \A i \in 1 .. Len(s) : f[i] = h[s[i]].first
  BY FirstsType
<1>3. x \in Elem
  BY HeapTypes
<1> HIDE DEF w, f, x
<1>4. /\ v \in Seq(Elem) /\ Len(v) = Len(f) + 1
      /\ \A i \in 1 .. Len(f) : v[i] = f[i]
      /\ v[Len(f) + 1] = x
  BY <1>2, <1>3, SnocIs
<1>5. /\ u \in Seq(Elem) /\ Len(u) = Len(w)
      /\ \A i \in 1 .. Len(w) : u[i] = h[w[i]].first
  BY <1>1, FirstsType
<1> HIDE DEF u, v
<1>6. ASSUME NEW i \in 1 .. Len(u) PROVE u[i] = v[i]
  <2>1. CASE i = Len(s) + 1
    BY <1>1, <1>2, <1>4, <1>5, <2>1 DEF x
  <2>2. CASE i # Len(s) + 1
    <3>1. i \in 1 .. Len(s)
      BY <1>1, <1>5, <2>2
    <3> QED BY <1>1, <1>2, <1>4, <1>5, <3>1
  <2> QED BY <2>1, <2>2
<1>7. u = v
  BY <1>1, <1>2, <1>4, <1>5, <1>6, SeqEqual
<1> QED BY <1>7 DEF u, v, w, f, x

(* The elements of two chains one behind the other.                        *)
LEMMA FirstsCat ==
  ASSUME NEW h, HeapTyped(h), NEW s \in Seq(DOMAIN h), NEW t \in Seq(DOMAIN h)
  PROVE  Firsts(h, s \o t) = Firsts(h, s) \o Firsts(h, t)
<1> DEFINE w == s \o t
           f == Firsts(h, s)
           g == Firsts(h, t)
           v == f \o g
           u == Firsts(h, w)
<1>1. /\ w \in Seq(DOMAIN h) /\ Len(w) = Len(s) + Len(t)
      /\ Len(s) \in Nat /\ Len(t) \in Nat
      /\ \A i \in 1 .. Len(s) : w[i] = s[i]
      /\ \A i \in 1 .. Len(t) : w[Len(s) + i] = t[i]
  BY CatIs
<1>2. /\ f \in Seq(Elem) /\ Len(f) = Len(s)
      /\ \A i \in 1 .. Len(s) : f[i] = h[s[i]].first
  BY FirstsType
<1>3. /\ g \in Seq(Elem) /\ Len(g) = Len(t)
      /\ \A i \in 1 .. Len(t) : g[i] = h[t[i]].first
  BY FirstsType
<1> HIDE DEF w, f, g
<1>4. /\ v \in Seq(Elem) /\ Len(v) = Len(f) + Len(g)
      /\ \A i \in 1 .. Len(f) : v[i] = f[i]
      /\ \A i \in 1 .. Len(g) : v[Len(f) + i] = g[i]
  <2>1. f \in Seq(Elem) /\ g \in Seq(Elem)
    BY <1>2, <1>3
  <2> HIDE DEF v
  <2>2. v = f \o g
    BY DEF v
  <2> QED BY <2>1, <2>2, CatAs
<1>5. /\ u \in Seq(Elem) /\ Len(u) = Len(w)
      /\ \A i \in 1 .. Len(w) : u[i] = h[w[i]].first
  BY <1>1, FirstsType
<1> HIDE DEF u, v
<1>6. ASSUME NEW i \in 1 .. Len(u) PROVE u[i] = v[i]
  <2>1. CASE i <= Len(s)
    <3>1. i \in 1 .. Len(s)
      BY <1>1, <1>5, <2>1
    <3> QED BY <1>1, <1>2, <1>4, <1>5, <3>1
  <2>2. CASE ~(i <= Len(s))
    <3> DEFINE k == i - Len(s)
    <3>1. k \in 1 .. Len(t) /\ Len(s) + k = i
      BY <1>1, <1>5, <2>2
    <3> HIDE DEF k
    <3>2. u[i] = h[w[i]].first /\ w[i] = t[k]
      BY <1>1, <1>5, <3>1
    <3>3. v[i] = g[k] /\ g[k] = h[t[k]].first
      BY <1>2, <1>3, <1>4, <3>1
    <3> QED BY <3>2, <3>3
  <2> QED BY <2>1, <2>2
<1>7. u = v
  BY <1>1, <1>2, <1>3, <1>4, <1>5, <1>6, SeqEqual
<1> QED BY <1>7 DEF u, v, w, f, g

-----------------------------------------------------------------------------
(* Walks along the lists.                                                  *)

(* The walk from q on, as its definition says.  The definition is          *)
(* recursive: that there is such a function is RecursionExists.            *)
LEMMA WalkIs ==
  ASSUME NEW h, IsFiniteSet(DOMAIN h), NEW q
  PROVE  /\ Cardinality(DOMAIN h) \in Nat
         /\ Walk(h, q) = [k \in 0 .. Cardinality(DOMAIN h) |->
                            IF k = 0 THEN q ELSE Rest(h, Walk(h, q)[k - 1])]
<1> DEFINE N == Cardinality(DOMAIN h)
           X == {q, NULL} \cup {h[n].rest : n \in DOMAIN h}
           F == [p \in (1 .. N) \X X |-> Rest(h, p[2])]
<1>1. N \in Nat
  BY FS_CardinalityType
<1>2. q \in X /\ \A x \in X : Rest(h, x) \in X
  BY DEF Rest, Live
<1> HIDE DEF X, N
<1>3. \A k \in 1 .. N, x \in X : F[<<k, x>>] = Rest(h, x)
  OBVIOUS
<1> HIDE DEF F
<1>4. PICK g : Iterates(g, N, q, F) /\ \A k \in 0 .. N : g[k] \in X
  <2>1. \A k \in 1 .. N, x \in X : F[<<k, x>>] \in X
    BY <1>2, <1>3
  <2>2. q \in X
    BY <1>2
  <2> QED BY <1>1, <2>1, <2>2, RecursionExists
<1>5. ASSUME NEW k \in 0 .. N PROVE g[k] = IF k = 0 THEN q ELSE Rest(h, g[k - 1])
  <2>1. CASE k = 0
    BY <1>4, <2>1 DEF Iterates
  <2>2. CASE k # 0
    <3>1. k \in 1 .. N /\ k - 1 \in 0 .. N
      BY <1>1, <2>2
    <3>2. g[k - 1] \in X
      BY <1>4, <3>1
    <3>3. g[k] = F[<<k, g[k - 1]>>]
      BY <1>4, <2>2 DEF Iterates
    <3> QED BY <1>3, <2>2, <3>1, <3>2, <3>3
  <2> QED BY <2>1, <2>2
<1>6. g = [k \in 0 .. N |-> IF k = 0 THEN q ELSE Rest(h, g[k - 1])]
  BY <1>4, <1>5 DEF Iterates
<1>7. \E w : w = [k \in 0 .. N |-> IF k = 0 THEN q ELSE Rest(h, w[k - 1])]
  BY <1>6
<1> QED BY <1>1, <1>7 DEF Walk, N

(* A chain has no more nodes than are allocated.                           *)
LEMMA ChainShort ==
  ASSUME NEW h, IsFiniteSet(DOMAIN h), NEW q, NEW s, NEW e, Chain(h, q, s, e)
  PROVE  Len(s) \in Nat /\ Len(s) <= Cardinality(DOMAIN h)
<1>1. s \in Seq(DOMAIN h) /\ Once(s) /\ Len(s) \in Nat
  BY LenProperties DEF Chain
<1>2. s \in [1 .. Len(s) -> DOMAIN h]
  BY <1>1
<1>3. s \in Injection(1 .. Len(s), DOMAIN h)
  BY <1>1, <1>2 DEF Injection, IsInjective, Once
<1>4. Cardinality(1 .. Len(s)) <= Cardinality(DOMAIN h)
  BY <1>3, FS_Injection
<1>5. Cardinality(1 .. Len(s)) = IF 1 > Len(s) THEN 0 ELSE Len(s) - 1 + 1
  BY <1>1, FS_Interval
<1>6. Cardinality(1 .. Len(s)) = Len(s)
  BY <1>1, <1>5
<1> QED BY <1>1, <1>4, <1>6

(* The walk along a list passes its nodes, and is at NULL behind them.     *)
LEMMA WalkList ==
  ASSUME NEW h, HeapTyped(h), NEW q, NEW s, Chain(h, q, s, NULL)
  PROVE  /\ \A k \in 0 .. Cardinality(DOMAIN h) :
              Walk(h, q)[k] = IF k < Len(s) THEN s[k + 1] ELSE NULL
         /\ Cardinality(DOMAIN h) \in Nat /\ Len(s) \in Nat /\ Len(s) <= Cardinality(DOMAIN h)
<1> DEFINE N == Cardinality(DOMAIN h)
           w == Walk(h, q)
           T == {k \in 0 .. N : w[k] = IF k < Len(s) THEN s[k + 1] ELSE NULL}
<1>1. IsFiniteSet(DOMAIN h) /\ s \in Seq(DOMAIN h)
  BY DEF HeapTyped, Chain
<1>2. N \in Nat /\ Len(s) \in Nat /\ Len(s) <= N /\ (s = <<>> <=> Len(s) = 0)
  BY <1>1, ChainShort, WalkIs, EmptySeq
<1>3. w = [k \in 0 .. N |-> IF k = 0 THEN q ELSE Rest(h, w[k - 1])]
  BY <1>1, WalkIs
<1>4. \A i \in 1 .. Len(s) : s[i] \in DOMAIN h
  BY <1>1, ElementOfSeq
<1>5. Rest(h, NULL) = NULL
  BY DEF Rest, Live
<1> HIDE DEF N, w
<1>6. 0 \in T
  <2>1. w[0] = q
    BY <1>2, <1>3
  <2>2. q = IF s = <<>> THEN NULL ELSE s[1]
    BY DEF Chain
  <2> QED BY <1>2, <2>1, <2>2
<1>7. ASSUME NEW k \in 0 .. N - 1, k \in T PROVE k + 1 \in T
  <2>1. k + 1 \in 0 .. N /\ k + 1 # 0 /\ (k + 1) - 1 = k
    BY <1>2
  <2>2. w[k + 1] = Rest(h, w[k])
    <3> DEFINE m == k + 1
    <3> HIDE DEF m
    <3>1. m \in 0 .. N /\ m # 0 /\ m - 1 = k
      BY <2>1 DEF m
    <3>2. w[m] = Rest(h, w[m - 1])
      BY <1>3, <3>1
    <3> QED BY <3>1, <3>2 DEF m
  <2>3. CASE k < Len(s)
    <3>1. w[k] = s[k + 1] /\ k + 1 \in 1 .. Len(s)
      BY <1>2, <1>7, <2>3
    <3>2. s[k + 1] \in DOMAIN h
      BY <1>4, <3>1
    <3>3. Rest(h, s[k + 1]) = h[s[k + 1]].rest
      BY <3>2, HeapTypes
    <3>4. h[s[k + 1]].rest = IF k + 1 = Len(s) THEN NULL ELSE s[(k + 1) + 1]
      BY <3>1 DEF Chain
    <3>5. w[k + 1] = IF k + 1 < Len(s) THEN s[(k + 1) + 1] ELSE NULL
      BY <1>2, <2>2, <2>3, <3>1, <3>3, <3>4
    <3> QED BY <2>1, <3>5
  <2>4. CASE ~(k < Len(s))
    <3>1. w[k] = NULL /\ ~(k + 1 < Len(s))
      BY <1>2, <1>7, <2>4
    <3>2. w[k + 1] = NULL
      BY <1>5, <2>2, <3>1
    <3> QED BY <2>1, <3>1, <3>2
  <2> QED BY <2>3, <2>4
<1>8. 0 .. N \subseteq T
  <2> HIDE DEF T
  <2> QED BY <1>2, <1>6, <1>7, IntervalInSet
<1> QED BY <1>2, <1>8 DEF N, w

(* So the nodes of a list are those of its chain, and its elements theirs. *)
LEMMA ListNodes ==
  ASSUME NEW h, HeapTyped(h), NEW q, NEW s, Chain(h, q, s, NULL)
  PROVE  /\ Nodes(h, q) = On(s) /\ Walk(h, q)[Cardinality(DOMAIN h)] = NULL
         /\ Length(h, q) = Len(s) /\ Elems(h, q) = Firsts(h, s)
<1> DEFINE N == Cardinality(DOMAIN h)
           w == Walk(h, q)
<1>1. /\ \A k \in 0 .. N : w[k] = IF k < Len(s) THEN s[k + 1] ELSE NULL
      /\ N \in Nat /\ Len(s) \in Nat /\ Len(s) <= N
  BY WalkList
<1>2. \A i \in 1 .. Len(s) : s[i] \in DOMAIN h /\ s[i] # NULL
  <2>1. s \in Seq(DOMAIN h)
    BY DEF Chain
  <2> QED BY <2>1, ElementOfSeq, HeapTypes
<1>3. Nodes(h, q) = {w[k] : k \in 0 .. N} \ {NULL}
  BY DEF Nodes
<1>4. Length(h, q) = Cardinality({k \in 0 .. N : w[k] # NULL})
  BY DEF Length
<1>5. Elems(h, q) = [i \in 1 .. Length(h, q) |-> First(h, w[i - 1])]
  BY DEF Elems
<1> HIDE DEF N, w
<1>6. \A k \in 0 .. N : k < Len(s) => k + 1 \in 1 .. Len(s) /\ w[k] = s[k + 1] /\ w[k] # NULL
  BY <1>1, <1>2
<1>7. \A i \in 1 .. Len(s) : i - 1 \in 0 .. N /\ i - 1 < Len(s) /\ (i - 1) + 1 = i /\ w[i - 1] = s[i]
  <2> TAKE i \in 1 .. Len(s)
  <2> DEFINE k == i - 1
  <2>1. k \in 0 .. N /\ k < Len(s) /\ k + 1 = i
    BY <1>1
  <2> HIDE DEF k
  <2>2. w[k] = s[i]
    BY <1>6, <2>1
  <2> QED BY <2>1, <2>2 DEF k
<1>8. Nodes(h, q) = On(s)
  <2>1. ASSUME NEW y \in Nodes(h, q) PROVE y \in On(s)
    <3>1. PICK k \in 0 .. N : y = w[k] /\ y # NULL
      BY <1>3
    <3>2. k < Len(s)
      BY <1>1, <3>1
    <3> QED BY <1>6, <3>1, <3>2 DEF On
  <2>2. ASSUME NEW y \in On(s) PROVE y \in Nodes(h, q)
    <3>1. PICK i \in 1 .. Len(s) : y = s[i]
      BY DEF On
    <3> QED BY <1>2, <1>3, <1>7, <3>1
  <2> QED BY <2>1, <2>2
<1>9. w[N] = NULL
  BY <1>1
<1>10. Length(h, q) = Len(s)
  <2>1. {k \in 0 .. N : w[k] # NULL} = 0 .. Len(s) - 1
    BY <1>1, <1>6
  <2> DEFINE m == Len(s) - 1
  <2>2. m \in Int /\ 0 \in Int /\ m - 0 + 1 = Len(s) /\ (0 > m <=> Len(s) = 0)
    BY <1>1
  <2> HIDE DEF m
  <2>3. Cardinality(0 .. m) = IF 0 > m THEN 0 ELSE m - 0 + 1
    BY <2>2, FS_Interval
  <2>4. Cardinality(0 .. m) = Len(s)
    BY <2>2, <2>3
  <2> QED BY <1>4, <2>1, <2>4 DEF m
<1>11. Elems(h, q) = Firsts(h, s)
  <2>1. ASSUME NEW i \in 1 .. Len(s) PROVE First(h, w[i - 1]) = h[s[i]].first
    BY <1>2, <1>7, HeapTypes
  <2> QED BY <1>5, <1>10, <2>1 DEF Firsts
<1> QED BY <1>8, <1>9, <1>10, <1>11 DEF N, w

-----------------------------------------------------------------------------
(* What ListSpec does with sequences.                                      *)

(* s without the elements of D, element by element.                        *)
KeptOf(s, D) ==
  CHOOSE w : w = [i \in 0 .. Len(s) |->
                    IF i = 0 THEN <<>>
                    ELSE IF s[i] \in D THEN w[i - 1] ELSE Append(w[i - 1], s[i])]

(* What is left of s without the elements of D is what KeptOf comes to,    *)
(* element by element.                                                     *)
LEMMA WithoutIs ==
  ASSUME NEW S, NEW s \in Seq(S), NEW D
  PROVE  /\ Without(s, D) = KeptOf(s, D)[Len(s)] /\ Len(s) \in Nat
         /\ \A i \in 0 .. Len(s) : KeptOf(s, D)[i] \in Seq(S)
         /\ KeptOf(s, D)[0] = <<>>
         /\ \A i \in 1 .. Len(s) :
              KeptOf(s, D)[i] = IF s[i] \in D THEN KeptOf(s, D)[i - 1]
                                ELSE Append(KeptOf(s, D)[i - 1], s[i])
<1> DEFINE N == Len(s)
           X == Seq(S)
           Next1(k, x) == IF s[k] \in D THEN x ELSE Append(x, s[k])
           F == [p \in (1 .. N) \X X |-> Next1(p[1], p[2])]
<1>1. N \in Nat /\ \A i \in 1 .. N : s[i] \in S
  BY LenProperties, ElementOfSeq
<1>2. <<>> \in X /\ \A k \in 1 .. N, x \in X : Next1(k, x) \in X
  <2>1. ASSUME NEW k \in 1 .. N, NEW x \in X PROVE Next1(k, x) \in X
    <3>1. Append(x, s[k]) \in Seq(S)
      BY <1>1, SnocIs
    <3> QED BY <3>1
  <2> QED BY <2>1, EmptySeq
<1> HIDE DEF X, N, Next1
<1>3. \A k \in 1 .. N, x \in X : F[<<k, x>>] = Next1(k, x)
  OBVIOUS
<1> HIDE DEF F
<1>4. PICK g : Iterates(g, N, <<>>, F) /\ \A k \in 0 .. N : g[k] \in X
  <2>1. \A k \in 1 .. N, x \in X : F[<<k, x>>] \in X
    BY <1>2, <1>3
  <2>2. <<>> \in X
    BY <1>2
  <2> QED BY <1>1, <2>1, <2>2, RecursionExists
<1>5. ASSUME NEW k \in 0 .. N
      PROVE  g[k] = IF k = 0 THEN <<>> ELSE Next1(k, g[k - 1])
  <2>1. CASE k = 0
    BY <1>4, <2>1 DEF Iterates
  <2>2. CASE k # 0
    <3>1. k \in 1 .. N /\ k - 1 \in 0 .. N
      BY <1>1, <2>2
    <3>2. g[k - 1] \in X
      BY <1>4, <3>1
    <3>3. g[k] = F[<<k, g[k - 1]>>]
      BY <1>4, <2>2 DEF Iterates
    <3> QED BY <1>3, <2>2, <3>1, <3>2, <3>3
  <2> QED BY <2>1, <2>2
<1>6. g = [k \in 0 .. N |-> IF k = 0 THEN <<>> ELSE Next1(k, g[k - 1])]
  BY <1>4, <1>5 DEF Iterates
<1>7. g = [i \in 0 .. Len(s) |->
             IF i = 0 THEN <<>>
             ELSE IF s[i] \in D THEN g[i - 1] ELSE Append(g[i - 1], s[i])]
  BY <1>6 DEF N, Next1
<1> DEFINE w == KeptOf(s, D)
<1>8. w = [i \in 0 .. Len(s) |->
             IF i = 0 THEN <<>>
             ELSE IF s[i] \in D THEN w[i - 1] ELSE Append(w[i - 1], s[i])]
  BY <1>7 DEF KeptOf
<1>9. Without(s, D) = w[Len(s)]
  BY DEF Without, KeptOf
<1> HIDE DEF w
<1>10. /\ w[0] = <<>>
       /\ \A i \in 1 .. N : w[i] = Next1(i, w[i - 1])
  <2>1. 0 \in 0 .. Len(s) /\ \A i \in 1 .. Len(s) : i \in 0 .. Len(s) /\ i # 0
    BY <1>1 DEF N
  <2>2. w[0] = <<>>
    BY <1>8, <2>1
  <2>3. ASSUME NEW i \in 1 .. Len(s)
        PROVE  w[i] = IF s[i] \in D THEN w[i - 1] ELSE Append(w[i - 1], s[i])
    BY <1>8, <2>1
  <2> QED BY <2>2, <2>3 DEF N, Next1
<1> DEFINE T == {k \in 0 .. N : w[k] \in X}
<1>11. 0 .. N \subseteq T
  <2>1. 0 \in T
    BY <1>1, <1>2, <1>10
  <2>2. ASSUME NEW k \in 0 .. N - 1, k \in T PROVE k + 1 \in T
    <3> DEFINE m == k + 1
    <3>1. m \in 1 .. N /\ m \in 0 .. N /\ m - 1 = k
      BY <1>1
    <3> HIDE DEF m
    <3>2. w[m] = Next1(m, w[k]) /\ w[k] \in X
      BY <1>10, <2>2, <3>1
    <3>3. w[m] \in X
      BY <1>2, <3>1, <3>2
    <3>4. m \in T
      BY <3>1, <3>3
    <3> QED BY <3>4 DEF m
  <2> HIDE DEF T
  <2> QED BY <1>1, <2>1, <2>2, IntervalInSet
<1>12. \A k \in 0 .. N : w[k] \in X
  BY <1>11
<1> QED BY <1>1, <1>9, <1>10, <1>12 DEF w, N, X, Next1

(* An element of D does not count.                                         *)
LEMMA WithoutDrops ==
  ASSUME NEW S, NEW s \in Seq(S), NEW r \in Seq(S), NEW D, NEW m \in 0 .. Len(r),
         Len(s) = Len(r) + 1, s[m + 1] \in D,
         \A i \in 1 .. m : s[i] = r[i],
         \A i \in m + 1 .. Len(r) : s[i + 1] = r[i]
  PROVE  Without(s, D) = Without(r, D)
<1> DEFINE w == KeptOf(s, D)
           v == KeptOf(r, D)
           N == Len(r)
           T == {k \in 0 .. N : (k <= m => w[k] = v[k]) /\ (k >= m => w[k + 1] = v[k])}
<1>1. /\ Without(s, D) = w[Len(s)]
      /\ w[0] = <<>>
      /\ \A i \in 1 .. Len(s) : w[i] = IF s[i] \in D THEN w[i - 1] ELSE Append(w[i - 1], s[i])
  BY WithoutIs
<1>2. /\ Without(r, D) = v[N] /\ N \in Nat
      /\ v[0] = <<>>
      /\ \A i \in 1 .. N : v[i] = IF r[i] \in D THEN v[i - 1] ELSE Append(v[i - 1], r[i])
  BY WithoutIs
<1>3. m \in 0 .. N /\ Len(s) = N + 1 /\ \A i \in m + 1 .. N : s[i + 1] = r[i]
  OBVIOUS
<1> HIDE DEF w, v, N
<1>4. w[m + 1] = w[m]
  <2> DEFINE j == m + 1
  <2>1. j \in 1 .. Len(s) /\ j - 1 = m /\ s[j] \in D
    BY <1>2, <1>3
  <2> HIDE DEF j
  <2>2. w[j] = w[m]
    BY <1>1, <2>1
  <2> QED BY <2>2 DEF j
<1>5. 0 \in T
  BY <1>1, <1>2, <1>3, <1>4
<1>6. ASSUME NEW k \in 0 .. N - 1, k \in T PROVE k + 1 \in T
  <2> DEFINE j == k + 1
             i == j + 1
  <2>1. /\ j \in 1 .. N /\ j \in 1 .. Len(s) /\ j - 1 = k /\ j \in 0 .. N
        /\ i \in 1 .. Len(s) /\ i - 1 = j
    BY <1>2, <1>3
  <2> HIDE DEF i
  <2>2. v[j] = IF r[j] \in D THEN v[k] ELSE Append(v[k], r[j])
    BY <1>2, <2>1
  <2>3. CASE j <= m
    <3>1. s[j] = r[j] /\ w[k] = v[k]
      BY <1>2, <1>3, <1>6, <2>1, <2>3
    <3>2. w[j] = v[j]
      <4>1. w[j] = IF s[j] \in D THEN w[k] ELSE Append(w[k], s[j])
        BY <1>1, <2>1
      <4> QED BY <2>2, <3>1, <4>1
    <3>3. j >= m => w[j + 1] = v[j]
      <4>1. j >= m => j = m
        BY <1>3, <2>1, <2>3
      <4> QED BY <1>4, <3>2, <4>1
    <3> QED BY <2>1, <3>2, <3>3
  <2>4. CASE ~(j <= m)
    <3>1. j \in m + 1 .. N /\ w[j] = v[k]
      BY <1>2, <1>3, <1>6, <2>1, <2>4
    <3>2. s[i] = r[j]
      BY <1>3, <3>1 DEF i
    <3>3. w[i] = IF s[i] \in D THEN w[j] ELSE Append(w[j], s[i])
      BY <1>1, <2>1
    <3>4. w[i] = v[j]
      BY <2>2, <3>1, <3>2, <3>3
    <3> QED BY <2>1, <2>4, <3>4 DEF i
  <2> QED BY <2>3, <2>4
<1>7. 0 .. N \subseteq T
  <2> HIDE DEF T
  <2> QED BY <1>2, <1>5, <1>6, IntervalInSet
<1>8. w[N + 1] = v[N]
  <2>1. N \in T /\ N >= m
    BY <1>2, <1>3, <1>7
  <2> QED BY <2>1
<1> QED BY <1>1, <1>2, <1>3, <1>8

(* Without an element of D, s stays as it is.                              *)
LEMMA WithoutNone ==
  ASSUME NEW S, NEW s \in Seq(S), NEW D, \A i \in 1 .. Len(s) : s[i] \notin D
  PROVE  Without(s, D) = s
<1> DEFINE w == KeptOf(s, D)
           N == Len(s)
           Is(k) == w[k] \in Seq(S) /\ Len(w[k]) = k /\ \A i \in 1 .. k : w[k][i] = s[i]
           T == {k \in 0 .. N : Is(k)}
<1>1. /\ Without(s, D) = w[N] /\ N \in Nat
      /\ w[0] = <<>>
      /\ \A i \in 1 .. N : w[i] = IF s[i] \in D THEN w[i - 1] ELSE Append(w[i - 1], s[i])
  BY WithoutIs
<1>2. \A i \in 1 .. N : s[i] \notin D /\ s[i] \in S
  BY ElementOfSeq
<1> HIDE DEF w
<1>3. 0 \in T
  <2>1. w[0] \in Seq(S) /\ Len(w[0]) = 0
    BY <1>1, EmptySeq
  <2>2. \A i \in 1 .. 0 : w[0][i] = s[i]
    OBVIOUS
  <2>3. Is(0)
    BY <2>1, <2>2
  <2>4. 0 \in 0 .. N
    BY <1>1
  <2> HIDE DEF Is
  <2> QED BY <2>3, <2>4
<1>4. ASSUME NEW k \in 0 .. N - 1, k \in T PROVE k + 1 \in T
  <2> DEFINE j == k + 1
  <2>1. j \in 1 .. N /\ j - 1 = k /\ j \in 0 .. N /\ k \in Nat
    BY <1>1
  <2>2. j = k + 1 /\ \A i \in 1 .. j : i = j \/ i \in 1 .. k
    BY <2>1
  <2> HIDE DEF j
  <2>3. w[j] = Append(w[k], s[j])
    BY <1>1, <1>2, <2>1
  <2>4. w[k] \in Seq(S) /\ Len(w[k]) = k /\ \A i \in 1 .. k : w[k][i] = s[i]
    BY <1>4
  <2> DEFINE p == w[k]
  <2> HIDE DEF p
  <2>5. p \in Seq(S) /\ Len(p) = k /\ (\A i \in 1 .. k : p[i] = s[i]) /\ w[j] = Append(p, s[j])
    BY <2>3, <2>4 DEF p
  <2>6. /\ Append(p, s[j]) \in Seq(S) /\ Len(Append(p, s[j])) = k + 1
        /\ \A i \in 1 .. k : Append(p, s[j])[i] = p[i]
        /\ Append(p, s[j])[k + 1] = s[j]
    BY <1>2, <2>1, <2>5, SnocIs
  <2> DEFINE z == Append(p, s[j])
  <2> HIDE DEF z
  <2>7. z \in Seq(S) /\ Len(z) = j /\ \A i \in 1 .. j : z[i] = s[i]
    BY <2>2, <2>5, <2>6 DEF z
  <2>8. Is(j)
    BY <2>5, <2>7 DEF z
  <2>9. j \in T
    BY <2>1, <2>8
  <2> QED BY <2>9 DEF j
<1>5. 0 .. N \subseteq T
  <2> HIDE DEF T, Is
  <2> QED BY <1>1, <1>3, <1>4, IntervalInSet
<1>6. Is(N)
  BY <1>1, <1>5
<1>7. w[N] = s
  BY <1>1, <1>6, SeqEqual
<1> QED BY <1>1, <1>7

(* An empty sequence in front of, or behind, another one.                  *)
LEMMA EmptyCat ==
  ASSUME NEW S, NEW s \in Seq(S)
  PROVE  <<>> \o s = s /\ s \o <<>> = s
BY ConcatEmptySeq

(* The rest of a sequence behind its first element.                        *)
LEMMA TailCons ==
  ASSUME NEW S, NEW x \in S, NEW s \in Seq(S)
  PROVE  Tail(<<x>> \o s) = s /\ <<x>> \o s # <<>>
<1> DEFINE w == <<x>> \o s
           t == Tail(w)
<1>1. /\ w \in Seq(S) /\ Len(w) = Len(s) + 1 /\ Len(s) \in Nat
      /\ \A i \in 1 .. Len(s) : w[i + 1] = s[i]
  BY ConsIs
<1> HIDE DEF w
<1>2. w # <<>>
  BY <1>1, EmptySeq
<1>3. t \in Seq(S) /\ Len(t) = Len(w) - 1 /\ \A i \in 1 .. Len(w) - 1 : t[i] = w[i + 1]
  BY <1>1, <1>2, TailIs
<1> HIDE DEF t
<1>4. t = s
  <2>1. Len(t) = Len(s) /\ Len(w) - 1 = Len(s)
    BY <1>1, <1>3
  <2>2. \A i \in 1 .. Len(s) : t[i] = s[i]
    BY <1>1, <1>3, <2>1
  <2> QED BY <1>3, <2>1, <2>2, SeqEqual
<1> QED BY <1>2, <1>4 DEF t, w

(* An element between two sequences, behind the first or before the second.*)
LEMMA CatShift ==
  ASSUME NEW S, NEW s \in Seq(S), NEW x \in S, NEW t \in Seq(S),
         NEW p, NEW q, p = Append(s, x), q = <<x>> \o t
  PROVE  p \o t = s \o q
<1> DEFINE u == p \o t
           v == s \o q
<1>1. /\ p \in Seq(S) /\ Len(p) = Len(s) + 1 /\ Len(s) \in Nat
      /\ \A i \in 1 .. Len(s) : p[i] = s[i]
      /\ p[Len(s) + 1] = x
  BY SnocIs
<1>2. /\ q \in Seq(S) /\ Len(q) = Len(t) + 1 /\ Len(t) \in Nat /\ q[1] = x
      /\ \A i \in 1 .. Len(t) : q[i + 1] = t[i]
  BY ConsIs
<1> HIDE DEF u, v
<1>3. /\ u \in Seq(S) /\ Len(u) = Len(p) + Len(t)
      /\ \A i \in 1 .. Len(p) : u[i] = p[i]
      /\ \A i \in 1 .. Len(t) : u[Len(p) + i] = t[i]
  <2>1. u = p \o t
    BY DEF u
  <2>2. p \in Seq(S)
    BY <1>1
  <2> QED BY <2>1, <2>2, CatAs
<1>4. /\ v \in Seq(S) /\ Len(v) = Len(s) + Len(q)
      /\ \A i \in 1 .. Len(s) : v[i] = s[i]
      /\ \A i \in 1 .. Len(q) : v[Len(s) + i] = q[i]
  <2>1. v = s \o q
    BY DEF v
  <2>2. q \in Seq(S)
    BY <1>2
  <2> QED BY <2>1, <2>2, CatAs
<1>5. ASSUME NEW i \in 1 .. Len(u) PROVE u[i] = v[i]
  <2>1. CASE i <= Len(s)
    <3>1. i \in 1 .. Len(s) /\ i \in 1 .. Len(p)
      BY <1>1, <1>2, <1>3, <2>1
    <3> QED BY <1>1, <1>3, <1>4, <3>1
  <2>2. CASE i = Len(s) + 1
    <3>1. i \in 1 .. Len(p) /\ 1 \in 1 .. Len(q) /\ i = Len(s) + 1
      BY <1>1, <1>2, <2>2
    <3>2. u[i] = x
      BY <1>1, <1>3, <3>1
    <3>3. v[Len(s) + 1] = x
      BY <1>2, <1>4, <3>1
    <3> QED BY <3>1, <3>2, <3>3
  <2>3. CASE ~(i <= Len(s)) /\ i # Len(s) + 1
    <3> DEFINE k == i - (Len(s) + 1)
               m == k + 1
    <3>1. /\ k \in 1 .. Len(t) /\ Len(p) + k = i
          /\ m \in 1 .. Len(q) /\ Len(s) + m = i
      BY <1>1, <1>2, <1>3, <2>3
    <3>2. q[m] = t[k]
      BY <1>2, <3>1
    <3> HIDE DEF k, m
    <3>3. u[i] = t[k]
      BY <1>3, <3>1
    <3>4. v[i] = q[m]
      BY <1>4, <3>1
    <3> QED BY <3>2, <3>3, <3>4
  <2> QED BY <2>1, <2>2, <2>3
<1>6. Len(u) = Len(v)
  BY <1>1, <1>2, <1>3, <1>4
<1>7. u = v
  BY <1>3, <1>4, <1>5, <1>6, SeqEqual
<1> QED BY <1>7 DEF u, v

(* What is turned round.                                                   *)
LEMMA ReverseIs ==
  ASSUME NEW S, NEW s \in Seq(S)
  PROVE  /\ Reverse(s) \in Seq(S) /\ Len(Reverse(s)) = Len(s) /\ Len(s) \in Nat
         /\ \A i \in 1 .. Len(s) : Reverse(s)[i] = s[(Len(s) - i) + 1]
<1> DEFINE r == Reverse(s)
<1>1. Len(s) \in Nat /\ \A i \in 1 .. Len(s) : s[i] \in S
  BY LenProperties, ElementOfSeq
<1>2. /\ r = [i \in 1 .. Len(s) |-> r[i]]
      /\ \A i \in 1 .. Len(s) : r[i] = s[(Len(s) - i) + 1]
  BY DEF Reverse
<1> HIDE DEF r
<1>3. \A i \in 1 .. Len(s) : (Len(s) - i) + 1 \in 1 .. Len(s)
  BY <1>1
<1>4. \A i \in 1 .. Len(s) : r[i] \in S
  BY <1>1, <1>2, <1>3
<1>5. r \in Seq(S)
  BY <1>1, <1>2, <1>4, IsASeq
<1>6. Len(r) = Len(s)
  BY <1>1, <1>2, <1>5, LenProperties
<1> QED BY <1>1, <1>2, <1>5, <1>6 DEF r

(* s turned round in front of t.                                           *)
TurnedOnto(s, t) == Reverse(s) \o t

(* One element less to turn round and one more turned.                     *)
LEMMA ReverseTurns ==
  ASSUME NEW S, NEW x \in S, NEW s \in Seq(S), NEW t \in Seq(S),
         NEW w, NEW z, w = Cons(x, s), z = Cons(x, t)
  PROVE  TurnedOnto(w, t) = TurnedOnto(s, z)
<1> USE DEF Cons
<1>1. /\ w \in Seq(S) /\ Len(w) = Len(s) + 1 /\ Len(s) \in Nat /\ w[1] = x
      /\ \A i \in 1 .. Len(s) : w[i + 1] = s[i]
  BY ConsIs
<1> DEFINE r == Reverse(s)
<1>2. /\ r \in Seq(S) /\ Len(r) = Len(s)
      /\ \A i \in 1 .. Len(s) : r[i] = s[(Len(s) - i) + 1]
  BY ReverseIs
<1> HIDE DEF r
<1>3. /\ Reverse(w) \in Seq(S) /\ Len(Reverse(w)) = Len(w)
      /\ \A i \in 1 .. Len(w) : Reverse(w)[i] = w[(Len(w) - i) + 1]
  BY <1>1, ReverseIs
<1> DEFINE v == Reverse(w)
           a == Append(r, x)
<1> HIDE DEF v
<1>4. /\ a \in Seq(S) /\ Len(a) = Len(r) + 1
      /\ \A i \in 1 .. Len(r) : a[i] = r[i]
      /\ a[Len(r) + 1] = x
  BY <1>2, SnocIs
<1> HIDE DEF a
<1>5. ASSUME NEW i \in 1 .. Len(v) PROVE v[i] = a[i]
  <2>1. i \in 1 .. Len(w)
    BY <1>3 DEF v
  <2>2. v[i] = w[(Len(w) - i) + 1]
    BY <1>3, <2>1 DEF v
  <2>3. CASE i = Len(s) + 1
    <3>1. (Len(w) - i) + 1 = 1 /\ i = Len(r) + 1
      BY <1>1, <1>2, <2>3
    <3> QED BY <1>1, <1>4, <2>2, <3>1
  <2>4. CASE i # Len(s) + 1
    <3> DEFINE k == (Len(s) - i) + 1
    <3>1. i \in 1 .. Len(s) /\ i \in 1 .. Len(r) /\ k \in 1 .. Len(s) /\ (Len(w) - i) + 1 = k + 1
      BY <1>1, <1>2, <2>1, <2>4
    <3>2. a[i] = s[k]
      BY <1>2, <1>4, <3>1
    <3> HIDE DEF k
    <3>3. w[k + 1] = s[k]
      BY <1>1, <3>1
    <3> QED BY <2>2, <3>1, <3>2, <3>3
  <2> QED BY <2>3, <2>4
<1>6. v = a
  <2>1. v \in Seq(S) /\ Len(v) = Len(a)
    BY <1>1, <1>2, <1>3, <1>4 DEF v
  <2> QED BY <1>4, <1>5, <2>1, SeqEqual
<1>7. a \o t = r \o z
  BY <1>2, CatShift DEF a
<1> QED BY <1>6, <1>7 DEF v, r, TurnedOnto

-----------------------------------------------------------------------------
(* Pointers written and nodes allocated.                                   *)

(* Nodes of unchanged elements make a chain of unchanged elements.         *)
LEMMA FirstsKept ==
  ASSUME NEW h, NEW g, NEW s, \A n \in On(s) : g[n].first = h[n].first
  PROVE  Firsts(g, s) = Firsts(h, s)
<1>1. \A i \in 1 .. Len(s) : g[s[i]].first = h[s[i]].first
  BY DEF On
<1> QED BY <1>1 DEF Firsts

(* The pointer behind a chain is written.                                  *)
LEMMA StoreIs ==
  ASSUME HeapTyped(heap), NEW top, NEW u, NEW e, Chain(heap, top, u, e), last = LastOf(u),
         NEW q \in Pointer
  PROVE  LET g == HeapStored(q)
         IN /\ HeapTyped(g) /\ DOMAIN g = DOMAIN heap
            /\ Agree(g, heap, DOMAIN heap \ On(u))
            /\ Chain(g, TopStored(top, q), u, q) /\ Firsts(g, u) = Firsts(heap, u)
<1> DEFINE g == HeapStored(q)
<1>1. CASE u = <<>>
  <2>1. On(u) = {} /\ last = NULL
    BY <1>1, ChainEmpty
  <2>2. g = heap /\ TopStored(top, q) = q
    BY <2>1 DEF HeapStored, TopStored
  <2>3. Chain(g, q, u, q)
    BY <1>1, ChainEmpty
  <2> QED BY <2>1, <2>2, <2>3 DEF Agree
<1>2. CASE u # <<>>
  <2>1. last \in On(u) /\ On(u) \in SUBSET DOMAIN heap
    BY <1>2, ChainTypes
  <2>2. last \in DOMAIN heap /\ last # NULL
    BY <2>1, HeapTypes
  <2>3. g = SetRest(heap, last, q) /\ TopStored(top, q) = top
    BY <2>2 DEF HeapStored, TopStored
  <2> HIDE DEF g
  <2>4. q \in Pointer \cup {Unset}
    OBVIOUS
  <2>5. /\ HeapTyped(g) /\ DOMAIN g = DOMAIN heap /\ Agree(g, heap, DOMAIN heap \ {last})
        /\ g[last].rest = q /\ g[last].first = heap[last].first
    BY <2>2, <2>3, <2>4, SetRestIs
  <2>6. Agree(g, heap, DOMAIN heap \ On(u))
    BY <2>1, <2>5 DEF Agree
  <2>7. \A n \in On(u) \ {last} : g[n] = heap[n]
    BY <2>1, <2>5 DEF Agree
  <2>8. Chain(g, top, u, q)
    <3>1. \A n \in On(u) \ {LastOf(u)} : g[n].rest = heap[n].rest
      BY <2>7
    <3>2. Chain(g, top, u, g[LastOf(u)].rest)
      BY <1>2, <2>1, <2>5, <3>1, ChainEnds
    <3> QED BY <2>5, <3>2
  <2>9. Firsts(g, u) = Firsts(heap, u)
    BY <2>5, <2>7, FirstsKept
  <2> QED BY <2>3, <2>5, <2>6, <2>8, <2>9 DEF g
<1> QED BY <1>1, <1>2

(* A node is allocated and put there.                                      *)
LEMMA GrowIs ==
  ASSUME HeapTyped(heap), NEW u, Chain(heap, head, u, Unset), last = LastOf(u),
         NEW n \in Node, n \notin DOMAIN heap, NEW x \in Elem
  PROVE  LET g == With(HeapStored(n), n, x, Unset)
             w == Append(u, n)
         IN /\ HeapTyped(g) /\ DOMAIN g = DOMAIN heap \cup {n}
            /\ Agree(g, heap, DOMAIN heap \ On(u))
            /\ Chain(g, TopStored(head, n), w, Unset)
            /\ On(w) = On(u) \cup {n} /\ w # <<>> /\ LastOf(w) = n
            /\ Firsts(g, w) = Append(Firsts(heap, u), x)
<1> DEFINE f == HeapStored(n)
           g == With(f, n, x, Unset)
           w == Append(u, n)
           top == TopStored(head, n)
<1>1. /\ HeapTyped(f) /\ DOMAIN f = DOMAIN heap /\ Agree(f, heap, DOMAIN heap \ On(u))
      /\ Chain(f, top, u, n) /\ Firsts(f, u) = Firsts(heap, u)
  BY StoreIs DEF Pointer
<1>2. On(u) \in SUBSET DOMAIN heap
  BY ChainTypes
<1> HIDE DEF f, top
<1>3. /\ HeapTyped(g) /\ DOMAIN g = DOMAIN f \cup {n} /\ Agree(g, f, DOMAIN f)
      /\ n \in DOMAIN g /\ g[n].rest = Unset /\ g[n].first = x
  <2>1. Extended(g, f, n, x, Unset)
    BY <1>1, WithIs
  <2> QED BY <2>1 DEF Extended
<1> HIDE DEF g
<1>4. Chain(g, top, u, n)
  BY <1>1, <1>2, <1>3, ChainAgrees
<1>5. n \notin On(u)
  BY <1>2
<1>6. Chain(g, top, w, g[n].rest) /\ On(w) = On(u) \cup {n} /\ w # <<>> /\ LastOf(w) = n
  BY <1>3, <1>4, <1>5, ChainSnoc
<1>7. Firsts(g, u) = Firsts(f, u)
  BY <1>1, <1>2, <1>3, FirstsAgree
<1>8. Firsts(g, w) = Append(Firsts(g, u), x)
  <2>1. u \in Seq(DOMAIN g)
    BY <1>4 DEF Chain
  <2>2. Firsts(g, w) = Append(Firsts(g, u), g[n].first)
    BY <1>3, <2>1, FirstsSnoc
  <2> QED BY <1>3, <2>2
<1>9. Agree(g, heap, DOMAIN heap \ On(u))
  BY <1>1, <1>3 DEF Agree
<1> QED BY <1>1, <1>3, <1>6, <1>7, <1>8, <1>9 DEF f, g, w, top

-----------------------------------------------------------------------------
(* The inductive invariant.                                                *)

(* Every allocated node is on one of the four chains, and on one only.     *)
Owned(h, a, b, u, t) ==
  /\ DOMAIN h = On(a) \cup On(b) \cup On(u) \cup On(t)
  /\ On(a) \cap On(b) = {} /\ On(a) \cap On(u) = {} /\ On(a) \cap On(t) = {}
  /\ On(b) \cap On(u) = {} /\ On(b) \cap On(t) = {} /\ On(u) \cap On(t) = {}

(* A node of the second chain is freed, or goes over to another one.       *)
LEMMA OwnedFreed ==
  ASSUME NEW h, NEW a, NEW b, NEW u, NEW t, Owned(h, a, b, u, t),
         NEW g, NEW c, NEW v, c \in On(b), On(v) = On(b) \ {c}, DOMAIN g = DOMAIN h \ {c}
  PROVE  Owned(g, a, v, u, t)
BY DEF Owned

(* The same when it goes over to the first chain or to the third one.      *)
LEMMA OwnedMoved ==
  ASSUME NEW h, NEW a, NEW b, NEW u, NEW t, Owned(h, a, b, u, t),
         NEW g, NEW c, NEW v, NEW w, c \in On(b), On(v) = On(b) \ {c}, DOMAIN g = DOMAIN h
  PROVE  /\ On(w) = On(a) \cup {c} => Owned(g, w, v, u, t)
         /\ On(w) = On(u) \cup {c} => Owned(g, a, v, w, t)
BY DEF Owned

(* Where the chains a, b and u are during each call; t is always that of   *)
(* other.  Between two calls, and while list_free frees one node after the *)
(* other, all of list is ahead.                                            *)
AtRest(a, b, u) == a = <<>> /\ u = <<>> /\ Chain(heap, list, b, NULL)

(* list_append has passed a and looks for the end of b.                    *)
InAppend(a, b, u) ==
  /\ u = <<>> /\ last = LastOf(a)
  /\ Chain(heap, list, a, Pointee(list)) /\ Chain(heap, Pointee(list), b, NULL)

(* list_list builds u, whose last rest is not written yet.                 *)
InList(a, b, u) ==
  /\ a = <<>> /\ last = LastOf(u) /\ other = NULL
  /\ Chain(heap, list, b, NULL) /\ Chain(heap, head, u, Unset)

(* list_copy has copied a into u, whose last rest is not written yet, and  *)
(* has b to copy.                                                          *)
InCopy(a, b, u) ==
  /\ last = LastOf(u) /\ other = NULL
  /\ Chain(heap, list, a, cur) /\ Chain(heap, cur, b, NULL) /\ Chain(heap, head, u, Unset)
  /\ Firsts(heap, u) = Firsts(heap, a)

(* list_reverse has turned u and has b to turn.                            *)
InReverse(a, b, u) == a = <<>> /\ Chain(heap, cur, b, NULL) /\ Chain(heap, head, u, NULL)

(* list_map has passed a and has b to change.                              *)
InMap(a, b, u) == u = <<>> /\ Chain(heap, list, a, cur) /\ Chain(heap, cur, b, NULL)

(* The first loop of update_clients_list has b to look at; what it freed   *)
(* was all in front of it.                                                 *)
InPruneHead(a, b, u) == a = <<>> /\ u = <<>> /\ head = NULL /\ Chain(heap, cur, b, NULL)

(* The second one stands at the last node of a, all of which stay, and has *)
(* b to look at.  If no node stays there is nothing left.                  *)
InPruneRest(a, b, u) ==
  /\ u = <<>> /\ cur = LastOf(a) /\ (a = <<>> => b = <<>>)
  /\ Chain(heap, head, a, Rest(heap, cur)) /\ Chain(heap, Rest(heap, cur), b, NULL)
  /\ \A n \in On(a) : heap[n].first \notin dead

(* The chains are where the call that runs has them.                       *)
Placed(a, b, u) ==
  /\ call \in {"none", "free"} => AtRest(a, b, u)
  /\ call = "append" => InAppend(a, b, u)
  /\ call = "list" => InList(a, b, u)
  /\ call = "copy" => InCopy(a, b, u)
  /\ call = "reverse" => InReverse(a, b, u)
  /\ call = "map" => InMap(a, b, u)
  /\ call = "prune_head" => InPruneHead(a, b, u)
  /\ call = "prune_rest" => InPruneRest(a, b, u)

(* The nodes make such chains: what the loop has passed or keeps (a), what *)
(* is ahead of it (b), what it builds (u), and the list other (t).         *)
Chained ==
  call # "aborted" =>
    \E a, b, u, t : Owned(heap, a, b, u, t) /\ Chain(heap, other, t, NULL) /\ Placed(a, b, u)

(* The types of all that is not on the heap.                               *)
PointersTyped ==
  /\ list \in Pointer /\ other \in Pointer
  /\ dead \subseteq Elem
  /\ call \in Calls \cup {"none", "aborted"}
  /\ cur \in Pointer /\ last \in Pointer /\ head \in Pointer \cup {Unset}
  /\ apply \in [Elem -> Elem]

(* The inductive invariant.                                                *)
IInv == HeapTyped(heap) /\ PointersTyped /\ Chained

(* It implies the type invariant, and that there was no fault.             *)
LEMMA InvTypes == IInv => TypeOK /\ NoFault
<1>1. ASSUME HeapTyped(heap) PROVE heap # Fault /\ \E D \in SUBSET Node : heap \in [D -> Cell]
  BY <1>1, HeapTypes
<1> QED BY <1>1 DEF IInv, TypeOK, NoFault, PointersTyped

(* Between two calls only b and t have nodes, so that every node is on one *)
(* list: the walks along the lists pass the nodes of their chains.         *)
LEMMA InvOwned == IInv => NodesOwnedOnce
<1> SUFFICES ASSUME IInv, call = "none" PROVE
      /\ Nodes(heap, list) \cup Nodes(heap, other) = DOMAIN heap
      /\ Nodes(heap, list) \cap Nodes(heap, other) = {}
      /\ \A q \in {list, other} : Walk(heap, q)[Cardinality(DOMAIN heap)] = NULL
  BY DEF NodesOwnedOnce
<1>1. PICK a, b, u, t : Owned(heap, a, b, u, t) /\ Chain(heap, other, t, NULL) /\ Placed(a, b, u)
  BY DEF IInv, Chained
<1>2. HeapTyped(heap) /\ a = <<>> /\ u = <<>> /\ Chain(heap, list, b, NULL)
  BY <1>1 DEF IInv, Placed, AtRest
<1>3. On(a) = {} /\ On(u) = {}
  BY <1>2, ChainEmpty
<1>4. Nodes(heap, list) = On(b) /\ Walk(heap, list)[Cardinality(DOMAIN heap)] = NULL
  BY <1>2, ListNodes
<1>5. Nodes(heap, other) = On(t) /\ Walk(heap, other)[Cardinality(DOMAIN heap)] = NULL
  BY <1>1, <1>2, ListNodes
<1> QED BY <1>1, <1>3, <1>4, <1>5 DEF Owned

(* It holds at the beginning, when nothing is allocated.                   *)
LEMMA InvInit == Init => IInv
<1> SUFFICES ASSUME Init PROVE IInv
  OBVIOUS
<1>1. HeapTyped(heap) /\ DOMAIN heap = {}
  BY HeapEmpty DEF Init
<1>2. PointersTyped
  BY DEF Init, NoLocals, Same, PointersTyped, Pointer
<1>3. Chain(heap, other, <<>>, NULL) /\ Chain(heap, list, <<>>, NULL) /\ On(<<>>) = {}
  BY ChainEmpty DEF Init
<1>4. Owned(heap, <<>>, <<>>, <<>>, <<>>)
  BY <1>1, <1>3 DEF Owned
<1>5. Placed(<<>>, <<>>, <<>>)
  BY <1>3 DEF Init, Placed, AtRest
<1> QED BY <1>1, <1>2, <1>3, <1>4, <1>5 DEF IInv, Chained

-----------------------------------------------------------------------------
(* The steps.                                                              *)
LEMMA PushStep ==
  ASSUME IInv, NEW x \in Elem, list_push(x)
  PROVE  IInv' /\ Lists!Push(x)
<1>1. call = "none" /\ other' = other /\ dead' = dead /\ call' = call /\ UNCHANGED locals
  BY DEF list_push
<1>2. PICK a, b, u, t : Owned(heap, a, b, u, t) /\ Chain(heap, other, t, NULL) /\ Placed(a, b, u)
  BY <1>1 DEF IInv, Chained
<1>3. /\ HeapTyped(heap) /\ list \in Pointer
      /\ a = <<>> /\ u = <<>> /\ Chain(heap, list, b, NULL)
  BY <1>1, <1>2 DEF IInv, PointersTyped, Placed, AtRest
<1>4. PICK n \in FreeNodes : heap' = With(heap, n, x, list) /\ list' = n
  BY DEF list_push
<1>5. n \in Node /\ n \notin DOMAIN heap
  BY DEF FreeNodes
<1>6. /\ HeapTyped(heap') /\ DOMAIN heap' = DOMAIN heap \cup {n} /\ Agree(heap', heap, DOMAIN heap)
      /\ n \in DOMAIN heap' /\ heap'[n].rest = list /\ heap'[n].first = x
  <2>1. HeapTyped(heap) /\ list \in Pointer \cup {Unset}
    BY <1>3
  <2>2. Extended(heap', heap, n, x, list)
    BY <1>4, <1>5, <2>1, WithIs
  <2> QED BY <2>2 DEF Extended
<1> DEFINE w == <<n>> \o b
<1>7. On(a) = {} /\ On(u) = {} /\ On(b) \in SUBSET DOMAIN heap /\ On(t) \in SUBSET DOMAIN heap
  BY <1>2, <1>3, ChainEmpty, ChainTypes
<1>8. Chain(heap', list, b, NULL) /\ Chain(heap', other, t, NULL)
  BY <1>2, <1>3, <1>6, <1>7, ChainAgrees
<1>9. Chain(heap', n, w, NULL) /\ On(w) = {n} \cup On(b)
  BY <1>5, <1>6, <1>7, <1>8, ChainCons
<1>10. Owned(heap', a, w, u, t)
  BY <1>2, <1>5, <1>6, <1>7, <1>9 DEF Owned
<1> HIDE DEF w
<1>11. Placed(a, w, u)'
  BY <1>1, <1>3, <1>4, <1>9 DEF Placed, AtRest
<1>12. PointersTyped'
  BY <1>1, <1>4, <1>5 DEF IInv, PointersTyped, Pointer, locals
<1>13. Chained'
  BY <1>1, <1>8, <1>10, <1>11 DEF Chained
<1>14. Elems(heap, list) = Firsts(heap, b) /\ Elems(heap, other) = Firsts(heap, t)
  BY <1>2, <1>3, ListNodes
<1>15. Elems(heap', n) = Firsts(heap', w) /\ Elems(heap', other) = Firsts(heap', t)
  BY <1>6, <1>8, <1>9, ListNodes
<1>16. Firsts(heap', b) = Firsts(heap, b) /\ Firsts(heap', t) = Firsts(heap, t)
  BY <1>6, <1>7, FirstsAgree
<1>17. Firsts(heap', w) = <<x>> \o Firsts(heap', b)
  <2>1. b \in Seq(DOMAIN heap')
    BY <1>8 DEF Chain
  <2> QED BY <1>6, <2>1, FirstsCons DEF w
<1>18. ListValue = Firsts(heap, b) /\ ListValue' = Firsts(heap', w)
  BY <1>1, <1>4, <1>14, <1>15 DEF ListValue
<1>19. Lists!Push(x)
  BY <1>1, <1>14, <1>15, <1>16, <1>17, <1>18 DEF Lists!Push, Pruning
<1> QED BY <1>6, <1>12, <1>13, <1>19 DEF IInv

(* It holds after a step when chains are known for the next state.         *)
LEMMA InvNext ==
  ASSUME HeapTyped(heap'), PointersTyped', NEW a, NEW b, NEW u, NEW t,
         Owned(heap', a, b, u, t), Chain(heap', other', t, NULL), Placed(a, b, u)'
  PROVE  IInv'
<1>1. Chained'
  BY DEF Chained
<1> QED BY <1>1 DEF IInv

(* What the invariant says of a call.                                      *)
LEMMA InvIs ==
  ASSUME IInv, call # "aborted"
  PROVE  /\ HeapTyped(heap) /\ PointersTyped
         /\ \E a, b, u, t :
              /\ Owned(heap, a, b, u, t) /\ Placed(a, b, u)
              /\ Chain(heap, other, t, NULL) /\ Elems(heap, other) = Firsts(heap, t)
BY ListNodes DEF IInv, Chained

(* list_pop frees the first node of list, and list begins at the second    *)
(* one.                                                                    *)
LEMMA PopStep ==
  ASSUME IInv, list_pop
  PROVE  IInv' /\ Lists!Pop
<1>1. /\ call = "none" /\ list # NULL /\ other' = other /\ dead' = dead /\ call' = call
      /\ UNCHANGED locals
      /\ heap' = Freed(heap, list) /\ list' = Rest(heap, list)
  BY DEF list_pop, HeapAfterPop, Popped
<1>2. PICK a, b, u, t : /\ Owned(heap, a, b, u, t) /\ Placed(a, b, u)
                        /\ Chain(heap, other, t, NULL) /\ Elems(heap, other) = Firsts(heap, t)
  BY <1>1, InvIs
<1>3. HeapTyped(heap) /\ a = <<>> /\ u = <<>> /\ Chain(heap, list, b, NULL)
  BY <1>1, <1>2 DEF IInv, Placed, AtRest
<1>4. PICK c, v : c = list /\ v = Tail(b)
  OBVIOUS
<1>5. /\ b # <<>> /\ c \in DOMAIN heap /\ c \in On(b) /\ b = <<c>> \o v
      /\ Chain(heap, heap[c].rest, v, NULL) /\ On(v) = On(b) \ {c}
  BY <1>1, <1>3, <1>4, ChainTail
<1> DEFINE g == heap'
<1>6. HeapTyped(g) /\ DOMAIN g = DOMAIN heap \ {c} /\ Agree(g, heap, DOMAIN heap \ {c})
  BY <1>1, <1>3, <1>4, <1>5, FreedIs
<1>7. list' = heap[c].rest
  BY <1>1, <1>3, <1>4, <1>5, HeapTypes
<1>8. On(v) \in SUBSET (DOMAIN heap \ {c}) /\ On(t) \in SUBSET (DOMAIN heap \ {c})
  BY <1>2, <1>5 DEF Owned
<1>9. Chain(g, list', v, NULL) /\ Chain(g, other, t, NULL)
  BY <1>2, <1>5, <1>6, <1>7, <1>8, ChainAgrees
<1>10. Owned(g, a, v, u, t)
  BY <1>2, <1>5, <1>6, OwnedFreed
<1>11. Placed(a, v, u)'
  BY <1>1, <1>3, <1>9 DEF Placed, AtRest
<1>12. PointersTyped'
  <2>1. list' \in Pointer
    BY <1>6, <1>9, ListBegins
  <2> QED BY <1>1, <2>1 DEF IInv, PointersTyped, locals
<1>13. IInv'
  BY <1>1, <1>6, <1>9, <1>10, <1>11, <1>12, InvNext
<1>14. Elems(heap, list) = Firsts(heap, b) /\ Elems(g, list') = Firsts(g, v)
       /\ Elems(g, other') = Firsts(g, t)
  BY <1>1, <1>3, <1>6, <1>9, ListNodes
<1>15. Firsts(g, v) = Firsts(heap, v) /\ Firsts(g, t) = Firsts(heap, t)
  BY <1>6, <1>8, FirstsAgree
<1>16. Firsts(heap, b) # <<>> /\ Tail(Firsts(heap, b)) = Firsts(heap, v)
  <2>1. v \in Seq(DOMAIN heap) /\ heap[c].first \in Elem
    BY <1>3, <1>5, HeapTypes DEF Chain
  <2>2. Firsts(heap, v) \in Seq(Elem)
    BY <1>3, <2>1, FirstsType
  <2>3. Firsts(heap, b) = <<heap[c].first>> \o Firsts(heap, v)
    BY <1>3, <1>5, <2>1, FirstsCons
  <2> QED BY <2>1, <2>2, <2>3, TailCons
<1>17. ListValue = Firsts(heap, b) /\ ListValue' = Firsts(g, v)
  BY <1>1, <1>14 DEF ListValue
<1>18. Lists!Pop
  BY <1>1, <1>2, <1>14, <1>15, <1>16, <1>17 DEF Lists!Pop, Pruning
<1> QED BY <1>13, <1>18

(* The socket of a client is freed: nothing on the heap changes.           *)
LEMMA SocketStep ==
  ASSUME IInv, NEW x \in Elem, SocketFreed(x)
  PROVE  IInv' /\ Lists!Die(x)
<1>1. call = "none" /\ dead' = dead \cup {x} /\ UNCHANGED <<heap, list, other, call, locals>>
  BY DEF SocketFreed
<1>2. PICK a, b, u, t : /\ Owned(heap, a, b, u, t) /\ Placed(a, b, u)
                        /\ Chain(heap, other, t, NULL)
  BY <1>1, InvIs
<1>3. Placed(a, b, u)'
  BY <1>1, <1>2 DEF Placed, AtRest
<1>4. HeapTyped(heap') /\ Owned(heap', a, b, u, t) /\ Chain(heap', other', t, NULL)
  BY <1>1, <1>2 DEF IInv
<1>5. PointersTyped'
  BY <1>1 DEF IInv, PointersTyped, locals
<1>6. ListValue' = ListValue
  BY <1>1 DEF ListValue, locals
<1> QED BY <1>1, <1>3, <1>4, <1>5, <1>6, InvNext DEF Lists!Die, Pruning

(* Mem_Failed ends the program; the lists stay as they are.                *)
LEMMA FailStep ==
  ASSUME IInv, MemFailed
  PROVE  IInv' /\ UNCHANGED Lists!vars
<1>1. call \in {"none", "list", "copy"} /\ call' = "aborted" /\ UNCHANGED <<lists, locals>>
  BY DEF MemFailed
<1>2. ListValue' = ListValue
  BY <1>1 DEF ListValue, lists, locals
<1>3. HeapTyped(heap') /\ PointersTyped' /\ Chained'
  BY <1>1 DEF IInv, PointersTyped, Chained, lists, locals
<1>4. UNCHANGED <<heap, list, other, dead>>
  BY <1>1 DEF lists
<1> QED BY <1>1, <1>2, <1>3, <1>4 DEF IInv, Lists!vars, Pruning

-----------------------------------------------------------------------------
(* A call with a loop begins.                                              *)
LEMMA CallStep ==
  ASSUME IInv, NEW f, NEW c, NEW hd, Called(f, c, hd), UNCHANGED lists,
         apply' \in [Elem -> Elem],
         \/ f = "append" /\ c = NULL /\ hd = NULL
         \/ f = "free" /\ c = NULL /\ hd = NULL
         \/ f = "list" /\ c = NULL /\ hd = Unset /\ other = NULL
         \/ f = "copy" /\ c = list /\ hd = Unset /\ other = NULL
         \/ f \in {"reverse", "map", "prune_head"} /\ c = list /\ hd = NULL
  PROVE  /\ IInv' /\ call = "none" /\ UNCHANGED <<heap, list, other, dead>>
         /\ Elems(heap, list) \in Seq(Elem) /\ Elems(heap, NULL) = <<>>
<1>1. /\ call = "none" /\ call' = f /\ cur' = c /\ head' = hd /\ last' = NULL
      /\ UNCHANGED <<heap, list, other, dead>>
  BY DEF Called, lists
<1>2. PICK a, b, u, t : /\ Owned(heap, a, b, u, t) /\ Placed(a, b, u)
                        /\ Chain(heap, other, t, NULL)
  BY <1>1, InvIs
<1>3. /\ HeapTyped(heap) /\ PointersTyped
      /\ a = <<>> /\ u = <<>> /\ Chain(heap, list, b, NULL)
  BY <1>1, <1>2 DEF IInv, Placed, AtRest
<1>4. LastOf(<<>>) = NULL /\ \A q : Chain(heap, q, <<>>, q)
  BY ChainEmpty
<1>5. Placed(a, b, u)'
  <2>1. CASE f \in {"append", "free"}
    BY <1>1, <1>3, <1>4, <2>1 DEF Placed, AtRest, InAppend, Pointee
  <2>2. CASE f = "list" /\ c = NULL /\ hd = Unset /\ other = NULL
    BY <1>1, <1>3, <1>4, <2>2 DEF Placed, InList
  <2>3. CASE f = "copy" /\ c = list /\ hd = Unset /\ other = NULL
    BY <1>1, <1>3, <1>4, <2>3 DEF Placed, InCopy
  <2>4. CASE f \in {"reverse", "map", "prune_head"} /\ c = list /\ hd = NULL
    BY <1>1, <1>3, <1>4, <2>4 DEF Placed, InReverse, InMap, InPruneHead
  <2> QED BY <2>1, <2>2, <2>3, <2>4
<1>6. PointersTyped'
  BY <1>1, <1>3 DEF PointersTyped, Pointer, Calls
<1>7. HeapTyped(heap') /\ Owned(heap', a, b, u, t) /\ Chain(heap', other', t, NULL)
  BY <1>1, <1>2, <1>3
<1>8. Elems(heap, list) \in Seq(Elem)
  <2>1. b \in Seq(DOMAIN heap) /\ Elems(heap, list) = Firsts(heap, b)
    BY <1>3, ListNodes DEF Chain
  <2> QED BY <1>3, <2>1, FirstsType
<1>9. Elems(heap, NULL) = <<>>
  BY <1>3, <1>4, ListNodes, FirstsEmpty
<1> QED BY <1>1, <1>5, <1>6, <1>7, <1>8, <1>9, InvNext

(* What each call does to the lists of ListSpec at once.                   *)
LEMMA CallsRefine ==
  ASSUME IInv
  PROVE  /\ list_append \/ list_list \/ list_copy => IInv' /\ UNCHANGED Lists!vars
         /\ list_reverse => IInv' /\ Lists!Rev
         /\ list_free => IInv' /\ Lists!Free
         /\ \A f \in [Elem -> Elem] : list_map(f) => IInv' /\ Lists!Map(f)
         /\ update_clients_list => IInv' /\ Lists!Prune
<1>1. apply \in [Elem -> Elem]
  BY DEF IInv, PointersTyped
<1>2. ASSUME list_append \/ list_list \/ list_copy PROVE IInv' /\ UNCHANGED Lists!vars
  <2>1. CASE list_append
    <3>1. IInv' /\ call = "none" /\ UNCHANGED <<heap, list, other, dead>>
      BY <1>1, <2>1, CallStep DEF list_append
    <3>2. call' = "append"
      BY <2>1 DEF list_append, Called
    <3> QED BY <3>1, <3>2 DEF Lists!vars, ListValue, Pruning
  <2>2. CASE list_list
    <3>1. IInv' /\ call = "none" /\ UNCHANGED <<heap, list, other, dead>>
      BY <1>1, <2>2, CallStep DEF list_list
    <3>2. call' = "list"
      BY <2>2 DEF list_list, Called
    <3> QED BY <3>1, <3>2 DEF Lists!vars, ListValue, Pruning
  <2>3. CASE list_copy
    <3>1. IInv' /\ call = "none" /\ UNCHANGED <<heap, list, other, dead>>
      BY <1>1, <2>3, CallStep DEF list_copy
    <3>2. call' = "copy"
      BY <2>3 DEF list_copy, Called
    <3> QED BY <3>1, <3>2 DEF Lists!vars, ListValue, Pruning
  <2> QED BY <1>2, <2>1, <2>2, <2>3
<1>3. ASSUME list_reverse PROVE IInv' /\ Lists!Rev
  <2>1. /\ IInv' /\ call = "none" /\ UNCHANGED <<heap, list, other, dead>>
        /\ Elems(heap, list) \in Seq(Elem) /\ Elems(heap, NULL) = <<>>
    BY <1>1, <1>3, CallStep DEF list_reverse
  <2>2. call' = "reverse" /\ cur' = list /\ head' = NULL
    BY <1>3 DEF list_reverse, Called
  <2> DEFINE s == Elems(heap, list)
             r == Reverse(s)
  <2>3. r \in Seq(Elem)
    BY <2>1, ReverseIs
  <2>4. r \o <<>> = r
    BY <2>3, EmptyCat
  <2>5. ListValue = s /\ ListValue' = r \o <<>>
    BY <2>1, <2>2 DEF ListValue
  <2> QED BY <2>1, <2>2, <2>4, <2>5 DEF Lists!Rev, Lists!Reverse, Reverse, Pruning
<1>4. ASSUME list_free PROVE IInv' /\ Lists!Free
  <2>1. IInv' /\ call = "none" /\ UNCHANGED <<heap, list, other, dead>>
    BY <1>1, <1>4, CallStep DEF list_free
  <2>2. call' = "free"
    BY <1>4 DEF list_free, Called
  <2> QED BY <2>1, <2>2 DEF Lists!Free, ListValue, Pruning
<1>5. ASSUME NEW f \in [Elem -> Elem], list_map(f) PROVE IInv' /\ Lists!Map(f)
  <2>1. call' = "map" /\ cur' = list /\ head' = NULL /\ apply' = f
    BY <1>5 DEF list_map, Called
  <2>2. /\ IInv' /\ call = "none" /\ UNCHANGED <<heap, list, other, dead>>
        /\ Elems(heap, list) \in Seq(Elem)
    BY <1>5, <2>1, CallStep DEF list_map
  <2> DEFINE s == Elems(heap, list)
  <2>3. Len(s) \in Nat /\ DOMAIN s = 1 .. Len(s)
    BY <2>2, LenProperties
  <2>4. ListValue = s
    BY <2>2 DEF ListValue
  <2>5. ListValue' = [i \in DOMAIN s |-> IF i <= Len(s) - Len(s) THEN s[i] ELSE f[s[i]]]
    BY <2>1, <2>2 DEF ListValue
  <2> HIDE DEF s
  <2>6. \A i \in DOMAIN s : ~(i <= Len(s) - Len(s))
    BY <2>3
  <2>7. ListValue' = [i \in DOMAIN s |-> f[s[i]]]
    BY <2>5, <2>6
  <2> QED BY <2>1, <2>2, <2>4, <2>7 DEF Lists!Map, Lists!Mapped, Pruning
<1>6. ASSUME update_clients_list PROVE IInv' /\ Lists!Prune
  <2>1. /\ IInv' /\ call = "none" /\ UNCHANGED <<heap, list, other, dead>>
        /\ Elems(heap, list) \in Seq(Elem)
    BY <1>1, <1>6, CallStep DEF update_clients_list
  <2>2. call' = "prune_head" /\ cur' = list
    BY <1>6 DEF update_clients_list, Called
  <2>3. ListValue = Elems(heap, list) /\ ListValue' = Without(Elems(heap, list), dead)
    BY <2>1, <2>2 DEF ListValue
  <2> QED BY <2>1, <2>2, <2>3 DEF Lists!Prune, Lists!Without, Without, Pruning
<1> QED BY <1>2, <1>3, <1>4, <1>5, <1>6

-----------------------------------------------------------------------------
(* list_append.                                                            *)

(* A turn goes on to the next node, which is passed then.                  *)
LEMMA AppendTurnStep ==
  ASSUME IInv, AppendTurn
  PROVE  IInv' /\ UNCHANGED Lists!vars
<1>1. PICK c : c = Pointee(list)
  OBVIOUS
<1>2. /\ call = "append" /\ c # NULL /\ last' = c /\ heap' = Touched(heap, c)
      /\ UNCHANGED <<list, other, dead, call, cur, head, apply>>
  BY <1>1 DEF AppendTurn, InCall
<1>3. PICK a, b, u, t : /\ Owned(heap, a, b, u, t) /\ Placed(a, b, u)
                        /\ Chain(heap, other, t, NULL)
  BY <1>2, InvIs
<1>4. /\ HeapTyped(heap) /\ PointersTyped
      /\ u = <<>> /\ Chain(heap, list, a, c) /\ Chain(heap, c, b, NULL)
  BY <1>1, <1>2, <1>3 DEF IInv, Placed, InAppend
<1>5. PICK v, w : v = Tail(b) /\ w = Append(a, c)
  OBVIOUS
<1>6. /\ c \in DOMAIN heap /\ c \in On(b)
      /\ Chain(heap, heap[c].rest, v, NULL) /\ On(v) = On(b) \ {c}
  BY <1>2, <1>4, <1>5, ChainTail
<1>7. c \notin On(a)
  BY <1>3, <1>6 DEF Owned
<1>8. /\ Chain(heap, list, w, heap[c].rest) /\ On(w) = On(a) \cup {c} /\ LastOf(w) = c
  BY <1>4, <1>5, <1>6, <1>7, ChainSnoc
<1>9. heap' = heap /\ Rest(heap, c) = heap[c].rest /\ c \in Pointer
  BY <1>2, <1>4, <1>6, HeapTypes DEF Touched, Pointer
<1>10. Pointee(list)' = heap[c].rest
  BY <1>2, <1>9 DEF Pointee
<1>11. Owned(heap, w, v, u, t)
  BY <1>3, <1>6, <1>8, OwnedMoved
<1>12. InAppend(w, v, u)'
  BY <1>2, <1>4, <1>6, <1>8, <1>9, <1>10 DEF InAppend
<1>13. Placed(w, v, u)'
  BY <1>2, <1>12 DEF Placed
<1>14. PointersTyped'
  BY <1>2, <1>4, <1>9 DEF PointersTyped
<1>15. IInv'
  BY <1>2, <1>3, <1>4, <1>9, <1>11, <1>13, <1>14, InvNext
<1>16. ListValue' = ListValue
  BY <1>2, <1>9 DEF ListValue
<1> QED BY <1>2, <1>9, <1>15, <1>16 DEF Lists!vars, Pruning

(* At the end of list the pointer found there is made to point to other.   *)
LEMMA AppendReturnsStep ==
  ASSUME IInv, AppendReturns
  PROVE  IInv' /\ Lists!Append2
<1>1. /\ call = "append" /\ Pointee(list) = NULL
      /\ heap' = HeapStored(other) /\ list' = TopStored(list, other) /\ other' = NULL
      /\ call' = "none" /\ cur' = NULL /\ head' = NULL /\ last' = NULL /\ apply' = Same
      /\ dead' = dead
  BY DEF AppendReturns, InCall, Returned
<1>2. PICK a, b, u, t : /\ Owned(heap, a, b, u, t) /\ Placed(a, b, u)
                        /\ Chain(heap, other, t, NULL) /\ Elems(heap, other) = Firsts(heap, t)
  BY <1>1, InvIs
<1>3. /\ HeapTyped(heap) /\ PointersTyped /\ other \in Pointer
      /\ u = <<>> /\ last = LastOf(a) /\ Chain(heap, list, a, NULL) /\ Chain(heap, NULL, b, NULL)
  BY <1>1, <1>2 DEF IInv, Placed, InAppend, PointersTyped
<1>4. b = <<>>
  BY <1>3, ListBegins
<1>5. /\ HeapTyped(heap') /\ DOMAIN heap' = DOMAIN heap
      /\ Agree(heap', heap, DOMAIN heap \ On(a))
      /\ Chain(heap', list', a, other) /\ Firsts(heap', a) = Firsts(heap, a)
  BY <1>1, <1>3, StoreIs
<1>6. On(t) \in SUBSET (DOMAIN heap \ On(a)) /\ On(a) \cap On(t) = {}
  BY <1>2 DEF Owned
<1>7. Chain(heap', other, t, NULL) /\ Firsts(heap', t) = Firsts(heap, t)
  BY <1>2, <1>5, <1>6, ChainAgrees, FirstsAgree
<1>8. PICK w : w = a \o t
  OBVIOUS
<1>9. Chain(heap', list', w, NULL) /\ On(w) = On(a) \cup On(t)
  <2>1. Chain(heap', list', a \o t, NULL) /\ On(a \o t) = On(a) \cup On(t)
    BY <1>5, <1>6, <1>7, ChainCat
  <2> QED BY <1>8, <2>1
<1>10. On(<<>>) = {} /\ Chain(heap', other', <<>>, NULL)
  BY <1>1, ChainEmpty
<1>11. Owned(heap', <<>>, w, <<>>, <<>>)
  BY <1>2, <1>3, <1>4, <1>5, <1>9, <1>10 DEF Owned
<1>12. Placed(<<>>, w, <<>>)'
  BY <1>1, <1>9 DEF Placed, AtRest
<1>13. PointersTyped'
  <2>1. list' \in Pointer
    BY <1>5, <1>9, ListBegins
  <2> QED BY <1>1, <1>3, <2>1 DEF PointersTyped, Pointer, Same
<1>14. IInv'
  BY <1>5, <1>10, <1>11, <1>12, <1>13, InvNext
<1>15. Firsts(heap', w) = Firsts(heap, a) \o Firsts(heap, t)
  <2>1. a \in Seq(DOMAIN heap') /\ t \in Seq(DOMAIN heap')
    BY <1>5, <1>7 DEF Chain
  <2> QED BY <1>5, <1>7, <1>8, <2>1, FirstsCat
<1>16. ListValue = Firsts(heap, a) /\ ListValue' = Firsts(heap', w)
  <2>1. Elems(heap, list) = Firsts(heap, a)
    BY <1>3, ListNodes
  <2>2. Elems(heap', list') = Firsts(heap', w)
    BY <1>5, <1>9, ListNodes
  <2> QED BY <1>1, <2>1, <2>2 DEF ListValue
<1>17. Elems(heap', other') = <<>>
  BY <1>5, <1>10, ListNodes, FirstsEmpty
<1> QED BY <1>1, <1>2, <1>14, <1>15, <1>16, <1>17 DEF Lists!Append2, Pruning

-----------------------------------------------------------------------------
(* list_list and list_copy.                                                *)

(* A node is put behind those built so far.                                *)
LEMMA ListTurnStep ==
  ASSUME IInv, NEW x \in Elem, ListTurn(x)
  PROVE  IInv' /\ UNCHANGED Lists!vars
<1>1. /\ call = "list"
      /\ UNCHANGED <<list, other, dead, call, cur, apply>>
      /\ \E n \in FreeNodes :
           heap' = With(HeapStored(n), n, x, Unset) /\ head' = TopStored(head, n) /\ last' = n
  BY DEF ListTurn, InCall, Grows
<1>2. PICK a, b, u, t : /\ Owned(heap, a, b, u, t) /\ Placed(a, b, u)
                        /\ Chain(heap, other, t, NULL) /\ Elems(heap, other) = Firsts(heap, t)
  BY <1>1, InvIs
<1>3. /\ HeapTyped(heap) /\ PointersTyped /\ other = NULL
      /\ a = <<>> /\ last = LastOf(u) /\ Chain(heap, list, b, NULL) /\ Chain(heap, head, u, Unset)
  BY <1>1, <1>2 DEF IInv, Placed, InList
<1>4. PICK n \in Node : /\ n \notin DOMAIN heap /\ heap' = With(HeapStored(n), n, x, Unset)
                        /\ head' = TopStored(head, n) /\ last' = n
  BY <1>1 DEF FreeNodes
<1>5. PICK w : w = Append(u, n)
  OBVIOUS
<1>6. /\ HeapTyped(heap') /\ DOMAIN heap' = DOMAIN heap \cup {n}
      /\ Agree(heap', heap, DOMAIN heap \ On(u))
      /\ Chain(heap', head', w, Unset)
      /\ On(w) = On(u) \cup {n} /\ w # <<>> /\ LastOf(w) = n
  BY <1>3, <1>4, <1>5, GrowIs
<1>7. On(b) \in SUBSET (DOMAIN heap \ On(u)) /\ On(t) \in SUBSET (DOMAIN heap \ On(u))
  BY <1>2 DEF Owned
<1>8. /\ Chain(heap', list, b, NULL) /\ Firsts(heap', b) = Firsts(heap, b)
      /\ Chain(heap', other, t, NULL) /\ Firsts(heap', t) = Firsts(heap, t)
  BY <1>2, <1>3, <1>6, <1>7, ChainAgrees, FirstsAgree
<1>9. Owned(heap', a, b, w, t)
  BY <1>2, <1>4, <1>6 DEF Owned
<1>10. Placed(a, b, w)'
  BY <1>1, <1>3, <1>4, <1>6, <1>8 DEF Placed, InList
<1>11. PointersTyped'
  <2>1. n \in Pointer /\ head' \in Pointer \cup {Unset}
    BY <1>3, <1>4 DEF TopStored, Pointer, PointersTyped
  <2> QED BY <1>1, <1>3, <1>4, <2>1 DEF PointersTyped
<1>12. IInv'
  BY <1>1, <1>6, <1>8, <1>9, <1>10, <1>11, InvNext
<1>13. /\ Elems(heap', list) = Elems(heap, list)
       /\ Elems(heap', other) = Elems(heap, other)
  BY <1>2, <1>3, <1>6, <1>8, ListNodes
<1>14. ListValue' = ListValue
  BY <1>1, <1>13 DEF ListValue
<1> QED BY <1>1, <1>12, <1>13, <1>14 DEF Lists!vars, Pruning

(* The last rest is written: what was built is a list, the new other.      *)
LEMMA GrowReturnsStep ==
  ASSUME IInv, ListReturns \/ CopyReturns
  PROVE  IInv' /\ (Lists!Make \/ Lists!Copy)
<1>1. /\ call \in {"list", "copy"} /\ (call = "copy" => cur = NULL)
      /\ heap' = HeapStored(NULL) /\ other' = TopStored(head, NULL)
      /\ call' = "none" /\ cur' = NULL /\ head' = NULL /\ last' = NULL /\ apply' = Same
      /\ UNCHANGED <<list, dead>>
  BY DEF ListReturns, CopyReturns, GrowReturns, InCall, Returned
<1>2. PICK a, b, u, t : /\ Owned(heap, a, b, u, t) /\ Placed(a, b, u)
                        /\ Chain(heap, other, t, NULL) /\ Elems(heap, other) = Firsts(heap, t)
  BY <1>1, InvIs
<1>3. /\ HeapTyped(heap) /\ PointersTyped /\ other = NULL
      /\ last = LastOf(u) /\ Chain(heap, head, u, Unset)
  BY <1>1, <1>2 DEF IInv, Placed, InList, InCopy
<1>4. t = <<>> /\ Firsts(heap, t) = <<>> /\ On(<<>>) = {} /\ NULL \in Pointer
  BY <1>2, <1>3, ListBegins, FirstsEmpty, ChainEmpty DEF Pointer
<1>5. /\ HeapTyped(heap') /\ DOMAIN heap' = DOMAIN heap
      /\ Agree(heap', heap, DOMAIN heap \ On(u))
      /\ Chain(heap', other', u, NULL) /\ Firsts(heap', u) = Firsts(heap, u)
  BY <1>1, <1>3, <1>4, StoreIs
<1>6. PICK w : /\ Chain(heap, list, w, NULL)
               /\ On(w) = On(a) \cup On(b)
               /\ call = "copy" => Firsts(heap, w) = Firsts(heap, u)
  <2>1. CASE call = "list"
    <3>1. a = <<>> /\ Chain(heap, list, b, NULL)
      BY <1>2, <2>1 DEF Placed, InList
    <3> QED BY <1>4, <2>1, <3>1
  <2>2. CASE call = "copy"
    <3>1. /\ Chain(heap, list, a, NULL) /\ Chain(heap, NULL, b, NULL)
          /\ Firsts(heap, u) = Firsts(heap, a)
      BY <1>1, <1>2, <2>2 DEF Placed, InCopy
    <3>2. b = <<>>
      BY <1>3, <3>1, ListBegins
    <3> QED BY <1>4, <2>2, <3>1, <3>2
  <2> QED BY <1>1, <2>1, <2>2
<1>7. On(w) \in SUBSET (DOMAIN heap \ On(u))
  BY <1>2, <1>6 DEF Owned
<1>8. Chain(heap', list, w, NULL) /\ Firsts(heap', w) = Firsts(heap, w)
  BY <1>5, <1>6, <1>7, ChainAgrees, FirstsAgree
<1>9. Owned(heap', <<>>, w, <<>>, u)
  BY <1>2, <1>4, <1>5, <1>6 DEF Owned
<1>10. Placed(<<>>, w, <<>>)'
  BY <1>1, <1>8 DEF Placed, AtRest
<1>11. PointersTyped'
  <2>1. other' \in Pointer
    BY <1>5, ListBegins
  <2> QED BY <1>1, <1>3, <1>4, <2>1 DEF PointersTyped, Same
<1>12. IInv'
  BY <1>5, <1>9, <1>10, <1>11, InvNext
<1>13. /\ Elems(heap, list) = Firsts(heap, w) /\ Elems(heap', list') = Firsts(heap, w)
       /\ Elems(heap, other) = <<>> /\ Elems(heap', other') = Firsts(heap, u)
  BY <1>1, <1>2, <1>3, <1>4, <1>5, <1>6, <1>8, ListNodes
<1>14. Firsts(heap, u) \in Seq(Elem)
  <2>1. u \in Seq(DOMAIN heap)
    BY <1>3 DEF Chain
  <2> QED BY <1>3, <2>1, FirstsType
<1>15. ListValue = Firsts(heap, w) /\ ListValue' = Firsts(heap, w)
  BY <1>1, <1>13 DEF ListValue
<1> QED BY <1>1, <1>12, <1>13, <1>14, <1>15 DEF Lists!Make, Lists!Copy, Pruning

(* A node for the element at cur is put behind those built so far, and cur *)
(* goes on.                                                                *)
LEMMA CopyTurnStep ==
  ASSUME IInv, CopyTurn
  PROVE  IInv' /\ UNCHANGED Lists!vars
<1>1. /\ call = "copy" /\ cur # NULL /\ cur' = Rest(heap, cur)
      /\ Live(heap, cur) => Grows(First(heap, cur))
  BY DEF CopyTurn, InCall
<1>2. PICK a, b, u, t : /\ Owned(heap, a, b, u, t) /\ Placed(a, b, u)
                        /\ Chain(heap, other, t, NULL) /\ Elems(heap, other) = Firsts(heap, t)
  BY <1>1, InvIs
<1>3. /\ HeapTyped(heap) /\ PointersTyped /\ other = NULL
      /\ last = LastOf(u) /\ Chain(heap, list, a, cur) /\ Chain(heap, cur, b, NULL)
      /\ Chain(heap, head, u, Unset) /\ Firsts(heap, u) = Firsts(heap, a)
  BY <1>1, <1>2 DEF IInv, Placed, InCopy
<1>4. PICK c, v, z : c = cur /\ v = Tail(b) /\ z = Append(a, c)
  OBVIOUS
<1>5. /\ c \in DOMAIN heap /\ c \in On(b)
      /\ Chain(heap, heap[c].rest, v, NULL) /\ On(v) = On(b) \ {c}
  BY <1>1, <1>3, <1>4, ChainTail
<1>6. /\ Live(heap, c) /\ Rest(heap, c) = heap[c].rest /\ First(heap, c) = heap[c].first
      /\ heap[c].first \in Elem
  BY <1>3, <1>5, HeapTypes
<1>7. PICK x \in Elem : x = heap[c].first
  BY <1>6
<1>8. /\ UNCHANGED <<list, other, dead, call, apply>>
      /\ \E n \in FreeNodes :
           heap' = With(HeapStored(n), n, x, Unset) /\ head' = TopStored(head, n) /\ last' = n
  BY <1>1, <1>4, <1>6, <1>7 DEF Grows
<1>9. PICK n \in Node : /\ n \notin DOMAIN heap /\ heap' = With(HeapStored(n), n, x, Unset)
                        /\ head' = TopStored(head, n) /\ last' = n
  BY <1>8 DEF FreeNodes
<1>10. PICK w : w = Append(u, n)
  OBVIOUS
<1>11. /\ HeapTyped(heap') /\ DOMAIN heap' = DOMAIN heap \cup {n}
       /\ Agree(heap', heap, DOMAIN heap \ On(u))
       /\ Chain(heap', head', w, Unset)
       /\ On(w) = On(u) \cup {n} /\ LastOf(w) = n
       /\ Firsts(heap', w) = Append(Firsts(heap, u), x)
  BY <1>3, <1>9, <1>10, GrowIs
<1>12. /\ Chain(heap, list, z, heap[c].rest) /\ On(z) = On(a) \cup {c}
       /\ Firsts(heap, z) = Append(Firsts(heap, a), x)
  <2>1. c \notin On(a) /\ a \in Seq(DOMAIN heap)
    BY <1>2, <1>3, <1>5 DEF Owned, Chain
  <2>2. Chain(heap, list, z, heap[c].rest) /\ On(z) = On(a) \cup {c}
    BY <1>3, <1>4, <1>5, <2>1, ChainSnoc
  <2>3. Firsts(heap, z) = Append(Firsts(heap, a), x)
    BY <1>3, <1>4, <1>5, <1>7, <2>1, FirstsSnoc
  <2> QED BY <2>2, <2>3
<1>13. PICK s : /\ Chain(heap, list, s, NULL) /\ On(s) = On(a) \cup On(b)
  <2>1. On(a) \cap On(b) = {}
    BY <1>2 DEF Owned
  <2> QED BY <1>3, <2>1, ChainCat
<1>14. /\ On(z) \in SUBSET (DOMAIN heap \ On(u)) /\ On(v) \in SUBSET (DOMAIN heap \ On(u))
       /\ On(t) \in SUBSET (DOMAIN heap \ On(u)) /\ On(s) \in SUBSET (DOMAIN heap \ On(u))
  BY <1>2, <1>5, <1>12, <1>13 DEF Owned
<1>15. /\ Chain(heap', list, z, heap[c].rest) /\ Chain(heap', heap[c].rest, v, NULL)
       /\ Chain(heap', other, t, NULL) /\ Chain(heap', list, s, NULL)
  BY <1>2, <1>5, <1>11, <1>12, <1>13, <1>14, ChainAgrees
<1>16. /\ Firsts(heap', z) = Firsts(heap, z)
       /\ Firsts(heap', t) = Firsts(heap, t) /\ Firsts(heap', s) = Firsts(heap, s)
  BY <1>11, <1>14, FirstsAgree
<1>17. Owned(heap', z, v, w, t)
  BY <1>2, <1>5, <1>9, <1>11, <1>12 DEF Owned
<1>18. cur' = heap[c].rest
  BY <1>1, <1>4, <1>6
<1>19. InCopy(z, v, w)'
  <2>1. Firsts(heap', w) = Firsts(heap', z)
    BY <1>3, <1>11, <1>12, <1>16
  <2> QED BY <1>3, <1>8, <1>9, <1>11, <1>15, <1>18, <2>1 DEF InCopy
<1>20. Placed(z, v, w)'
  BY <1>1, <1>8, <1>19 DEF Placed
<1>21. PointersTyped'
  <2>1. n \in Pointer /\ head' \in Pointer \cup {Unset}
    BY <1>3, <1>9 DEF TopStored, Pointer, PointersTyped
  <2>2. cur' \in Pointer
    BY <1>11, <1>15, <1>18, ListBegins
  <2> QED BY <1>3, <1>8, <1>9, <2>1, <2>2 DEF PointersTyped
<1>22. IInv'
  BY <1>8, <1>11, <1>15, <1>17, <1>20, <1>21, InvNext
<1>23. /\ Elems(heap', list) = Elems(heap, list)
       /\ Elems(heap', other) = Elems(heap, other)
  BY <1>2, <1>3, <1>11, <1>13, <1>15, <1>16, ListNodes
<1>24. ListValue' = ListValue
  BY <1>1, <1>8, <1>23 DEF ListValue
<1> QED BY <1>8, <1>22, <1>23, <1>24 DEF Lists!vars, Pruning

-----------------------------------------------------------------------------
(* list_reverse.                                                           *)

(* The node at cur is put in front of those turned so far, and cur goes    *)
(* on.                                                                     *)
LEMMA ReverseTurnStep ==
  ASSUME IInv, ReverseTurn
  PROVE  IInv' /\ UNCHANGED Lists!vars
<1>1. /\ call = "reverse" /\ cur # NULL /\ cur' = Rest(heap, cur)
      /\ heap' = SetRest(heap, cur, head) /\ head' = cur
      /\ UNCHANGED <<list, other, dead, call, last, apply>>
  BY DEF ReverseTurn, InCall
<1>2. PICK a, b, u, t : /\ Owned(heap, a, b, u, t) /\ Placed(a, b, u)
                        /\ Chain(heap, other, t, NULL) /\ Elems(heap, other) = Firsts(heap, t)
  BY <1>1, InvIs
<1>3. /\ HeapTyped(heap) /\ PointersTyped
      /\ a = <<>> /\ Chain(heap, cur, b, NULL) /\ Chain(heap, head, u, NULL)
  BY <1>1, <1>2 DEF IInv, Placed, InReverse
<1>4. PICK c, v, w, x : c = cur /\ v = Tail(b) /\ w = <<c>> \o u /\ x = heap[c].first
  OBVIOUS
<1>5. /\ c \in DOMAIN heap /\ c \in On(b) /\ b = <<c>> \o v
      /\ Chain(heap, heap[c].rest, v, NULL) /\ On(v) = On(b) \ {c}
  BY <1>1, <1>3, <1>4, ChainTail
<1>6. Rest(heap, c) = heap[c].rest /\ x \in Elem /\ c \in Pointer
  BY <1>3, <1>4, <1>5, HeapTypes DEF Pointer
<1>7. /\ HeapTyped(heap') /\ DOMAIN heap' = DOMAIN heap /\ Agree(heap', heap, DOMAIN heap \ {c})
      /\ heap'[c].rest = head /\ heap'[c].first = x
  <2>1. head \in Pointer \cup {Unset}
    BY <1>3 DEF PointersTyped
  <2>2. heap' = SetRest(heap, c, head)
    BY <1>1, <1>4
  <2>3. HeapTyped(heap)
    BY <1>3
  <2>4. /\ HeapTyped(heap') /\ DOMAIN heap' = DOMAIN heap /\ Agree(heap', heap, DOMAIN heap \ {c})
        /\ heap'[c].rest = head /\ heap'[c].first = heap[c].first
    BY <1>5, <2>1, <2>2, <2>3, SetRestIs
  <2> QED BY <1>4, <2>4
<1>8. /\ On(v) \in SUBSET (DOMAIN heap \ {c}) /\ On(u) \in SUBSET (DOMAIN heap \ {c})
      /\ On(t) \in SUBSET (DOMAIN heap \ {c}) /\ c \notin On(u)
  BY <1>2, <1>5 DEF Owned
<1>9. /\ Chain(heap', heap[c].rest, v, NULL) /\ Chain(heap', head, u, NULL)
      /\ Chain(heap', other, t, NULL)
  BY <1>2, <1>3, <1>5, <1>7, <1>8, ChainAgrees
<1>10. /\ Firsts(heap', v) = Firsts(heap, v) /\ Firsts(heap', u) = Firsts(heap, u)
       /\ Firsts(heap', t) = Firsts(heap, t)
  BY <1>7, <1>8, FirstsAgree
<1>11. Chain(heap', c, w, NULL) /\ On(w) = On(u) \cup {c}
  <2>1. Chain(heap', c, <<c>> \o u, NULL) /\ On(<<c>> \o u) = {c} \cup On(u)
    BY <1>5, <1>7, <1>8, <1>9, ChainCons
  <2> QED BY <1>4, <2>1
<1>12. Owned(heap', a, v, w, t)
  BY <1>2, <1>5, <1>7, <1>11, OwnedMoved
<1>13. cur' = heap[c].rest /\ head' = c
  BY <1>1, <1>4, <1>6
<1>14. Placed(a, v, w)'
  BY <1>1, <1>3, <1>9, <1>11, <1>13 DEF Placed, InReverse
<1>15. PointersTyped'
  <2>1. cur' \in Pointer
    BY <1>7, <1>9, <1>13, ListBegins
  <2> QED BY <1>1, <1>3, <1>6, <1>13, <2>1 DEF PointersTyped
<1>16. IInv'
  BY <1>1, <1>7, <1>9, <1>12, <1>14, <1>15, InvNext
<1>17. /\ Elems(heap, cur) = Firsts(heap, b) /\ Elems(heap, head) = Firsts(heap, u)
       /\ Elems(heap', cur') = Firsts(heap, v) /\ Elems(heap', head') = Firsts(heap', w)
       /\ Elems(heap', other') = Elems(heap, other)
  BY <1>1, <1>2, <1>3, <1>7, <1>9, <1>10, <1>11, <1>13, ListNodes
<1>18. v \in Seq(DOMAIN heap) /\ u \in Seq(DOMAIN heap) /\ u \in Seq(DOMAIN heap')
  BY <1>3, <1>5, <1>7 DEF Chain
<1>19. Firsts(heap, b) = <<x>> \o Firsts(heap, v)
  BY ZenonT(30), <1>3, <1>4, <1>5, <1>18, FirstsCons
<1>20. Firsts(heap', w) = <<x>> \o Firsts(heap, u)
  <2>1. Firsts(heap', <<c>> \o u) = <<heap'[c].first>> \o Firsts(heap', u)
    BY <1>5, <1>7, <1>18, FirstsCons
  <2> QED BY <1>4, <1>7, <1>10, <2>1
<1>21. Firsts(heap, v) \in Seq(Elem) /\ Firsts(heap, u) \in Seq(Elem)
  BY <1>3, <1>18, FirstsType
<1>22. Reverse(Firsts(heap, b)) \o Firsts(heap, u) = Reverse(Firsts(heap, v)) \o Firsts(heap', w)
  <2> DEFINE p == Firsts(heap, v)
             q == Firsts(heap, u)
             w1 == Firsts(heap, b)
             w2 == Firsts(heap', w)
  <2>1. p \in Seq(Elem)
    BY <1>21
  <2>2. q \in Seq(Elem)
    BY <1>21
  <2>3. w1 = Cons(x, p)
    BY <1>19 DEF Cons
  <2>4. w2 = Cons(x, q)
    BY <1>20 DEF Cons
  <2>5. x \in Elem
    BY <1>6
  <2> HIDE DEF p, q, w1, w2
  <2>6. TurnedOnto(w1, q) = TurnedOnto(p, w2)
    BY <2>1, <2>2, <2>3, <2>4, <2>5, ReverseTurns
  <2> QED BY <2>6 DEF p, q, w1, w2, TurnedOnto
<1>23. ListValue' = ListValue
  BY <1>1, <1>17, <1>22 DEF ListValue
<1> QED BY <1>1, <1>16, <1>17, <1>23 DEF Lists!vars, Pruning

(* When all nodes are turned they are the list.                            *)
LEMMA ReverseReturnsStep ==
  ASSUME IInv, ReverseReturns
  PROVE  IInv' /\ UNCHANGED Lists!vars
<1>1. /\ call = "reverse" /\ cur = NULL /\ list' = head
      /\ call' = "none" /\ cur' = NULL /\ head' = NULL /\ last' = NULL /\ apply' = Same
      /\ UNCHANGED <<heap, other, dead>>
  BY DEF ReverseReturns, InCall, Returned
<1>2. PICK a, b, u, t : /\ Owned(heap, a, b, u, t) /\ Placed(a, b, u)
                        /\ Chain(heap, other, t, NULL)
  BY <1>1, InvIs
<1>3. /\ HeapTyped(heap) /\ PointersTyped
      /\ a = <<>> /\ Chain(heap, cur, b, NULL) /\ Chain(heap, head, u, NULL)
  BY <1>1, <1>2 DEF IInv, Placed, InReverse
<1>4. b = <<>> /\ head \in Pointer /\ On(<<>>) = {}
  BY <1>1, <1>3, ListBegins, ChainEmpty
<1>5. Owned(heap', a, u, a, t)
  BY <1>1, <1>2, <1>3, <1>4 DEF Owned
<1>6. Placed(a, u, a)'
  BY <1>1, <1>3 DEF Placed, AtRest
<1>7. PointersTyped'
  BY <1>1, <1>3, <1>4 DEF PointersTyped, Pointer, Same
<1>8. IInv'
  BY <1>1, <1>2, <1>3, <1>5, <1>6, <1>7, InvNext
<1>9. Elems(heap, cur) = <<>> /\ Elems(heap, head) = Firsts(heap, u)
  BY <1>3, <1>4, ListNodes, FirstsEmpty
<1>10. ListValue' = ListValue
  <2>1. Firsts(heap, u) \in Seq(Elem)
    <3>1. u \in Seq(DOMAIN heap)
      BY <1>3 DEF Chain
    <3> QED BY <1>3, <3>1, FirstsType
  <2>2. Reverse(<<>>) = <<>>
    BY DEF Reverse
  <2>3. Reverse(<<>>) \o Firsts(heap, u) = Firsts(heap, u)
    BY <2>1, <2>2, EmptyCat
  <2>4. ListValue = Firsts(heap, u)
    BY <1>1, <1>9, <2>3 DEF ListValue
  <2>5. ListValue' = Firsts(heap, u)
    BY <1>1, <1>9 DEF ListValue
  <2> QED BY <2>4, <2>5
<1> QED BY <1>1, <1>8, <1>10 DEF Lists!vars, Pruning

-----------------------------------------------------------------------------
(* list_free.                                                              *)

(* The first node is freed; the next one was read before.                  *)
LEMMA FreeTurnStep ==
  ASSUME IInv, FreeTurn
  PROVE  IInv' /\ UNCHANGED Lists!vars
<1>1. /\ call = "free" /\ list # NULL
      /\ heap' = Freed(heap, list) /\ list' = Rest(heap, list)
      /\ UNCHANGED <<other, dead, call, locals>>
  BY DEF FreeTurn, InCall, FreeStep
<1>2. PICK a, b, u, t : /\ Owned(heap, a, b, u, t) /\ Placed(a, b, u)
                        /\ Chain(heap, other, t, NULL) /\ Elems(heap, other) = Firsts(heap, t)
  BY <1>1, InvIs
<1>3. HeapTyped(heap) /\ PointersTyped /\ a = <<>> /\ u = <<>> /\ Chain(heap, list, b, NULL)
  BY <1>1, <1>2 DEF IInv, Placed, AtRest
<1>4. PICK c, v : c = list /\ v = Tail(b)
  OBVIOUS
<1>5. /\ c \in DOMAIN heap /\ c \in On(b)
      /\ Chain(heap, heap[c].rest, v, NULL) /\ On(v) = On(b) \ {c}
  BY <1>1, <1>3, <1>4, ChainTail
<1>6. HeapTyped(heap') /\ DOMAIN heap' = DOMAIN heap \ {c} /\ Agree(heap', heap, DOMAIN heap \ {c})
  BY <1>1, <1>3, <1>4, <1>5, FreedIs
<1>7. list' = heap[c].rest
  BY <1>1, <1>3, <1>4, <1>5, HeapTypes
<1>8. On(v) \in SUBSET (DOMAIN heap \ {c}) /\ On(t) \in SUBSET (DOMAIN heap \ {c})
  BY <1>2, <1>5 DEF Owned
<1>9. /\ Chain(heap', list', v, NULL) /\ Chain(heap', other, t, NULL)
      /\ Firsts(heap', t) = Firsts(heap, t)
  BY <1>2, <1>5, <1>6, <1>7, <1>8, ChainAgrees, FirstsAgree
<1>10. Owned(heap', a, v, u, t)
  BY <1>2, <1>5, <1>6, OwnedFreed
<1>11. Placed(a, v, u)'
  BY <1>1, <1>3, <1>9 DEF Placed, AtRest
<1>12. PointersTyped'
  <2>1. list' \in Pointer
    BY <1>6, <1>9, ListBegins
  <2> QED BY <1>1, <1>3, <2>1 DEF PointersTyped, locals
<1>13. IInv'
  BY <1>1, <1>6, <1>9, <1>10, <1>11, <1>12, InvNext
<1>14. Elems(heap', other') = Elems(heap, other) /\ ListValue' = ListValue
  BY <1>1, <1>2, <1>6, <1>9, ListNodes DEF ListValue
<1> QED BY <1>1, <1>13, <1>14 DEF Lists!vars, Pruning

(* No node is left.                                                        *)
LEMMA FreeReturnsStep ==
  ASSUME IInv, FreeReturns
  PROVE  IInv' /\ UNCHANGED Lists!vars
<1>1. /\ call = "free" /\ list = NULL
      /\ call' = "none" /\ cur' = NULL /\ head' = NULL /\ last' = NULL /\ apply' = Same
      /\ UNCHANGED <<heap, list, other, dead>>
  BY DEF FreeReturns, InCall, Returned, lists
<1>2. PICK a, b, u, t : /\ Owned(heap, a, b, u, t) /\ Placed(a, b, u)
                        /\ Chain(heap, other, t, NULL)
  BY <1>1, InvIs
<1>3. HeapTyped(heap) /\ PointersTyped /\ a = <<>> /\ u = <<>> /\ Chain(heap, list, b, NULL)
  BY <1>1, <1>2 DEF IInv, Placed, AtRest
<1>4. Placed(a, b, u)'
  BY <1>1, <1>3 DEF Placed, AtRest
<1>5. PointersTyped'
  BY <1>1, <1>3 DEF PointersTyped, Pointer, Same
<1>6. IInv'
  BY <1>1, <1>2, <1>3, <1>4, <1>5, InvNext
<1>7. Elems(heap, list) = <<>>
  <2>1. b = <<>>
    BY <1>1, <1>3, ListBegins
  <2> QED BY <1>3, <2>1, ListNodes, FirstsEmpty
<1>8. ListValue' = ListValue
  BY <1>1, <1>7 DEF ListValue
<1> QED BY <1>1, <1>6, <1>8 DEF Lists!vars, Pruning

-----------------------------------------------------------------------------
(* list_map.                                                               *)

(* The element at cur is changed, and cur goes on.                         *)
LEMMA MapTurnStep ==
  ASSUME IInv, MapTurn
  PROVE  IInv' /\ UNCHANGED Lists!vars
<1>1. /\ call = "map" /\ cur # NULL /\ cur' = Rest(heap, cur)
      /\ Live(heap, cur) => heap' = SetFirst(heap, cur, apply[First(heap, cur)])
      /\ UNCHANGED <<list, other, dead, call, head, last, apply>>
  BY DEF MapTurn, InCall
<1>2. PICK a, b, u, t : /\ Owned(heap, a, b, u, t) /\ Placed(a, b, u)
                        /\ Chain(heap, other, t, NULL) /\ Elems(heap, other) = Firsts(heap, t)
  BY <1>1, InvIs
<1>3. /\ HeapTyped(heap) /\ PointersTyped /\ apply \in [Elem -> Elem]
      /\ u = <<>> /\ Chain(heap, list, a, cur) /\ Chain(heap, cur, b, NULL)
  BY <1>1, <1>2 DEF IInv, Placed, InMap, PointersTyped
<1>4. PICK c, v, w, x : c = cur /\ v = Tail(b) /\ w = Append(a, c) /\ x = heap[c].first
  OBVIOUS
<1>5. /\ c \in DOMAIN heap /\ c \in On(b) /\ b # <<>>
  BY <1>1, <1>3, <1>4, ChainTail
<1>6. /\ Live(heap, c) /\ Rest(heap, c) = heap[c].rest /\ First(heap, c) = x
      /\ x \in Elem /\ apply[x] \in Elem
  BY <1>3, <1>4, <1>5, HeapTypes
<1>7. /\ HeapTyped(heap') /\ DOMAIN heap' = DOMAIN heap /\ Agree(heap', heap, DOMAIN heap \ {c})
      /\ heap'[c].first = apply[x] /\ heap'[c].rest = heap[c].rest
  BY <1>1, <1>3, <1>4, <1>5, <1>6, SetFirstIs
<1>8. \A n \in DOMAIN heap : heap'[n].rest = heap[n].rest
  BY <1>7 DEF Agree
<1>9. /\ On(a) \in SUBSET DOMAIN heap /\ On(b) \in SUBSET DOMAIN heap
      /\ On(t) \in SUBSET (DOMAIN heap \ {c}) /\ c \notin On(a) /\ On(a) \cap On(b) = {}
  BY <1>2, <1>5 DEF Owned
<1>10. /\ Chain(heap', list, a, c) /\ Chain(heap', c, b, NULL)
  BY <1>3, <1>4, <1>7, <1>8, <1>9, ChainKept
<1>11. Chain(heap', other, t, NULL) /\ Firsts(heap', t) = Firsts(heap, t)
  BY <1>2, <1>7, <1>9, ChainAgrees, FirstsAgree
<1>12. Chain(heap', heap[c].rest, v, NULL) /\ On(v) = On(b) \ {c} /\ b = <<c>> \o v
  BY <1>1, <1>4, <1>7, <1>10, ChainTail
<1>13. Chain(heap', list, w, heap[c].rest) /\ On(w) = On(a) \cup {c}
  BY <1>4, <1>5, <1>7, <1>9, <1>10, ChainSnoc
<1>14. Owned(heap', w, v, u, t)
  BY <1>2, <1>5, <1>7, <1>12, <1>13, OwnedMoved
<1>15. cur' = heap[c].rest
  BY <1>1, <1>4, <1>6
<1>16. Placed(w, v, u)'
  BY <1>1, <1>3, <1>12, <1>13, <1>15 DEF Placed, InMap
<1>17. PointersTyped'
  <2>1. cur' \in Pointer
    BY <1>7, <1>12, <1>15, ListBegins
  <2> QED BY <1>1, <1>3, <2>1 DEF PointersTyped
<1>18. IInv'
  BY <1>1, <1>7, <1>11, <1>14, <1>16, <1>17, InvNext
<1>19. PICK s : s = a \o b
  OBVIOUS
<1>20. Chain(heap, list, s, NULL) /\ Chain(heap', list, s, NULL)
  <2>1. Chain(heap, list, a \o b, NULL) /\ Chain(heap', list, a \o b, NULL)
    BY <1>3, <1>4, <1>9, <1>10, ChainCat
  <2> QED BY <1>19, <2>1
<1>21. /\ Elems(heap, list) = Firsts(heap, s) /\ Elems(heap', list') = Firsts(heap', s)
       /\ Elems(heap, cur) = Firsts(heap, b) /\ Elems(heap', cur') = Firsts(heap', v)
       /\ Elems(heap', other') = Elems(heap, other)
  BY <1>1, <1>2, <1>3, <1>7, <1>11, <1>12, <1>15, <1>20, ListNodes
<1>22. /\ Len(s) = Len(a) + Len(b) /\ Len(a) \in Nat /\ Len(b) \in Nat
       /\ \A i \in 1 .. Len(b) : s[Len(a) + i] = b[i]
       /\ s \in Seq(DOMAIN heap) /\ Once(s)
  <2>1. a \in Seq(DOMAIN heap) /\ b \in Seq(DOMAIN heap)
    BY <1>3 DEF Chain
  <2>2. s \in Seq(DOMAIN heap) /\ Once(s)
    BY <1>20 DEF Chain
  <2> QED BY <1>19, <2>1, <2>2, CatAs
<1>23. Len(v) = Len(b) - 1 /\ b[1] = c /\ Len(b) > 0
  <2>1. v \in Seq(DOMAIN heap)
    BY <1>7, <1>12 DEF Chain
  <2> QED BY <1>5, <1>12, <2>1, ConsIs
<1>24. /\ Len(Firsts(heap, s)) = Len(s) /\ DOMAIN Firsts(heap, s) = 1 .. Len(s)
       /\ Len(Firsts(heap', s)) = Len(s) /\ DOMAIN Firsts(heap', s) = 1 .. Len(s)
       /\ Len(Firsts(heap, b)) = Len(b) /\ Len(Firsts(heap', v)) = Len(v)
       /\ \A i \in 1 .. Len(s) : /\ Firsts(heap, s)[i] = heap[s[i]].first
                                 /\ Firsts(heap', s)[i] = heap'[s[i]].first
  <2>1. /\ s \in Seq(DOMAIN heap) /\ s \in Seq(DOMAIN heap')
        /\ b \in Seq(DOMAIN heap) /\ v \in Seq(DOMAIN heap')
    BY <1>3, <1>12, <1>20 DEF Chain
  <2>2. DOMAIN Firsts(heap, s) = 1 .. Len(s) /\ DOMAIN Firsts(heap', s) = 1 .. Len(s)
    BY DEF Firsts
  <2> QED BY <1>3, <1>7, <2>1, <2>2, FirstsType
<1> DEFINE m == Len(a)
           p == Firsts(heap, s)
           q == Firsts(heap', s)
<1>25. /\ m \in Nat /\ m + 1 \in 1 .. Len(s) /\ s[m + 1] = c
       /\ Len(s) - Len(b) = m /\ Len(s) - Len(v) = m + 1
  <2>1. 1 \in 1 .. Len(b)
    BY <1>22, <1>23
  <2> QED BY <1>22, <1>23, <2>1
<1>26. /\ q[m + 1] = apply[p[m + 1]]
       /\ \A i \in 1 .. Len(s) : i # m + 1 => q[i] = p[i]
  <2>1. q[m + 1] = apply[p[m + 1]]
    BY <1>4, <1>7, <1>24, <1>25
  <2>2. ASSUME NEW i \in 1 .. Len(s), i # m + 1 PROVE q[i] = p[i]
    <3>1. s[i] # c /\ s[i] \in DOMAIN heap
      <4>1. s[i] \in DOMAIN heap
        BY <1>22, ElementOfSeq
      <4> QED BY <1>22, <1>25, <2>2, <4>1 DEF Once
    <3>2. heap'[s[i]] = heap[s[i]]
      BY <1>7, <3>1 DEF Agree
    <3> QED BY <1>24, <3>2
  <2> QED BY <2>1, <2>2
<1>27. ListValue = [i \in 1 .. Len(s) |-> IF i <= m THEN p[i] ELSE apply[p[i]]]
  BY <1>1, <1>21, <1>24, <1>25 DEF ListValue
<1>28. ListValue' = [i \in 1 .. Len(s) |-> IF i <= m + 1 THEN q[i] ELSE apply[q[i]]]
  BY <1>1, <1>21, <1>24, <1>25 DEF ListValue
<1> HIDE DEF m, p, q
<1>29. ASSUME NEW i \in 1 .. Len(s)
       PROVE  (IF i <= m THEN p[i] ELSE apply[p[i]]) = (IF i <= m + 1 THEN q[i] ELSE apply[q[i]])
  <2>1. CASE i = m + 1
    BY <1>25, <1>26, <2>1
  <2>2. CASE i # m + 1
    <3>1. q[i] = p[i] /\ (i <= m <=> i <= m + 1)
      BY <1>25, <1>26, <2>2
    <3> QED BY <3>1
  <2> QED BY <2>1, <2>2
<1>30. ListValue' = ListValue
  BY <1>27, <1>28, <1>29
<1> QED BY <1>1, <1>18, <1>21, <1>30 DEF Lists!vars, Pruning

(* All elements are changed.                                               *)
LEMMA MapReturnsStep ==
  ASSUME IInv, MapReturns
  PROVE  IInv' /\ UNCHANGED Lists!vars
<1>1. /\ call = "map" /\ cur = NULL
      /\ call' = "none" /\ cur' = NULL /\ head' = NULL /\ last' = NULL /\ apply' = Same
      /\ UNCHANGED <<heap, list, other, dead>>
  BY DEF MapReturns, InCall, Returned, lists
<1>2. PICK a, b, u, t : /\ Owned(heap, a, b, u, t) /\ Placed(a, b, u)
                        /\ Chain(heap, other, t, NULL)
  BY <1>1, InvIs
<1>3. /\ HeapTyped(heap) /\ PointersTyped
      /\ u = <<>> /\ Chain(heap, list, a, cur) /\ Chain(heap, cur, b, NULL)
  BY <1>1, <1>2 DEF IInv, Placed, InMap
<1>4. b = <<>> /\ On(<<>>) = {}
  BY <1>1, <1>3, ListBegins, ChainEmpty
<1>5. Owned(heap', b, a, u, t)
  BY <1>1, <1>2, <1>3, <1>4 DEF Owned
<1>6. Placed(b, a, u)'
  BY <1>1, <1>3, <1>4 DEF Placed, AtRest
<1>7. PointersTyped'
  BY <1>1, <1>3 DEF PointersTyped, Pointer, Same
<1>8. IInv'
  BY <1>1, <1>2, <1>3, <1>5, <1>6, <1>7, InvNext
<1> DEFINE f == Firsts(heap, a)
<1>9. Elems(heap, list) = f /\ Elems(heap, cur) = <<>>
  BY <1>1, <1>3, <1>4, ListNodes, FirstsEmpty
<1>10. f \in Seq(Elem) /\ Len(f) \in Nat /\ DOMAIN f = 1 .. Len(f) /\ Len(<<>>) = 0
  <2>1. a \in Seq(DOMAIN heap)
    BY <1>3 DEF Chain
  <2> QED BY <1>3, <2>1, FirstsType, LenProperties
<1> HIDE DEF f
<1>11. ListValue = [i \in DOMAIN f |-> IF i <= Len(f) - Len(<<>>) THEN f[i] ELSE apply[f[i]]]
  BY <1>1, <1>9 DEF ListValue
<1>12. \A i \in DOMAIN f : i <= Len(f) - Len(<<>>)
  BY <1>10
<1>13. ListValue = [i \in DOMAIN f |-> f[i]]
  BY <1>11, <1>12
<1>14. ListValue = f
  <2>1. f = [i \in DOMAIN f |-> f[i]]
    BY <1>10
  <2> QED BY <1>13, <2>1
<1>15. ListValue' = f
  BY <1>1, <1>9 DEF ListValue
<1> QED BY <1>1, <1>8, <1>14, <1>15 DEF Lists!vars, Pruning

-----------------------------------------------------------------------------
(* update_clients_list.                                                    *)

(* Two sequences, one behind the other.                                    *)
Joined(p, q) == p \o q

(* An element of D between two sequences does not count.                   *)
LEMMA WithoutMiddle ==
  ASSUME NEW S, NEW p \in Seq(S), NEW q \in Seq(S), NEW x \in S, NEW D, x \in D,
         NEW z, z = Cons(x, q)
  PROVE  Without(Joined(p, z), D) = Without(Joined(p, q), D)
<1> DEFINE s == Joined(p, z)
           r == Joined(p, q)
           m == Len(p)
<1>1. /\ z \in Seq(S) /\ Len(z) = Len(q) + 1 /\ Len(q) \in Nat
      /\ z[1] = x /\ \A i \in 1 .. Len(q) : z[i + 1] = q[i]
  BY ConsIs DEF Cons
<1>2. /\ s \in Seq(S) /\ Len(s) = m + Len(z) /\ m \in Nat
      /\ \A i \in 1 .. m : s[i] = p[i]
      /\ \A i \in 1 .. Len(z) : s[m + i] = z[i]
  <2>1. z \in Seq(S) /\ s = p \o z
    BY <1>1 DEF Joined
  <2> HIDE DEF s
  <2> QED BY <2>1, CatAs
<1>3. /\ r \in Seq(S) /\ Len(r) = m + Len(q)
      /\ \A i \in 1 .. m : r[i] = p[i]
      /\ \A i \in 1 .. Len(q) : r[m + i] = q[i]
  <2>1. r = p \o q
    BY DEF Joined
  <2> HIDE DEF r
  <2> QED BY <2>1, CatAs
<1> HIDE DEF s, r, m
<1>4. m \in 0 .. Len(r) /\ Len(s) = Len(r) + 1
  BY <1>1, <1>2, <1>3
<1>5. s[m + 1] = x
  <2>1. 1 \in 1 .. Len(z)
    BY <1>1
  <2> QED BY <1>1, <1>2, <2>1
<1>6. \A i \in 1 .. m : s[i] = r[i]
  BY <1>2, <1>3
<1>7. ASSUME NEW i \in m + 1 .. Len(r) PROVE s[i + 1] = r[i]
  <2> DEFINE k == i - m
             l == k + 1
  <2>1. k \in 1 .. Len(q) /\ l \in 1 .. Len(z) /\ m + k = i /\ m + l = i + 1
    BY <1>1, <1>2, <1>3
  <2>2. z[l] = q[k]
    BY <1>1, <2>1
  <2> HIDE DEF k, l
  <2>3. s[m + l] = z[l] /\ r[m + k] = q[k]
    BY <1>2, <1>3, <2>1
  <2> QED BY <2>1, <2>2, <2>3
<1>8. Without(s, D) = Without(r, D)
  BY <1>2, <1>3, <1>4, <1>5, <1>6, <1>7, WithoutDrops
<1> QED BY <1>8 DEF s, r

(* A dead client in front is freed; the first one that lives ends the      *)
(* loop.                                                                   *)
LEMMA PruneHeadTurnStep ==
  ASSUME IInv, PruneHeadTurn
  PROVE  IInv' /\ UNCHANGED Lists!vars
<1>1. /\ call = "prune_head" /\ cur # NULL
      /\ UNCHANGED <<list, other, dead, last, apply>>
  BY DEF PruneHeadTurn, InCall
<1>2. PICK a, b, u, t : /\ Owned(heap, a, b, u, t) /\ Placed(a, b, u)
                        /\ Chain(heap, other, t, NULL) /\ Elems(heap, other) = Firsts(heap, t)
  BY <1>1, InvIs
<1>3. /\ HeapTyped(heap) /\ PointersTyped
      /\ a = <<>> /\ u = <<>> /\ head = NULL /\ Chain(heap, cur, b, NULL)
  BY <1>1, <1>2 DEF IInv, Placed, InPruneHead
<1>4. PICK c, v, x, w : c = cur /\ v = Tail(b) /\ x = heap[c].first /\ w = Append(a, c)
  OBVIOUS
<1>5. /\ c \in DOMAIN heap /\ c \in On(b) /\ b = <<c>> \o v
      /\ Chain(heap, heap[c].rest, v, NULL) /\ On(v) = On(b) \ {c}
  BY <1>1, <1>3, <1>4, ChainTail
<1>6. /\ Live(heap, c) /\ Rest(heap, c) = heap[c].rest /\ First(heap, c) = x /\ x \in Elem
      /\ c \in Pointer
  BY <1>3, <1>4, <1>5, HeapTypes DEF Pointer
<1>7. ASSUME x \in dead PROVE IInv' /\ UNCHANGED Lists!vars
  <2>1. heap' = Freed(heap, c) /\ cur' = heap[c].rest /\ UNCHANGED <<call, head>>
    BY <1>4, <1>6, <1>7 DEF PruneHeadTurn
  <2>2. HeapTyped(heap') /\ DOMAIN heap' = DOMAIN heap \ {c} /\ Agree(heap', heap, DOMAIN heap \ {c})
    BY <1>3, <1>5, <2>1, FreedIs
  <2>3. On(v) \in SUBSET (DOMAIN heap \ {c}) /\ On(t) \in SUBSET (DOMAIN heap \ {c})
    BY <1>2, <1>5 DEF Owned
  <2>4. /\ Chain(heap', cur', v, NULL) /\ Chain(heap', other, t, NULL)
        /\ Firsts(heap', v) = Firsts(heap, v) /\ Firsts(heap', t) = Firsts(heap, t)
    BY <1>2, <1>5, <2>1, <2>2, <2>3, ChainAgrees, FirstsAgree
  <2>5. Owned(heap', a, v, u, t)
    BY <1>2, <1>5, <2>2, OwnedFreed
  <2>6. Placed(a, v, u)'
    BY <1>1, <1>3, <2>1, <2>4 DEF Placed, InPruneHead
  <2>7. PointersTyped'
    <3>1. cur' \in Pointer
      BY <2>2, <2>4, ListBegins
    <3> QED BY <1>1, <1>3, <2>1, <3>1 DEF PointersTyped
  <2>8. IInv'
    BY <1>1, <2>2, <2>4, <2>5, <2>6, <2>7, InvNext
  <2>9. /\ Elems(heap, cur) = Firsts(heap, b) /\ Elems(heap', cur') = Firsts(heap, v)
        /\ Elems(heap', other') = Elems(heap, other)
    BY <1>1, <1>2, <1>3, <2>2, <2>4, ListNodes
  <2>10. Without(Firsts(heap, b), dead) = Without(Firsts(heap, v), dead)
    <3>1. v \in Seq(DOMAIN heap)
      BY <1>5 DEF Chain
    <3>2. Firsts(heap, v) \in Seq(Elem)
      BY <1>3, <3>1, FirstsType
    <3>3. Firsts(heap, b) = <<x>> \o Firsts(heap, v)
      BY ZenonT(30), <1>3, <1>4, <1>5, <3>1, FirstsCons
    <3> DEFINE f == Firsts(heap, v)
               z == Firsts(heap, b)
    <3>4. z = Cons(x, f)
      BY <3>3 DEF Cons
    <3> HIDE DEF f
    <3>5. f \in Seq(Elem) /\ <<>> \in Seq(Elem)
      BY <3>2, EmptySeq DEF f
    <3>6. z \in Seq(Elem)
      BY <1>6, <3>4, <3>5, ConsIs DEF Cons
    <3> HIDE DEF z
    <3>7. Joined(<<>>, z) = z /\ Joined(<<>>, f) = f
      BY <3>5, <3>6, EmptyCat DEF Joined
    <3>8. PICK e : e = <<>>
      OBVIOUS
    <3>9. e \in Seq(Elem)
      BY <3>5, <3>8
    <3>10. Without(Joined(e, z), dead) = Without(Joined(e, f), dead)
      BY <1>6, <1>7, <3>4, <3>5, <3>9, WithoutMiddle
    <3> QED BY <3>7, <3>8, <3>10 DEF f, z
  <2>11. ListValue' = ListValue
    BY <1>1, <2>1, <2>9, <2>10 DEF ListValue
  <2> QED BY <1>1, <2>1, <2>8, <2>9, <2>11 DEF Lists!vars, Pruning
<1>8. ASSUME x \notin dead PROVE IInv' /\ UNCHANGED Lists!vars
  <2>1. heap' = heap /\ head' = c /\ call' = "prune_rest" /\ cur' = cur
    BY <1>4, <1>6, <1>8 DEF PruneHeadTurn, Touched
  <2>2. Chain(heap, c, a, c) /\ On(a) = {}
    BY <1>3, ChainEmpty
  <2>3. /\ Chain(heap, c, w, heap[c].rest) /\ On(w) = On(a) \cup {c}
        /\ w # <<>> /\ LastOf(w) = c
    BY <1>4, <1>5, <2>2, ChainSnoc
  <2>4. Owned(heap, w, v, u, t)
    BY <1>2, <1>3, <1>5, <2>2, <2>3, OwnedMoved
  <2>5. InPruneRest(w, v, u)'
    <3>1. \A n \in On(w) : heap[n].first \notin dead
      BY <1>4, <1>8, <2>2, <2>3
    <3> QED BY <1>1, <1>3, <1>4, <1>5, <1>6, <2>1, <2>3, <3>1 DEF InPruneRest
  <2>6. Placed(w, v, u)'
    BY <2>1, <2>5 DEF Placed
  <2>7. PointersTyped'
    BY <1>1, <1>3, <1>6, <2>1 DEF PointersTyped, Calls
  <2>8. IInv'
    BY <1>1, <1>2, <1>3, <2>1, <2>4, <2>6, <2>7, InvNext
  <2>9. ListValue' = ListValue
    BY <1>1, <1>4, <2>1 DEF ListValue
  <2> QED BY <1>1, <2>1, <2>8, <2>9 DEF Lists!vars, Pruning
<1> QED BY <1>7, <1>8

(* All clients were dead: no node is left.                                 *)
LEMMA PruneHeadEndsStep ==
  ASSUME IInv, PruneHeadEnds
  PROVE  IInv' /\ UNCHANGED Lists!vars
<1>1. /\ call = "prune_head" /\ cur = NULL /\ call' = "prune_rest"
      /\ UNCHANGED <<heap, list, other, dead>> /\ UNCHANGED <<cur, head, last, apply>>
  BY DEF PruneHeadEnds, InCall, lists, locals
<1>2. PICK a, b, u, t : /\ Owned(heap, a, b, u, t) /\ Placed(a, b, u)
                        /\ Chain(heap, other, t, NULL)
  BY <1>1, InvIs
<1>3. /\ HeapTyped(heap) /\ PointersTyped
      /\ a = <<>> /\ u = <<>> /\ head = NULL /\ Chain(heap, cur, b, NULL)
  BY <1>1, <1>2 DEF IInv, Placed, InPruneHead
<1>4. b = <<>> /\ On(<<>>) = {} /\ LastOf(<<>>) = NULL /\ Chain(heap, NULL, <<>>, NULL)
  BY <1>1, <1>3, ListBegins, ChainEmpty
<1>5. Rest(heap, NULL) = NULL
  BY DEF Rest, Live
<1>6. Placed(a, b, u)'
  BY <1>1, <1>3, <1>4, <1>5 DEF Placed, InPruneRest
<1>7. PointersTyped'
  BY <1>1, <1>3 DEF PointersTyped, Calls
<1>8. IInv'
  BY <1>1, <1>2, <1>3, <1>6, <1>7, InvNext
<1>9. ListValue' = ListValue
  BY <1>1, <1>3 DEF ListValue
<1> QED BY <1>1, <1>8, <1>9 DEF Lists!vars, Pruning

(* A dead client behind cur is unlinked and freed and cur stays, or cur    *)
(* goes on to one that lives.                                              *)
LEMMA PruneRestTurnStep ==
  ASSUME IInv, PruneRestTurn
  PROVE  IInv' /\ UNCHANGED Lists!vars
<1>1. PICK c, d : c = cur /\ d = Rest(heap, cur)
  OBVIOUS
<1>2. /\ call = "prune_rest" /\ c # NULL /\ d # NULL
      /\ UNCHANGED <<list, other, dead, call, head, last, apply>>
      /\ First(heap, d) \in dead =>
           heap' = Freed(SetRest(heap, c, Rest(heap, d)), d) /\ cur' = c
      /\ First(heap, d) \notin dead => heap' = Touched(heap, d) /\ cur' = d
  BY <1>1 DEF PruneRestTurn, InCall, Cursor
<1>3. PICK a, b, u, t : /\ Owned(heap, a, b, u, t) /\ Placed(a, b, u)
                        /\ Chain(heap, other, t, NULL) /\ Elems(heap, other) = Firsts(heap, t)
  BY <1>2, InvIs
<1>4. /\ HeapTyped(heap) /\ PointersTyped
      /\ u = <<>> /\ c = LastOf(a) /\ Chain(heap, head, a, d) /\ Chain(heap, d, b, NULL)
      /\ \A n \in On(a) : heap[n].first \notin dead
  BY <1>1, <1>2, <1>3 DEF IInv, Placed, InPruneRest
<1>5. PICK v, x, w : v = Tail(b) /\ x = heap[d].first /\ w = Append(a, d)
  OBVIOUS
<1>6. /\ d \in DOMAIN heap /\ d \in On(b) /\ b = <<d>> \o v
      /\ Chain(heap, heap[d].rest, v, NULL) /\ On(v) = On(b) \ {d}
  BY <1>2, <1>4, <1>5, ChainTail
<1>7. /\ Live(heap, d) /\ Rest(heap, d) = heap[d].rest /\ First(heap, d) = x /\ x \in Elem
      /\ d \in Pointer
  BY <1>4, <1>5, <1>6, HeapTypes DEF Pointer
<1>8. a # <<>> /\ c \in On(a) /\ On(a) \in SUBSET DOMAIN heap /\ c \in DOMAIN heap
  BY <1>2, <1>4, ChainTypes
<1>9. /\ d \notin On(a) /\ On(a) \cap On(b) = {}
      /\ On(b) \in SUBSET DOMAIN heap /\ On(t) \in SUBSET DOMAIN heap
      /\ On(a) \cap On(t) = {} /\ On(b) \cap On(t) = {}
  BY <1>3, <1>6 DEF Owned
<1>10. ASSUME x \in dead PROVE IInv' /\ UNCHANGED Lists!vars
  <2>1. PICK r, f : r = heap[d].rest /\ f = SetRest(heap, c, heap[d].rest)
    OBVIOUS
  <2>2. heap' = Freed(f, d) /\ cur' = c
    BY <1>2, <1>7, <1>10, <2>1
  <2>3. r \in Pointer \cup {Unset} /\ r \in Pointer
    BY <1>4, <1>6, <2>1, ListBegins
  <2>4. /\ HeapTyped(f) /\ DOMAIN f = DOMAIN heap /\ Agree(f, heap, DOMAIN heap \ {c})
        /\ f[c].rest = r /\ f[c].first = heap[c].first
    <3>1. f = SetRest(heap, c, r) /\ HeapTyped(heap)
      BY <1>4, <2>1
    <3> QED BY <1>8, <2>3, <3>1, SetRestIs
  <2>5. HeapTyped(heap') /\ DOMAIN heap' = DOMAIN heap \ {d} /\ Agree(heap', f, DOMAIN heap \ {d})
    <3>1. d \in DOMAIN f
      BY <1>6, <2>4
    <3> QED BY <2>2, <2>4, <3>1, FreedIs
  <2>6. Chain(f, head, a, r)
    <3>1. \A n \in On(a) \ {LastOf(a)} : f[n].rest = heap[n].rest
      BY <1>4, <1>8, <2>4 DEF Agree
    <3>2. Chain(f, head, a, f[LastOf(a)].rest)
      BY <1>4, <1>8, <2>4, <3>1, ChainEnds
    <3> QED BY <1>4, <2>4, <3>2
  <2>7. /\ On(a) \in SUBSET (DOMAIN heap \ {d}) /\ On(v) \in SUBSET (DOMAIN heap \ {d})
        /\ On(t) \in SUBSET (DOMAIN heap \ {d})
        /\ On(v) \in SUBSET (DOMAIN heap \ {c}) /\ On(t) \in SUBSET (DOMAIN heap \ {c})
        /\ On(a) \cap On(v) = {} /\ c \in DOMAIN heap \ {d}
    BY <1>6, <1>8, <1>9
  <2>8. Chain(f, r, v, NULL) /\ Chain(f, other, t, NULL)
    BY <1>3, <1>6, <2>1, <2>4, <2>7, ChainAgrees
  <2>9. Chain(heap', head, a, r) /\ Chain(heap', r, v, NULL) /\ Chain(heap', other, t, NULL)
    BY <2>5, <2>6, <2>7, <2>8, ChainAgrees
  <2>10. \A n \in On(a) : heap'[n].first = heap[n].first
    BY <1>8, <2>4, <2>5, <2>7 DEF Agree
  <2>11. /\ Firsts(heap', a) = Firsts(heap, a)
         /\ Firsts(heap', v) = Firsts(heap, v) /\ Firsts(heap', t) = Firsts(heap, t)
    <3>1. Firsts(f, v) = Firsts(heap, v) /\ Firsts(f, t) = Firsts(heap, t)
      BY <2>4, <2>7, FirstsAgree
    <3>2. Firsts(heap', v) = Firsts(f, v) /\ Firsts(heap', t) = Firsts(f, t)
      BY <2>5, <2>7, FirstsAgree
    <3>3. Firsts(heap', a) = Firsts(heap, a)
      BY <2>10, FirstsKept
    <3> QED BY <3>1, <3>2, <3>3
  <2>12. Owned(heap', a, v, u, t)
    BY <1>3, <1>6, <2>5, OwnedFreed
  <2>13. Rest(heap', c) = r
    <3>1. heap'[c] = f[c] /\ c \in DOMAIN heap'
      BY <2>5, <2>7 DEF Agree
    <3> QED BY <2>4, <2>5, <3>1, HeapTypes
  <2>14. InPruneRest(a, v, u)'
    BY <1>2, <1>4, <1>8, <2>2, <2>9, <2>10, <2>13 DEF InPruneRest
  <2>15. Placed(a, v, u)'
    BY <1>2, <2>14 DEF Placed
  <2>16. PointersTyped'
    BY <1>1, <1>2, <1>4, <2>2 DEF PointersTyped
  <2>17. IInv'
    BY <1>2, <2>5, <2>9, <2>12, <2>15, <2>16, InvNext
  <2> DEFINE p == Firsts(heap, a)
             q == Firsts(heap, v)
             z == Firsts(heap, b)
  <2>18. Elems(heap, head) = Joined(p, z)
    <3>1. Chain(heap, head, a \o b, NULL)
      BY <1>4, <1>9, ChainCat
    <3>2. Elems(heap, head) = Firsts(heap, a \o b)
      BY <1>4, <3>1, ListNodes
    <3>3. a \in Seq(DOMAIN heap) /\ b \in Seq(DOMAIN heap)
      BY <1>4 DEF Chain
    <3>4. Firsts(heap, a \o b) = p \o z
      BY <1>4, <3>3, FirstsCat
    <3> QED BY <3>2, <3>4 DEF Joined
  <2>19. Elems(heap', head) = Joined(p, q)
    <3>1. Chain(heap', head, a \o v, NULL)
      BY <2>7, <2>9, ChainCat
    <3>2. Elems(heap', head) = Firsts(heap', a \o v)
      BY <2>5, <3>1, ListNodes
    <3>3. a \in Seq(DOMAIN heap') /\ v \in Seq(DOMAIN heap')
      BY <2>9 DEF Chain
    <3>4. Firsts(heap', a \o v) = Firsts(heap', a) \o Firsts(heap', v)
      BY <2>5, <3>3, FirstsCat
    <3> QED BY <2>11, <3>2, <3>4 DEF Joined
  <2>20. Without(Joined(p, z), dead) = Without(Joined(p, q), dead)
    <3>1. a \in Seq(DOMAIN heap) /\ v \in Seq(DOMAIN heap)
      BY <1>4, <1>6 DEF Chain
    <3>2. p \in Seq(Elem) /\ q \in Seq(Elem)
      BY <1>4, <3>1, FirstsType
    <3>3. z = <<x>> \o q
      BY <1>4, <1>5, <1>6, <3>1, FirstsCons
    <3>4. z = Cons(x, q)
      BY <3>3 DEF Cons
    <3> HIDE DEF p, q, z
    <3> QED BY <1>7, <1>10, <3>2, <3>4, WithoutMiddle
  <2> HIDE DEF p, q, z
  <2>21. ListValue' = ListValue
    BY <1>2, <2>18, <2>19, <2>20 DEF ListValue
  <2>22. Elems(heap', other') = Elems(heap, other)
    BY <1>2, <1>3, <2>5, <2>9, <2>11, ListNodes
  <2> QED BY <1>2, <2>17, <2>21, <2>22 DEF Lists!vars, Pruning
<1>11. ASSUME x \notin dead PROVE IInv' /\ UNCHANGED Lists!vars
  <2>1. heap' = heap /\ cur' = d
    BY <1>2, <1>7, <1>11 DEF Touched
  <2>2. Chain(heap, head, w, heap[d].rest) /\ On(w) = On(a) \cup {d} /\ w # <<>> /\ LastOf(w) = d
    BY <1>4, <1>5, <1>6, <1>9, ChainSnoc
  <2>3. Owned(heap, w, v, u, t)
    BY <1>3, <1>6, <2>2, OwnedMoved
  <2>4. InPruneRest(w, v, u)'
    BY <1>2, <1>4, <1>5, <1>6, <1>7, <1>11, <2>1, <2>2 DEF InPruneRest
  <2>5. Placed(w, v, u)'
    BY <1>2, <2>4 DEF Placed
  <2>6. PointersTyped'
    BY <1>2, <1>4, <1>7, <2>1 DEF PointersTyped
  <2>7. IInv'
    BY <1>2, <1>3, <1>4, <2>1, <2>3, <2>5, <2>6, InvNext
  <2>8. ListValue' = ListValue
    BY <1>2, <2>1 DEF ListValue
  <2> QED BY <1>2, <2>1, <2>7, <2>8 DEF Lists!vars, Pruning
<1> QED BY <1>10, <1>11

(* All that are left live, and are the list; nobody is dead then.          *)
LEMMA PruneReturnsStep ==
  ASSUME IInv, PruneReturns
  PROVE  IInv' /\ UNCHANGED Lists!vars
<1>1. /\ call = "prune_rest" /\ (cur = NULL \/ Rest(heap, cur) = NULL)
      /\ list' = head /\ dead' = {}
      /\ heap' = IF cur = NULL THEN heap ELSE Touched(heap, cur)
      /\ call' = "none" /\ cur' = NULL /\ head' = NULL /\ last' = NULL /\ apply' = Same
      /\ other' = other
  BY DEF PruneReturns, InCall, Returned
<1>2. PICK a, b, u, t : /\ Owned(heap, a, b, u, t) /\ Placed(a, b, u)
                        /\ Chain(heap, other, t, NULL)
  BY <1>1, InvIs
<1>3. Rest(heap, cur) = NULL
  BY <1>1 DEF Rest, Live
<1>4. /\ HeapTyped(heap) /\ PointersTyped
      /\ u = <<>> /\ cur = LastOf(a) /\ Chain(heap, head, a, NULL) /\ Chain(heap, NULL, b, NULL)
      /\ \A n \in On(a) : heap[n].first \notin dead
  BY <1>1, <1>2, <1>3 DEF IInv, Placed, InPruneRest
<1>5. b = <<>> /\ On(<<>>) = {} /\ head \in Pointer
  BY <1>4, ListBegins, ChainEmpty
<1>6. heap' = heap
  <2>1. CASE cur = NULL
    BY <1>1, <2>1
  <2>2. CASE cur # NULL
    <3>1. a # <<>>
      BY <1>4, <2>2, ChainTypes
    <3>2. cur \in DOMAIN heap
      BY <1>4, <3>1, ChainTypes
    <3> QED BY <1>1, <1>4, <2>2, <3>2, HeapTypes DEF Touched
  <2> QED BY <2>1, <2>2
<1>7. Owned(heap', b, a, u, t)
  BY <1>2, <1>4, <1>5, <1>6 DEF Owned
<1>8. Placed(b, a, u)'
  BY <1>1, <1>4, <1>5, <1>6 DEF Placed, AtRest
<1>9. PointersTyped'
  BY <1>1, <1>4, <1>5 DEF PointersTyped, Pointer, Same
<1>10. IInv'
  BY <1>1, <1>2, <1>4, <1>6, <1>7, <1>8, <1>9, InvNext
<1> DEFINE f == Firsts(heap, a)
<1>11. Elems(heap, head) = f
  BY <1>4, ListNodes
<1>12. Without(f, dead) = f
  <2>1. a \in Seq(DOMAIN heap)
    BY <1>4 DEF Chain
  <2>2. f \in Seq(Elem) /\ Len(f) = Len(a) /\ \A i \in 1 .. Len(a) : f[i] = heap[a[i]].first
    BY <1>4, <2>1, FirstsType
  <2>3. \A i \in 1 .. Len(f) : f[i] \notin dead
    BY <1>4, <2>2 DEF On
  <2> HIDE DEF f
  <2> QED BY <2>2, <2>3, WithoutNone
<1> HIDE DEF f
<1>13. ListValue = f
  BY <1>1, <1>11, <1>12 DEF ListValue
<1>14. ListValue' = f
  BY <1>1, <1>6, <1>11 DEF ListValue
<1> QED BY <1>1, <1>6, <1>10, <1>13, <1>14 DEF Lists!vars, Pruning

-----------------------------------------------------------------------------
(* The theorems.                                                           *)

(* Every step keeps the invariant, and is a step of ListSpec or none.      *)
LEMMA StepHolds == IInv /\ [Next]_vars => IInv' /\ [Lists!Next]_(Lists!vars)
<1> SUFFICES ASSUME IInv, [Next]_vars PROVE IInv' /\ (Lists!Next \/ UNCHANGED Lists!vars)
  OBVIOUS
<1>1. ASSUME NEW x \in Elem, list_push(x) PROVE IInv' /\ Lists!Next
  BY <1>1, PushStep DEF Lists!Next
<1>2. ASSUME NEW x \in Elem, SocketFreed(x) PROVE IInv' /\ Lists!Next
  BY <1>2, SocketStep DEF Lists!Next
<1>3. ASSUME NEW x \in Elem, ListTurn(x) PROVE IInv' /\ UNCHANGED Lists!vars
  BY <1>3, ListTurnStep
<1>4. ASSUME NEW f \in [Elem -> Elem], list_map(f) PROVE IInv' /\ Lists!Next
  BY <1>4, CallsRefine DEF Lists!Next
<1>5. ASSUME list_pop PROVE IInv' /\ Lists!Next
  BY <1>5, PopStep DEF Lists!Next
<1>6. ASSUME list_append \/ list_list \/ list_copy PROVE IInv' /\ UNCHANGED Lists!vars
  BY <1>6, CallsRefine
<1>7. ASSUME list_reverse \/ list_free \/ update_clients_list PROVE IInv' /\ Lists!Next
  BY <1>7, CallsRefine DEF Lists!Next
<1>8. ASSUME AppendReturns \/ ListReturns \/ CopyReturns PROVE IInv' /\ Lists!Next
  BY <1>8, AppendReturnsStep, GrowReturnsStep DEF Lists!Next
<1>9. ASSUME AppendTurn \/ CopyTurn \/ ReverseTurn \/ FreeTurn \/ MapTurn
      PROVE  IInv' /\ UNCHANGED Lists!vars
  BY <1>9, AppendTurnStep, CopyTurnStep, ReverseTurnStep, FreeTurnStep, MapTurnStep
<1>10. ASSUME ReverseReturns \/ FreeReturns \/ MapReturns
       PROVE  IInv' /\ UNCHANGED Lists!vars
  BY <1>10, ReverseReturnsStep, FreeReturnsStep, MapReturnsStep
<1>11. ASSUME PruneHeadTurn \/ PruneHeadEnds \/ PruneRestTurn \/ PruneReturns
       PROVE  IInv' /\ UNCHANGED Lists!vars
  BY <1>11, PruneHeadTurnStep, PruneHeadEndsStep, PruneRestTurnStep, PruneReturnsStep
<1>12. ASSUME MemFailed PROVE IInv' /\ UNCHANGED Lists!vars
  BY <1>12, FailStep
<1>13. ASSUME Aborted \/ UNCHANGED vars PROVE IInv' /\ UNCHANGED Lists!vars
  <2>1. UNCHANGED <<heap, list, other, dead, call, cur, head, last, apply>>
    BY <1>13 DEF Aborted, vars, lists, locals
  <2>2. IInv'
    BY <2>1 DEF IInv, PointersTyped, Chained, Placed, AtRest, InAppend, InList, InCopy,
                InReverse, InMap, InPruneHead, InPruneRest, Pointee
  <2>3. ListValue' = ListValue
    BY <2>1 DEF ListValue
  <2> QED BY <2>1, <2>2, <2>3 DEF Lists!vars, Pruning
<1> QED BY <1>1, <1>2, <1>3, <1>4, <1>5, <1>6, <1>7, <1>8, <1>9, <1>10, <1>11, <1>12, <1>13
        DEF Next

(* IInv is an invariant of the lists, for every set of nodes and of        *)
(* elements, and however addresses are used again.                         *)
THEOREM InductiveInvariant == Spec => []IInv
<1>1. IInv /\ [Next]_vars => IInv'
  BY StepHolds
<1> QED BY <1>1, InvInit, PTL DEF Spec

(* Every variable keeps its type.  A rest that was not written is reached  *)
(* by no pointer: cur, last and the two lists are nodes or NULL.           *)
THEOREM TypeCorrect == Spec => []TypeOK
BY InductiveInvariant, InvTypes, PTL

(* No function of ab_list.c, nor update_clients_list, reads, writes or     *)
(* frees a node that is not allocated.                                     *)
THEOREM NoFaultEver == Spec => []NoFault
BY InductiveInvariant, InvTypes, PTL

(* Between two calls every allocated node is on one of the two lists and   *)
(* on one only, and neither runs into a circle: no call leaks a node or    *)
(* leaves one shared.                                                      *)
THEOREM NodesHaveOneOwner == Spec => []NodesOwnedOnce
BY InductiveInvariant, InvOwned, PTL

(* Two lists without nodes are the empty sequences of ListSpec.            *)
LEMMA InitRefines == Init => Lists!Init
<1> SUFFICES ASSUME Init PROVE Lists!Init
  OBVIOUS
<1>1. HeapTyped(heap) /\ Chain(heap, NULL, <<>>, NULL)
  BY HeapEmpty, ChainEmpty DEF Init
<1>2. Elems(heap, NULL) = <<>>
  BY <1>1, ListNodes, FirstsEmpty
<1>3. ListValue = <<>>
  BY <1>2 DEF Init, ListValue
<1> QED BY <1>2, <1>3 DEF Init, Lists!Init, Pruning

(* The functions of ab_list.c and update_clients_list do to the lists what *)
(* ListSpec says, for lists of every length: every call takes effect as    *)
(* one step of ListSpec, and every other step is none.                     *)
THEOREM ListsAreSequences == Spec => ImplementsListSpec
<1>1. IInv /\ [Next]_vars => [Lists!Next]_(Lists!vars)
  BY StepHolds
<1>2. Spec => [][Lists!Next]_(Lists!vars)
  BY <1>1, InductiveInvariant, PTL DEF Spec
<1> QED BY <1>2, InitRefines, PTL DEF Spec, ImplementsListSpec, Lists!Spec
=============================================================================
