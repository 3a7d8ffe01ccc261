------------------------------- MODULE ListOps -------------------------------
(***************************************************************************)
(* Operators on sequences that the promise of the lists (ListSpec) and the *)
(* lists themselves (AbList) are stated with.                              *)
(***************************************************************************)
EXTENDS Naturals, Sequences

(* f applied to every element of s.                                        *)
Mapped(f, s) == [i \in DOMAIN s |-> f[s[i]]]

(* What is left of s without the elements of D, in the same order.         *)
Without(s, D) ==
  LET w[i \in 0 .. Len(s)] ==
        IF i = 0 THEN <<>>
        ELSE IF s[i] \in D THEN w[i - 1] ELSE Append(w[i - 1], s[i])
  IN w[Len(s)]
=============================================================================
