------------------------------ MODULE MCAbList ------------------------------
(* AbList with a few addresses and elements for TLC.                       *)
EXTENDS AbList, TLC

NodeElemSymmetry == Permutations(Node) \cup Permutations(Elem)
=============================================================================
