------------------------------ MODULE ListSpec ------------------------------
(***************************************************************************)
(* What the operations of ab_base/ab_list.c, and the pruning of            *)
(* update_clients_list, promise: two lists as sequences of elements.       *)
(* Elements of dead are those the pruning drops.                           *)
(***************************************************************************)
EXTENDS SequencesExt, ListOps

CONSTANT Elem

VARIABLES list, other, dead

vars == <<list, other, dead>>

Init == list = <<>> /\ other = <<>> /\ dead = {}

Push(x) == list' = <<x>> \o list /\ UNCHANGED <<other, dead>>
Pop     == list # <<>> /\ list' = Tail(list) /\ UNCHANGED <<other, dead>>
Append2 == list' = list \o other /\ other' = <<>> /\ UNCHANGED dead
Copy    == other = <<>> /\ other' = list /\ UNCHANGED <<list, dead>>
Make    == other = <<>> /\ other' \in Seq(Elem) /\ UNCHANGED <<list, dead>>
Map(f)  == list' = Mapped(f, list) /\ UNCHANGED <<other, dead>>
Rev     == list' = Reverse(list) /\ UNCHANGED <<other, dead>>
Free    == list' = <<>> /\ UNCHANGED <<other, dead>>
Die(x)  == dead' = dead \cup {x} /\ UNCHANGED <<list, other>>

(* The dead elements leave the list; they exist no longer.                 *)
Prune   == list' = Without(list, dead) /\ dead' = {} /\ UNCHANGED other

Next == \/ \E f \in [Elem -> Elem] : Map(f)
        \/ \E x \in Elem : Push(x) \/ Die(x)
        \/ Pop \/ Append2 \/ Copy \/ Make \/ Rev \/ Free \/ Prune

Spec == Init /\ [][Next]_vars
=============================================================================
