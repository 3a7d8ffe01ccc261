------------------------------- MODULE AbList --------------------------------
(***************************************************************************)
(* The linked lists of ab_base/ab_list.c and the pruning of the clients'   *)
(* list (update_clients_list of rtsp_server/ab_rtsp_server.c), on the      *)
(* heap: nodes with a first and a rest, allocated and freed.               *)
(*                                                                         *)
(* A function without a loop is one action.  Of one with a loop the call   *)
(* is an action, and each turn of the loop and the return are.  Reading,   *)
(* writing or freeing a node that is not allocated sets the heap to Fault. *)
(***************************************************************************)
EXTENDS SequencesExt, ListOps

CONSTANTS
  Node,   \* the addresses malloc may return, again and again
  Elem,   \* what the lists hold
  NULL,
  Unset   \* a pointer that was not written yet

ASSUME ListAssumption == NULL \notin Node /\ Unset \notin Node /\ Unset # NULL

VARIABLES
  heap,    \* the allocated nodes, a function, or Fault
  list,    \* a list_t: the head of a list
  other,   \* another one
  dead,    \* the elements whose sock is NULL
  call,    \* the function that runs its loop, "none", or "aborted"
  cur,     \* its argument, the node it stands at
  head,    \* the list it is going to return
  last,    \* its p is &last->rest, or the address of a variable (NULL)
  apply    \* what the argument apply of list_map does to an element

lists == <<heap, list, other, dead>>
locals == <<cur, head, last, apply>>
vars == <<lists, call, locals>>

Pointer == Node \cup {NULL}
Cell == [first : Elem, rest : Pointer \cup {Unset}]

(* The heap after a fault.                                                 *)
Fault == [q \in {NULL} |-> "fault"]

Calls == {"append", "copy", "list", "reverse", "free", "map",
          "prune_head", "prune_rest"}

TypeOK ==
  /\ heap = Fault \/ \E D \in SUBSET Node : heap \in [D -> Cell]
  /\ list \in Pointer /\ other \in Pointer
  /\ dead \subseteq Elem
  /\ call \in Calls \cup {"none", "aborted"}
  /\ cur \in Pointer /\ last \in Pointer /\ head \in Pointer \cup {Unset}
  /\ apply \in [Elem -> Elem]

Same == [x \in Elem |-> x]
NoLocals == cur = NULL /\ head = NULL /\ last = NULL /\ apply = Same

Init ==
  /\ heap = <<>> /\ list = NULL /\ other = NULL /\ dead = {}
  /\ call = "none" /\ NoLocals

-----------------------------------------------------------------------------
(* Memory.                                                                 *)

Live(h, q) == q # NULL /\ q \in DOMAIN h

Rest(h, q) == IF Live(h, q) THEN h[q].rest ELSE NULL
First(h, q) == IF Live(h, q) THEN h[q].first ELSE NULL

SetRest(h, q, r) == IF Live(h, q) THEN [h EXCEPT ![q].rest = r] ELSE Fault
SetFirst(h, q, x) == IF Live(h, q) THEN [h EXCEPT ![q].first = x] ELSE Fault

(* The heap after reading q.                                               *)
Touched(h, q) == IF Live(h, q) THEN h ELSE Fault

(* FREE of a node; a node freed twice is a fault.                          *)
Freed(h, q) ==
  IF Live(h, q) THEN [n \in DOMAIN h \ {q} |-> h[n]] ELSE Fault

(* NEW of a node, its members written.                                     *)
With(h, n, x, r) ==
  [q \in DOMAIN h \cup {n} |-> IF q = n THEN [first |-> x, rest |-> r] ELSE h[q]]

FreeNodes == Node \ DOMAIN heap

-----------------------------------------------------------------------------
(* Calls and returns.                                                      *)

Called(f, c, h) ==
  /\ call = "none" /\ call' = f
  /\ cur' = c /\ head' = h /\ last' = NULL

Returned ==
  /\ call' = "none" /\ cur' = NULL /\ head' = NULL /\ last' = NULL
  /\ apply' = Same

InCall(f) == call = f /\ heap # Fault

-----------------------------------------------------------------------------
(* Functions without a loop.                                               *)

list_push(x) ==
  /\ call = "none"
  /\ \E n \in FreeNodes : heap' = With(heap, n, x, list) /\ list' = n
  /\ UNCHANGED <<other, dead, call, locals>>

(* Fault: the wrong member of the node is returned.                        *)
PoppedFirst(q) == First(heap, q)

Popped(q) == Rest(heap, q)

(* Fault: the node is unlinked and not freed.                              *)
HeapKept(q) == heap

HeapAfterPop(q) == Freed(heap, q)

list_pop ==
  /\ call = "none" /\ list # NULL
  /\ list' = Popped(list)
  /\ heap' = HeapAfterPop(list)
  /\ UNCHANGED <<other, dead, call, locals>>

(* recv_client_msg frees the socket of a client: sock = NULL.              *)
SocketFreed(x) ==
  /\ call = "none"
  /\ dead' = dead \cup {x}
  /\ UNCHANGED <<heap, list, other, call, locals>>

(* NEW raises Mem_Failed, which nothing catches.                           *)
MemFailed ==
  /\ FreeNodes = {}
  /\ call = "none" \/ call = "list" \/ (call = "copy" /\ cur # NULL)
  /\ call' = "aborted"
  /\ UNCHANGED <<lists, locals>>

-----------------------------------------------------------------------------
(* list_append, list_list and list_copy have a pointer p to the pointer    *)
(* they look at or write next: the variable top, or the rest of last.      *)

Pointee(top) == IF last = NULL THEN top ELSE Rest(heap, last)

(* *p = q: what the heap and what the variable is then.                    *)
HeapStored(q) == IF last = NULL THEN heap ELSE SetRest(heap, last, q)
TopStored(top, q) == IF last = NULL THEN q ELSE top

(* list = list_append(list, other); the second name is given up.           *)
list_append ==
  /\ Called("append", NULL, NULL)
  /\ UNCHANGED <<lists, apply>>

AppendTurn ==
  /\ InCall("append") /\ Pointee(list) # NULL
  /\ last' = Pointee(list)
  /\ heap' = Touched(heap, Pointee(list))
  /\ UNCHANGED <<list, other, dead, call, cur, head, apply>>

AppendReturns ==
  /\ InCall("append") /\ Pointee(list) = NULL
  /\ heap' = HeapStored(other) /\ list' = TopStored(list, other) /\ other' = NULL
  /\ Returned
  /\ UNCHANGED dead

(* A turn of list_list and list_copy: a node for x, its rest not written.  *)
Grows(x) ==
  /\ \E n \in FreeNodes :
       heap' = With(HeapStored(n), n, x, Unset) /\ head' = TopStored(head, n) /\ last' = n
  /\ UNCHANGED <<list, other, dead, call, apply>>

GrowReturns ==
  /\ heap' = HeapStored(NULL) /\ other' = TopStored(head, NULL)
  /\ Returned
  /\ UNCHANGED <<list, dead>>

(* other = list_list(...), its arguments taken one by one.                 *)
list_list ==
  /\ other = NULL
  /\ Called("list", NULL, Unset)
  /\ UNCHANGED <<lists, apply>>

ListTurn(x) == InCall("list") /\ Grows(x) /\ UNCHANGED cur
ListReturns == InCall("list") /\ GrowReturns

(* other = list_copy(list).                                                *)
list_copy ==
  /\ other = NULL
  /\ Called("copy", list, Unset)
  /\ UNCHANGED <<lists, apply>>

CopyTurn ==
  /\ InCall("copy") /\ cur # NULL
  /\ cur' = Rest(heap, cur)
  /\ IF Live(heap, cur) THEN Grows(First(heap, cur))
     ELSE heap' = Fault /\ UNCHANGED <<list, other, dead, call, head, last, apply>>

CopyReturns == InCall("copy") /\ cur = NULL /\ GrowReturns

-----------------------------------------------------------------------------
(* list = list_reverse(list).                                              *)

list_reverse ==
  /\ Called("reverse", list, NULL)
  /\ UNCHANGED <<lists, apply>>

ReverseTurn ==
  /\ InCall("reverse") /\ cur # NULL
  /\ cur' = Rest(heap, cur)
  /\ heap' = SetRest(heap, cur, head)
  /\ head' = cur
  /\ UNCHANGED <<list, other, dead, call, last, apply>>

ReverseReturns ==
  /\ InCall("reverse") /\ cur = NULL
  /\ list' = head
  /\ Returned
  /\ UNCHANGED <<heap, other, dead>>

-----------------------------------------------------------------------------
(* list_free(&list), whose loop runs on the variable itself.               *)

list_free ==
  /\ Called("free", NULL, NULL)
  /\ UNCHANGED <<lists, apply>>

(* Fault: next is read from a node that was freed already.                 *)
FreeStepLate(q) == [heap |-> Fault, next |-> NULL]

(* next is read, then the node is freed.                                   *)
FreeStep(q) == [heap |-> Freed(heap, q), next |-> Rest(heap, q)]

FreeTurn ==
  /\ InCall("free") /\ list # NULL
  /\ heap' = FreeStep(list).heap /\ list' = FreeStep(list).next
  /\ UNCHANGED <<other, dead, call, locals>>

FreeReturns ==
  /\ InCall("free") /\ list = NULL
  /\ Returned
  /\ UNCHANGED lists

-----------------------------------------------------------------------------
(* list_map(list, apply, cl).                                              *)

list_map(f) ==
  /\ Called("map", list, NULL)
  /\ apply' = f
  /\ UNCHANGED lists

MapTurn ==
  /\ InCall("map") /\ cur # NULL
  /\ heap' = IF Live(heap, cur) THEN SetFirst(heap, cur, apply[First(heap, cur)])
                                ELSE Fault
  /\ cur' = Rest(heap, cur)
  /\ UNCHANGED <<list, other, dead, call, head, last, apply>>

MapReturns ==
  /\ InCall("map") /\ cur = NULL
  /\ Returned
  /\ UNCHANGED lists

-----------------------------------------------------------------------------
(* list = update_clients_list(list).  Its first loop frees dead clients at *)
(* the head, its second one those behind a node that stays.                *)

update_clients_list ==
  /\ Called("prune_head", list, NULL)
  /\ UNCHANGED <<lists, apply>>

PruneHeadTurn ==
  /\ InCall("prune_head") /\ cur # NULL
  /\ IF First(heap, cur) \in dead
     THEN heap' = Freed(heap, cur) /\ cur' = Rest(heap, cur) /\ UNCHANGED <<call, head>>
     ELSE heap' = Touched(heap, cur) /\ head' = cur /\ call' = "prune_rest" /\ UNCHANGED cur
  /\ UNCHANGED <<list, other, dead, last, apply>>

PruneHeadEnds ==
  /\ InCall("prune_head") /\ cur = NULL
  /\ call' = "prune_rest"
  /\ UNCHANGED <<lists, locals>>

(* Fault: the cursor moves on after a deletion as well.                    *)
CursorMoved(q, next) == next

(* Where the second loop stands after it deleted the node behind q.        *)
Cursor(q, next) == q

PruneRestTurn ==
  /\ InCall("prune_rest") /\ cur # NULL /\ Rest(heap, cur) # NULL
  /\ LET d == Rest(heap, cur)
     IN IF First(heap, d) \in dead
        THEN /\ heap' = Freed(SetRest(heap, cur, Rest(heap, d)), d)
             /\ cur' = Cursor(cur, Rest(heap, d))
        ELSE heap' = Touched(heap, d) /\ cur' = d
  /\ UNCHANGED <<list, other, dead, call, head, last, apply>>

(* The freed clients are objects no longer.                                *)
PruneReturns ==
  /\ InCall("prune_rest") /\ (cur = NULL \/ Rest(heap, cur) = NULL)
  /\ list' = head
  /\ dead' = {}
  /\ heap' = IF cur = NULL THEN heap ELSE Touched(heap, cur)
  /\ Returned
  /\ UNCHANGED other

-----------------------------------------------------------------------------
Aborted == call = "aborted" /\ UNCHANGED vars

Next ==
  \/ \E x \in Elem : list_push(x) \/ SocketFreed(x) \/ ListTurn(x)
  \/ \E f \in [Elem -> Elem] : list_map(f)
  \/ list_pop \/ list_append \/ AppendTurn \/ AppendReturns
  \/ list_list \/ ListReturns \/ list_copy \/ CopyTurn \/ CopyReturns
  \/ list_reverse \/ ReverseTurn \/ ReverseReturns
  \/ list_free \/ FreeTurn \/ FreeReturns \/ MapTurn \/ MapReturns
  \/ update_clients_list \/ PruneHeadTurn \/ PruneHeadEnds
  \/ PruneRestTurn \/ PruneReturns
  \/ MemFailed \/ Aborted

Spec == Init /\ [][Next]_vars

-----------------------------------------------------------------------------
(* The nodes that a list runs through, NULL behind the last one.           *)
Walk(h, q) ==
  LET w[k \in 0 .. Cardinality(DOMAIN h)] == IF k = 0 THEN q ELSE Rest(h, w[k - 1])
  IN w

Nodes(h, q) == {Walk(h, q)[k] : k \in 0 .. Cardinality(DOMAIN h)} \ {NULL}

Length(h, q) == Cardinality({k \in 0 .. Cardinality(DOMAIN h) : Walk(h, q)[k] # NULL})

Elems(h, q) == [i \in 1 .. Length(h, q) |-> First(h, Walk(h, q)[i - 1])]

(* No function reads, writes or frees a node that is not allocated,        *)
(* although addresses are used again.                                      *)
NoFault == heap # Fault

(* Between two calls every allocated node is on one of the two lists and   *)
(* on one only, and neither list runs into a circle: no call leaks a node, *)
(* and none leaves one shared.                                             *)
NodesOwnedOnce ==
  call = "none" /\ heap # Fault =>
    /\ Nodes(heap, list) \cup Nodes(heap, other) = DOMAIN heap
    /\ Nodes(heap, list) \cap Nodes(heap, other) = {}
    /\ \A q \in {list, other} : Walk(heap, q)[Cardinality(DOMAIN heap)] = NULL

(* The lists are the sequences of ListSpec.  What a call does to them is   *)
(* done when it begins, though the pointers follow turn by turn: list_map  *)
(* is going to change the elements from cur on, list_reverse to put those  *)
(* from cur on before those it has turned, update_clients_list to drop the *)
(* dead ones.  list_append, list_list and list_copy do it at their end.    *)
ListValue ==
  LET here == Elems(heap, list)
      ahead == Elems(heap, cur)
      done == Len(here) - Len(ahead)
  IN CASE call = "map" ->
            [i \in DOMAIN here |-> IF i <= done THEN here[i] ELSE apply[here[i]]]
       [] call = "reverse" -> Reverse(ahead) \o Elems(heap, head)
       [] call = "free" -> <<>>
       [] call = "prune_head" -> Without(ahead, dead)
       [] call = "prune_rest" -> Without(Elems(heap, head), dead)
       [] OTHER -> here

Pruning == call \in {"prune_head", "prune_rest"}

Lists == INSTANCE ListSpec WITH
  list <- ListValue, other <- Elems(heap, other), dead <- IF Pruning THEN {} ELSE dead
ImplementsListSpec == Lists!Spec
=============================================================================
