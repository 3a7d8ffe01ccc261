CONSTANTS
  n1 = n1
  n2 = n2
  n3 = n3
  n4 = n4
  n5 = n5
  x1 = x1
  x2 = x2
  Node = {n1, n2, n3, n4, n5}
  Elem = {x1, x2}
  NULL = NULL
  Unset = Unset
SPECIFICATION Spec
SYMMETRY NodeElemSymmetry
INVARIANTS TypeOK NoFault NodesOwnedOnce
PROPERTIES ImplementsListSpec
