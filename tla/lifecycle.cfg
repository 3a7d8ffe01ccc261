CONSTANTS
  c1 = c1
  c2 = c2
  Conn = {c1, c2}
  NULL = NULL
  Wild = Wild
SPECIFICATION Spec
INVARIANTS TypeOK SocketsHeld UndefinedOnlyAstray
PROPERTIES ShutdownCompletes ConnectionsAccepted
CHECK_DEADLOCK FALSE
