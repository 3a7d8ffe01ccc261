CONSTANTS
  c1 = c1
  c2 = c2
  f1 = f1
  f2 = f2
  Conn = {c1, c2}
  NoConn = NoConn
  Fd = {f1, f2}
  NoFd = NoFd
  NoSeq = NoSeq
  Request = {"SETUP_TCP", "SETUP_UDP", "PLAY", "TEARDOWN"}
  MaxPending = 1
  SeqMod = 2
SPECIFICATION Spec
SYMMETRY ConnFdSymmetry
INVARIANTS TypeOK ListedSocketsLive NoSocketLost RecvNeverBlocks SelectedStayOpen Lockstep
PROPERTIES ResponseBeforeStream ImplementsBroadcast
