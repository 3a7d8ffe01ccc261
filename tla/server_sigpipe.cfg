CONSTANTS
  c1 = c1
  f1 = f1
  Conn = {c1}
  NoConn = NoConn
  Fd = {f1}
  NoFd = NoFd
  NoSeq = NoSeq
  Request = {"SETUP_TCP", "PLAY"}
  MaxPending = 1
  SeqMod = 2
SPECIFICATION Spec
INVARIANTS NoSigpipe
