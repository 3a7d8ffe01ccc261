CONSTANTS
  c1 = c1
  c2 = c2
  f1 = f1
  f2 = f2
  Conn = {c1, c2}
  NoConn = NoConn
  Fd = {f1, f2}
  NoFd = NoFd
  NoSeq = NoSeq
  Request = {"OPTIONS"}
  MaxPending = 1
  SeqMod = 1
SPECIFICATION FairSpec
PROPERTIES RequestsRead
