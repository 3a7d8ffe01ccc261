CONSTANTS
  c1 = c1
  f1 = f1
  Conn = {c1}
  NoConn = NoConn
  Fd = {f1}
  NoFd = NoFd
  NoSeq = NoSeq
  Request = {"OPTIONS", "SETUP_TCP", "SETUP_UDP", "SETUP_NONE", "PLAY", "TEARDOWN", "NO_CSEQ"}
  MaxPending = 2
  SeqMod = 2
SPECIFICATION FairSpec
PROPERTIES ClosedPeersReaped MutexReleased
