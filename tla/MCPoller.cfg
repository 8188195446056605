SPECIFICATION Spec
CONSTANTS
  TcpChannels = {t1, t2}
  UdpChannels = {u1}
  Fds = {f1, f2}
  None = none
  InitEvents = 1
INVARIANTS
  AskedIsWatched
  NoAssertFails
PROPERTY ReadyIsHandled
CHECK_DEADLOCK FALSE
