SPECIFICATION Spec
CONSTANTS
  MaxConns = 2
  Fds = {5, 6}
  ThreadCounts = {0, 1, 2}
  Shared = {1}
INVARIANTS
  TypeOK
  UsedIsAlive
  OnlyLateSendsAreFatal
PROPERTIES
  ImplementsConnLifecycle
  ClosedPeerIsCollected
CHECK_DEADLOCK FALSE
