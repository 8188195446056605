SPECIFICATION Spec
CONSTANTS
  Writers = {w1}
  Msgs = {m1, m2, m3}
INVARIANTS
  TypeOK
  StreamIntegrity
  PendingIffWriting
  FaultCauses
CHECK_DEADLOCK FALSE
PROPERTIES
  FlushEventually
  ShutdownCompletes
  PeerCloseIsHandled
