SPECIFICATION Spec
CONSTANTS
  Sizes = {1, 3}
  MaxBufLen = 2
  MaxSend = 2
  MaxIn = 2
  MaxOut = 3
INVARIANTS
  OnceInOrder
  WritingIffWaiting
PROPERTY BothWaysFlow
CHECK_DEADLOCK FALSE
