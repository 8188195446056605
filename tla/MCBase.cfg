SPECIFICATION BaseSpec
CONSTANTS
  Bytes = {CR, LF}
  CR = CR
  LF = LF
  Nul = Nul
  DefaultSize = 2
  DefaultPreSize = 1
  ExtraSize = 3
  MaxContent = 4
  Objects = {o1, o2, o3}
  Cells = {c1, c2, c3}
  Ips = {any, peer}
  Any = any
  Byte = 2
  Null = null
  Gone = gone
INVARIANTS
  TypeOK
  SizeBounded
PROPERTIES
  ImplementsByteQueue
  ImplementsValues
CHECK_DEADLOCK FALSE
