SPECIFICATION Spec
CONSTANTS
  Callers = {c1, c2}
  Tasks = {t1, t2, t3}
  MaxQuits = 2
INVARIANTS
  TypeOK
  NoLostWakeup
  NoLostQuit
PROPERTIES
  ImplementsTaskQueue
  QuitTakesEffect
CHECK_DEADLOCK FALSE
