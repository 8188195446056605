SPECIFICATION PoolSpec
CONSTANT LoopNum = 3
INVARIANT StartedLoopIsThere
PROPERTIES
  StartReturns
  QuitInTimeJoins
CHECK_DEADLOCK FALSE
