SPECIFICATION Spec
CONSTANTS
  Timers = {1, 2}
  Delays = {0, 1, 3}
  Dates = {1}
  TicksPerMs = 2
  IntMax = 7
  MaxAdd = 1
  MaxSetBacks = 1
  MaxClock = 5
INVARIANT TypeOK
PROPERTIES
  NeverEarly
  RunsInOrder
  TimersFire
CHECK_DEADLOCK FALSE
