SPECIFICATION PoolSpec
CONSTANT LoopNum = 1
INVARIANT QuitUsesLiveLoop
CHECK_DEADLOCK FALSE
