SPECIFICATION RouterSpec
CONSTANTS
  MaxPath = 4
  Patterns <- MCPatterns
  Paths <- MCPaths
  Methods = {"GET", "PUT"}
  MaxRoutes = 2
INVARIANTS
  HandlerIsRight
  FatalIffMisused
CHECK_DEADLOCK FALSE
