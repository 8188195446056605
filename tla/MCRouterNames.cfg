SPECIFICATION RouterSpec
CONSTANTS
  MaxPath = 4
  Patterns <- MCPatterns
  Paths <- MCPaths
  Methods = {"GET"}
  MaxRoutes = 1
INVARIANT CapturesAsDocumented
CHECK_DEADLOCK FALSE
