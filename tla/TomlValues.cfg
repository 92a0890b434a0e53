SPECIFICATION Spec
CONSTANTS
  a = a
  b = b
  Keys <- MCKeys
  Paths <- MCPaths
  Sizes = {0, 2}
  MaxDepth = 3
  MaxNodes = 4
  MaxItems = 2
  MaxString = 1
CHECK_DEADLOCK FALSE
INVARIANTS
  TypeOK
  ConflictsExact
  NothingLost
  Sealed
  LimitsExact
  LineBreaks
