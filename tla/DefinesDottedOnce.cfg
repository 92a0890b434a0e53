SPECIFICATION Spec
CONSTANTS
  a = a
  b = b
  Keys <- MCKeys
  Paths <- MCPaths
  Values <- MCValues
  MaxDepth = 3
  MaxNodes = 4
  MaxLines = 4
CHECK_DEADLOCK FALSE
PROPERTIES
  DefinesDottedOnce
