SPECIFICATION Spec
CONSTANTS
  a = a
  b = b
  c = c
  Keys <- MCKeys
  KeySize <- MCKeySize
  StringSizes = {2}
  ArraySizes = {0, 2}
  ObjectSizes = {0, 1, 2, 3, 4}
  Options <- MCOptions
  InlineCapacity = 2
  ParserDepths = {1, 4}
  MaxValues = 5
SYMMETRY Symmetry
CHECK_DEADLOCK FALSE
INVARIANT
  DepthLeftToSimdjson
