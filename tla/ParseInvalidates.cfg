SPECIFICATION Spec
CONSTANTS
  States = {s1, s2}
  Parsers = {p1, p2}
  Handles = {h1, h2}
  None = None
  Texts <- MCTexts
  Options <- MCOptions
  MaxCalls = 3
SYMMETRY Symmetry
PROPERTIES
  ParseInvalidates
