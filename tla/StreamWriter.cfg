SPECIFICATION FairSpec
CONSTANTS
  Options <- MCOptions
  Texts <- MCTexts
  ScalarSizes = {1}
  Fragments <- MCFragments
  SpacesLength = 3
  MaxIndentWidth = 4
INVARIANTS
  TypeOK
  Synchronised
  WithinLimits
  VerdictsExact
PROPERTIES
  Implements
  CallReturns
