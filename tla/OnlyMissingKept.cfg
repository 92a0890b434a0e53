SPECIFICATION Spec
CONSTANTS
  Keys <- MCKeys
  Members <- MCMembers
  Rank <- MCRank
  Types <- MCTypes
  Switch = "order"
  Inputs <- MCInputs
  Initials <- MCInitials
CHECK_DEADLOCK FALSE
INVARIANT
  OnlyMissingKept
