SPECIFICATION Spec
CONSTANTS
  a = a  b = b  c = c  p = p
  Label <- MCLabels
  Entries <- MCTwo
  Worlds <- MCOverloaded
  MaxRuns = 3
  MaxMissed = 0
CHECK_DEADLOCK FALSE
PROPERTIES
  UnreachedKeepsState
