SPECIFICATION Spec
CONSTANTS
  a = a  b = b  c = c  p = p
  Label <- MCLabels
  Entries <- MCDotted
  Worlds <- MCDottedParent
  MaxRuns = 2
  MaxMissed = 0
CHECK_DEADLOCK FALSE
INVARIANTS
  RestoredRescanned
