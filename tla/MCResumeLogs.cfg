SPECIFICATION Spec
CONSTANTS
  a = a  b = b  c = c  p = p
  Label <- MCLabels
  Entries <- MCTwo
  Worlds <- MCLogsDown
  MaxRuns = 2
  MaxMissed = 0
CHECK_DEADLOCK FALSE
INVARIANTS
  PermListRebuilt
