SPECIFICATION Spec
CONSTANTS
  a = a  b = b  c = c  p = p
  Label <- MCLabels
  Entries <- MCTwo
  Worlds <- MCSpent
  MaxRuns = 3
  MaxMissed = 1
CHECK_DEADLOCK FALSE
INVARIANTS
  SavedSurvives
