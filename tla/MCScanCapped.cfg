SPECIFICATION FairSpec
CONSTANTS
  a = a  b = b  c = c  d = d  w1 = w1  w2 = w2  t = t  t2 = t2
  Label <- MCLabels
  Entries <- MCDotted
  Worker <- MCTwoWorkers
  Recursive = TRUE
  MaxDepth = 2
  MaxQueries = 3
  ResumeFrom = 2
  ResumeParents <- MCParents
  ExactScope <- MCScopeBA
  TreeScope <- MCNoScope
  Simulate = FALSE
  Forces = {TRUE}
  Targets = {t}
  RefusedTargets = {t2}
  NoAbort = FALSE
  MinJobs = 1
  FailPercent = 20
  RefuseCeiling = 5
  MaxTicks = 0
INVARIANTS
  CapAnnounced
PROPERTIES
  KeepsContract
  Terminates
