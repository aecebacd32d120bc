SPECIFICATION Spec
CONSTANTS
  a = a  b = b  c = c  d = d  w1 = w1  w2 = w2  t = t  t2 = t2
  Label <- MCLabels
  Entries <- MCFlat
  Worker <- MCTwoWorkers
  Recursive = FALSE
  MaxDepth = 1
  MaxQueries = 0
  ResumeFrom = 0
  ResumeParents <- MCNone
  ExactScope <- MCScopeB
  TreeScope <- MCNoScope
  Simulate = FALSE
  Forces = {TRUE, FALSE}
  Targets = {t}
  RefusedTargets = {}
  NoAbort = FALSE
  MinJobs = 1
  FailPercent = 20
  RefuseCeiling = 100
  MaxTicks = 1
SYMMETRY Symmetric
INVARIANTS
  NobodyOutlivesRun
  PendingExact
  WatermarkSound
  CountsAgree
PROPERTIES
  FinalEvent
CHECK_DEADLOCK TRUE
