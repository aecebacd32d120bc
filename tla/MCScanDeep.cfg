SPECIFICATION DeepSpec
CONSTANTS
  a = a  b = b  c = c  d = d  w1 = w1  w2 = w2  t = t  t2 = t2
  real = real  fake = fake
  Label <- MCLabels
  Entries <- MCTwo
  Worker <- MCTwoWorkers
  Recursive = TRUE
  MaxDepth = 2
  MaxQueries = 0
  ResumeFrom = 0
  ResumeParents <- MCNone
  ExactScope <- MCNoScope
  TreeScope <- MCTreeB
  Simulate = FALSE
  Forces = {TRUE, FALSE}
  Targets = {t, t2}
  RefusedTargets = {t2}
  NoAbort = FALSE
  MinJobs = 100
  FailPercent = 20
  RefuseCeiling = 5
  MaxTicks = 0
  Caller <- MCTwoWorkers
  PoolSize = 2
  Queried <- MCQueried
  Real <- MCReal
  Worlds <- MCWorlds
  Fails <- MCSecond
  TrustedFails = TRUE
  PoolAttempts = 2
  Lookups = 3
  MinLookups = 2
  FailPct = 50
  BenchFor = 1
  CanaryEvery = 2
  FlagAfter = 2
  MaxCanaries = 1
  MaxTime = 1
  Client <- MCTwoWorkers
  Interval = 1
  Horizon = 3
  Types <- MCTypes
  Attempts = 2
  MaxDials = 2
SYMMETRY Symmetric
INVARIANTS
  TypeOK
  NothingInjected
  HonestNeverFlagged
  NothingHidden
  PaceHeld
  ReplyEarned
PROPERTIES
  KeepsContract
