SPECIFICATION OutcomeSpec
CONSTANTS
  r1 = r1  r2 = r2  r3 = r3  own = own  w1 = w1  w2 = w2
  depth = depth  v = v  c1 = c1  c2 = c2
  Zones <- MCZones
  Own <- MCOwn
  Checker <- MCCheckers
  Window = 4
  fingerprintProbes = 3
  parentProbes = 2
  fingerprintMaxProbes = 10
  StaleMin = 4
  StaleFactor = 1
  nearMissProbes = 2
  MaxResults = 2
  Targets = 2
  Setting <- MCSettings
  Unsaved <- MCUnsaved
  Value <- MCValues
  Default = 1
  Absent = Absent
  Bad = Bad
  Content <- MCContents
  Gone = Gone
  MaxStarts = 3
  a = a  b = b  c = c  p = p
  Label <- MCLabels
  Entries <- MCTwo
  Worlds <- MCWorlds
  MaxRuns = 3
  MaxMissed = 0
  MaxEdits = 2
  lx = lx  ly = ly  dom = dom  away = away
  Lines <- MCLines
  Origins <- MCOrigins
  Questions <- MCQuestions
  Second = 2
  MaxLines = 1
  MaxAsked = 1
  Horizon = 1
CHECK_DEADLOCK FALSE
INVARIANTS
  AbortSkipsRest
