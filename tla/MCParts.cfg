SPECIFICATION PartsSpec
CONSTANTS
  kept = kept  fresh = fresh  beyond = beyond  other = other  gone = gone  outside = outside
  foreign = foreign  w1 = w1  w2 = w2  w3 = w3
  Worker <- MCWorkers
  Candidates <- MCCandidates
  Previous <- MCPrevious
  Existing <- MCExisting
  Resolving <- MCResolving
  InTargets <- MCInTargets
  Excluded <- MCExcluded
  Hits = 3
  LibBuffer = 2
  GuardKinds = {"none", "refuse", "abort", "warn"}
  MaxScans = 2
  MaxHits = 2
  TuiBuffer = 2
  Asker = {w1, w2, w3}
  Target = {kept, fresh}
  Query = {w1, w2, w3}
  dotIdleConns = 1
  MaxEmitted = 3
  Capacity = 2
  Datagram = {fresh}
  Conn = {w1, w2}
  Accepting = {tcp}
  tcp = tcp
  udpLoop = udpLoop
  MaxPerConn = 1
CHECK_DEADLOCK FALSE
INVARIANTS
  LookupShared
  AnswersMatch
  TargetWhole
  SuccessMeansWritten
  RemovedReportTrue
  NothingLostWhileLive
  OneListenerAtATime
  EndTellsTheScan
  NoHandlerAfterClose
PROPERTIES
  HintReturns
  ExitsAfterCancel
  ScanShownOver
  CloseReturns
