CONSTANTS
  p1 = p1
  p2 = p2
  h1 = h1
  h2 = h2
  t1 = t1
  r1 = r1
  r2 = r2
  None = None
  Paths = {p1, p2}
  priority <- MCPriority
  Hashes = {h1, h2}
  Tasks = {t1}
  MaxAttempts = 1
  SpoolCap = 2
  MaxRows = 3
  MaxFiles = 3
  MaxSequence = 10
  MaxDamage = 1
  MaxCrashes = 1
  File = {"a"}
  Dir = {"d"}
  DirOf <- MCDirOf
  WatchRoot = {r1, r2}
  MaxVersion = 2
  QueueMax = 1
  MaxPages = 1
  MaxJournal = 2
  MaxSensorCrash = 1
  MaxErrors = 1
  GapId = {1, 2, 3}
  GarbledGap = {1}
  RefusedGap = {3}
  BatchLimit = 2
  MaxFaults = 2
SPECIFICATION AgentSpec
INVARIANTS
  TypeOK
  CompleteHasEvidence
  GapHasRecord
  SpoolBacked
  BaselineCovers
  OverflowReported
  DowntimeReconciled
  NothingUnreported
PROPERTIES
  TerminalFinal
  CandidatesEnd
  ChangesCaptured
  GapsDelivered
CHECK_DEADLOCK FALSE
