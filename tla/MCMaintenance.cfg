SPECIFICATION Spec
CONSTANTS
  Rotation = 2
  MonthLen = 2
  MonthsBack = 1
  MonthsAhead = 2
  SealAfter = 3
  PurgeGrace = 1
  Slack = 3
  BatchLimit = 4
  Versions = {10, 11}
  Bypass = TRUE
  CrashKinds = {"clean"}
  Cadence = 1
  Lag = 1
  MaxRecords = 2
  MaxSegments = 3
  MaxFaults = 1
  MaxClock = 8
INVARIANTS TopUpFits  SealCoversSegment CleanExitMeansDone
