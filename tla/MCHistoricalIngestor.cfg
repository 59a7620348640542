SPECIFICATION Spec
CONSTANTS
  Sinces <- MCSinces
  Untils <- MCUntils
  Limit = 2
  MaxPages = 3
  MaxRetries = 2
  MaxTip = 6
  MaxIngests = 3
  NoTime = NoTime
CHECK_DEADLOCK FALSE
INVARIANTS
  TypeOK
  OnlyFailuresLeaveHoles
  CleanReportIsComplete
PROPERTIES
  CacheNeverShrinks
  IngestReturns
