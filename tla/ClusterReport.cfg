SPECIFICATION ReportSpec
CONSTANTS
  Cmd = {c1, c2, c3}
  MayHang = {c3}
  AttemptLimits = {1, 2}
  MaxReuse = 1
  Verbosities = {0, 2, 3}
INVARIANTS
  ReportTypeOK
  OutputIsTrue
  RetriedIsTrue
  AttemptsUsedUp
  NoGoroutineLeft
  ListIsComplete
  FailureSetsCode
PROPERTIES
  NoRunAfterSuccess
  CallReturns
  RefinesBatch
CHECK_DEADLOCK FALSE
