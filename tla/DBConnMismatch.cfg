SPECIFICATION Spec
CONSTANTS
  MaxConns = 2
  MaxSessions = 4
  MaxBreaks = 1
  MaxCancels = 1
PROPERTY
  MismatchIsReported
