SPECIFICATION Spec
CONSTANTS
  Thread = {t1, t2}
  NoThread = NoThread
  Logger = {l1, l2}
  NilLogger = NilLogger
  Verbosities = {0}
  MaxMessages = 2
  MaxSettings = 2
INVARIANT
  FatalIsRemembered
CHECK_DEADLOCK FALSE
