SPECIFICATION FairSpec
CONSTANTS
  MaxConns = 2
  MaxSessions = 3
  MaxBreaks = 1
  MaxCancels = 1
INVARIANTS
  TypeOK
  PoolConsistent
  TxSlotMatchesSession
  NoOrphanTransaction
  NoLeakedSession
  OneGoroutinePerSession
  OnlyOwnRowsBlock
PROPERTIES
  SessionKept
  CallsReturn
