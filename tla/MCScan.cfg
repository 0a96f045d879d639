\* A destination is used MaxCalls times and then no more.
SPECIFICATION Spec
CHECK_DEADLOCK FALSE
CONSTANTS
  Null = Null
  Zero = Zero
  Fields <- MCFields
  LowerCase <- MCLowerCase
  Calls <- MCCalls
  MaxCalls = 2
  Again <- MCAgain
INVARIANTS
  TypeOK
  ErrorsSurface
  RowsArrive
  ArrayArrives
  VersionIsDatabases
