SPECIFICATION UsersSpec
CONSTANTS
  Files <- MCFiles
INVARIANTS
  TypeOK
  FailedLoadsLeaveNothing
  TableHoldsTheFile
PROPERTIES
  DumpEnds
CHECK_DEADLOCK FALSE
