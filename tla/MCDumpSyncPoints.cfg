SPECIFICATION UsersSpec
CONSTANTS
  Files <- PointFiles
  Reloads = {}
  DataFilesFor <- WholeAndCut
  Calls = {"advance_to"}
  SeekTargets = {0, 2, 3, 5, 6}
  EndTargets = {}
  Header <- MCHeader
  Garbled <- MCGarbled
  Word <- MCWord
  RecordQuotient <- MCRecordQuotient
  OffsetLimit <- MCOffsetLimit
INVARIANTS
  PointCarriesItsDumps
  NoForeignDumps
  EventCarriesItsDumps
  PrintsThePoints
PROPERTIES
  PointsEnd
CHECK_DEADLOCK FALSE
