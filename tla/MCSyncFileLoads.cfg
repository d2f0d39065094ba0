SPECIFICATION DataSpec
CONSTANTS
  Files <- LoadFiles
  DataFilesFor <- NoneOrWhole
  Reloads <- LoadReloads
  Calls = {"advance_to", "seek_from_end", "validate"}
  SeekTargets = {0, 1, 3, 5}
  EndTargets = {0, 2, 10}
  Header <- MCHeader
  Garbled <- MCGarbled
  Word <- MCLoadWord
  RecordQuotient <- MCLoadRecordQuotient
  OffsetLimit <- MCLoadOffsetLimit
INVARIANTS
  TypeOK
  PositionNamesCurrent
  PointCarriesItsDumps
PROPERTIES
  ClosedReaderGivesNothing
  OnlySeeksOutsideStall
