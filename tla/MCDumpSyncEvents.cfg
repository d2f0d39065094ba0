SPECIFICATION DumpSpec
CONSTANTS
  Files <- DumpFiles
  Reloads = {}
  Calls = {}
  SeekTargets = {}
  EndTargets = {}
  Header <- MCHeader
  Garbled <- MCGarbled
  Word <- MCWord
  RecordQuotient <- MCRecordQuotient
  OffsetLimit <- MCOffsetLimit
PROPERTIES
  PrintsTheEvents
  DumpEnds
CHECK_DEADLOCK FALSE
