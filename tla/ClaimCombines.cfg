SPECIFICATION DataSpec
CONSTANTS
  Files <- AbsorbFiles
  Reloads = {}
  DataFilesFor <- WholeOnly
  Calls = {}
  SeekTargets = {}
  EndTargets = {}
  Header <- MCHeader
  Garbled <- MCGarbled
  Word <- MCWord
  RecordQuotient <- MCRecordQuotient
  OffsetLimit <- MCOffsetLimit
INVARIANTS
  CombinedEventsKeepDumps
