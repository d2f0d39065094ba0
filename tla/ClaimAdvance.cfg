SPECIFICATION Spec
CONSTANTS
  Files <- QuietFiles
  Reloads = {}
  Calls = {}
  SeekTargets = {}
  EndTargets = {}
  Header <- MCHeader
  Garbled <- MCGarbled
  Word <- MCWord
  RecordQuotient <- MCRecordQuotient
  OffsetLimit <- MCOffsetLimit
INVARIANT
  EventsOnlyAdvance
