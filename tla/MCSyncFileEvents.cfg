SPECIFICATION Spec
CONSTANTS
  Files <- EventFiles
  Reloads = {}
  Calls = {}
  SeekTargets = {}
  EndTargets = {}
  Header <- MCHeader
  Garbled <- MCGarbled
  Word <- MCWord
  RecordQuotient <- MCRecordQuotient
  OffsetLimit <- MCOffsetLimit
INVARIANTS
  EventMatchesRecords
  ThrowsMeanMalformed
  EventsAreWellFormed
  ThrowMakesProgress
