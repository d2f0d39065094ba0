SPECIFICATION FairSpec
CONSTANTS
  Files <- StrayFiles
  Reloads = {}
  Calls = {}
  SeekTargets = {}
  EndTargets = {}
  Header <- MCHeader
  Garbled <- MCGarbled
  Word <- MCWord
  RecordQuotient <- MCRecordQuotient
  OffsetLimit <- MCOffsetLimit
PROPERTY
  CurrentEventReturns
