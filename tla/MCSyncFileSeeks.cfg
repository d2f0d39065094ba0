SPECIFICATION Spec
CONSTANTS
  Files <- SeekFiles
  Reloads = {}
  Calls = {"advance_to", "seek_from_end", "validate"}
  SeekTargets = {1, 2, 3, 4, 5, 6, 7, 8, 9, 20}
  EndTargets = {16}
  Header <- MCHeader
  Garbled <- MCGarbled
  Word <- MCWord
  RecordQuotient <- MCRecordQuotient
  OffsetLimit <- MCOffsetLimit
INVARIANTS
  PositionNamesCurrent
  EventMatchesRecords
  AbsorbedEventsAreHidden
  AdvanceToReaches
  ThrowsMeanMalformed
PROPERTIES
  LastValidStaysBehind
  OnlySeeksOutsideStall
