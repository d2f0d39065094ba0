SPECIFICATION ToolsSpec
CONSTANTS
  Files <- MCAllFiles
  Numbers = {0, 1, 3}
INVARIANTS
  WrittenInOrder
  SortsStably
  DumpShowsTheSource
PROPERTIES
  ToolsEnd
CHECK_DEADLOCK FALSE
