SPECIFICATION Spec
CONSTANTS
  Files <- MCAllFiles
  Numbers = {0, 1, 2, 5}
INVARIANTS PrintsTheTrace
CHECK_DEADLOCK FALSE
