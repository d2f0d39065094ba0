SPECIFICATION CarefulSpec
CONSTANTS
  r1 = r1
  r2 = r2
  Nothing = Nothing
  Files <- MCFiles
  Broken <- RefusedFiles
  Readers <- MCReaders
  MaxPosition = 4
  MaxSaved = 2
INVARIANTS TypeOK StandsAtARecord
PROPERTIES RestoreRepeats EndIsFinal ImplementsCursor
SYMMETRY Symmetry
