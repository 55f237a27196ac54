SPECIFICATION Spec
CONSTANTS
  CallId = {c1, c2}
  NoCall = NoCall
  MaxTokens = 4
  ImageTokens = 2
  LineSizes = {1}
  OutputSizes = {1}
  MaxBatch = 2
  MaxCommands = 1
INVARIANTS NoOrphans
SYMMETRY CallSymmetry
CHECK_DEADLOCK FALSE
