SPECIFICATION Spec
CONSTANTS
  CallId = {c1}
  NoCall = NoCall
  MaxTokens = 4
  ImageTokens = 2
  LineSizes = {1}
  OutputSizes = {1, 5}
  MaxBatch = 1
  MaxCommands = 1
INVARIANTS AtLeastOneKept
SYMMETRY CallSymmetry
CHECK_DEADLOCK FALSE
