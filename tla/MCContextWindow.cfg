SPECIFICATION Spec
CONSTANTS
  CallId = {c1, c2, c3}
  NoCall = NoCall
  MaxTokens = 4
  ImageTokens = 2
  LineSizes = {1, 5}
  OutputSizes = {1, 5}
  MaxBatch = 2
  MaxCommands = 2
INVARIANTS ImageIsCurrent CurrentFrameShown BudgetKept NoOrphansUnlessParallel
SYMMETRY CallSymmetry
CHECK_DEADLOCK FALSE
