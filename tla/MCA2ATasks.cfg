SPECIFICATION TaskSpec
CONSTANTS
  a1 = a1
  m1 = m1
  Call = {a1, m1}
  A2ACall = {a1}
  Free = Free
INVARIANTS OneCallInRuntime EarlyEpisodesNotCut UndisturbedTurnsRecorded ToldTheOutcome EndedTaskIsOutOfRuntime
PROPERTIES ServesCommands EveryTaskEnds ShutdownEnds
CHECK_DEADLOCK FALSE
