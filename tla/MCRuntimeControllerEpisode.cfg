SPECIFICATION SafetySpec
CONSTANTS
  a1 = a1
  m1 = m1
  Call = {a1, m1}
  A2ACall = {a1}
  Free = Free
INVARIANTS EpisodeAfterEachCommand
CHECK_DEADLOCK FALSE
