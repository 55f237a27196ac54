SPECIFICATION Spec
CONSTANTS
  s1 = s1
  u1 = u1
  ToolCall = {s1, u1}
  SafeCall = {s1}
  MaxParallel = 2
INVARIANTS UnsafeSentOnce NothingLeaked
PROPERTIES EveryCallEnds
CHECK_DEADLOCK FALSE
