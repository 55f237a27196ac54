SPECIFICATION Spec
CONSTANTS
  e1 = e1
  e2 = e2
  e3 = e3
  bad = bad
  Event = {e1, e2, e3, bad}
  BadEvent = {bad}
  MaxStreams = 2
INVARIANTS YieldedInOrder
PROPERTIES LostStreamIsReopened
CHECK_DEADLOCK FALSE
