CONSTANTS
  Text = {t1, reset}
  ResetText = {reset}
  Request = {r1}
  CLOSED = CLOSED
  NoText = NoText
  NoRequest = NoRequest
  MaxQueued = 2
  EagerCancel = TRUE
SPECIFICATION SafetySpec
CHECK_DEADLOCK FALSE
INVARIANT ResetWhileBusyIgnored
