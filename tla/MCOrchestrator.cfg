\* wait_for as in Python 3.12 and later
CONSTANTS
  Text = {t1, t2, reset}
  ResetText = {reset}
  Request = {r1, r2}
  CLOSED = CLOSED
  NoText = NoText
  NoRequest = NoRequest
  MaxQueued = 3
  EagerCancel = TRUE
SPECIFICATION Spec
CHECK_DEADLOCK FALSE
INVARIANTS EachLineUsedOnce BusyLinesNeverRun NothingOpenAtStop TurnFlag
PROPERTIES ServesInTurn InputEndEndsRun AcceptedIsBegun
