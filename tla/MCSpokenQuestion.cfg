\* wait_for as in Python 3.11
SPECIFICATION Spec
CONSTANTS
  Text = {t1, t2}
  Request = {r1, r2}
  CLOSED = CLOSED
  NoText = NoText
  NoRequest = NoRequest
  MaxQueued = 1
  EagerCancel = FALSE
  CallTimeout = 3
  AnswerTimeout = 4
  ModelTimeout = {0, 1}
INVARIANTS PendingIsTracked ClosedReleasesAll SentinelLast AnswersDelivered TimelyAnswerArrives QuestionOutlastsCall
PROPERTIES FuturesResolveOnce EveryQuestionEnds
CHECK_DEADLOCK FALSE
