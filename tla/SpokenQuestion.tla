--------------------------- MODULE SpokenQuestion ----------------------------
(***************************************************************************)
(* A question of speak.ask, in time: the tool call over the MCP session    *)
(* (openai_agents_runtime.py), the elicitation by which diffbot-mcp asks   *)
(* (elicitation.py), and the wait for the operator (OperatorInput).  Each  *)
(* of the three has its own end: the session gives a request up after      *)
(* MCP_CLIENT_SESSION_TIMEOUT_SECONDS, the wait ends after the time that   *)
(* the elicitation names, and the turn may be cancelled.  A request that is*)
(* given up does not take its question back.  A session that breaks ends   *)
(* the request under way over it, and cancels the callbacks it has begun.  *)
(*                                                                         *)
(* One tick is 30 s.  The event loop takes no time: the clock stands still *)
(* as long as a coroutine can run or a timer is due.                       *)
(***************************************************************************)
EXTENDS OperatorInput

CONSTANTS
  CallTimeout,    \* MCP_CLIENT_SESSION_TIMEOUT_SECONDS, in ticks: 90 s are 3
  AnswerTimeout,  \* DEFAULT_ELICITATION_TIMEOUT_SECONDS, in ticks: 120 s are 4
  ModelTimeout    \* what the model may write as timeoutSeconds; 0 is no number

ASSUME TimesAssumption ==
  /\ CallTimeout \in Nat \ {0}
  /\ AnswerTimeout \in Nat \ {0}
  /\ ModelTimeout \subseteq Nat

VARIABLES
  call,     \* the tool call of each question
  age,      \* how long the request of the call has been under way
  limit,    \* timeoutSeconds: of the call, then of the wait
  waited,   \* how long the question has been waiting for the operator
  replied,  \* what elicitation_callback has answered diffbot-mcp
  lost,     \* the calls whose session has broken
  timely    \* history: the questions answered while their call waited

callVars == <<call, age, limit, waited, replied, lost, timely>>

vars == <<inputVars, callVars>>

SpokenTypeOK ==
  /\ TypeOK
  /\ call \in [Request -> {"none", "waiting", "answered", "failed", "timeout", "left", "broken"}]
  /\ age \in [Request -> 0..CallTimeout]
  /\ limit \in [Request -> ModelTimeout \cup {0, AnswerTimeout}]
  /\ waited \in [Request -> Nat] /\ \A r \in Request : waited[r] <= limit[r]
  /\ replied \in [Request -> {"none", "accept", "cancel", "error"}]
  /\ lost \subseteq Request
  /\ timely \subseteq Request

Init ==
  /\ InputInit
  /\ call = [r \in Request |-> "none"]
  /\ age = [r \in Request |-> 0]
  /\ limit = [r \in Request |-> 0]
  /\ waited = [r \in Request |-> 0]
  /\ replied = [r \in Request |-> "none"]
  /\ lost = {}
  /\ timely = {}

-----------------------------------------------------------------------------
(* The tool call. *)

\* Mutant: the arguments are sent as the model wrote them.
ArgumentsAsWritten(timeout) == timeout

\* _mcp_tool_arguments: speak.ask waits as long as the elicitation's default.
ToolArguments(timeout) == AnswerTimeout

\* _maybe_serialize_request: one request at a time is under way.
RequestLockFree == \A r \in Request : call[r] # "waiting"

\* call_tool sends the request.
CallSent(r) ==
  /\ call[r] = "none"
  /\ RequestLockFree
  /\ call' = [call EXCEPT ![r] = "waiting"]
  /\ \E timeout \in ModelTimeout : limit' = [limit EXCEPT ![r] = ToolArguments(timeout)]
  /\ UNCHANGED <<inputVars, age, waited, replied, lost, timely>>

CallEnds(r, how) ==
  /\ call[r] = "waiting"
  /\ call' = [call EXCEPT ![r] = how]
  /\ age' = [age EXCEPT ![r] = 0]
  /\ UNCHANGED <<inputVars, limit, waited, replied, lost, timely>>

\* diffbot-mcp answers the call: with the operator's words, or without them when
\* the elicitation brought none, when it lost its callback, or before it asked.
CallAnswered(r) ==
  /\ caller[r] # "waiting"
  /\ CallEnds(r, IF replied[r] = "accept" THEN "answered" ELSE "failed")

\* The session gives the request up: an error that is not fatal for the session,
\* which stays open with the question that is waiting.
CallTimesOut(r) ==
  /\ age[r] = CallTimeout
  /\ CallEnds(r, "timeout")

\* The turn is cancelled, and the call with it.
CallLeft(r) == CallEnds(r, "left")

\* A fatal error, of the request under way or of another tool's, or stop(): every
\* question so far is one of the broken session, and the call that waits ends.
\* call_tool reconnects and raises: speak.ask is not repeated.
SessionBreaks ==
  /\ \E r \in Request : call[r] # "none" /\ r \notin lost
  /\ lost' = {r \in Request : call[r] # "none"}
  /\ call' = [r \in Request |-> IF call[r] = "waiting" THEN "broken" ELSE call[r]]
  /\ age' = [r \in Request |-> 0]
  /\ UNCHANGED <<inputVars, limit, waited, replied, timely>>

-----------------------------------------------------------------------------
(* elicitation_callback. *)

\* diffbot-mcp asks as long as its tool runs, which the end of the request in the
\* agent need not stop, and as long as it has a session to ask over.
MayAsk(r) ==
  /\ call[r] \in {"waiting", "timeout", "left"}
  /\ r \notin lost
  /\ caller[r] = "idle"
  /\ replied[r] = "none"

Replies(r, action) == replied' = [replied EXCEPT ![r] = action]

\* Not a form, or not a form with one answer: ErrorData.
FormRefused(r) ==
  /\ MayAsk(r)
  /\ Replies(r, "error")
  /\ UNCHANGED <<inputVars, call, age, limit, waited, lost, timely>>

\* _timeout_seconds: anything but a positive number stands for the default.
TimeoutSeconds(meta) == IF meta > 0 THEN meta ELSE AnswerTimeout

\* The coordinator takes the question; diffbot-mcp passes the timeout of its call
\* on, or none.
Asks(r) ==
  /\ MayAsk(r)
  /\ RequestOpened(r)
  /\ \E meta \in {limit[r], 0} : limit' = [limit EXCEPT ![r] = TimeoutSeconds(meta)]
  /\ UNCHANGED <<call, age, waited, replied, lost, timely>>

\* The input is closed: no answer, which cancels the elicitation.
AsksTooLate(r) ==
  /\ MayAsk(r)
  /\ RequestRefused(r)
  /\ Replies(r, "cancel")
  /\ UNCHANGED <<call, age, limit, waited, lost, timely>>

\* Another question is pending: RuntimeError, which the session makes an error.
AsksBeside(r) ==
  /\ MayAsk(r)
  /\ RequestRejected(r)
  /\ Replies(r, "error")
  /\ UNCHANGED <<call, age, limit, waited, lost, timely>>

\* Mutant: an answer is not passed on when the input has been closed behind it.
AcceptedUnlessClosed(r) ==
  IF Delivers(r) /\ ~closed /\ answer[r] # NoText THEN "accept" ELSE "cancel"

\* The operator's answer is accepted; None, for whatever reason, is a cancellation.
ActionFor(r) == IF Delivers(r) /\ answer[r] # NoText THEN "accept" ELSE "cancel"

\* A callback that was cancelled replies nothing.
CallbackEnds(r) ==
  /\ Resume(r)
  /\ replied' = IF Delivers(r) \/ "cancel" \notin signals[r]
                THEN [replied EXCEPT ![r] = ActionFor(r)]
                ELSE replied
  /\ waited' = [waited EXCEPT ![r] = 0]
  /\ UNCHANGED <<call, age, limit, lost, timely>>

TimerFires(r) ==
  /\ waited[r] = limit[r]
  /\ FireTimer(r)
  /\ UNCHANGED callVars

\* cleanup() of the broken session cancels the callbacks it still has.
CallbackCancelled(r) ==
  /\ r \in lost
  /\ CancelRequest(r)
  /\ UNCHANGED callVars

FutureCancelled(r) == CancelFuture(r) /\ UNCHANGED callVars

-----------------------------------------------------------------------------
(* The operator, the loop and the clock. *)

Answers(t) ==
  /\ SubmitAnswer(t)
  /\ timely' = IF call[pendingAnswer] = "waiting" /\ age[pendingAnswer] < CallTimeout
               THEN timely \cup {pendingAnswer}
               ELSE timely
  /\ UNCHANGED <<call, age, limit, waited, replied, lost>>

InputGoesOn ==
  /\ (\E t \in Text : EnqueueCommand(t)) \/ NextCommand \/ Close
  /\ UNCHANGED callVars

\* A callback can run, or a timer is due.
Busy(r) ==
  \/ caller[r] = "waiting" /\ (future[r] \in Done \/ signals[r] # {} \/ waited[r] = limit[r])
  \/ call[r] = "waiting" /\ (age[r] = CallTimeout \/ replied[r] # "none")

Tick ==
  /\ \A r \in Request : ~Busy(r)
  /\ \E r \in Request : call[r] = "waiting" \/ caller[r] = "waiting"
  /\ age' = [r \in Request |-> IF call[r] = "waiting" THEN age[r] + 1 ELSE age[r]]
  /\ waited' = [r \in Request |-> IF caller[r] = "waiting" THEN waited[r] + 1 ELSE waited[r]]
  /\ UNCHANGED <<inputVars, call, limit, replied, lost, timely>>

-----------------------------------------------------------------------------
QuestionStep(r) ==
  \/ CallSent(r) \/ CallAnswered(r) \/ CallTimesOut(r) \/ CallLeft(r)
  \/ FormRefused(r) \/ Asks(r) \/ AsksTooLate(r) \/ AsksBeside(r)
  \/ CallbackEnds(r) \/ TimerFires(r) \/ CallbackCancelled(r) \/ FutureCancelled(r)

Next ==
  \/ \E r \in Request : QuestionStep(r)
  \/ \E t \in Text : Answers(t)
  \/ InputGoesOn
  \/ SessionBreaks
  \/ Tick

\* Time passes, the event loop fires what is due and runs the callbacks that can,
\* and diffbot-mcp answers a call whose elicitation it has the reply of.
Fairness ==
  /\ WF_vars(Tick)
  /\ \A r \in Request :
       /\ WF_vars(TimerFires(r))
       /\ WF_vars(FutureCancelled(r))
       /\ WF_vars(CallbackEnds(r))
       /\ WF_vars(CallTimesOut(r))
       /\ WF_vars(replied[r] # "none" /\ CallAnswered(r))

SafetySpec == Init /\ [][Next]_vars

Spec == SafetySpec /\ Fairness

-----------------------------------------------------------------------------
(* Properties. *)

\* An answer that the operator gives while the call waits and has not used up its
\* 90 s is what the call returns, unless the turn is given up or the session breaks
\* meanwhile: no timer, no close and no later question comes between.  (After a
\* broken session call_tool does not repeat speak.ask, and the answer is lost.)
TimelyAnswerArrives ==
  \A r \in timely : call[r] \in {"waiting", "answered", "left", "broken"}

\* The operator has as long as the call: its question never times out by itself
\* under a call that waits, whatever timeout the model wrote.
QuestionOutlastsCall ==
  \A r \in Request : call[r] = "waiting" => "timeout" \notin signals[r]
=============================================================================
