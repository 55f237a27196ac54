---------------------------- MODULE OperatorInput ----------------------------
(***************************************************************************)
(* OperatorInputCoordinator (src/diffbot_agent/operator_input.py): the one *)
(* meeting point of the operator's lines, the command loop, and the MCP    *)
(* elicitation callbacks that need an answer from the operator.            *)
(*                                                                         *)
(* Everything runs on one asyncio loop, and the coordinator's lock is never*)
(* held across an await, so each critical section is one step.  What does  *)
(* interleave is request_answer: it registers a future, suspends in        *)
(* asyncio.wait_for, and comes back in a later step, after other lines,    *)
(* other requests, the timer, a cancellation or close() have run.          *)
(*                                                                         *)
(* A blank line changes no state in submit_answer or in enqueue_command:   *)
(* Text stands for the stripped, non-blank lines.                          *)
(***************************************************************************)
EXTENDS Naturals, Sequences

CONSTANTS
  Text,         \* what the operator may type or say
  Request,      \* the calls of request_answer
  CLOSED,       \* the _CLOSED sentinel of the command queue
  NoText,       \* None as an answer
  NoRequest,    \* None as the pending future
  MaxQueued,    \* bound of the model on the unbounded asyncio.Queue
  EagerCancel   \* TRUE: asyncio of Python 3.12 and later; FALSE: 3.11

ASSUME ConstantsAssumption ==
  /\ CLOSED \notin Text
  /\ NoText \notin Text
  /\ NoRequest \notin Request
  /\ MaxQueued \in Nat
  /\ EagerCancel \in BOOLEAN

VARIABLES
  commands,       \* _commands
  pendingAnswer,  \* _pending_answer, named by the request that owns it
  closed,         \* _closed
  future,         \* the state of each request's future
  answer,         \* the operator's line that resolved it
  caller,         \* where the coroutine of each request is
  signals,        \* what wait_for has been told: "timeout", "cancel"
  result,         \* what request_answer returned
  ended           \* next_command has returned None

inputVars == <<commands, pendingAnswer, closed, future, answer,
               caller, signals, result, ended>>

questionVars == <<future, answer, caller, signals, result, pendingAnswer>>

Done == {"answered", "released", "cancelled"}   \* Future.done()

TypeOK ==
  /\ commands \in Seq(Text \cup {CLOSED})
  /\ pendingAnswer \in Request \cup {NoRequest}
  /\ closed \in BOOLEAN
  /\ future \in [Request -> {"absent", "pending"} \cup Done]
  /\ answer \in [Request -> Text \cup {NoText}]
  /\ caller \in [Request -> {"idle", "waiting", "returned", "raised", "cancelled"}]
  /\ signals \in [Request -> SUBSET {"timeout", "cancel"}]
  /\ result \in [Request -> Text \cup {NoText}]
  /\ ended \in BOOLEAN

InputInit ==
  /\ commands = <<>>
  /\ pendingAnswer = NoRequest
  /\ closed = FALSE
  /\ future = [r \in Request |-> "absent"]
  /\ answer = [r \in Request |-> NoText]
  /\ caller = [r \in Request |-> "idle"]
  /\ signals = [r \in Request |-> {}]
  /\ result = [r \in Request |-> NoText]
  /\ ended = FALSE

-----------------------------------------------------------------------------
(* The operator's side. *)

\* Mutant: the `not self._pending_answer.done()` half of the test is missing.
RegisteredOnly == pendingAnswer # NoRequest

\* A future is registered and nothing has resolved it.
AnswerAwaited == pendingAnswer # NoRequest /\ future[pendingAnswer] = "pending"

\* submit_answer, route ELICITATION: the line resolves the open question.
SubmitAnswer(t) ==
  /\ ~closed
  /\ AnswerAwaited
  /\ future' = [future EXCEPT ![pendingAnswer] = "answered"]
  /\ answer' = [answer EXCEPT ![pendingAnswer] = t]
  /\ UNCHANGED <<commands, pendingAnswer, closed, caller, signals, result, ended>>

\* Mutant: enqueue_command does not look at _closed.
AlwaysOpen == TRUE

AcceptsCommands == ~closed

\* Mutant: the queue is a LifoQueue.
PutFirst(t) == <<t>> \o commands

Put(t) == Append(commands, t)

\* enqueue_command.  Queue.put never suspends on a queue without a maxsize.
EnqueueCommand(t) ==
  /\ AcceptsCommands
  /\ Len(commands) < MaxQueued
  /\ commands' = Put(t)
  /\ UNCHANGED <<questionVars, closed, ended>>

-----------------------------------------------------------------------------
(* The side of the elicitation callbacks. *)

\* request_answer after close(): None at once.
RequestRefused(r) ==
  /\ caller[r] = "idle"
  /\ closed
  /\ caller' = [caller EXCEPT ![r] = "returned"]
  /\ UNCHANGED <<commands, pendingAnswer, closed, future, answer, signals, result, ended>>

\* request_answer while another question is open: RuntimeError.
RequestRejected(r) ==
  /\ caller[r] = "idle"
  /\ ~closed
  /\ AnswerAwaited
  /\ caller' = [caller EXCEPT ![r] = "raised"]
  /\ UNCHANGED <<commands, pendingAnswer, closed, future, answer, signals, result, ended>>

\* request_answer registers its future and suspends in wait_for.
RequestOpened(r) ==
  /\ caller[r] = "idle"
  /\ ~closed
  /\ ~AnswerAwaited
  /\ future' = [future EXCEPT ![r] = "pending"]
  /\ pendingAnswer' = r
  /\ caller' = [caller EXCEPT ![r] = "waiting"]
  /\ UNCHANGED <<commands, closed, answer, signals, result, ended>>

RequestAnswer(r) == RequestRefused(r) \/ RequestRejected(r) \/ RequestOpened(r)

\* The timer of wait_for, or the cancellation of the calling task, reaches a
\* suspended caller.  From 3.12 on wait_for awaits the future in the task, so
\* the future is cancelled there and then; in 3.11 only the caller is woken.
Signal(r, s) ==
  /\ caller[r] = "waiting"
  /\ s \notin signals[r]
  /\ signals' = [signals EXCEPT ![r] = @ \cup {s}]
  /\ future' = IF EagerCancel /\ future[r] = "pending"
               THEN [future EXCEPT ![r] = "cancelled"]
               ELSE future
  /\ UNCHANGED <<commands, pendingAnswer, closed, answer, caller, result, ended>>

\* Mutant: the future is awaited without wait_for, so there is no timer.
NoTimer(r) == FALSE /\ Signal(r, "timeout")

FireTimer(r) == Signal(r, "timeout")
CancelRequest(r) == Signal(r, "cancel")

\* 3.11: the woken caller finds no result and cancels the future; it resumes
\* only in a later step (_cancel_and_wait).
CancelFuture(r) ==
  /\ ~EagerCancel
  /\ caller[r] = "waiting"
  /\ signals[r] # {}
  /\ future[r] = "pending"
  /\ future' = [future EXCEPT ![r] = "cancelled"]
  /\ UNCHANGED <<commands, pendingAnswer, closed, answer, caller, signals, result, ended>>

\* Mutant: 3.11 would drop a result that is there when the signal is handled.
DeliversUnlessSignalled(r) == future[r] \in {"answered", "released"} /\ signals[r] = {}

\* Does wait_for return the future's result?  3.11 does whenever there is one;
\* from 3.12 on a signal that arrived before the caller ran wins over it.
Delivers(r) ==
  /\ future[r] \in {"answered", "released"}
  /\ signals[r] = {} \/ ~EagerCancel

\* Mutant: the finally clause clears _pending_answer without `is pending`.
ClearedByAnyone(r) == NoRequest

\* The finally clause: only the request that is still registered clears it.
ClearedBy(r) == IF pendingAnswer = r THEN NoRequest ELSE pendingAnswer

\* request_answer after wait_for: the answer (None when released by close), None
\* on a timeout, CancelledError on a cancellation, even one after a timeout.
Resume(r) ==
  /\ caller[r] = "waiting"
  /\ future[r] \in Done
  /\ caller' = [caller EXCEPT ![r] =
                  IF ~Delivers(r) /\ "cancel" \in signals[r] THEN "cancelled" ELSE "returned"]
  /\ result' = IF Delivers(r) THEN [result EXCEPT ![r] = answer[r]] ELSE result
  /\ pendingAnswer' = ClearedBy(r)
  /\ UNCHANGED <<commands, closed, future, answer, signals, ended>>

-----------------------------------------------------------------------------
(* The side of the command loop, and the end of input. *)

\* next_command with an item in the queue; the sentinel is returned as None.
NextCommand ==
  /\ commands # <<>>
  /\ commands' = Tail(commands)
  /\ ended' = (Head(commands) = CLOSED)
  /\ UNCHANGED <<questionVars, closed>>

\* Mutant: close() leaves the open question alone.
FuturesUntouched == future

\* close() resolves the open question with None.
FuturesReleased ==
  IF AnswerAwaited THEN [future EXCEPT ![pendingAnswer] = "released"] ELSE future

AnswersReleased ==
  IF AnswerAwaited THEN [answer EXCEPT ![pendingAnswer] = NoText] ELSE answer

\* Mutant: close() does not wake the command loop.
NoSentinel == commands

WithSentinel == Append(commands, CLOSED)

\* close(); a second call returns at once.
Close ==
  /\ ~closed
  /\ closed' = TRUE
  /\ future' = FuturesReleased
  /\ answer' = AnswersReleased
  /\ commands' = WithSentinel
  /\ UNCHANGED <<pendingAnswer, caller, signals, result, ended>>

-----------------------------------------------------------------------------
InputNext ==
  \/ \E t \in Text : SubmitAnswer(t) \/ EnqueueCommand(t)
  \/ \E r \in Request :
       RequestAnswer(r) \/ FireTimer(r) \/ CancelRequest(r) \/ CancelFuture(r) \/ Resume(r)
  \/ NextCommand
  \/ Close

InputSafetySpec == InputInit /\ [][InputNext]_inputVars

-----------------------------------------------------------------------------
(* What the coordinator guarantees, whoever calls it and in whatever order. *)

\* A future that nothing has resolved is the registered one: a question is
\* never lost from _pending_answer while its caller still waits for it, even
\* when an earlier request runs its finally clause after a newer one registered.
PendingIsTracked ==
  \A r \in Request : future[r] = "pending" => pendingAnswer = r

\* Once the input is closed no question is open: close() released it, and
\* request_answer opens no other.
ClosedReleasesAll ==
  closed => \A r \in Request : future[r] # "pending"

\* The sentinel is put once, by close(), and nothing is queued behind it: the
\* command loop sees every accepted command before None, and None once.
SentinelLast ==
  /\ \A i \in 1..Len(commands) : commands[i] = CLOSED => i = Len(commands)
  /\ closed <=> (ended \/ \E i \in 1..Len(commands) : commands[i] = CLOSED)
  /\ ended => commands = <<>>

\* set_result is called on an unresolved future only: no answer is replaced by
\* a later line, by close() or by the timer.
FuturesResolveOnce ==
  [][\A r \in Request : future[r] \in Done =>
        future'[r] = future[r] /\ answer'[r] = answer[r]]_inputVars

\* A line that was routed as an answer reaches the callback that asked, also
\* when the timer or a cancellation raced it (true of 3.11's wait_for only).
AnswersDelivered ==
  \A r \in Request :
    future[r] = "answered" /\ caller[r] # "waiting" => result[r] = answer[r]

\* Every question ends: the elicitation callback is never left suspended.
EveryQuestionEnds ==
  \A r \in Request : caller[r] = "waiting" ~> caller[r] # "waiting"
=============================================================================
