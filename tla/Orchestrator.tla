---------------------------- MODULE Orchestrator ----------------------------
(***************************************************************************)
(* Orchestrator (src/diffbot_agent/orchestrator.py): the command loop      *)
(* run(), its producer task _produce_inputs(), and the coordinator between *)
(* them, with the runtime's turns and the elicitation callbacks they cause.*)
(*                                                                         *)
(* The steps are the stretches between two suspensions of a coroutine.     *)
(*  - The producer handles a line in one step: nothing between             *)
(*    submit_answer and enqueue_command suspends.                          *)
(*  - The loop suspends in next_command when the queue is empty, in the    *)
(*    turn, in `await producer' and in runtime.stop().  The end of a turn  *)
(*    and the taking of the next queued item are one step.                 *)
(* Two branches of the code cannot be reached and are no actions here: the *)
(* producer never sees route CLOSED, because it alone closes the input, and*)
(* _accept_command is never entered with a turn running, because the loop  *)
(* awaits each turn (TurnFlag).                                            *)
(***************************************************************************)
EXTENDS OperatorInput, FiniteSets

CONSTANT ResetText   \* the lines that _is_reset_command recognises

ASSUME ResetAssumption == ResetText \subseteq Text

VARIABLES
  loop,         \* where run() is
  producer,     \* the task of _produce_inputs()
  turnRunning,  \* _turn_running
  begun,        \* history: the lines whose turn was started, in order
  heard,        \* history: was a line said, and was a turn running then?
  ignored,      \* history: the lines dropped by the busy policy
  interrupted   \* SIGINT has cancelled the main task

loopVars == <<loop, producer, turnRunning, begun, heard, ignored, interrupted>>

vars == <<inputVars, loopVars>>

OrchTypeOK ==
  /\ TypeOK
  /\ loop \in {"starting", "waiting", "turn", "draining", "stopping", "done"}
  /\ producer \in {"absent", "created", "running", "cancelled", "done"}
  /\ turnRunning \in BOOLEAN
  /\ begun \in Seq(Text)
  /\ heard \in [Text -> {"no", "idle", "busy"}]
  /\ ignored \subseteq Text
  /\ interrupted \in BOOLEAN

Init ==
  /\ InputInit
  /\ loop = "starting"
  /\ producer = "absent"
  /\ turnRunning = FALSE
  /\ begun = <<>>
  /\ heard = [t \in Text |-> "no"]
  /\ ignored = {}
  /\ interrupted = FALSE

-----------------------------------------------------------------------------
(* Starting. *)

\* runtime.start() returns; run() creates the producer and waits for a command.
StartRuntime ==
  /\ loop = "starting"
  /\ loop' = "waiting"
  /\ producer' = "created"
  /\ UNCHANGED <<inputVars, turnRunning, begun, heard, ignored, interrupted>>

\* runtime.start() raises: run() ends without a producer and without stop().
StartFails ==
  /\ loop = "starting"
  /\ loop' = "done"
  /\ UNCHANGED <<inputVars, producer, turnRunning, begun, heard, ignored, interrupted>>

-----------------------------------------------------------------------------
(* The producer. *)

ProducerBegins ==
  /\ producer = "created"
  /\ producer' = "running"
  /\ UNCHANGED <<inputVars, loop, turnRunning, begun, heard, ignored, interrupted>>

\* The operator says a line: each line of the model is said at most once.
Hear(t) ==
  /\ producer = "running"
  /\ heard[t] = "no"
  /\ heard' = [heard EXCEPT ![t] = IF turnRunning THEN "busy" ELSE "idle"]
  /\ UNCHANGED <<loop, producer, turnRunning, begun, interrupted>>

\* Mutant: the producer does not `continue' after route ELICITATION.
HearAnswerAndGoOn(t) ==
  /\ Hear(t)
  /\ AnswerAwaited
  /\ future' = [future EXCEPT ![pendingAnswer] = "answered"]
  /\ answer' = [answer EXCEPT ![pendingAnswer] = t]
  /\ commands' = Append(commands, t)
  /\ UNCHANGED <<pendingAnswer, closed, caller, signals, result, ended, ignored>>

\* Route ELICITATION: the line is the answer to the open question.
HearAnswer(t) ==
  /\ Hear(t)
  /\ SubmitAnswer(t)
  /\ UNCHANGED ignored

\* Mutant: the producer does not look at _turn_running.
NeverBusy == FALSE

\* _turn_running under busy_policy = "ignore", the only one config.py admits.
Busy == turnRunning

\* Route COMMAND while a turn runs: the busy policy drops the line.
HearIgnored(t) ==
  /\ Hear(t)
  /\ ~AnswerAwaited
  /\ Busy
  /\ ignored' = ignored \cup {t}
  /\ UNCHANGED inputVars

\* Route COMMAND while no turn runs.
HearCommand(t) ==
  /\ Hear(t)
  /\ ~AnswerAwaited
  /\ ~Busy
  /\ EnqueueCommand(t)
  /\ UNCHANGED ignored

\* End of input, /quit or an error of the line source: the finally clause.
InputEnds ==
  /\ producer = "running"
  /\ producer' = "done"
  /\ Close
  /\ UNCHANGED <<loop, turnRunning, begun, heard, ignored, interrupted>>

\* The cancellation raised in the producer reaches its finally clause.
ProducerCancelled ==
  /\ producer = "cancelled"
  /\ producer' = "done"
  /\ Close
  /\ UNCHANGED <<loop, turnRunning, begun, heard, ignored, interrupted>>

-----------------------------------------------------------------------------
(* The command loop. *)

\* Mutant: the loop stops as soon as the input is closed.
StopsWhenClosed == closed

\* next_command returns None.
EndSeen == Head(commands) = CLOSED

\* next_command returns a line and _accept_command starts its turn.
BeginTurn ==
  /\ commands # <<>>
  /\ ~EndSeen
  /\ NextCommand
  /\ loop' = "turn"
  /\ turnRunning' = TRUE
  /\ begun' = Append(begun, Head(commands))
  /\ UNCHANGED <<producer, heard, ignored, interrupted>>

\* producer.cancel(): a task that has not run yet never runs, not even its
\* finally clause; a finished one is left alone.
CancelProducer ==
  producer' = CASE producer = "created" -> "done"
                [] producer = "running" -> "cancelled"
                [] OTHER -> producer

\* next_command returns None: run() leaves the loop and cancels the producer.
LeaveLoop ==
  /\ commands # <<>>
  /\ EndSeen
  /\ NextCommand
  /\ loop' = "draining"
  /\ turnRunning' = FALSE
  /\ CancelProducer
  /\ UNCHANGED <<begun, heard, ignored, interrupted>>

TakeNext == loop = "waiting" /\ (BeginTurn \/ LeaveLoop)

\* run_turn or reset returns, or raises an exception that is logged, and the
\* queue holds the next item.
EndTurnTakeNext == loop = "turn" /\ (BeginTurn \/ LeaveLoop)

\* Mutant: _turn_running is reset on success only, not in a finally clause.
LeftRunning == turnRunning

AfterTurn == FALSE

\* The same with an empty queue: the loop suspends in next_command.
EndTurnWait ==
  /\ loop = "turn"
  /\ commands = <<>>
  /\ loop' = "waiting"
  /\ turnRunning' = AfterTurn
  /\ UNCHANGED <<inputVars, producer, begun, heard, ignored, interrupted>>

EndTurn == EndTurnTakeNext \/ EndTurnWait

\* SIGINT cancels the main task, once: asyncio.run handles the first only.  In
\* the loop it unwinds to the finally clauses; during runtime.start() and
\* runtime.stop() it ends run(); while run() awaits its producer,
\* suppress(CancelledError) swallows it.
Interrupt ==
  /\ ~interrupted
  /\ interrupted' = TRUE
  /\ \/ /\ loop \in {"waiting", "turn"}
        /\ loop' = "draining"
        /\ turnRunning' = FALSE
        /\ CancelProducer
     \/ /\ loop \in {"starting", "stopping"}
        /\ loop' = "done"
        /\ UNCHANGED <<turnRunning, producer>>
     \/ /\ loop = "draining"
        /\ UNCHANGED <<loop, turnRunning, producer>>
  /\ UNCHANGED <<inputVars, begun, heard, ignored>>

\* `await producer' returns; runtime.stop() is called.
StopRuntime ==
  /\ loop = "draining"
  /\ producer = "done"
  /\ loop' = "stopping"
  /\ UNCHANGED <<inputVars, producer, turnRunning, begun, heard, ignored, interrupted>>

\* runtime.stop() returns or raises.
RuntimeStopped ==
  /\ loop = "stopping"
  /\ loop' = "done"
  /\ UNCHANGED <<inputVars, producer, turnRunning, begun, heard, ignored, interrupted>>

-----------------------------------------------------------------------------
(* The elicitation callbacks.  diffbot-mcp asks on behalf of a tool call, so*)
(* after some turn has run; it may ask, or its question may still be open,  *)
(* after the agent's side of that call has timed out and the turn is over.  *)

SessionOpen ==
  /\ loop \in {"waiting", "turn", "draining", "stopping"}
  /\ \E i \in 1..Len(begun) : begun[i] \notin ResetText

Ask(r) ==
  /\ SessionOpen
  /\ RequestAnswer(r)
  /\ UNCHANGED loopVars

\* The caller of request_answer is served by the event loop, or cancelled with
\* the MCP session it belongs to (a reconnection, or runtime.stop()).
CallerStep(r) ==
  /\ FireTimer(r) \/ CancelRequest(r) \/ CancelFuture(r) \/ Resume(r)
  /\ UNCHANGED loopVars

-----------------------------------------------------------------------------
LoopStep == TakeNext \/ EndTurn \/ StopRuntime \/ RuntimeStopped

ProducerStep ==
  \/ ProducerBegins
  \/ \E t \in Text : HearAnswer(t) \/ HearIgnored(t) \/ HearCommand(t)
  \/ InputEnds
  \/ ProducerCancelled

Next ==
  \/ StartRuntime \/ StartFails
  \/ ProducerStep
  \/ LoopStep
  \/ Interrupt
  \/ \E r \in Request : Ask(r) \/ CallerStep(r)

SafetySpec == Init /\ [][Next]_vars

\* A ready task runs, and a turn and runtime.stop() end: max_turns bounds the
\* model calls of a turn, and every tool call has a timeout.  Nothing obliges
\* the operator to speak, the input to end, or the robot to ask.
Fairness ==
  /\ WF_vars(LoopStep)
  /\ WF_vars(ProducerCancelled)

Spec == SafetySpec /\ Fairness

-----------------------------------------------------------------------------
(* Properties. *)

\* The accepted commands: those begun, then those in the queue, less the
\* sentinel at its end.
Lines(q) == IF q # <<>> /\ q[Len(q)] = CLOSED THEN SubSeq(q, 1, Len(q) - 1) ELSE q

Accepted == begun \o Lines(commands)

Turns == INSTANCE CommandTurns WITH
  Command <- Text,
  accepted <- Accepted,
  begun <- Len(begun),
  busy <- turnRunning,
  stopped <- loop \in {"draining", "stopping", "done"}

\* The commands are served one at a time, in the order of their acceptance, and
\* none is accepted during a turn or after the loop has ended.
ServesInTurn == Turns!Spec

\* _turn_running says whether the loop is in a turn: what the producer reads
\* between its own suspensions is never stale.
TurnFlag == turnRunning <=> loop = "turn"

\* The ways in which a line may have been used.
Uses(t) ==
  {<<"queued", i>> : i \in {j \in 1..Len(commands) : commands[j] = t}}
  \cup {<<"begun", i>> : i \in {j \in 1..Len(begun) : begun[j] = t}}
  \cup {<<"answer", r>> : r \in {q \in Request : answer[q] = t}}
  \cup {<<"ignored", u>> : u \in ignored \cap {t}}

\* A line that was said is used for exactly one thing: as the answer to one
\* question, as one command, or dropped by the busy policy.
EachLineUsedOnce ==
  \A t \in Text : \/ heard[t] = "no" /\ Uses(t) = {}
                  \/ heard[t] # "no" /\ Cardinality(Uses(t)) = 1

\* A line said while a turn was running never becomes a command, not even after
\* that turn is over.
BusyLinesNeverRun ==
  \A t \in Text : heard[t] = "busy" =>
    /\ \A i \in 1..Len(commands) : commands[i] # t
    /\ \A i \in 1..Len(begun) : begun[i] # t

\* Once run() tears the runtime down, the producer is finished and no question
\* is open: closing the MCP session never has to wait for the operator.
NothingOpenAtStop ==
  loop \in {"stopping", "done"} =>
    /\ producer \in {"absent", "done"}
    /\ \A r \in Request : future[r] # "pending"

\* README.md:163: a /reset sent while a turn is running is ignored.
ResetWhileBusyIgnored ==
  \A t \in ResetText : heard[t] = "busy" => t \in ignored

\* The end of the input ends the agent; so does SIGINT.
InputEndEndsRun == producer = "done" \/ interrupted ~> loop = "done"

\* Every accepted command is begun, unless SIGINT stops the agent.
AcceptedIsBegun ==
  \A t \in Text :
    (\E i \in 1..Len(commands) : commands[i] = t)
      ~> (interrupted \/ \E i \in 1..Len(begun) : begun[i] = t)
=============================================================================
