------------------------------ MODULE A2ATasks -------------------------------
(***************************************************************************)
(* DiffbotAgentExecutor (src/diffbot_agent/server.py) over the             *)
(* RuntimeController: what the tasks of A2A clients are told, while the    *)
(* commands behind them are run, refused, timed out or cancelled.          *)
(*                                                                         *)
(* execute() of a task is a coroutine of its own: it suspends when it puts *)
(* an event on the queue of the task and in run_command.  A cancellation   *)
(* is served by a second coroutine, with an updater of its own; that the   *)
(* task of execute() is then cancelled is the doing of the A2A SDK.        *)
(***************************************************************************)
EXTENDS RuntimeController

VARIABLES
  exec,      \* where execute() of each task is
  told,      \* the last state that execute() has published for each task
  artifact,  \* an artifact was added to the task
  canceled   \* cancel() has published "canceled" for the task

taskVars == <<exec, told, artifact, canceled>>

a2aVars == <<vars, taskVars>>

Terminal == {"completed", "failed", "rejected"}

TaskTypeOK ==
  /\ TypeOK
  /\ exec \in [A2ACall -> {"none", "submitted", "commanding", "publishing", "done", "cancelled"}]
  /\ told \in [A2ACall -> {"none", "submitted", "working"} \cup Terminal]
  /\ artifact \in [A2ACall -> BOOLEAN]
  /\ canceled \in [A2ACall -> BOOLEAN]

TaskInit ==
  /\ Init
  /\ exec = [c \in A2ACall |-> "none"]
  /\ told = [c \in A2ACall |-> "none"]
  /\ artifact = [c \in A2ACall |-> FALSE]
  /\ canceled = [c \in A2ACall |-> FALSE]

-----------------------------------------------------------------------------
(* execute(). *)

Goes(c, stage_, state) ==
  /\ exec' = [exec EXCEPT ![c] = stage_]
  /\ told' = [told EXCEPT ![c] = state]

\* A message arrives, and a task is made of it.
Submitted(c) ==
  /\ exec[c] = "none"
  /\ server = "serving"
  /\ Goes(c, "submitted", "submitted")
  /\ UNCHANGED <<vars, artifact, canceled>>

\* "No text command was provided."
RejectedEmpty(c) ==
  /\ exec[c] = "submitted"
  /\ Goes(c, "done", "rejected")
  /\ UNCHANGED <<vars, artifact, canceled>>

\* "DiffBot command accepted.", before the controller is asked.
StartsWork(c) ==
  /\ exec[c] = "submitted"
  /\ Goes(c, "commanding", "working")
  /\ UNCHANGED <<vars, artifact, canceled>>

\* run_command of the controller.
Commands(c) ==
  /\ exec[c] = "commanding"
  /\ CallBusy(c) \/ CommandBegins(c) \/ CommandRefused(c)
  /\ UNCHANGED taskVars

\* Mutant: every result that is not a success is a failure.
FailedUnlessCompleted(status) == IF status = "completed" THEN "completed" ELSE "failed"

\* The state that _publish_a2a_result makes of a result.
StateFor(status) ==
  CASE status = "completed" -> "completed"
    [] status = "busy"      -> "rejected"
    [] OTHER                -> "failed"

\* A completed turn has a text as a rule, and no other result has one.
AddsArtifact(c) ==
  /\ exec[c] = "commanding"
  /\ outcome[c] = "completed"
  /\ exec' = [exec EXCEPT ![c] = "publishing"]
  /\ artifact' = [artifact EXCEPT ![c] = TRUE]
  /\ UNCHANGED <<vars, told, canceled>>

\* Mutant: the task is told its result as soon as the time is up.
PublishesAtOnce(c) ==
  /\ \/ exec[c] = "publishing"
     \/ exec[c] = "commanding" /\ call[c] = "returned" /\ outcome[c] # "cancelled"
     \/ exec[c] = "commanding" /\ signals[c] = {"timeout"}
  /\ Goes(c, "done", IF call[c] = "returned" THEN StateFor(outcome[c]) ELSE "failed")
  /\ UNCHANGED <<vars, artifact, canceled>>

PublishesResult(c) ==
  /\ \/ exec[c] = "publishing"
     \/ exec[c] = "commanding" /\ call[c] = "returned" /\ outcome[c] # "cancelled"
  /\ Goes(c, "done", StateFor(outcome[c]))
  /\ UNCHANGED <<vars, artifact, canceled>>

\* run_command passes the cancellation on, and execute() publishes nothing.
CancellationPasses(c) ==
  /\ exec[c] = "commanding"
  /\ outcome[c] = "cancelled"
  /\ exec' = [exec EXCEPT ![c] = "cancelled"]
  /\ UNCHANGED <<vars, told, artifact, canceled>>

-----------------------------------------------------------------------------
(* cancel(). *)

Underway(c) == exec[c] \in {"submitted", "commanding", "publishing"}

\* The task of execute() is cancelled: in the controller if that is where it
\* waits, at its own suspension otherwise.  One whose command has ended already
\* either gets the result out or does not.
ExecuteCancelled(c) ==
  /\ Underway(c)
  /\ IF Active(c)
     THEN Cancel(c) /\ UNCHANGED <<exec, told, artifact>>
     ELSE exec' = [exec EXCEPT ![c] = "cancelled"] /\ UNCHANGED <<vars, told, artifact>>

\* "Cancellation requested.": published whatever execute() is doing.
CancelServed(c) ==
  /\ Underway(c)
  /\ ~canceled[c]
  /\ canceled' = [canceled EXCEPT ![c] = TRUE]
  /\ UNCHANGED <<vars, exec, told, artifact>>

-----------------------------------------------------------------------------
TaskStep(c) ==
  \/ Submitted(c) \/ RejectedEmpty(c) \/ StartsWork(c)
  \/ Commands(c) \/ AddsArtifact(c) \/ PublishesResult(c) \/ CancellationPasses(c)
  \/ CancelServed(c)
  \/ ExecuteCancelled(c) /\ UNCHANGED canceled

\* The steps of the controller that are not begun by a task.
RuntimeStep(c) ==
  \/ Timeout(c) \/ CommandEnds(c) \/ CommandCancelled(c) \/ ControllerResetEnds(c)
  \/ WriteEnds(c)

TaskNext ==
  \/ \E c \in A2ACall : TaskStep(c)
  \/ /\ \/ Lifespan
        \/ \E c \in Call : RuntimeStep(c)
        \/ \E c \in Call \ A2ACall : CallStep(c)
     /\ UNCHANGED taskVars

TaskSafetySpec == TaskInit /\ [][TaskNext]_a2aVars

ByController(A) == A /\ UNCHANGED taskVars

\* The event loop serves execute(), and the SDK reads the queue of a task.  Every
\* command has a timer, a turn that is told to give up does, clearing the session
\* ends, and the runtime's stop() goes on.  diffbot-mcp answers a write or the
\* connection fails: nothing in the agent bounds that wait.
TaskFairness ==
  /\ \A c \in A2ACall :
       WF_a2aVars(RejectedEmpty(c) \/ StartsWork(c) \/ Commands(c)
                  \/ PublishesResult(c) \/ CancellationPasses(c))
  /\ \A c \in Call :
       /\ WF_a2aVars(ByController(Timeout(c)))
       /\ WF_a2aVars(ByController(CommandCancelled(c)))
       /\ WF_a2aVars(ByController(ControllerResetEnds(c)))
       /\ WF_a2aVars(ByController(WriteEnds(c)))
  /\ WF_a2aVars(ByController(StopGoesOn))
  /\ WF_a2aVars(ByController(StopEnds))

TaskSpec == TaskSafetySpec /\ TaskFairness

-----------------------------------------------------------------------------
(* Properties. *)

\* A task is told what became of its command: completed or failed after a turn,
\* or a timeout, of its own, rejected only when it never reached the runtime; the
\* artifact is there for a completed command alone.
ToldTheOutcome ==
  \A c \in A2ACall :
    /\ told[c] = "completed" => outcome[c] = "completed"
    /\ told[c] = "failed" => outcome[c] \in {"failed", "timeout"}
    /\ told[c] = "rejected" => turn[c] = "none"
    /\ artifact[c] => outcome[c] = "completed" /\ told[c] \in {"working", "completed"}

\* A client that is told an end by execute() may send the next command: nothing
\* of this one is left in the runtime, and it does not hold the lock.  (It is not
\* so for "canceled", which cancel() publishes while the turn may go on.)
EndedTaskIsOutOfRuntime ==
  \A c \in A2ACall : told[c] \in Terminal => ~Uses(c) /\ lock # c

\* Every task comes to an end, published or cancelled.
EveryTaskEnds == \A c \in A2ACall : Underway(c) ~> exec[c] \in {"done", "cancelled"}
=============================================================================
