-------------------------- MODULE RuntimeController --------------------------
(***************************************************************************)
(* RuntimeController (src/diffbot_agent/runtime_controller.py) over an     *)
(* AgentRuntime, under the server of `diffbot-agent serve' (server.py):    *)
(* A2A and MCP clients run commands and reset the session, one at a time,  *)
(* each command under a timeout; the lifespan starts and stops the whole.  *)
(*                                                                         *)
(* The lock is tried, never waited for: locked() and the acquisition are   *)
(* one step.  wait_for gives run_turn up only after run_turn has ended, so *)
(* a call that was timed out or cancelled holds the lock until then.       *)
(* stop() takes no lock.  The MCP calls have ended by then, cancelled with *)
(* their session manager; an A2A call runs in a task of its own that       *)
(* nothing waits for.                                                      *)
(***************************************************************************)
EXTENDS AgentRuntime

CONSTANTS
  A2ACall,  \* the calls that come from the A2A executor; the others are MCP calls
  Free      \* no call: the lock is not held

ASSUME ControllerAssumption ==
  /\ A2ACall \subseteq Call
  /\ Free \notin Call

VARIABLES
  server,    \* where the lifespan of the server is
  lock,      \* the call that holds _lock
  call,      \* where each call of the controller is
  signals,   \* what wait_for has been told: "timeout", "cancel"
  outcome,   \* the status that was returned, or "cancelled"
  early      \* history: the calls that had returned when stop() was called

ctrlVars == <<server, lock, call, signals, outcome, early>>

vars == <<runtimeVars, ctrlVars>>

Status == {"completed", "failed", "busy", "timeout", "cancelled"}

TypeOK ==
  /\ RuntimeTypeOK
  /\ server \in {"starting", "serving", "draining", "stopping", "over"}
  /\ lock \in Call \cup {Free}
  /\ call \in [Call -> {"idle", "command", "reset", "returned"}]
  /\ signals \in [Call -> SUBSET {"timeout", "cancel"}]
  /\ outcome \in [Call -> Status \cup {"none"}]
  /\ early \subseteq Call

Init ==
  /\ RuntimeInit
  /\ server = "starting"
  /\ lock = Free
  /\ call = [c \in Call |-> "idle"]
  /\ signals = [c \in Call |-> {}]
  /\ outcome = [c \in Call |-> "none"]
  /\ early = {}

-----------------------------------------------------------------------------
(* The lifespan. *)

ServerStarts ==
  /\ server = "starting"
  /\ StartSucceeds
  /\ server' = "serving"
  /\ UNCHANGED <<lock, call, signals, outcome, early>>

ServerFails ==
  /\ server = "starting"
  /\ StartRaises
  /\ server' = "over"
  /\ UNCHANGED <<lock, call, signals, outcome, early>>

Active(c) == call[c] \in {"command", "reset"}

\* The MCP session manager goes first and cancels the calls it serves.
ServerDrains ==
  /\ server = "serving"
  /\ server' = "draining"
  /\ signals' = [c \in Call |->
       IF c \notin A2ACall /\ Active(c) THEN signals[c] \cup {"cancel"} ELSE signals[c]]
  /\ UNCHANGED <<runtimeVars, lock, call, outcome, early>>

\* RuntimeController.stop() calls runtime.stop().
ControllerStops ==
  /\ server = "draining"
  /\ \A c \in Call \ A2ACall : ~Active(c)
  /\ StopBegins
  /\ server' = "stopping"
  /\ early' = {c \in Call : call[c] = "returned"}
  /\ UNCHANGED <<lock, call, signals, outcome>>

StopGoesOn ==
  /\ Flushed \/ Disconnected
  /\ UNCHANGED ctrlVars

\* runtime.stop() returns or raises.
StopEnds ==
  /\ DisconnectRaises \/ StackCloses
  /\ server' = "over"
  /\ UNCHANGED <<lock, call, signals, outcome, early>>

-----------------------------------------------------------------------------
(* run_command() and reset(). *)

\* MCP calls arrive while the server serves; an A2A task that was accepted
\* then may reach the controller at any later time.
Arrives(c) ==
  /\ call[c] = "idle"
  /\ server = "serving" \/ (c \in A2ACall /\ server \in {"draining", "stopping", "over"})

Returns(c, status) ==
  /\ call' = [call EXCEPT ![c] = "returned"]
  /\ outcome' = [outcome EXCEPT ![c] = status]

\* The lock is held: "diffbot-agent is already running a command".
CallBusy(c) ==
  /\ Arrives(c)
  /\ lock # Free
  /\ Returns(c, "busy")
  /\ UNCHANGED <<runtimeVars, server, lock, signals, early>>

\* An empty command fails, whoever holds the lock.  A2A's executor passes none on.
CommandEmpty(c) ==
  /\ Arrives(c)
  /\ c \notin A2ACall
  /\ Returns(c, "failed")
  /\ UNCHANGED <<runtimeVars, server, lock, signals, early>>

CommandBegins(c) ==
  /\ Arrives(c)
  /\ lock = Free
  /\ TurnBegins(c)
  /\ lock' = c
  /\ call' = [call EXCEPT ![c] = "command"]
  /\ UNCHANGED <<server, signals, outcome, early>>

\* The lock is taken and released in this step: run_turn raises at once.
CommandRefused(c) ==
  /\ Arrives(c)
  /\ lock = Free
  /\ TurnRefused(c)
  /\ Returns(c, "failed")
  /\ UNCHANGED <<server, lock, signals, early>>

\* The timer of wait_for (there is none on a reset), and the cancellation of
\* the task that serves the client.
Timeout(c) ==
  /\ call[c] = "command"
  /\ signals[c] = {}
  /\ signals' = [signals EXCEPT ![c] = {"timeout"}]
  /\ UNCHANGED <<runtimeVars, server, lock, call, outcome, early>>

Cancel(c) ==
  /\ Active(c)
  /\ "cancel" \notin signals[c]
  /\ signals' = [signals EXCEPT ![c] = @ \cup {"cancel"}]
  /\ UNCHANGED <<runtimeVars, server, lock, call, outcome, early>>

\* Mutant: the lock is not released when the call is left by an exception.
ReleasedOnReturn(c, status) == IF status = "cancelled" THEN lock ELSE Free

\* The end of `async with self._lock'.
Released(c, status) == Free

Leaves(c, status) ==
  /\ Returns(c, status)
  /\ lock' = Released(c, status)
  /\ UNCHANGED <<server, signals, early>>

\* The turn ends by itself.  A turn that ran to its end is a failure when
\* stop() has taken the memory backend away.  A signal need not win over it: in
\* 3.11 the turn may end before the caller wakes, and whether the SDK's stream
\* lets a cancellation through is the SDK's affair.  A TimeoutError of its own is
\* taken for the timer's.
CommandEnds(c) ==
  /\ call[c] = "command"
  /\ TurnEnds(c)
  /\ \E status \in {"completed", "failed", "timeout"} :
       /\ memory \/ status # "completed"
       /\ Leaves(c, status)

\* Mutant: run_turn is given no timeout.
TimerIgnored(c) == "cancel" \in signals[c]

GivesUp(c) == signals[c] # {}

\* The turn is cancelled: a result on a timeout, CancelledError otherwise.
CommandCancelled(c) ==
  /\ call[c] = "command"
  /\ GivesUp(c)
  /\ TurnCancelled(c)
  /\ Leaves(c, IF "cancel" \in signals[c] THEN "cancelled" ELSE "timeout")

\* The MCP tool reset_session; A2A has none.
ControllerResets(c) ==
  /\ Arrives(c)
  /\ c \notin A2ACall
  /\ lock = Free
  /\ ResetBegins(c)
  /\ lock' = c
  /\ call' = [call EXCEPT ![c] = "reset"]
  /\ UNCHANGED <<server, signals, outcome, early>>

ControllerResetEnds(c) ==
  /\ call[c] = "reset"
  /\ ResetEnds(c)
  /\ \/ \E status \in {"completed", "failed"} : Leaves(c, status)
     \/ signals[c] # {} /\ Leaves(c, "cancelled")

\* Mutant: a write that fails is tried again for ever.
NeverWritten(c) == FALSE /\ EpisodeWritten(c) /\ UNCHANGED ctrlVars

WriteEnds(c) == EpisodeWritten(c) /\ UNCHANGED ctrlVars

-----------------------------------------------------------------------------
Lifespan ==
  ServerStarts \/ ServerFails \/ ServerDrains \/ ControllerStops \/ StopGoesOn \/ StopEnds

CallStep(c) ==
  \/ CallBusy(c) \/ CommandEmpty(c) \/ CommandBegins(c) \/ CommandRefused(c)
  \/ Timeout(c) \/ Cancel(c) \/ CommandEnds(c) \/ CommandCancelled(c)
  \/ ControllerResets(c) \/ ControllerResetEnds(c)
  \/ WriteEnds(c)

Next == Lifespan \/ \E c \in Call : CallStep(c)

SafetySpec == Init /\ [][Next]_vars

-----------------------------------------------------------------------------
(* Properties. *)

Uses(c) == turn[c] \in {"running", "clearing"}

\* One call at a time is in the runtime, it is the one that holds the lock, and
\* a call that has returned has left nothing running behind it, whether it was
\* timed out, cancelled or overtaken by the shutdown.
OneCallInRuntime ==
  /\ \A c \in Call : Uses(c) <=> lock = c
  /\ \A c \in Call : Uses(c) <=> Active(c)

\* The episode of a turn that had ended before the shutdown began is not cut off
\* by it: the client is not stopped while a write of before is under way.
EarlyEpisodesNotCut == \A c \in early : episode[c] # "cut"

\* Nothing is handed to a memory backend whose client has gone: a write that is
\* under way has a connection, until the client's stop has failed.
WritesHaveConnection == Pending # {} => connected /\ memory

\* A turn that ended before the shutdown and was never told to give up has left
\* its episode, failed or not, unless the backend had no connection.
UndisturbedTurnsRecorded ==
  \A c \in early : turn[c] = "over" /\ signals[c] = {} => episode[c] # "none"

\* episode.py:54: an episode is written to long-term memory after each command;
\* here, each command whose turn was begun and that has got its result.
EpisodeAfterEachCommand ==
  \A c \in Call :
    connected /\ turn[c] = "over" /\ outcome[c] \in {"completed", "failed", "timeout"} =>
      episode[c] # "none"

\* The controller implements CommandService, which says what a client may rely on:
\* served alone, sent away when another is served, never begun after stop().
Service == INSTANCE CommandService WITH
  Client <- Call,
  Nobody <- Free,
  phase <- IF stage = "new" THEN "closed" ELSE IF stage = "up" THEN "open" ELSE "over",
  serving <- lock,
  reply <- outcome

ServesCommands == Service!Spec

\* The shutdown comes to its end.
ShutdownEnds == server = "stopping" ~> server = "over"
=============================================================================
