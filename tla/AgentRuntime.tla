---------------------------- MODULE AgentRuntime -----------------------------
(***************************************************************************)
(* OpenAIAgentsRuntime (src/diffbot_agent/openai_agents_runtime.py) with   *)
(* the memory backend it owns (memory_backend.py, mcp_client.py): start,   *)
(* run_turn, reset and stop, and the fire-and-forget memory.remember tasks *)
(* that the turns leave behind.                                            *)
(*                                                                         *)
(* No method takes a lock.  A turn suspends in stream_events() only, so    *)
(* its end and its episode are one step; stop() suspends in the gather of  *)
(* the pending writes, in the client's stop and in the stack's aclose, and *)
(* between them a turn may end and find the fields already cleared.        *)
(***************************************************************************)
EXTENDS FiniteSets

CONSTANT Call   \* the calls of run_turn and of reset

VARIABLES
  stage,      \* where the life of the runtime is
  session,    \* _session is not None
  memory,     \* _memory is not None
  stack,      \* _stack and _agent are not None
  connected,  \* the memory backend's _connected
  flush,      \* the writes that close() gathers
  turn,       \* what each call does in the runtime
  episode     \* what became of the episode of each turn

runtimeVars == <<stage, session, memory, stack, connected, flush, turn, episode>>
lifeVars == <<stage, session, memory, stack, connected, flush>>

RuntimeTypeOK ==
  /\ stage \in {"new", "up", "flushing", "disconnecting", "closing", "stopped"}
  /\ session \in BOOLEAN
  /\ memory \in BOOLEAN
  /\ stack \in BOOLEAN
  /\ connected \in BOOLEAN
  /\ flush \subseteq Call
  /\ turn \in [Call -> {"none", "running", "over", "clearing", "cleared"}]
  /\ episode \in [Call -> {"none", "skipped", "remembering", "remembered", "rejected", "cut"}]

RuntimeInit ==
  /\ stage = "new"
  /\ session = FALSE
  /\ memory = FALSE
  /\ stack = FALSE
  /\ connected = FALSE
  /\ flush = {}
  /\ turn = [c \in Call |-> "none"]
  /\ episode = [c \in Call |-> "none"]

-----------------------------------------------------------------------------
(* start(). *)

\* The backend swallows a failure to connect: it then skips every episode.
StartSucceeds ==
  /\ stage = "new"
  /\ stage' = "up"
  /\ session' = TRUE
  /\ memory' = TRUE
  /\ stack' = TRUE
  /\ connected' \in BOOLEAN
  /\ UNCHANGED <<flush, turn, episode>>

\* What start() had opened is closed again.
StartRaises ==
  /\ stage = "new"
  /\ stage' = "stopped"
  /\ UNCHANGED <<session, memory, stack, connected, flush, turn, episode>>

-----------------------------------------------------------------------------
(* run_turn() and reset(). *)

\* Mutant: the session is not among what run_turn asks for.
ReadyWithoutSession == memory /\ stack

Ready == session /\ memory /\ stack

TurnBegins(c) ==
  /\ turn[c] = "none"
  /\ Ready
  /\ turn' = [turn EXCEPT ![c] = "running"]
  /\ UNCHANGED <<lifeVars, episode>>

\* "OpenAI Agents runtime has not been started."
TurnRefused(c) ==
  /\ turn[c] = "none"
  /\ ~Ready
  /\ UNCHANGED runtimeVars

\* Mutant: the record of the turn is not handed on.
NothingRemembered(c) == episode

\* add_episode: a task that writes the episode, if the backend is connected.  The
\* draft is never empty, as no command is blank.
AddEpisode(c) == [episode EXCEPT ![c] = IF connected THEN "remembering" ELSE "skipped"]

\* The stream ends, or raises, and the episode is handed to the memory backend.
\* stop() may have taken the backend away.
TurnEnds(c) ==
  /\ turn[c] = "running"
  /\ turn' = [turn EXCEPT ![c] = "over"]
  /\ episode' = IF memory THEN AddEpisode(c) ELSE episode
  /\ UNCHANGED lifeVars

\* CancelledError is no Exception: the turn leaves without an episode.
TurnCancelled(c) ==
  /\ turn[c] = "running"
  /\ turn' = [turn EXCEPT ![c] = "over"]
  /\ UNCHANGED <<lifeVars, episode>>

\* reset() clears the session, and does nothing else when there is none.
ResetBegins(c) ==
  /\ turn[c] = "none"
  /\ session
  /\ turn' = [turn EXCEPT ![c] = "clearing"]
  /\ UNCHANGED <<lifeVars, episode>>

ResetEnds(c) ==
  /\ turn[c] = "clearing"
  /\ turn' = [turn EXCEPT ![c] = "cleared"]
  /\ UNCHANGED <<lifeVars, episode>>

-----------------------------------------------------------------------------
(* The writes. *)

Pending == {c \in Call : episode[c] = "remembering"}

\* _remember: diffbot-mcp answers or fails; a failure is logged only.
EpisodeWritten(c) ==
  /\ episode[c] = "remembering"
  /\ \E answer \in {"remembered", "rejected"} : episode' = [episode EXCEPT ![c] = answer]
  /\ UNCHANGED <<lifeVars, turn>>

-----------------------------------------------------------------------------
(* stop(). *)

\* close() goes on after the gather.
AfterFlush ==
  IF connected
  THEN stage' = "disconnecting" /\ memory' = memory
  ELSE stage' = "closing" /\ memory' = FALSE

\* Mutant: close() does not wait for the writes.
NothingToFlush == {}

ToFlush == Pending

\* The session is closed; without a pending write nothing suspends here.
StopBegins ==
  /\ stage = "up"
  /\ session' = FALSE
  /\ flush' = ToFlush
  /\ IF ToFlush = {} THEN AfterFlush ELSE stage' = "flushing" /\ memory' = memory
  /\ UNCHANGED <<stack, connected, turn, episode>>

\* gather returns: it waits for the writes that were pending when it was called.
Flushed ==
  /\ stage = "flushing"
  /\ flush \cap Pending = {}
  /\ AfterFlush
  /\ UNCHANGED <<session, stack, connected, flush, turn, episode>>

\* The client's stop returns; a write that is still under way loses its session.
Disconnected ==
  /\ stage = "disconnecting"
  /\ stage' = "closing"
  /\ connected' = FALSE
  /\ memory' = FALSE
  /\ episode' = [c \in Call |-> IF c \in Pending THEN "cut" ELSE episode[c]]
  /\ UNCHANGED <<session, stack, flush, turn>>

\* The client's stop raises, and stop() ends there.
DisconnectRaises ==
  /\ stage = "disconnecting"
  /\ stage' = "stopped"
  /\ UNCHANGED <<session, memory, stack, connected, flush, turn, episode>>

\* The MCP session is closed.
StackCloses ==
  /\ stage = "closing"
  /\ stage' = "stopped"
  /\ stack' \in {TRUE, FALSE}    \* it stays when aclose() raises
  /\ UNCHANGED <<session, memory, connected, flush, turn, episode>>
=============================================================================
