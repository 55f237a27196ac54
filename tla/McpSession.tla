----------------------------- MODULE McpSession ------------------------------
(***************************************************************************)
(* DiffbotMCPServerStreamableHttp (src/diffbot_agent/                      *)
(* openai_agents_runtime.py): the tool calls of a turn over one MCP        *)
(* session, which is replaced when a call meets a fatal session error.     *)
(*                                                                         *)
(* The SDK runs the tool calls of one model response concurrently, and     *)
(* serialises their requests.  A call captures the session before it waits *)
(* for its turn to send; a reconnection takes no lock, closes whatever the *)
(* exit stack holds at that moment, and suspends while it connects.        *)
(***************************************************************************)
EXTENDS FiniteSets, Sequences, Integers

CONSTANTS
  ToolCall,     \* the tool calls
  SafeCall,     \* those of a tool of MCP_SAFE_RETRY_TOOLS
  MaxParallel   \* the tool calls that are under way at once

ASSUME McpAssumption ==
  /\ SafeCall \subseteq ToolCall
  /\ MaxParallel \in Nat \ {0}

VARIABLES
  session,    \* self.session; 0 is None
  opened,     \* how many sessions have been opened
  alive,      \* the sessions that are connected
  owned,      \* the sessions that the exit stack will close
  stackNo,    \* which exit stack self.exit_stack is
  pc,         \* where each call of call_tool is
  using,      \* the session a call has captured
  connecting, \* the exit stack that was installed by a reconnecting call
  sent,       \* history: the sessions a call's request was sent over
  overlap     \* history: two calls have been reconnecting at once

connVars == <<session, opened, alive, owned, stackNo, connecting, overlap>>

vars == <<connVars, pc, using, sent>>

\* What a request can end with, as _is_fatal_mcp_session_error tells it apart.
Error == {"http5xx", "network", "closedStream", "mcp5xx", "resetMessage",
          "http4xx", "timeout", "toolError"}

Fatal == {"http5xx", "network", "closedStream", "mcp5xx", "resetMessage"}

TypeOK ==
  /\ session \in Nat
  /\ opened \in Nat
  /\ alive \subseteq Nat
  /\ owned \subseteq Nat
  /\ stackNo \in Nat
  /\ pc \in [ToolCall -> {"idle", "waiting", "sent", "broken", "connecting",
                          "retrying", "resent", "returned", "raised", "cancelled"}]
  /\ using \in [ToolCall -> Nat]
  /\ connecting \in [ToolCall -> Nat]
  /\ sent \in [ToolCall -> Seq(Nat)]
  /\ overlap \in BOOLEAN

Init ==
  /\ session = 1
  /\ opened = 1
  /\ alive = {1}
  /\ owned = {1}
  /\ stackNo = 0
  /\ pc = [c \in ToolCall |-> "idle"]
  /\ using = [c \in ToolCall |-> 0]
  /\ connecting = [c \in ToolCall |-> 0]
  /\ sent = [c \in ToolCall |-> <<>>]
  /\ overlap = FALSE

-----------------------------------------------------------------------------
Ended == {"returned", "raised", "cancelled"}

UnderWay == {c \in ToolCall : pc[c] \notin {"idle"} \cup Ended}

\* call_tool: without a session, or without a required argument, it raises at once;
\* otherwise it captures the session.
CallTool(c) ==
  /\ pc[c] = "idle"
  /\ Cardinality(UnderWay) < MaxParallel
  /\ \E place \in {"waiting", "raised"} :
       /\ session # 0 \/ place = "raised"
       /\ pc' = [pc EXCEPT ![c] = place]
  /\ using' = [using EXCEPT ![c] = session]
  /\ UNCHANGED <<connVars, sent>>

\* The SDK's request lock: one request at a time is on its way.
RequestLockFree == \A c \in ToolCall : pc[c] \notin {"sent", "resent"}

\* The request goes out over the captured session, if that is still connected.
Send(c) ==
  /\ pc[c] \in {"waiting", "retrying"}
  /\ RequestLockFree
  /\ using[c] \in alive
  /\ pc' = [pc EXCEPT ![c] = IF pc[c] = "waiting" THEN "sent" ELSE "resent"]
  /\ sent' = [sent EXCEPT ![c] = Append(@, using[c])]
  /\ UNCHANGED <<connVars, using>>

\* An error ends the call, but a fatal one in the first attempt breaks the
\* session; the retry is the last attempt.
Breaks(c, e) == e \in Fatal /\ pc[c] \in {"waiting", "sent"}

MeetsError(c, e) ==
  /\ pc' = [pc EXCEPT ![c] = IF Breaks(c, e) THEN "broken" ELSE "raised"]
  /\ UNCHANGED <<connVars, using, sent>>

\* The request cannot go out: the streams of the captured session are closed.
SendFails(c) ==
  /\ pc[c] \in {"waiting", "retrying"}
  /\ RequestLockFree
  /\ using[c] \notin alive
  /\ MeetsError(c, "closedStream")

Reply(c) ==
  /\ pc[c] \in {"sent", "resent"}
  /\ using[c] \in alive
  /\ pc' = [pc EXCEPT ![c] = "returned"]
  /\ UNCHANGED <<connVars, using, sent>>

\* An error answer, an error of the connection, or the 90 s of the session.
ReplyFails(c, e) ==
  /\ pc[c] \in {"sent", "resent"}
  /\ MeetsError(c, e)

\* diffbot-mcp restarts, or the network fails.
SessionDies ==
  /\ \E s \in alive : alive' = alive \ {s}
  /\ UNCHANGED <<session, opened, owned, stackNo, connecting, overlap, pc, using, sent>>

-----------------------------------------------------------------------------
(* Reconnecting. *)

\* Mutant: the old exit stack is dropped without being closed.
StackDropped == owned' = {} /\ session' = 0 /\ UNCHANGED alive

\* cleanup(): the exit stack closes what it holds, and the session is None.
Cleanup ==
  /\ alive' = alive \ owned
  /\ owned' = {}
  /\ session' = 0

\* _reconnect_after_mcp_session_failure up to the suspension in connect().
\* While cleanup() itself suspends, the old session is there and dead.
Reconnect(c) ==
  /\ pc[c] = "broken"
  /\ Cleanup
  /\ stackNo' = stackNo + 1
  /\ connecting' = [connecting EXCEPT ![c] = stackNo']
  /\ pc' = [pc EXCEPT ![c] = "connecting"]
  /\ overlap' = (overlap \/ \E d \in ToolCall : pc[d] = "connecting")
  /\ UNCHANGED <<opened, using, sent>>

\* Mutant: every tool is called again after a reconnection.
RetriesEveryTool == ToolCall

RetriedCalls == SafeCall

\* connect() succeeds.  If another call has reconnected since, what this one
\* opened may be on the stack that the other closed, and nothing closes it.
Connected(c) ==
  /\ pc[c] = "connecting"
  /\ opened' = opened + 1
  /\ session' = opened'
  /\ alive' = alive \cup {opened'}
  /\ \/ owned' = owned \cup {opened'}
     \/ connecting[c] # stackNo /\ owned' = owned
  /\ using' = [using EXCEPT ![c] = opened']
  /\ pc' = [pc EXCEPT ![c] = IF c \in RetriedCalls THEN "retrying" ELSE "raised"]
  /\ UNCHANGED <<stackNo, connecting, overlap, sent>>

\* cleanup() raises, when the stack has been left and the session is None; or
\* connect() raises, and its finally clause cleans up, whatever the stack holds by now.
ReconnectFails(c) ==
  /\ pc[c] \in {"broken", "connecting"}
  /\ Cleanup
  /\ pc' = [pc EXCEPT ![c] = "raised"]
  /\ UNCHANGED <<opened, stackNo, using, connecting, overlap, sent>>

\* The turn is cancelled.  CancelledError is never taken for a session error.
CancelCall(c) ==
  /\ c \in UnderWay
  /\ pc' = [pc EXCEPT ![c] = "cancelled"]
  /\ IF pc[c] = "connecting" THEN Cleanup ELSE UNCHANGED <<alive, owned, session>>
  /\ UNCHANGED <<opened, stackNo, using, connecting, overlap, sent>>

-----------------------------------------------------------------------------
\* Mutant: the session has no timeout, so nothing ends an unanswered request.
OnlyAnswered(c) == Reply(c)

\* The session's timeout ends a request that is not answered.
RequestEnds(c) == Reply(c) \/ \E e \in Error : ReplyFails(c, e)

Step(c) ==
  \/ CallTool(c) \/ Send(c) \/ SendFails(c) \/ RequestEnds(c)
  \/ Reconnect(c) \/ Connected(c) \/ ReconnectFails(c)
  \/ CancelCall(c)

Next == SessionDies \/ \E c \in ToolCall : Step(c)

SafetySpec == Init /\ [][Next]_vars

\* Requests and connections have timeouts, and the request lock is fair.
Fairness ==
  \A c \in ToolCall :
    /\ SF_vars(Send(c) \/ SendFails(c))
    /\ WF_vars(RequestEnds(c))
    /\ WF_vars(Reconnect(c) \/ Connected(c) \/ ReconnectFails(c))

Spec == SafetySpec /\ Fairness

-----------------------------------------------------------------------------
(* Properties. *)

\* tests/test_mcp_session_recovery.py: a tool that moves the robot is sent once,
\* whatever happens to the session; a safe one is sent at most twice, and the
\* second time over a session opened since.
UnsafeSentOnce ==
  \A c \in ToolCall :
    /\ Len(sent[c]) <= IF c \in SafeCall THEN 2 ELSE 1
    /\ Len(sent[c]) = 2 => sent[c][1] < sent[c][2]

\* As long as no two calls have reconnected at once, the session is one that the
\* exit stack will close, and no other connection is left open.  (Two calls that
\* meet the same broken session do reconnect at once, and may leak one.)
NothingLeaked == ~overlap => alive \cup ({session} \ {0}) \subseteq owned

\* Every tool call ends.
EveryCallEnds == \A c \in ToolCall : c \in UnderWay ~> pc[c] \in Ended
=============================================================================
