-------------------------------- MODULE RunLog --------------------------------
(***************************************************************************)
(* The tool calls of one run, as McpRunLogger (src/diffbot_agent/          *)
(* mcp_logging.py) reports them.  The log follows the events of the run's  *)
(* stream, which are behind the run itself: the tools of a response may    *)
(* have run before its calls are logged.                                   *)
(*                                                                         *)
(* The agent has no tools but those of diffbot-mcp.  The SDK calls them by *)
(* a name that is prefixed with the server's; a model may write a dotted   *)
(* one.                                                                    *)
(***************************************************************************)
EXTENDS FiniteSets, Sequences, Naturals

CONSTANTS
  Argument,     \* what a model passes to a tool
  Output,       \* the outputs of function_call_output items
  MaxBatch,     \* bound: the tool calls of one model response
  MaxCalls      \* bound: the tool calls of the run

Spelling == {"prefixed", "dotted"}

Tool == [name: {"robot_move", "robot_get_diagnostics", "speak_say", "memory_remember"},
         spelling: Spelling]

Asked == [tool: Tool, value: Argument]

ASSUME RunAssumption == MaxBatch \in Nat \ {0} /\ MaxCalls \in Nat

VARIABLES
  phase,       \* "running", or how the stream has ended
  batch,       \* the calls of the current model response, while their tools run
  items,       \* to_input_list() of the run
  queue,       \* the events of the stream that were not handled
  pending,     \* _pending_calls, by id
  reported     \* history: what the log says of the end of each call

runVars == <<phase, batch, items, queue, pending, reported>>

CallId == 1..MaxCalls

IsCall(item) == item.type = "call"
IsOutput(item) == item.type = "output"

Begun == Cardinality({i \in DOMAIN items : IsCall(items[i])}) + Len(batch)

RunInit ==
  /\ phase = "running"
  /\ batch = <<>>
  /\ items = <<>>
  /\ queue = <<>>
  /\ pending = {}
  /\ reported = [c \in CallId |-> <<>>]

-----------------------------------------------------------------------------
(* The SDK's run. *)

ModelCalls(asked) ==
  /\ phase = "running"
  /\ batch = <<>>
  /\ Begun + Len(asked) <= MaxCalls
  /\ batch' = [i \in DOMAIN asked |->
       [type |-> "call", id |-> Begun + i, tool |-> asked[i].tool, value |-> asked[i].value]]
  /\ queue' = queue \o [i \in DOMAIN asked |-> [name |-> "tool_called", id |-> Begun + i]]
  /\ UNCHANGED <<phase, items, pending, reported>>

\* The items of the batch: its calls, and behind them their outputs.
BatchItems(results) ==
  batch \o [i \in DOMAIN batch |-> [batch[i] EXCEPT !.type = "output", !.value = results[i]]]

\* The tools of a response have run, a failed one with an error for its output.
ToolsEnd(results) ==
  /\ phase = "running"
  /\ batch # <<>>
  /\ items' = items \o BatchItems(results)
  /\ queue' = queue \o [i \in DOMAIN batch |-> [name |-> "tool_output", id |-> batch[i].id]]
  /\ batch' = <<>>
  /\ UNCHANGED <<phase, pending, reported>>

-----------------------------------------------------------------------------
(* McpRunLogger. *)

\* Mutant: an answered call stays pending.
StillPending(id) == pending

\* The pop in _log_tool_output.
Answered(id) == pending \ {id}

HandleEvent ==
  /\ phase = "running"
  /\ queue # <<>>
  /\ queue' = Tail(queue)
  /\ LET event == Head(queue)
     IN IF event.name = "tool_called"
        THEN pending' = pending \cup {event.id} /\ UNCHANGED reported
        ELSE /\ pending' = Answered(event.id)
             /\ reported' = [reported EXCEPT ![event.id] = Append(@, "response")]
  /\ UNCHANGED <<phase, batch, items>>

LogPendingErrors ==
  /\ reported' = [c \in CallId |-> IF c \in pending THEN Append(reported[c], "error")
                                   ELSE reported[c]]
  /\ pending' = {}

-----------------------------------------------------------------------------
(* The end of the stream, in run_turn. *)

RunCompletes ==
  /\ phase = "running"
  /\ batch = <<>>
  /\ queue = <<>>
  /\ phase' = "completed"
  /\ UNCHANGED <<batch, items, queue, pending, reported>>

\* The run fails, and the stream raises over the events that are left in it.
RunRaises ==
  /\ phase = "running"
  /\ phase' = "failed"
  /\ LogPendingErrors
  /\ queue' = <<>>
  /\ batch' = <<>>
  /\ UNCHANGED items

\* A cancellation is no Exception: nothing is logged.
RunCancelled ==
  /\ phase = "running"
  /\ phase' = "cancelled"
  /\ queue' = <<>>
  /\ batch' = <<>>
  /\ UNCHANGED <<items, pending, reported>>

RunNext ==
  \/ \E n \in 1..MaxBatch : \E asked \in [1..n -> Asked] : ModelCalls(asked)
  \/ \E results \in [DOMAIN batch -> Output] : ToolsEnd(results)
  \/ HandleEvent
  \/ RunCompletes \/ RunRaises \/ RunCancelled

RunSpec == RunInit /\ [][RunNext]_runVars

-----------------------------------------------------------------------------
\* The log says once how a call has ended, when it has said that it began: with
\* its response, or with the error of the turn; a completed turn has no error.
ReportedOnce ==
  /\ \A c \in CallId : Len(reported[c]) <= 1 /\ (c \in pending => reported[c] = <<>>)
  /\ phase \in {"completed", "failed"} => pending = {}
  /\ phase = "completed" => \A c \in 1..Begun : reported[c] = <<"response">>
=============================================================================
