------------------------------ MODULE ToolRecord ------------------------------
(***************************************************************************)
(* Which tool calls of a run are in the record of the turn, and which of   *)
(* these in the episode draft for the memory (src/diffbot_agent/           *)
(* episode.py).  The log follows the events of the run's stream; the       *)
(* record is made of the run's items when the stream ends or raises.  So a *)
(* call may be in one and not in the other.                                *)
(***************************************************************************)
EXTENDS RunLog

CONSTANT Advertised   \* the categories in the _meta of diffbot-mcp's tools, by name

NoiseToolNames == {"memory_recall", "memory_remember", "system_wait", "diffbot_debug_enabled"}

VARIABLES
  categories,  \* _MCP_TOOL_CATEGORIES
  recorded,    \* the calls of tool_events of the record, empty while there is none
  drafted      \* the calls of tool_events of the episode draft

recordVars == <<runVars, categories, recorded, drafted>>

-----------------------------------------------------------------------------
(* The categories. *)

\* The server's prefix goes, and dots become underscores.
NormalizeToolName(tool) == <<tool.name, "normal">>

\* set_mcp_tool_categories, of the dotted names that diffbot-mcp advertises.
SetCategories(mapping) ==
  LET key(name) == NormalizeToolName([name |-> name, spelling |-> "dotted"])
  IN [k \in {key(name) : name \in DOMAIN mapping} |-> mapping[k[1]]]

Category(tool) ==
  LET name == NormalizeToolName(tool)
  IN IF name \in DOMAIN categories THEN categories[name] ELSE "tool"

IsNoise(tool) ==
  NormalizeToolName(tool) \in {NormalizeToolName([name |-> n, spelling |-> "prefixed"]) : n \in NoiseToolNames}

\* start() goes on without categories when it cannot list the tools.
RecordInit ==
  /\ RunInit
  /\ categories \in {SetCategories(Advertised), SetCategories(<<>>)}
  /\ recorded = <<>>
  /\ drafted = <<>>

-----------------------------------------------------------------------------
(* The record and the draft. *)

\* The elements of seq at these places, in their order.
AtPlaces(seq, places) ==
  LET before(p) == {q \in places : q < p}
  IN [k \in 1..Cardinality(places) |->
        seq[CHOOSE p \in places : Cardinality(before(p)) = k - 1]]

OutputIds == {items[i].id : i \in {j \in DOMAIN items : IsOutput(items[j])}}

\* Mutant: an output is looked for right behind its call.
AdjacentItems == {i \in DOMAIN items : IsCall(items[i]) /\ i < Len(items) /\ IsOutput(items[i + 1])}

\* _matched_tool_items: the places of the calls that have an output.
MatchedToolItems == {i \in DOMAIN items : IsCall(items[i]) /\ items[i].id \in OutputIds}

\* Status reads leave no event.
RecordedCalls == AtPlaces(items, {i \in MatchedToolItems : Category(items[i].tool) # "status"})

DraftedCalls(calls) ==
  AtPlaces(calls, {i \in DOMAIN calls : /\ ~IsNoise(calls[i].tool)
                                        /\ Category(calls[i].tool) \notin {"speech", "status"}})

\* build_canonical_record, and add_episode with its draft.
MakeRecord ==
  /\ recorded' = RecordedCalls
  /\ drafted' = DraftedCalls(RecordedCalls)

-----------------------------------------------------------------------------
(* The end of the stream, in run_turn. *)

\* The run has completed, or failed.
StreamEnds == RunCompletes /\ MakeRecord /\ UNCHANGED categories
StreamRaises == RunRaises /\ MakeRecord /\ UNCHANGED categories

Unrecorded == UNCHANGED <<categories, recorded, drafted>>

\* After a cancellation nothing is recorded.
Cancelled == RunCancelled /\ Unrecorded

RecordNext ==
  \/ \E n \in 1..MaxBatch : \E asked \in [1..n -> Asked] : ModelCalls(asked) /\ Unrecorded
  \/ \E results \in [DOMAIN batch -> Output] : ToolsEnd(results) /\ Unrecorded
  \/ HandleEvent /\ Unrecorded
  \/ StreamEnds \/ StreamRaises \/ Cancelled

RecordSpec == RecordInit /\ [][RecordNext]_recordVars

-----------------------------------------------------------------------------
\* A call whose response was logged is in the memory, in its place, unless its tool
\* is one of the noise; and what is in the memory has been answered, even when the
\* log has an error for it.
AnsweredIsRemembered ==
  LET remembered == {drafted[i].id : i \in DOMAIN drafted}
      nameOf(c) == items[CHOOSE i \in DOMAIN items : IsCall(items[i]) /\ items[i].id = c].tool.name
      memorable(c) == /\ nameOf(c) \notin NoiseToolNames
                      /\ \/ DOMAIN categories = {} \/ nameOf(c) \notin DOMAIN Advertised
                         \/ Advertised[nameOf(c)] \notin {"speech", "status"}
  IN phase \in {"completed", "failed"} =>
       /\ \A c \in CallId : reported[c] = <<"response">> /\ memorable(c) => c \in remembered
       /\ \A c \in remembered : c \in OutputIds /\ memorable(c)
       /\ \A i, j \in DOMAIN drafted : i < j => drafted[i].id < drafted[j].id
=============================================================================
