---------------------------- MODULE ContextWindow ----------------------------
(***************************************************************************)
(* CommandContextState (src/diffbot_agent/context_window.py): what the     *)
(* model is shown of the conversation thread.  Before every model request  *)
(* filter_model_input cuts the thread to a window and leaves the latest    *)
(* valid camera frame in it, and no other.                                 *)
(*                                                                         *)
(* The thread itself is kept by the SDK: a command adds the operator's     *)
(* line, every response of the model adds its tool calls and then their    *)
(* outputs, in the order of the calls (the SDK serialises the requests of  *)
(* one MCP session).  The session stores what it is given with its images  *)
(* replaced by placeholders, so the frames of a command do not outlive it. *)
(* The model keeps of an item its type, its call id, whether it carries a  *)
(* frame, whether its tool moves the robot, and an estimate of its size.   *)
(***************************************************************************)
EXTENDS Integers, Sequences, FiniteSetsExt, Functions

CONSTANTS
  CallId,       \* the tool calls of a run of the model
  NoCall,       \* the call id of an item that is no tool item
  MaxTokens,    \* max_context_tokens; 0 disables the bound
  ImageTokens,  \* IMAGE_TOKEN_ESTIMATE
  LineSizes,    \* the estimates of the operator's lines
  OutputSizes,  \* the estimates of tool outputs without a frame
  MaxBatch,     \* bound: the parallel tool calls of one model response
  MaxCommands   \* bound: the commands of the session

ASSUME WindowAssumption ==
  /\ NoCall \notin CallId
  /\ MaxTokens \in Nat
  /\ ImageTokens \in Nat \ {0}
  /\ LineSizes \cup OutputSizes \subseteq Nat \ {0}
  /\ MaxBatch \in Nat \ {0}
  /\ MaxCommands \in Nat

VARIABLES
  compactLocally,  \* compact_locally: TRUE for Ollama, FALSE for OpenAI
  thread,     \* the items of the conversation, as the next request has them
  turnStart,  \* where the items of the current command begin
  commands,   \* the commands so far
  phase,      \* "idle", "request" (the filter is next) or "response"
  visual,     \* completed_call_ids and the latest_image_... fields
  shown       \* the input of the latest model request

vars == <<compactLocally, thread, turnStart, commands, phase, visual, shown>>

Item == [type: {"system", "user", "message", "call", "output", "compaction"},
         id: CallId \cup {NoCall}, image: BOOLEAN, moves: BOOLEAN,
         size: LineSizes \cup OutputSizes \cup {1}]

Plain(type) == [type |-> type, id |-> NoCall, image |-> FALSE, moves |-> FALSE, size |-> 1]

NoVisual == [completed |-> {}, id |-> NoCall, pair |-> <<>>, valid |-> FALSE]

TypeOK ==
  /\ compactLocally \in BOOLEAN
  /\ thread \in Seq(Item)
  /\ turnStart \in 0..Len(thread)
  /\ commands \in 0..MaxCommands
  /\ phase \in {"idle", "request", "response"}
  /\ visual \in [completed: SUBSET CallId, id: CallId \cup {NoCall},
                 pair: Seq(Item), valid: BOOLEAN]
  /\ shown \in Seq(Item)

IsCall(item) == item.type = "call"
IsOutput(item) == item.type = "output"

CallsIn(items) == {items[i].id : i \in {j \in DOMAIN items : IsCall(items[j])}}
OutputsIn(items) == {items[i].id : i \in {j \in DOMAIN items : IsOutput(items[j])}}

OutputOf(items, id) ==
  items[CHOOSE i \in DOMAIN items : IsOutput(items[i]) /\ items[i].id = id]

-----------------------------------------------------------------------------
(* The latest camera frame. *)

\* Mutant: a tool that moves the robot does not invalidate the frame.
StillValid(call, valid) == valid

\* _is_environment_changing_tool: the robot has moved, the frame is old.
ValidAfter(call, valid) == valid /\ ~call.moves

\* A completed call that returned a frame makes it the current one.
Observe(seen, call, output) ==
  IF output.image
  THEN [completed |-> seen.completed \cup {call.id}, id |-> call.id,
        pair |-> <<call, output>>, valid |-> TRUE]
  ELSE [seen EXCEPT !.completed = @ \cup {call.id}, !.valid = ValidAfter(call, @)]

\* One turn of its loop: a call that has completed since the last request is
\* observed, with its output.
ObserveItem(items, seen, item) ==
  IF IsCall(item) /\ item.id \in OutputsIn(items) /\ item.id \notin seen.completed
  THEN Observe(seen, item, OutputOf(items, item.id))
  ELSE seen

\* _update_visual_state: the items one by one, in the order of the calls.
UpdateVisualState(seen, items) ==
  LET after[n \in 0..Len(items)] ==
        IF n = 0 THEN seen ELSE ObserveItem(items, after[n - 1], items[n])
  IN after[Len(items)]

-----------------------------------------------------------------------------
(* The window. *)

\* _estimate_tokens: a frame is charged a flat cost.
EstimateTokens(item) == IF item.image THEN ImageTokens ELSE item.size

Tokens(items) ==
  LET total[n \in 0..Len(items)] ==
        IF n = 0 THEN 0 ELSE total[n - 1] + EstimateTokens(items[n])
  IN total[Len(items)]

\* _preamble_end
PreambleEnd(items) ==
  Max({k \in 0..Len(items) : \A i \in 1..k : items[i].type = "system"})

From(items, k) == SubSeq(items, k, Len(items))

\* Mutant: the item that exceeds the budget is kept.
OneTooMany(body) ==
  Min({k \in DOMAIN body : k = Len(body) \/ Tokens(From(body, k + 1)) <= MaxTokens})

\* Where the most recent items that fit the budget begin; the last item is kept
\* whatever its size.
WindowStart(body) ==
  Min({k \in DOMAIN body : k = Len(body) \/ Tokens(From(body, k)) <= MaxTokens})

\* The leading outputs whose calls fell out of the window are dropped...
DropLeadingOutputs(items) ==
  LET orphan(i) == IsOutput(items[i]) /\ items[i].id \notin CallsIn(items)
  IN From(items, Min({i \in 1..Len(items) + 1 : i > Len(items) \/ ~orphan(i)}))

\* ...and so are the trailing calls that have no output.
DropTrailingCalls(items) ==
  LET orphan(i) == IsCall(items[i]) /\ items[i].id \notin OutputsIn(items)
  IN SubSeq(items, 1, Max({i \in 0..Len(items) : i = 0 \/ ~orphan(i)}))

\* _repair_tool_pairing
RepairToolPairing(items) == DropTrailingCalls(DropLeadingOutputs(items))

TrimToTokenBudget(items) ==
  LET head == PreambleEnd(items)
      body == From(items, head + 1)
  IN IF MaxTokens = 0 \/ body = <<>> \/ WindowStart(body) = 1
     THEN items
     ELSE SubSeq(items, 1, head) \o RepairToolPairing(From(body, WindowStart(body)))

\* The latest compaction marker supersedes everything before it.
TruncateAtServerCompaction(items) ==
  From(items, Max({1} \cup {i \in DOMAIN items : items[i].type = "compaction"}))

\* Mutant: a current frame that fell out of the window is not put back.
NotRestored(seen, items) == items

\* Mutant: only the output is put back.
RestoredWithoutCall(seen, items) ==
  IF seen.valid /\ seen.id \notin OutputsIn(items)
  THEN Append(items, seen.pair[2])
  ELSE items

\* _restore_current_image
RestoreCurrentImage(seen, items) ==
  IF seen.valid /\ seen.id \notin OutputsIn(items) THEN items \o seen.pair ELSE items

SanitizeImages(item) == [item EXCEPT !.image = FALSE]

\* retain_current_image
RetainCurrentImage(seen, items) ==
  [i \in DOMAIN items |->
     IF IsOutput(items[i]) /\ items[i].image /\ ~(seen.valid /\ items[i].id = seen.id)
     THEN SanitizeImages(items[i])
     ELSE items[i]]

Window(items) ==
  IF compactLocally THEN TrimToTokenBudget(items) ELSE TruncateAtServerCompaction(items)

-----------------------------------------------------------------------------
(* The session. *)

Init ==
  /\ compactLocally \in BOOLEAN
  /\ thread \in {<<>>, <<Plain("system")>>}
  /\ turnStart = 0
  /\ commands = 0
  /\ phase = "idle"
  /\ visual = NoVisual
  /\ shown = <<>>

\* ImageSanitizingSQLiteSession.add_items
StoredInSession(items) == [i \in DOMAIN items |-> SanitizeImages(items[i])]

\* compose_command_input: what the operator says.
Line(size) == [Plain("user") EXCEPT !.size = size]

\* run_turn: the line joins the stored thread; the visual state starts afresh.
BeginCommand ==
  /\ phase = "idle"
  /\ commands < MaxCommands
  /\ commands' = commands + 1
  /\ turnStart' = Len(thread)
  /\ \E size \in LineSizes : thread' = Append(StoredInSession(thread), Line(size))
  /\ visual' = NoVisual
  /\ phase' = "request"
  /\ UNCHANGED <<compactLocally, shown>>

\* filter_model_input
FilterModelInput ==
  /\ phase = "request"
  /\ visual' = UpdateVisualState(visual, thread)
  /\ shown' = RetainCurrentImage(visual', RestoreCurrentImage(visual', Window(thread)))
  /\ phase' = "response"
  /\ UNCHANGED <<compactLocally, thread, turnStart, commands>>

\* What the tools of a batch of calls do: one effect per call.  Of a frame a short
\* placeholder is left when it is sanitized.
Effect == [image: {FALSE}, moves: BOOLEAN, size: OutputSizes]
            \cup [image: {TRUE}, moves: BOOLEAN, size: {1}]

CallItem(id, e) == [Plain("call") EXCEPT !.id = id, !.moves = e.moves]

OutputItem(id, e) == [Plain("output") EXCEPT !.id = id, !.image = e.image, !.size = e.size]

\* The model calls tools, and their outputs join the thread.  The response may open
\* with a message, or a piece of reasoning, that stands beside the calls.
ModelCallsTools(ids, effects, opening) ==
  /\ phase = "response"
  /\ thread' = thread \o opening
                 \o [i \in DOMAIN ids |-> CallItem(ids[i], effects[i])]
                 \o [i \in DOMAIN ids |-> OutputItem(ids[i], effects[i])]
  /\ phase' = "request"
  /\ UNCHANGED <<compactLocally, turnStart, commands, visual, shown>>

\* The model answers: the turn is over.
ModelAnswers ==
  /\ phase = "response"
  /\ thread' = Append(thread, Plain("message"))
  /\ phase' = "idle"
  /\ UNCHANGED <<compactLocally, turnStart, commands, visual, shown>>

\* The request fails, or max_turns ends the turn.
TurnFails ==
  /\ phase \in {"request", "response"}
  /\ phase' = "idle"
  /\ UNCHANGED <<compactLocally, thread, turnStart, commands, visual, shown>>

Unused == CallId \ CallsIn(thread)

Batches == {ids \in UNION {[1..n -> Unused] : n \in 1..MaxBatch} : IsInjective(ids)}

\* On the server's side of the OpenAI path it may open with a compaction marker.
Openings ==
  {<<>>, <<Plain("message")>>}
    \cup (IF compactLocally THEN {} ELSE {<<Plain("compaction")>>})

Next ==
  \/ BeginCommand
  \/ FilterModelInput
  \/ \E ids \in Batches : \E effects \in [DOMAIN ids -> Effect], opening \in Openings :
       ModelCallsTools(ids, effects, opening)
  \/ ModelAnswers
  \/ TurnFails

Spec == Init /\ [][Next]_vars

-----------------------------------------------------------------------------
(* Properties. *)

\* The outputs of the current command, in the order the tools ran.
TurnOutputs ==
  {i \in turnStart + 1..Len(thread) : IsOutput(thread[i])}

Moved(i) ==
  /\ ~thread[i].image
  /\ \E j \in DOMAIN thread : IsCall(thread[j]) /\ thread[j].id = thread[i].id /\ thread[j].moves

\* The call whose frame shows what the robot sees now: the last frame of this
\* command, unless a tool has moved the robot since.
CurrentFrames ==
  {thread[i].id : i \in {k \in TurnOutputs :
     thread[k].image /\ \A j \in TurnOutputs : j > k => ~thread[j].image /\ ~Moved(j)}}

ImagesShown == {i \in DOMAIN shown : shown[i].image}

\* README.md:53: only the latest valid image is shown; after the robot moved, or
\* in a later command, no frame can be mistaken for the current view.
ImageIsCurrent ==
  phase = "response" =>
    /\ Cardinality(ImagesShown) <= 1
    /\ \A i \in ImagesShown : shown[i].id \in CurrentFrames

\* The current frame is always shown, even when the window that fits the budget
\* or that starts at the compaction marker has lost it.
CurrentFrameShown ==
  phase = "response" =>
    \A id \in CurrentFrames : \E i \in ImagesShown : shown[i].id = id

\* What is shown, without the preamble and the frame that was put back: its
\* cost is within the budget, or it is one item, however large.
BudgetKept ==
  phase = "response" /\ compactLocally /\ MaxTokens > 0 =>
    LET window == Window(thread)
        body == From(window, PreambleEnd(window) + 1)
    IN Tokens(body) <= MaxTokens \/ Len(body) = 1

\* Every call has its output behind it, every output its call before it, once.
Paired(items) ==
  \A id \in CallsIn(items) \cup OutputsIn(items) :
    \E i, j \in DOMAIN items :
      /\ i < j
      /\ {k \in DOMAIN items : IsCall(items[k]) /\ items[k].id = id} = {i}
      /\ {k \in DOMAIN items : IsOutput(items[k]) /\ items[k].id = id} = {j}

\* context_window.py:109: the cut is repaired so that no tool call or output is
\* orphaned.
NoOrphans == phase = "response" => Paired(shown)

\* No response has called two tools: between two calls there is an output.
InSequence ==
  \A i, j \in DOMAIN thread :
    i < j /\ IsCall(thread[i]) /\ IsCall(thread[j]) =>
      \E k \in i + 1..j - 1 : IsOutput(thread[k])

\* That is so while the model calls one tool at a time, and, on the OpenAI path,
\* where a compaction marker never parts a call from its output, at all times.
NoOrphansUnlessParallel == InSequence \/ ~compactLocally => NoOrphans

\* context_window.py:108: at least one item of the thread's body is kept.
AtLeastOneKept ==
  phase = "response" => \E i \in DOMAIN shown : shown[i].type # "system"
=============================================================================
