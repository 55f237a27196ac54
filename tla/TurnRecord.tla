------------------------------ MODULE TurnRecord ------------------------------
(***************************************************************************)
(* What remains of one turn, beside the log of its MCP calls (RunLog): the *)
(* items in the SDK's session, and what the record and the episode draft   *)
(* say of the calls that ToolRecord puts in them (src/diffbot_agent/       *)
(* episode.py).  Timestamps, durations and the limits on lengths are left  *)
(* out.                                                                    *)
(***************************************************************************)
EXTENDS ToolRecord, Sanitizer

\* The arguments of a call are of any form, but a base64 that is passed to a tool is
\* that of a data URL.
ASSUME RecordAssumption ==
  /\ Output \subseteq WellFormed[MaxDepth]
  /\ Argument \subseteq {v \in Json[MaxDepth] : "base64" \notin PartsOf(v)}

VARIABLE stored       \* the items in the SDK's session

vars == <<recordVars, stored>>

Init == RecordInit /\ stored = <<>>

-----------------------------------------------------------------------------
(* The session. *)

\* add_items of the session, which sanitizes a copy: a call's arguments are the
\* JSON text of what the model has passed.
AddItems(new) ==
  [i \in DOMAIN new |-> [new[i] EXCEPT !.value =
     sanitize_images(IF IsCall(new[i]) THEN JsonText(@) ELSE @)]]

\* The form in which the SDK writes an MCP result: a text, or texts and images.
IsSdkForm(v) ==
  \/ v.kind = "str"
  \/ /\ v.kind = "list"
     /\ \A x \in v.items :
          /\ x.kind = "dict"
          /\ \/ x.type = "input_image"
             \/ x.type = "input_text" /\ \A f \in x.fields : f.key = "text" /\ f.value.kind = "str"

\* The SDK saves the items of a response when its tools have run.
ToolsSaved(results) ==
  /\ ToolsEnd(results)
  /\ stored' = stored \o AddItems(BatchItems(results))
  /\ Unrecorded

-----------------------------------------------------------------------------
(* The record and the episode draft. *)

OutputOf(id) == items[CHOOSE i \in DOMAIN items : IsOutput(items[i]) /\ items[i].id = id].value

OutputPreview(output) ==
  LET value == remove_image_placeholders(sanitize_images(output))
  IN IF value \in Empty THEN Str({})
     ELSE IF value.kind = "str" THEN value ELSE json_dump(value)

\* compact_tool_event; its name and category are those of the call.
CompactToolEvent(call) ==
  [arguments |-> sanitize_images(call.value), output |-> OutputPreview(OutputOf(call.id))]

\* _memory_safe_value
MemorySafeValue(v) == remove_image_placeholders(sanitize_images(v))

\* _memory_draft_tool_event; an empty field is one that is left out.
DraftEvent(event) == [field \in DOMAIN event |-> MemorySafeValue(event[field])]

\* What the record and the draft say of the calls.
ToolEvents == [i \in DOMAIN recorded |-> CompactToolEvent(recorded[i])]
DraftEvents == [i \in DOMAIN drafted |-> DraftEvent(CompactToolEvent(drafted[i]))]

Next ==
  \/ \E results \in [DOMAIN batch -> Output] : ToolsSaved(results)
  \/ /\ \/ /\ \/ \E n \in 1..MaxBatch : \E asked \in [1..n -> Asked] : ModelCalls(asked)
              \/ HandleEvent
           /\ Unrecorded
        \/ StreamEnds \/ StreamRaises \/ Cancelled
     /\ UNCHANGED stored

Spec == Init /\ [][Next]_vars

-----------------------------------------------------------------------------
(* Properties. *)

\* No image reaches what outlives the turn, however deep it was and whatever its
\* form: neither the session nor the record nor the memory, which has not even a
\* placeholder, and which keeps the words of an output that had an image among them.
\* (Of the arguments of a call the session has the text, in which only a data URL is
\* found.)  And no output in the session is one that a later turn would take for a
\* camera frame, which it does when contains_image says so.  (One with an image_url
\* key of its own would be; diffbot-mcp's results have their images in items of type
\* input_image.)
NoImageKept ==
  /\ \A i \in DOMAIN stored :
       /\ ~HasImageData(stored[i].value)
       /\ IsOutput(stored[i]) /\ IsSdkForm(items[i].value) => ~contains_image(stored[i].value)
  /\ \A i \in DOMAIN ToolEvents : \A field \in DOMAIN ToolEvents[i] :
       ~HasImageData(ToolEvents[i][field])
  /\ \A i \in DOMAIN DraftEvents :
       LET found(field) == PartsOf(DraftEvents[i][field])
       IN /\ (found("arguments") \cup found("output")) \cap {"dataURL", "base64", "placeholder"} = {}
          /\ "words" \in PartsOf(OutputOf(drafted[i].id)) => "words" \in found("output")
=============================================================================
