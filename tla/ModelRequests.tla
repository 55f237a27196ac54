---------------------------- MODULE ModelRequests -----------------------------
(***************************************************************************)
(* OllamaVisionChatCompletionsModel (src/diffbot_agent/                    *)
(* ollama_vision_provider.py): while a request to the model is being sent, *)
(* a converter of the Agents SDK, which belongs to a class, is replaced by *)
(* one that preserves the images in the outputs of tools.                  *)
(*                                                                         *)
(* This refines the model calls of SessionUsage: _fetch_response sends the *)
(* request and suspends until the response begins, then the response is    *)
(* read and counted.  The items are converted before it suspends, by the   *)
(* converter it has installed.  A turn that is cancelled leaves the stream *)
(* of its run; the run's task is cancelled by the SDK and unwinds on its   *)
(* own, at the latest some time after the next turn has begun.             *)
(***************************************************************************)
EXTENDS SessionUsage

VARIABLES
  request,    \* where the model request of each turn is
  converter,  \* Converter.items_to_messages: "sdk", or a replacement of it
  saved,      \* what the request of each turn has saved
  overlap     \* history: a request was begun while another was being sent

requestVars == <<request, converter, saved, overlap>>

modelVars == <<countedVars, requestVars>>

Sending == {c \in Call : request[c] \in {"fetching", "unwinding"}}

RequestsInit ==
  /\ UsageInit
  /\ request = [c \in Call |-> "none"]
  /\ converter = "sdk"
  /\ saved = [c \in Call |-> "sdk"]
  /\ overlap = FALSE

\* Mutant: the converter is put back when the request has been sent, not when it
\* has failed or was cancelled.
RestoredWhenFetched(c) == IF request'[c] = "streaming" THEN saved[c] ELSE converter

\* The finally clause.
Restored(c) == saved[c]

\* _fetch_response up to its suspension: a replacement calls what it replaces.
RequestBegins(c) ==
  /\ turn[c] = "running"
  /\ request[c] = "none"
  /\ calls < MaxRequests
  /\ request' = [request EXCEPT ![c] = "fetching"]
  /\ saved' = [saved EXCEPT ![c] = converter]
  /\ converter' = "preserving"
  /\ overlap' = (overlap \/ Sending # {})
  /\ UNCHANGED countedVars

LeaveFetch(c, next) ==
  /\ request' = [request EXCEPT ![c] = next]
  /\ converter' = Restored(c)
  /\ UNCHANGED <<saved, overlap>>

\* The response begins.
RequestFetched(c) ==
  /\ request[c] = "fetching"
  /\ LeaveFetch(c, "streaming")
  /\ UNCHANGED countedVars

\* It has been read: on_llm_end.
ResponseEnds(c, call_) ==
  /\ request[c] = "streaming"
  /\ ModelCallEnds(c, call_)
  /\ request' = [request EXCEPT ![c] = "none"]
  /\ UNCHANGED <<converter, saved, overlap>>

\* A turn completes between its requests, and may fail in one.
TurnLeavesRequest(c) ==
  /\ CountedEnds(c)
  /\ request[c] # "none" => outcome'[c] = "failed"
  /\ IF request[c] = "fetching" THEN LeaveFetch(c, "none")
     ELSE /\ request' = [request EXCEPT ![c] = "none"]
          /\ UNCHANGED <<converter, saved, overlap>>

TurnCutsRequest(c) ==
  /\ CountedCancelled(c)
  /\ request' = [request EXCEPT ![c] = IF @ = "fetching" THEN "unwinding" ELSE "none"]
  /\ UNCHANGED <<converter, saved, overlap>>

RequestUnwinds(c) ==
  /\ request[c] = "unwinding"
  /\ LeaveFetch(c, "none")
  /\ UNCHANGED countedVars

RequestsNext ==
  \/ Lifespan /\ UNCHANGED <<usageVars, requestVars>>
  \/ \E c \in Call :
       \/ (CountedBegins(c) \/ CountedResets(c)) /\ UNCHANGED requestVars
       \/ RequestBegins(c) \/ RequestFetched(c) \/ RequestUnwinds(c)
       \/ \E call_ \in ModelUsage : ResponseEnds(c, call_)
       \/ TurnLeavesRequest(c)
       \/ TurnCutsRequest(c)
       \/ UncountedStep(c) /\ UNCHANGED requestVars

RequestsSpec == RequestsInit /\ [][RequestsNext]_modelVars

-----------------------------------------------------------------------------
\* Until two requests have been under way at once, the SDK's own converter is back
\* whenever none is, however the last one ended, and is replaced while one is.
\* (Two that overlap and end in the order in which they began leave the first
\* one's replacement behind.)
ConverterScoped ==
  ~overlap => converter = IF Sending = {} THEN "sdk" ELSE "preserving"
=============================================================================
