----------------------------- MODULE SessionUsage -----------------------------
(***************************************************************************)
(* SessionUsage (src/diffbot_agent/session_usage.py) as the runtime feeds  *)
(* it (openai_agents_runtime.py) under the RuntimeController: counters that*)
(* every model call of a turn adds to, that reset() zeroes, and that a turn*)
(* reads when it begins and when it ends, to print what it has used.       *)
(*                                                                         *)
(* Token counts are small numbers: a model call reports nothing, an empty  *)
(* usage, or one with tokens; a backend that reports no input still counts *)
(* as a request.  The cost is a linear function of the two token counters, *)
(* and cached and reasoning tokens are parts of them, so none has a variable*)
(* here.                                                                   *)
(***************************************************************************)
EXTENDS RuntimeController, Integers, TLC

CONSTANTS
  MaxTokens,    \* the most tokens of a model call, each way
  MaxRequests   \* bound: the model calls in all

ASSUME UsageAssumption == MaxTokens \in Nat /\ MaxRequests \in Nat

VARIABLES
  usage,     \* the counters
  before,    \* usage_before of each turn
  summary,   \* the delta that a turn has printed
  spent,     \* history: what the model calls of each turn have used
  calls      \* history: how many model calls there were

usageVars == <<usage, before, summary, spent, calls>>

countedVars == <<vars, usageVars>>

Snapshot == [requests: Nat, input: Nat, output: Nat]

NoTokens == [requests |-> 0, input |-> 0, output |-> 0]

ZeroUsage == [requests |-> 0, input |-> 0, output |-> 0, context |-> 0]

UsageTypeOK ==
  /\ TypeOK
  /\ usage \in [requests: Nat, input: Nat, output: Nat, context: Nat]
  /\ before \in [Call -> Snapshot]
  /\ summary \in [Call -> Snapshot]
  /\ spent \in [Call -> Snapshot]
  /\ calls \in 0..MaxRequests

UsageInit ==
  /\ Init
  /\ usage = ZeroUsage
  /\ before = [c \in Call |-> NoTokens]
  /\ summary = [c \in Call |-> NoTokens]
  /\ spent = [c \in Call |-> NoTokens]
  /\ calls = 0

-----------------------------------------------------------------------------
(* The operations of SessionUsage. *)

snapshot(u) == [requests |-> u.requests, input |-> u.input, output |-> u.output]

\* Field by field.
Plus(a, b) == [requests |-> a.requests + b.requests, input |-> a.input + b.input,
               output |-> a.output + b.output]

delta_since(u, s) == [requests |-> u.requests - s.requests, input |-> u.input - s.input,
                      output |-> u.output - s.output]

\* Mutant: a call that reports no input empties the gauge.
GaugeFollowsEveryCall(u, call_) == call_.input

\* The gauge of the context: the input of the latest call that had any.
Gauge(u, call_) == IF call_.input # 0 THEN call_.input ELSE u.context

\* Adding a usage of zeros changes nothing, so `None' and it are the same.
add(u, call_) ==
  [requests |-> u.requests + call_.requests, input |-> u.input + call_.input,
   output |-> u.output + call_.output, context |-> Gauge(u, call_)]

ModelUsage ==
  {NoTokens} \cup [requests: {1}, input: 0..MaxTokens, output: 0..MaxTokens]

-----------------------------------------------------------------------------
(* Where the runtime uses them. *)

\* run_turn takes its snapshot when it begins.
CountedBegins(c) ==
  /\ CommandBegins(c)
  /\ before' = [before EXCEPT ![c] = snapshot(usage)]
  /\ UNCHANGED <<usage, summary, spent, calls>>

\* on_llm_end.  A run whose stream is left is cancelled by the SDK, and makes no
\* model call after it.
ModelCallEnds(c, call_) ==
  /\ turn[c] = "running"
  /\ calls < MaxRequests
  /\ calls' = calls + 1
  /\ usage' = add(usage, call_)
  /\ spent' = [spent EXCEPT ![c] = Plus(@, call_)]
  /\ UNCHANGED <<vars, before, summary>>

\* A turn that has completed prints its delta; the others print nothing.
CountedEnds(c) ==
  /\ CommandEnds(c)
  /\ summary' = [summary EXCEPT ![c] =
       IF outcome'[c] = "completed" THEN delta_since(usage, before[c]) ELSE @]
  /\ UNCHANGED <<usage, before, spent, calls>>

\* Mutant: the reset does not try the lock.
ResetsWithoutLock(c) ==
  /\ Arrives(c)
  /\ c \notin A2ACall
  /\ ResetBegins(c)
  /\ call' = [call EXCEPT ![c] = "reset"]
  /\ lock' = c
  /\ usage' = ZeroUsage
  /\ UNCHANGED <<server, signals, outcome, early, before, summary, spent, calls>>

\* reset() zeroes the counters, then clears the session.
CountedResets(c) ==
  /\ ControllerResets(c)
  /\ usage' = ZeroUsage
  /\ UNCHANGED <<before, summary, spent, calls>>

\* A turn that is cancelled prints nothing.
CountedCancelled(c) == CommandCancelled(c) /\ UNCHANGED usageVars

UncountedStep(c) ==
  /\ \/ CallBusy(c) \/ CommandEmpty(c) \/ CommandRefused(c) \/ Timeout(c) \/ Cancel(c)
     \/ ControllerResetEnds(c) \/ WriteEnds(c)
  /\ UNCHANGED usageVars

-----------------------------------------------------------------------------
(* Properties. *)

Completed == {c \in Call : turn[c] = "over" /\ outcome[c] = "completed"}

\* What a completed turn prints is what its own model calls have used: no other
\* turn, and no reset, comes between its snapshot and its delta.
SummaryIsOwn == \A c \in Completed : summary[c] = spent[c]

\* The gauge is the input of one model call since the last reset, and not more
\* than the input counter, which is what a reset made of it and the calls since.
GaugeWithinInput ==
  /\ usage.context <= MaxTokens
  /\ usage.context <= usage.input
  /\ usage.input # 0 => usage.context # 0
=============================================================================
