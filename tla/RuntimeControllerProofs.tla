----------------------- MODULE RuntimeControllerProofs -----------------------
(***************************************************************************)
(* The controller, and the three that are built on it.                     *)
(*                                                                         *)
(* For every set of calls: the controller admits one call at a time to the *)
(* runtime, the shutdown does not cut off the episodes of the turns that   *)
(* ended before it, and the whole implements CommandService.               *)
(*                                                                         *)
(* For any number of A2A tasks and other clients: what a task is told is   *)
(* what became of its command, and an end is told only when the command is *)
(* out of the runtime.                                                     *)
(*                                                                         *)
(* For any number of model requests: the converter of the SDK is put back, *)
(* and a turn's summary is its own.  What makes it so is that the          *)
(* controller serves one call at a time.                                   *)
(*                                                                         *)
(* The controller's theorems hold for the tasks and the requests as they   *)
(* are, since every step of those is a step of the controller or leaves it *)
(* alone.                                                                  *)
(***************************************************************************)
EXTENDS A2ATasks, ModelRequests, TLAPS

-----------------------------------------------------------------------------
(* One call at a time. *)

LEMMA TypeStep == TypeOK /\ [Next]_vars => TypeOK'
<1> SUFFICES ASSUME TypeOK, [Next]_vars PROVE TypeOK'
  OBVIOUS
<1> USE ControllerAssumption DEF TypeOK, RuntimeTypeOK, lifeVars
<1>1. CASE Lifespan
  <2>1. CASE ServerStarts \/ ServerFails
    BY <2>1 DEF ServerStarts, ServerFails, StartSucceeds, StartRaises
  <2>2. CASE ServerDrains
    BY <2>2 DEF ServerDrains, runtimeVars
  <2>3. CASE ControllerStops
    BY <2>3 DEF ControllerStops, StopBegins, ToFlush, Pending, AfterFlush
  <2>4. CASE StopGoesOn
    BY <2>4 DEF StopGoesOn, Flushed, AfterFlush, Disconnected, ctrlVars
  <2>5. CASE StopEnds
    BY <2>5 DEF StopEnds, DisconnectRaises, StackCloses
  <2> QED
    BY <1>1, <2>1, <2>2, <2>3, <2>4, <2>5 DEF Lifespan
<1>2. ASSUME NEW c \in Call, CallStep(c) PROVE TypeOK'
  <2>1. CASE CallBusy(c) \/ CommandEmpty(c)
    BY <2>1 DEF CallBusy, CommandEmpty, Returns, runtimeVars, Status
  <2>2. CASE CommandBegins(c)
    BY <2>2 DEF CommandBegins, TurnBegins
  <2>3. CASE CommandRefused(c)
    BY <2>3 DEF CommandRefused, TurnRefused, Returns, runtimeVars, Status
  <2>4. CASE Timeout(c) \/ Cancel(c)
    BY <2>4 DEF Timeout, Cancel, runtimeVars
  <2>5. CASE CommandEnds(c)
    BY <2>5 DEF CommandEnds, TurnEnds, AddEpisode, Leaves, Returns, Released, Status
  <2>6. CASE CommandCancelled(c)
    BY <2>6 DEF CommandCancelled, TurnCancelled, Leaves, Returns, Released, Status
  <2>7. CASE ControllerResets(c)
    BY <2>7 DEF ControllerResets, ResetBegins
  <2>8. CASE ControllerResetEnds(c)
    BY <2>8 DEF ControllerResetEnds, ResetEnds, Leaves, Returns, Released, Status
  <2>9. CASE WriteEnds(c)
    BY <2>9 DEF WriteEnds, EpisodeWritten, ctrlVars
  <2> QED
    BY <1>2, <2>1, <2>2, <2>3, <2>4, <2>5, <2>6, <2>7, <2>8, <2>9 DEF CallStep
<1>3. CASE UNCHANGED vars
  BY <1>3 DEF vars, runtimeVars, ctrlVars
<1> QED
  BY <1>1, <1>2, <1>3 DEF Next

\* A step of the lifespan leaves the calls, the turns and the lock alone.
LEMMA LifespanLeavesCalls == Lifespan => UNCHANGED <<lock, call, outcome, turn>>
BY DEF Lifespan, ServerStarts, ServerFails, StartSucceeds, StartRaises, ServerDrains,
       ControllerStops, StopBegins, StopGoesOn, Flushed, Disconnected, StopEnds,
       DisconnectRaises, StackCloses, runtimeVars, ctrlVars

LEMMA OneCallStep == TypeOK /\ OneCallInRuntime /\ [Next]_vars => OneCallInRuntime'
<1> SUFFICES ASSUME TypeOK, OneCallInRuntime, [Next]_vars PROVE OneCallInRuntime'
  OBVIOUS
<1> USE ControllerAssumption DEF TypeOK, RuntimeTypeOK, OneCallInRuntime, Uses, Active
<1>1. CASE Lifespan
  BY <1>1, LifespanLeavesCalls
<1>2. ASSUME NEW c \in Call, CallStep(c) PROVE OneCallInRuntime'
  <2>1. CASE CallBusy(c) \/ CommandEmpty(c) \/ CommandRefused(c)
    BY <2>1 DEF CallBusy, CommandEmpty, CommandRefused, TurnRefused, Arrives, Returns, runtimeVars
  <2>2. CASE CommandBegins(c)
    BY <2>2 DEF CommandBegins, TurnBegins
  <2>3. CASE Timeout(c) \/ Cancel(c)
    BY <2>3 DEF Timeout, Cancel, runtimeVars
  <2>4. CASE CommandEnds(c)
    BY <2>4 DEF CommandEnds, TurnEnds, Leaves, Returns, Released
  <2>5. CASE CommandCancelled(c)
    BY <2>5 DEF CommandCancelled, TurnCancelled, Leaves, Returns, Released
  <2>6. CASE ControllerResets(c)
    BY <2>6 DEF ControllerResets, ResetBegins
  <2>7. CASE ControllerResetEnds(c)
    BY <2>7 DEF ControllerResetEnds, ResetEnds, Leaves, Returns, Released
  <2>8. CASE WriteEnds(c)
    BY <2>8 DEF WriteEnds, EpisodeWritten, ctrlVars
  <2> QED
    BY <1>2, <2>1, <2>2, <2>3, <2>4, <2>5, <2>6, <2>7, <2>8 DEF CallStep
<1>3. CASE UNCHANGED vars
  BY <1>3 DEF vars, runtimeVars, ctrlVars
<1> QED
  BY <1>1, <1>2, <1>3 DEF Next

LEMMA InitInvariant == Init => TypeOK /\ OneCallInRuntime
<1> USE ControllerAssumption DEF Init, RuntimeInit
<1>1. Init => RuntimeTypeOK
  BY DEF RuntimeTypeOK
<1>2. Init => TypeOK
  BY <1>1 DEF TypeOK
<1>3. Init => OneCallInRuntime
  BY DEF OneCallInRuntime, Uses, Active
<1> QED
  BY <1>2, <1>3

\* The state of every behaviour is well formed.
THEOREM ControllerTypeCorrect == SafetySpec => []TypeOK
<1>1. Init => TypeOK
  BY InitInvariant
<1> QED
  BY <1>1, TypeStep, PTL DEF SafetySpec

\* One call at a time is in the runtime and holds the lock, and a call that has
\* returned has left nothing running.
THEOREM OneCallAtATime == SafetySpec => []OneCallInRuntime
<1>1. Init => OneCallInRuntime
  BY InitInvariant
<1> QED
  BY <1>1, ControllerTypeCorrect, OneCallStep, PTL DEF SafetySpec

-----------------------------------------------------------------------------
(* The writes and the shutdown. *)

\* Which fields are there in which stage.
FieldsFollowStage ==
  /\ stage = "new" => server = "starting" /\ ~connected /\ \A c \in Call : turn[c] = "none"
  /\ stage = "up" => memory
  /\ stage \in {"new", "up"} => early = {} /\ \A c \in Call : episode[c] # "cut"
  /\ stage \in {"flushing", "disconnecting", "closing"} => server = "stopping"
  /\ server = "draining" => stage = "up"
  /\ server = "serving" => stage = "up"

\* The calls of before are over, and gather waits for what they left to write.
EarlyCallsAreOver ==
  /\ \A c \in early : call[c] = "returned"
  /\ \A c \in early : episode[c] = "remembering" => stage = "flushing" /\ c \in flush

RecordedSoFar ==
  \A c \in Call :
    turn[c] = "over" /\ signals[c] = {} /\ (stage = "up" \/ c \in early) => episode[c] # "none"

\* The inductive invariant.
WritesInv ==
  /\ FieldsFollowStage
  /\ EarlyCallsAreOver
  /\ WritesHaveConnection
  /\ EarlyEpisodesNotCut
  /\ RecordedSoFar

LEMMA WritesStep ==
  TypeOK /\ OneCallInRuntime /\ WritesInv /\ [Next]_vars => WritesInv'
<1> SUFFICES ASSUME TypeOK, OneCallInRuntime, WritesInv, [Next]_vars PROVE WritesInv'
  OBVIOUS
<1> USE ControllerAssumption
    DEF TypeOK, RuntimeTypeOK, WritesInv, FieldsFollowStage, EarlyCallsAreOver,
        WritesHaveConnection, EarlyEpisodesNotCut, RecordedSoFar, Pending
<1>1. CASE Lifespan
  <2>1. CASE ServerStarts \/ ServerFails
    BY <2>1 DEF ServerStarts, ServerFails, StartSucceeds, StartRaises
  <2>2. CASE ServerDrains
    <3>1. \A c \in Call : turn[c] = "over" => ~Active(c)
      BY DEF OneCallInRuntime, Uses
    <3> QED
      BY <2>2, <3>1 DEF ServerDrains, runtimeVars
  <2>3. CASE ControllerStops
    BY <2>3 DEF ControllerStops, StopBegins, ToFlush, AfterFlush
  <2>4. CASE StopGoesOn
    BY <2>4 DEF StopGoesOn, Flushed, AfterFlush, Disconnected, ctrlVars
  <2>5. CASE StopEnds
    <3>1. CASE DisconnectRaises
      BY <2>5, <3>1 DEF StopEnds, DisconnectRaises
    <3>2. CASE StackCloses
      BY <2>5, <3>2 DEF StopEnds, StackCloses
    <3> QED
      BY <2>5, <3>1, <3>2 DEF StopEnds
  <2> QED
    BY <1>1, <2>1, <2>2, <2>3, <2>4, <2>5 DEF Lifespan
<1>2. ASSUME NEW c \in Call, CallStep(c) PROVE WritesInv'
  <2>1. CASE CallBusy(c) \/ CommandEmpty(c) \/ CommandRefused(c)
    BY <2>1 DEF CallBusy, CommandEmpty, CommandRefused, TurnRefused, Arrives, Returns, runtimeVars
  <2>2. CASE CommandBegins(c) \/ ControllerResets(c)
    BY <2>2 DEF CommandBegins, ControllerResets, TurnBegins, ResetBegins, Arrives, lifeVars
  <2>3. CASE Timeout(c) \/ Cancel(c)
    BY <2>3 DEF Timeout, Cancel, runtimeVars
  <2>4. CASE CommandEnds(c)
    BY <2>4 DEF CommandEnds, TurnEnds, AddEpisode, Leaves, Returns, lifeVars
  <2>5. CASE CommandCancelled(c)
    BY <2>5 DEF CommandCancelled, TurnCancelled, GivesUp, Leaves, Returns, lifeVars
  <2>6. CASE ControllerResetEnds(c)
    BY <2>6 DEF ControllerResetEnds, ResetEnds, Leaves, Returns, lifeVars
  <2>7. CASE WriteEnds(c)
    BY <2>7 DEF WriteEnds, EpisodeWritten, lifeVars, ctrlVars
  <2> QED
    BY <1>2, <2>1, <2>2, <2>3, <2>4, <2>5, <2>6, <2>7 DEF CallStep
<1>3. CASE UNCHANGED vars
  BY <1>3 DEF vars, runtimeVars, ctrlVars
<1> QED
  BY <1>1, <1>2, <1>3 DEF Next

LEMMA WritesInvariant == SafetySpec => []WritesInv
<1>1. Init => WritesInv
  BY DEF Init, RuntimeInit, WritesInv, FieldsFollowStage, EarlyCallsAreOver,
         WritesHaveConnection, EarlyEpisodesNotCut, RecordedSoFar, Pending
<1> QED
  BY <1>1, ControllerTypeCorrect, OneCallAtATime, WritesStep, PTL DEF SafetySpec

\* The shutdown waits for the writes of the turns that ended before it.
THEOREM ShutdownKeepsEarlyEpisodes == SafetySpec => []EarlyEpisodesNotCut
<1>1. WritesInv => EarlyEpisodesNotCut
  BY DEF WritesInv
<1> QED
  BY <1>1, WritesInvariant, PTL

\* A write that is under way has a backend and its connection.
THEOREM WritesAreConnected == SafetySpec => []WritesHaveConnection
<1>1. WritesInv => WritesHaveConnection
  BY DEF WritesInv
<1> QED
  BY <1>1, WritesInvariant, PTL

\* A turn that was never told to give up, and that ended before the shutdown,
\* has left its episode.
THEOREM UndisturbedTurnsLeaveEpisodes == SafetySpec => []UndisturbedTurnsRecorded
<1>1. TypeOK /\ WritesInv => UndisturbedTurnsRecorded
  BY DEF TypeOK, WritesInv, RecordedSoFar, UndisturbedTurnsRecorded
<1> QED
  BY <1>1, ControllerTypeCorrect, WritesInvariant, PTL

-----------------------------------------------------------------------------
(* The controller implements CommandService. *)

\* The session is there from start() to stop() and at no other time.
SessionFollowsStage == session => stage = "up"

\* A call has no result before it returns.
ResultOnReturn == \A c \in Call : call[c] # "returned" => outcome[c] = "none"

ServiceInv == SessionFollowsStage /\ ResultOnReturn

LEMMA ServiceInvStep == TypeOK /\ ServiceInv /\ [Next]_vars => ServiceInv'
<1> SUFFICES ASSUME TypeOK, ServiceInv, [Next]_vars PROVE ServiceInv'
  OBVIOUS
<1> USE DEF TypeOK, RuntimeTypeOK, ServiceInv, SessionFollowsStage, ResultOnReturn, lifeVars
<1>1. CASE Lifespan
  <2>1. ResultOnReturn'
    BY <1>1, LifespanLeavesCalls
  <2>2. CASE ServerStarts \/ ServerFails
    BY <2>1, <2>2 DEF ServerStarts, ServerFails, StartSucceeds, StartRaises
  <2>3. CASE ServerDrains \/ ControllerStops
    BY <2>1, <2>3 DEF ServerDrains, ControllerStops, StopBegins, runtimeVars
  <2>4. CASE StopGoesOn
    <3>1. ~session /\ session' = session
      BY <2>4 DEF StopGoesOn, Flushed, Disconnected
    <3>2. ~session'
      BY <3>1
    <3> QED
      BY <2>1, <3>2
  <2>5. CASE StopEnds
    <3>1. ~session /\ session' = session
      BY <2>5 DEF StopEnds, DisconnectRaises, StackCloses
    <3>2. ~session'
      BY <3>1
    <3> QED
      BY <2>1, <3>2
  <2> QED
    BY <1>1, <2>2, <2>3, <2>4, <2>5 DEF Lifespan
<1>2. ASSUME NEW c \in Call, CallStep(c) PROVE ServiceInv'
  <2>1. CASE CallBusy(c) \/ CommandEmpty(c) \/ CommandRefused(c)
    BY <2>1 DEF CallBusy, CommandEmpty, CommandRefused, TurnRefused, Returns, runtimeVars
  <2>2. CASE CommandBegins(c) \/ ControllerResets(c)
    BY <2>2 DEF CommandBegins, ControllerResets, TurnBegins, ResetBegins, Arrives
  <2>3. CASE Timeout(c) \/ Cancel(c)
    BY <2>3 DEF Timeout, Cancel, runtimeVars
  <2>4. CASE CommandEnds(c) \/ CommandCancelled(c) \/ ControllerResetEnds(c)
    BY <2>4 DEF CommandEnds, CommandCancelled, ControllerResetEnds, TurnEnds, TurnCancelled,
                ResetEnds, Leaves, Returns
  <2>5. CASE WriteEnds(c)
    BY <2>5 DEF WriteEnds, EpisodeWritten, ctrlVars
  <2> QED
    BY <1>2, <2>1, <2>2, <2>3, <2>4, <2>5 DEF CallStep
<1>3. CASE UNCHANGED vars
  BY <1>3 DEF vars, runtimeVars, ctrlVars
<1> QED
  BY <1>1, <1>2, <1>3 DEF Next

LEMMA ServiceInvariant == SafetySpec => []ServiceInv
<1>1. Init => ServiceInv
  BY DEF Init, RuntimeInit, ServiceInv, SessionFollowsStage, ResultOnReturn
<1> QED
  BY <1>1, ControllerTypeCorrect, ServiceInvStep, PTL DEF SafetySpec

-----------------------------------------------------------------------------
(* The refinement mapping. *)

Phase == IF stage = "new" THEN "closed" ELSE IF stage = "up" THEN "open" ELSE "over"

\* The lifespan opens the service, closes it, or leaves it alone.
LEMMA LifespanRefines ==
  ASSUME Lifespan
  PROVE  Service!Next \/ UNCHANGED <<Phase, lock, outcome>>
<1>1. UNCHANGED <<lock, outcome>>
  BY LifespanLeavesCalls
<1>2. CASE ServerStarts \/ ServerFails
  <2>1. Service!Opens
    BY <1>1, <1>2 DEF Service!Opens, ServerStarts, ServerFails, StartSucceeds, StartRaises
  <2> QED
    BY <2>1 DEF Service!Next
<1>3. CASE ControllerStops
  <2>1. Service!Closes
    BY <1>1, <1>3 DEF Service!Closes, ControllerStops, StopBegins, AfterFlush
  <2> QED
    BY <2>1 DEF Service!Next
<1>4. CASE ServerDrains \/ StopGoesOn \/ StopEnds
  BY <1>1, <1>4 DEF Phase, ServerDrains, StopGoesOn, Flushed, AfterFlush, Disconnected, StopEnds,
                    DisconnectRaises, StackCloses, runtimeVars
<1> QED
  BY <1>2, <1>3, <1>4 DEF Lifespan

\* A step of a call takes it on, sends it away, ends it, or leaves the service alone.
LEMMA CallRefines ==
  ASSUME TypeOK, OneCallInRuntime, ServiceInv, NEW c \in Call, CallStep(c)
  PROVE  Service!Next \/ UNCHANGED <<Phase, lock, outcome>>
<1> USE DEF TypeOK, RuntimeTypeOK
<1>1. Arrives(c) => Service!Waiting(c)
  BY DEF Arrives, Service!Waiting, OneCallInRuntime, Active, ServiceInv, ResultOnReturn
<1>2. Active(c) => lock = c
  BY DEF OneCallInRuntime
<1>3. CASE CallBusy(c)
  <2>1. Service!Refuse(c)
    BY <1>1, <1>3 DEF CallBusy, Service!Refuse, Returns, runtimeVars
  <2> QED
    BY <2>1 DEF Service!Next
<1>4. CASE CommandEmpty(c) \/ CommandRefused(c)
  <2>1. Service!Refuse(c)
    BY <1>1, <1>4 DEF CommandEmpty, CommandRefused, TurnRefused, Service!Refuse, Returns, runtimeVars
  <2> QED
    BY <2>1 DEF Service!Next
<1>5. CASE CommandBegins(c) \/ ControllerResets(c)
  <2>1. Service!Take(c)
    BY <1>1, <1>5
       DEF CommandBegins, ControllerResets, TurnBegins, ResetBegins, Ready, lifeVars,
           Service!Take, ServiceInv, SessionFollowsStage
  <2> QED
    BY <2>1 DEF Service!Next
<1>6. CASE Timeout(c) \/ Cancel(c)
  BY <1>6 DEF Phase, Timeout, Cancel, runtimeVars
<1>7. CASE CommandEnds(c)
  <2>1. Service!Finish(c)
    BY <1>2, <1>7 DEF CommandEnds, TurnEnds, lifeVars, Active, Leaves, Returns, Released, Service!Finish
  <2> QED
    BY <2>1 DEF Service!Next
<1>8. CASE CommandCancelled(c)
  <2>1. Service!Finish(c)
    BY <1>2, <1>8
       DEF CommandCancelled, TurnCancelled, lifeVars, Active, Leaves, Returns, Released, Service!Finish
  <2> QED
    BY <2>1 DEF Service!Next
<1>9. CASE ControllerResetEnds(c)
  <2>1. Service!Finish(c)
    BY <1>2, <1>9
       DEF ControllerResetEnds, ResetEnds, lifeVars, Active, Leaves, Returns, Released, Service!Finish
  <2> QED
    BY <2>1 DEF Service!Next
<1>10. CASE WriteEnds(c)
  BY <1>10 DEF Phase, WriteEnds, EpisodeWritten, lifeVars, ctrlVars
<1> QED
  BY <1>3, <1>4, <1>5, <1>6, <1>7, <1>8, <1>9, <1>10 DEF CallStep

\* The controller implements CommandService: whatever the timers, the cancellations
\* and the shutdown do, a client's call is served alone or sent away unserved.
THEOREM ControllerServesCommands == SafetySpec => ServesCommands
<1>1. Init => Service!Init
  BY DEF Init, RuntimeInit, Service!Init
<1>2. TypeOK /\ OneCallInRuntime /\ ServiceInv /\ [Next]_vars
        => [Service!Next]_(Service!serviceVars)
  <2> SUFFICES ASSUME TypeOK, OneCallInRuntime, ServiceInv, [Next]_vars
               PROVE  Service!Next \/ UNCHANGED <<Phase, lock, outcome>>
    BY DEF Service!serviceVars, Phase
  <2>1. CASE UNCHANGED vars
    BY <2>1 DEF vars, runtimeVars, ctrlVars, Phase
  <2> QED
    BY <2>1, LifespanRefines, CallRefines DEF Next
<1> QED
  BY <1>1, <1>2, ControllerTypeCorrect, OneCallAtATime, ServiceInvariant, PTL
     DEF SafetySpec, ServesCommands, Service!Spec

-----------------------------------------------------------------------------
(* The tasks of A2A clients. *)

LEMMA TasksUseController == [TaskNext]_a2aVars => [Next]_vars
<1> SUFFICES ASSUME [TaskNext]_a2aVars PROVE [Next]_vars
  OBVIOUS
<1> USE ControllerAssumption
<1>1. ASSUME NEW c \in A2ACall, TaskStep(c) PROVE [Next]_vars
  <2>1. CASE Submitted(c) \/ RejectedEmpty(c) \/ StartsWork(c) \/ AddsArtifact(c)
              \/ PublishesResult(c) \/ CancellationPasses(c) \/ CancelServed(c)
    BY <2>1 DEF Submitted, RejectedEmpty, StartsWork, AddsArtifact, PublishesResult,
                CancellationPasses, CancelServed
  <2>2. CASE Commands(c)
    BY <2>2 DEF Commands, Next, CallStep
  <2>3. CASE ExecuteCancelled(c)
    BY <2>3 DEF ExecuteCancelled, Next, CallStep
  <2> QED
    BY <1>1, <2>1, <2>2, <2>3 DEF TaskStep
<1>2. ASSUME NEW c \in Call, RuntimeStep(c) PROVE Next
  BY <1>2 DEF RuntimeStep, Next, CallStep
<1>3. CASE UNCHANGED a2aVars
  BY <1>3 DEF a2aVars
<1> QED
  BY <1>1, <1>2, <1>3 DEF TaskNext, Next

LEMMA TasksRefineController == TaskSafetySpec => SafetySpec
<1>1. TaskInit => Init
  BY DEF TaskInit
<1> QED
  BY <1>1, TasksUseController, PTL DEF TaskSafetySpec, SafetySpec

\* Under the tasks the controller still serves one call at a time.
THEOREM TasksServedOneAtATime == TaskSafetySpec => [](TypeOK /\ OneCallInRuntime)
BY TasksRefineController, ControllerTypeCorrect, OneCallAtATime, PTL

-----------------------------------------------------------------------------
\* How far the command of a task is, for each place of execute().
CommandByPlace ==
  \A c \in A2ACall :
    /\ exec[c] \in {"none", "submitted"} => call[c] = "idle" /\ told[c] = exec[c]
    /\ exec[c] \in {"commanding", "publishing"} => told[c] = "working"
    /\ exec[c] = "publishing" => call[c] = "returned" /\ outcome[c] = "completed"
    /\ Active(c) => exec[c] = "commanding"
    /\ exec[c] = "cancelled" => told[c] \notin Terminal
    /\ artifact[c] => exec[c] \in {"publishing", "done", "cancelled"} /\ call[c] = "returned"

\* What the controller has noted of the call of a task.
CallNoted ==
  \A c \in A2ACall :
    /\ call[c] # "reset"
    /\ call[c] = "returned" <=> outcome[c] # "none"
    /\ call[c] = "idle" => turn[c] = "none"
    /\ outcome[c] = "busy" => turn[c] = "none"

\* The inductive invariant.
TaskInv == TaskTypeOK /\ CommandByPlace /\ CallNoted /\ ToldTheOutcome

LEMMA TaskInvInit == TaskInit => TaskInv
<1> SUFFICES ASSUME TaskInit PROVE TaskInv
  OBVIOUS
<1>1. TaskTypeOK
  BY InitInvariant DEF TaskInit, TaskTypeOK
<1>2. CommandByPlace /\ CallNoted /\ ToldTheOutcome
  BY ControllerAssumption
     DEF TaskInit, Init, RuntimeInit, CommandByPlace, CallNoted, ToldTheOutcome, Active
<1> QED
  BY <1>1, <1>2 DEF TaskInv

\* A step of execute() or of cancel() that does not reach the controller.
LEMMA PlaceStep ==
  ASSUME TaskInv, NEW c \in A2ACall, UNCHANGED vars,
         \/ Submitted(c) \/ RejectedEmpty(c) \/ StartsWork(c) \/ AddsArtifact(c)
         \/ PublishesResult(c) \/ CancellationPasses(c) \/ CancelServed(c)
         \/ Underway(c) /\ ~Active(c) /\ exec' = [exec EXCEPT ![c] = "cancelled"]
              /\ UNCHANGED <<told, artifact, canceled>>
  PROVE  TaskInv'
<1> USE DEF TaskInv, TaskTypeOK, CommandByPlace, CallNoted, ToldTheOutcome, Active, Terminal
<1>0. UNCHANGED <<call, outcome, turn>>
  BY DEF vars, runtimeVars, ctrlVars
<1>1. TypeOK'
  BY TypeStep
<1>2. CASE Submitted(c) \/ StartsWork(c) \/ RejectedEmpty(c)
  BY <1>0, <1>1, <1>2 DEF Submitted, StartsWork, RejectedEmpty, Goes, TypeOK
<1>3. CASE AddsArtifact(c)
  BY <1>0, <1>1, <1>3 DEF AddsArtifact, TypeOK
<1>4. CASE PublishesResult(c)
  <2>1. outcome[c] \in Status
    BY <1>4, ControllerAssumption DEF PublishesResult, TypeOK, Status
  <2>2. call[c] = "returned" /\ exec[c] \in {"publishing", "commanding"} /\ told[c] = "working"
    BY <1>4 DEF PublishesResult
  <2>3. outcome[c] # "cancelled"
    BY <1>4 DEF PublishesResult
  <2>4. told' = [told EXCEPT ![c] = StateFor(outcome[c])] /\ exec' = [exec EXCEPT ![c] = "done"]
        /\ UNCHANGED <<artifact, canceled>>
    BY <1>4 DEF PublishesResult, Goes
  <2>5. /\ StateFor(outcome[c]) \in Terminal
        /\ StateFor(outcome[c]) = "completed" <=> outcome[c] = "completed"
        /\ StateFor(outcome[c]) = "failed" => outcome[c] \in {"failed", "timeout"}
        /\ StateFor(outcome[c]) = "rejected" => outcome[c] = "busy"
    BY <2>1, <2>3 DEF StateFor, Status
  <2> QED
    BY <1>0, <1>1, <2>2, <2>4, <2>5
<1>5. CASE CancellationPasses(c)
  BY <1>0, <1>1, <1>5 DEF CancellationPasses, TypeOK
<1>6. CASE CancelServed(c)
  BY <1>0, <1>1, <1>6 DEF CancelServed
<1>7. CASE Underway(c) /\ ~Active(c) /\ exec' = [exec EXCEPT ![c] = "cancelled"]
             /\ UNCHANGED <<told, artifact, canceled>>
  BY <1>0, <1>1, <1>7 DEF Underway
<1> QED
  BY <1>2, <1>3, <1>4, <1>5, <1>6, <1>7

\* A step of the controller that leaves the tasks alone, and is the beginning of a
\* command only for a task that is commanding.
LEMMA ControllerStep ==
  ASSUME TaskInv, NEW c \in Call, UNCHANGED taskVars,
         CallStep(c), c \in A2ACall /\ call[c] = "idle" => exec[c] = "commanding"
  PROVE  TaskInv'
<1> USE DEF TaskInv, TaskTypeOK, CommandByPlace, CallNoted, ToldTheOutcome, Active, Terminal
<1>1. TypeOK'
  BY TypeStep DEF Next
<1>2. UNCHANGED <<exec, told, artifact, canceled>>
  BY DEF taskVars
<1>3. CASE CallBusy(c) \/ CommandEmpty(c) \/ CommandRefused(c)
  <2>1. PICK status \in {"busy", "failed"} : Returns(c, status)
    BY <1>3 DEF CallBusy, CommandEmpty, CommandRefused
  <2>2. call[c] = "idle" /\ turn' = turn
    BY <1>3 DEF CallBusy, CommandEmpty, CommandRefused, TurnRefused, Arrives, runtimeVars
  <2>3. c \in A2ACall => exec[c] = "commanding" /\ told[c] = "working" /\ turn[c] = "none"
    BY <2>2
  <2>4. CommandByPlace' /\ CallNoted'
    BY <1>2, <2>1, <2>2, <2>3 DEF TypeOK, RuntimeTypeOK, Returns
  <2>5. ToldTheOutcome'
    BY <1>2, <2>1, <2>2, <2>3 DEF TypeOK, RuntimeTypeOK, Returns
  <2> QED
    BY <1>1, <1>2, <2>4, <2>5
<1>4. CASE CommandBegins(c)
  BY <1>1, <1>2, <1>4 DEF TypeOK, RuntimeTypeOK, CommandBegins, TurnBegins, Arrives
<1>5. CASE Timeout(c) \/ Cancel(c)
  BY <1>1, <1>2, <1>5 DEF Timeout, Cancel, runtimeVars
<1>6. CASE CommandEnds(c)
  BY <1>1, <1>2, <1>6 DEF TypeOK, RuntimeTypeOK, CommandEnds, TurnEnds, Leaves, Returns
<1>7. CASE CommandCancelled(c)
  BY <1>1, <1>2, <1>7 DEF TypeOK, RuntimeTypeOK, CommandCancelled, TurnCancelled, Leaves, Returns
<1>8. CASE ControllerResets(c)
  BY <1>1, <1>2, <1>8 DEF TypeOK, RuntimeTypeOK, ControllerResets, ResetBegins, Arrives
<1>9. CASE ControllerResetEnds(c)
  <2>1. c \notin A2ACall
    BY <1>9 DEF ControllerResetEnds
  <2>2. \A d \in A2ACall : UNCHANGED <<call[d], outcome[d], turn[d]>>
    BY <1>9, <2>1, ControllerAssumption
       DEF TypeOK, RuntimeTypeOK, ControllerResetEnds, ResetEnds, Leaves, Returns
  <2> QED
    BY <1>1, <1>2, <2>2
<1>10. CASE WriteEnds(c)
  BY <1>1, <1>2, <1>10 DEF WriteEnds, EpisodeWritten, lifeVars, ctrlVars
<1> QED
  BY <1>3, <1>4, <1>5, <1>6, <1>7, <1>8, <1>9, <1>10 DEF CallStep

LEMMA TaskInvStep == TaskInv /\ [TaskNext]_a2aVars => TaskInv'
<1> SUFFICES ASSUME TaskInv, [TaskNext]_a2aVars PROVE TaskInv'
  OBVIOUS
<1>1. ASSUME NEW c \in A2ACall, TaskStep(c) PROVE TaskInv'
  <2>1. CASE Submitted(c) \/ RejectedEmpty(c) \/ StartsWork(c) \/ AddsArtifact(c)
              \/ PublishesResult(c) \/ CancellationPasses(c) \/ CancelServed(c)
    <3>1. UNCHANGED vars
      BY <2>1 DEF Submitted, RejectedEmpty, StartsWork, AddsArtifact, PublishesResult,
                  CancellationPasses, CancelServed
    <3> QED
      BY <2>1, <3>1, PlaceStep
  <2>2. CASE Commands(c)
    <3>1. c \in Call /\ CallStep(c) /\ exec[c] = "commanding" /\ UNCHANGED taskVars
      BY <2>2, ControllerAssumption DEF Commands, CallStep
    <3> QED
      BY <3>1, ControllerStep
  <2>3. CASE ExecuteCancelled(c) /\ UNCHANGED canceled
    <3>1. CASE Active(c)
      <4>1. c \in Call /\ CallStep(c) /\ UNCHANGED taskVars
        BY <2>3, <3>1, ControllerAssumption DEF ExecuteCancelled, CallStep, taskVars
      <4>2. call[c] # "idle"
        BY <3>1 DEF Active
      <4> QED
        BY <4>1, <4>2, ControllerStep
    <3>2. CASE ~Active(c)
      <4>1. UNCHANGED vars /\ Underway(c) /\ exec' = [exec EXCEPT ![c] = "cancelled"]
              /\ UNCHANGED <<told, artifact, canceled>>
        BY <2>3, <3>2 DEF ExecuteCancelled
      <4> QED
        BY <3>2, <4>1, PlaceStep
    <3> QED
      BY <3>1, <3>2
  <2> QED
    BY <1>1, <2>1, <2>2, <2>3 DEF TaskStep
<1>2. CASE Lifespan /\ UNCHANGED taskVars
  <2>1. UNCHANGED <<call, outcome, turn>>
    BY <1>2, LifespanLeavesCalls
  <2>2. TypeOK'
    BY <1>2, TypeStep DEF Next, TaskInv, TaskTypeOK
  <2> QED
    BY <1>2, <2>1, <2>2
       DEF TaskInv, TaskTypeOK, CommandByPlace, CallNoted, ToldTheOutcome, Active, taskVars
<1>3. ASSUME NEW c \in Call, RuntimeStep(c), UNCHANGED taskVars PROVE TaskInv'
  <2>1. CallStep(c)
    BY <1>3 DEF RuntimeStep, CallStep
  <2>2. CASE call[c] # "idle"
    BY <1>3, <2>1, <2>2, ControllerStep
  <2>3. CASE call[c] = "idle"
    <3>1. WriteEnds(c)
      BY <1>3, <2>3 DEF RuntimeStep, Timeout, CommandEnds, CommandCancelled, ControllerResetEnds
    <3>2. UNCHANGED <<call, outcome, turn>>
      BY <3>1 DEF WriteEnds, EpisodeWritten, ctrlVars
    <3>3. TypeOK'
      BY <2>1, TypeStep DEF Next, TaskInv, TaskTypeOK
    <3> QED
      BY <1>3, <3>2, <3>3
         DEF TaskInv, TaskTypeOK, CommandByPlace, CallNoted, ToldTheOutcome, Active, taskVars
  <2> QED
    BY <2>2, <2>3
<1>4. ASSUME NEW c \in Call \ A2ACall, CallStep(c), UNCHANGED taskVars PROVE TaskInv'
  BY <1>4, ControllerStep
<1>5. CASE UNCHANGED a2aVars
  <2>1. TypeOK'
    BY <1>5, TypeStep DEF a2aVars, TaskInv, TaskTypeOK
  <2> QED
    BY <1>5, <2>1
       DEF TaskInv, TaskTypeOK, CommandByPlace, CallNoted, ToldTheOutcome, Active, a2aVars,
           taskVars, vars, ctrlVars, runtimeVars
<1> QED
  BY <1>1, <1>2, <1>3, <1>4, <1>5 DEF TaskNext

LEMMA TaskInvariant == TaskSafetySpec => []TaskInv
BY TaskInvInit, TaskInvStep, PTL DEF TaskSafetySpec

\* A task is told what became of its command, whatever the other tasks, the timers,
\* the cancellations and the shutdown do.
THEOREM TasksAreToldTheOutcome == TaskSafetySpec => []ToldTheOutcome
<1>1. TaskInv => ToldTheOutcome
  BY DEF TaskInv
<1> QED
  BY <1>1, TaskInvariant, PTL

\* A task that is told an end has nothing left in the runtime and holds no lock.
THEOREM EndedTasksHaveLeft == TaskSafetySpec => []EndedTaskIsOutOfRuntime
<1>1. TaskInv /\ OneCallInRuntime => EndedTaskIsOutOfRuntime
  <2> SUFFICES ASSUME TaskInv, OneCallInRuntime, NEW c \in A2ACall, told[c] \in Terminal
               PROVE  ~Uses(c) /\ lock # c
    BY DEF EndedTaskIsOutOfRuntime
  <2>1. ~Active(c)
    BY DEF TaskInv, CommandByPlace, Terminal
  <2> QED
    BY <2>1, ControllerAssumption DEF OneCallInRuntime
<1> QED
  BY <1>1, TaskInvariant, TasksServedOneAtATime, PTL

-----------------------------------------------------------------------------
(* The model requests of the turns. *)

LEMMA RequestsUseController == [RequestsNext]_modelVars => [Next]_vars
<1> SUFFICES ASSUME [RequestsNext]_modelVars PROVE [Next]_vars
  OBVIOUS
<1>1. ASSUME NEW c \in Call,
             \/ CountedBegins(c) \/ CountedResets(c) \/ TurnLeavesRequest(c)
             \/ TurnCutsRequest(c) \/ UncountedStep(c)
      PROVE  Next
  BY <1>1 DEF CountedBegins, CountedResets, TurnLeavesRequest, CountedEnds, TurnCutsRequest,
              CountedCancelled, UncountedStep, Next, CallStep
<1>2. ASSUME NEW c \in Call,
             \/ RequestBegins(c) \/ RequestFetched(c) \/ RequestUnwinds(c)
             \/ \E call_ \in ModelUsage : ResponseEnds(c, call_)
      PROVE  UNCHANGED vars
  BY <1>2 DEF RequestBegins, RequestFetched, RequestUnwinds, ResponseEnds, ModelCallEnds, countedVars
<1>3. CASE UNCHANGED modelVars
  BY <1>3 DEF modelVars, countedVars
<1> QED
  BY <1>1, <1>2, <1>3 DEF RequestsNext, Next

LEMMA RequestsRefineController == RequestsSpec => SafetySpec
<1>1. RequestsInit => Init
  BY DEF RequestsInit, UsageInit
<1> QED
  BY <1>1, RequestsUseController, PTL DEF RequestsSpec, SafetySpec

\* Under the model requests the controller still serves one call at a time.
THEOREM RequestsServedOneAtATime == RequestsSpec => [](TypeOK /\ OneCallInRuntime)
BY RequestsRefineController, ControllerTypeCorrect, OneCallAtATime, PTL

-----------------------------------------------------------------------------
(* The converter. *)

RequestTypes ==
  /\ request \in [Call -> {"none", "fetching", "streaming", "unwinding"}]
  /\ converter \in {"sdk", "preserving"}
  /\ saved \in [Call -> {"sdk", "preserving"}]
  /\ overlap \in BOOLEAN

\* Until two requests have overlapped there is one that is being sent, and it is
\* the SDK's converter that it has saved.
OneSending ==
  ~overlap => \A c \in Sending : saved[c] = "sdk" /\ \A d \in Sending : d = c

\* A request unwinds after its turn.
UnwindingIsAfterTurn == \A c \in Call : request[c] = "unwinding" => turn[c] = "over"

ConverterInv == RequestTypes /\ OneSending /\ UnwindingIsAfterTurn /\ ConverterScoped

LEMMA ConverterStep == TypeOK /\ ConverterInv /\ [RequestsNext]_modelVars => ConverterInv'
<1> SUFFICES ASSUME TypeOK, ConverterInv, [RequestsNext]_modelVars PROVE ConverterInv'
  OBVIOUS
<1> USE DEF ConverterInv, RequestTypes, OneSending, UnwindingIsAfterTurn, ConverterScoped, Sending
<1>0. turn \in [Call -> {"none", "running", "over", "clearing", "cleared"}]
  BY DEF TypeOK, RuntimeTypeOK
<1>1. ASSUME UNCHANGED requestVars, \A c \in Call : turn[c] = "over" => turn'[c] = "over"
      PROVE  ConverterInv'
  BY <1>1 DEF requestVars
<1>2. CASE Lifespan /\ UNCHANGED <<usageVars, requestVars>>
  BY <1>1, <1>2, LifespanLeavesCalls
<1>3. ASSUME NEW c \in Call, CountedBegins(c) \/ CountedResets(c), UNCHANGED requestVars
      PROVE  ConverterInv'
  BY <1>0, <1>1, <1>3
     DEF CountedBegins, CommandBegins, TurnBegins, CountedResets, ControllerResets, ResetBegins
<1>4. ASSUME NEW c \in Call, UncountedStep(c), UNCHANGED requestVars PROVE ConverterInv'
  BY <1>0, <1>1, <1>4
     DEF UncountedStep, CallBusy, CommandEmpty, CommandRefused, TurnRefused, Timeout, Cancel,
         ControllerResetEnds, ResetEnds, WriteEnds, EpisodeWritten, runtimeVars
<1>5. ASSUME NEW c \in Call, RequestBegins(c) PROVE ConverterInv'
  <2>1. UNCHANGED turn
    BY <1>5 DEF RequestBegins, countedVars, vars, runtimeVars
  <2> QED
    BY <1>0, <1>5, <2>1 DEF RequestBegins
<1>6. ASSUME NEW c \in Call, RequestFetched(c) PROVE ConverterInv'
  <2>1. UNCHANGED turn
    BY <1>6 DEF RequestFetched, countedVars, vars, runtimeVars
  <2> QED
    BY <1>0, <1>6, <2>1 DEF RequestFetched, LeaveFetch, Restored
<1>7. ASSUME NEW c \in Call, NEW call_ \in ModelUsage, ResponseEnds(c, call_) PROVE ConverterInv'
  <2>1. UNCHANGED turn
    BY <1>7 DEF ResponseEnds, ModelCallEnds, vars, runtimeVars
  <2> QED
    BY <1>0, <1>7, <2>1 DEF ResponseEnds
<1>8. ASSUME NEW c \in Call, TurnLeavesRequest(c) PROVE ConverterInv'
  <2>1. turn[c] = "running" /\ turn' = [turn EXCEPT ![c] = "over"]
    BY <1>8 DEF TurnLeavesRequest, CountedEnds, CommandEnds, TurnEnds
  <2> QED
    BY <1>0, <1>8, <2>1 DEF TurnLeavesRequest, LeaveFetch, Restored
<1>9. ASSUME NEW c \in Call, TurnCutsRequest(c) PROVE ConverterInv'
  <2>1. turn[c] = "running" /\ turn' = [turn EXCEPT ![c] = "over"]
    BY <1>9 DEF TurnCutsRequest, CountedCancelled, CommandCancelled, TurnCancelled
  <2> QED
    BY <1>0, <1>9, <2>1 DEF TurnCutsRequest
<1>10. ASSUME NEW c \in Call, RequestUnwinds(c) PROVE ConverterInv'
  <2>1. UNCHANGED turn
    BY <1>10 DEF RequestUnwinds, countedVars, vars, runtimeVars
  <2> QED
    BY <1>0, <1>10, <2>1 DEF RequestUnwinds, LeaveFetch, Restored
<1>11. CASE UNCHANGED modelVars
  BY <1>1, <1>11 DEF modelVars, countedVars, vars, runtimeVars
<1> QED
  BY <1>2, <1>3, <1>4, <1>5, <1>6, <1>7, <1>8, <1>9, <1>10, <1>11 DEF RequestsNext

\* The SDK's converter is put back after every request that overlaps no other,
\* whether it was answered, failed or was cancelled.
THEOREM ConverterIsPutBack == RequestsSpec => []ConverterScoped
<1>1. RequestsInit => ConverterInv
  BY DEF RequestsInit, ConverterInv, RequestTypes, OneSending, UnwindingIsAfterTurn,
         ConverterScoped, Sending
<1>2. ConverterInv => ConverterScoped
  BY DEF ConverterInv
<1> QED
  BY <1>1, <1>2, RequestsServedOneAtATime, ConverterStep, PTL DEF RequestsSpec

-----------------------------------------------------------------------------
(* The usage. *)

UsageTypes ==
  /\ usage \in [requests: Nat, input: Nat, output: Nat, context: Nat]
  /\ before \in [Call -> Snapshot]
  /\ summary \in [Call -> Snapshot]
  /\ spent \in [Call -> Snapshot]

\* The counters are what they were when the running turn began and what it has used
\* since; a turn that has not begun has used nothing.
RunningCounted ==
  \A c \in Call :
    /\ turn[c] = "running" => snapshot(usage) = Plus(before[c], spent[c])
    /\ turn[c] = "none" => spent[c] = NoTokens

UsageInv == UsageTypes /\ RunningCounted /\ SummaryIsOwn /\ GaugeWithinInput

\* What was counted since a snapshot is what was added to it.
LEMMA DeltaOfPlus ==
  ASSUME NEW s \in Snapshot, NEW t \in Snapshot,
         NEW u \in [requests: Nat, input: Nat, output: Nat, context: Nat],
         snapshot(u) = Plus(s, t)
  PROVE  delta_since(u, s) = t
<1>1. u.requests = s.requests + t.requests /\ u.input = s.input + t.input
        /\ u.output = s.output + t.output
  BY DEF snapshot, Plus
<1>2. \A a, b, n \in Nat : n = a + b => n - a = b
  OBVIOUS
<1>3. /\ u.requests - s.requests = t.requests
      /\ u.input - s.input = t.input
      /\ u.output - s.output = t.output
  BY <1>1, <1>2 DEF Snapshot
<1> QED
  BY <1>3 DEF delta_since, Snapshot

\* Both sides grow by the same model call.
LEMMA AddedToBoth ==
  ASSUME NEW s \in Snapshot, NEW t \in Snapshot, NEW call_ \in Snapshot,
         NEW u \in [requests: Nat, input: Nat, output: Nat, context: Nat],
         snapshot(u) = Plus(s, t)
  PROVE  snapshot(add(u, call_)) = Plus(s, Plus(t, call_))
<1>1. u.requests = s.requests + t.requests /\ u.input = s.input + t.input
        /\ u.output = s.output + t.output
  BY DEF snapshot, Plus
<1>2. \A a, b, n \in Nat : (a + b) + n = a + (b + n)
  OBVIOUS
<1>3. /\ u.requests + call_.requests = s.requests + (t.requests + call_.requests)
      /\ u.input + call_.input = s.input + (t.input + call_.input)
      /\ u.output + call_.output = s.output + (t.output + call_.output)
  BY <1>1, <1>2 DEF Snapshot
<1> QED
  BY <1>3 DEF snapshot, add, Plus

\* The gauge after a model call.
LEMMA GaugeAfterCall ==
  ASSUME NEW u \in [requests: Nat, input: Nat, output: Nat, context: Nat], NEW call_ \in ModelUsage,
         u.context <= MaxTokens, u.context <= u.input, u.input # 0 => u.context # 0
  PROVE  /\ add(u, call_) \in [requests: Nat, input: Nat, output: Nat, context: Nat]
         /\ add(u, call_).context <= MaxTokens
         /\ add(u, call_).context <= add(u, call_).input
         /\ add(u, call_).input # 0 => add(u, call_).context # 0
<1>1. /\ call_.requests \in Nat /\ call_.input \in Nat /\ call_.output \in Nat
      /\ call_.input <= MaxTokens
  BY UsageAssumption DEF ModelUsage, NoTokens
<1>2. CASE call_.input = 0
  <2>1. add(u, call_).context = u.context /\ add(u, call_).input = u.input
    BY <1>2 DEF add, Gauge
  <2>2. add(u, call_) \in [requests: Nat, input: Nat, output: Nat, context: Nat]
    BY <1>1, <1>2 DEF add, Gauge
  <2> QED
    BY <2>1, <2>2
<1>3. CASE call_.input # 0
  <2>1. add(u, call_).context = call_.input /\ add(u, call_).input = u.input + call_.input
    BY <1>3 DEF add, Gauge
  <2>2. add(u, call_) \in [requests: Nat, input: Nat, output: Nat, context: Nat]
    BY <1>1, <1>3 DEF add, Gauge
  <2> QED
    BY <1>1, <1>3, <2>1, <2>2
<1> QED
  BY <1>2, <1>3

LEMMA UsageStep ==
  TypeOK /\ OneCallInRuntime /\ UsageInv /\ [RequestsNext]_modelVars => UsageInv'
<1> SUFFICES ASSUME TypeOK, OneCallInRuntime, UsageInv, [RequestsNext]_modelVars PROVE UsageInv'
  OBVIOUS
<1> USE DEF UsageInv, UsageTypes, RunningCounted, SummaryIsOwn, Completed, GaugeWithinInput
<1>0. turn \in [Call -> {"none", "running", "over", "clearing", "cleared"}]
      /\ outcome \in [Call -> Status \cup {"none"}] /\ Free \notin Call
  BY ControllerAssumption DEF TypeOK, RuntimeTypeOK
<1>1. ASSUME UNCHANGED usageVars,
             \A c \in Call : /\ turn'[c] \in {"none", "running"} => turn'[c] = turn[c]
                             /\ c \in Completed' => c \in Completed
      PROVE  UsageInv'
  BY <1>1 DEF usageVars
<1>2. CASE Lifespan /\ UNCHANGED <<usageVars, requestVars>>
  BY <1>1, <1>2, LifespanLeavesCalls
<1>3. ASSUME NEW c \in Call, CountedBegins(c) PROVE UsageInv'
  <2>1. /\ turn[c] = "none" /\ turn' = [turn EXCEPT ![c] = "running"]
        /\ before' = [before EXCEPT ![c] = snapshot(usage)]
        /\ UNCHANGED <<usage, summary, spent, outcome>>
    BY <1>3 DEF CountedBegins, CommandBegins, TurnBegins
  <2>2. snapshot(usage) \in Snapshot /\ snapshot(usage) = Plus(snapshot(usage), NoTokens)
    <3>1. \A n \in Nat : n = n + 0
      OBVIOUS
    <3> QED
      BY <3>1 DEF snapshot, Snapshot, Plus, NoTokens
  <2>3. UsageTypes' /\ SummaryIsOwn' /\ GaugeWithinInput'
    BY <1>0, <2>1, <2>2
  <2>4. RunningCounted'
    BY <1>0, <2>1, <2>2
  <2> QED
    BY <2>3, <2>4
<1>4. ASSUME NEW c \in Call, CountedResets(c) PROVE UsageInv'
  <2>1. /\ turn' = [turn EXCEPT ![c] = "clearing"] /\ lock = Free
        /\ usage' = ZeroUsage /\ UNCHANGED <<before, summary, spent, outcome>>
    BY <1>4 DEF CountedResets, ControllerResets, ResetBegins
  <2>2. \A d \in Call : turn[d] # "running"
    BY <1>0, <2>1 DEF OneCallInRuntime, Uses
  <2>3. UsageTypes' /\ GaugeWithinInput'
    BY <2>1, UsageAssumption DEF ZeroUsage
  <2> QED
    BY <1>0, <2>1, <2>2, <2>3
<1>5. ASSUME NEW c \in Call, UncountedStep(c) PROVE UsageInv'
  <2>1. UNCHANGED usageVars
    BY <1>5 DEF UncountedStep
  <2>2. CASE CallBusy(c) \/ CommandEmpty(c) \/ CommandRefused(c)
    BY <1>0, <1>1, <2>1, <2>2
       DEF CallBusy, CommandEmpty, CommandRefused, TurnRefused, Returns, runtimeVars
  <2>3. CASE Timeout(c) \/ Cancel(c)
    BY <1>1, <2>1, <2>3 DEF Timeout, Cancel, runtimeVars
  <2>4. CASE ControllerResetEnds(c)
    <3>1. turn' = [turn EXCEPT ![c] = "cleared"] /\ \A d \in Call : d # c => outcome'[d] = outcome[d]
      BY <1>0, <2>4 DEF ControllerResetEnds, ResetEnds, Leaves, Returns
    <3> QED
      BY <1>0, <1>1, <2>1, <3>1
  <2>5. CASE WriteEnds(c)
    BY <1>1, <2>1, <2>5 DEF WriteEnds, EpisodeWritten, lifeVars, ctrlVars
  <2> QED
    BY <1>5, <2>2, <2>3, <2>4, <2>5 DEF UncountedStep
<1>6. ASSUME NEW c \in Call, NEW call_ \in ModelUsage, ResponseEnds(c, call_) PROVE UsageInv'
  <2>1. /\ turn[c] = "running" /\ UNCHANGED <<turn, outcome, before, summary>>
        /\ usage' = add(usage, call_)
        /\ spent' = [spent EXCEPT ![c] = Plus(spent[c], call_)]
    BY <1>6 DEF ResponseEnds, ModelCallEnds, vars, runtimeVars, ctrlVars
  <2>2. call_ \in Snapshot
    BY UsageAssumption DEF ModelUsage, NoTokens, Snapshot
  <2>3. usage' \in [requests: Nat, input: Nat, output: Nat, context: Nat] /\ GaugeWithinInput'
    BY <2>1, GaugeAfterCall
  <2>4. Plus(spent[c], call_) \in Snapshot
    BY <2>2 DEF Plus, Snapshot
  <2>5. \A d \in Call : turn[d] = "running" => d = c
    BY <2>1 DEF OneCallInRuntime, Uses
  <2>6. snapshot(usage') = Plus(before[c], spent'[c])
    BY <2>1, <2>2, AddedToBoth
  <2>7. UsageTypes'
    BY <2>1, <2>3, <2>4
  <2>8. RunningCounted' /\ SummaryIsOwn'
    BY <2>1, <2>5, <2>6
  <2> QED
    BY <2>3, <2>7, <2>8
<1>7. ASSUME NEW c \in Call, TurnLeavesRequest(c) PROVE UsageInv'
  <2>1. /\ turn[c] = "running" /\ turn' = [turn EXCEPT ![c] = "over"]
        /\ UNCHANGED <<usage, before, spent>>
        /\ summary' = [summary EXCEPT ![c] =
             IF outcome'[c] = "completed" THEN delta_since(usage, before[c]) ELSE @]
        /\ \A d \in Call : d # c => outcome'[d] = outcome[d]
    BY <1>0, <1>7 DEF TurnLeavesRequest, CountedEnds, CommandEnds, TurnEnds, Leaves, Returns
  <2>2. delta_since(usage, before[c]) = spent[c]
    BY <2>1, DeltaOfPlus
  <2>3. UsageTypes' /\ GaugeWithinInput'
    BY <2>1, <2>2
  <2>4. RunningCounted' /\ SummaryIsOwn'
    BY <1>0, <2>1, <2>2
  <2> QED
    BY <2>3, <2>4
<1>8. ASSUME NEW c \in Call, TurnCutsRequest(c) PROVE UsageInv'
  <2>1. /\ turn[c] = "running" /\ turn' = [turn EXCEPT ![c] = "over"] /\ UNCHANGED usageVars
        /\ outcome'[c] # "completed" /\ \A d \in Call : d # c => outcome'[d] = outcome[d]
    BY <1>0, <1>8 DEF TurnCutsRequest, CountedCancelled, CommandCancelled, TurnCancelled, Leaves, Returns
  <2> QED
    BY <1>0, <1>1, <2>1
<1>9. ASSUME NEW c \in Call, RequestBegins(c) \/ RequestFetched(c) \/ RequestUnwinds(c) PROVE UsageInv'
  <2>1. UNCHANGED countedVars
    BY <1>9 DEF RequestBegins, RequestFetched, RequestUnwinds
  <2> QED
    BY <1>1, <2>1 DEF countedVars, vars, runtimeVars, ctrlVars
<1>10. CASE UNCHANGED modelVars
  BY <1>1, <1>10 DEF modelVars, countedVars, vars, runtimeVars, ctrlVars
<1> QED
  BY <1>2, <1>3, <1>4, <1>5, <1>6, <1>7, <1>8, <1>9, <1>10 DEF RequestsNext

LEMMA UsageInvariant == RequestsSpec => []UsageInv
<1>1. RequestsInit => UsageInv
  BY UsageAssumption
     DEF RequestsInit, UsageInit, Init, RuntimeInit, UsageInv, UsageTypes, RunningCounted,
         SummaryIsOwn, Completed, GaugeWithinInput, ZeroUsage, NoTokens, Snapshot
<1> QED
  BY <1>1, RequestsServedOneAtATime, UsageStep, PTL DEF RequestsSpec

\* The summary of a completed turn is what its own model calls have used.
THEOREM SummariesAreOwn == RequestsSpec => []SummaryIsOwn
<1>1. UsageInv => SummaryIsOwn
  BY DEF UsageInv
<1> QED
  BY <1>1, UsageInvariant, PTL

\* The gauge is that of a model call since the last reset.
THEOREM GaugeIsOfThisSession == RequestsSpec => []GaugeWithinInput
<1>1. UsageInv => GaugeWithinInput
  BY DEF UsageInv
<1> QED
  BY <1>1, UsageInvariant, PTL
=============================================================================
