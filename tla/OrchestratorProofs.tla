------------------------- MODULE OrchestratorProofs -------------------------
(***************************************************************************)
(* The orchestrator uses the coordinator as OperatorInput allows, keeps its*)
(* shutdown order and its busy policy, and uses every line of the operator *)
(* once: for every set of lines and of questions.                          *)
(***************************************************************************)
EXTENDS Orchestrator, OperatorInputProofs, FiniteSetTheorems, SequenceTheorems

-----------------------------------------------------------------------------
(* Every step of the orchestrator is one step of the coordinator, or none. *)

LEMMA StepUsesCoordinator == [Next]_vars => [InputNext]_inputVars
<1> SUFFICES ASSUME [Next]_vars PROVE InputNext \/ UNCHANGED inputVars
  BY DEF vars
<1>1. CASE StartRuntime \/ StartFails
  BY <1>1 DEF StartRuntime, StartFails
<1>2. CASE ProducerStep
  <2>1. CASE \E t \in Text : HearAnswer(t)
    BY <2>1 DEF HearAnswer, InputNext
  <2>2. CASE \E t \in Text : HearCommand(t)
    BY <2>2 DEF HearCommand, InputNext
  <2>3. CASE InputEnds \/ ProducerCancelled
    BY <2>3 DEF InputEnds, ProducerCancelled, InputNext
  <2>4. CASE ProducerBegins \/ \E t \in Text : HearIgnored(t)
    BY <2>4 DEF ProducerBegins, HearIgnored
  <2> QED
    BY <1>2, <2>1, <2>2, <2>3, <2>4 DEF ProducerStep
<1>3. CASE LoopStep
  BY <1>3 DEF LoopStep, TakeNext, EndTurn, EndTurnTakeNext, EndTurnWait, BeginTurn,
              LeaveLoop, StopRuntime, RuntimeStopped, InputNext
<1>4. CASE Interrupt
  BY <1>4 DEF Interrupt
<1>5. CASE \E r \in Request : Ask(r) \/ CallerStep(r)
  BY <1>5 DEF Ask, CallerStep, InputNext
<1>6. CASE UNCHANGED vars
  BY <1>6 DEF vars
<1> QED
  BY <1>1, <1>2, <1>3, <1>4, <1>5, <1>6 DEF Next

\* So everything proved of the coordinator holds of the one it drives.
LEMMA OrchestratorUsesCoordinator == SafetySpec => InputSafetySpec
<1>1. Init => InputInit
  BY DEF Init
<1> QED
  BY <1>1, StepUsesCoordinator, PTL DEF SafetySpec, InputSafetySpec

\* Whatever the loop, the producer and SIGINT do: a question that waits is the one
\* the next line answers, the close leaves none open, the end marker is last, and a
\* question is resolved once.
THEOREM OrchestratorKeepsQuestions ==
  SafetySpec => [](PendingIsTracked /\ ClosedReleasesAll /\ SentinelLast) /\ FuturesResolveOnce
BY OrchestratorUsesCoordinator, QuestionsTracked, CloseReleases, SentinelIsLast, ResolvedForGood, PTL

-----------------------------------------------------------------------------
(* The loop, the producer and the end of the input. *)

\* Before the producer runs nothing has been accepted, and nobody has asked.
NotYetBegun ==
  /\ producer \in {"absent", "created"} => begun = <<>> /\ commands = <<>>
  /\ begun = <<>> => \A r \in Request : future[r] = "absent"

\* Where the producer can be, given where the loop is.
ProducerFollowsLoop ==
  /\ loop = "starting" => producer = "absent"
  /\ producer = "absent" => loop \in {"starting", "done"}
  /\ producer \in {"created", "running"} => loop \in {"waiting", "turn"}
  /\ loop = "stopping" => producer = "done"
  /\ loop = "done" => producer \in {"absent", "done"}

\* The producer closes the input, and nobody else; a producer that has run
\* does not end without closing it.
ProducerCloses ==
  /\ closed => producer = "done"
  /\ producer = "done" /\ ~closed => begun = <<>> /\ commands = <<>>

\* What was not said, or was said during a turn, is no command.
OnlyIdleLinesAccepted ==
  \A t \in Text : heard[t] # "idle" =>
    /\ \A i \in 1..Len(commands) : commands[i] # t
    /\ \A i \in 1..Len(begun) : begun[i] # t

\* The inductive invariant.
OrchInv ==
  /\ OrchTypeOK
  /\ TurnFlag
  /\ NotYetBegun
  /\ ProducerFollowsLoop
  /\ ProducerCloses
  /\ OnlyIdleLinesAccepted

LEMMA OrchInitInv == Init => OrchInv
<1> SUFFICES ASSUME Init PROVE OrchInv
  OBVIOUS
<1>1. TypeOK
  BY InputInitInv DEF Init, InputInv
<1>2. begun = <<>> /\ commands = <<>> /\ Len(begun) = 0 /\ Len(commands) = 0
  BY DEF Init, InputInit
<1>3. OrchTypeOK
  <2>1. begun \in Seq(Text)
    BY <1>2
  <2>2. heard \in [Text -> {"no", "idle", "busy"}]
    BY DEF Init
  <2> QED
    BY <1>1, <2>1, <2>2 DEF Init, OrchTypeOK
<1>4. /\ TurnFlag
      /\ ProducerFollowsLoop
      /\ ProducerCloses
  <2>1. ~turnRunning /\ ~closed /\ loop = "starting" /\ producer = "absent"
    BY DEF Init, InputInit
  <2> QED
    BY <2>1 DEF TurnFlag, ProducerFollowsLoop, ProducerCloses
<1>6. NotYetBegun
  BY <1>2 DEF Init, InputInit, NotYetBegun
<1>5. OnlyIdleLinesAccepted
  BY <1>2 DEF OnlyIdleLinesAccepted
<1> QED
  BY <1>3, <1>4, <1>5, <1>6 DEF OrchInv

LEMMA OrchTypeStep == OrchTypeOK /\ [Next]_vars => OrchTypeOK'
<1> SUFFICES ASSUME OrchTypeOK, [Next]_vars PROVE OrchTypeOK'
  OBVIOUS
<1> USE DEF OrchTypeOK
<1>0. TypeOK'
  BY StepUsesCoordinator, TypeStep
<1>1. CASE StartRuntime \/ StartFails
  BY <1>0, <1>1 DEF StartRuntime, StartFails
<1>2. CASE ProducerBegins \/ InputEnds \/ ProducerCancelled
  BY <1>0, <1>2 DEF ProducerBegins, InputEnds, ProducerCancelled
<1>3. ASSUME NEW t \in Text, HearAnswer(t) \/ HearIgnored(t) \/ HearCommand(t)
      PROVE  OrchTypeOK'
  BY <1>0, <1>3 DEF HearAnswer, HearIgnored, HearCommand, Hear
<1>4. CASE TakeNext \/ EndTurnTakeNext
  <2>1. CASE BeginTurn
    <3>1. Head(commands) \in Text
      BY <2>1 DEF BeginTurn, EndSeen, TypeOK
    <3> QED
      BY <1>0, <2>1, <3>1 DEF BeginTurn
  <2>2. CASE LeaveLoop
    BY <1>0, <2>2 DEF LeaveLoop, CancelProducer
  <2> QED
    BY <1>4, <2>1, <2>2 DEF TakeNext, EndTurnTakeNext
<1>5. CASE EndTurnWait \/ StopRuntime \/ RuntimeStopped
  BY <1>0, <1>5 DEF EndTurnWait, AfterTurn, StopRuntime, RuntimeStopped
<1>6. CASE Interrupt
  BY <1>0, <1>6 DEF Interrupt, CancelProducer
<1>7. CASE \E r \in Request : Ask(r) \/ CallerStep(r)
  BY <1>0, <1>7 DEF Ask, CallerStep, loopVars
<1>8. CASE UNCHANGED vars
  BY <1>0, <1>8 DEF vars, loopVars
<1> QED
  BY <1>1, <1>2, <1>3, <1>4, <1>5, <1>6, <1>7, <1>8
  DEF Next, ProducerStep, LoopStep, EndTurn

\* The loop's flag, the producer's place and the closing of the input.
LEMMA ControlStep ==
  ASSUME OrchInv, InputInv, [Next]_vars
  PROVE  (TurnFlag /\ ProducerFollowsLoop /\ ProducerCloses /\ NotYetBegun)'
<1> DEFINE Goal == TurnFlag /\ ProducerFollowsLoop /\ ProducerCloses /\ NotYetBegun
<1> USE DEF TurnFlag, ProducerFollowsLoop, ProducerCloses, NotYetBegun
<1>0. Goal /\ OrchTypeOK /\ TypeOK /\ SentinelLast /\ IdleHasNoFuture
  BY DEF OrchInv, InputInv
<1>1. CASE StartRuntime \/ StartFails
  BY <1>0, <1>1 DEF StartRuntime, StartFails, inputVars
<1>2. CASE ProducerBegins
  BY <1>0, <1>2 DEF ProducerBegins, inputVars
<1>3. CASE InputEnds \/ ProducerCancelled
  <2>1. closed' /\ producer' = "done" /\ UNCHANGED <<loop, turnRunning, begun>>
    BY <1>3 DEF InputEnds, ProducerCancelled, Close
  <2>2. loop \in {"waiting", "turn", "draining"}
    BY <1>0, <1>3 DEF InputEnds, ProducerCancelled, OrchTypeOK
  <2>3. begun = <<>> => \A r \in Request : future'[r] = "absent"
    BY <1>0, <1>3, ConstantsAssumption
    DEF InputEnds, ProducerCancelled, Close, FuturesReleased, AnswerAwaited, TypeOK
  <2> QED
    BY <1>0, <2>1, <2>2, <2>3
<1>4. ASSUME NEW t \in Text, HearAnswer(t) \/ HearIgnored(t) \/ HearCommand(t)
      PROVE  Goal'
  <2>1. /\ producer = "running"
        /\ UNCHANGED <<loop, producer, turnRunning, begun, closed>>
    BY <1>4 DEF HearAnswer, HearIgnored, HearCommand, Hear, SubmitAnswer,
                EnqueueCommand, inputVars
  <2>2. begun = <<>> => \A r \in Request : future'[r] = "absent"
    BY <1>0, <1>4, ConstantsAssumption
    DEF HearAnswer, HearIgnored, HearCommand, SubmitAnswer, EnqueueCommand,
        AnswerAwaited, questionVars, inputVars, TypeOK
  <2> QED
    BY <1>0, <2>1, <2>2
<1>5. CASE TakeNext \/ EndTurnTakeNext
  <2>0. /\ loop \in {"waiting", "turn"}
        /\ commands # <<>>
        /\ UNCHANGED <<closed, future>>
        /\ commands' = Tail(commands)
        /\ producer \notin {"absent", "created"}
    BY <1>0, <1>5 DEF TakeNext, EndTurnTakeNext, BeginTurn, LeaveLoop, NextCommand, questionVars
  <2>1. CASE BeginTurn
    <3>1. begun' # <<>>
      BY <1>0, <2>1 DEF BeginTurn, OrchTypeOK
    <3> QED
      BY <1>0, <2>0, <2>1, <3>1 DEF BeginTurn
  <2>2. CASE LeaveLoop
    <3>1. closed
      <4>1. Len(commands) >= 1 /\ commands[1] = CLOSED
        BY <1>0, <2>0, <2>2 DEF LeaveLoop, EndSeen, TypeOK
      <4> QED
        BY <1>0, <4>1 DEF SentinelLast, TypeOK
    <3> QED
      BY <1>0, <2>0, <2>2, <3>1 DEF LeaveLoop, CancelProducer
  <2> QED
    BY <1>5, <2>1, <2>2 DEF TakeNext, EndTurnTakeNext
<1>6. CASE EndTurnWait \/ StopRuntime \/ RuntimeStopped
  BY <1>0, <1>6 DEF EndTurnWait, AfterTurn, StopRuntime, RuntimeStopped, inputVars
<1>7. CASE Interrupt
  BY <1>0, <1>7 DEF Interrupt, CancelProducer, inputVars
<1>8. ASSUME NEW r \in Request, Ask(r) \/ CallerStep(r) PROVE Goal'
  <2>1. UNCHANGED <<loop, producer, turnRunning, begun, commands, closed>>
    BY <1>8 DEF Ask, CallerStep, loopVars, RequestAnswer, RequestRefused, RequestRejected,
                RequestOpened, FireTimer, CancelRequest, Signal, CancelFuture, Resume
  <2>2. begun = <<>> => \A q \in Request : future'[q] = "absent"
    <3>1. CASE Ask(r)
      BY <3>1 DEF Ask, SessionOpen
    <3>2. CASE CallerStep(r)
      BY <1>0, <3>2 DEF CallerStep, FireTimer, CancelRequest, Signal, CancelFuture, Resume
    <3> QED
      BY <1>8, <3>1, <3>2
  <2> QED
    BY <1>0, <2>1, <2>2
<1>9. CASE UNCHANGED vars
  BY <1>0, <1>9 DEF vars, inputVars, loopVars
<1> QED
  BY <1>1, <1>2, <1>3, <1>4, <1>5, <1>6, <1>7, <1>8, <1>9
  DEF Next, ProducerStep, LoopStep, EndTurn

\* Lines enter the queue only while no turn runs, and leave it only for a turn.
LEMMA IdleLinesStep ==
  ASSUME OrchInv, InputInv, [Next]_vars
  PROVE  OnlyIdleLinesAccepted'
<1>0. OrchTypeOK /\ TypeOK /\ OnlyIdleLinesAccepted
  BY DEF OrchInv, OrchTypeOK
<1>1. ASSUME UNCHANGED <<commands, begun, heard>> PROVE OnlyIdleLinesAccepted'
  BY <1>0, <1>1 DEF OnlyIdleLinesAccepted
<1>2. ASSUME UNCHANGED <<begun, heard>>, commands' = Append(commands, CLOSED)
      PROVE  OnlyIdleLinesAccepted'
  <2>1. \A i \in 1..Len(commands') :
           \/ commands'[i] = CLOSED
           \/ i \in 1..Len(commands) /\ commands'[i] = commands[i]
    BY <1>0, <1>2 DEF TypeOK
  <2> QED
    <3> SUFFICES ASSUME NEW u \in Text, heard'[u] # "idle"
                 PROVE  /\ \A i \in 1..Len(commands') : commands'[i] # u
                        /\ \A i \in 1..Len(begun') : begun'[i] # u
      BY DEF OnlyIdleLinesAccepted
    <3>1. /\ \A i \in 1..Len(commands) : commands[i] # u
          /\ \A i \in 1..Len(begun) : begun[i] # u
      BY <1>0, <1>2 DEF OnlyIdleLinesAccepted
    <3>2. u # CLOSED
      BY ConstantsAssumption
    <3> QED
      BY <1>2, <2>1, <3>1, <3>2
<1>3. ASSUME NEW t \in Text, HearAnswer(t) \/ HearIgnored(t)
      PROVE  OnlyIdleLinesAccepted'
  <2>1. /\ UNCHANGED <<commands, begun>>
        /\ heard[t] = "no"
        /\ \A u \in Text : u # t => heard'[u] = heard[u]
    BY <1>0, <1>3 DEF HearAnswer, HearIgnored, Hear, SubmitAnswer, inputVars, OrchTypeOK
  <2> QED
    BY <1>0, <2>1 DEF OnlyIdleLinesAccepted
<1>4. ASSUME NEW t \in Text, HearCommand(t) PROVE OnlyIdleLinesAccepted'
  <2>1. /\ commands' = Append(commands, t)
        /\ begun' = begun
        /\ heard'[t] = "idle"
        /\ \A u \in Text : u # t => heard'[u] = heard[u]
    BY <1>0, <1>4 DEF HearCommand, Hear, EnqueueCommand, Put, Busy, OrchTypeOK
  <2>2. \A i \in 1..Len(commands') :
           \/ commands'[i] = t
           \/ i \in 1..Len(commands) /\ commands'[i] = commands[i]
    BY <1>0, <2>1 DEF TypeOK
  <2> SUFFICES ASSUME NEW u \in Text, heard'[u] # "idle"
               PROVE  /\ \A i \in 1..Len(commands') : commands'[i] # u
                      /\ \A i \in 1..Len(begun') : begun'[i] # u
    BY DEF OnlyIdleLinesAccepted
  <2>3. u # t /\ heard[u] # "idle"
    BY <2>1
  <2>4. /\ \A i \in 1..Len(commands) : commands[i] # u
        /\ \A i \in 1..Len(begun) : begun[i] # u
    BY <1>0, <2>3 DEF OnlyIdleLinesAccepted
  <2> QED
    BY <2>1, <2>2, <2>3, <2>4
<1>5. ASSUME BeginTurn \/ LeaveLoop PROVE OnlyIdleLinesAccepted'
  <2>1. /\ commands # <<>>
        /\ commands' = Tail(commands)
        /\ heard' = heard
        /\ begun' = begun \/ begun' = Append(begun, commands[1])
    BY <1>0, <1>5 DEF BeginTurn, LeaveLoop, NextCommand, TypeOK
  <2>2. /\ 1 \in 1..Len(commands)
        /\ \A i \in 1..Len(commands') : /\ i + 1 \in 1..Len(commands)
                                          /\ commands'[i] = commands[i + 1]
    BY <1>0, <2>1 DEF TypeOK
  <2>3. \A i \in 1..Len(begun') :
           \/ begun'[i] = commands[1]
           \/ i \in 1..Len(begun) /\ begun'[i] = begun[i]
    BY <1>0, <2>1 DEF OrchTypeOK
  <2> SUFFICES ASSUME NEW u \in Text, heard'[u] # "idle"
               PROVE  /\ \A i \in 1..Len(commands') : commands'[i] # u
                      /\ \A i \in 1..Len(begun') : begun'[i] # u
    BY DEF OnlyIdleLinesAccepted
  <2>4. /\ \A i \in 1..Len(commands) : commands[i] # u
        /\ \A i \in 1..Len(begun) : begun[i] # u
    BY <1>0, <2>1 DEF OnlyIdleLinesAccepted
  <2> QED
    BY <2>2, <2>3, <2>4
<1>6. CASE StartRuntime \/ StartFails \/ ProducerBegins \/ EndTurnWait \/ Interrupt
             \/ StopRuntime \/ RuntimeStopped \/ UNCHANGED vars
  BY <1>1, <1>6 DEF StartRuntime, StartFails, ProducerBegins, EndTurnWait, Interrupt,
                    StopRuntime, RuntimeStopped, vars, inputVars, loopVars
<1>7. CASE InputEnds \/ ProducerCancelled
  BY <1>2, <1>7 DEF InputEnds, ProducerCancelled, Close, WithSentinel
<1>8. ASSUME NEW r \in Request, Ask(r) \/ CallerStep(r) PROVE OnlyIdleLinesAccepted'
  BY <1>1, <1>8
  DEF Ask, CallerStep, loopVars, RequestAnswer, RequestRefused, RequestRejected,
      RequestOpened, FireTimer, CancelRequest, Signal, CancelFuture, Resume
<1> QED
  BY <1>3, <1>4, <1>5, <1>6, <1>7, <1>8
  DEF Next, ProducerStep, LoopStep, TakeNext, EndTurn, EndTurnTakeNext

\* Every reachable state satisfies both inductive invariants.
THEOREM OrchInvariant == SafetySpec => [](OrchInv /\ InputInv)
<1>1. Init => OrchInv /\ InputInv
  BY OrchInitInv, InputInitInv DEF Init
<1>2. OrchInv /\ InputInv /\ [Next]_vars => (OrchInv /\ InputInv)'
  <2> SUFFICES ASSUME OrchInv, InputInv, [Next]_vars PROVE OrchInv' /\ InputInv'
    OBVIOUS
  <2>1. OrchTypeOK'
    BY OrchTypeStep DEF OrchInv
  <2>2. InputInv'
    BY StepUsesCoordinator, InputInvStep
  <2> QED
    BY <2>1, <2>2, ControlStep, IdleLinesStep DEF OrchInv
<1> QED
  BY <1>1, <1>2, PTL DEF SafetySpec

\* The state of the orchestrator and of its coordinator keeps its type.
THEOREM OrchTypeCorrect == SafetySpec => []OrchTypeOK
<1>1. OrchInv => OrchTypeOK
  BY DEF OrchInv
<1> QED
  BY OrchInvariant, <1>1, PTL

\* _turn_running is true exactly while the loop is in a turn.
THEOREM TurnFlagExact == SafetySpec => []TurnFlag
<1>1. OrchInv => TurnFlag
  BY DEF OrchInv
<1> QED
  BY OrchInvariant, <1>1, PTL

\* A line said during a turn never becomes a command.
THEOREM BusyPolicy == SafetySpec => []BusyLinesNeverRun
<1>1. OrchInv => BusyLinesNeverRun
  BY DEF OrchInv, OnlyIdleLinesAccepted, BusyLinesNeverRun
<1> QED
  BY OrchInvariant, <1>1, PTL

\* When the runtime is stopped the producer is finished and no question is open.
THEOREM ShutdownOrder == SafetySpec => []NothingOpenAtStop
<1>1. OrchInv /\ InputInv => NothingOpenAtStop
  <2> SUFFICES ASSUME OrchInv, InputInv, loop \in {"stopping", "done"}
               PROVE  /\ producer \in {"absent", "done"}
                      /\ \A r \in Request : future[r] # "pending"
    BY DEF NothingOpenAtStop
  <2>1. producer \in {"absent", "done"}
    BY DEF OrchInv, ProducerFollowsLoop
  <2>2. CASE closed
    BY <2>1, <2>2 DEF InputInv, ClosedReleasesAll
  <2>3. CASE ~closed
    <3>1. begun = <<>>
      BY <2>1, <2>3 DEF OrchInv, NotYetBegun, ProducerCloses
    <3> QED
      BY <2>1, <3>1 DEF OrchInv, NotYetBegun
  <2> QED
    BY <2>2, <2>3 DEF InputInv, TypeOK
<1> QED
  BY OrchInvariant, <1>1, PTL

-----------------------------------------------------------------------------
(* What becomes of a line. *)

\* A line that was not said is nowhere, and one that was said is somewhere.
SaidIsUsed ==
  \A t \in Text :
    heard[t] # "no" <=>
      \/ \E i \in 1..Len(commands) : commands[i] = t
      \/ \E i \in 1..Len(begun) : begun[i] = t
      \/ \E r \in Request : answer[r] = t
      \/ t \in ignored

\* No line is used twice in the same way.
UsedOnceEach ==
  /\ \A i, j \in 1..Len(commands) : commands[i] \in Text /\ commands[i] = commands[j] => i = j
  /\ \A i, j \in 1..Len(begun) : begun[i] = begun[j] => i = j
  /\ \A r, q \in Request : answer[r] \in Text /\ answer[r] = answer[q] => r = q

\* No line is used in two ways.
UsedOneWay ==
  /\ \A i \in 1..Len(commands) : \A j \in 1..Len(begun) : commands[i] # begun[j]
  /\ \A r \in Request : answer[r] \in Text =>
       /\ \A i \in 1..Len(commands) : commands[i] # answer[r]
       /\ \A i \in 1..Len(begun) : begun[i] # answer[r]
       /\ answer[r] \notin ignored
  /\ \A t \in ignored :
       /\ \A i \in 1..Len(commands) : commands[i] # t
       /\ \A i \in 1..Len(begun) : begun[i] # t

\* A question that nobody has answered has no answer.
UnansweredIsBlank ==
  \A r \in Request : future[r] \in {"absent", "pending"} => answer[r] = NoText

\* The inductive invariant.
LinesInv == SaidIsUsed /\ UsedOnceEach /\ UsedOneWay /\ UnansweredIsBlank

LEMMA LinesInitInv == Init => LinesInv
<1> SUFFICES ASSUME Init PROVE LinesInv
  OBVIOUS
<1>1. Len(commands) = 0 /\ Len(begun) = 0 /\ ignored = {}
  BY DEF Init, InputInit
<1>2. /\ \A t \in Text : heard[t] = "no"
      /\ \A r \in Request : answer[r] = NoText
  BY DEF Init, InputInit
<1> QED
  BY <1>1, <1>2, ConstantsAssumption
  DEF LinesInv, SaidIsUsed, UsedOnceEach, UsedOneWay, UnansweredIsBlank

\* The steps that take no line and pass none on.
LEMMA LinesKept ==
  ASSUME LinesInv, UNCHANGED <<commands, begun, answer, heard, ignored>>,
         \A r \in Request : future'[r] \in {"absent", "pending"} =>
           future[r] \in {"absent", "pending"}
  PROVE  LinesInv'
BY DEF LinesInv, SaidIsUsed, UsedOnceEach, UsedOneWay, UnansweredIsBlank

\* The producer uses the line that is said, and no other.
LEMMA LinesHeard ==
  ASSUME OrchTypeOK, LinesInv, NEW t \in Text,
         HearAnswer(t) \/ HearIgnored(t) \/ HearCommand(t)
  PROVE  LinesInv'
<1> USE ConstantsAssumption DEF LinesInv, SaidIsUsed, UsedOnceEach, UsedOneWay, UnansweredIsBlank
<1>1. /\ heard[t] = "no" /\ heard'[t] # "no" /\ begun' = begun
      /\ \A u \in Text : u # t => heard'[u] = heard[u]
  BY DEF HearAnswer, HearIgnored, HearCommand, Hear, OrchTypeOK
<1>2. /\ \A i \in 1..Len(commands) : commands[i] # t
      /\ \A i \in 1..Len(begun) : begun[i] # t
      /\ \A r \in Request : answer[r] # t
      /\ t \notin ignored
  BY <1>1
<1>3. CASE HearAnswer(t)
  <2>1. PICK r \in Request : /\ future[r] = "pending" /\ answer' = [answer EXCEPT ![r] = t]
                             /\ future' = [future EXCEPT ![r] = "answered"]
    BY <1>3 DEF HearAnswer, SubmitAnswer, AnswerAwaited, OrchTypeOK, TypeOK
  <2>2. /\ answer[r] = NoText /\ answer'[r] = t
        /\ \A q \in Request : q # r => answer'[q] = answer[q]
    BY <2>1 DEF OrchTypeOK, TypeOK
  <2>3. UNCHANGED <<commands, begun, ignored>>
    BY <1>1, <1>3 DEF HearAnswer, SubmitAnswer
  <2>4. UnansweredIsBlank'
    BY <2>1, <2>2 DEF OrchTypeOK, TypeOK
  <2>5. SaidIsUsed'
    BY <1>1, <2>2, <2>3
  <2>6. UsedOnceEach'
    BY <1>2, <2>2, <2>3
  <2>7. UsedOneWay'
    BY <1>2, <2>2, <2>3
  <2> QED
    BY <2>4, <2>5, <2>6, <2>7
<1>4. CASE HearIgnored(t)
  <2>1. ignored' = ignored \cup {t} /\ UNCHANGED <<commands, begun, answer, future>>
    BY <1>1, <1>4 DEF HearIgnored, inputVars
  <2> QED
    BY <1>1, <1>2, <2>1
<1>5. CASE HearCommand(t)
  <2>1. commands' = Append(commands, t) /\ UNCHANGED <<begun, answer, future, ignored>>
    BY <1>1, <1>5 DEF HearCommand, EnqueueCommand, Put, questionVars
  <2>2. /\ Len(commands) \in Nat /\ Len(commands') = Len(commands) + 1
        /\ commands'[Len(commands) + 1] = t
        /\ \A i \in 1..Len(commands) : commands'[i] = commands[i]
    BY <2>1 DEF OrchTypeOK, TypeOK
  <2>3. \A i \in 1..Len(commands') : i \in 1..Len(commands) \/ i = Len(commands) + 1
    BY <2>2
  <2>4. Len(commands) + 1 \in 1..Len(commands') /\ \A i \in 1..Len(commands) : i \in 1..Len(commands')
    BY <2>2
  <2> HIDE <2>1
  <2>5. UNCHANGED <<begun, answer, future, ignored>>
    BY <2>1
  <2>6. SaidIsUsed'
    BY <1>1, <2>2, <2>3, <2>4, <2>5
  <2>7. UsedOnceEach'
    BY <1>2, <2>2, <2>3, <2>5
  <2>8. UsedOneWay'
    BY <1>2, <2>2, <2>3, <2>5
  <2> QED
    BY <2>5, <2>6, <2>7, <2>8
<1> QED
  BY <1>3, <1>4, <1>5

\* The loop takes the first item of the queue: a line it begins, or the sentinel.
LEMMA LinesTaken ==
  ASSUME OrchTypeOK, LinesInv, BeginTurn \/ LeaveLoop
  PROVE  LinesInv'
<1> USE ConstantsAssumption DEF LinesInv, SaidIsUsed, UsedOnceEach, UsedOneWay, UnansweredIsBlank
<1>1. /\ commands # <<>> /\ commands' = Tail(commands)
      /\ UNCHANGED <<answer, future, heard, ignored>>
  BY DEF BeginTurn, LeaveLoop, NextCommand, questionVars
<1>2. /\ 1 \in 1..Len(commands)
      /\ \A i \in 1..Len(commands') : i + 1 \in 1..Len(commands) /\ commands'[i] = commands[i + 1]
      /\ \A i \in 1..Len(commands) : i # 1 => i - 1 \in 1..Len(commands') /\ commands'[i - 1] = commands[i]
      /\ Len(commands') \in Nat
  BY <1>1 DEF OrchTypeOK, TypeOK
<1>3. \A i, j \in 1..Len(commands') : commands'[i] \in Text /\ commands'[i] = commands'[j] => i = j
  <2> SUFFICES ASSUME NEW i \in 1..Len(commands'), NEW j \in 1..Len(commands'),
                      commands'[i] \in Text, commands'[i] = commands'[j]
               PROVE  i = j
    OBVIOUS
  <2>1. /\ i + 1 \in 1..Len(commands) /\ j + 1 \in 1..Len(commands)
        /\ commands[i + 1] \in Text /\ commands[i + 1] = commands[j + 1]
    BY <1>2
  <2>2. i + 1 = j + 1
    BY <2>1
  <2> QED
    BY <1>2, <2>2
<1>4. \A t : (\E i \in 1..Len(commands) : commands[i] = t)
                <=> (t = commands[1] \/ \E i \in 1..Len(commands') : commands'[i] = t)
  <2> SUFFICES ASSUME NEW t
               PROVE  (\E i \in 1..Len(commands) : commands[i] = t)
                        <=> (t = commands[1] \/ \E i \in 1..Len(commands') : commands'[i] = t)
    OBVIOUS
  <2>1. ASSUME NEW i \in 1..Len(commands), commands[i] = t
        PROVE  t = commands[1] \/ \E k \in 1..Len(commands') : commands'[k] = t
    <3>1. CASE i = 1
      BY <2>1, <3>1
    <3>2. CASE i # 1
      <4>1. i - 1 \in 1..Len(commands') /\ commands'[i - 1] = t
        BY <1>2, <2>1, <3>2
      <4> QED
        BY <4>1
    <3> QED
      BY <3>1, <3>2
  <2>2. ASSUME NEW i \in 1..Len(commands'), commands'[i] = t
        PROVE  \E k \in 1..Len(commands) : commands[k] = t
    <3>1. i + 1 \in 1..Len(commands) /\ commands[i + 1] = t
      BY <1>2, <2>2
    <3> QED
      BY <3>1
  <2>3. t = commands[1] => \E k \in 1..Len(commands) : commands[k] = t
    BY <1>2
  <2> QED
    BY <2>1, <2>2, <2>3
\* An item that is left in the queue was in it, and a line is not there twice.
<1>left. \A i \in 1..Len(commands') : \E k \in 1..Len(commands) : commands'[i] = commands[k]
  BY <1>2
<1>head. commands[1] \in Text => \A i \in 1..Len(commands') : commands'[i] # commands[1]
  <2> SUFFICES ASSUME commands[1] \in Text, NEW i \in 1..Len(commands'), commands'[i] = commands[1]
               PROVE  FALSE
    OBVIOUS
  <2>1. i + 1 \in 1..Len(commands) /\ commands[i + 1] = commands[1] /\ 1 \in 1..Len(commands)
    BY <1>2
  <2>2. i + 1 = 1
    BY <2>1
  <2> QED
    BY <1>2, <2>2
<1>5. UnansweredIsBlank'
  BY <1>1
<1>6. UNCHANGED <<answer, heard, ignored>>
  BY <1>1
<1>7. CASE LeaveLoop
  <2>1. begun' = begun /\ commands[1] = CLOSED
    BY <1>1, <1>7 DEF LeaveLoop, EndSeen, OrchTypeOK, TypeOK
  <2>2. SaidIsUsed'
    <3>1. \A t \in Text :
            (\E i \in 1..Len(commands) : commands[i] = t)
               <=> \E i \in 1..Len(commands') : commands'[i] = t
      BY <1>4, <2>1
    <3> QED
      BY <1>6, <2>1, <3>1
  <2>3. UsedOnceEach'
    BY <1>3, <1>6, <2>1
  <2>4. UsedOneWay'
    <3>1. \A i \in 1..Len(commands') : \A j \in 1..Len(begun') : commands'[i] # begun'[j]
      BY <1>left, <2>1
    <3>2. \A r \in Request : answer[r] \in Text => \A i \in 1..Len(commands') : commands'[i] # answer[r]
      BY <1>left
    <3>3. \A t \in ignored : \A i \in 1..Len(commands') : commands'[i] # t
      BY <1>left
    <3> QED
      BY <1>6, <2>1, <3>1, <3>2, <3>3
  <2> QED
    BY <1>5, <2>2, <2>3, <2>4
<1>8. CASE BeginTurn
  <2>1. begun' = Append(begun, commands[1]) /\ commands[1] \in Text
    BY <1>1, <1>8 DEF BeginTurn, EndSeen, OrchTypeOK, TypeOK
  <2>2. /\ Len(begun) \in Nat /\ Len(begun') = Len(begun) + 1
        /\ begun'[Len(begun) + 1] = commands[1]
        /\ \A i \in 1..Len(begun) : begun'[i] = begun[i]
    BY <2>1 DEF OrchTypeOK
  <2>3. \A i \in 1..Len(begun') : i \in 1..Len(begun) \/ i = Len(begun) + 1
    BY <2>2
  <2>4. Len(begun) + 1 \in 1..Len(begun') /\ \A i \in 1..Len(begun) : i \in 1..Len(begun')
    BY <2>2
  <2>5. commands[1] \in Text /\ \A i \in 1..Len(begun) : begun[i] # commands[1]
    BY <1>2, <2>1
  <2>6. \A i \in 1..Len(begun') : begun'[i] = commands[1] \/ \E k \in 1..Len(begun) : begun'[i] = begun[k]
    BY <2>2, <2>3
  <2>7. \A t \in Text :
          (\E i \in 1..Len(begun') : begun'[i] = t)
             <=> (t = commands[1] \/ \E i \in 1..Len(begun) : begun[i] = t)
    BY <2>2, <2>3, <2>4
  <2>8. SaidIsUsed'
    BY <1>4, <1>6, <2>7
  <2>9. \A i, j \in 1..Len(begun') : begun'[i] = begun'[j] => i = j
    BY <2>2, <2>3, <2>5
  <2>10. UsedOnceEach'
    BY <1>3, <1>6, <2>9
  <2>11. \A i \in 1..Len(commands') : \A j \in 1..Len(begun') : commands'[i] # begun'[j]
    BY <1>left, <1>head, <2>5, <2>6
  <2>12. \A r \in Request : answer'[r] \in Text =>
           /\ \A i \in 1..Len(commands') : commands'[i] # answer'[r]
           /\ \A i \in 1..Len(begun') : begun'[i] # answer'[r]
           /\ answer'[r] \notin ignored'
    <3>1. \A r \in Request : answer[r] \in Text => commands[1] # answer[r]
      BY <1>2
    <3>2. \A r \in Request : answer[r] \in Text => \A i \in 1..Len(commands') : commands'[i] # answer[r]
      BY <1>left
    <3>3. \A r \in Request : answer[r] \in Text => \A i \in 1..Len(begun') : begun'[i] # answer[r]
      BY <2>6, <3>1
    <3> QED
      BY <1>6, <3>2, <3>3
  <2>13. \A t \in ignored' :
           /\ \A i \in 1..Len(commands') : commands'[i] # t
           /\ \A i \in 1..Len(begun') : begun'[i] # t
    <3>1. \A t \in ignored : commands[1] # t
      BY <1>2
    <3>2. \A t \in ignored : \A i \in 1..Len(commands') : commands'[i] # t
      BY <1>left
    <3>3. \A t \in ignored : \A i \in 1..Len(begun') : begun'[i] # t
      BY <2>6, <3>1
    <3> QED
      BY <1>6, <3>2, <3>3
  <2> QED
    BY <1>5, <2>8, <2>10, <2>11, <2>12, <2>13
<1> QED
  BY <1>7, <1>8

\* The end of the input puts the sentinel behind the lines and releases the question.
LEMMA LinesClosed ==
  ASSUME OrchTypeOK, LinesInv, InputEnds \/ ProducerCancelled
  PROVE  LinesInv'
<1> USE ConstantsAssumption DEF LinesInv, SaidIsUsed, UsedOnceEach, UsedOneWay, UnansweredIsBlank
<1>1. commands' = Append(commands, CLOSED) /\ UNCHANGED <<begun, heard>>
      /\ answer' = AnswersReleased /\ future' = FuturesReleased
  BY DEF InputEnds, ProducerCancelled, Close, WithSentinel
<1>2. ignored' = ignored
  BY DEF InputEnds, ProducerCancelled
<1>3. \A r \in Request : answer'[r] = answer[r]
  BY <1>1 DEF AnswersReleased, AnswerAwaited, OrchTypeOK, TypeOK
<1>4. \A r \in Request : future'[r] \in {"absent", "pending"} => future[r] \in {"absent", "pending"}
  BY <1>1 DEF FuturesReleased, AnswerAwaited, OrchTypeOK, TypeOK
<1>5. /\ Len(commands) \in Nat /\ Len(commands') = Len(commands) + 1
      /\ commands'[Len(commands) + 1] = CLOSED
      /\ \A i \in 1..Len(commands) : commands'[i] = commands[i]
  BY <1>1 DEF OrchTypeOK, TypeOK
<1>6. \A i \in 1..Len(commands') : i \in 1..Len(commands) \/ i = Len(commands) + 1
  BY <1>5
<1>7. \A i \in 1..Len(commands) : i \in 1..Len(commands')
  BY <1>5
<1>8. \A t \in Text :
        (\E i \in 1..Len(commands) : commands[i] = t) <=> \E i \in 1..Len(commands') : commands'[i] = t
  BY <1>5, <1>6, <1>7
<1>9. UNCHANGED <<begun, heard, ignored>>
  BY <1>1, <1>2
<1>10. begun \in Seq(Text) /\ ignored \subseteq Text
  BY DEF OrchTypeOK
<1>11. SaidIsUsed'
  BY <1>3, <1>8, <1>9
<1>12. UsedOnceEach'
  BY <1>3, <1>5, <1>6, <1>9
<1>13. UsedOneWay'
  <2>1. \A i \in 1..Len(begun) : begun[i] \in Text
    BY <1>10
  <2> QED
    BY <1>3, <1>5, <1>6, <1>9, <1>10, <2>1
<1>14. UnansweredIsBlank'
  BY <1>3, <1>4
<1> QED
  BY <1>11, <1>12, <1>13, <1>14

LEMMA LinesStep == OrchInv /\ InputInv /\ LinesInv /\ [Next]_vars => LinesInv'
<1> SUFFICES ASSUME OrchInv, InputInv, LinesInv, [Next]_vars PROVE LinesInv'
  OBVIOUS
<1>0. OrchTypeOK /\ TypeOK
  BY DEF OrchInv, OrchTypeOK
<1>1. CASE StartRuntime \/ StartFails \/ ProducerBegins \/ EndTurnWait \/ Interrupt
             \/ StopRuntime \/ RuntimeStopped \/ UNCHANGED vars
  <2>1. UNCHANGED <<commands, begun, answer, heard, ignored, future>>
    BY <1>1 DEF StartRuntime, StartFails, ProducerBegins, EndTurnWait, Interrupt,
                StopRuntime, RuntimeStopped, vars, inputVars, loopVars
  <2> QED
    BY <2>1, LinesKept
<1>2. ASSUME NEW r \in Request, Ask(r) \/ CallerStep(r) PROVE LinesInv'
  <2>1. UNCHANGED <<commands, begun, answer, heard, ignored>>
    BY <1>2 DEF Ask, CallerStep, loopVars, RequestAnswer, RequestRefused, RequestRejected,
                RequestOpened, FireTimer, CancelRequest, Signal, CancelFuture, Resume
  <2>2. CASE Ask(r)
    <3>1. caller[r] = "idle" /\ \A q \in Request : q # r => future'[q] = future[q]
      BY <1>0, <2>2 DEF Ask, RequestAnswer, RequestRefused, RequestRejected, RequestOpened, TypeOK
    <3>2. future[r] = "absent"
      BY <3>1 DEF InputInv, IdleHasNoFuture
    <3> QED
      BY <2>1, <3>1, <3>2, LinesKept
  <2>3. CASE CallerStep(r)
    <3>1. \A q \in Request : future'[q] \in {"absent", "pending"} => future[q] \in {"absent", "pending"}
      BY <1>0, <2>3 DEF CallerStep, FireTimer, CancelRequest, Signal, CancelFuture, Resume, TypeOK
    <3> QED
      BY <2>1, <3>1, LinesKept
  <2> QED
    BY <1>2, <2>2, <2>3
<1> QED
  BY <1>0, <1>1, <1>2, LinesHeard, LinesTaken, LinesClosed
  DEF Next, ProducerStep, LoopStep, TakeNext, EndTurn, EndTurnTakeNext

LEMMA LinesInvariant == SafetySpec => []LinesInv
BY LinesInitInv, LinesStep, OrchInvariant, PTL DEF SafetySpec

\* Every line the operator says is one answer, one command or dropped: never two
\* of these, never one of them twice, and never lost.
THEOREM LinesUsedOnce == SafetySpec => []EachLineUsedOnce
<1>1. OrchTypeOK /\ LinesInv => EachLineUsedOnce
  <2> SUFFICES ASSUME OrchTypeOK, LinesInv, NEW t \in Text
               PROVE  \/ heard[t] = "no" /\ Uses(t) = {}
                      \/ heard[t] # "no" /\ Cardinality(Uses(t)) = 1
    BY DEF EachLineUsedOnce
  <2> USE ConstantsAssumption DEF LinesInv
  <2>1. CASE heard[t] = "no"
    BY <2>1 DEF SaidIsUsed, Uses
  <2>2. CASE heard[t] # "no"
    <3>1. \E x : Uses(t) = {x}
      <4>1. ASSUME NEW i \in 1..Len(commands), commands[i] = t PROVE Uses(t) = {<<"queued", i>>}
        BY <4>1 DEF UsedOnceEach, UsedOneWay, Uses
      <4>2. ASSUME NEW i \in 1..Len(begun), begun[i] = t PROVE Uses(t) = {<<"begun", i>>}
        BY <4>2 DEF UsedOnceEach, UsedOneWay, Uses
      <4>3. ASSUME NEW r \in Request, answer[r] = t PROVE Uses(t) = {<<"answer", r>>}
        BY <4>3 DEF UsedOnceEach, UsedOneWay, Uses
      <4>4. ASSUME t \in ignored PROVE Uses(t) = {<<"ignored", t>>}
        BY <4>4 DEF UsedOneWay, Uses
      <4> QED
        BY <2>2, <4>1, <4>2, <4>3, <4>4 DEF SaidIsUsed
    <3>2. Cardinality(Uses(t)) = 1
      BY <3>1, FS_Singleton
    <3> QED
      BY <2>2, <3>2
  <2> QED
    BY <2>1, <2>2
<1>2. OrchInv => OrchTypeOK
  BY DEF OrchInv
<1> QED
  BY <1>1, <1>2, OrchInvariant, LinesInvariant, PTL

-----------------------------------------------------------------------------
(* The orchestrator implements CommandTurns: its commands are served one at a  *)
(* time, in the order of their acceptance, and none is accepted during a turn  *)
(* or once the loop has ended.                                                 *)

SentinelOnlyLast(q) == \A i \in 1..Len(q) : q[i] = CLOSED => i = Len(q)

\* What Lines keeps of a queue: everything but the sentinel at its end.
LEMMA LinesProperties ==
  ASSUME NEW q \in Seq(Text \cup {CLOSED}), SentinelOnlyLast(q)
  PROVE  /\ Lines(q) \in Seq(Text)
         /\ Len(Lines(q)) = IF q # <<>> /\ q[Len(q)] = CLOSED THEN Len(q) - 1 ELSE Len(q)
         /\ \A i \in 1..Len(Lines(q)) : Lines(q)[i] = q[i]
<1>1. CASE q # <<>> /\ q[Len(q)] = CLOSED
  <2>1. /\ Lines(q) = SubSeq(q, 1, Len(q) - 1)
        /\ Len(q) \in Nat \ {0}
    BY <1>1 DEF Lines
  <2>2. \A i \in 1..(Len(q) - 1) : q[i] \in Text
    BY <2>1 DEF SentinelOnlyLast
  <2>3. /\ SubSeq(q, 1, Len(q) - 1) \in Seq(Text)
        /\ Len(SubSeq(q, 1, Len(q) - 1)) = Len(q) - 1
        /\ \A i \in 1..(Len(q) - 1) : SubSeq(q, 1, Len(q) - 1)[i] = q[i]
    <3> DEFINE n == Len(q) - 1
    <3>1. n \in Nat /\ (\A i \in 1..n : q[i] \in Text)
      BY <2>1, <2>2
    <3> HIDE DEF n
    <3>2. /\ SubSeq(q, 1, n) \in Seq(Text)
          /\ Len(SubSeq(q, 1, n)) = IF 1 <= n THEN n - 1 + 1 ELSE 0
          /\ \A i \in 1..(n - 1 + 1) : SubSeq(q, 1, n)[i] = q[1 + i - 1]
      BY <3>1, SubSeqProperties
    <3>3. /\ Len(SubSeq(q, 1, n)) = n
          /\ \A i \in 1..n : SubSeq(q, 1, n)[i] = q[i]
      BY <3>1, <3>2
    <3> QED
      BY <3>2, <3>3 DEF n
  <2> QED
    BY <1>1, <2>1, <2>3
<1>2. CASE ~(q # <<>> /\ q[Len(q)] = CLOSED)
  <2>1. Lines(q) = q
    BY <1>2 DEF Lines
  <2>2. \A i \in 1..Len(q) : q[i] \in Text
    BY <1>2 DEF SentinelOnlyLast
  <2>3. q \in Seq(Text)
    BY <2>2
  <2> QED
    BY <1>2, <2>1, <2>3
<1> QED
  BY <1>1, <1>2

\* With t the tail of the queue q: removing the first line of the queue removes the first of its lines.
LEMMA LinesOfTail ==
  ASSUME NEW q \in Seq(Text \cup {CLOSED}), SentinelOnlyLast(q),
         q # <<>>, q[1] # CLOSED,
         NEW t \in Seq(Text \cup {CLOSED}), Len(t) = Len(q) - 1,
         \A i \in 1..Len(t) : t[i] = q[i + 1],
         NEW b \in Seq(Text)
  PROVE  /\ Lines(q) # <<>>
         /\ Append(b, q[1]) \o Lines(t) = b \o Lines(q)
<1>1. /\ t \in Seq(Text \cup {CLOSED})
      /\ Len(q) \in Nat \ {0}
      /\ Len(t) \in Nat
      /\ Len(t) = Len(q) - 1
      /\ \A i \in 1..Len(t) : t[i] = q[i + 1]
      /\ q[1] \in Text
  OBVIOUS
<1>2. SentinelOnlyLast(t)
  <2> SUFFICES ASSUME NEW i \in 1..Len(t), t[i] = CLOSED
               PROVE  i = Len(t)
    BY DEF SentinelOnlyLast
  <2>1. i + 1 \in 1..Len(q) /\ q[i + 1] = CLOSED
    BY <1>1
  <2>2. i + 1 = Len(q)
    BY <2>1 DEF SentinelOnlyLast
  <2> QED
    BY <1>1, <2>2
<1>3. /\ Lines(q) \in Seq(Text)
      /\ Len(Lines(q)) = IF q # <<>> /\ q[Len(q)] = CLOSED THEN Len(q) - 1 ELSE Len(q)
      /\ \A i \in 1..Len(Lines(q)) : Lines(q)[i] = q[i]
  BY LinesProperties
<1>4. /\ Lines(t) \in Seq(Text)
      /\ Len(Lines(t)) = IF t # <<>> /\ t[Len(t)] = CLOSED
                               THEN Len(t) - 1 ELSE Len(t)
      /\ \A i \in 1..Len(Lines(t)) : Lines(t)[i] = t[i]
  BY <1>1, <1>2, LinesProperties
<1>5. Len(Lines(q)) = Len(Lines(t)) + 1
  <2>1. CASE Len(q) = 1
    <3>1. t = <<>> /\ q[Len(q)] # CLOSED
      BY <1>1, <2>1
    <3> QED
      BY <1>1, <1>3, <1>4, <2>1, <3>1
  <2>2. CASE Len(q) # 1
    <3>1. t # <<>> /\ t[Len(t)] = q[Len(q)]
      BY <1>1, <2>2
    <3> QED
      BY <1>1, <1>3, <1>4, <3>1
  <2> QED
    BY <2>1, <2>2
<1>6. Lines(q) # <<>>
  BY <1>3, <1>4, <1>5
<1>7. \A i \in 1..Len(Lines(t)) : Lines(t)[i] = Lines(q)[i + 1]
  <2> SUFFICES ASSUME NEW i \in 1..Len(Lines(t))
               PROVE  Lines(t)[i] = Lines(q)[i + 1]
    OBVIOUS
  <2>1. i \in 1..Len(t) /\ i + 1 \in 1..Len(Lines(q))
    BY <1>1, <1>4, <1>5
  <2>2. Lines(t)[i] = q[i + 1]
    BY <1>1, <1>4, <2>1
  <2> QED
    BY <1>3, <2>1, <2>2
<1> DEFINE l == Lines(q)
           m == Lines(t)
<1>8. Append(b, q[1]) \o m = b \o l
  <2>1. l \in Seq(Text) /\ m \in Seq(Text) /\ Len(l) = Len(m) + 1 /\ l[1] = q[1]
        /\ \A i \in 1..Len(m) : m[i] = l[i + 1]
    <3>1. 1 \in 1..Len(l)
      BY <1>3, <1>4, <1>5
    <3> QED
      BY <1>3, <1>4, <1>5, <1>7, <3>1
  <2> HIDE DEF l, m
  <2> DEFINE h == <<q[1]>>
  <2>2. h \in Seq(Text) /\ Len(h) = 1 /\ h[1] = q[1]
    BY <1>1
  <2>3. l = h \o m
    <3> HIDE DEF h
    <3>1. /\ h \o m \in Seq(Text)
          /\ Len(h \o m) = Len(l)
          /\ \A i \in 1..Len(h) + Len(m) :
                (h \o m)[i] = IF i <= Len(h) THEN h[i] ELSE m[i - Len(h)]
      <4>1. /\ h \o m \in Seq(Text)
            /\ Len(h \o m) = Len(h) + Len(m)
            /\ \A i \in 1..Len(h) + Len(m) :
                  (h \o m)[i] = IF i <= Len(h) THEN h[i] ELSE m[i - Len(h)]
        <5>1. h \in Seq(Text) /\ m \in Seq(Text)
          BY <2>1, <2>2
        <5> QED
          BY <5>1, ConcatProperties, Zenon
      <4>2. Len(m) \in Nat
        BY <2>1
      <4> QED
        BY <2>1, <2>2, <4>1, <4>2
    <3>2. \A i \in 1..Len(l) : l[i] = (h \o m)[i]
      <4> SUFFICES ASSUME NEW i \in 1..Len(l) PROVE l[i] = (h \o m)[i]
        OBVIOUS
      <4>0. Len(m) \in Nat /\ Len(l) = Len(m) + 1
        BY <2>1
      <4>1. CASE i = 1
        BY <2>1, <2>2, <3>1, <4>0, <4>1
      <4>2. CASE i # 1
        <5>1. i - 1 \in 1..Len(m) /\ (i - 1) + 1 = i
          BY <4>0, <4>2
        <5>2. (h \o m)[i] = m[i - 1]
          BY <2>2, <3>1, <4>0, <4>2
        <5> QED
          BY <2>1, <5>1, <5>2
      <4> QED
        BY <4>1, <4>2
    <3> QED
      BY <2>1, <3>1, <3>2, SeqEqual
  <2>4. Append(b, q[1]) = b \o h
    BY <1>1, AppendIsConcat
  <2>5. (b \o h) \o m = b \o (h \o m)
    <3>1. h \in Seq(Text) /\ m \in Seq(Text) /\ b \in Seq(Text)
      BY <2>1, <2>2
    <3> HIDE DEF h
    <3> QED
      BY <3>1, ConcatAssociative
  <2> QED
    BY <2>3, <2>4, <2>5
<1> QED
  BY <1>6, <1>8

\* Every step of the orchestrator is a step of CommandTurns, or leaves its
\* variables alone.
LEMMA TurnStep ==
  ASSUME OrchInv, InputInv, [Next]_vars
  PROVE  Turns!Next \/ UNCHANGED <<Accepted, Len(begun), turnRunning,
                                   loop \in {"draining", "stopping", "done"}>>
<1> DEFINE Stopped == loop \in {"draining", "stopping", "done"}
           Same == UNCHANGED <<Accepted, Len(begun), turnRunning, Stopped>>
<1>0. /\ OrchTypeOK /\ TypeOK /\ TurnFlag /\ SentinelLast /\ ProducerFollowsLoop
      /\ ProducerCloses /\ NotYetBegun
      /\ SentinelOnlyLast(commands)
  BY DEF OrchInv, OrchTypeOK, InputInv, SentinelLast, SentinelOnlyLast
<1>a. /\ commands \in Seq(Text \cup {CLOSED})
      /\ begun \in Seq(Text)
      /\ Lines(commands) \in Seq(Text)
      /\ Len(Accepted) = Len(begun) + Len(Lines(commands))
  <2>1. Lines(commands) \in Seq(Text)
    BY <1>0, LinesProperties DEF TypeOK
  <2> QED
    BY <1>0, <2>1 DEF TypeOK, OrchTypeOK, Accepted
<1>1. ASSUME UNCHANGED <<commands, begun, loop, turnRunning>> PROVE Same
  BY <1>1 DEF Accepted
<1>2. CASE StartRuntime
  BY <1>2 DEF StartRuntime, inputVars, Accepted
<1>3. CASE StartFails
  <2>1. ~turnRunning /\ ~Stopped
    BY <1>0, <1>3 DEF StartFails, TurnFlag
  <2>2. Stopped' /\ turnRunning' = FALSE /\ UNCHANGED <<Accepted, Len(begun)>>
    BY <2>1, <1>3 DEF StartFails, inputVars, Accepted
  <2> QED
    BY <2>1, <2>2 DEF Turns!Next, Turns!Stop
<1>4. ASSUME NEW t \in Text, HearCommand(t) PROVE Turns!Next
  <2>1. /\ commands' = Append(commands, t)
        /\ ~closed
        /\ ~turnRunning
        /\ UNCHANGED <<begun, loop, turnRunning>>
        /\ ~Stopped
    BY <1>0, <1>4 DEF HearCommand, Hear, EnqueueCommand, AcceptsCommands, Put, Busy,
                      ProducerFollowsLoop
  <2>2. \A i \in 1..Len(commands) : commands[i] # CLOSED
    BY <1>0, <2>1 DEF SentinelLast
  <2>3. Lines(commands) = commands /\ Lines(commands') = commands'
    <3>1. commands' # <<>> /\ commands'[Len(commands')] = t /\ t # CLOSED
      BY <1>a, <2>1, ConstantsAssumption
    <3>2. commands = <<>> \/ commands[Len(commands)] # CLOSED
      BY <1>a, <2>2
    <3> QED
      BY <3>1, <3>2 DEF Lines
  <2>4. Accepted' = Append(Accepted, t)
    <3>1. commands \in Seq(Text)
      BY <1>a, <2>3
    <3>2. begun \o Append(commands, t) = Append(begun \o commands, t)
      BY <1>a, <3>1, ConcatAssociative, AppendIsConcat, SMT
    <3> QED
      BY <2>1, <2>3, <3>2 DEF Accepted
  <2> QED
    BY <2>1, <2>4 DEF Turns!Next, Turns!Accept
<1>5. CASE InputEnds \/ ProducerCancelled
  <2>1. /\ commands' = Append(commands, CLOSED)
        /\ ~closed
        /\ UNCHANGED <<begun, loop, turnRunning>>
    BY <1>5 DEF InputEnds, ProducerCancelled, Close, WithSentinel
  <2>2. \A i \in 1..Len(commands) : commands[i] # CLOSED
    BY <1>0, <2>1 DEF SentinelLast
  <2>3. Lines(commands) = commands
    <3>1. commands = <<>> \/ commands[Len(commands)] # CLOSED
      BY <1>a, <2>2
    <3> QED
      BY <3>1 DEF Lines
  <2>4. commands' \in Seq(Text \cup {CLOSED}) /\ SentinelOnlyLast(commands')
    BY <1>a, <2>1, <2>2 DEF SentinelOnlyLast
  <2>5. /\ Lines(commands') \in Seq(Text)
        /\ Len(Lines(commands')) = Len(commands)
        /\ \A i \in 1..Len(commands) : Lines(commands')[i] = commands[i]
    <3>1. /\ Lines(commands') \in Seq(Text)
          /\ Len(Lines(commands')) = IF commands' # <<>> /\ commands'[Len(commands')] = CLOSED
                                     THEN Len(commands') - 1 ELSE Len(commands')
          /\ \A i \in 1..Len(Lines(commands')) : Lines(commands')[i] = commands'[i]
      BY <2>4, LinesProperties
    <3>2. /\ Len(commands') = Len(commands) + 1
          /\ commands' # <<>>
          /\ commands'[Len(commands')] = CLOSED
          /\ \A i \in 1..Len(commands) : commands'[i] = commands[i]
          /\ Len(commands) \in Nat
      BY <1>a, <2>1
    <3> QED
      BY <3>1, <3>2
  <2>6. Lines(commands') = commands
    BY <1>a, <2>3, <2>5, SeqEqual
  <2> QED
    BY <2>1, <2>3, <2>6 DEF Accepted
<1>6. CASE TakeNext \/ EndTurnTakeNext
  <2>0. ~Stopped /\ (turnRunning <=> loop = "turn") /\ commands # <<>> /\ commands' = Tail(commands)
    BY <1>0, <1>6 DEF TakeNext, EndTurnTakeNext, TurnFlag, BeginTurn, LeaveLoop, NextCommand
  <2>1. CASE BeginTurn
    <3>1. /\ commands[1] # CLOSED
          /\ begun' = Append(begun, commands[1])
          /\ turnRunning' = TRUE
          /\ ~Stopped'
      BY <1>a, <2>1 DEF BeginTurn, EndSeen
    <3>2. Lines(commands) # <<>> /\ Accepted' = Accepted
      <4> DEFINE t == Tail(commands)
      <4>1. /\ t \in Seq(Text \cup {CLOSED})
            /\ Len(t) = Len(commands) - 1
            /\ \A i \in 1..Len(t) : t[i] = commands[i + 1]
        BY <1>a, <2>0, HeadTailProperties
      <4> HIDE DEF t
      <4>2. /\ Lines(commands) # <<>>
            /\ Append(begun, commands[1]) \o Lines(t) = begun \o Lines(commands)
        BY <1>0, <1>a, <2>0, <3>1, <4>1, LinesOfTail
      <4> QED
        BY <2>0, <3>1, <4>2 DEF Accepted, t
    <3>3. Len(begun) < Len(Accepted) /\ Len(begun)' = Len(begun) + 1
      BY <1>a, <3>1, <3>2
    <3>4. CASE turnRunning
      BY <2>0, <3>1, <3>2, <3>3, <3>4 DEF Turns!Next, Turns!FinishAndBegin
    <3>5. CASE ~turnRunning
      <4>1. UNCHANGED <<Accepted, Stopped>>
        BY <2>0, <3>1, <3>2
      <4> QED
        BY <2>0, <3>1, <3>3, <3>5, <4>1 DEF Turns!Next, Turns!Begin
    <3> QED
      BY <3>4, <3>5
  <2>2. CASE LeaveLoop
    <3>1. /\ commands[1] = CLOSED
          /\ UNCHANGED begun
          /\ turnRunning' = FALSE
          /\ Stopped'
      BY <1>a, <2>2 DEF LeaveLoop, EndSeen
    <3>2. Len(commands) = 1
      <4>1. 1 \in 1..Len(commands)
        BY <1>a, <2>0
      <4> QED
        BY <1>0, <3>1, <4>1 DEF SentinelOnlyLast
    <3>3. Lines(commands) = <<>>
      <4>1. Lines(commands) \in Seq(Text) /\ Len(Lines(commands)) = 0
        BY <1>0, <1>a, <2>0, <3>1, <3>2, LinesProperties
      <4> QED
        BY <4>1
    <3>4. Lines(commands') = <<>>
      <4>1. commands' = <<>>
        BY <1>a, <2>0, <3>2
      <4> QED
        BY <4>1 DEF Lines
    <3>5. Accepted' = Accepted
      BY <3>1, <3>3, <3>4 DEF Accepted
    <3> QED
      BY <2>0, <3>1, <3>5 DEF Turns!Next, Turns!Stop
  <2> QED
    BY <1>6, <2>1, <2>2 DEF TakeNext, EndTurnTakeNext
<1>7. CASE EndTurnWait
  <2>1. /\ turnRunning /\ turnRunning' = FALSE
        /\ UNCHANGED <<commands, begun>>
        /\ ~Stopped /\ ~Stopped'
    BY <1>0, <1>7 DEF EndTurnWait, AfterTurn, TurnFlag, inputVars
  <2>2. UNCHANGED <<Accepted, Len(begun), Stopped>>
    BY <2>1 DEF Accepted
  <2> QED
    BY <2>1, <2>2 DEF Turns!Next, Turns!Finish
<1>8. CASE Interrupt
  <2>1. UNCHANGED <<commands, begun>>
    BY <1>8 DEF Interrupt, inputVars
  <2>2. CASE loop \in {"waiting", "turn", "starting"}
    <3>1. turnRunning' = FALSE /\ ~Stopped /\ Stopped'
      BY <1>0, <1>8, <2>2 DEF Interrupt, TurnFlag
    <3> QED
      BY <2>1, <3>1 DEF Turns!Next, Turns!Stop, Accepted
  <2>3. CASE loop \in {"draining", "stopping"}
    BY <1>8, <2>1, <2>3 DEF Interrupt, Accepted
  <2> QED
    BY <1>8, <2>2, <2>3 DEF Interrupt
<1>9. CASE StopRuntime \/ RuntimeStopped
  BY <1>9 DEF StopRuntime, RuntimeStopped, inputVars, Accepted
<1>10. ASSUME NEW t \in Text, HearAnswer(t) \/ HearIgnored(t) PROVE Same
  BY <1>1, <1>10 DEF HearAnswer, HearIgnored, Hear, SubmitAnswer, inputVars
<1>11. CASE ProducerBegins \/ UNCHANGED vars
  BY <1>1, <1>11 DEF ProducerBegins, vars, inputVars, loopVars
<1>12. ASSUME NEW r \in Request, Ask(r) \/ CallerStep(r) PROVE Same
  BY <1>1, <1>12
  DEF Ask, CallerStep, loopVars, RequestAnswer, RequestRefused, RequestRejected,
      RequestOpened, FireTimer, CancelRequest, Signal, CancelFuture, Resume
<1> QED
  BY <1>2, <1>3, <1>4, <1>5, <1>6, <1>7, <1>8, <1>9, <1>10, <1>11, <1>12
  DEF Next, ProducerStep, LoopStep, EndTurn

\* The orchestrator implements CommandTurns.
THEOREM OrchestratorServesInTurn == SafetySpec => ServesInTurn
<1>1. Init => Turns!Init
  <2> SUFFICES ASSUME Init PROVE Turns!Init
    OBVIOUS
  <2>1. begun = <<>> /\ commands = <<>> /\ Len(begun) = 0
    BY DEF Init, InputInit
  <2>2. Lines(commands) = <<>>
    BY <2>1 DEF Lines
  <2>3. Accepted = <<>>
    BY <2>1, <2>2 DEF Accepted
  <2> QED
    BY <2>1, <2>3 DEF Init, Turns!Init
<1>2. OrchInv /\ InputInv /\ [Next]_vars => [Turns!Next]_(Turns!turnVars)
  BY TurnStep DEF Turns!turnVars
<1> QED
  BY <1>1, <1>2, OrchInvariant, PTL DEF SafetySpec, ServesInTurn, Turns!Spec
=============================================================================
