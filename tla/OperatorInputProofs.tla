------------------------- MODULE OperatorInputProofs -------------------------
(***************************************************************************)
(* The safety properties of OperatorInput, for every set of lines and of   *)
(* requests and for both versions of wait_for.                             *)
(***************************************************************************)
EXTENDS OperatorInput, TLAPS

\* A coroutine that has not been called owns no future.
IdleHasNoFuture ==
  \A r \in Request : caller[r] = "idle" => future[r] = "absent"

\* The inductive invariant.
InputInv ==
  /\ TypeOK
  /\ IdleHasNoFuture
  /\ PendingIsTracked
  /\ ClosedReleasesAll
  /\ SentinelLast

LEMMA InputInitInv == InputInit => InputInv
<1> SUFFICES ASSUME InputInit PROVE InputInv
  OBVIOUS
<1>1. TypeOK
  <2>1. commands \in Seq(Text \cup {CLOSED})
    BY DEF InputInit
  <2>2. /\ future \in [Request -> {"absent", "pending"} \cup Done]
        /\ caller \in [Request -> {"idle", "waiting", "returned", "raised", "cancelled"}]
    BY DEF InputInit
  <2>3. /\ answer \in [Request -> Text \cup {NoText}]
        /\ result \in [Request -> Text \cup {NoText}]
        /\ signals \in [Request -> SUBSET {"timeout", "cancel"}]
    BY DEF InputInit
  <2> QED
    BY <2>1, <2>2, <2>3 DEF InputInit, TypeOK
<1>2. IdleHasNoFuture /\ PendingIsTracked /\ ClosedReleasesAll
  BY DEF InputInit, IdleHasNoFuture, PendingIsTracked, ClosedReleasesAll
<1>3. SentinelLast
  BY DEF InputInit, SentinelLast
<1> QED
  BY <1>1, <1>2, <1>3 DEF InputInv

\* The type of the state survives every step of the coordinator.
LEMMA TypeStep == TypeOK /\ [InputNext]_inputVars => TypeOK'
<1> SUFFICES ASSUME TypeOK, [InputNext]_inputVars PROVE TypeOK'
  OBVIOUS
<1> USE ConstantsAssumption DEF TypeOK, Done, questionVars
<1>1. ASSUME NEW t \in Text, SubmitAnswer(t) PROVE TypeOK'
  BY <1>1 DEF SubmitAnswer, AnswerAwaited
<1>2. ASSUME NEW t \in Text, EnqueueCommand(t) PROVE TypeOK'
  BY <1>2 DEF EnqueueCommand, Put
<1>3. ASSUME NEW r \in Request, RequestAnswer(r) PROVE TypeOK'
  BY <1>3 DEF RequestAnswer, RequestRefused, RequestRejected, RequestOpened
<1>4. ASSUME NEW r \in Request, FireTimer(r) \/ CancelRequest(r) PROVE TypeOK'
  BY <1>4 DEF FireTimer, CancelRequest, Signal
<1>5. ASSUME NEW r \in Request, CancelFuture(r) PROVE TypeOK'
  BY <1>5 DEF CancelFuture
<1>6. ASSUME NEW r \in Request, Resume(r) PROVE TypeOK'
  BY <1>6 DEF Resume, Delivers, ClearedBy
<1>7. ASSUME NextCommand PROVE TypeOK'
  BY <1>7 DEF NextCommand
<1>8. ASSUME Close PROVE TypeOK'
  BY <1>8 DEF Close, FuturesReleased, AnswersReleased, WithSentinel, AnswerAwaited
<1>9. ASSUME UNCHANGED inputVars PROVE TypeOK'
  BY <1>9 DEF inputVars
<1> QED
  BY <1>1, <1>2, <1>3, <1>4, <1>5, <1>6, <1>7, <1>8, <1>9 DEF InputNext

\* The futures: what each step does to the open question and its registration.
LEMMA FutureStep ==
  ASSUME InputInv, [InputNext]_inputVars
  PROVE  (IdleHasNoFuture /\ PendingIsTracked /\ ClosedReleasesAll)'
<1> USE DEF IdleHasNoFuture, PendingIsTracked, ClosedReleasesAll
<1> DEFINE Goal == IdleHasNoFuture /\ PendingIsTracked /\ ClosedReleasesAll
<1>0. TypeOK /\ Goal
  BY DEF InputInv
<1>1. ASSUME NEW t \in Text, SubmitAnswer(t) PROVE Goal'
  BY <1>0, <1>1 DEF SubmitAnswer, AnswerAwaited, TypeOK
<1>2. ASSUME NEW t \in Text, EnqueueCommand(t) PROVE Goal'
  BY <1>0, <1>2 DEF EnqueueCommand, questionVars
<1>3. ASSUME NEW r \in Request, RequestAnswer(r) PROVE Goal'
  <2>1. CASE RequestRefused(r)
    BY <1>0, <2>1 DEF RequestRefused, TypeOK
  <2>2. CASE RequestRejected(r)
    BY <1>0, <2>2 DEF RequestRejected, TypeOK
  <2>3. CASE RequestOpened(r)
    <3>1. \A q \in Request : future[q] # "pending"
      BY <1>0, <2>3, ConstantsAssumption DEF RequestOpened, AnswerAwaited
    <3> QED
      BY <1>0, <2>3, <3>1 DEF RequestOpened, TypeOK
  <2> QED
    BY <1>3, <2>1, <2>2, <2>3 DEF RequestAnswer
<1>4. ASSUME NEW r \in Request, FireTimer(r) \/ CancelRequest(r) PROVE Goal'
  BY <1>0, <1>4 DEF FireTimer, CancelRequest, Signal, TypeOK
<1>5. ASSUME NEW r \in Request, CancelFuture(r) PROVE Goal'
  BY <1>0, <1>5 DEF CancelFuture, TypeOK
<1>6. ASSUME NEW r \in Request, Resume(r) PROVE Goal'
  BY <1>0, <1>6 DEF Resume, ClearedBy, TypeOK, Done
<1>7. ASSUME NextCommand PROVE Goal'
  BY <1>0, <1>7 DEF NextCommand, questionVars
<1>8. ASSUME Close PROVE Goal'
  BY <1>0, <1>8, ConstantsAssumption DEF Close, FuturesReleased, AnswerAwaited, TypeOK
<1>9. ASSUME UNCHANGED inputVars PROVE Goal'
  BY <1>0, <1>9 DEF inputVars
<1> QED
  BY <1>1, <1>2, <1>3, <1>4, <1>5, <1>6, <1>7, <1>8, <1>9 DEF InputNext

\* The queue: only enqueue_command, next_command and close() touch it.
LEMMA QueueStep ==
  ASSUME InputInv, [InputNext]_inputVars
  PROVE  SentinelLast'
<1>0. TypeOK /\ SentinelLast
  BY DEF InputInv
<1>1. ASSUME UNCHANGED <<commands, closed, ended>> PROVE SentinelLast'
  BY <1>0, <1>1 DEF SentinelLast
<1>2. ASSUME NEW t \in Text, EnqueueCommand(t) PROVE SentinelLast'
  <2>1. /\ commands' = Append(commands, t)
        /\ ~closed
        /\ UNCHANGED <<closed, ended>>
        /\ t # CLOSED
    BY <1>2, ConstantsAssumption DEF EnqueueCommand, AcceptsCommands, Put
  <2>2. \A i \in 1..Len(commands) : commands[i] # CLOSED
    BY <1>0, <2>1 DEF SentinelLast
  <2>3. \A i \in 1..Len(commands') : commands'[i] # CLOSED
    BY <1>0, <2>1, <2>2 DEF TypeOK
  <2> QED
    BY <1>0, <2>1, <2>3 DEF SentinelLast
<1>3. ASSUME NextCommand PROVE SentinelLast'
  <2>1. /\ commands # <<>>
        /\ commands' = Tail(commands)
        /\ closed' = closed
        /\ ended' = (commands[1] = CLOSED)
    BY <1>3, <1>0 DEF NextCommand, TypeOK
  <2>2. /\ Len(commands) \in Nat \ {0}
        /\ Len(commands') = Len(commands) - 1
        /\ \A i \in 1..Len(commands') : commands'[i] = commands[i + 1]
    BY <1>0, <2>1 DEF TypeOK
  <2>3. ~ended
    BY <1>0, <2>1 DEF SentinelLast
  <2>4. CASE commands[1] = CLOSED
    <3>1. Len(commands) = 1
      BY <1>0, <2>2, <2>4 DEF SentinelLast
    <3>2. commands' = <<>>
      BY <1>0, <2>1, <3>1 DEF TypeOK
    <3>3. closed
      BY <1>0, <2>2, <2>4 DEF SentinelLast
    <3>4. closed' /\ ended'
      BY <2>1, <2>4, <3>3
    <3>5. \A i \in 1..Len(commands') : FALSE
      BY <2>2, <3>1
    <3> QED
      BY <3>2, <3>4, <3>5 DEF SentinelLast
  <2>5. CASE commands[1] # CLOSED
    <3>1. \A i \in 1..Len(commands') : commands'[i] = CLOSED => i = Len(commands')
      BY <1>0, <2>2 DEF SentinelLast
    <3>2. closed <=> \E i \in 1..Len(commands) : commands[i] = CLOSED
      BY <1>0, <2>3 DEF SentinelLast
    <3>3. (\E i \in 1..Len(commands) : commands[i] = CLOSED)
            <=> (\E i \in 1..Len(commands') : commands'[i] = CLOSED)
      <4>1. ASSUME NEW i \in 1..Len(commands), commands[i] = CLOSED
            PROVE  \E j \in 1..Len(commands') : commands'[j] = CLOSED
        <5>1. i - 1 \in 1..Len(commands') /\ (i - 1) + 1 = i
          BY <2>2, <2>5, <4>1
        <5> QED
          BY <2>2, <4>1, <5>1
      <4>2. ASSUME NEW j \in 1..Len(commands'), commands'[j] = CLOSED
            PROVE  \E i \in 1..Len(commands) : commands[i] = CLOSED
        <5>1. j + 1 \in 1..Len(commands)
          BY <2>2
        <5> QED
          BY <2>2, <4>2, <5>1
      <4> QED
        BY <4>1, <4>2
    <3> QED
      BY <2>1, <2>5, <3>1, <3>2, <3>3 DEF SentinelLast
  <2> QED
    BY <2>4, <2>5
<1>4. ASSUME Close PROVE SentinelLast'
  <2>1. /\ commands' = Append(commands, CLOSED)
        /\ ~closed /\ closed'
        /\ ended' = ended
    BY <1>4 DEF Close, WithSentinel
  <2>2. ~ended /\ \A i \in 1..Len(commands) : commands[i] # CLOSED
    BY <1>0, <2>1 DEF SentinelLast
  <2>3. /\ Len(commands') = Len(commands) + 1
        /\ commands'[Len(commands')] = CLOSED
        /\ \A i \in 1..Len(commands) : commands'[i] = commands[i]
        /\ Len(commands) \in Nat
    BY <1>0, <2>1 DEF TypeOK
  <2> QED
    BY <2>1, <2>2, <2>3 DEF SentinelLast
<1>5. ASSUME NEW t \in Text, SubmitAnswer(t) PROVE SentinelLast'
  BY <1>1, <1>5 DEF SubmitAnswer
<1>6. ASSUME NEW r \in Request,
             RequestAnswer(r) \/ FireTimer(r) \/ CancelRequest(r)
               \/ CancelFuture(r) \/ Resume(r)
      PROVE  SentinelLast'
  BY <1>1, <1>6
  DEF RequestAnswer, RequestRefused, RequestRejected, RequestOpened, FireTimer,
      CancelRequest, Signal, CancelFuture, Resume
<1>7. ASSUME UNCHANGED inputVars PROVE SentinelLast'
  BY <1>1, <1>7 DEF inputVars
<1> QED
  BY <1>2, <1>3, <1>4, <1>5, <1>6, <1>7 DEF InputNext

LEMMA InputInvStep == InputInv /\ [InputNext]_inputVars => InputInv'
  BY TypeStep, FutureStep, QueueStep DEF InputInv

\* Every reachable state of the coordinator satisfies the inductive invariant.
THEOREM InputInvariant == InputSafetySpec => []InputInv
  BY InputInitInv, InputInvStep, PTL DEF InputSafetySpec

\* The coordinator's state keeps its type.
THEOREM InputTypeCorrect == InputSafetySpec => []TypeOK
<1>1. InputInv => TypeOK
  BY DEF InputInv
<1> QED
  BY InputInvariant, <1>1, PTL

\* request_answer never loses the registration of a question that is open.
THEOREM QuestionsTracked == InputSafetySpec => []PendingIsTracked
<1>1. InputInv => PendingIsTracked
  BY DEF InputInv
<1> QED
  BY InputInvariant, <1>1, PTL

\* close() leaves no question open, and none is opened after it.
THEOREM CloseReleases == InputSafetySpec => []ClosedReleasesAll
<1>1. InputInv => ClosedReleasesAll
  BY DEF InputInv
<1> QED
  BY InputInvariant, <1>1, PTL

\* The command loop sees the sentinel once and after every accepted command.
THEOREM SentinelIsLast == InputSafetySpec => []SentinelLast
<1>1. InputInv => SentinelLast
  BY DEF InputInv
<1> QED
  BY InputInvariant, <1>1, PTL

\* A resolved future keeps its state and its answer: set_result is never called
\* on a future that is done.
THEOREM ResolvedForGood == InputSafetySpec => FuturesResolveOnce
<1> DEFINE Kept == \A r \in Request :
      future[r] \in Done => future'[r] = future[r] /\ answer'[r] = answer[r]
<1>1. ASSUME InputInv, [InputNext]_inputVars PROVE [Kept]_inputVars
  <2>0. TypeOK /\ IdleHasNoFuture
    BY <1>1 DEF InputInv
  <2> USE <2>0 DEF TypeOK, Done
  <2>1. ASSUME NEW t \in Text, SubmitAnswer(t) PROVE Kept
    BY <2>1 DEF SubmitAnswer, AnswerAwaited
  <2>2. ASSUME NEW t \in Text, EnqueueCommand(t) PROVE Kept
    BY <2>2 DEF EnqueueCommand, questionVars
  <2>3. ASSUME NEW r \in Request, RequestAnswer(r) PROVE Kept
    BY <2>3 DEF RequestAnswer, RequestRefused, RequestRejected, RequestOpened,
                IdleHasNoFuture
  <2>4. ASSUME NEW r \in Request, FireTimer(r) \/ CancelRequest(r) PROVE Kept
    BY <2>4 DEF FireTimer, CancelRequest, Signal
  <2>5. ASSUME NEW r \in Request, CancelFuture(r) PROVE Kept
    BY <2>5 DEF CancelFuture
  <2>6. ASSUME NEW r \in Request, Resume(r) PROVE Kept
    BY <2>6 DEF Resume
  <2>7. ASSUME NextCommand PROVE Kept
    BY <2>7 DEF NextCommand, questionVars
  <2>8. ASSUME Close PROVE Kept
    BY <2>8 DEF Close, FuturesReleased, AnswersReleased, AnswerAwaited
  <2> QED
    BY <1>1, <2>1, <2>2, <2>3, <2>4, <2>5, <2>6, <2>7, <2>8 DEF InputNext
<1> QED
  BY <1>1, InputInvariant, PTL DEF InputSafetySpec, FuturesResolveOnce

-----------------------------------------------------------------------------
\* A question that is open has its caller waiting.
OpenIsWaiting == \A r \in Request : future[r] = "pending" => caller[r] = "waiting"

LEMMA DeliveredStep ==
  ASSUME ~EagerCancel, InputInv, OpenIsWaiting, AnswersDelivered, [InputNext]_inputVars
  PROVE  (OpenIsWaiting /\ AnswersDelivered)'
<1> DEFINE Goal == OpenIsWaiting /\ AnswersDelivered
<1> USE DEF OpenIsWaiting, AnswersDelivered
<1>0. Goal /\ TypeOK /\ IdleHasNoFuture
  BY DEF InputInv
<1>1. ASSUME NEW t \in Text, SubmitAnswer(t) PROVE Goal'
  BY <1>0, <1>1 DEF SubmitAnswer, AnswerAwaited, TypeOK
<1>2. ASSUME NEW t \in Text, EnqueueCommand(t) PROVE Goal'
  BY <1>0, <1>2 DEF EnqueueCommand, questionVars
<1>3. ASSUME NEW r \in Request, RequestAnswer(r) PROVE Goal'
  <2>1. future[r] = "absent"
    BY <1>0, <1>3 DEF RequestAnswer, RequestRefused, RequestRejected, RequestOpened, IdleHasNoFuture
  <2> QED
    BY <1>0, <1>3, <2>1 DEF RequestAnswer, RequestRefused, RequestRejected, RequestOpened, TypeOK
<1>4. ASSUME NEW r \in Request, FireTimer(r) \/ CancelRequest(r) PROVE Goal'
  BY <1>0, <1>4 DEF FireTimer, CancelRequest, Signal
<1>5. ASSUME NEW r \in Request, CancelFuture(r) PROVE Goal'
  BY <1>0, <1>5 DEF CancelFuture, TypeOK
<1>6. ASSUME NEW r \in Request, Resume(r) PROVE Goal'
  <2>1. future[r] = "answered" => result' = [result EXCEPT ![r] = answer[r]]
    BY <1>6 DEF Resume, Delivers
  <2>2. UNCHANGED <<future, answer>> /\ future[r] \in Done
        /\ \A q \in Request : q # r => caller'[q] = caller[q] /\ result'[q] = result[q]
    BY <1>0, <1>6 DEF Resume, TypeOK
  <2> QED
    BY <1>0, <2>1, <2>2 DEF TypeOK, Done
<1>7. ASSUME NextCommand PROVE Goal'
  BY <1>0, <1>7 DEF NextCommand, questionVars
<1>8. ASSUME Close PROVE Goal'
  BY <1>0, <1>8 DEF Close, FuturesReleased, AnswersReleased, AnswerAwaited, TypeOK
<1>9. ASSUME UNCHANGED inputVars PROVE Goal'
  BY <1>0, <1>9 DEF inputVars
<1> QED
  BY <1>1, <1>2, <1>3, <1>4, <1>5, <1>6, <1>7, <1>8, <1>9 DEF InputNext

\* With the wait_for of Python 3.11 an answer that was taken from the operator's
\* input is what request_answer returns, whatever the timer and a cancellation do.
THEOREM AnswersAreDelivered ==
  ASSUME ~EagerCancel
  PROVE  InputSafetySpec => []AnswersDelivered
<1>1. InputInit => OpenIsWaiting /\ AnswersDelivered
  BY DEF InputInit, OpenIsWaiting, AnswersDelivered
<1>2. InputInv /\ OpenIsWaiting /\ AnswersDelivered /\ [InputNext]_inputVars
        => (OpenIsWaiting /\ AnswersDelivered)'
  BY DeliveredStep
<1> QED
  BY <1>1, <1>2, InputInvariant, PTL DEF InputSafetySpec
=============================================================================
