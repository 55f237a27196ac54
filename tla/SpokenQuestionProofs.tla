------------------------ MODULE SpokenQuestionProofs -------------------------
(***************************************************************************)
(* A question of speak.ask in time, for every set of questions and lines   *)
(* and for every length of the two timeouts.                               *)
(***************************************************************************)
EXTENDS SpokenQuestion, OperatorInputProofs

-----------------------------------------------------------------------------
(* The coordinator's theorems hold of its questions in time. *)

LEMMA SpokenUsesInput == [Next]_vars => [InputNext]_inputVars
<1> SUFFICES ASSUME [Next]_vars PROVE [InputNext]_inputVars
  OBVIOUS
<1>1. ASSUME NEW r \in Request, QuestionStep(r) PROVE [InputNext]_inputVars
  <2>1. CASE CallSent(r) \/ CallAnswered(r) \/ CallTimesOut(r) \/ CallLeft(r) \/ FormRefused(r)
    BY <2>1 DEF CallSent, CallAnswered, CallTimesOut, CallLeft, CallEnds, FormRefused
  <2>2. CASE Asks(r) \/ AsksTooLate(r) \/ AsksBeside(r)
    BY <2>2 DEF Asks, AsksTooLate, AsksBeside, RequestAnswer, InputNext
  <2>3. CASE CallbackEnds(r) \/ TimerFires(r) \/ CallbackCancelled(r) \/ FutureCancelled(r)
    BY <2>3 DEF CallbackEnds, TimerFires, CallbackCancelled, FutureCancelled, InputNext
  <2> QED
    BY <1>1, <2>1, <2>2, <2>3 DEF QuestionStep
<1>2. CASE \E t \in Text : Answers(t)
  BY <1>2 DEF Answers, InputNext
<1>3. CASE InputGoesOn
  BY <1>3 DEF InputGoesOn, InputNext
<1>4. CASE SessionBreaks \/ Tick \/ UNCHANGED vars
  BY <1>4 DEF SessionBreaks, Tick, vars
<1> QED
  BY <1>1, <1>2, <1>3, <1>4 DEF Next

\* A question in time uses the coordinator only as OperatorInput allows.
LEMMA SpokenUsesCoordinator == SafetySpec => InputSafetySpec
<1>1. Init => InputInit
  BY DEF Init
<1> QED
  BY <1>1, SpokenUsesInput, PTL DEF SafetySpec, InputSafetySpec

-----------------------------------------------------------------------------
(* The clocks. *)

\* A question that was not asked has waited for nothing, and is asked after its
\* call was sent: it waits for the default time, and no longer than its call.
ClocksInOrder ==
  \A r \in Request :
    /\ caller[r] = "idle" => waited[r] = 0 /\ signals[r] = {}
    /\ call[r] = "none" => caller[r] = "idle"
    /\ call[r] = "waiting" => limit[r] = AnswerTimeout /\ waited[r] <= age[r]

SpokenInv == SpokenTypeOK /\ ClocksInOrder

LEMMA SpokenInitInv == Init => SpokenInv
<1> SUFFICES ASSUME Init PROVE SpokenInv
  OBVIOUS
<1>1. TypeOK
  BY InputInitInv DEF Init, InputInv
<1>2. ClocksInOrder
  BY DEF Init, InputInit, ClocksInOrder
<1>3. SpokenTypeOK
  BY <1>1, TimesAssumption DEF Init, SpokenTypeOK
<1> QED
  BY <1>2, <1>3 DEF SpokenInv

\* Every step keeps the types and the order of the clocks.
LEMMA SpokenStep == InputInv /\ InputInv' /\ SpokenInv /\ [Next]_vars => SpokenInv'
<1> SUFFICES ASSUME InputInv, InputInv', SpokenInv, [Next]_vars PROVE SpokenInv'
  OBVIOUS
<1> USE TimesAssumption DEF SpokenInv, SpokenTypeOK, ClocksInOrder, inputVars, callVars
<1>0. TypeOK /\ TypeOK' /\ IdleHasNoFuture
  BY DEF InputInv
<1>a. \A q \in Request : limit[q] \in Nat
  <2>1. ModelTimeout \cup {0, AnswerTimeout} \subseteq Nat
    OBVIOUS
  <2> QED
    BY <2>1
<1>1. ASSUME NEW r \in Request, CallSent(r) PROVE SpokenInv'
  BY <1>0, <1>1 DEF CallSent, RequestLockFree, ToolArguments
<1>2. ASSUME NEW r \in Request, CallAnswered(r) \/ CallTimesOut(r) \/ CallLeft(r) PROVE SpokenInv'
  BY <1>0, <1>2 DEF CallAnswered, CallTimesOut, CallLeft, CallEnds
<1>3. ASSUME NEW r \in Request, FormRefused(r) PROVE SpokenInv'
  BY <1>0, <1>3 DEF FormRefused, Replies
<1>4. ASSUME NEW r \in Request, Asks(r) PROVE SpokenInv'
  <2>1. PICK meta \in {limit[r], 0} : limit' = [limit EXCEPT ![r] = TimeoutSeconds(meta)]
    BY <1>4 DEF Asks
  <2>2. /\ TimeoutSeconds(meta) \in ModelTimeout \cup {0, AnswerTimeout}
        /\ limit[r] = AnswerTimeout => TimeoutSeconds(meta) = AnswerTimeout
    BY DEF TimeoutSeconds
  <2>3. /\ caller[r] = "idle" /\ call[r] # "none"
        /\ caller' = [caller EXCEPT ![r] = "waiting"]
        /\ UNCHANGED <<signals, call, age, waited, replied, lost, timely>>
    BY <1>4 DEF Asks, MayAsk, RequestOpened
  <2>4. /\ limit' \in [Request -> ModelTimeout \cup {0, AnswerTimeout}]
        /\ \A q \in Request : limit'[q] = IF q = r THEN TimeoutSeconds(meta) ELSE limit[q]
    BY <2>1, <2>2
  <2>5. \A q \in Request : caller'[q] = IF q = r THEN "waiting" ELSE caller[q]
    BY <1>0, <2>3 DEF TypeOK
  <2>6. waited[r] = 0 /\ limit'[r] \in Nat
    BY <2>3, <2>4
  <2>7. SpokenTypeOK'
    BY <1>0, <2>3, <2>4, <2>6
  <2>8. ClocksInOrder'
    BY <2>2, <2>3, <2>4, <2>5
  <2> QED
    BY <2>3, <2>7, <2>8
<1>5. ASSUME NEW r \in Request, AsksTooLate(r) \/ AsksBeside(r) PROVE SpokenInv'
  <2>1. /\ call[r] # "none"
        /\ \A q \in Request : q # r => caller'[q] = caller[q]
        /\ caller'[r] # "idle"
        /\ UNCHANGED <<signals, call, age, limit, waited, lost, timely>>
    BY <1>0, <1>5 DEF AsksTooLate, AsksBeside, MayAsk, RequestRefused, RequestRejected, TypeOK
  <2>2. replied' \in [Request -> {"none", "accept", "cancel", "error"}]
    BY <1>5 DEF AsksTooLate, AsksBeside, Replies
  <2> QED
    BY <1>0, <2>1, <2>2
<1>6. ASSUME NEW r \in Request, CallbackEnds(r) PROVE SpokenInv'
  <2>1. /\ caller[r] = "waiting" /\ caller'[r] # "idle"
        /\ \A q \in Request : q # r => caller'[q] = caller[q]
        /\ UNCHANGED <<signals, call, age, limit, lost, timely>>
        /\ waited' = [waited EXCEPT ![r] = 0]
    BY <1>0, <1>6 DEF CallbackEnds, Resume, TypeOK
  <2>2. replied' \in [Request -> {"none", "accept", "cancel", "error"}]
    BY <1>6 DEF CallbackEnds, ActionFor
  <2>3. \A q \in Request : waited'[q] = IF q = r THEN 0 ELSE waited[q]
    BY <2>1
  <2>4. SpokenTypeOK'
    <3>1. waited' \in [Request -> Nat]
      BY <2>1
    <3>2. \A q \in Request : waited'[q] <= limit'[q]
      BY <1>a, <2>1, <2>3
    <3> QED
      BY <1>0, <2>1, <2>2, <3>1, <3>2
  <2>5. ClocksInOrder'
    BY <2>1, <2>3
  <2> QED
    BY <2>1, <2>4, <2>5
<1>7. ASSUME NEW r \in Request, TimerFires(r) \/ CallbackCancelled(r) \/ FutureCancelled(r)
      PROVE  SpokenInv'
  <2>1. /\ UNCHANGED <<caller, call, age, limit, waited, replied, lost, timely>>
        /\ \A q \in Request : caller[q] = "idle" => signals'[q] = signals[q]
    BY <1>0, <1>7 DEF TimerFires, CallbackCancelled, FutureCancelled, FireTimer, CancelRequest,
                      Signal, CancelFuture, TypeOK
  <2> QED
    BY <1>0, <2>1
<1>8. ASSUME NEW t \in Text, Answers(t) PROVE SpokenInv'
  <2>1. timely' \subseteq Request
    BY <1>0, <1>8 DEF Answers, SubmitAnswer, AnswerAwaited, TypeOK
  <2> QED
    BY <1>0, <1>8, <2>1 DEF Answers, SubmitAnswer
<1>9. CASE InputGoesOn
  BY <1>0, <1>9 DEF InputGoesOn, EnqueueCommand, NextCommand, Close, questionVars
<1>10. CASE Tick
  <2>1. \A r \in Request : /\ call[r] = "waiting" => age[r] # CallTimeout
                           /\ caller[r] = "waiting" => waited[r] # limit[r]
    BY <1>10 DEF Tick, Busy
  <2>2. age' \in [Request -> 0..CallTimeout]
    BY <1>10, <2>1 DEF Tick
  <2>3. waited' \in [Request -> Nat] /\ \A r \in Request : waited'[r] <= limit'[r]
    BY <1>10, <1>a, <2>1 DEF Tick
  <2>4. UNCHANGED <<inputVars, call, limit, replied, lost, timely>>
    BY <1>10 DEF Tick
  <2>5. \A r \in Request : caller[r] = "idle" => waited'[r] = 0
    BY <1>10 DEF Tick
  <2>6. \A r \in Request : call[r] = "waiting" => waited'[r] <= age'[r]
    BY <1>10 DEF Tick
  <2> QED
    BY <1>0, <2>2, <2>3, <2>4, <2>5, <2>6
<1>11. CASE UNCHANGED vars
  BY <1>0, <1>11 DEF vars
<1>12. CASE SessionBreaks
  BY <1>0, <1>12, TimesAssumption DEF SessionBreaks
<1> QED
  BY <1>1, <1>2, <1>3, <1>4, <1>5, <1>6, <1>7, <1>8, <1>9, <1>10, <1>11, <1>12
     DEF Next, QuestionStep

LEMMA SpokenInvariant == SafetySpec => [](InputInv /\ SpokenInv)
<1>1. SafetySpec => []InputInv
  BY SpokenUsesCoordinator, InputInvariant, PTL
<1> QED
  BY <1>1, SpokenInitInv, SpokenStep, PTL DEF SafetySpec

\* However the calls are given up and the sessions break: a question that waits is
\* the one the next line answers, the close leaves none open, and a question is
\* resolved once.
THEOREM SpokenQuestionsTracked ==
  SafetySpec => [](PendingIsTracked /\ ClosedReleasesAll) /\ FuturesResolveOnce
BY SpokenUsesCoordinator, QuestionsTracked, CloseReleases, ResolvedForGood, PTL

\* The questions, their calls and their clocks keep their types.
THEOREM SpokenTypeCorrect == SafetySpec => []SpokenTypeOK
<1>1. SpokenInv => SpokenTypeOK
  BY DEF SpokenInv
<1> QED
  BY <1>1, SpokenInvariant, PTL

-----------------------------------------------------------------------------
(* The question and its call. *)

LEMMA OutlastsStep ==
  ASSUME CallTimeout < AnswerTimeout, InputInv, SpokenInv, QuestionOutlastsCall, [Next]_vars
  PROVE  QuestionOutlastsCall'
<1> USE DEF QuestionOutlastsCall
<1>0. SpokenTypeOK /\ ClocksInOrder /\ TypeOK
  BY DEF SpokenInv, InputInv
<1>1. ASSUME NEW r \in Request, CallSent(r) PROVE QuestionOutlastsCall'
  BY <1>0, <1>1 DEF CallSent, inputVars, SpokenTypeOK, ClocksInOrder
<1>2. ASSUME NEW r \in Request, CallAnswered(r) \/ CallTimesOut(r) \/ CallLeft(r)
      PROVE  QuestionOutlastsCall'
  BY <1>0, <1>2 DEF CallAnswered, CallTimesOut, CallLeft, CallEnds, inputVars, SpokenTypeOK
<1>3. ASSUME NEW r \in Request,
             FormRefused(r) \/ Asks(r) \/ AsksTooLate(r) \/ AsksBeside(r) \/ CallbackEnds(r)
      PROVE  QuestionOutlastsCall'
  BY <1>3 DEF FormRefused, Asks, AsksTooLate, AsksBeside, RequestOpened, RequestRefused,
              RequestRejected, CallbackEnds, Resume, inputVars
<1>4. ASSUME NEW r \in Request, TimerFires(r) PROVE QuestionOutlastsCall'
  <2>1. call[r] # "waiting"
    <3> SUFFICES ASSUME call[r] = "waiting" PROVE FALSE
      OBVIOUS
    <3>1. waited[r] = AnswerTimeout /\ waited[r] <= age[r]
      BY <1>0, <1>4 DEF TimerFires, ClocksInOrder
    <3>2. age[r] \in 0..CallTimeout
      BY <1>0 DEF SpokenTypeOK
    <3> QED
      BY <3>1, <3>2, TimesAssumption
  <2>2. \A q \in Request : q # r => signals'[q] = signals[q]
    BY <1>0, <1>4 DEF TimerFires, FireTimer, Signal, TypeOK
  <2> QED
    BY <1>4, <2>1, <2>2 DEF TimerFires, callVars
<1>5. ASSUME NEW r \in Request, CallbackCancelled(r) PROVE QuestionOutlastsCall'
  <2>1. \A q \in Request : "timeout" \in signals'[q] => "timeout" \in signals[q]
    BY <1>0, <1>5 DEF CallbackCancelled, CancelRequest, Signal, TypeOK
  <2> QED
    BY <1>5, <2>1 DEF CallbackCancelled, callVars
<1>6. ASSUME NEW r \in Request, FutureCancelled(r) PROVE QuestionOutlastsCall'
  BY <1>6 DEF FutureCancelled, CancelFuture, callVars
<1>7. ASSUME \/ \E t \in Text : Answers(t)
             \/ InputGoesOn \/ SessionBreaks \/ Tick \/ UNCHANGED vars
      PROVE  QuestionOutlastsCall'
  BY <1>7 DEF Answers, SubmitAnswer, InputGoesOn, EnqueueCommand, NextCommand, Close,
              SessionBreaks, Tick, vars, questionVars, inputVars, callVars
<1> QED
  BY <1>1, <1>2, <1>3, <1>4, <1>5, <1>6, <1>7 DEF Next, QuestionStep

\* As 90 s are less than 120 s, the wait for the operator never times out under a
\* call that waits, whatever timeoutSeconds the model wrote.
THEOREM QuestionsOutlastTheirCalls ==
  ASSUME CallTimeout < AnswerTimeout
  PROVE  SafetySpec => []QuestionOutlastsCall
<1>1. Init => QuestionOutlastsCall
  BY DEF Init, QuestionOutlastsCall
<1>2. InputInv /\ SpokenInv /\ QuestionOutlastsCall /\ [Next]_vars => QuestionOutlastsCall'
  BY OutlastsStep
<1> QED
  BY <1>1, <1>2, SpokenInvariant, PTL DEF SafetySpec

-----------------------------------------------------------------------------
(* The answer in time. *)

\* A question answered in time stays answered until its callback has accepted it,
\* and the clock of its call stands still as long as the call waits.
TimelyInv ==
  \A r \in timely :
    /\ future[r] = "answered" /\ answer[r] \in Text
    /\ caller[r] # "waiting" => caller[r] # "idle" /\ replied[r] = "accept"
    /\ call[r] = "waiting" => age[r] < CallTimeout
    /\ call[r] \in {"waiting", "answered", "left", "broken"}

LEMMA TimelyStep ==
  ASSUME ~EagerCancel, InputInv, SpokenInv, OpenIsWaiting, TimelyInv, [Next]_vars
  PROVE  TimelyInv'
<1> USE DEF TimelyInv
<1>0. SpokenTypeOK /\ TypeOK /\ timely \subseteq Request
  BY DEF SpokenInv, InputInv, SpokenTypeOK
<1>1. ASSUME NEW r \in Request, CallSent(r) PROVE TimelyInv'
  BY <1>0, <1>1 DEF CallSent, inputVars, SpokenTypeOK
<1>2. ASSUME NEW r \in Request, CallAnswered(r) \/ CallTimesOut(r) \/ CallLeft(r) PROVE TimelyInv'
  BY <1>0, <1>2, TimesAssumption
     DEF CallAnswered, CallTimesOut, CallLeft, CallEnds, inputVars, SpokenTypeOK
<1>3. ASSUME NEW r \in Request, FormRefused(r) \/ Asks(r) \/ AsksTooLate(r) \/ AsksBeside(r)
      PROVE  TimelyInv'
  <2>1. caller[r] = "idle" /\ r \notin timely
    BY <1>3 DEF FormRefused, Asks, AsksTooLate, AsksBeside, MayAsk
  <2>2. /\ UNCHANGED <<answer, call, age, timely>>
        /\ \A q \in Request : q # r => /\ future'[q] = future[q] /\ caller'[q] = caller[q]
                                       /\ replied'[q] = replied[q]
    BY <1>0, <1>3 DEF FormRefused, Asks, AsksTooLate, AsksBeside, RequestOpened, RequestRefused,
                      RequestRejected, Replies, inputVars, TypeOK, SpokenTypeOK
  <2> QED
    BY <1>0, <2>1, <2>2
<1>4. ASSUME NEW r \in Request, CallbackEnds(r) PROVE TimelyInv'
  <2>1. /\ UNCHANGED <<future, answer, call, age, timely>>
        /\ \A q \in Request : q # r => caller'[q] = caller[q] /\ replied'[q] = replied[q]
    BY <1>0, <1>4 DEF CallbackEnds, Resume, TypeOK, SpokenTypeOK
  <2>2. ASSUME r \in timely PROVE caller'[r] # "idle" /\ replied'[r] = "accept"
    <3>1. Delivers(r) /\ answer[r] # NoText
      BY <2>2, ConstantsAssumption DEF Delivers
    <3>2. caller'[r] # "idle"
      BY <1>0, <1>4 DEF CallbackEnds, Resume, TypeOK
    <3> QED
      BY <1>0, <1>4, <3>1, <3>2 DEF CallbackEnds, ActionFor, SpokenTypeOK
  <2> QED
    BY <1>0, <2>1, <2>2
<1>5. ASSUME NEW r \in Request, TimerFires(r) \/ CallbackCancelled(r) \/ FutureCancelled(r)
      PROVE  TimelyInv'
  <2>1. /\ UNCHANGED <<answer, caller, call, age, replied, timely>>
        /\ \A q \in Request : future[q] = "answered" => future'[q] = future[q]
    BY <1>0, <1>5 DEF TimerFires, CallbackCancelled, FutureCancelled, FireTimer, CancelRequest,
                      Signal, CancelFuture, callVars, TypeOK
  <2> QED
    BY <1>0, <2>1
<1>6. ASSUME NEW t \in Text, Answers(t) PROVE TimelyInv'
  <2>1. /\ pendingAnswer \in Request /\ future[pendingAnswer] = "pending"
        /\ caller[pendingAnswer] = "waiting"
    BY <1>0, <1>6 DEF Answers, SubmitAnswer, AnswerAwaited, OpenIsWaiting, TypeOK
  <2>2. /\ UNCHANGED <<caller, call, age, replied>>
        /\ future'[pendingAnswer] = "answered" /\ answer'[pendingAnswer] = t
        /\ \A q \in Request : q # pendingAnswer => future'[q] = future[q] /\ answer'[q] = answer[q]
    BY <1>0, <1>6, <2>1 DEF Answers, SubmitAnswer, TypeOK
  <2>3. pendingAnswer \notin timely
    BY <2>1
  <2>4. \/ timely' = timely
        \/ /\ timely' = timely \cup {pendingAnswer}
           /\ call[pendingAnswer] = "waiting" /\ age[pendingAnswer] < CallTimeout
    BY <1>6 DEF Answers
  <2>5. ASSUME NEW q \in timely', q \in timely
        PROVE  /\ future'[q] = "answered" /\ answer'[q] \in Text
               /\ caller'[q] = caller[q] /\ call'[q] = call[q]
               /\ age'[q] = age[q] /\ replied'[q] = replied[q]
    BY <1>0, <2>2, <2>3, <2>5
  <2>6. ASSUME NEW q \in timely', q \notin timely
        PROVE  /\ future'[q] = "answered" /\ answer'[q] \in Text
               /\ caller'[q] = "waiting" /\ call'[q] = "waiting" /\ age'[q] < CallTimeout
    <3>1. q = pendingAnswer /\ call[q] = "waiting" /\ age[q] < CallTimeout
      BY <2>4, <2>6
    <3> QED
      BY <2>1, <2>2, <3>1
  <2>7. \A q \in timely' :
          /\ future'[q] = "answered" /\ answer'[q] \in Text
          /\ caller'[q] # "waiting" => caller'[q] # "idle" /\ replied'[q] = "accept"
          /\ call'[q] = "waiting" => age'[q] < CallTimeout
          /\ call'[q] \in {"waiting", "answered", "left", "broken"}
    BY <2>5, <2>6
  <2> QED
    BY <2>7
<1>7. CASE InputGoesOn
  <2>1. /\ UNCHANGED <<caller, callVars>>
        /\ \A q \in Request : future[q] = "answered" =>
             future'[q] = future[q] /\ answer'[q] = answer[q]
    BY <1>0, <1>7 DEF InputGoesOn, EnqueueCommand, NextCommand, Close, FuturesReleased,
                      AnswersReleased, AnswerAwaited, questionVars, TypeOK
  <2> QED
    BY <1>0, <2>1 DEF callVars
<1>8. CASE Tick
  <2>1. ASSUME NEW r \in timely PROVE call[r] # "waiting"
    BY <1>0, <1>8 DEF Tick, Busy, Done
  <2> QED
    BY <1>8, <2>1 DEF Tick, inputVars
<1>9. CASE SessionBreaks
  BY <1>0, <1>9 DEF SessionBreaks, inputVars
<1>10. CASE UNCHANGED vars
  BY <1>10 DEF vars, inputVars, callVars
<1> QED
  BY <1>1, <1>2, <1>3, <1>4, <1>5, <1>6, <1>7, <1>8, <1>9, <1>10 DEF Next, QuestionStep

\* With the wait_for of Python 3.11, an answer that the operator gives while the
\* call waits and has not used up its 90 s is what the call returns, unless the
\* turn is given up or the session breaks meanwhile.
THEOREM TimelyAnswersArrive ==
  ASSUME ~EagerCancel
  PROVE  SafetySpec => []TimelyAnswerArrives
<1>1. Init => OpenIsWaiting /\ AnswersDelivered /\ TimelyInv
  BY DEF Init, InputInit, OpenIsWaiting, AnswersDelivered, TimelyInv
<1>2. InputInv /\ OpenIsWaiting /\ AnswersDelivered /\ [Next]_vars
        => (OpenIsWaiting /\ AnswersDelivered)'
  BY DeliveredStep, SpokenUsesInput
<1>3. InputInv /\ SpokenInv /\ OpenIsWaiting /\ TimelyInv /\ [Next]_vars => TimelyInv'
  BY TimelyStep
<1>4. TimelyInv => TimelyAnswerArrives
  BY DEF TimelyInv, TimelyAnswerArrives
<1> QED
  BY <1>1, <1>2, <1>3, <1>4, SpokenInvariant, PTL DEF SafetySpec
=============================================================================
