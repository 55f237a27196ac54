--------------------------- MODULE McpSessionProofs ---------------------------
(***************************************************************************)
(* For every set of tool calls: a tool that moves the robot is sent once,  *)
(* and a reconnection that overlaps no other leaves no connection open.    *)
(***************************************************************************)
EXTENDS McpSession, TLAPS

\* The sessions are numbered as they are opened; the types.
LEMMA TypeStep == TypeOK /\ [Next]_vars => TypeOK'
<1> SUFFICES ASSUME TypeOK, [Next]_vars PROVE TypeOK'
  OBVIOUS
<1> USE McpAssumption DEF TypeOK, connVars
<1>1. CASE SessionDies
  BY <1>1 DEF SessionDies
<1>2. ASSUME NEW c \in ToolCall, Step(c) PROVE TypeOK'
  <2>1. CASE CallTool(c)
    BY <2>1 DEF CallTool
  <2>2. CASE Send(c)
    <3>1. Append(sent[c], using[c]) \in Seq(Nat)
      OBVIOUS
    <3> QED
      BY <2>2, <3>1 DEF Send
  <2>3. CASE SendFails(c)
    BY <2>3 DEF SendFails, MeetsError
  <2>4. CASE RequestEnds(c)
    BY <2>4 DEF RequestEnds, Reply, ReplyFails, MeetsError
  <2>5. CASE Reconnect(c)
    BY <2>5 DEF Reconnect, Cleanup
  <2>6. CASE Connected(c)
    <3>1. opened' \in Nat /\ session' \in Nat /\ using' \in [ToolCall -> Nat]
      BY <2>6 DEF Connected
    <3>2. alive' \subseteq Nat /\ owned' \subseteq Nat
      BY <2>6, <3>1 DEF Connected
    <3> QED
      BY <2>6, <3>1, <3>2 DEF Connected
  <2>7. CASE ReconnectFails(c)
    BY <2>7 DEF ReconnectFails, Cleanup
  <2>8. CASE CancelCall(c)
    <3>1. session' \in Nat /\ alive' \subseteq Nat /\ owned' \subseteq Nat
      <4>1. CASE Cleanup
        BY <4>1 DEF Cleanup
      <4>2. CASE UNCHANGED <<alive, owned, session>>
        BY <4>2
      <4> QED
        BY <2>8, <4>1, <4>2 DEF CancelCall
    <3> QED
      BY <2>8, <3>1 DEF CancelCall
  <2> QED
    BY <1>2, <2>1, <2>2, <2>3, <2>4, <2>5, <2>6, <2>7, <2>8 DEF Step
<1>3. CASE UNCHANGED vars
  BY <1>3 DEF vars
<1> QED
  BY <1>1, <1>2, <1>3 DEF Next

-----------------------------------------------------------------------------
(* How often a call is sent. *)

\* What a call has sent when it is at each place: one request before the session
\* breaks, and in a retry a session that is newer than the first.
SentByPlace ==
  session <= opened /\ \A c \in ToolCall :
    /\ pc[c] \in {"idle", "waiting"} => sent[c] = <<>>
    /\ pc[c] \in {"sent", "broken", "connecting", "retrying"} => Len(sent[c]) <= 1
    /\ pc[c] \in {"retrying", "resent"} => c \in SafeCall
    /\ Len(sent[c]) = 1 => sent[c][1] <= opened
    /\ using[c] <= opened
    /\ pc[c] = "retrying" /\ Len(sent[c]) = 1 => sent[c][1] < using[c]

LEMMA SentStep ==
  TypeOK /\ SentByPlace /\ UnsafeSentOnce /\ [Next]_vars => (SentByPlace /\ UnsafeSentOnce)'
<1> SUFFICES ASSUME TypeOK, SentByPlace, UnsafeSentOnce, [Next]_vars
             PROVE  (SentByPlace /\ UnsafeSentOnce)'
  OBVIOUS
<1> USE McpAssumption DEF TypeOK, connVars, SentByPlace, UnsafeSentOnce
<1>1. CASE SessionDies
  BY <1>1 DEF SessionDies
<1>2. ASSUME NEW c \in ToolCall, Step(c) PROVE (SentByPlace /\ UnsafeSentOnce)'
  <2>1. CASE CallTool(c)
    BY <2>1 DEF CallTool
  <2>2. CASE Send(c)
    <3>1. sent[c] \in Seq(Nat) /\ using[c] \in Nat
      OBVIOUS
    <3>2. /\ Len(Append(sent[c], using[c])) = Len(sent[c]) + 1
          /\ Append(sent[c], using[c])[Len(sent[c]) + 1] = using[c]
          /\ Len(sent[c]) = 1 => Append(sent[c], using[c])[1] = sent[c][1]
      BY <3>1
    <3>3. Len(sent[c]) \in Nat /\ (sent[c] = <<>> => Len(sent[c]) = 0)
      BY <3>1
    <3>4. sent'[c] = Append(sent[c], using[c])
      BY <2>2 DEF Send
    <3>5. /\ Len(sent'[c]) <= IF c \in SafeCall THEN 2 ELSE 1
          /\ Len(sent'[c]) = 2 => sent'[c][1] < sent'[c][2]
          /\ Len(sent'[c]) = 1 => sent'[c][1] <= opened
      <4>1. CASE pc[c] = "waiting"
        BY <4>1, <3>1, <3>2, <3>3, <3>4
      <4>2. CASE pc[c] = "retrying"
        <5>1. c \in SafeCall /\ Len(sent[c]) <= 1
          BY <4>2
        <5>2. Len(sent[c]) = 1 => sent[c][1] < using[c]
          BY <4>2
        <5>3. using[c] <= opened
          OBVIOUS
        <5>4. CASE Len(sent[c]) = 0
          BY <5>1, <5>3, <5>4, <3>2, <3>4
        <5>5. CASE Len(sent[c]) = 1
          BY <5>1, <5>2, <5>5, <3>2, <3>4
        <5>6. \A n \in Nat : n <= 1 => n = 0 \/ n = 1
          OBVIOUS
        <5>7. Len(sent[c]) = 0 \/ Len(sent[c]) = 1
          BY <5>1, <5>6, <3>3, Zenon
        <5> QED
          BY <5>4, <5>5, <5>7
      <4> QED
        BY <2>2, <4>1, <4>2 DEF Send
    <3>6. pc'[c] = "sent" => Len(sent'[c]) <= 1
      BY <2>2, <3>2, <3>3, <3>4 DEF Send
    <3>7. \A d \in ToolCall \ {c} : sent'[d] = sent[d] /\ pc'[d] = pc[d]
      BY <2>2 DEF Send
    <3>8. pc'[c] \in {"sent", "resent"} /\ (pc'[c] = "resent" => c \in SafeCall)
      BY <2>2 DEF Send
    <3>9. using' = using /\ opened' = opened /\ session' = session
      BY <2>2 DEF Send
    <3> QED
      BY <3>5, <3>6, <3>7, <3>8, <3>9
  <2>3. CASE SendFails(c)
    <3>1. sent[c] = <<>> => Len(sent[c]) <= 1
      OBVIOUS
    <3> QED
      BY <2>3, <3>1 DEF SendFails, MeetsError, Breaks, Fatal
  <2>4. CASE RequestEnds(c)
    BY <2>4 DEF RequestEnds, Reply, ReplyFails, MeetsError, Breaks
  <2>5. CASE Reconnect(c)
    BY <2>5 DEF Reconnect, Cleanup
  <2>6. CASE Connected(c)
    <3>1. using'[c] = opened + 1 /\ sent' = sent /\ opened' = opened + 1 /\ session' = opened + 1
      BY <2>6 DEF Connected
    <3>2. \A d \in ToolCall : Len(sent'[d]) = 1 => sent'[d][1] <= opened /\ sent'[d][1] \in Nat
      BY <3>1
    <3>3. Len(sent'[c]) <= 1
      BY <2>6, <3>1 DEF Connected
    <3>4. \A d \in ToolCall \ {c} : pc'[d] = pc[d] /\ using'[d] = using[d]
      BY <2>6 DEF Connected
    <3>5. pc'[c] = IF c \in SafeCall THEN "retrying" ELSE "raised"
      BY <2>6 DEF Connected, RetriedCalls
    <3> QED
      BY <3>1, <3>2, <3>3, <3>4, <3>5
  <2>7. CASE ReconnectFails(c)
    BY <2>7 DEF ReconnectFails, Cleanup
  <2>8. CASE CancelCall(c)
    BY <2>8 DEF CancelCall, Cleanup
  <2> QED
    BY <1>2, <2>1, <2>2, <2>3, <2>4, <2>5, <2>6, <2>7, <2>8 DEF Step
<1>3. CASE UNCHANGED vars
  BY <1>3 DEF vars
<1> QED
  BY <1>1, <1>2, <1>3 DEF Next

\* A session and its exit stack keep their types, whatever the calls meet.
THEOREM McpTypeCorrect == SafetySpec => []TypeOK
<1>1. Init => TypeOK
  <2> SUFFICES ASSUME Init PROVE TypeOK
    OBVIOUS
  <2>1. <<>> \in Seq(Nat)
    OBVIOUS
  <2>2. sent \in [ToolCall -> Seq(Nat)]
    BY <2>1 DEF Init
  <2>3. /\ pc \in [ToolCall -> {"idle", "waiting", "sent", "broken", "connecting",
                                "retrying", "resent", "returned", "raised", "cancelled"}]
        /\ using \in [ToolCall -> Nat]
        /\ connecting \in [ToolCall -> Nat]
    BY DEF Init
  <2>4. session \in Nat /\ opened \in Nat /\ alive \subseteq Nat /\ owned \subseteq Nat /\ stackNo \in Nat
    BY DEF Init
  <2>5. overlap \in BOOLEAN
    BY DEF Init
  <2> QED
    BY <2>2, <2>3, <2>4, <2>5 DEF TypeOK
<1> QED
  BY <1>1, TypeStep, PTL DEF SafetySpec

\* A tool that moves the robot is sent once, for any number of calls and however
\* often the session dies; a safe one at most twice, the second time over a
\* session opened since.
THEOREM UnsafeToolsAreSentOnce == SafetySpec => []UnsafeSentOnce
<1>1. Init => SentByPlace /\ UnsafeSentOnce
  BY DEF Init, SentByPlace, UnsafeSentOnce
<1> QED
  BY <1>1, McpTypeCorrect, SentStep, PTL DEF SafetySpec

-----------------------------------------------------------------------------
(* What is left open. *)

\* Without an overlap one call reconnects at a time, and the exit stack it has
\* installed is still the current one.
OneReconnects ==
  ~overlap => \A c, d \in ToolCall :
    pc[c] = "connecting" /\ pc[d] = "connecting" => c = d /\ connecting[c] = stackNo

LEMMA LeakStep ==
  TypeOK /\ OneReconnects /\ NothingLeaked /\ [Next]_vars => (OneReconnects /\ NothingLeaked)'
<1> SUFFICES ASSUME TypeOK, OneReconnects, NothingLeaked, [Next]_vars
             PROVE  (OneReconnects /\ NothingLeaked)'
  OBVIOUS
<1> USE McpAssumption DEF TypeOK, connVars, OneReconnects, NothingLeaked
<1>1. CASE SessionDies
  BY <1>1 DEF SessionDies
<1>2. ASSUME NEW c \in ToolCall, Step(c) PROVE (OneReconnects /\ NothingLeaked)'
  <2>1. CASE CallTool(c)
    BY <2>1 DEF CallTool
  <2>2. CASE Send(c)
    BY <2>2 DEF Send
  <2>3. CASE SendFails(c)
    BY <2>3 DEF SendFails, MeetsError
  <2>4. CASE RequestEnds(c)
    BY <2>4 DEF RequestEnds, Reply, ReplyFails, MeetsError
  <2>5. CASE Reconnect(c)
    BY <2>5 DEF Reconnect, Cleanup
  <2>6. CASE Connected(c)
    BY <2>6 DEF Connected
  <2>7. CASE ReconnectFails(c)
    BY <2>7 DEF ReconnectFails, Cleanup
  <2>8. CASE CancelCall(c)
    BY <2>8 DEF CancelCall, Cleanup
  <2> QED
    BY <1>2, <2>1, <2>2, <2>3, <2>4, <2>5, <2>6, <2>7, <2>8 DEF Step
<1>3. CASE UNCHANGED vars
  BY <1>3 DEF vars
<1> QED
  BY <1>1, <1>2, <1>3 DEF Next

\* Until two calls have reconnected at once, every open connection is on the exit
\* stack that will close it.
THEOREM ConnectionsAreOwned == SafetySpec => []NothingLeaked
<1>1. Init => OneReconnects /\ NothingLeaked
  BY DEF Init, OneReconnects, NothingLeaked
<1> QED
  BY <1>1, McpTypeCorrect, LeakStep, PTL DEF SafetySpec
=============================================================================
