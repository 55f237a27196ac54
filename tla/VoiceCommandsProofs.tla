------------------------- MODULE VoiceCommandsProofs -------------------------
(***************************************************************************)
(* The voice commands come in the order they were said, for any events and *)
(* however often the stream is lost.                                       *)
(***************************************************************************)
EXTENDS VoiceCommands, TLAPS

-----------------------------------------------------------------------------
(* Types, with the channel that belongs to the stream. *)

ChannelByPlace == channels = IF gen = "reading" THEN 1 ELSE 0

LEMMA TypeInit == Init => TypeOK /\ ChannelByPlace
<1> SUFFICES ASSUME Init PROVE TypeOK /\ ChannelByPlace
  OBVIOUS
<1>1. losses \in 0..MaxStreams
  BY VoiceAssumption DEF Init
<1>2. cancelled \in BOOLEAN
  BY DEF Init
<1> QED
  BY <1>1, <1>2 DEF Init, TypeOK, ChannelByPlace

LEMMA TypeStep == TypeOK /\ ChannelByPlace /\ [Next]_vars => (TypeOK /\ ChannelByPlace)'
<1> SUFFICES ASSUME TypeOK, ChannelByPlace, [Next]_vars PROVE (TypeOK /\ ChannelByPlace)'
  OBVIOUS
<1> USE VoiceAssumption DEF TypeOK, ChannelByPlace
<1>1. ASSUME NEW e \in Event, Says(e) PROVE (TypeOK /\ ChannelByPlace)'
  BY <1>1 DEF Says
<1>2. CASE StreamLost
  <2>1. losses' \in 0..MaxStreams
    BY <1>2 DEF StreamLost
  <2>2. arrived' \in Seq(Event) /\ stream' \in {"over", "failed"}
    <3>1. <<>> \in Seq(Event)
      OBVIOUS
    <3> QED
      BY <1>2, <3>1 DEF StreamLost
  <2> QED
    BY <1>2, <2>1, <2>2 DEF StreamLost
<1>3. CASE Connects
  BY <1>3 DEF Connects
<1>4. CASE ReadsEvent
  <2>1. Head(arrived) \in Event /\ Tail(arrived) \in Seq(Event)
    BY <1>4 DEF ReadsEvent
  <2> QED
    BY <1>4, <2>1 DEF ReadsEvent
<1>5. CASE StreamEnds
  BY <1>5 DEF StreamEnds, Closes, ChannelClosed
<1>6. CASE CancelledReading
  BY <1>6 DEF CancelledReading, Closes, ChannelClosed
<1>7. CASE CancelledDelaying
  BY <1>7 DEF CancelledDelaying
<1>8. CASE UNCHANGED vars
  BY <1>8 DEF vars
<1> QED
  BY <1>1, <1>2, <1>3, <1>4, <1>5, <1>6, <1>7, <1>8 DEF Next, Generator

\* The generator keeps its types, and has a channel just while it is in a stream.
THEOREM VoiceTypeCorrect == SafetySpec => [](TypeOK /\ ChannelByPlace)
BY TypeInit, TypeStep, PTL DEF SafetySpec

-----------------------------------------------------------------------------
(* Order. *)

\* How much of what was said is behind the generator: read, or lost.
Past == Len(said) - Len(arrived)

\* What has arrived is the end of what was said.
ArrivedIsLatest ==
  /\ Past \in Nat
  /\ \A i \in 1..Len(arrived) : arrived[i] = said[Past + i]

\* Each command has a place among the events that are behind the generator.
Places(place) ==
  /\ place \in [1..Len(yielded) -> 1..Past]
  /\ \A i, j \in 1..Len(yielded) : i < j => place[i] < place[j]
  /\ \A i \in 1..Len(yielded) : yielded[i] = said[place[i]]

OrderInv ==
  /\ ArrivedIsLatest
  /\ \E place : Places(place)
  /\ \A i \in 1..Len(yielded) : yielded[i] \notin BadEvent

\* Events that are lost, or that arrive, leave every command at its place.
LEMMA PlacesKept ==
  ASSUME TypeOK, ArrivedIsLatest, NEW place, Places(place),
         UNCHANGED yielded, ArrivedIsLatest', Past <= Past',
         \A i \in 1..Past : said'[i] = said[i]
  PROVE  Places(place)'
<1>1. Past \in Nat /\ Past' \in Nat
  BY DEF ArrivedIsLatest
<1>2. \A i \in 1..Len(yielded) : place[i] \in 1..Past /\ place[i] \in 1..Past'
  BY <1>1 DEF Places
<1>3. place \in [1..Len(yielded) -> 1..Past']
  BY <1>2 DEF Places
<1> QED
  BY <1>2, <1>3 DEF Places

\* The events that had arrived are lost, or stay.
LEMMA LossKeepsOrder ==
  ASSUME TypeOK, OrderInv, UNCHANGED <<said, yielded>>, arrived' \in {arrived, <<>>}
  PROVE  OrderInv'
<1>1. ArrivedIsLatest' /\ Past <= Past'
  BY DEF TypeOK, OrderInv, ArrivedIsLatest, Past
<1>2. PICK place : Places(place)
  BY DEF OrderInv
<1>3. Places(place)'
  BY <1>1, <1>2, PlacesKept DEF OrderInv
<1> QED
  BY <1>1, <1>3 DEF OrderInv

LEMMA OrderStep == TypeOK /\ OrderInv /\ [Next]_vars => OrderInv'
<1> SUFFICES ASSUME TypeOK, OrderInv, [Next]_vars PROVE OrderInv'
  OBVIOUS
<1>0. PICK place : Places(place)
  BY DEF OrderInv
<1>1. ASSUME NEW e \in Event, Says(e) PROVE OrderInv'
  <2>1. /\ Len(said') = Len(said) + 1
        /\ Len(arrived') = Len(arrived) + 1
        /\ \A i \in 1..Len(said) : said'[i] = said[i]
        /\ \A i \in 1..Len(arrived) : arrived'[i] = arrived[i]
        /\ said'[Len(said) + 1] = e /\ arrived'[Len(arrived) + 1] = e
    BY <1>1 DEF Says, TypeOK
  <2>2. Past' = Past /\ Past \in Nat /\ Past + Len(arrived) = Len(said)
    BY <2>1 DEF OrderInv, ArrivedIsLatest, Past, TypeOK
  <2>3. ArrivedIsLatest'
    <3>1. ASSUME NEW i \in 1..Len(arrived') PROVE arrived'[i] = said'[Past' + i]
      <4>1. CASE i = Len(arrived) + 1
        BY <4>1, <2>1, <2>2 DEF TypeOK
      <4>2. CASE i \in 1..Len(arrived)
        <5>1. arrived'[i] = arrived[i] /\ arrived[i] = said[Past + i]
          BY <4>2, <2>1 DEF OrderInv, ArrivedIsLatest
        <5>2. Len(arrived) \in Nat /\ Past + i \in 1..Len(said)
          BY <4>2, <2>2 DEF TypeOK
        <5>3. said'[Past + i] = said[Past + i]
          BY <2>1, <5>2
        <5> QED
          BY <2>2, <5>1, <5>3
      <4> QED
        BY <4>1, <4>2, <2>1 DEF TypeOK
    <3> QED
      BY <3>1, <2>2 DEF ArrivedIsLatest
  <2>4. \A i \in 1..Past : said'[i] = said[i]
    BY <2>1, <2>2 DEF TypeOK
  <2>5. UNCHANGED yielded
    BY <1>1 DEF Says
  <2>6. Places(place)'
    BY <1>0, <2>2, <2>3, <2>4, <2>5, PlacesKept DEF OrderInv
  <2> QED
    BY <2>3, <2>5, <2>6 DEF OrderInv
<1>2. CASE StreamLost
  BY <1>2, LossKeepsOrder DEF StreamLost
<1>3. CASE Connects
  BY <1>3, LossKeepsOrder DEF Connects
<1>4. CASE ReadsEvent
  <2>1. /\ Len(arrived) \in Nat \ {0} /\ Len(arrived') = Len(arrived) - 1
        /\ \A i \in 1..Len(arrived') : arrived'[i] = arrived[i + 1]
        /\ Head(arrived) = arrived[1]
        /\ UNCHANGED said
    BY <1>4 DEF ReadsEvent, TypeOK
  <2>2. Past' = Past + 1 /\ Past \in Nat /\ Past' <= Len(said)
    BY <2>1 DEF OrderInv, ArrivedIsLatest, Past, TypeOK
  <2>3. ArrivedIsLatest'
    BY <2>1, <2>2 DEF OrderInv, ArrivedIsLatest
  <2>4. Head(arrived) = said[Past + 1]
    <3>1. 1 \in 1..Len(arrived)
      BY <2>1
    <3> QED
      BY <2>1, <3>1 DEF OrderInv, ArrivedIsLatest
  <2>5. CASE IsCommand(Head(arrived))
    <3> DEFINE n == Len(yielded)
               now == [i \in 1..(n + 1) |-> IF i = n + 1 THEN Past + 1 ELSE place[i]]
    <3>1. /\ n \in Nat /\ Len(yielded') = n + 1
          /\ \A i \in 1..n : yielded'[i] = yielded[i]
          /\ yielded'[n + 1] = Head(arrived)
      BY <1>4, <2>1, <2>5 DEF ReadsEvent, TypeOK
    <3>2. \A i \in 1..n : place[i] \in 1..Past /\ yielded[i] = said[place[i]]
      BY <1>0 DEF Places
    <3>3. \A i, j \in 1..n : i < j => place[i] < place[j]
      BY <1>0 DEF Places
    <3>4. \A i \in 1..n : yielded[i] \notin BadEvent
      BY DEF OrderInv
    <3> HIDE DEF n
    <3>5. now \in [1..(n + 1) -> 1..(Past + 1)]
      BY <2>2, <3>1, <3>2
    <3>6. \A i, j \in 1..(n + 1) : i < j => now[i] < now[j]
      BY <2>2, <3>1, <3>2, <3>3
    <3>7. \A i \in 1..(n + 1) : yielded'[i] = said[now[i]]
      BY <2>2, <2>4, <3>1, <3>2
    <3>8. PICK p : /\ p \in [1..(n + 1) -> 1..(Past + 1)]
                   /\ \A i, j \in 1..(n + 1) : i < j => p[i] < p[j]
                   /\ \A i \in 1..(n + 1) : yielded'[i] = said[p[i]]
      BY <3>5, <3>6, <3>7
    <3>9. Places(p)'
      BY <2>1, <2>2, <3>1, <3>8 DEF Places
    <3>10. \A i \in 1..(n + 1) : yielded'[i] \notin BadEvent
      BY <2>5, <3>1, <3>4 DEF IsCommand
    <3> QED
      BY <2>3, <3>1, <3>9, <3>10 DEF OrderInv
  <2>6. CASE ~IsCommand(Head(arrived))
    <3>1. UNCHANGED yielded
      BY <1>4, <2>6 DEF ReadsEvent
    <3>2. Places(place)'
      BY <1>0, <2>1, <2>2, <2>3, <3>1, PlacesKept DEF OrderInv
    <3> QED
      BY <2>3, <3>1, <3>2 DEF OrderInv
  <2> QED
    BY <2>5, <2>6
<1>5. CASE StreamEnds
  BY <1>5, LossKeepsOrder DEF StreamEnds, Closes
<1>6. CASE CancelledReading
  BY <1>6, LossKeepsOrder DEF CancelledReading, Closes
<1>7. CASE CancelledDelaying
  BY <1>7, LossKeepsOrder DEF CancelledDelaying
<1>8. CASE UNCHANGED vars
  BY <1>8, LossKeepsOrder DEF vars
<1> QED
  BY <1>1, <1>2, <1>3, <1>4, <1>5, <1>6, <1>7, <1>8 DEF Next, Generator

LEMMA OrderInit == Init => OrderInv
<1> SUFFICES ASSUME Init PROVE OrderInv
  OBVIOUS
<1>1. Len(said) = 0 /\ Len(arrived) = 0 /\ Len(yielded) = 0
  BY DEF Init
<1>2. Past = 0 /\ ArrivedIsLatest
  BY <1>1 DEF Past, ArrivedIsLatest
<1>3. Places([i \in 1..0 |-> 0])
  BY <1>1 DEF Places
<1> QED
  BY <1>1, <1>2, <1>3 DEF OrderInv

\* command_stream yields the commands in the order they were said, each of them
\* once, and neither errors nor blanks.
THEOREM CommandsInOrder == SafetySpec => []YieldedInOrder
<1>1. TypeOK /\ OrderInv => YieldedInOrder
  <2> SUFFICES ASSUME TypeOK, OrderInv PROVE YieldedInOrder
    OBVIOUS
  <2>1. PICK place : Places(place)
    BY DEF OrderInv
  <2>2. DOMAIN yielded = 1..Len(yielded) /\ DOMAIN said = 1..Len(said)
    BY DEF TypeOK
  <2>3. Past \in Nat /\ Past <= Len(said)
    BY DEF TypeOK, OrderInv, ArrivedIsLatest, Past
  <2>4. place \in [1..Len(yielded) -> 1..Len(said)]
    BY <2>1, <2>3 DEF Places, TypeOK
  <2> QED
    BY <2>1, <2>2, <2>4 DEF Places, OrderInv, YieldedInOrder
<1>2. OrderInv /\ TypeOK /\ [Next]_vars => OrderInv'
  BY OrderStep
<1> QED
  BY <1>1, <1>2, OrderInit, VoiceTypeCorrect, PTL DEF SafetySpec
=============================================================================
