------------------------- MODULE ContextWindowProofs -------------------------
(***************************************************************************)
(* The context window, for any number of calls, any sizes and any budget.  *)
(*                                                                         *)
(* The loops over the thread are recursive functions.  What they compute   *)
(* is proved by induction, from the least number of a set of naturals: a   *)
(* set that has 0 and, with n, n + 1 has every natural number.             *)
(***************************************************************************)
EXTENDS ContextWindow, FiniteSetTheorems, SequenceTheorems, WellFoundedInduction, TLAPS

-----------------------------------------------------------------------------
(* Induction and recursion. *)

LEMMA LeastNumber ==
  ASSUME NEW T, T \subseteq Nat, T # {}
  PROVE  \E x \in T : \A y \in T : x <= y
<1> DEFINE R == OpToRel(<, Nat)
<1>1. IsWellFoundedOn(R, Nat)
  BY NatLessThanWellFounded
<1>2. ASSUME NEW x \in Nat, NEW y \in Nat, <<y, x>> \notin R PROVE x <= y
  <2>1. ~ (y < x)
    BY <1>2 DEF OpToRel
  <2> QED BY <2>1
<1> HIDE DEF R
<1>3. PICK x \in T : \A y \in T : ~ (<<y, x>> \in R)
  BY <1>1, WFMin
<1>4. \A y \in T : x <= y
  BY <1>2, <1>3
<1> QED
  BY <1>4

LEMMA GreatestNumber ==
  ASSUME NEW n \in Nat, NEW T, T \subseteq 0..n, T # {}
  PROVE  \E x \in T : \A y \in T : y <= x
<1> DEFINE U == {i \in 0..n : n - i \in T}
<1>1. PICK x \in T : TRUE
  OBVIOUS
<1>2. n - x \in 0..n /\ n - (n - x) = x
  BY <1>1
<1>3. n - x \in U
  BY <1>1, <1>2
<1>4. U # {}
  BY <1>3
<1>5. U \subseteq Nat
  OBVIOUS
<1>6. PICK u \in U : \A y \in U : u <= y
  BY <1>4, <1>5, LeastNumber
<1>7. ASSUME NEW y \in T PROVE y <= n - u
  <2>1. n - y \in 0..n /\ n - (n - y) = y
    OBVIOUS
  <2>2. n - y \in U
    BY <2>1
  <2>3. u <= n - y
    BY <1>6, <2>2
  <2> QED BY <2>3
<1> QED
  BY <1>6, <1>7

LEMMA SetInduction ==
  ASSUME NEW S, 0 \in S, \A n \in Nat : n \in S => n + 1 \in S
  PROVE  \A n \in Nat : n \in S
<1> SUFFICES ASSUME Nat \ S # {} PROVE FALSE
  OBVIOUS
<1>1. PICK x \in Nat \ S : \A y \in Nat \ S : x <= y
  BY LeastNumber
<1>2. x - 1 \in Nat /\ x - 1 \notin Nat \ S
  BY <1>1
<1> QED
  BY <1>1, <1>2

\* The values a loop of n turns takes, from base.
Loops(n, S, base, step) ==
  {g \in [0..n -> S] : g[0] = base /\ \A i \in 1..n : g[i] = step[i][g[i - 1]]}

LEMMA Recursion ==
  ASSUME NEW n \in Nat, NEW S, NEW base \in S, NEW step \in [1..n -> [S -> S]]
  PROVE  \E g \in Loops(n, S, base, step) : TRUE
<1> DEFINE Upto(m) == \E g \in [0..m -> S] : g[0] = base /\ \A i \in 1..m : g[i] = step[i][g[i - 1]]
           Ms == {m \in Nat : m <= n => Upto(m)}
<1>1. 0 \in Ms
  <2> DEFINE g == [i \in 0..0 |-> base]
  <2>1. g \in [0..0 -> S] /\ g[0] = base /\ 1..0 = {}
    OBVIOUS
  <2>2. Upto(0)
    BY <2>1
  <2> QED BY <2>2
<1>2. ASSUME NEW m \in Nat, m \in Ms, m + 1 <= n PROVE Upto(m + 1)
  <2>1. PICK g \in [0..m -> S] : g[0] = base /\ \A i \in 1..m : g[i] = step[i][g[i - 1]]
    BY <1>2
  <2>2. step[m + 1][g[m]] \in S
    BY <1>2
  <2> DEFINE h == [i \in 0..m + 1 |-> IF i = m + 1 THEN step[m + 1][g[m]] ELSE g[i]]
  <2>3. h \in [0..m + 1 -> S]
    BY <2>2
  <2>4. h[0] = base
    BY <2>1
  <2>5. ASSUME NEW i \in 1..m + 1 PROVE h[i] = step[i][h[i - 1]]
    <3>1. CASE i = m + 1
      <4>1. h[i - 1] = g[m]
        BY <3>1
      <4> QED BY <3>1, <4>1
    <3>2. CASE i \in 1..m
      <4>1. h[i - 1] = g[i - 1] /\ h[i] = g[i]
        BY <3>2
      <4> QED BY <2>1, <3>2, <4>1
    <3> QED BY <3>1, <3>2
  <2> QED BY <2>3, <2>4, <2>5
<1> HIDE DEF Upto
<1>3. \A m \in Nat : m \in Ms => m + 1 \in Ms
  BY <1>2
<1> HIDE DEF Ms
<1>4. \A m \in Nat : m \in Ms
  BY <1>1, <1>3, SetInduction
<1>5. Upto(n)
  BY <1>4 DEF Ms
<1> QED
  BY <1>5 DEF Upto, Loops

-----------------------------------------------------------------------------
(* Items. *)

LEMMA ItemFacts ==
  /\ \A item \in Item : EstimateTokens(item) \in Nat
  /\ \A type \in {"system", "user", "message", "call", "output", "compaction"} : Plain(type) \in Item
<1>1. LineSizes \cup OutputSizes \cup {1} \subseteq Nat /\ ImageTokens \in Nat
  BY WindowAssumption
<1>2. \A item \in Item : item.size \in LineSizes \cup OutputSizes \cup {1}
  BY DEF Item
<1>3. \A item \in Item : EstimateTokens(item) \in Nat
  BY <1>1, <1>2 DEF EstimateTokens
<1>4. \A type \in {"system", "user", "message", "call", "output", "compaction"} : Plain(type) \in Item
  BY DEF Plain, Item
<1> QED
  BY <1>3, <1>4

LEMMA FromFacts ==
  ASSUME NEW t \in Seq(Item), NEW a \in 1..Len(t) + 1
  PROVE  /\ From(t, a) \in Seq(Item)
         /\ Len(From(t, a)) = Len(t) + 1 - a
         /\ \A i \in 1..Len(t) + 1 - a : From(t, a)[i] = t[a + i - 1]
<1> QED
  BY DEF From

\* What the loop of _estimate_tokens has added up after n items.
Totals(items) ==
  CHOOSE total : total = [n \in 0..Len(items) |->
    IF n = 0 THEN 0 ELSE total[n - 1] + EstimateTokens(items[n])]

LEMMA TotalsFacts ==
  ASSUME NEW t \in Seq(Item)
  PROVE  /\ Totals(t) \in [0..Len(t) -> Nat]
         /\ Totals(t)[0] = 0
         /\ \A n \in 1..Len(t) : Totals(t)[n] = Totals(t)[n - 1] + EstimateTokens(t[n])
         /\ Tokens(t) = Totals(t)[Len(t)]
<1> DEFINE E == [i \in 1..Len(t) |-> EstimateTokens(t[i])]
           step == [i \in 1..Len(t) |-> [x \in Nat |-> x + E[i]]]
           Good(f) == f = [n \in 0..Len(t) |-> IF n = 0 THEN 0 ELSE f[n - 1] + EstimateTokens(t[n])]
<1>1. \A i \in 1..Len(t) : E[i] \in Nat
  BY ItemFacts
<1>2. step \in [1..Len(t) -> [Nat -> Nat]]
  <2> HIDE DEF E
  <2> QED BY <1>1
<1>3. \A x \in Nat, i \in 1..Len(t) : step[i][x] = x + EstimateTokens(t[i])
  OBVIOUS
<1> HIDE DEF step, E
<1>4. Len(t) \in Nat /\ 0 \in Nat
  OBVIOUS
<1>5. PICK g \in Loops(Len(t), Nat, 0, step) : TRUE
  BY <1>2, <1>4, Recursion
<1>6. g \in [0..Len(t) -> Nat] /\ g[0] = 0 /\ \A i \in 1..Len(t) : g[i] = step[i][g[i - 1]]
  BY DEF Loops
<1>7. \A i \in 1..Len(t) : g[i] = g[i - 1] + EstimateTokens(t[i])
  BY <1>3, <1>6
<1>8. Good(g)
  BY <1>6, <1>7
<1>9. Totals(t) = CHOOSE f : Good(f)
  BY DEF Totals
<1>10. Good(Totals(t))
  BY <1>8, <1>9
<1>11. DOMAIN Totals(t) = 0..Len(t) /\ Totals(t)[0] = 0
  BY <1>10
<1>12. \A n \in 1..Len(t) : Totals(t)[n] = Totals(t)[n - 1] + EstimateTokens(t[n])
  BY <1>10
<1>13. Totals(t) \in [0..Len(t) -> Nat]
  <2> DEFINE Ns == {n \in Nat : n \in 0..Len(t) => Totals(t)[n] \in Nat}
  <2>1. 0 \in Ns
    BY <1>11
  <2>2. \A n \in Nat : n \in Ns => n + 1 \in Ns
    <3>1. ASSUME NEW n \in Nat, n + 1 \in 0..Len(t), Totals(t)[n] \in Nat
          PROVE  Totals(t)[n + 1] \in Nat
      <4>1. n + 1 \in 1..Len(t) /\ (n + 1) - 1 = n
        BY <3>1
      <4>2. EstimateTokens(t[n + 1]) \in Nat
        BY <4>1, ItemFacts
      <4> QED BY <1>12, <3>1, <4>1, <4>2
    <3> QED BY <3>1
  <2> HIDE DEF Ns
  <2>3. \A n \in Nat : n \in Ns
    BY <2>1, <2>2, SetInduction
  <2>4. \A n \in 0..Len(t) : Totals(t)[n] \in Nat
    BY <2>3 DEF Ns
  <2>5. Totals(t) = [n \in 0..Len(t) |-> Totals(t)[n]]
    BY <1>10
  <2> QED BY <2>4, <2>5
<1>14. Tokens(t) = Totals(t)[Len(t)]
  BY DEF Tokens, Totals
<1> QED
  BY <1>11, <1>12, <1>13, <1>14

\* Fewer items cost no more.
LEMMA TokensOfSuffix ==
  ASSUME NEW t \in Seq(Item), NEW a \in 1..Len(t) + 1, NEW b \in 1..Len(t) + 1, a <= b
  PROVE  Tokens(From(t, b)) \in Nat /\ Tokens(From(t, b)) <= Tokens(From(t, a))
<1> DEFINE s == From(t, a)
           u == From(t, b)
           d == b - a
           Ns == {n \in Nat : n <= Len(u) => Totals(u)[n] <= Totals(s)[n + d]}
<1>1. /\ s \in Seq(Item) /\ u \in Seq(Item)
      /\ Len(u) \in Nat /\ Len(s) = Len(u) + d /\ d \in Nat
      /\ \A i \in 1..Len(u) : u[i] = s[i + d]
  <2>1. \A i \in 1..Len(u) : u[i] = t[b + i - 1] /\ s[i + d] = t[a + (i + d) - 1]
    BY FromFacts
  <2>2. s \in Seq(Item) /\ u \in Seq(Item) /\ Len(u) = Len(t) + 1 - b /\ Len(s) = Len(t) + 1 - a
    BY FromFacts
  <2>3. Len(t) \in Nat /\ a \in Nat /\ b \in Nat
    OBVIOUS
  <2>4. Len(u) \in Nat /\ Len(s) = Len(u) + d /\ d \in Nat
    BY <2>2, <2>3
  <2>5. \A i \in 1..Len(u) : b + i - 1 = a + (i + d) - 1
    BY <2>2, <2>3
  <2> QED BY <2>1, <2>2, <2>4, <2>5
<1> HIDE DEF s, u, d
<1>2. Totals(s) \in [0..Len(s) -> Nat] /\ Totals(u) \in [0..Len(u) -> Nat]
  BY <1>1, TotalsFacts
<1>3. 0 \in Ns
  <2>1. d \in 0..Len(s) /\ Totals(u)[0] = 0 /\ 0 + d = d
    BY <1>1, TotalsFacts
  <2>2. Totals(s)[d] \in Nat
    BY <1>2, <2>1
  <2> QED BY <2>1, <2>2
<1>4. ASSUME NEW n \in Nat, n \in Ns, n + 1 <= Len(u) PROVE Totals(u)[n + 1] <= Totals(s)[n + 1 + d]
  <2>1. Totals(u)[n + 1] = Totals(u)[n] + EstimateTokens(u[n + 1])
    <3>1. n + 1 \in 1..Len(u) /\ (n + 1) - 1 = n
      BY <1>1, <1>4
    <3> QED BY <1>1, <3>1, TotalsFacts
  <2>2. Totals(s)[n + 1 + d] = Totals(s)[n + d] + EstimateTokens(u[n + 1])
    <3>1. n + 1 + d \in 1..Len(s) /\ (n + 1 + d) - 1 = n + d
      BY <1>1, <1>4
    <3>2. s[n + 1 + d] = u[n + 1]
      BY <1>1, <1>4
    <3> QED BY <1>1, <3>1, <3>2, TotalsFacts
  <2>3. Totals(u)[n] \in Nat /\ Totals(s)[n + d] \in Nat /\ EstimateTokens(u[n + 1]) \in Nat
    <3>1. n \in 0..Len(u) /\ n + d \in 0..Len(s) /\ u[n + 1] \in Item
      BY <1>1, <1>4
    <3> QED BY <1>2, <3>1, ItemFacts
  <2> QED BY <1>1, <1>4, <2>1, <2>2, <2>3
<1>5. \A n \in Nat : n \in Ns => n + 1 \in Ns
  BY <1>4
<1> HIDE DEF Ns
<1>6. Len(u) \in Ns
  BY <1>1, <1>3, <1>5, SetInduction
<1>7. Totals(u)[Len(u)] <= Totals(s)[Len(s)] /\ Totals(u)[Len(u)] \in Nat
  <2>1. Totals(u)[Len(u)] <= Totals(s)[Len(u) + d]
    BY <1>1, <1>6 DEF Ns
  <2>2. Len(u) \in 0..Len(u)
    BY <1>1
  <2> QED BY <1>1, <1>2, <2>1, <2>2
<1> QED
  BY <1>1, <1>7, TotalsFacts DEF s, u

LEMMA TokensOfNothing == Tokens(<<>>) = 0
<1>1. <<>> \in Seq(Item) /\ Len(<<>>) = 0
  OBVIOUS
<1> QED
  BY <1>1, TotalsFacts

-----------------------------------------------------------------------------
\* The shape of the thread: a response adds its calls and then their outputs, in
\* the order of the calls, and nothing parts them.
CallsUnique(t) == \A i, j \in DOMAIN t : IsCall(t[i]) /\ IsCall(t[j]) /\ t[i].id = t[j].id => i = j

OutputsUnique(t) == \A i, j \in DOMAIN t : IsOutput(t[i]) /\ IsOutput(t[j]) /\ t[i].id = t[j].id => i = j

\* The call at i and the output at j belong together.
Match(t, i, j) == IsCall(t[i]) /\ IsOutput(t[j]) /\ t[i].id = t[j].id

CallsComplete(t) ==
  \A i \in DOMAIN t : IsCall(t[i]) =>
    \E j \in DOMAIN t : /\ i < j
                        /\ Match(t, i, j)
                        /\ \A k \in i + 1..j - 1 : t[k].type # "compaction"

OutputsCalled(t) ==
  \A j \in DOMAIN t : IsOutput(t[j]) => \E i \in DOMAIN t : i < j /\ Match(t, i, j)

OrderKept(t) ==
  \A i, j, k, l \in DOMAIN t : Match(t, i, j) /\ Match(t, k, l) /\ i < k => j < l

PreambleFirst(t) == \A i \in DOMAIN t : t[i].type = "system" => i = 1

WellFormed(t) ==
  /\ CallsUnique(t)
  /\ OutputsUnique(t)
  /\ CallsComplete(t)
  /\ OutputsCalled(t)
  /\ OrderKept(t)
  /\ PreambleFirst(t)
  /\ \A i \in DOMAIN t : IsCall(t[i]) => t[i].id \in CallId

\* Frames are outputs of the current command.
ImagesOfTurn(t, start) == \A i \in DOMAIN t : t[i].image => IsOutput(t[i]) /\ i > start

\* Where no response has called two tools, every call is followed by its output.
CallsAnsweredNext(t) == \A i \in DOMAIN t : IsCall(t[i]) => i + 1 \in DOMAIN t /\ Match(t, i, i + 1)

\* Where no response has called two tools, no two calls are neighbours.
NoAdjacentCalls == \A i \in 2..Len(thread) : ~(IsCall(thread[i - 1]) /\ IsCall(thread[i]))

ThreadInv ==
  /\ WellFormed(thread)
  /\ ImagesOfTurn(thread, turnStart)
  /\ NoAdjacentCalls => CallsAnsweredNext(thread)

\* Of the first m items of t the call at k is the one whose frame is current.
LastFrame(t, k, m) ==
  /\ IsCall(t[k])
  /\ OutputOf(t, t[k].id).image
  /\ \A j \in k + 1..m : IsCall(t[j]) => ~OutputOf(t, t[j].id).image /\ ~t[j].moves

\* The visual state has seen the first m items of t.
Describes(seen, t, m) ==
  /\ seen.completed = {t[i].id : i \in {j \in 1..m : IsCall(t[j])}}
  /\ \/ ~seen.valid /\ \A k \in 1..m : ~LastFrame(t, k, m)
     \/ /\ seen.valid
        /\ \E k \in 1..m : /\ LastFrame(t, k, m)
                           /\ seen.id = t[k].id
                           /\ seen.pair = <<t[k], OutputOf(t, t[k].id)>>

VisualInv ==
  /\ phase = "request" => \E m \in 0..Len(thread) : Describes(visual, thread, m)
  /\ phase = "response" => Describes(visual, thread, Len(thread))

\* The model has been shown what the filter made of the thread as it is now.
ShownInv ==
  phase = "response" =>
    shown = RetainCurrentImage(visual, RestoreCurrentImage(visual, Window(thread)))

WindowInv == TypeOK /\ ThreadInv /\ VisualInv /\ ShownInv
-----------------------------------------------------------------------------
(* The visual state. *)

VisualStates ==
  [completed: SUBSET CallId, id: CallId \cup {NoCall}, pair: Seq(Item), valid: BOOLEAN]

\* What the loop of _update_visual_state has made of seen after n items.
Afters(seen, items) ==
  CHOOSE after : after = [n \in 0..Len(items) |->
    IF n = 0 THEN seen ELSE ObserveItem(items, after[n - 1], items[n])]

LEMMA OutputOfFacts ==
  ASSUME NEW t \in Seq(Item), OutputsUnique(t),
         NEW i \in DOMAIN t, NEW j \in DOMAIN t, Match(t, i, j)
  PROVE  OutputOf(t, t[i].id) = t[j]
<1> DEFINE k == CHOOSE k \in DOMAIN t : IsOutput(t[k]) /\ t[k].id = t[i].id
<1>1. k \in DOMAIN t /\ IsOutput(t[k]) /\ t[k].id = t[i].id
  BY DEF Match
<1> HIDE DEF k
<1>2. k = j
  BY <1>1 DEF OutputsUnique, Match
<1>3. OutputOf(t, t[i].id) = t[k]
  BY DEF OutputOf, k
<1> QED
  BY <1>2, <1>3

LEMMA CallHasOutput ==
  ASSUME NEW t \in Seq(Item), WellFormed(t), NEW i \in DOMAIN t, IsCall(t[i])
  PROVE  /\ t[i].id \in OutputsIn(t)
         /\ t[i].id \in CallId
         /\ \E j \in DOMAIN t : /\ i < j /\ Match(t, i, j)
                                /\ OutputOf(t, t[i].id) = t[j]
         /\ OutputOf(t, t[i].id) \in Item
<1>1. PICK j \in DOMAIN t : i < j /\ Match(t, i, j)
  BY DEF WellFormed, CallsComplete
<1>2. OutputOf(t, t[i].id) = t[j]
  BY <1>1, OutputOfFacts DEF WellFormed
<1>3. t[i].id \in OutputsIn(t)
  BY <1>1 DEF OutputsIn, Match
<1> QED
  BY <1>1, <1>2, <1>3 DEF WellFormed

LEMMA ObserveItemType ==
  ASSUME NEW t \in Seq(Item), WellFormed(t), NEW i \in DOMAIN t, NEW seen \in VisualStates
  PROVE  ObserveItem(t, seen, t[i]) \in VisualStates
<1>1. CASE ~(IsCall(t[i]) /\ t[i].id \in OutputsIn(t) /\ t[i].id \notin seen.completed)
  BY <1>1 DEF ObserveItem
<1>2. CASE IsCall(t[i]) /\ t[i].id \in OutputsIn(t) /\ t[i].id \notin seen.completed
  <2> DEFINE output == OutputOf(t, t[i].id)
  <2>1. output \in Item /\ t[i] \in Item /\ t[i].id \in CallId
    BY <1>2, CallHasOutput
  <2> HIDE DEF output
  <2>2. <<t[i], output>> \in Seq(Item)
    BY <2>1
  <2>3. ValidAfter(t[i], seen.valid) \in BOOLEAN
    BY DEF ValidAfter, VisualStates
  <2>4. Observe(seen, t[i], output) \in VisualStates
    BY <2>1, <2>2, <2>3 DEF Observe, VisualStates
  <2> QED BY <1>2, <2>4 DEF ObserveItem, output
<1> QED
  BY <1>1, <1>2

LEMMA AftersFacts ==
  ASSUME NEW t \in Seq(Item), WellFormed(t), NEW seen \in VisualStates
  PROVE  /\ Afters(seen, t) \in [0..Len(t) -> VisualStates]
         /\ Afters(seen, t)[0] = seen
         /\ \A n \in 1..Len(t) :
              Afters(seen, t)[n] = ObserveItem(t, Afters(seen, t)[n - 1], t[n])
         /\ UpdateVisualState(seen, t) = Afters(seen, t)[Len(t)]
<1> DEFINE step == [i \in 1..Len(t) |-> [v \in VisualStates |-> ObserveItem(t, v, t[i])]]
           Good(f) == f = [n \in 0..Len(t) |->
                             IF n = 0 THEN seen ELSE ObserveItem(t, f[n - 1], t[n])]
<1>1. \A i \in 1..Len(t), v \in VisualStates : ObserveItem(t, v, t[i]) \in VisualStates
  BY ObserveItemType
<1>2. step \in [1..Len(t) -> [VisualStates -> VisualStates]]
  BY <1>1
<1>3. \A i \in 1..Len(t), v \in VisualStates : step[i][v] = ObserveItem(t, v, t[i])
  OBVIOUS
<1> HIDE DEF step
<1>4. Len(t) \in Nat
  OBVIOUS
<1>5. PICK g \in Loops(Len(t), VisualStates, seen, step) : TRUE
  BY <1>2, <1>4, Recursion
<1>6. /\ g \in [0..Len(t) -> VisualStates]
      /\ g[0] = seen
      /\ \A i \in 1..Len(t) : g[i] = step[i][g[i - 1]]
  BY DEF Loops
<1>7. \A i \in 1..Len(t) : g[i] = ObserveItem(t, g[i - 1], t[i])
  BY <1>3, <1>6
<1>8. Good(g)
  BY <1>6, <1>7
<1>9. Afters(seen, t) = CHOOSE f : Good(f)
  BY DEF Afters
<1>10. Good(Afters(seen, t))
  BY <1>8, <1>9
<1>11. DOMAIN Afters(seen, t) = 0..Len(t) /\ Afters(seen, t)[0] = seen
  BY <1>10
<1>12. \A n \in 1..Len(t) : Afters(seen, t)[n] = ObserveItem(t, Afters(seen, t)[n - 1], t[n])
  BY <1>10
<1>13. Afters(seen, t) \in [0..Len(t) -> VisualStates]
  <2> DEFINE Ns == {n \in Nat : n \in 0..Len(t) => Afters(seen, t)[n] \in VisualStates}
  <2>1. 0 \in Ns
    BY <1>11
  <2>2. ASSUME NEW n \in Nat, n + 1 \in 0..Len(t), Afters(seen, t)[n] \in VisualStates
        PROVE  Afters(seen, t)[n + 1] \in VisualStates
    <3>1. n + 1 \in 1..Len(t) /\ (n + 1) - 1 = n
      BY <2>2
    <3> QED BY <1>1, <1>12, <2>2, <3>1
  <2>3. \A n \in Nat : n \in Ns => n + 1 \in Ns
    BY <2>2
  <2> HIDE DEF Ns
  <2>4. \A n \in Nat : n \in Ns
    BY <2>1, <2>3, SetInduction
  <2>5. \A n \in 0..Len(t) : Afters(seen, t)[n] \in VisualStates
    BY <2>4 DEF Ns
  <2>6. Afters(seen, t) = [n \in 0..Len(t) |-> Afters(seen, t)[n]]
    BY <1>10
  <2> QED BY <2>5, <2>6
<1>14. UpdateVisualState(seen, t) = Afters(seen, t)[Len(t)]
  BY DEF UpdateVisualState, Afters
<1> QED
  BY <1>11, <1>12, <1>13, <1>14

\* A call that has not been seen yet is observed, whatever was seen before it.
LEMMA ObserveDescribes ==
  ASSUME NEW t \in Seq(Item), WellFormed(t), NEW n \in Nat, n + 1 \in DOMAIN t,
         NEW seen \in VisualStates, Describes(seen, t, n)
  PROVE  Describes(ObserveItem(t, seen, t[n + 1]), t, n + 1)
<1> DEFINE item == t[n + 1]
           CallsUpto(m) == {t[i].id : i \in {j \in 1..m : IsCall(t[j])}}
<1>0. DOMAIN t = 1..Len(t) /\ Len(t) \in Nat /\ n + 1 \in 1..n + 1 /\ 1..n \subseteq 1..n + 1
  OBVIOUS
<1>1. CASE ~IsCall(item)
  <2>1. ObserveItem(t, seen, item) = seen
    BY <1>1 DEF ObserveItem
  <2>2. CallsUpto(n + 1) = CallsUpto(n)
    BY <1>0, <1>1
  <2>3. \A k \in 1..n : LastFrame(t, k, n + 1) <=> LastFrame(t, k, n)
    BY <1>0, <1>1 DEF LastFrame
  <2>4. ~LastFrame(t, n + 1, n + 1)
    BY <1>1 DEF LastFrame
  <2>5. \A k \in 1..n + 1 : k \in 1..n \/ k = n + 1
    OBVIOUS
  <2>6. seen.completed = CallsUpto(n + 1)
    BY <2>2 DEF Describes
  <2>7. CASE ~seen.valid
    <3>1. \A k \in 1..n + 1 : ~LastFrame(t, k, n + 1)
      BY <2>3, <2>4, <2>5, <2>7 DEF Describes
    <3> QED BY <2>1, <2>6, <2>7, <3>1 DEF Describes
  <2>8. CASE seen.valid
    <3>1. PICK k \in 1..n : /\ LastFrame(t, k, n)
                            /\ seen.id = t[k].id
                            /\ seen.pair = <<t[k], OutputOf(t, t[k].id)>>
      BY <2>8 DEF Describes
    <3>2. k \in 1..n + 1 /\ LastFrame(t, k, n + 1)
      BY <1>0, <2>3, <3>1
    <3> QED BY <2>1, <2>6, <2>8, <3>1, <3>2 DEF Describes
  <2> QED BY <2>7, <2>8 DEF VisualStates
<1>2. CASE IsCall(item)
  <2> DEFINE output == OutputOf(t, item.id)
  <2>1. ObserveItem(t, seen, item) = Observe(seen, item, output)
    <3>1. item.id \in OutputsIn(t)
      BY <1>2, CallHasOutput
    <3>2. item.id \notin CallsUpto(n)
      BY <1>0, <1>2 DEF WellFormed, CallsUnique
    <3> QED BY <1>2, <3>1, <3>2 DEF ObserveItem, Describes
  <2>2. CallsUpto(n + 1) = CallsUpto(n) \cup {item.id}
    BY <1>0, <1>2
  <2>3. Observe(seen, item, output).completed = CallsUpto(n + 1)
    BY <2>2 DEF Describes, Observe, VisualStates
  <2>4. CASE output.image
    <3>1. LastFrame(t, n + 1, n + 1)
      BY <1>2, <2>4 DEF LastFrame
    <3>2. /\ Observe(seen, item, output).valid
          /\ Observe(seen, item, output).id = t[n + 1].id
          /\ Observe(seen, item, output).pair = <<t[n + 1], OutputOf(t, t[n + 1].id)>>
      BY <2>4 DEF Observe
    <3> QED BY <1>0, <2>1, <2>3, <3>1, <3>2 DEF Describes
  <2>5. CASE ~output.image
    <3>1. /\ Observe(seen, item, output).valid = (seen.valid /\ ~item.moves)
          /\ Observe(seen, item, output).id = seen.id
          /\ Observe(seen, item, output).pair = seen.pair
      BY <2>5 DEF Observe, ValidAfter, VisualStates
    <3>2. \A k \in 1..n : LastFrame(t, k, n + 1) <=> LastFrame(t, k, n) /\ ~item.moves
      <4>1. \A k \in 1..n : \A j \in k + 1..n + 1 : j \in k + 1..n \/ j = n + 1
        OBVIOUS
      <4>2. \A k \in 1..n : k + 1..n \subseteq k + 1..n + 1 /\ n + 1 \in k + 1..n + 1
        OBVIOUS
      <4> QED BY <1>2, <2>5, <4>1, <4>2 DEF LastFrame
    <3>3. ~LastFrame(t, n + 1, n + 1)
      BY <2>5 DEF LastFrame
    <3>4. \A k \in 1..n + 1 : k \in 1..n \/ k = n + 1
      OBVIOUS
    <3> DEFINE next == Observe(seen, item, output)
    <3>5. CASE seen.valid /\ ~item.moves
      <4>1. PICK k \in 1..n : /\ LastFrame(t, k, n)
                              /\ seen.id = t[k].id
                              /\ seen.pair = <<t[k], OutputOf(t, t[k].id)>>
        BY <3>5 DEF Describes
      <4>2. k \in 1..n + 1 /\ LastFrame(t, k, n + 1)
        BY <1>0, <3>2, <3>5, <4>1
      <4>3. next.valid /\ next.id = t[k].id /\ next.pair = <<t[k], OutputOf(t, t[k].id)>>
        BY <3>1, <3>5, <4>1
      <4>4. next.completed = CallsUpto(n + 1)
        BY <2>3
      <4> HIDE DEF next
      <4>5. Describes(next, t, n + 1)
        BY <4>2, <4>3, <4>4 DEF Describes
      <4> QED BY <2>1, <4>5 DEF next
    <3>6. CASE ~(seen.valid /\ ~item.moves)
      <4>1. \A k \in 1..n : ~LastFrame(t, k, n + 1)
        BY <3>2, <3>6 DEF Describes
      <4>2. \A k \in 1..n + 1 : ~LastFrame(t, k, n + 1)
        BY <3>3, <3>4, <4>1
      <4>3. ~next.valid
        BY <3>1, <3>6
      <4>4. next.completed = CallsUpto(n + 1)
        BY <2>3
      <4> HIDE DEF next
      <4>5. Describes(next, t, n + 1)
        BY <4>2, <4>3, <4>4 DEF Describes
      <4> QED BY <2>1, <4>5 DEF next
    <3> QED BY <3>5, <3>6
  <2> QED BY <2>4, <2>5
<1> QED
  BY <1>1, <1>2

\* An item that has been seen is not observed again.
LEMMA SeenIsSkipped ==
  ASSUME NEW t \in Seq(Item), NEW m \in 0..Len(t), NEW i \in 1..m,
         NEW seen, Describes(seen, t, m)
  PROVE  ObserveItem(t, seen, t[i]) = seen
BY DEF Describes, ObserveItem

\* The whole loop: what has seen the first items of the thread sees all of them.
LEMMA UpdateDescribes ==
  ASSUME NEW t \in Seq(Item), WellFormed(t), NEW m \in 0..Len(t),
         NEW seen \in VisualStates, Describes(seen, t, m)
  PROVE  /\ UpdateVisualState(seen, t) \in VisualStates
         /\ Describes(UpdateVisualState(seen, t), t, Len(t))
<1> DEFINE after == Afters(seen, t)
           Good(n) == IF n <= m THEN after[n] = seen ELSE Describes(after[n], t, n)
           Ns == {n \in Nat : n <= Len(t) => Good(n)}
<1>1. /\ after \in [0..Len(t) -> VisualStates]
      /\ after[0] = seen
      /\ \A n \in 1..Len(t) : after[n] = ObserveItem(t, after[n - 1], t[n])
      /\ UpdateVisualState(seen, t) = after[Len(t)]
  BY AftersFacts
<1> HIDE DEF after
<1>2. DOMAIN t = 1..Len(t) /\ Len(t) \in Nat /\ m \in Nat /\ m <= Len(t)
  OBVIOUS
<1>3. 0 \in Ns
  BY <1>1, <1>2
<1>4. ASSUME NEW n \in Nat, Good(n), n + 1 <= Len(t) PROVE Good(n + 1)
  <2>1. n + 1 \in 1..Len(t) /\ (n + 1) - 1 = n /\ n \in 0..Len(t)
    BY <1>2, <1>4
  <2>2. after[n + 1] = ObserveItem(t, after[n], t[n + 1])
    BY <1>1, <2>1
  <2>3. CASE n + 1 <= m
    <3>1. n + 1 \in 1..m /\ n <= m
      BY <1>2, <2>3
    <3> QED BY <1>4, <2>2, <2>3, <3>1, SeenIsSkipped
  <2>4. CASE ~(n + 1 <= m)
    <3>1. Describes(after[n], t, n)
      <4>1. n = m \/ ~(n <= m)
        BY <1>2, <2>4
      <4> QED BY <1>4, <4>1
    <3>2. after[n] \in VisualStates
      BY <1>1, <2>1
    <3>3. Describes(after[n + 1], t, n + 1)
      BY <1>2, <2>1, <2>2, <3>1, <3>2, ObserveDescribes
    <3> QED BY <2>4, <3>3
  <2> QED BY <2>3, <2>4
<1> HIDE DEF Good
<1>5. \A n \in Nat : n \in Ns => n + 1 \in Ns
  BY <1>2, <1>4
<1> HIDE DEF Ns
<1>6. Len(t) \in Ns
  BY <1>2, <1>3, <1>5, SetInduction
<1>7. Good(Len(t))
  BY <1>2, <1>6 DEF Ns
<1>8. Describes(after[Len(t)], t, Len(t))
  <2> DEFINE l == Len(t)
  <2>0. m \in Nat /\ l \in Nat /\ m <= l
    BY <1>2
  <2> HIDE DEF l
  <2>1. m = l \/ ~(l <= m)
    BY <2>0
  <2> QED BY <1>7, <2>1 DEF Good, l
<1>9. after[Len(t)] \in VisualStates
  BY <1>1, <1>2
<1> QED
  BY <1>1, <1>8, <1>9

-----------------------------------------------------------------------------
(* The window. *)

LEMMA MaxFacts ==
  ASSUME NEW n \in Nat, NEW T, T \subseteq 0..n, T # {}
  PROVE  Max(T) \in T /\ \A y \in T : y <= Max(T)
<1>1. \E x \in T : \A y \in T : x >= y
  BY GreatestNumber
<1> QED
  BY <1>1 DEF Max

LEMMA MinFacts ==
  ASSUME NEW T, T \subseteq Nat, T # {}
  PROVE  Min(T) \in T /\ \A y \in T : Min(T) <= y
<1>1. \E x \in T : \A y \in T : x <= y
  BY LeastNumber
<1> QED
  BY <1>1 DEF Min

\* A window is the preamble, the first h items, and the items from a on.
Cut(t, h, a) == SubSeq(t, 1, h) \o From(t, a)

\* Where the item at i of the window is in the thread.
Place(h, a, i) == IF i <= h THEN i ELSE a + i - h - 1

LEMMA CutFacts ==
  ASSUME NEW t \in Seq(Item), NEW h \in 0..Len(t), NEW a \in h + 1..Len(t) + 1
  PROVE  /\ Cut(t, h, a) \in Seq(Item)
         /\ Len(Cut(t, h, a)) = h + (Len(t) + 1 - a)
         /\ \A i \in DOMAIN Cut(t, h, a) :
              /\ Place(h, a, i) \in 1..h \cup a..Len(t)
              /\ Cut(t, h, a)[i] = t[Place(h, a, i)]
<1>1. /\ SubSeq(t, 1, h) \in Seq(Item) /\ Len(SubSeq(t, 1, h)) = h
      /\ \A i \in 1..h : SubSeq(t, 1, h)[i] = t[i]
  OBVIOUS
<1>2. a \in 1..Len(t) + 1
  OBVIOUS
<1>3. /\ From(t, a) \in Seq(Item) /\ Len(From(t, a)) = Len(t) + 1 - a
      /\ \A i \in 1..Len(t) + 1 - a : From(t, a)[i] = t[a + i - 1]
  BY <1>2, FromFacts
<1>4. Cut(t, h, a) \in Seq(Item) /\ Len(Cut(t, h, a)) = h + (Len(t) + 1 - a)
  <2> DEFINE head == SubSeq(t, 1, h)
             tail == From(t, a)
  <2>1. head \in Seq(Item) /\ tail \in Seq(Item) /\ Len(head) = h /\ Len(tail) = Len(t) + 1 - a
    BY <1>1, <1>3
  <2>2. Cut(t, h, a) = head \o tail
    BY DEF Cut
  <2> HIDE DEF head, tail
  <2> QED BY <2>1, <2>2, ConcatProperties
<1>5. ASSUME NEW i \in DOMAIN Cut(t, h, a)
      PROVE  /\ Place(h, a, i) \in 1..h \cup a..Len(t)
             /\ Cut(t, h, a)[i] = t[Place(h, a, i)]
  <2>1. i \in 1..h + (Len(t) + 1 - a)
    BY <1>4
  <2>2. CASE i <= h
    BY <1>1, <1>3, <2>1, <2>2 DEF Place, Cut
  <2>3. CASE ~(i <= h)
    <3>1. i - h \in 1..Len(t) + 1 - a /\ a + (i - h) - 1 = a + i - h - 1
      BY <2>1, <2>3
    <3>2. Cut(t, h, a)[i] = From(t, a)[i - h]
      BY <1>1, <1>3, <2>1, <2>3 DEF Cut
    <3> QED BY <1>3, <2>3, <3>1, <3>2 DEF Place
  <2> QED BY <2>2, <2>3
<1> QED
  BY <1>4, <1>5

LEMMA PlaceFacts ==
  ASSUME NEW n \in Nat, NEW h \in 0..n, NEW a \in h + 1..n + 1
  PROVE  /\ \A i, j \in 1..h + (n + 1 - a) : i < j => Place(h, a, i) < Place(h, a, j)
         /\ \A k \in 1..h \cup a..n : \E i \in 1..h + (n + 1 - a) : Place(h, a, i) = k
<1>1. \A i, j \in 1..h + (n + 1 - a) : i < j => Place(h, a, i) < Place(h, a, j)
  BY DEF Place
<1>2. ASSUME NEW k \in 1..h PROVE \E i \in 1..h + (n + 1 - a) : Place(h, a, i) = k
  <2>1. k \in 1..h + (n + 1 - a) /\ Place(h, a, k) = k
    BY <1>2 DEF Place
  <2> QED BY <2>1
<1>3. ASSUME NEW k \in a..n PROVE \E i \in 1..h + (n + 1 - a) : Place(h, a, i) = k
  <2> DEFINE i == h + 1 + k - a
  <2>1. i \in 1..h + (n + 1 - a) /\ ~(i <= h) /\ a + i - h - 1 = k
    BY <1>3
  <2>2. Place(h, a, i) = k
    BY <2>1 DEF Place
  <2> QED BY <2>1, <2>2
<1> QED
  BY <1>1, <1>2, <1>3

LEMMA FromFrom ==
  ASSUME NEW t \in Seq(Item), NEW a \in 1..Len(t) + 1, NEW k \in 1..Len(t) + 2 - a
  PROVE  From(From(t, a), k) = From(t, a + k - 1)
<1> DEFINE u == From(t, a)
           l == Len(t)
<1>0. l \in Nat /\ a \in 1..l + 1 /\ k \in 1..l + 2 - a
  OBVIOUS
<1>1. u \in Seq(Item) /\ Len(u) = l + 1 - a /\ \A i \in 1..l + 1 - a : u[i] = t[a + i - 1]
  BY FromFacts
<1>2. k \in 1..Len(u) + 1 /\ a + k - 1 \in 1..l + 1
  BY <1>0, <1>1
<1> HIDE DEF u
<1>3. /\ From(u, k) \in Seq(Item) /\ Len(From(u, k)) = Len(u) + 1 - k
      /\ \A i \in 1..Len(u) + 1 - k : From(u, k)[i] = u[k + i - 1]
  BY <1>1, <1>2, FromFacts
<1>4. /\ From(t, a + k - 1) \in Seq(Item) /\ Len(From(t, a + k - 1)) = l + 1 - (a + k - 1)
      /\ \A i \in 1..l + 1 - (a + k - 1) : From(t, a + k - 1)[i] = t[(a + k - 1) + i - 1]
  BY <1>2, FromFacts
<1> HIDE DEF l
<1>5. Len(u) + 1 - k = l + 1 - (a + k - 1)
  BY <1>0, <1>1
<1>6. ASSUME NEW i \in 1..l + 1 - (a + k - 1) PROVE From(u, k)[i] = From(t, a + k - 1)[i]
  <2>1. k + i - 1 \in 1..l + 1 - a /\ a + (k + i - 1) - 1 = (a + k - 1) + i - 1
    BY <1>0
  <2> QED BY <1>1, <1>3, <1>4, <1>5, <2>1
<1>7. From(u, k) = From(t, a + k - 1)
  <2> DEFINE x == From(u, k)
             y == From(t, a + k - 1)
  <2>1. x \in Seq(Item) /\ y \in Seq(Item) /\ Len(x) = Len(y) /\ \A i \in 1..Len(x) : x[i] = y[i]
    BY <1>3, <1>4, <1>5, <1>6
  <2> HIDE DEF x, y
  <2>2. x = y
    BY <2>1, SeqEqual
  <2> QED BY <2>2 DEF x, y
<1> QED
  BY <1>7 DEF u

LEMMA PreambleFacts ==
  ASSUME NEW t \in Seq(Item)
  PROVE  /\ PreambleEnd(t) \in 0..Len(t)
         /\ \A i \in 1..PreambleEnd(t) : t[i].type = "system"
         /\ PreambleEnd(t) < Len(t) => t[PreambleEnd(t) + 1].type # "system"
<1> DEFINE Ends == {k \in 0..Len(t) : \A i \in 1..k : t[i].type = "system"}
           h == PreambleEnd(t)
<1>1. 0 \in Ends
  OBVIOUS
<1>2. h \in Ends /\ \A k \in Ends : k <= h
  <2>1. Len(t) \in Nat /\ Ends \subseteq 0..Len(t) /\ Ends # {}
    BY <1>1
  <2>2. h = Max(Ends)
    BY DEF PreambleEnd
  <2> HIDE DEF Ends, h
  <2> QED BY <2>1, <2>2, MaxFacts
<1> HIDE DEF h
<1>3. ASSUME h < Len(t), t[h + 1].type = "system" PROVE FALSE
  <2>1. h + 1 \in 0..Len(t) /\ \A i \in 1..h + 1 : i \in 1..h \/ i = h + 1
    BY <1>2, <1>3
  <2>2. h + 1 \in Ends
    BY <1>2, <1>3, <2>1
  <2>3. h + 1 <= h
    BY <1>2, <2>2
  <2> QED BY <1>2, <2>3
<1> QED
  BY <1>2, <1>3 DEF h

\* The cut at the latest compaction marker.
LEMMA CompactionCut ==
  ASSUME NEW t \in Seq(Item)
  PROVE  \E a \in 1..Len(t) + 1 :
           /\ TruncateAtServerCompaction(t) = From(t, a)
           /\ a = 1 \/ (a \in DOMAIN t /\ t[a].type = "compaction")
<1> DEFINE Marks == {1} \cup {i \in DOMAIN t : t[i].type = "compaction"}
           a == Max(Marks)
<1>1. Len(t) + 1 \in Nat /\ Marks \subseteq 0..Len(t) + 1 /\ Marks # {}
  OBVIOUS
<1> HIDE DEF Marks
<1>2. a \in Marks
  BY <1>1, MaxFacts
<1> HIDE DEF a
<1>3. a \in 1..Len(t) + 1 /\ (a = 1 \/ (a \in DOMAIN t /\ t[a].type = "compaction"))
  BY <1>2 DEF Marks
<1>4. TruncateAtServerCompaction(t) = From(t, a)
  BY DEF TruncateAtServerCompaction, a, Marks
<1> QED
  BY <1>3, <1>4

LEMMA ShiftedIndex ==
  ASSUME NEW s \in Nat, NEW a \in Nat, NEW n \in Nat, NEW b \in Nat, NEW k \in Nat,
         s <= k, k <= a - 1, b = a + 1 - s, b <= n + 1
  PROVE  k + 1 - s \in 1..n /\ k + 1 - s < b /\ s + (k + 1 - s) - 1 = k
OBVIOUS

LEMMA PlacedIndex ==
  ASSUME NEW a \in Nat, NEW n \in Nat, NEW i \in Nat, NEW j \in Nat,
         a <= n + 1, 1 <= i, a + i - 1 < j, j <= n
  PROVE  j + 1 - a \in 1..n + 1 - a /\ a + (j + 1 - a) - 1 = j
OBVIOUS

\* Where every call of what is kept has its output, only the outputs at the start
\* are dropped.
LEMMA RepairDropsOutputs ==
  ASSUME NEW t \in Seq(Item), WellFormed(t), NEW s \in DOMAIN t
  PROVE  \E a \in s..Len(t) + 1 :
           /\ RepairToolPairing(From(t, s)) = From(t, a)
           /\ \A k \in s..a - 1 : IsOutput(t[k])
           /\ a \in DOMAIN t => ~(IsOutput(t[a]) /\ t[a].id \notin CallsIn(From(t, s)))
<1> DEFINE u == From(t, s)
           l == Len(t)
           Orphan(i) == IsOutput(u[i]) /\ u[i].id \notin CallsIn(u)
           Starts == {i \in 1..Len(u) + 1 : i > Len(u) \/ ~Orphan(i)}
           b == Min(Starts)
           a == s + b - 1
           v == From(t, a)
           Dangles(i) == IsCall(v[i]) /\ v[i].id \notin OutputsIn(v)
           Ends == {i \in 0..Len(v) : i = 0 \/ ~Dangles(i)}
<1>0. l \in Nat /\ s \in 1..l
  OBVIOUS
<1>1. /\ u \in Seq(Item) /\ Len(u) = l + 1 - s /\ Len(u) \in Nat
      /\ \A i \in 1..Len(u) : u[i] = t[s + i - 1]
  <2>1. s \in 1..l + 1 /\ l + 1 - s \in Nat
    BY <1>0
  <2> HIDE DEF u
  <2>2. /\ u \in Seq(Item) /\ Len(u) = l + 1 - s
        /\ \A i \in 1..l + 1 - s : u[i] = t[s + i - 1]
    BY <2>1, FromFacts DEF u
  <2> QED BY <2>1, <2>2
<1>2. b \in Starts /\ \A i \in Starts : b <= i
  <2>1. Len(u) + 1 \in Starts /\ Starts \subseteq Nat
    BY <1>1
  <2> HIDE DEF Starts
  <2> QED BY <2>1, MinFacts
<1>3. DropLeadingOutputs(u) = From(u, b)
  BY DEF DropLeadingOutputs
<1> HIDE DEF b
<1>4. b \in 1..Len(u) + 1 /\ a \in s..l + 1 /\ b = a + 1 - s
  <2>1. b \in 1..Len(u) + 1
    BY <1>2
  <2> HIDE DEF u, l
  <2> QED BY <1>0, <1>1, <2>1
<1>5. From(u, b) = v
  <2>1. b \in 1..Len(t) + 2 - s
    BY <1>0, <1>1, <1>4
  <2> QED BY <1>0, <2>1, FromFrom
<1>6. ASSUME NEW k \in s..a - 1 PROVE IsOutput(t[k])
  <2> DEFINE i == k + 1 - s
  <2>1. i \in 1..Len(u) /\ i < b /\ s + i - 1 = k
    <3>1. /\ s \in Nat /\ a \in Nat /\ b \in Nat /\ Len(u) \in Nat /\ k \in Nat
          /\ s <= k /\ k <= a - 1 /\ b = a + 1 - s /\ b <= Len(u) + 1
      <4> HIDE DEF u, l, a
      <4> QED BY <1>0, <1>1, <1>4
    <3> HIDE DEF u, l, a
    <3> QED BY <3>1, ShiftedIndex
  <2>2. Orphan(i)
    <3>1. i \notin Starts
      <4>1. ~(b <= i)
        <5> HIDE DEF i, u
        <5> QED BY <1>1, <1>4, <2>1
      <4> HIDE DEF Starts, i
      <4> QED BY <1>2, <4>1
    <3> QED BY <1>1, <2>1, <3>1
  <2> QED BY <1>1, <2>1, <2>2
<1>7. a \in DOMAIN t => ~(IsOutput(t[a]) /\ t[a].id \notin CallsIn(u))
  <2> HAVE a \in DOMAIN t
  <2>1. b \in 1..Len(u) /\ s + b - 1 = a
    BY <1>0, <1>1, <1>4
  <2>2. ~Orphan(b)
    BY <1>1, <1>2, <2>1
  <2> QED BY <1>1, <2>1, <2>2
<1>8. /\ v \in Seq(Item) /\ Len(v) = l + 1 - a /\ Len(v) \in Nat
      /\ \A i \in 1..Len(v) : v[i] = t[a + i - 1]
  <2>1. a \in 1..l + 1
    BY <1>0, <1>4
  <2> HIDE DEF a
  <2>2. /\ v \in Seq(Item) /\ Len(v) = l + 1 - a
        /\ \A i \in 1..l + 1 - a : v[i] = t[a + i - 1]
    BY <2>1, FromFacts
  <2> QED BY <2>1, <2>2
<1>9. \A i \in 1..Len(v) : ~Dangles(i)
  <2> SUFFICES ASSUME NEW i \in 1..Len(v), IsCall(v[i]) PROVE v[i].id \in OutputsIn(v)
    OBVIOUS
  <2> HIDE DEF v
  <2>1. a + i - 1 \in DOMAIN t /\ v[i] = t[a + i - 1]
    <3> HIDE DEF a
    <3>1. a + i - 1 \in 1..l
      <4> HIDE DEF l
      <4> QED BY <1>0, <1>4, <1>8
    <3> QED BY <1>8, <3>1
  <2>2. PICK j \in DOMAIN t : a + i - 1 < j /\ Match(t, a + i - 1, j)
    BY <2>1 DEF WellFormed, CallsComplete
  <2>3. j + 1 - a \in 1..Len(v) /\ a + (j + 1 - a) - 1 = j
    <3>1. j \in 1..l
      OBVIOUS
    <3>2. a \in Nat /\ l \in Nat /\ a <= l + 1 /\ Len(v) = l + 1 - a /\ i \in Nat /\ 1 <= i
      <4> HIDE DEF a, l
      <4> QED BY <1>0, <1>4, <1>8
    <3> HIDE DEF a, l
    <3>3. j \in Nat /\ a + i - 1 < j /\ j <= l
      BY <2>2, <3>1, <3>2
    <3>4. j + 1 - a \in 1..l + 1 - a /\ a + (j + 1 - a) - 1 = j
      BY <3>2, <3>3, PlacedIndex
    <3> QED BY <3>2, <3>4
  <2>4. v[j + 1 - a] = t[j]
    BY <1>8, <2>3
  <2>5. j + 1 - a \in DOMAIN v /\ IsOutput(v[j + 1 - a]) /\ v[j + 1 - a].id = v[i].id
    BY <1>8, <2>1, <2>2, <2>3, <2>4 DEF Match
  <2> QED BY <2>5 DEF OutputsIn
<1>10. Max(Ends) = Len(v)
  <2>1. Len(v) \in Ends /\ Ends \subseteq 0..Len(v) /\ Ends # {}
    BY <1>8, <1>9
  <2> HIDE DEF Ends, v
  <2>2. Max(Ends) \in Ends /\ Len(v) <= Max(Ends)
    BY <1>8, <2>1, MaxFacts
  <2>3. Max(Ends) \in 0..Len(v)
    BY <2>1, <2>2
  <2> QED BY <1>8, <2>2, <2>3
<1>11. DropTrailingCalls(v) = SubSeq(v, 1, Max(Ends))
  BY DEF DropTrailingCalls
<1> HIDE DEF v, Ends
<1>12. SubSeq(v, 1, Len(v)) = v
  BY <1>8
<1>13. RepairToolPairing(u) = v
  BY <1>3, <1>5, <1>10, <1>11, <1>12 DEF RepairToolPairing
<1> QED
  BY <1>4, <1>6, <1>7, <1>13 DEF v

LEMMA CutWhole ==
  ASSUME NEW t \in Seq(Item)
  PROVE  /\ Cut(t, 0, 1) = t
         /\ \A a \in 1..Len(t) + 1 : Cut(t, 0, a) = From(t, a)
<1>1. SubSeq(t, 1, 0) = <<>>
  BY SubSeqEmpty
<1>2. \A a \in 1..Len(t) + 1 : From(t, a) \in Seq(Item)
  BY FromFacts
<1>3. \A a \in 1..Len(t) + 1 : Cut(t, 0, a) = From(t, a)
  BY <1>1, <1>2, ConcatEmptySeq DEF Cut
<1>4. From(t, 1) = t
  BY SubSeqFull DEF From
<1> QED
  BY <1>3, <1>4

\* Every output of what is kept has its call there.
Closed(t, a) == \A j \in a..Len(t) : IsOutput(t[j]) => \E i \in a..Len(t) : Match(t, i, j)

\* What is kept begins at a: of the items that fit, from s on, the outputs at the
\* start whose calls were cut are dropped.
TrimmedAt(t, s, a) ==
  /\ s = Len(t) \/ Tokens(From(t, s)) <= MaxTokens
  /\ \A k \in s..a - 1 : IsOutput(t[k])
  /\ a \in DOMAIN t => ~(IsOutput(t[a]) /\ t[a].id \notin CallsIn(From(t, s)))

LEMMA TrimCut ==
  ASSUME NEW t \in Seq(Item), WellFormed(t),
         NEW h, h = PreambleEnd(t), NEW body, body = From(t, h + 1)
  PROVE  \/ /\ TrimToTokenBudget(t) = t
            /\ MaxTokens > 0 => body = <<>> \/ Len(body) = 1 \/ Tokens(body) <= MaxTokens
         \/ \E s \in h + 2..Len(t) : \E a \in s..Len(t) + 1 :
              TrimToTokenBudget(t) = Cut(t, h, a) /\ TrimmedAt(t, s, a)
<1> DEFINE l == Len(t)
           Whole == MaxTokens = 0 \/ body = <<>> \/ WindowStart(body) = 1
           Starts == {k \in DOMAIN body : k = Len(body) \/ Tokens(From(body, k)) <= MaxTokens}
<1>1. l \in Nat /\ h \in 0..l
  BY PreambleFacts
<1>2. body \in Seq(Item) /\ Len(body) = l - h
  <2>1. h + 1 \in 1..l + 1
    BY <1>1
  <2>2. From(t, h + 1) \in Seq(Item) /\ Len(From(t, h + 1)) = l + 1 - (h + 1)
    BY <2>1, FromFacts
  <2> HIDE DEF l
  <2> QED BY <1>1, <2>2
<1>3. \A k \in 1..Len(body) : From(body, k) = From(t, h + k)
  <2> SUFFICES ASSUME NEW k \in 1..Len(body) PROVE From(body, k) = From(t, h + k)
    OBVIOUS
  <2>1. h + 1 \in 1..l + 1 /\ k \in 1..l + 2 - (h + 1) /\ (h + 1) + k - 1 = h + k
    <3> HIDE DEF l
    <3> QED BY <1>1, <1>2
  <2> QED BY <2>1, FromFrom
<1>4. body # <<>> => WindowStart(body) \in Starts
  <2> HAVE body # <<>>
  <2>1. Len(body) \in Starts /\ Starts \subseteq Nat
    BY <1>2
  <2> HIDE DEF Starts
  <2>2. Min(Starts) \in Starts
    BY <2>1, MinFacts
  <2> QED BY <2>2 DEF WindowStart, Starts
<1>5. CASE Whole
  <2>1. TrimToTokenBudget(t) = t
    BY <1>5 DEF TrimToTokenBudget
  <2>2. ASSUME WindowStart(body) = 1, body # <<>>
        PROVE  Len(body) = 1 \/ Tokens(body) <= MaxTokens
    <3>1. 1 \in 1..Len(body) /\ From(body, 1) = body
      BY <1>2, <1>3, <1>4, <2>2
    <3>2. 1 \in Starts
      BY <1>4, <2>2
    <3> QED BY <3>1, <3>2
  <2>3. MaxTokens > 0 => MaxTokens # 0
    BY WindowAssumption
  <2> QED BY <1>5, <2>1, <2>2, <2>3
<1>6. CASE ~Whole
  <2> DEFINE k == WindowStart(body)
             s == h + k
  <2>1. k \in Starts /\ k # 1
    BY <1>4, <1>6
  <2> HIDE DEF k
  <2>2. k \in 1..Len(body)
    BY <1>2, <2>1
  <2>3. s \in h + 2..l /\ s \in DOMAIN t
    <3>1. s \in h + 2..l /\ s \in 1..l
      <4> HIDE DEF l
      <4> QED BY <1>1, <1>2, <2>1, <2>2
    <3> QED BY <3>1
  <2>4. From(body, k) = From(t, s)
    BY <1>3, <2>2
  <2>5. s = l \/ Tokens(From(t, s)) <= MaxTokens
    <3> HIDE DEF l
    <3> QED BY <1>1, <1>2, <2>1, <2>4
  <2> HIDE DEF s
  <2>6. PICK a \in s..Len(t) + 1 :
          /\ RepairToolPairing(From(t, s)) = From(t, a)
          /\ \A i \in s..a - 1 : IsOutput(t[i])
          /\ a \in DOMAIN t => ~(IsOutput(t[a]) /\ t[a].id \notin CallsIn(From(t, s)))
    BY <2>3, RepairDropsOutputs
  <2>7. TrimmedAt(t, s, a)
    BY <2>5, <2>6 DEF TrimmedAt
  <2>8. TrimToTokenBudget(t) = Cut(t, h, a)
    <3>1. TrimToTokenBudget(t) = SubSeq(t, 1, h) \o RepairToolPairing(From(body, k))
      BY <1>6 DEF TrimToTokenBudget, k
    <3> QED BY <2>4, <2>6, <3>1 DEF Cut
  <2> QED BY <2>3, <2>6, <2>7, <2>8
<1> QED
  BY <1>5, <1>6

\* Where every call is followed by its output, the cut leaves no output behind.
LEMMA TrimmedIsClosed ==
  ASSUME NEW t \in Seq(Item), WellFormed(t), CallsAnsweredNext(t),
         NEW s \in DOMAIN t, NEW a \in s..Len(t) + 1, TrimmedAt(t, s, a)
  PROVE  Closed(t, a)
<1> SUFFICES ASSUME NEW j \in a..Len(t), IsOutput(t[j])
             PROVE  \E i \in a..Len(t) : Match(t, i, j)
  BY DEF Closed
<1>1. DOMAIN t = 1..Len(t) /\ Len(t) \in Nat /\ j \in DOMAIN t
  OBVIOUS
<1>2. PICK i \in DOMAIN t : i < j /\ Match(t, i, j)
  BY <1>1 DEF WellFormed, OutputsCalled
<1>3. i + 1 = j
  <2>1. i + 1 \in DOMAIN t /\ Match(t, i, i + 1)
    BY <1>2 DEF CallsAnsweredNext, Match
  <2> QED BY <1>1, <1>2, <2>1 DEF Match, WellFormed, OutputsUnique
<1>4. CASE i \in a..Len(t)
  BY <1>2, <1>4
<1>5. CASE i \notin a..Len(t)
  <2>1. j = a /\ a \in DOMAIN t
    BY <1>1, <1>3, <1>5
  <2>2. t[a].id \in CallsIn(From(t, s))
    BY <2>1 DEF TrimmedAt
  <2> DEFINE u == From(t, s)
             l == Len(t)
  <2>3. u \in Seq(Item) /\ Len(u) = l + 1 - s /\ \A k \in 1..l + 1 - s : u[k] = t[s + k - 1]
    <3>1. s \in 1..l + 1
      OBVIOUS
    <3> QED BY <3>1, FromFacts
  <2>4. PICK k \in DOMAIN u : IsCall(u[k]) /\ u[k].id = t[a].id
    BY <2>2 DEF CallsIn
  <2> HIDE DEF u
  <2>5. k \in 1..l + 1 - s
    BY <2>3, <2>4
  <2>6. s + k - 1 \in DOMAIN t /\ IsCall(t[s + k - 1]) /\ t[s + k - 1].id = t[a].id
    BY <1>1, <2>3, <2>4, <2>5
  <2>7. i = s + k - 1
    BY <1>2, <2>1, <2>6 DEF WellFormed, CallsUnique, Match
  <2>8. i \in s..a - 1
    BY <1>1, <1>3, <2>1, <2>5, <2>7
  <2>9. IsOutput(t[i])
    BY <2>8 DEF TrimmedAt
  <2> QED BY <1>2, <2>9 DEF Match, IsCall, IsOutput
<1> QED
  BY <1>4, <1>5

LEMMA MarkerIsClosed ==
  ASSUME NEW t \in Seq(Item), WellFormed(t), NEW a \in 1..Len(t) + 1,
         a = 1 \/ (a \in DOMAIN t /\ t[a].type = "compaction")
  PROVE  Closed(t, a)
<1> SUFFICES ASSUME NEW j \in a..Len(t), IsOutput(t[j])
             PROVE  \E i \in a..Len(t) : Match(t, i, j)
  BY DEF Closed
<1>1. DOMAIN t = 1..Len(t) /\ Len(t) \in Nat /\ j \in DOMAIN t
  OBVIOUS
<1>2. PICK i \in DOMAIN t : i < j /\ Match(t, i, j)
  BY <1>1 DEF WellFormed, OutputsCalled
<1>3. CASE i >= a
  BY <1>1, <1>2, <1>3
<1>4. CASE ~(i >= a)
  <2>1. a \in DOMAIN t /\ t[a].type = "compaction"
    BY <1>1, <1>4
  <2>2. a # j
    BY <2>1 DEF IsOutput
  <2>3. PICK k \in DOMAIN t : /\ i < k /\ Match(t, i, k)
                              /\ \A n \in i + 1..k - 1 : t[n].type # "compaction"
    BY <1>2 DEF WellFormed, CallsComplete, Match
  <2>4. k = j
    BY <1>1, <1>2, <2>3 DEF WellFormed, OutputsUnique, Match
  <2>5. a \in i + 1..k - 1
    BY <1>1, <1>4, <2>1, <2>2, <2>4
  <2> QED BY <2>1, <2>3, <2>5
<1> QED
  BY <1>1, <1>3, <1>4

LEMMA WindowIsCut ==
  ASSUME NEW t \in Seq(Item), WellFormed(t)
  PROVE  \E h \in 0..Len(t) : \E a \in h + 1..Len(t) + 1 :
           /\ Window(t) = Cut(t, h, a)
           /\ \A i \in 1..h : t[i].type = "system"
           /\ CallsAnsweredNext(t) \/ ~compactLocally => Closed(t, a)
<1>0. Len(t) \in Nat /\ DOMAIN t = 1..Len(t)
  OBVIOUS
<1>1. CASE ~compactLocally
  <2>1. PICK a \in 1..Len(t) + 1 :
          /\ TruncateAtServerCompaction(t) = From(t, a)
          /\ a = 1 \/ (a \in DOMAIN t /\ t[a].type = "compaction")
    BY CompactionCut
  <2>2. Closed(t, a)
    BY <2>1, MarkerIsClosed
  <2>3. Window(t) = Cut(t, 0, a)
    BY <1>1, <2>1, CutWhole DEF Window
  <2>4. 0 \in 0..Len(t) /\ a \in 0 + 1..Len(t) + 1 /\ 1..0 = {}
    BY <1>0
  <2> QED BY <2>2, <2>3, <2>4
<1>2. CASE compactLocally
  <2> DEFINE h == PreambleEnd(t)
  <2>1. h \in 0..Len(t) /\ \A i \in 1..h : t[i].type = "system"
    BY PreambleFacts
  <2>2. Window(t) = TrimToTokenBudget(t)
    BY <1>2 DEF Window
  <2>3. CASE TrimToTokenBudget(t) = t
    <3>1. Window(t) = Cut(t, 0, 1)
      BY <2>2, <2>3, CutWhole
    <3>2. Closed(t, 1)
      BY <1>0, MarkerIsClosed
    <3>3. 0 \in 0..Len(t) /\ 1 \in 0 + 1..Len(t) + 1 /\ 1..0 = {}
      BY <1>0
    <3> QED BY <3>1, <3>2, <3>3
  <2>4. ASSUME NEW s \in h + 2..Len(t), NEW a \in s..Len(t) + 1,
               TrimToTokenBudget(t) = Cut(t, h, a), TrimmedAt(t, s, a)
        PROVE  \E g \in 0..Len(t) : \E b \in g + 1..Len(t) + 1 :
                 /\ Window(t) = Cut(t, g, b)
                 /\ \A i \in 1..g : t[i].type = "system"
                 /\ CallsAnsweredNext(t) \/ ~compactLocally => Closed(t, b)
    <3> HIDE DEF h
    <3>1. s \in DOMAIN t /\ a \in h + 1..Len(t) + 1
      BY <1>0, <2>1
    <3>2. CallsAnsweredNext(t) => Closed(t, a)
      BY <2>4, <3>1, TrimmedIsClosed
    <3> QED BY <1>2, <2>1, <2>2, <2>4, <3>1, <3>2
  <2> QED BY <2>3, <2>4, TrimCut
<1> QED
  BY <1>1, <1>2

\* The index of an item tells the item: the calls and the outputs of the window.
LEMMA ClosedPaired ==
  ASSUME NEW t \in Seq(Item), WellFormed(t),
         NEW h \in 0..Len(t), NEW a \in h + 1..Len(t) + 1,
         \A i \in 1..h : t[i].type = "system", Closed(t, a)
  PROVE  Paired(Cut(t, h, a))
<1> DEFINE w == Cut(t, h, a)
           l == Len(t)
           at(i) == Place(h, a, i)
<1>0. l \in Nat /\ DOMAIN t = 1..l /\ h \in 0..l /\ a \in h + 1..l + 1
  OBVIOUS
<1>1. /\ w \in Seq(Item) /\ Len(w) = h + (l + 1 - a)
      /\ DOMAIN w = 1..h + (l + 1 - a)
      /\ \A i \in DOMAIN w : at(i) \in 1..h \cup a..l /\ w[i] = t[at(i)]
  <2>1. /\ w \in Seq(Item) /\ Len(w) = h + (l + 1 - a)
        /\ \A i \in DOMAIN w : at(i) \in 1..h \cup a..l /\ w[i] = t[at(i)]
    BY ONLY CutFacts, t \in Seq(Item), h \in 0..Len(t), a \in h + 1..Len(t) + 1
  <2> HIDE DEF w, at
  <2>2. DOMAIN w = 1..Len(w)
    BY <2>1
  <2> QED BY <2>1, <2>2
<1> HIDE DEF w
<1>2. /\ \A i, j \in DOMAIN w : i < j => at(i) < at(j)
      /\ \A k \in 1..h \cup a..l : \E i \in DOMAIN w : at(i) = k
  <2>1. /\ \A i, j \in 1..h + (l + 1 - a) : i < j => Place(h, a, i) < Place(h, a, j)
        /\ \A k \in 1..h \cup a..l : \E i \in 1..h + (l + 1 - a) : Place(h, a, i) = k
    <3> HIDE DEF l
    <3> QED BY <1>0, PlaceFacts
  <2> HIDE DEF l
  <2> QED BY <1>1, <2>1
<1> HIDE DEF at
<1>3. \A i \in DOMAIN w : IsCall(w[i]) \/ IsOutput(w[i]) => at(i) \in a..l
  BY <1>1 DEF IsCall, IsOutput
<1>4. 1..h \cup a..l \subseteq DOMAIN t /\ \A k \in 1..h \cup a..l : k \in Int
  <2> HIDE DEF l
  <2> QED BY <1>0
<1>5. ASSUME NEW id, id \in CallsIn(w) \cup OutputsIn(w)
      PROVE  \E p, q \in a..l : p < q /\ Match(t, p, q) /\ t[p].id = id
  <2>1. CASE id \in CallsIn(w)
    <3>1. PICK i \in DOMAIN w : IsCall(w[i]) /\ w[i].id = id
      BY <2>1 DEF CallsIn
    <3>2. at(i) \in a..l /\ IsCall(t[at(i)]) /\ t[at(i)].id = id /\ at(i) \in DOMAIN t
      BY <1>1, <1>3, <1>4, <3>1
    <3>3. PICK q \in DOMAIN t : at(i) < q /\ Match(t, at(i), q)
      BY <3>2 DEF WellFormed, CallsComplete
    <3>4. q \in a..l
      <4> HIDE DEF l
      <4> QED BY <1>0, <3>2, <3>3
    <3> QED BY <3>2, <3>3, <3>4
  <2>2. CASE id \in OutputsIn(w)
    <3>1. PICK i \in DOMAIN w : IsOutput(w[i]) /\ w[i].id = id
      BY <2>2 DEF OutputsIn
    <3>2. at(i) \in a..l /\ IsOutput(t[at(i)]) /\ t[at(i)].id = id /\ at(i) \in DOMAIN t
      BY <1>1, <1>3, <1>4, <3>1
    <3>3. PICK p \in a..l : Match(t, p, at(i))
      BY <3>2 DEF Closed
    <3>4. PICK n \in DOMAIN t : n < at(i) /\ Match(t, n, at(i))
      BY <3>2 DEF WellFormed, OutputsCalled
    <3>5. n = p
      BY <1>4, <3>3, <3>4 DEF WellFormed, CallsUnique, Match
    <3> QED BY <3>2, <3>3, <3>4, <3>5 DEF Match
  <2> QED BY <1>5, <2>1, <2>2
<1>6. ASSUME NEW i \in DOMAIN w, NEW k \in DOMAIN w, at(i) = at(k) PROVE i = k
  <2>1. i \in Int /\ k \in Int /\ at(i) \in Int
    BY <1>1, <1>4
  <2> QED BY <1>2, <1>6, <2>1
<1>7. ASSUME NEW id, id \in CallsIn(w) \cup OutputsIn(w)
      PROVE  \E i, j \in DOMAIN w :
               /\ i < j
               /\ {k \in DOMAIN w : IsCall(w[k]) /\ w[k].id = id} = {i}
               /\ {k \in DOMAIN w : IsOutput(w[k]) /\ w[k].id = id} = {j}
  <2>1. PICK p \in a..l, q \in a..l : p < q /\ Match(t, p, q) /\ t[p].id = id
    BY <1>5, <1>7
  <2>2. PICK i \in DOMAIN w : at(i) = p
    BY <1>2
  <2>3. PICK j \in DOMAIN w : at(j) = q
    BY <1>2
  <2>4. i < j
    <3>1. i \in Int /\ j \in Int /\ at(i) \in Int /\ at(j) \in Int
      BY <1>1, <1>4
    <3>2. ~(j < i) /\ i # j
      BY <1>2, <2>1, <2>2, <2>3, <3>1
    <3> QED BY <3>1, <3>2
  <2>5. {k \in DOMAIN w : IsCall(w[k]) /\ w[k].id = id} = {i}
    <3>1. IsCall(w[i]) /\ w[i].id = id
      BY <1>1, <2>1, <2>2 DEF Match
    <3>2. ASSUME NEW k \in DOMAIN w, IsCall(w[k]), w[k].id = id PROVE k = i
      <4>1. at(k) = at(i)
        BY <1>1, <1>4, <3>1, <3>2 DEF WellFormed, CallsUnique
      <4> QED BY <1>6, <4>1
    <3> QED BY <3>1, <3>2
  <2>6. {k \in DOMAIN w : IsOutput(w[k]) /\ w[k].id = id} = {j}
    <3>1. IsOutput(w[j]) /\ w[j].id = id
      BY <1>1, <2>1, <2>3 DEF Match
    <3>2. ASSUME NEW k \in DOMAIN w, IsOutput(w[k]), w[k].id = id PROVE k = j
      <4>1. at(k) = at(j)
        BY <1>1, <1>4, <3>1, <3>2 DEF WellFormed, OutputsUnique
      <4> QED BY <1>6, <4>1
    <3> QED BY <3>1, <3>2
  <2> QED BY <2>4, <2>5, <2>6
<1> QED
  BY <1>7 DEF Paired, w

\* What the cut keeps of the body fits the budget, or is one item.
LEMMA WindowWithinBudget ==
  ASSUME NEW t \in Seq(Item), WellFormed(t), compactLocally, MaxTokens > 0,
         NEW w, w = Window(t), NEW rest, rest = From(w, PreambleEnd(w) + 1)
  PROVE  Tokens(rest) <= MaxTokens \/ Len(rest) = 1
<1> DEFINE l == Len(t)
           h == PreambleEnd(t)
           body == From(t, h + 1)
<1>1. l \in Nat /\ DOMAIN t = 1..l /\ MaxTokens \in Nat
  BY WindowAssumption
<1>2. /\ h \in 0..l
      /\ \A i \in 1..h : t[i].type = "system"
      /\ h < l => t[h + 1].type # "system"
  BY PreambleFacts
<1>3. w = TrimToTokenBudget(t)
  BY DEF Window
<1>4. CASE w = t /\ (body = <<>> \/ Len(body) = 1 \/ Tokens(body) <= MaxTokens)
  <2>1. rest = body
    BY <1>4
  <2>2. Tokens(<<>>) <= MaxTokens
    BY <1>1, TokensOfNothing
  <2> HIDE DEF body
  <2> QED BY <1>4, <2>1, <2>2
<1> HIDE DEF h
<1>5. ASSUME NEW s \in h + 2..l, NEW a \in s..l + 1, w = Cut(t, h, a), TrimmedAt(t, s, a)
      PROVE  Tokens(rest) <= MaxTokens \/ Len(rest) = 1
  <2>0. a \in h + 1..l + 1 /\ a \in 1..l + 1 /\ s \in 1..l + 1 /\ a > 1
    <3> HIDE DEF l
    <3> QED BY <1>1, <1>2, <1>5
  <2>1. /\ w \in Seq(Item) /\ Len(w) = h + (l + 1 - a)
        /\ \A i \in DOMAIN w : Place(h, a, i) \in 1..h \cup a..l /\ w[i] = t[Place(h, a, i)]
    <3>1. /\ Cut(t, h, a) \in Seq(Item) /\ Len(Cut(t, h, a)) = h + (l + 1 - a)
          /\ \A i \in DOMAIN Cut(t, h, a) :
               Place(h, a, i) \in 1..h \cup a..l /\ Cut(t, h, a)[i] = t[Place(h, a, i)]
      BY <1>2, <2>0, CutFacts
    <3> QED BY <1>5, <3>1
  <2> DEFINE e == PreambleEnd(w)
             tail == From(t, a)
  <2>2. /\ e \in 0..Len(w)
        /\ \A i \in 1..e : w[i].type = "system"
        /\ e < Len(w) => w[e + 1].type # "system"
    BY <2>1, PreambleFacts
  <2> HIDE DEF e, l
  <2>3. e = h
    <3>1. ~(e < h)
      <4> SUFFICES ASSUME e < h PROVE FALSE
        OBVIOUS
      <4>1. e + 1 \in DOMAIN w /\ e < Len(w) /\ e + 1 \in 1..h /\ Place(h, a, e + 1) = e + 1
        BY <1>1, <1>2, <2>0, <2>1, <2>2 DEF Place
      <4> QED BY <1>2, <2>1, <2>2, <4>1
    <3>2. ~(h < e)
      <4> SUFFICES ASSUME h < e PROVE FALSE
        OBVIOUS
      <4>1. h + 1 \in DOMAIN w /\ h + 1 \in 1..e /\ Place(h, a, h + 1) = a
        BY <1>1, <1>2, <2>0, <2>1, <2>2 DEF Place
      <4>2. a \in DOMAIN t
        BY <1>1, <1>2, <2>0, <2>1, <4>1
      <4>3. t[a].type # "system"
        BY <2>0, <4>2 DEF WellFormed, PreambleFirst
      <4> QED BY <2>1, <2>2, <4>1, <4>3
    <3> QED BY <1>1, <1>2, <2>0, <2>1, <2>2, <3>1, <3>2
  <2>4. tail \in Seq(Item) /\ Len(tail) = l + 1 - a /\ \A i \in 1..l + 1 - a : tail[i] = t[a + i - 1]
    BY <2>0, FromFacts DEF l
  <2>5. rest = tail
    <3>0. h + 1 \in 1..Len(w) + 1
      BY <1>1, <1>2, <2>0, <2>1
    <3>1. /\ rest \in Seq(Item) /\ Len(rest) = Len(w) + 1 - (h + 1)
          /\ \A i \in 1..Len(w) + 1 - (h + 1) : rest[i] = w[(h + 1) + i - 1]
      BY <2>1, <2>3, <3>0, FromFacts DEF e
    <3> HIDE DEF tail
    <3>2. Len(rest) = Len(tail) /\ Len(tail) = l + 1 - a
      BY <1>1, <1>2, <2>0, <2>1, <2>4, <3>1
    <3>3. ASSUME NEW i \in 1..Len(tail) PROVE rest[i] = tail[i]
      <4>1. /\ (h + 1) + i - 1 \in DOMAIN w
            /\ Place(h, a, (h + 1) + i - 1) = a + i - 1
            /\ i \in 1..Len(w) + 1 - (h + 1)
        BY <1>1, <1>2, <2>0, <2>1, <3>2 DEF Place
      <4> QED BY <2>1, <2>4, <3>1, <3>2, <4>1
    <3> QED BY <2>4, <3>1, <3>2, <3>3, SeqEqual
  <2>6. CASE s = l
    <3>1. Len(tail) = 1 \/ Len(tail) = 0
      BY <1>1, <1>5, <2>0, <2>4, <2>6
    <3>2. Len(tail) = 0 => tail = <<>>
      BY <2>4
    <3>3. Tokens(<<>>) <= MaxTokens
      BY <1>1, TokensOfNothing
    <3> HIDE DEF tail
    <3> QED BY <2>5, <3>1, <3>2, <3>3
  <2>7. CASE Tokens(From(t, s)) <= MaxTokens
    <3>1. s <= a
      BY <1>1, <1>2, <1>5
    <3>2. Tokens(From(t, s)) \in Nat /\ Tokens(tail) \in Nat /\ Tokens(tail) <= Tokens(From(t, s))
      BY <2>0, <3>1, TokensOfSuffix DEF l
    <3> HIDE DEF tail
    <3> QED BY <1>1, <2>5, <2>7, <3>2
  <2> QED BY <1>5, <2>6, <2>7 DEF TrimmedAt, l
<1> QED
  BY <1>1, <1>3, <1>4, <1>5, TrimCut DEF h

-----------------------------------------------------------------------------
(* What the steps make of the thread. *)

LEMMA CallItemFacts ==
  ASSUME NEW id \in CallId, NEW e \in Effect
  PROVE  /\ CallItem(id, e) \in Item
         /\ IsCall(CallItem(id, e)) /\ CallItem(id, e).id = id
         /\ ~CallItem(id, e).image
BY DEF CallItem, Plain, Item, Effect, IsCall

LEMMA OutputItemFacts ==
  ASSUME NEW id \in CallId, NEW e \in Effect
  PROVE  /\ OutputItem(id, e) \in Item
         /\ IsOutput(OutputItem(id, e)) /\ OutputItem(id, e).id = id
BY DEF OutputItem, Plain, Item, Effect, IsOutput

\* The thread with the items of one response.
Extended(t, ids, effects, opening) ==
  t \o opening \o [i \in DOMAIN ids |-> CallItem(ids[i], effects[i])]
              \o [i \in DOMAIN ids |-> OutputItem(ids[i], effects[i])]

\* Its items one by one: the old ones, its opening if any, the calls, the outputs.
LaidOut(u, t, n, ids, effects, c) ==
  /\ u \in Seq(Item)
  /\ Len(u) = c + n + n
  /\ \A i \in 1..Len(t) : u[i] = t[i]
  /\ \A i \in Len(t) + 1..c : u[i] \in {Plain("message"), Plain("compaction")}
  /\ \A k \in 1..n : u[c + k] = CallItem(ids[k], effects[k])
  /\ \A k \in 1..n : u[c + n + k] = OutputItem(ids[k], effects[k])

LEMMA ExtendedFacts ==
  ASSUME NEW t \in Seq(Item), NEW n \in Nat, NEW ids \in [1..n -> CallId],
         NEW effects \in [1..n -> Effect],
         NEW opening, opening \in {<<>>, <<Plain("message")>>, <<Plain("compaction")>>},
         NEW u, u = Extended(t, ids, effects, opening)
  PROVE  \E c \in {Len(t), Len(t) + 1} : LaidOut(u, t, n, ids, effects, c)
<1> DEFINE calls == [i \in 1..n |-> CallItem(ids[i], effects[i])]
           outputs == [i \in 1..n |-> OutputItem(ids[i], effects[i])]
           v == t \o opening
           w == v \o calls
           c == Len(v)
<1>1. calls \in Seq(Item) /\ Len(calls) = n /\ \A k \in 1..n : calls[k] = CallItem(ids[k], effects[k])
  BY CallItemFacts
<1>2. /\ outputs \in Seq(Item) /\ Len(outputs) = n
      /\ \A k \in 1..n : outputs[k] = OutputItem(ids[k], effects[k])
  BY OutputItemFacts
<1>3. /\ opening \in Seq(Item) /\ Len(opening) \in {0, 1}
      /\ \A i \in 1..Len(opening) : opening[i] \in {Plain("message"), Plain("compaction")}
  <2> DEFINE message == Plain("message")
             compaction == Plain("compaction")
  <2>1. message \in Item /\ compaction \in Item
    BY ItemFacts
  <2>2. opening \in {<<>>, <<message>>, <<compaction>>}
    OBVIOUS
  <2> HIDE DEF message, compaction
  <2>3. /\ opening \in Seq(Item) /\ Len(opening) \in {0, 1}
        /\ \A i \in 1..Len(opening) : opening[i] \in {message, compaction}
    <3>1. ASSUME NEW plain \in {message, compaction}, opening = <<plain>>
          PROVE  opening \in Seq(Item) /\ Len(opening) = 1 /\ opening[1] = plain
      BY <2>1, <3>1
    <3>2. opening = <<>> => opening \in Seq(Item) /\ Len(opening) = 0
      OBVIOUS
    <3> QED BY <2>2, <3>1, <3>2
  <2> QED BY <2>3 DEF message, compaction
<1>4. u = w \o outputs
  BY DEF Extended
<1> HIDE DEF calls, outputs
<1>5. /\ v \in Seq(Item) /\ c = Len(t) + Len(opening)
      /\ \A i \in 1..Len(t) + Len(opening) :
           v[i] = IF i <= Len(t) THEN t[i] ELSE opening[i - Len(t)]
  BY <1>3, ConcatProperties
<1> HIDE DEF v
<1>6. /\ w \in Seq(Item) /\ Len(w) = c + n
      /\ \A i \in 1..c + n : w[i] = IF i <= c THEN v[i] ELSE calls[i - c]
  <2>1. /\ v \o calls \in Seq(Item) /\ Len(v \o calls) = Len(v) + Len(calls)
        /\ \A i \in 1..Len(v) + Len(calls) :
             (v \o calls)[i] = IF i <= Len(v) THEN v[i] ELSE calls[i - Len(v)]
    <3>1. v \in Seq(Item) /\ calls \in Seq(Item)
      BY <1>1, <1>5
    <3> QED BY <3>1, ConcatProperties
  <2> QED BY <1>1, <2>1
<1> HIDE DEF w
<1>7. /\ u \in Seq(Item) /\ Len(u) = c + n + n
      /\ \A i \in 1..c + n + n : u[i] = IF i <= c + n THEN w[i] ELSE outputs[i - (c + n)]
  <2>1. /\ w \o outputs \in Seq(Item) /\ Len(w \o outputs) = Len(w) + Len(outputs)
        /\ \A i \in 1..Len(w) + Len(outputs) :
             (w \o outputs)[i] = IF i <= Len(w) THEN w[i] ELSE outputs[i - Len(w)]
    BY <1>2, <1>6, ConcatProperties
  <2> QED BY <1>2, <1>4, <1>6, <2>1
<1> HIDE DEF c
<1>8. c \in {Len(t), Len(t) + 1} /\ c \in Nat /\ Len(t) \in Nat /\ Len(t) <= c
  BY <1>3, <1>5
<1> DEFINE l == Len(t)
<1> HIDE DEF l
<1>9. \A i \in 1..l : u[i] = t[i]
  <2> SUFFICES ASSUME NEW i \in 1..l PROVE u[i] = t[i]
    OBVIOUS
  <2>1. /\ i <= l /\ i \in 1..l + Len(opening) /\ i <= c /\ i \in 1..c + n /\ i <= c + n
        /\ i \in 1..c + n + n
    BY <1>3, <1>5, <1>8 DEF l
  <2> QED BY <1>5, <1>6, <1>7, <2>1 DEF l
<1>10. \A i \in l + 1..c : u[i] \in {Plain("message"), Plain("compaction")}
  <2> SUFFICES ASSUME NEW i \in l + 1..c PROVE u[i] \in {Plain("message"), Plain("compaction")}
    OBVIOUS
  <2>1. i - l \in 1..Len(opening) /\ ~(i <= l) /\ i \in 1..l + Len(opening) /\ i <= c
    BY <1>3, <1>5, <1>8 DEF l
  <2>2. u[i] = v[i]
    BY <1>6, <1>7, <1>8, <2>1 DEF l
  <2> QED BY <1>3, <1>5, <2>1, <2>2 DEF l
<1>11. \A k \in 1..n : u[c + k] = CallItem(ids[k], effects[k])
  <2> SUFFICES ASSUME NEW k \in 1..n PROVE u[c + k] = CallItem(ids[k], effects[k])
    OBVIOUS
  <2>1. c + k \in 1..c + n /\ ~(c + k <= c) /\ (c + k) - c = k /\ c + k <= c + n /\ c + k \in 1..c + n + n
    BY <1>8
  <2> QED BY <1>1, <1>6, <1>7, <2>1
<1>12. \A k \in 1..n : u[c + n + k] = OutputItem(ids[k], effects[k])
  <2> SUFFICES ASSUME NEW k \in 1..n PROVE u[c + n + k] = OutputItem(ids[k], effects[k])
    OBVIOUS
  <2>1. c + n + k \in 1..c + n + n /\ ~(c + n + k <= c + n) /\ (c + n + k) - (c + n) = k
    BY <1>8
  <2> QED BY <1>2, <1>7, <2>1
<1> QED
  BY <1>7, <1>8, <1>9, <1>10, <1>11, <1>12 DEF l, LaidOut

\* What a response may have made of the thread t.
Grown(t, u) ==
  /\ u \in Seq(Item)
  /\ Len(t) <= Len(u)
  /\ \A i \in 1..Len(t) : u[i] = t[i]
  /\ \A i \in Len(t) + 1..Len(u) : u[i].image => IsOutput(u[i])
  /\ WellFormed(u)
  /\ (\A i \in 2..Len(u) : ~(IsCall(u[i - 1]) /\ IsCall(u[i]))) /\ CallsAnsweredNext(t)
       => CallsAnsweredNext(u)

\* The response adds its pairs, in the order of its calls, and no others.
LEMMA ExtendedThread ==
  ASSUME NEW t \in Seq(Item), WellFormed(t), NEW n \in Nat \ {0},
         NEW ids \in [1..n -> CallId \ CallsIn(t)], IsInjective(ids),
         NEW effects \in [1..n -> Effect],
         NEW opening, opening \in {<<>>, <<Plain("message")>>, <<Plain("compaction")>>},
         NEW u, u = Extended(t, ids, effects, opening)
  PROVE  Grown(t, u)
<1> DEFINE l == Len(t)
<1>1. ids \in [1..n -> CallId] /\ \A k \in 1..n : ids[k] \notin CallsIn(t)
  OBVIOUS
<1>2. n \in Nat
  OBVIOUS
<1>3. PICK c \in {Len(t), Len(t) + 1} : LaidOut(u, t, n, ids, effects, c)
  BY <1>1, <1>2, ExtendedFacts
<1>4. /\ u \in Seq(Item)
      /\ Len(u) = c + n + n
      /\ \A i \in 1..Len(t) : u[i] = t[i]
      /\ \A i \in Len(t) + 1..c : u[i] \in {Plain("message"), Plain("compaction")}
      /\ \A k \in 1..n : u[c + k] = CallItem(ids[k], effects[k])
      /\ \A k \in 1..n : u[c + n + k] = OutputItem(ids[k], effects[k])
  BY <1>3 DEF LaidOut
<1>5. /\ l \in Nat /\ c \in Nat /\ l <= c /\ DOMAIN t = 1..l /\ DOMAIN u = 1..c + n + n
      /\ n \in Nat /\ n > 0
  BY <1>4
<1>6. \A k, m \in 1..n : ids[k] = ids[m] => k = m
  BY DEF IsInjective
<1> HIDE DEF l
<1>7. \A i \in 1..l : i \in DOMAIN t /\ u[i] = t[i]
  BY <1>4, <1>5 DEF l
<1>8. \A i \in l + 1..c : /\ ~u[i].image /\ ~IsCall(u[i]) /\ ~IsOutput(u[i])
                          /\ u[i].type # "system"
  BY <1>4 DEF Plain, IsCall, IsOutput, l
<1>9. \A k \in 1..n : u[c + k].type = "call" /\ u[c + k].id = ids[k] /\ ~u[c + k].image
  BY <1>1, <1>4, CallItemFacts DEF IsCall
<1>10. \A k \in 1..n : u[c + n + k].type = "output" /\ u[c + n + k].id = ids[k]
  BY <1>1, <1>4, OutputItemFacts DEF IsOutput
<1>11. \A i \in DOMAIN u : \/ i \in 1..l
                           \/ i \in l + 1..c
                           \/ \E k \in 1..n : i = c + k
                           \/ \E k \in 1..n : i = c + n + k
  <2> SUFFICES ASSUME NEW i \in 1..c + n + n, ~(i \in 1..l), ~(i \in l + 1..c)
               PROVE  (\E k \in 1..n : i = c + k) \/ (\E k \in 1..n : i = c + n + k)
    BY <1>5
  <2>1. CASE i <= c + n
    <3>1. i - c \in 1..n /\ i = c + (i - c)
      BY <1>5, <2>1
    <3> QED BY <3>1
  <2>2. CASE ~(i <= c + n)
    <3>1. i - (c + n) \in 1..n /\ i = c + n + (i - (c + n))
      BY <1>5, <2>2
    <3> QED BY <3>1
  <2> QED BY <2>1, <2>2
<1>12. \A i \in DOMAIN u : IsCall(u[i]) =>
        (i \in 1..l /\ IsCall(t[i])) \/ \E k \in 1..n : i = c + k
  BY <1>7, <1>8, <1>10, <1>11 DEF IsCall
<1>13. \A i \in DOMAIN u : IsOutput(u[i]) =>
        (i \in 1..l /\ IsOutput(t[i])) \/ \E k \in 1..n : i = c + n + k
  BY <1>7, <1>8, <1>9, <1>11 DEF IsOutput
<1>14. \A i \in 1..l, k \in 1..n : IsCall(t[i]) => t[i].id # ids[k]
  BY <1>1, <1>5 DEF CallsIn
<1>15. \A i \in 1..l, k \in 1..n : IsOutput(t[i]) => t[i].id # ids[k]
  <2> SUFFICES ASSUME NEW i \in 1..l, NEW k \in 1..n, IsOutput(t[i]) PROVE t[i].id # ids[k]
    OBVIOUS
  <2>1. PICK j \in DOMAIN t : IsCall(t[j]) /\ t[j].id = t[i].id
    BY <1>5 DEF WellFormed, OutputsCalled, Match
  <2> QED BY <1>5, <1>14, <2>1
<1>16. /\ \A k \in 1..n : c + k \in DOMAIN u /\ c + n + k \in DOMAIN u
       /\ 1..l \subseteq DOMAIN u
  BY <1>5
<1>17. CallsUnique(u)
  <2> SUFFICES ASSUME NEW i \in DOMAIN u, NEW j \in DOMAIN u,
                      IsCall(u[i]), IsCall(u[j]), u[i].id = u[j].id
               PROVE  i = j
    BY DEF CallsUnique
  <2>1. CASE i \in 1..l /\ j \in 1..l
    BY <1>5, <1>7, <2>1 DEF WellFormed, CallsUnique
  <2>2. ASSUME NEW k \in 1..n, i = c + k \/ j = c + k PROVE i = j
    BY <1>6, <1>7, <1>9, <1>12, <1>14, <2>2
  <2> QED BY <1>12, <2>1, <2>2
<1>18. OutputsUnique(u)
  <2> SUFFICES ASSUME NEW i \in DOMAIN u, NEW j \in DOMAIN u,
                      IsOutput(u[i]), IsOutput(u[j]), u[i].id = u[j].id
               PROVE  i = j
    BY DEF OutputsUnique
  <2>1. CASE i \in 1..l /\ j \in 1..l
    BY <1>5, <1>7, <2>1 DEF WellFormed, OutputsUnique
  <2>2. ASSUME NEW k \in 1..n, i = c + n + k \/ j = c + n + k PROVE i = j
    BY <1>6, <1>7, <1>10, <1>13, <1>15, <2>2
  <2> QED BY <1>13, <2>1, <2>2
<1>19. \A i, j \in DOMAIN u : Match(u, i, j) =>
         \/ i \in 1..l /\ j \in 1..l /\ Match(t, i, j)
         \/ \E k \in 1..n : i = c + k /\ j = c + n + k
  <2> SUFFICES ASSUME NEW i \in DOMAIN u, NEW j \in DOMAIN u, Match(u, i, j)
               PROVE  \/ i \in 1..l /\ j \in 1..l /\ Match(t, i, j)
                      \/ \E k \in 1..n : i = c + k /\ j = c + n + k
    OBVIOUS
  <2>1. IsCall(u[i]) /\ IsOutput(u[j]) /\ u[i].id = u[j].id
    BY DEF Match
  <2>2. CASE i \in 1..l /\ j \in 1..l
    BY <1>7, <2>1, <2>2 DEF Match
  <2>3. ASSUME NEW k \in 1..n, i = c + k PROVE \E m \in 1..n : i = c + m /\ j = c + n + m
    <3>1. u[j].id = ids[k]
      BY <1>9, <2>1, <2>3
    <3>2. ~(j \in 1..l /\ IsOutput(t[j]))
      BY <1>7, <1>15, <3>1
    <3>3. PICK m \in 1..n : j = c + n + m
      BY <1>13, <2>1, <3>2
    <3>4. m = k
      BY <1>6, <1>10, <3>1, <3>3
    <3> QED BY <2>3, <3>3, <3>4
  <2>4. ASSUME NEW k \in 1..n, j = c + n + k PROVE \E m \in 1..n : i = c + m /\ j = c + n + m
    <3>1. u[i].id = ids[k]
      BY <1>10, <2>1, <2>4
    <3>2. ~(i \in 1..l /\ IsCall(t[i]))
      BY <1>7, <1>14, <3>1
    <3>3. PICK m \in 1..n : i = c + m
      BY <1>12, <2>1, <3>2
    <3>4. m = k
      BY <1>6, <1>9, <3>1, <3>3
    <3> QED BY <2>4, <3>3, <3>4
  <2> QED BY <1>12, <1>13, <2>1, <2>2, <2>3, <2>4
<1>20. \A k \in 1..n : Match(u, c + k, c + n + k) /\ c + k < c + n + k
  <2>1. \A k \in 1..n : c + k < c + n + k
    BY <1>5
  <2> QED BY <1>9, <1>10, <2>1 DEF Match, IsCall, IsOutput
<1>21. \A i, j \in 1..l : Match(u, i, j) <=> Match(t, i, j)
  BY <1>7 DEF Match
<1>22. CallsComplete(u)
  <2> SUFFICES ASSUME NEW i \in DOMAIN u, IsCall(u[i])
               PROVE  \E j \in DOMAIN u : /\ i < j
                                          /\ Match(u, i, j)
                                          /\ \A k \in i + 1..j - 1 : u[k].type # "compaction"
    BY DEF CallsComplete
  <2>1. CASE i \in 1..l
    <3>1. IsCall(t[i]) /\ i \in DOMAIN t
      BY <1>7, <2>1
    <3>2. PICK j \in DOMAIN t : /\ i < j
                                /\ Match(t, i, j)
                                /\ \A k \in i + 1..j - 1 : t[k].type # "compaction"
      BY <3>1 DEF WellFormed, CallsComplete
    <3>3. j \in 1..l /\ \A k \in i + 1..j - 1 : k \in 1..l
      BY <1>5, <2>1, <3>2
    <3>4. \A k \in i + 1..j - 1 : u[k].type # "compaction"
      BY <1>7, <3>2, <3>3
    <3> QED BY <1>16, <1>21, <2>1, <3>2, <3>3, <3>4
  <2>2. ASSUME NEW k \in 1..n, i = c + k
        PROVE  \E j \in DOMAIN u : /\ i < j
                                   /\ Match(u, i, j)
                                   /\ \A m \in i + 1..j - 1 : u[m].type # "compaction"
    <3>1. ASSUME NEW m \in c + k + 1..c + n + k - 1 PROVE u[m].type # "compaction"
      <4>1. m \in DOMAIN u /\ ~(m \in 1..l) /\ ~(m \in l + 1..c)
        BY <1>5, <3>1
      <4>2. (\E o \in 1..n : m = c + o) \/ (\E o \in 1..n : m = c + n + o)
        BY <1>11, <4>1
      <4>3. CASE \E o \in 1..n : m = c + o
        BY <1>9, <4>3
      <4>4. CASE \E o \in 1..n : m = c + n + o
        BY <1>10, <4>4
      <4> QED BY <4>2, <4>3, <4>4
    <3> QED BY <1>16, <1>20, <2>2, <3>1
  <2> QED BY <1>12, <2>1, <2>2
<1>23. OutputsCalled(u)
  <2> SUFFICES ASSUME NEW j \in DOMAIN u, IsOutput(u[j])
               PROVE  \E i \in DOMAIN u : i < j /\ Match(u, i, j)
    BY DEF OutputsCalled
  <2>1. CASE j \in 1..l
    <3>1. IsOutput(t[j]) /\ j \in DOMAIN t
      BY <1>7, <2>1
    <3>2. PICK i \in DOMAIN t : i < j /\ Match(t, i, j)
      BY <3>1 DEF WellFormed, OutputsCalled
    <3> QED BY <1>5, <1>16, <1>21, <2>1, <3>2
  <2>2. ASSUME NEW k \in 1..n, j = c + n + k PROVE \E i \in DOMAIN u : i < j /\ Match(u, i, j)
    BY <1>16, <1>20, <2>2
  <2> QED BY <1>13, <2>1, <2>2
<1>24. OrderKept(u)
  <2> SUFFICES ASSUME NEW i \in DOMAIN u, NEW j \in DOMAIN u,
                      NEW k \in DOMAIN u, NEW m \in DOMAIN u,
                      Match(u, i, j), Match(u, k, m), i < k
               PROVE  j < m
    BY DEF OrderKept
  <2>1. CASE i \in 1..l /\ j \in 1..l /\ Match(t, i, j) /\ k \in 1..l /\ m \in 1..l /\ Match(t, k, m)
    BY <1>5, <2>1 DEF WellFormed, OrderKept
  <2>2. CASE i \in 1..l /\ j \in 1..l /\ \E p \in 1..n : k = c + p /\ m = c + n + p
    BY <1>5, <2>2
  <2>3. CASE (\E p \in 1..n : i = c + p /\ j = c + n + p) /\ k \in 1..l
    BY <1>5, <2>3
  <2>4. CASE (\E p \in 1..n : i = c + p /\ j = c + n + p) /\ \E p \in 1..n : k = c + p /\ m = c + n + p
    BY <1>5, <2>4
  <2> QED BY <1>19, <2>1, <2>2, <2>3, <2>4
<1>25. PreambleFirst(u)
  <2> SUFFICES ASSUME NEW i \in DOMAIN u, u[i].type = "system" PROVE i = 1
    BY DEF PreambleFirst
  <2>1. i \in 1..l
    BY <1>8, <1>9, <1>10, <1>11
  <2> QED BY <1>7, <2>1 DEF WellFormed, PreambleFirst
<1>26. \A i \in DOMAIN u : IsCall(u[i]) => u[i].id \in CallId
  BY <1>1, <1>7, <1>9, <1>12 DEF WellFormed
<1>27. WellFormed(u)
  BY <1>17, <1>18, <1>22, <1>23, <1>24, <1>25, <1>26 DEF WellFormed
<1>28. ASSUME \A i \in 2..Len(u) : ~(IsCall(u[i - 1]) /\ IsCall(u[i])), CallsAnsweredNext(t)
       PROVE  CallsAnsweredNext(u)
  <2>1. n = 1
    <3> SUFFICES ASSUME n # 1 PROVE FALSE
      OBVIOUS
    <3>1. c + 2 \in 2..Len(u) /\ (c + 2) - 1 = c + 1 /\ 1 \in 1..n /\ 2 \in 1..n
      BY <1>4, <1>5
    <3>2. IsCall(u[c + 1]) /\ IsCall(u[c + 2])
      BY <1>9, <3>1 DEF IsCall
    <3> QED BY <1>28, <3>1, <3>2
  <2>2. ASSUME NEW i \in DOMAIN u, IsCall(u[i]) PROVE i + 1 \in DOMAIN u /\ Match(u, i, i + 1)
    <3>1. CASE i \in 1..l
      <4>1. i \in DOMAIN t /\ IsCall(t[i])
        BY <1>7, <2>2, <3>1
      <4>2. i + 1 \in DOMAIN t /\ Match(t, i, i + 1)
        BY <1>28, <4>1 DEF CallsAnsweredNext
      <4> QED BY <1>5, <1>16, <1>21, <3>1, <4>2
    <3>2. ASSUME NEW k \in 1..n, i = c + k PROVE i + 1 \in DOMAIN u /\ Match(u, i, i + 1)
      <4>1. i + 1 = c + n + k
        BY <1>5, <2>1, <3>2
      <4> QED BY <1>16, <1>20, <3>2, <4>1
    <3> QED BY <1>12, <2>2, <3>1, <3>2
  <2> QED BY <2>2 DEF CallsAnsweredNext
<1>29. \A i \in l + 1..Len(u) : u[i].image => IsOutput(u[i])
  <2> SUFFICES ASSUME NEW i \in l + 1..Len(u), u[i].image PROVE IsOutput(u[i])
    OBVIOUS
  <2>1. i \in DOMAIN u /\ ~(i \in 1..l)
    BY <1>4, <1>5
  <2>2. i \notin l + 1..c
    BY <1>8
  <2>3. \A k \in 1..n : i # c + k
    BY <1>9
  <2>4. PICK k \in 1..n : i = c + n + k
    BY <1>11, <2>1, <2>2, <2>3
  <2> QED BY <1>10, <2>4 DEF IsOutput
<1>30. l <= Len(u)
  BY <1>4, <1>5
<1> QED
  BY <1>4, <1>27, <1>28, <1>29, <1>30 DEF l, Grown

\* A line or a message joins the thread, whose images may have been replaced.
LEMMA PlainAppended ==
  ASSUME NEW t \in Seq(Item), WellFormed(t), NEW u \in Seq(Item), Len(u) = Len(t) + 1,
         \A i \in 1..Len(t) : u[i].type = t[i].type /\ u[i].id = t[i].id,
         u[Len(t) + 1].type \in {"user", "message"}
  PROVE  /\ WellFormed(u)
         /\ (\A i \in 2..Len(u) : ~(IsCall(u[i - 1]) /\ IsCall(u[i])))
              => \A i \in 2..Len(t) : ~(IsCall(t[i - 1]) /\ IsCall(t[i]))
         /\ CallsAnsweredNext(t) => CallsAnsweredNext(u)
<1> DEFINE l == Len(t)
<1>1. l \in Nat /\ DOMAIN t = 1..l /\ DOMAIN u = 1..l + 1
  OBVIOUS
<1>2. \A i \in 1..l : /\ IsCall(u[i]) <=> IsCall(t[i])
                      /\ IsOutput(u[i]) <=> IsOutput(t[i])
                      /\ u[i].id = t[i].id /\ u[i].type = t[i].type
  BY DEF IsCall, IsOutput
<1>3. /\ ~IsCall(u[l + 1]) /\ ~IsOutput(u[l + 1])
      /\ u[l + 1].type # "system" /\ u[l + 1].type # "compaction"
  BY DEF IsCall, IsOutput
<1>4. \A i \in DOMAIN u : i \in 1..l \/ i = l + 1
  BY <1>1
<1>5. \A i, j \in 1..l : Match(u, i, j) <=> Match(t, i, j)
  BY <1>2 DEF Match
<1> HIDE DEF l
<1>6. CallsUnique(u) /\ OutputsUnique(u)
  BY <1>1, <1>2, <1>3, <1>4 DEF WellFormed, CallsUnique, OutputsUnique
<1>7. CallsComplete(u)
  <2> SUFFICES ASSUME NEW i \in DOMAIN u, IsCall(u[i])
               PROVE  \E j \in DOMAIN u : /\ i < j
                                          /\ Match(u, i, j)
                                          /\ \A k \in i + 1..j - 1 : u[k].type # "compaction"
    BY DEF CallsComplete
  <2>1. i \in 1..l /\ IsCall(t[i])
    BY <1>2, <1>3, <1>4
  <2>2. PICK j \in DOMAIN t : /\ i < j
                              /\ Match(t, i, j)
                              /\ \A k \in i + 1..j - 1 : t[k].type # "compaction"
    BY <1>1, <2>1 DEF WellFormed, CallsComplete
  <2>3. j \in DOMAIN u /\ j \in 1..l /\ \A k \in i + 1..j - 1 : k \in 1..l
    BY <1>1, <2>1, <2>2
  <2> QED BY <1>2, <1>5, <2>1, <2>2, <2>3
<1>8. OutputsCalled(u)
  <2> SUFFICES ASSUME NEW j \in DOMAIN u, IsOutput(u[j])
               PROVE  \E i \in DOMAIN u : i < j /\ Match(u, i, j)
    BY DEF OutputsCalled
  <2>1. j \in 1..l /\ IsOutput(t[j])
    BY <1>2, <1>3, <1>4
  <2>2. PICK i \in DOMAIN t : i < j /\ Match(t, i, j)
    BY <1>1, <2>1 DEF WellFormed, OutputsCalled
  <2>3. i \in DOMAIN u /\ i \in 1..l
    BY <1>1, <2>2
  <2> QED BY <1>5, <2>1, <2>2, <2>3
<1>9. OrderKept(u)
  <2>1. \A i, j \in DOMAIN u : Match(u, i, j) => i \in 1..l /\ j \in 1..l /\ Match(t, i, j)
    BY <1>3, <1>4, <1>5 DEF Match
  <2> QED BY <1>1, <2>1 DEF WellFormed, OrderKept
<1>10. PreambleFirst(u)
  BY <1>1, <1>2, <1>3, <1>4 DEF WellFormed, PreambleFirst
<1>11. \A i \in DOMAIN u : IsCall(u[i]) => u[i].id \in CallId
  BY <1>1, <1>2, <1>3, <1>4 DEF WellFormed
<1>12. ASSUME \A i \in 2..Len(u) : ~(IsCall(u[i - 1]) /\ IsCall(u[i])),
              NEW i \in 2..l
       PROVE  ~(IsCall(t[i - 1]) /\ IsCall(t[i]))
  <2>1. i \in 2..Len(u) /\ i \in 1..l /\ i - 1 \in 1..l
    BY <1>1 DEF l
  <2> QED BY <1>2, <1>12, <2>1
<1>13. ASSUME CallsAnsweredNext(t) PROVE CallsAnsweredNext(u)
  <2> SUFFICES ASSUME NEW i \in DOMAIN u, IsCall(u[i]) PROVE i + 1 \in DOMAIN u /\ Match(u, i, i + 1)
    BY DEF CallsAnsweredNext
  <2>1. i \in 1..l /\ IsCall(t[i])
    BY <1>2, <1>3, <1>4
  <2>2. i + 1 \in 1..l /\ Match(t, i, i + 1)
    BY <1>1, <1>13, <2>1 DEF CallsAnsweredNext
  <2> QED BY <1>1, <1>5, <2>1, <2>2
<1> QED
  BY <1>6, <1>7, <1>8, <1>9, <1>10, <1>11, <1>12, <1>13 DEF WellFormed, l

LEMMA StoredFacts ==
  ASSUME NEW t \in Seq(Item)
  PROVE  /\ StoredInSession(t) \in Seq(Item)
         /\ Len(StoredInSession(t)) = Len(t)
         /\ \A i \in 1..Len(t) : /\ StoredInSession(t)[i].type = t[i].type
                                 /\ StoredInSession(t)[i].id = t[i].id
                                 /\ ~StoredInSession(t)[i].image
<1>1. \A item \in Item : /\ SanitizeImages(item) \in Item
                         /\ SanitizeImages(item).type = item.type
                         /\ SanitizeImages(item).id = item.id
                         /\ ~SanitizeImages(item).image
  BY DEF SanitizeImages, Item
<1>2. StoredInSession(t) = [i \in 1..Len(t) |-> SanitizeImages(t[i])]
  BY DEF StoredInSession
<1>3. \A i \in 1..Len(t) : t[i] \in Item
  OBVIOUS
<1> QED
  BY <1>1, <1>2, <1>3

\* What the visual state says of a thread it says of every longer one.
LEMMA DescribesLonger ==
  ASSUME NEW t \in Seq(Item), WellFormed(t), NEW u \in Seq(Item), WellFormed(u),
         Len(t) <= Len(u), \A i \in 1..Len(t) : u[i] = t[i],
         NEW seen \in VisualStates, Describes(seen, t, Len(t))
  PROVE  Describes(seen, u, Len(t))
<1> DEFINE l == Len(t)
<1>1. l \in Nat /\ DOMAIN t = 1..l /\ 1..l \subseteq DOMAIN u
  OBVIOUS
<1>2. \A k \in 1..l : u[k] = t[k]
  OBVIOUS
<1>3. \A k \in 1..l : IsCall(t[k]) => OutputOf(u, t[k].id) = OutputOf(t, t[k].id)
  <2> SUFFICES ASSUME NEW k \in 1..l, IsCall(t[k])
               PROVE  OutputOf(u, t[k].id) = OutputOf(t, t[k].id)
    OBVIOUS
  <2>1. PICK j \in DOMAIN t : Match(t, k, j) /\ OutputOf(t, t[k].id) = t[j]
    BY <1>1, CallHasOutput
  <2>2. Match(u, k, j) /\ j \in DOMAIN u /\ k \in DOMAIN u
    BY <1>1, <1>2, <2>1 DEF Match
  <2>3. OutputOf(u, u[k].id) = u[j]
    BY <2>2, OutputOfFacts DEF WellFormed
  <2> QED BY <1>1, <1>2, <2>1, <2>3
<1>4. Describes(seen, t, l)
  OBVIOUS
<1> HIDE DEF l
<1>5. \A k \in 1..l : LastFrame(u, k, l) <=> LastFrame(t, k, l)
  <2> SUFFICES ASSUME NEW k \in 1..l PROVE LastFrame(u, k, l) <=> LastFrame(t, k, l)
    OBVIOUS
  <2>1. \A j \in k + 1..l : j \in 1..l
    BY <1>1
  <2> QED BY <1>2, <1>3, <2>1 DEF LastFrame
<1>6. seen.completed = {u[i].id : i \in {j \in 1..l : IsCall(u[j])}}
  <2>1. {t[i].id : i \in {j \in 1..l : IsCall(t[j])}} = {u[i].id : i \in {j \in 1..l : IsCall(u[j])}}
    BY <1>2
  <2> QED BY <1>4, <2>1 DEF Describes
<1>7. ASSUME ~seen.valid PROVE Describes(seen, u, l)
  <2>1. \A k \in 1..l : ~LastFrame(u, k, l)
    BY <1>4, <1>5, <1>7 DEF Describes
  <2> QED BY <1>6, <1>7, <2>1 DEF Describes
<1>8. ASSUME seen.valid PROVE Describes(seen, u, l)
  <2>1. PICK k \in 1..l : /\ LastFrame(t, k, l)
                          /\ seen.id = t[k].id
                          /\ seen.pair = <<t[k], OutputOf(t, t[k].id)>>
    BY <1>4, <1>8 DEF Describes
  <2>2. /\ LastFrame(u, k, l)
        /\ seen.id = u[k].id
        /\ seen.pair = <<u[k], OutputOf(u, u[k].id)>>
    BY <1>2, <1>3, <1>5, <2>1 DEF LastFrame
  <2> QED BY <1>6, <1>8, <2>2 DEF Describes
<1> QED
  BY <1>7, <1>8 DEF l

-----------------------------------------------------------------------------
(* What the filter returns. *)

LEMMA RestoreFacts ==
  ASSUME NEW seen \in VisualStates, NEW w \in Seq(Item)
  PROVE  RestoreCurrentImage(seen, w) \in Seq(Item)
<1>1. seen.pair \in Seq(Item)
  BY DEF VisualStates
<1>2. w \o seen.pair \in Seq(Item)
  BY <1>1, ConcatProperties
<1> QED
  BY <1>2 DEF RestoreCurrentImage

LEMMA RetainFacts ==
  ASSUME NEW seen, NEW r \in Seq(Item), NEW s, s = RetainCurrentImage(seen, r)
  PROVE  /\ s \in Seq(Item)
         /\ Len(s) = Len(r)
         /\ \A i \in 1..Len(r) :
              /\ s[i].type = r[i].type
              /\ s[i].id = r[i].id
              /\ s[i].image <=> /\ r[i].image
                                /\ IsOutput(r[i]) => seen.valid /\ r[i].id = seen.id
<1>1. \A item \in Item : /\ SanitizeImages(item) \in Item
                         /\ SanitizeImages(item).type = item.type
                         /\ SanitizeImages(item).id = item.id
                         /\ ~SanitizeImages(item).image
  BY DEF SanitizeImages, Item
<1> DEFINE old(i) == IsOutput(r[i]) /\ r[i].image /\ ~(seen.valid /\ r[i].id = seen.id)
<1>2. s = [i \in 1..Len(r) |-> IF old(i) THEN SanitizeImages(r[i]) ELSE r[i]]
  BY DEF RetainCurrentImage
<1>3. \A i \in 1..Len(r) : r[i] \in Item
  OBVIOUS
<1>4. \A i \in 1..Len(r) : s[i] = IF old(i) THEN SanitizeImages(r[i]) ELSE r[i]
  BY <1>2
<1>5. \A i \in 1..Len(r) : s[i] \in Item
  BY <1>1, <1>3, <1>4
<1>6. s \in Seq(Item) /\ Len(s) = Len(r)
  BY <1>1, <1>2, <1>3
<1>7. ASSUME NEW i \in 1..Len(r)
      PROVE  /\ s[i].type = r[i].type
             /\ s[i].id = r[i].id
             /\ s[i].image <=> /\ r[i].image
                               /\ IsOutput(r[i]) => seen.valid /\ r[i].id = seen.id
  <2>1. CASE old(i)
    <3>1. s[i] = SanitizeImages(r[i])
      BY <1>4, <2>1
    <3> QED BY <1>1, <1>3, <2>1, <3>1
  <2>2. CASE ~old(i)
    <3>1. s[i] = r[i]
      BY <1>4, <2>2
    <3> QED BY <2>2, <3>1
  <2> QED BY <2>1, <2>2
<1> QED
  BY <1>6, <1>7

LEMMA WindowType ==
  ASSUME NEW t \in Seq(Item), WellFormed(t)
  PROVE  Window(t) \in Seq(Item)
<1>1. PICK h \in 0..Len(t) : \E a \in h + 1..Len(t) + 1 : Window(t) = Cut(t, h, a)
  BY WindowIsCut
<1> QED
  BY <1>1, CutFacts

-----------------------------------------------------------------------------
(* The invariant. *)

LEMMA InitEstablishes == Init => WindowInv
<1> SUFFICES ASSUME Init PROVE WindowInv
  OBVIOUS
<1> DEFINE plain == Plain("system")
<1>1. plain \in Item /\ plain.type = "system" /\ ~plain.image
  BY ItemFacts DEF Plain
<1>2. thread = <<>> \/ thread = <<plain>>
  BY DEF Init
<1> HIDE DEF plain
<1>3. /\ thread \in Seq(Item) /\ Len(thread) \in {0, 1} /\ DOMAIN thread = 1..Len(thread)
      /\ \A i \in DOMAIN thread : i = 1 /\ thread[i] = plain
  <2>1. CASE thread = <<>>
    BY <2>1
  <2>2. CASE thread = <<plain>>
    <3>1. thread \in Seq(Item) /\ Len(thread) = 1 /\ DOMAIN thread = 1..1 /\ thread[1] = plain
      BY <1>1, <2>2
    <3> QED BY <3>1
  <2> QED BY <1>2, <2>1, <2>2
<1>4. \A i \in DOMAIN thread : ~IsCall(thread[i]) /\ ~IsOutput(thread[i])
  BY <1>1, <1>3 DEF IsCall, IsOutput
<1>5. WellFormed(thread)
  BY <1>3, <1>4 DEF WellFormed, CallsUnique, OutputsUnique, CallsComplete, OutputsCalled,
                    OrderKept, PreambleFirst, Match
<1>6. ThreadInv
  BY <1>1, <1>3, <1>4, <1>5 DEF ThreadInv, ImagesOfTurn, CallsAnsweredNext
<1>7. TypeOK
  <2>1. NoVisual \in [completed: SUBSET CallId, id: CallId \cup {NoCall}, pair: Seq(Item), valid: BOOLEAN]
    <3>1. <<>> \in Seq(Item)
      OBVIOUS
    <3> QED BY <3>1 DEF NoVisual
  <2>2. turnStart \in 0..Len(thread) /\ commands \in 0..MaxCommands
    BY <1>3, WindowAssumption DEF Init
  <2>3. <<>> \in Seq(Item)
    OBVIOUS
  <2> QED BY <1>3, <2>1, <2>2, <2>3 DEF Init, TypeOK
<1> QED
  BY <1>6, <1>7 DEF Init, WindowInv, VisualInv, ShownInv

LEMMA BeginCommandStep == WindowInv /\ BeginCommand => WindowInv'
<1> SUFFICES ASSUME WindowInv, BeginCommand PROVE WindowInv'
  OBVIOUS
<1> USE DEF WindowInv
<1> DEFINE t == thread
           u == thread'
           stored == StoredInSession(t)
           size == CHOOSE size \in LineSizes : thread' = Append(stored, Line(size))
           line == Line(size)
<1>1. t \in Seq(Item) /\ WellFormed(t)
  BY DEF TypeOK, ThreadInv
<1>2. /\ stored \in Seq(Item) /\ Len(stored) = Len(t)
      /\ \A i \in 1..Len(t) : stored[i].type = t[i].type /\ stored[i].id = t[i].id /\ ~stored[i].image
  BY <1>1, StoredFacts
<1>4. u = Append(stored, line) /\ size \in LineSizes
  BY DEF BeginCommand
<1> HIDE DEF size
<1>3. line \in Item /\ line.type = "user" /\ ~line.image
  BY <1>4 DEF Line, Plain, Item
<1> HIDE DEF stored, line
<1>5. /\ u \in Seq(Item) /\ Len(u) = Len(t) + 1
      /\ \A i \in 1..Len(t) : u[i] = stored[i]
      /\ u[Len(t) + 1] = line
  BY <1>1, <1>2, <1>3, <1>4
<1> HIDE DEF t, u
<1>6. /\ WellFormed(u)
      /\ (\A i \in 2..Len(u) : ~(IsCall(u[i - 1]) /\ IsCall(u[i])))
           => \A i \in 2..Len(t) : ~(IsCall(t[i - 1]) /\ IsCall(t[i]))
      /\ CallsAnsweredNext(t) => CallsAnsweredNext(u)
  BY <1>1, <1>2, <1>3, <1>5, PlainAppended
<1>7. \A i \in DOMAIN u : ~u[i].image
  BY <1>1, <1>2, <1>3, <1>5
<1>8. ThreadInv'
  BY <1>6, <1>7 DEF ThreadInv, ImagesOfTurn, NoAdjacentCalls, t, u
<1>9. TypeOK'
  <2>1. turnStart' \in 0..Len(thread')
    BY <1>1, <1>5 DEF BeginCommand, t, u
  <2>2. commands' \in 0..MaxCommands
    BY WindowAssumption DEF BeginCommand, TypeOK
  <2>3. visual' \in [completed: SUBSET CallId, id: CallId \cup {NoCall}, pair: Seq(Item), valid: BOOLEAN]
    <3>1. <<>> \in Seq(Item)
      OBVIOUS
    <3> QED BY <3>1 DEF BeginCommand, NoVisual
  <2> QED BY <1>5, <2>1, <2>2, <2>3 DEF BeginCommand, TypeOK, u
<1>10. VisualInv'
  <2>1. Describes(visual', thread', 0)
    BY DEF BeginCommand, NoVisual, Describes
  <2>2. 0 \in 0..Len(thread')
    BY <1>1, <1>5 DEF u
  <2> QED BY <2>1, <2>2 DEF VisualInv, BeginCommand
<1>11. ShownInv'
  BY DEF ShownInv, BeginCommand
<1> QED
  BY <1>8, <1>9, <1>10, <1>11

LEMMA FilterStep == WindowInv /\ FilterModelInput => WindowInv'
<1> SUFFICES ASSUME WindowInv, FilterModelInput PROVE WindowInv'
  OBVIOUS
<1> USE DEF WindowInv
<1>1. thread \in Seq(Item) /\ WellFormed(thread) /\ visual \in VisualStates
  BY DEF TypeOK, ThreadInv, VisualStates
<1>2. PICK m \in 0..Len(thread) : Describes(visual, thread, m)
  BY DEF VisualInv, FilterModelInput
<1>3. visual' \in VisualStates /\ Describes(visual', thread, Len(thread))
  BY <1>1, <1>2, UpdateDescribes DEF FilterModelInput
<1>4. shown' = RetainCurrentImage(visual', RestoreCurrentImage(visual', Window(thread)))
  BY DEF FilterModelInput
<1>5. shown' \in Seq(Item)
  <2>1. Window(thread) \in Seq(Item)
    BY <1>1, WindowType
  <2>2. RestoreCurrentImage(visual', Window(thread)) \in Seq(Item)
    BY <1>3, <2>1, RestoreFacts
  <2> QED BY <1>4, <2>2, RetainFacts
<1>6. TypeOK'
  BY <1>3, <1>5 DEF TypeOK, FilterModelInput, VisualStates
<1>7. ThreadInv'
  BY DEF ThreadInv, FilterModelInput, NoAdjacentCalls
<1>8. VisualInv'
  BY <1>3 DEF VisualInv, FilterModelInput
<1>9. ShownInv'
  <2>1. (Window(thread))' = Window(thread)
    BY DEF FilterModelInput, Window
  <2> QED BY <1>4, <2>1 DEF ShownInv
<1> QED
  BY <1>6, <1>7, <1>8, <1>9

LEMMA ToolsStep ==
  ASSUME WindowInv, NEW ids \in Batches, NEW effects \in [DOMAIN ids -> Effect],
         NEW opening \in Openings, ModelCallsTools(ids, effects, opening)
  PROVE  WindowInv'
<1> USE DEF WindowInv
<1> DEFINE t == thread
           u == thread'
<1>1. t \in Seq(Item) /\ WellFormed(t) /\ visual \in VisualStates
  BY DEF TypeOK, ThreadInv, VisualStates
<1>2. PICK n \in 1..MaxBatch : ids \in [1..n -> CallId \ CallsIn(t)]
  BY DEF Batches, Unused
<1>3. n \in Nat \ {0} /\ IsInjective(ids)
  BY WindowAssumption DEF Batches
<1>4. effects \in [1..n -> Effect]
  BY <1>2
<1>5. opening \in {<<>>, <<Plain("message")>>, <<Plain("compaction")>>}
  BY DEF Openings
<1>6. u = Extended(t, ids, effects, opening)
  BY DEF ModelCallsTools, Extended
<1> HIDE DEF t, u
<1>7. /\ u \in Seq(Item)
      /\ Len(t) <= Len(u)
      /\ \A i \in 1..Len(t) : u[i] = t[i]
      /\ \A i \in Len(t) + 1..Len(u) : u[i].image => IsOutput(u[i])
      /\ WellFormed(u)
      /\ (\A i \in 2..Len(u) : ~(IsCall(u[i - 1]) /\ IsCall(u[i]))) /\ CallsAnsweredNext(t)
           => CallsAnsweredNext(u)
  <2>1. Grown(t, u)
    BY <1>1, <1>2, <1>3, <1>4, <1>5, <1>6, ExtendedThread
  <2> QED BY <2>1 DEF Grown
<1>8. ImagesOfTurn(u, turnStart)
  <2> SUFFICES ASSUME NEW i \in DOMAIN u, u[i].image PROVE IsOutput(u[i]) /\ i > turnStart
    BY DEF ImagesOfTurn
  <2>1. turnStart \in Nat /\ turnStart <= Len(t) /\ Len(t) \in Nat
    BY <1>1 DEF TypeOK, t
  <2>2. CASE i \in 1..Len(t)
    <3>1. i \in DOMAIN t /\ t[i].image /\ u[i] = t[i]
      BY <1>1, <1>7, <2>2
    <3> QED BY <3>1 DEF ThreadInv, ImagesOfTurn, t
  <2>3. CASE ~(i \in 1..Len(t))
    <3>1. i \in Len(t) + 1..Len(u)
      BY <1>7, <2>1, <2>3
    <3> QED BY <1>7, <2>1, <3>1
  <2> QED BY <2>2, <2>3
<1>9. (\A i \in 2..Len(u) : ~(IsCall(u[i - 1]) /\ IsCall(u[i])))
        => \A i \in 2..Len(t) : ~(IsCall(t[i - 1]) /\ IsCall(t[i]))
  <2>1. \A i \in 2..Len(t) : i \in 2..Len(u) /\ i \in 1..Len(t) /\ i - 1 \in 1..Len(t)
    BY <1>1, <1>7
  <2> QED BY <1>7, <2>1
<1>10. ThreadInv'
  <2>1. turnStart' = turnStart
    BY DEF ModelCallsTools
  <2> QED BY <1>7, <1>8, <1>9, <2>1 DEF ThreadInv, NoAdjacentCalls, t, u
<1>11. TypeOK'
  <2>1. turnStart' \in 0..Len(thread')
    BY <1>1, <1>7 DEF TypeOK, ModelCallsTools, t, u
  <2> QED BY <1>7, <2>1 DEF TypeOK, ModelCallsTools, u
<1>12. VisualInv'
  <2>1. Describes(visual, t, Len(t))
    BY DEF VisualInv, ModelCallsTools, t
  <2>2. Describes(visual, u, Len(t))
    BY <1>1, <1>7, <2>1, DescribesLonger
  <2>3. Len(t) \in 0..Len(u)
    BY <1>1, <1>7
  <2> QED BY <2>2, <2>3 DEF VisualInv, ModelCallsTools, u
<1>13. ShownInv'
  BY DEF ShownInv, ModelCallsTools
<1> QED
  BY <1>10, <1>11, <1>12, <1>13

LEMMA AnswerStep == WindowInv /\ ModelAnswers => WindowInv'
<1> SUFFICES ASSUME WindowInv, ModelAnswers PROVE WindowInv'
  OBVIOUS
<1> USE DEF WindowInv
<1> DEFINE t == thread
           u == thread'
           answer == Plain("message")
<1>1. t \in Seq(Item) /\ WellFormed(t)
  BY DEF TypeOK, ThreadInv
<1>2. answer \in Item /\ answer.type = "message" /\ ~answer.image
  BY ItemFacts DEF Plain
<1>3. u = Append(t, answer)
  BY DEF ModelAnswers
<1> HIDE DEF answer
<1>4. u \in Seq(Item) /\ Len(u) = Len(t) + 1 /\ (\A i \in 1..Len(t) : u[i] = t[i]) /\ u[Len(t) + 1] = answer
  BY <1>1, <1>2, <1>3
<1> HIDE DEF t, u
<1>5. /\ WellFormed(u)
      /\ (\A i \in 2..Len(u) : ~(IsCall(u[i - 1]) /\ IsCall(u[i])))
           => \A i \in 2..Len(t) : ~(IsCall(t[i - 1]) /\ IsCall(t[i]))
      /\ CallsAnsweredNext(t) => CallsAnsweredNext(u)
  BY <1>1, <1>2, <1>4, PlainAppended
<1>6. ImagesOfTurn(u, turnStart)
  <2>1. \A i \in DOMAIN u : i \in DOMAIN t \/ i = Len(t) + 1
    BY <1>1, <1>4
  <2>2. ImagesOfTurn(t, turnStart) /\ \A i \in DOMAIN t : i \in 1..Len(t)
    BY <1>1 DEF ThreadInv, t
  <2> QED BY <1>2, <1>4, <2>1, <2>2 DEF ImagesOfTurn
<1>7. ThreadInv'
  <2>1. turnStart' = turnStart
    BY DEF ModelAnswers
  <2> QED BY <1>5, <1>6, <2>1 DEF ThreadInv, NoAdjacentCalls, t, u
<1>8. TypeOK'
  <2>1. turnStart' \in 0..Len(thread')
    BY <1>1, <1>4 DEF TypeOK, ModelAnswers, t, u
  <2> QED BY <1>4, <2>1 DEF TypeOK, ModelAnswers, u
<1> QED
  BY <1>7, <1>8 DEF VisualInv, ShownInv, ModelAnswers

LEMMA WindowStep == WindowInv /\ [Next]_vars => WindowInv'
<1> SUFFICES ASSUME WindowInv, [Next]_vars PROVE WindowInv'
  OBVIOUS
<1>1. ASSUME TurnFails PROVE WindowInv'
  BY <1>1 DEF WindowInv, TypeOK, ThreadInv, VisualInv, ShownInv, NoAdjacentCalls, TurnFails
<1>2. CASE UNCHANGED vars
  <2>1. Window(thread)' = Window(thread)
    BY <1>2 DEF vars, Window
  <2> QED BY <1>2, <2>1 DEF vars, WindowInv, TypeOK, ThreadInv, VisualInv, ShownInv, NoAdjacentCalls
<1> QED
  BY <1>1, <1>2, BeginCommandStep, FilterStep, ToolsStep, AnswerStep DEF Next

\* In every run of the filter: the types, a thread such as the SDK makes it, a
\* visual state that describes the calls it has observed, and what is shown cut
\* from the thread as it is now.
THEOREM WindowInvariant == Spec => []WindowInv
BY InitEstablishes, WindowStep, PTL DEF Spec

-----------------------------------------------------------------------------
(* The current frame. *)

\* The last frame in the order of the calls is the last one in the order of the
\* outputs, and what follows its call is what follows its output.
LEMMA LastFrameByOutput ==
  ASSUME TypeOK, ThreadInv, NEW k \in DOMAIN thread, NEW j \in DOMAIN thread, Match(thread, k, j)
  PROVE  LastFrame(thread, k, Len(thread)) <=>
           /\ thread[j].image
           /\ \A q \in TurnOutputs : q > j => ~thread[q].image /\ ~Moved(q)
<1> DEFINE t == thread
           l == Len(thread)
<1>1. t \in Seq(Item) /\ WellFormed(t) /\ l \in Nat /\ DOMAIN t = 1..l /\ turnStart \in 0..l
  BY DEF TypeOK, ThreadInv
<1>2. /\ OutputOf(t, t[k].id) = t[j] /\ IsCall(t[k]) /\ IsOutput(t[j]) /\ t[k].id = t[j].id
  BY <1>1, OutputOfFacts DEF WellFormed, Match
<1> HIDE DEF l
<1>3. ASSUME LastFrame(t, k, l), NEW q \in TurnOutputs, q > j PROVE ~t[q].image /\ ~Moved(q)
  <2>1. q \in DOMAIN t /\ IsOutput(t[q])
    BY <1>1, <1>3 DEF TurnOutputs, l
  <2>2. PICK p \in DOMAIN t : Match(t, p, q)
    BY <1>1, <2>1 DEF WellFormed, OutputsCalled
  <2>3. p # k
    BY <1>1, <1>2, <1>3, <2>1, <2>2 DEF Match, WellFormed, OutputsUnique
  <2>4. ~(p < k)
    <3>1. p < k => q < j
      BY <1>1, <2>1, <2>2 DEF WellFormed, OrderKept
    <3> QED BY <1>1, <1>3, <2>1, <3>1
  <2>5. p \in k + 1..l
    BY <1>1, <2>2, <2>3, <2>4
  <2>6. OutputOf(t, t[p].id) = t[q] /\ IsCall(t[p])
    BY <1>1, <2>1, <2>2, OutputOfFacts DEF WellFormed, Match
  <2>7. ~t[q].image /\ ~t[p].moves
    BY <1>3, <2>5, <2>6 DEF LastFrame
  <2>8. \A i \in DOMAIN t : IsCall(t[i]) /\ t[i].id = t[q].id => i = p
    BY <1>1, <2>2 DEF WellFormed, CallsUnique, Match
  <2> QED BY <2>7, <2>8 DEF Moved
<1>4. ASSUME t[j].image, \A q \in TurnOutputs : q > j => ~t[q].image /\ ~Moved(q)
      PROVE  LastFrame(t, k, l)
  <2> SUFFICES ASSUME NEW p \in k + 1..l, IsCall(t[p])
               PROVE  ~OutputOf(t, t[p].id).image /\ ~t[p].moves
    BY <1>2, <1>4 DEF LastFrame
  <2>1. p \in DOMAIN t /\ k < p
    BY <1>1
  <2>2. PICK q \in DOMAIN t : Match(t, p, q) /\ OutputOf(t, t[p].id) = t[q]
    BY <1>1, <2>1, CallHasOutput
  <2>3. j < q
    BY <1>1, <2>1, <2>2 DEF WellFormed, OrderKept
  <2>4. j > turnStart
    BY <1>4 DEF ThreadInv, ImagesOfTurn
  <2>5. q \in TurnOutputs /\ q > j
    <3>1. q \in turnStart + 1..l
      BY <1>1, <2>2, <2>3, <2>4
    <3> QED BY <1>1, <2>2, <2>3, <3>1 DEF TurnOutputs, Match, l
  <2>6. ~t[q].image /\ ~Moved(q)
    BY <1>4, <2>5
  <2>7. ~t[p].moves
    BY <2>1, <2>2, <2>6 DEF Moved, Match
  <2> QED BY <2>2, <2>6, <2>7
<1>5. LastFrame(t, k, l) => t[j].image
  BY <1>2 DEF LastFrame
<1> QED
  BY <1>3, <1>4, <1>5 DEF l

\* What the visual state takes for the current frame is the current frame.
LEMMA FramesAreVisual ==
  ASSUME WindowInv, phase = "response"
  PROVE  CurrentFrames = IF visual.valid THEN {visual.id} ELSE {}
<1> USE DEF WindowInv
<1> DEFINE t == thread
           l == Len(thread)
           Last(i) == t[i].image /\ \A q \in TurnOutputs : q > i => ~t[q].image /\ ~Moved(q)
<1>1. t \in Seq(Item) /\ WellFormed(t) /\ l \in Nat /\ DOMAIN t = 1..l /\ turnStart \in 0..l
  BY DEF TypeOK, ThreadInv
<1>2. Describes(visual, t, l) /\ visual.valid \in BOOLEAN
  BY DEF VisualInv, TypeOK
<1>3. CurrentFrames = {t[i].id : i \in {q \in TurnOutputs : Last(q)}}
  BY DEF CurrentFrames
<1>4. \A k, j \in DOMAIN t : Match(t, k, j) => (LastFrame(t, k, l) <=> Last(j))
  BY LastFrameByOutput
<1> HIDE DEF Last
<1>5. \A i \in TurnOutputs : i \in DOMAIN t /\ IsOutput(t[i])
  BY <1>1 DEF TurnOutputs
<1> HIDE DEF t, l
<1>6. ASSUME NEW i \in TurnOutputs, Last(i)
      PROVE  \E k \in DOMAIN t : LastFrame(t, k, l) /\ t[k].id = t[i].id
  <2>1. PICK k \in DOMAIN t : Match(t, k, i)
    BY <1>1, <1>5, <1>6 DEF WellFormed, OutputsCalled
  <2> QED BY <1>4, <1>5, <1>6, <2>1 DEF Match
<1>7. CASE ~visual.valid
  <2>1. \A k \in DOMAIN t : ~LastFrame(t, k, l)
    BY <1>1, <1>2, <1>7 DEF Describes
  <2>2. {q \in TurnOutputs : Last(q)} = {}
    BY <1>6, <2>1
  <2> QED BY <1>3, <1>7, <2>2
<1>8. CASE visual.valid
  <2>1. PICK k \in DOMAIN t : LastFrame(t, k, l) /\ visual.id = t[k].id
    BY <1>1, <1>2, <1>8 DEF Describes
  <2>2. PICK j \in DOMAIN t : Match(t, k, j)
    BY <1>1, <2>1 DEF WellFormed, CallsComplete, LastFrame
  <2>3. Last(j)
    BY <1>4, <2>1, <2>2
  <2>4. j \in TurnOutputs
    <3>1. t[j].image /\ IsOutput(t[j])
      BY <2>2, <2>3 DEF Last, Match, t
    <3>2. j > turnStart
      BY <3>1 DEF ThreadInv, ImagesOfTurn, t
    <3>3. j \in turnStart + 1..l
      BY <1>1, <3>2
    <3> QED BY <3>1, <3>3 DEF TurnOutputs, t, l
  <2>5. visual.id \in CurrentFrames
    BY <1>3, <2>1, <2>2, <2>3, <2>4 DEF Match
  <2>6. ASSUME NEW id \in CurrentFrames PROVE id = visual.id
    <3>1. PICK i \in TurnOutputs : Last(i) /\ id = t[i].id
      BY <1>3
    <3>2. PICK p \in DOMAIN t : LastFrame(t, p, l) /\ t[p].id = id
      BY <1>6, <3>1
    <3>3. ~(p < k) /\ ~(k < p)
      <4>1. p < k => k \in p + 1..l
        BY <1>1
      <4>2. k < p => p \in k + 1..l
        BY <1>1
      <4> QED BY <2>1, <3>2, <4>1, <4>2 DEF LastFrame
    <3> QED BY <1>1, <2>1, <3>2, <3>3
  <2> QED BY <1>8, <2>5, <2>6
<1> QED
  BY <1>2, <1>7, <1>8

\* The window is made of items of the thread, each of them once.
LEMMA WindowItems ==
  ASSUME NEW t \in Seq(Item), WellFormed(t)
  PROVE  /\ \A i \in DOMAIN Window(t) : \E p \in DOMAIN t : Window(t)[i] = t[p]
         /\ OutputsUnique(Window(t))
<1>1. PICK h \in 0..Len(t) : \E a \in h + 1..Len(t) + 1 : Window(t) = Cut(t, h, a)
  BY WindowIsCut
<1>2. PICK a \in h + 1..Len(t) + 1 : Window(t) = Cut(t, h, a)
  BY <1>1
<1> DEFINE w == Window(t)
           l == Len(t)
           c == Cut(t, h, a)
<1>3. /\ c \in Seq(Item)
      /\ Len(c) = h + (l + 1 - a)
      /\ \A i \in DOMAIN c : Place(h, a, i) \in 1..h \cup a..l /\ c[i] = t[Place(h, a, i)]
  BY CutFacts
<1>4. w = c /\ l \in Nat /\ h \in 0..l /\ a \in h + 1..l + 1 /\ DOMAIN t = 1..l
  BY <1>2
<1> HIDE DEF w, l, c
<1>5. \A i, j \in 1..h + (l + 1 - a) : i < j => Place(h, a, i) < Place(h, a, j)
  BY <1>4, PlaceFacts
<1>6. DOMAIN w = 1..h + (l + 1 - a) /\ 1..h \cup a..l \subseteq DOMAIN t
  BY <1>3, <1>4
<1>7. \A i \in DOMAIN w : Place(h, a, i) \in DOMAIN t /\ w[i] = t[Place(h, a, i)]
  BY <1>3, <1>4, <1>6
<1>8. ASSUME NEW i \in DOMAIN w, NEW j \in DOMAIN w, Place(h, a, i) = Place(h, a, j) PROVE i = j
  <2>1. /\ i \in Int /\ j \in Int /\ Place(h, a, i) \in Int /\ Place(h, a, j) \in Int
        /\ i < j => Place(h, a, i) < Place(h, a, j)
        /\ j < i => Place(h, a, j) < Place(h, a, i)
    BY <1>4, <1>5, <1>6, <1>7
  <2> QED BY <1>8, <2>1
<1>9. OutputsUnique(w)
  BY <1>7, <1>8 DEF WellFormed, OutputsUnique
<1> QED
  BY <1>7, <1>9 DEF w

\* The frame that is put back is that of a call of the thread.
LEMMA PairOfThread ==
  ASSUME WindowInv, phase = "response", visual.valid
  PROVE  \E k, j \in DOMAIN thread :
           /\ Match(thread, k, j)
           /\ visual.id = thread[k].id
           /\ visual.pair = <<thread[k], thread[j]>>
           /\ thread[j].image
<1> USE DEF WindowInv
<1>1. thread \in Seq(Item) /\ WellFormed(thread) /\ DOMAIN thread = 1..Len(thread)
  BY DEF TypeOK, ThreadInv
<1>2. PICK k \in DOMAIN thread : /\ LastFrame(thread, k, Len(thread))
                                 /\ visual.id = thread[k].id
                                 /\ visual.pair = <<thread[k], OutputOf(thread, thread[k].id)>>
  BY <1>1 DEF VisualInv, Describes
<1>3. PICK j \in DOMAIN thread : Match(thread, k, j) /\ OutputOf(thread, thread[k].id) = thread[j]
  BY <1>1, <1>2, CallHasOutput DEF LastFrame
<1> QED
  BY <1>2, <1>3 DEF LastFrame

LEMMA PutBackFacts ==
  ASSUME NEW w \in Seq(Item), NEW x \in Item, NEW y \in Item,
         NEW r, r = w \o <<x, y>>
  PROVE  /\ r \in Seq(Item) /\ Len(r) = Len(w) + 2 /\ DOMAIN r = 1..Len(w) + 2
         /\ \A i \in DOMAIN w : i \in DOMAIN r /\ r[i] = w[i]
         /\ r[Len(w) + 1] = x /\ r[Len(w) + 2] = y
<1> DEFINE p == <<x, y>>
<1>1. p \in Seq(Item) /\ Len(p) = 2 /\ p[1] = x /\ p[2] = y
  OBVIOUS
<1>2. r = w \o p
  OBVIOUS
<1> HIDE DEF p
<1>3. /\ r \in Seq(Item) /\ Len(r) = Len(w) + 2
      /\ \A i \in 1..Len(w) + 2 : r[i] = IF i <= Len(w) THEN w[i] ELSE p[i - Len(w)]
  <2>1. /\ w \o p \in Seq(Item) /\ Len(w \o p) = Len(w) + Len(p)
        /\ \A i \in 1..Len(w) + Len(p) : (w \o p)[i] = IF i <= Len(w) THEN w[i] ELSE p[i - Len(w)]
    BY <1>1, ConcatProperties
  <2> QED BY <1>1, <1>2, <2>1
<1> DEFINE l == Len(w)
<1>4. l \in Nat /\ DOMAIN w = 1..l /\ DOMAIN r = 1..l + 2
  BY <1>3
<1> HIDE DEF l
<1>5. \A i \in 1..l : i \in 1..l + 2 /\ i <= l
  BY <1>4
<1>6. /\ l + 1 \in 1..l + 2 /\ ~(l + 1 <= l) /\ (l + 1) - l = 1
      /\ l + 2 \in 1..l + 2 /\ ~(l + 2 <= l) /\ (l + 2) - l = 2
  BY <1>4
<1> QED
  BY <1>1, <1>3, <1>4, <1>5, <1>6 DEF l

\* One output has the id of the current frame, and has the frame.
LEMMA RestoredFrame ==
  ASSUME WindowInv, phase = "response",
         NEW r, r = RestoreCurrentImage(visual, Window(thread))
  PROVE  /\ r \in Seq(Item)
         /\ \A i \in DOMAIN r : r[i].image => IsOutput(r[i])
         /\ visual.valid => \E i \in DOMAIN r :
              /\ {q \in DOMAIN r : IsOutput(r[q]) /\ r[q].id = visual.id} = {i}
              /\ r[i].image
<1> USE DEF WindowInv
<1> DEFINE w == Window(thread)
<1>1. thread \in Seq(Item) /\ WellFormed(thread) /\ visual \in VisualStates
  BY DEF TypeOK, ThreadInv, VisualStates
<1>2. /\ w \in Seq(Item) /\ OutputsUnique(w)
      /\ \A i \in DOMAIN w : \E p \in DOMAIN thread : w[i] = thread[p]
  BY <1>1, WindowItems, WindowType
<1>3. \A i \in DOMAIN thread : thread[i].image => IsOutput(thread[i])
  BY DEF ThreadInv, ImagesOfTurn
<1>4. r \in Seq(Item)
  BY <1>1, <1>2, RestoreFacts
<1>5. r = IF visual.valid /\ visual.id \notin OutputsIn(w) THEN w \o visual.pair ELSE w
  BY DEF RestoreCurrentImage
<1> HIDE DEF w
<1>6. \A i \in DOMAIN w : w[i].image => IsOutput(w[i])
  BY <1>2, <1>3
<1>7. CASE ~visual.valid
  BY <1>4, <1>5, <1>6, <1>7
<1>8. CASE visual.valid
  <2>1. PICK k \in DOMAIN thread, j \in DOMAIN thread :
          /\ Match(thread, k, j)
          /\ visual.id = thread[k].id
          /\ visual.pair = <<thread[k], thread[j]>>
          /\ thread[j].image
    BY <1>8, PairOfThread
  <2>2. IsCall(thread[k]) /\ IsOutput(thread[j]) /\ thread[j].id = visual.id
    BY <2>1 DEF Match
  <2>3. CASE visual.id \in OutputsIn(w)
    <3>1. r = w
      BY <1>5, <2>3
    <3>2. PICK i \in DOMAIN w : IsOutput(w[i]) /\ w[i].id = visual.id
      BY <2>3 DEF OutputsIn
    <3>3. {q \in DOMAIN w : IsOutput(w[q]) /\ w[q].id = visual.id} = {i}
      BY <1>2, <3>2 DEF OutputsUnique
    <3>4. PICK p \in DOMAIN thread : w[i] = thread[p]
      BY <1>2
    <3>5. p = j
      BY <1>1, <2>2, <3>2, <3>4 DEF WellFormed, OutputsUnique
    <3> QED BY <1>4, <1>6, <2>1, <3>1, <3>3, <3>4, <3>5
  <2>4. CASE visual.id \notin OutputsIn(w)
    <3> DEFINE x == thread[k]
               y == thread[j]
               l == Len(w)
    <3>1. x \in Item /\ y \in Item /\ ~x.image
      BY <1>1, <1>3, <2>2 DEF IsCall, IsOutput
    <3>2. r = w \o <<x, y>>
      BY <1>5, <1>8, <2>1, <2>4
    <3>3. IsCall(x) /\ IsOutput(y) /\ y.id = visual.id /\ y.image
      BY <2>1, <2>2
    <3> HIDE DEF x, y
    <3>4. /\ r \in Seq(Item) /\ DOMAIN r = 1..Len(w) + 2
          /\ \A i \in DOMAIN w : i \in DOMAIN r /\ r[i] = w[i]
          /\ r[Len(w) + 1] = x /\ r[Len(w) + 2] = y
      BY <1>2, <3>1, <3>2, PutBackFacts
    <3>5. l \in Nat /\ DOMAIN w = 1..l
      BY <1>2
    <3> HIDE DEF l
    <3>6. \A i \in DOMAIN r : i \in DOMAIN w \/ i = l + 1 \/ i = l + 2
      BY <3>4, <3>5 DEF l
    <3>7. l + 2 \in DOMAIN r
      BY <3>4, <3>5 DEF l
    <3>8. \A q \in DOMAIN w : ~(IsOutput(w[q]) /\ w[q].id = visual.id)
      BY <2>4 DEF OutputsIn
    <3>9. ~IsOutput(x)
      BY <3>3 DEF IsCall, IsOutput
    <3>10. {q \in DOMAIN r : IsOutput(r[q]) /\ r[q].id = visual.id} = {l + 2}
      BY <3>3, <3>4, <3>6, <3>7, <3>8, <3>9 DEF l
    <3>11. \A i \in DOMAIN r : r[i].image => IsOutput(r[i])
      BY <1>6, <3>1, <3>3, <3>4, <3>6 DEF l
    <3> QED BY <1>4, <3>3, <3>4, <3>7, <3>10, <3>11 DEF l
  <2> QED BY <2>3, <2>4
<1> QED
  BY <1>7, <1>8

LEMMA ShownFrame ==
  ASSUME WindowInv, phase = "response"
  PROVE  /\ ~visual.valid => ImagesShown = {}
         /\ visual.valid => \E i \in DOMAIN shown : ImagesShown = {i} /\ shown[i].id = visual.id
<1> DEFINE r == RestoreCurrentImage(visual, Window(thread))
<1>1. /\ r \in Seq(Item)
      /\ \A i \in DOMAIN r : r[i].image => IsOutput(r[i])
      /\ visual.valid => \E i \in DOMAIN r :
           /\ {q \in DOMAIN r : IsOutput(r[q]) /\ r[q].id = visual.id} = {i}
           /\ r[i].image
  BY RestoredFrame
<1>2. shown = RetainCurrentImage(visual, r)
  BY DEF WindowInv, ShownInv
<1> HIDE DEF r
<1>3. /\ shown \in Seq(Item) /\ Len(shown) = Len(r)
      /\ \A i \in 1..Len(r) :
           /\ shown[i].id = r[i].id
           /\ shown[i].image <=> /\ r[i].image
                                 /\ IsOutput(r[i]) => visual.valid /\ r[i].id = visual.id
  BY <1>1, <1>2, RetainFacts
<1>4. DOMAIN shown = 1..Len(r) /\ DOMAIN r = 1..Len(r)
  BY <1>1, <1>3
<1>5. ImagesShown = {i \in DOMAIN r : r[i].image /\ visual.valid /\ r[i].id = visual.id}
  BY <1>1, <1>3, <1>4 DEF ImagesShown
<1>6. CASE visual.valid
  <2>1. PICK i \in DOMAIN r : /\ {q \in DOMAIN r : IsOutput(r[q]) /\ r[q].id = visual.id} = {i}
                              /\ r[i].image
    BY <1>1, <1>6
  <2>2. ImagesShown = {i} /\ r[i].id = visual.id
    BY <1>1, <1>5, <1>6, <2>1
  <2> QED BY <1>3, <1>4, <1>6, <2>2
<1> QED
  BY <1>5, <1>6

-----------------------------------------------------------------------------
(* The properties of the runs. *)

\* At most one frame is shown, and it is what the robot sees now.
THEOREM ShownImageCurrent == Spec => []ImageIsCurrent
<1>1. WindowInv => ImageIsCurrent
  <2> SUFFICES ASSUME WindowInv, phase = "response"
               PROVE  /\ Cardinality(ImagesShown) <= 1
                      /\ \A i \in ImagesShown : shown[i].id \in CurrentFrames
    BY DEF ImageIsCurrent
  <2>1. CASE ~visual.valid
    <3>1. ImagesShown = {}
      BY <2>1, ShownFrame
    <3> QED BY <3>1, FS_EmptySet
  <2>2. CASE visual.valid
    <3>1. PICK i \in DOMAIN shown : ImagesShown = {i} /\ shown[i].id = visual.id
      BY <2>2, ShownFrame
    <3>2. Cardinality(ImagesShown) = 1
      BY <3>1, FS_Singleton
    <3>3. CurrentFrames = {visual.id}
      BY <2>2, FramesAreVisual
    <3> QED BY <3>1, <3>2, <3>3
  <2> QED BY <2>1, <2>2
<1> QED
  BY <1>1, WindowInvariant, PTL

\* The current frame is shown, whatever the cut has lost.
THEOREM CurrentImageShown == Spec => []CurrentFrameShown
<1>1. WindowInv => CurrentFrameShown
  <2> SUFFICES ASSUME WindowInv, phase = "response", NEW id \in CurrentFrames
               PROVE  \E i \in ImagesShown : shown[i].id = id
    BY DEF CurrentFrameShown
  <2>1. visual.valid /\ id = visual.id
    BY FramesAreVisual
  <2>2. PICK i \in DOMAIN shown : ImagesShown = {i} /\ shown[i].id = visual.id
    BY <2>1, ShownFrame
  <2> QED BY <2>1, <2>2
<1> QED
  BY <1>1, WindowInvariant, PTL

\* The cut keeps the budget, but for one item that exceeds it alone.
THEOREM WindowFitsBudget == Spec => []BudgetKept
<1>1. WindowInv => BudgetKept
  <2> SUFFICES ASSUME WindowInv, compactLocally, MaxTokens > 0
               PROVE  LET body == From(Window(thread), PreambleEnd(Window(thread)) + 1)
                      IN  Tokens(body) <= MaxTokens \/ Len(body) = 1
    BY DEF BudgetKept
  <2>1. thread \in Seq(Item) /\ WellFormed(thread)
    BY DEF WindowInv, TypeOK, ThreadInv
  <2> QED BY <2>1, WindowWithinBudget
<1> QED
  BY <1>1, WindowInvariant, PTL

LEMMA SamePaired ==
  ASSUME NEW r \in Seq(Item), NEW s \in Seq(Item), Len(s) = Len(r), Paired(r),
         \A i \in 1..Len(r) : s[i].type = r[i].type /\ s[i].id = r[i].id
  PROVE  Paired(s)
<1>1. DOMAIN s = DOMAIN r /\ DOMAIN r = 1..Len(r)
  OBVIOUS
<1>2. \A i \in DOMAIN r : /\ IsCall(s[i]) <=> IsCall(r[i])
                          /\ IsOutput(s[i]) <=> IsOutput(r[i])
                          /\ s[i].id = r[i].id
  BY <1>1 DEF IsCall, IsOutput
<1>3. CallsIn(s) = CallsIn(r) /\ OutputsIn(s) = OutputsIn(r)
  BY <1>1, <1>2 DEF CallsIn, OutputsIn
<1>4. \A id : {k \in DOMAIN s : IsCall(s[k]) /\ s[k].id = id} = {k \in DOMAIN r : IsCall(r[k]) /\ r[k].id = id}
  BY <1>1, <1>2
<1>5. \A id : {k \in DOMAIN s : IsOutput(s[k]) /\ s[k].id = id} = {k \in DOMAIN r : IsOutput(r[k]) /\ r[k].id = id}
  BY <1>1, <1>2
<1>6. ASSUME NEW id, id \in CallsIn(s) \cup OutputsIn(s)
      PROVE  \E i, j \in DOMAIN s :
               /\ i < j
               /\ {k \in DOMAIN s : IsCall(s[k]) /\ s[k].id = id} = {i}
               /\ {k \in DOMAIN s : IsOutput(s[k]) /\ s[k].id = id} = {j}
  <2>1. PICK i \in DOMAIN r, j \in DOMAIN r :
          /\ i < j
          /\ {k \in DOMAIN r : IsCall(r[k]) /\ r[k].id = id} = {i}
          /\ {k \in DOMAIN r : IsOutput(r[k]) /\ r[k].id = id} = {j}
    BY <1>3, <1>6 DEF Paired
  <2>2. {k \in DOMAIN s : IsCall(s[k]) /\ s[k].id = id} = {i}
    BY <1>4, <2>1
  <2>3. {k \in DOMAIN s : IsOutput(s[k]) /\ s[k].id = id} = {j}
    BY <1>5, <2>1
  <2> QED BY <1>1, <2>1, <2>2, <2>3
<1> QED
  BY <1>6 DEF Paired

\* The pair that is put back is a pair, and no second one of its id.
LEMMA PutBackPaired ==
  ASSUME NEW w \in Seq(Item), Paired(w), NEW x \in Item, NEW y \in Item,
         IsCall(x), IsOutput(y), x.id = y.id, y.id \notin OutputsIn(w)
  PROVE  Paired(w \o <<x, y>>)
<1> DEFINE r == w \o <<x, y>>
           l == Len(w)
<1>1. /\ DOMAIN r = 1..l + 2
      /\ \A i \in DOMAIN w : i \in DOMAIN r /\ r[i] = w[i]
      /\ r[l + 1] = x /\ r[l + 2] = y
  BY PutBackFacts
<1>2. l \in Nat /\ DOMAIN w = 1..l
  OBVIOUS
<1> HIDE DEF r, l
<1>3. /\ l + 1 \in DOMAIN r /\ l + 2 \in DOMAIN r /\ l + 1 < l + 2
      /\ l + 1 \notin DOMAIN w /\ l + 2 \notin DOMAIN w
      /\ \A i \in DOMAIN r : i \in DOMAIN w \/ i = l + 1 \/ i = l + 2
  BY <1>1, <1>2
<1>4. ~IsOutput(x) /\ ~IsCall(y)
  BY DEF IsCall, IsOutput
<1>5. y.id \notin CallsIn(w)
  <2> SUFFICES ASSUME y.id \in CallsIn(w) PROVE FALSE
    OBVIOUS
  <2>1. PICK j \in DOMAIN w : {k \in DOMAIN w : IsOutput(w[k]) /\ w[k].id = y.id} = {j}
    BY DEF Paired
  <2> QED BY <2>1 DEF OutputsIn
<1>6. \A k \in DOMAIN w : ~((IsCall(w[k]) \/ IsOutput(w[k])) /\ w[k].id = y.id)
  BY <1>5 DEF CallsIn, OutputsIn
<1>7. ASSUME NEW id, id \in CallsIn(r) \cup OutputsIn(r)
      PROVE  \E i, j \in DOMAIN r :
               /\ i < j
               /\ {k \in DOMAIN r : IsCall(r[k]) /\ r[k].id = id} = {i}
               /\ {k \in DOMAIN r : IsOutput(r[k]) /\ r[k].id = id} = {j}
  <2>1. CASE id = y.id
    <3>1. {k \in DOMAIN r : IsCall(r[k]) /\ r[k].id = id} = {l + 1}
      BY <1>1, <1>3, <1>4, <1>6, <2>1
    <3>2. {k \in DOMAIN r : IsOutput(r[k]) /\ r[k].id = id} = {l + 2}
      BY <1>1, <1>3, <1>4, <1>6, <2>1
    <3> QED BY <1>3, <3>1, <3>2
  <2>2. CASE id # y.id
    <3>1. id \in CallsIn(w) \cup OutputsIn(w)
      BY <1>1, <1>3, <1>7, <2>2 DEF CallsIn, OutputsIn
    <3>2. PICK i \in DOMAIN w, j \in DOMAIN w :
            /\ i < j
            /\ {k \in DOMAIN w : IsCall(w[k]) /\ w[k].id = id} = {i}
            /\ {k \in DOMAIN w : IsOutput(w[k]) /\ w[k].id = id} = {j}
      BY <3>1 DEF Paired
    <3>3. {k \in DOMAIN r : IsCall(r[k]) /\ r[k].id = id} = {i}
      BY <1>1, <1>3, <2>2, <3>2
    <3>4. {k \in DOMAIN r : IsOutput(r[k]) /\ r[k].id = id} = {j}
      BY <1>1, <1>3, <2>2, <3>2
    <3> QED BY <1>1, <3>2, <3>3, <3>4
  <2> QED BY <2>1, <2>2
<1> QED
  BY <1>7 DEF Paired, r

\* Every call that is shown has its output behind it, and every output its call,
\* where the model calls one tool at a time or the server compacts.
THEOREM ShownIsPaired == Spec => []NoOrphansUnlessParallel
<1>1. WindowInv => NoOrphansUnlessParallel
  <2> SUFFICES ASSUME WindowInv, InSequence \/ ~compactLocally, phase = "response"
               PROVE  Paired(shown)
    BY DEF NoOrphansUnlessParallel, NoOrphans
  <2> USE DEF WindowInv
  <2>0. InSequence => NoAdjacentCalls
    <3> SUFFICES ASSUME InSequence, NEW i \in 2..Len(thread), IsCall(thread[i - 1]), IsCall(thread[i])
                 PROVE  FALSE
      BY DEF NoAdjacentCalls
    <3>1. Len(thread) \in Nat /\ i - 1 \in DOMAIN thread /\ i \in DOMAIN thread /\ i - 1 < i
      BY DEF TypeOK
    <3>2. \E k \in (i - 1) + 1..i - 1 : IsOutput(thread[k])
      BY <3>1 DEF InSequence
    <3> QED BY <3>2
  <2> DEFINE w == Window(thread)
             r == RestoreCurrentImage(visual, w)
  <2>1. thread \in Seq(Item) /\ WellFormed(thread) /\ visual \in VisualStates
    BY DEF TypeOK, ThreadInv, VisualStates
  <2>2. w \in Seq(Item) /\ r \in Seq(Item)
    BY <2>1, WindowType, RestoreFacts
  <2>3. Paired(w)
    <3>1. PICK h \in 0..Len(thread) : \E a \in h + 1..Len(thread) + 1 :
            /\ Window(thread) = Cut(thread, h, a)
            /\ \A i \in 1..h : thread[i].type = "system"
            /\ CallsAnsweredNext(thread) \/ ~compactLocally => Closed(thread, a)
      BY <2>1, WindowIsCut
    <3>2. PICK a \in h + 1..Len(thread) + 1 :
            /\ Window(thread) = Cut(thread, h, a)
            /\ \A i \in 1..h : thread[i].type = "system"
            /\ CallsAnsweredNext(thread) \/ ~compactLocally => Closed(thread, a)
      BY <3>1
    <3>3. Closed(thread, a)
      BY <2>0, <3>2 DEF ThreadInv
    <3> QED BY <2>1, <3>2, <3>3, ClosedPaired
  <2>4. Paired(r)
    <3>1. CASE ~(visual.valid /\ visual.id \notin OutputsIn(w))
      BY <2>3, <3>1 DEF RestoreCurrentImage
    <3>2. CASE visual.valid /\ visual.id \notin OutputsIn(w)
      <4>1. PICK k \in DOMAIN thread, j \in DOMAIN thread :
              /\ Match(thread, k, j)
              /\ visual.id = thread[k].id
              /\ visual.pair = <<thread[k], thread[j]>>
        BY <3>2, PairOfThread
      <4> DEFINE x == thread[k]
                 y == thread[j]
      <4>2. x \in Item /\ y \in Item /\ IsCall(x) /\ IsOutput(y) /\ x.id = y.id /\ y.id \notin OutputsIn(w)
        BY <2>1, <3>2, <4>1 DEF Match
      <4>3. r = w \o <<x, y>>
        BY <3>2, <4>1 DEF RestoreCurrentImage
      <4> HIDE DEF w, r, x, y
      <4> QED BY <2>2, <2>3, <4>2, <4>3, PutBackPaired
    <3> QED BY <3>1, <3>2
  <2>5. shown = RetainCurrentImage(visual, r)
    BY DEF ShownInv
  <2> HIDE DEF r
  <2>6. /\ shown \in Seq(Item) /\ Len(shown) = Len(r)
        /\ \A i \in 1..Len(r) : shown[i].type = r[i].type /\ shown[i].id = r[i].id
    BY <2>2, <2>5, RetainFacts
  <2> QED BY <2>2, <2>4, <2>6, SamePaired
<1> QED
  BY <1>1, WindowInvariant, PTL

=============================================================================
