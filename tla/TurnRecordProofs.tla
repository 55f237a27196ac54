--------------------------- MODULE TurnRecordProofs ---------------------------
(***************************************************************************)
(* For any number of tool calls, in responses of any size: the log says    *)
(* once how each call has ended, however far its stream is behind the run; *)
(* and the memory has the calls that were answered, in their order and     *)
(* without the noise.  For values of any depth: no image outlives the      *)
(* turn, and the words that came with it do.                               *)
(***************************************************************************)
EXTENDS TurnRecord, FiniteSetTheorems, FunctionTheorems, SequenceTheorems, WellFoundedInduction, TLAPS

-----------------------------------------------------------------------------
(* Depths. *)

LEMMA LeastNumber ==
  ASSUME NEW T, T \subseteq Nat, T # {}
  PROVE  \E x \in T : \A y \in T : x <= y
<1> DEFINE R == OpToRel(<, Nat)
<1>1. IsWellFoundedOn(R, Nat)
  BY NatLessThanWellFounded
<1>2. ASSUME NEW x \in Nat, NEW y \in Nat, <<y, x>> \notin R PROVE x <= y
  <2>1. ~ (y < x)
    BY <1>2 DEF OpToRel
  <2> QED BY <2>1
<1> HIDE DEF R
<1>3. PICK x \in T : \A y \in T : ~ (<<y, x>> \in R)
  BY <1>1, WFMin
<1>4. \A y \in T : x <= y
  BY <1>2, <1>3
<1> QED
  BY <1>4

\* What holds of 0, and of n when it holds of n - 1, holds of every depth.
LEMMA DepthInduction ==
  ASSUME NEW S, 0 \in S, \A n \in 1..MaxDepth : n - 1 \in S => n \in S
  PROVE  \A n \in 0..MaxDepth : n \in S
<1> SUFFICES ASSUME (0..MaxDepth) \ S # {} PROVE FALSE
  OBVIOUS
<1>1. (0..MaxDepth) \ S \subseteq Nat /\ MaxDepth \in Nat
  BY DepthAssumption
<1>2. PICK x \in (0..MaxDepth) \ S : \A y \in (0..MaxDepth) \ S : x <= y
  BY <1>1, LeastNumber
<1>3. x \in 1..MaxDepth /\ x - 1 \in 0..MaxDepth
  BY <1>1, <1>2
<1>4. x - 1 \in S
  BY <1>2, <1>3
<1> QED
  BY <1>2, <1>3, <1>4

-----------------------------------------------------------------------------
(* The functions exist. *)

LEMMA LeafKinds ==
  /\ \A v \in Leaf : v.kind \in {"null", "number", "str"}
  /\ \A v \in Leaf : v.kind = "str" => v = Str(v.parts) /\ v.parts \subseteq Part
BY DEF Leaf, Null, Number, Str

\* All of them at once, one row for each depth.
Row(values, n, below) ==
  [json |-> IF n = 0 THEN Leaf ELSE JsonOver(below.json),
   contains |-> [v \in values[n] |-> Contains(below.contains, v)],
   sanitize |-> [v \in values[n] |-> Sanitized(below.sanitize, v)],
   remove |-> [v \in values[n] |-> Removed(below.remove, v)],
   parts |-> [v \in values[n] |-> Found(below.parts, v)],
   formed |-> {v \in values[n] : IsWellFormed(below.formed, parts[n - 1], v)}]

Rows(values, rows) ==
  /\ \A n \in 1..MaxDepth : rows[n] = Row(values, n, rows[n - 1])
  /\ \A below : rows[0] = Row(values, 0, below)

\* A leaf has no parts to call a function for.
LEMMA LeafRow ==
  ASSUME NEW values, values[0] = Leaf, NEW p, NEW q
  PROVE  Row(values, 0, p) = Row(values, 0, q)
<1>1. \A v \in Leaf : v.kind \notin {"list", "dict"}
  BY LeafKinds
<1>2. ASSUME NEW v \in Leaf
      PROVE  /\ \A f, g : Contains(f, v) = Contains(g, v)
             /\ \A f, g : Sanitized(f, v) = Sanitized(g, v)
             /\ \A f, g : Removed(f, v) = Removed(g, v)
             /\ \A f, g : Found(f, v) = Found(g, v)
             /\ \A f, g : IsWellFormed(f, parts[0 - 1], v) = IsWellFormed(g, parts[0 - 1], v)
  <2>1. v.kind # "list" /\ v.kind # "dict"
    BY <1>1
  <2>2. \A f, g : Contains(f, v) = Contains(g, v)
    BY <2>1 DEF Contains
  <2>3. \A f, g : Sanitized(f, v) = Sanitized(g, v)
    BY <2>1 DEF Sanitized
  <2>4. \A f, g : Removed(f, v) = Removed(g, v)
    BY <2>1 DEF Removed
  <2>5. \A f, g : Found(f, v) = Found(g, v)
    BY <2>1 DEF Found
  <2>6. \A f, g : IsWellFormed(f, parts[0 - 1], v) = IsWellFormed(g, parts[0 - 1], v)
    BY <2>1 DEF IsWellFormed
  <2> QED BY <2>2, <2>3, <2>4, <2>5, <2>6
<1>3. [v \in Leaf |-> Contains(p.contains, v)] = [v \in Leaf |-> Contains(q.contains, v)]
  BY <1>2
<1>4. [v \in Leaf |-> Sanitized(p.sanitize, v)] = [v \in Leaf |-> Sanitized(q.sanitize, v)]
  BY <1>2
<1>5. [v \in Leaf |-> Removed(p.remove, v)] = [v \in Leaf |-> Removed(q.remove, v)]
  BY <1>2
<1>6. [v \in Leaf |-> Found(p.parts, v)] = [v \in Leaf |-> Found(q.parts, v)]
  BY <1>2
<1>7. {v \in Leaf : IsWellFormed(p.formed, parts[0 - 1], v)}
        = {v \in Leaf : IsWellFormed(q.formed, parts[0 - 1], v)}
  BY <1>2
<1> QED
  BY <1>3, <1>4, <1>5, <1>6, <1>7 DEF Row

LEMMA RowsExist ==
  ASSUME NEW values, values[0] = Leaf
  PROVE  \E rows : Rows(values, rows)
<1> DEFINE Upto(m, g) == /\ \A n \in 1..m : g[n] = Row(values, n, g[n - 1])
                         /\ \A below : g[0] = Row(values, 0, below)
           Ms == {m \in 0..MaxDepth : \E g : Upto(m, g)}
<1>1. MaxDepth \in Nat
  BY DepthAssumption
<1>2. 0 \in Ms
  <2> DEFINE g == [n \in 0..0 |-> Row(values, 0, 0)]
  <2>1. \A below : g[0] = Row(values, 0, below)
    BY LeafRow
  <2>2. Upto(0, g)
    BY <2>1
  <2>3. 0 \in 0..MaxDepth
    BY <1>1
  <2> QED BY <2>2, <2>3
<1>3. ASSUME NEW m \in 1..MaxDepth, m - 1 \in Ms PROVE m \in Ms
  <2>1. PICK g : Upto(m - 1, g)
    BY <1>3
  <2> DEFINE h == [n \in 0..m |-> IF n = m THEN Row(values, m, g[m - 1]) ELSE g[n]]
  <2>2. ASSUME NEW n \in 1..m PROVE h[n] = Row(values, n, h[n - 1])
    <3>1. n \in 0..m /\ n - 1 \in 0..m /\ n - 1 # m
      BY <1>1, <2>2
    <3>2. h[n - 1] = g[n - 1]
      BY <3>1
    <3>3. n # m => h[n] = g[n] /\ g[n] = Row(values, n, g[n - 1])
      BY <1>1, <2>1, <2>2, <3>1
    <3> QED BY <3>1, <3>2, <3>3
  <2>3. h[0] = g[0]
    BY <1>1
  <2> HIDE DEF h
  <2>4. Upto(m, h)
    BY <2>1, <2>2, <2>3
  <2> QED BY <2>4
<1> HIDE DEF Ms
<1>4. MaxDepth \in Ms
  BY <1>1, <1>2, <1>3, DepthInduction
<1> QED
  BY <1>4 DEF Ms, Rows

LEMMA JsonExists ==
  /\ Json[0] = Leaf
  /\ \A n \in 1..MaxDepth : Json[n] = JsonOver(Json[n - 1])
<1> DEFINE Good(g) == g = [n \in 0..MaxDepth |-> IF n = 0 THEN Leaf ELSE JsonOver(g[n - 1])]
           leaves == [n \in 0..MaxDepth |-> Leaf]
<1>1. MaxDepth \in Nat \ {0}
  BY DepthAssumption
<1>2. Json = CHOOSE g : Good(g)
  BY DEF Json
<1>3. PICK rows : Rows(leaves, rows)
  <2>1. leaves[0] = Leaf
    BY <1>1
  <2> QED BY <2>1, RowsExist
<1>4. ASSUME NEW n \in 0..MaxDepth
      PROVE  rows[n].json = IF n = 0 THEN Leaf ELSE JsonOver(rows[n - 1].json)
  <2>1. CASE n \in 1..MaxDepth
    <3>1. rows[n] = Row(leaves, n, rows[n - 1]) /\ n # 0
      BY <1>1, <1>3, <2>1 DEF Rows
    <3> QED BY <3>1 DEF Row
  <2>2. CASE n = 0
    <3>1. rows[0] = Row(leaves, 0, 0)
      BY <1>3 DEF Rows
    <3> QED BY <2>2, <3>1 DEF Row
  <2> QED BY <1>1, <2>1, <2>2
<1> DEFINE f == [n \in 0..MaxDepth |-> rows[n].json]
<1>5. \A n \in 0..MaxDepth : f[n] = IF n = 0 THEN Leaf ELSE JsonOver(f[n - 1])
  BY <1>1, <1>4
<1>6. Good(f)
  BY <1>5
<1>7. Good(Json)
  BY <1>2, <1>6
<1>8. \A n \in 0..MaxDepth : Json[n] = IF n = 0 THEN Leaf ELSE JsonOver(Json[n - 1])
  BY <1>7
<1> QED
  BY <1>1, <1>8

LEMMA ContainsExists ==
  \A n \in 0..MaxDepth : contains[n] = [v \in Json[n] |-> Contains(contains[n - 1], v)]
<1> DEFINE Good(g) == g = [n \in 0..MaxDepth |-> [v \in Json[n] |-> Contains(g[n - 1], v)]]
<1>1. MaxDepth \in Nat
  BY DepthAssumption
<1>2. contains = CHOOSE g : Good(g)
  BY DEF contains
<1>3. PICK rows : Rows(Json, rows)
  BY JsonExists, RowsExist
<1> DEFINE f == [n \in 0..MaxDepth |-> rows[n].contains]
<1>4. ASSUME NEW n \in 0..MaxDepth PROVE f[n] = [v \in Json[n] |-> Contains(f[n - 1], v)]
  <2>1. CASE n \in 1..MaxDepth
    <3>1. n - 1 \in 0..MaxDepth /\ rows[n] = Row(Json, n, rows[n - 1])
      BY <1>1, <1>3, <2>1 DEF Rows
    <3> QED BY <3>1 DEF Row
  <2>2. CASE n = 0
    <3> DEFINE below == [contains |-> f[0 - 1]]
    <3>1. below.contains = f[0 - 1]
      OBVIOUS
    <3> HIDE DEF f, below
    <3>2. rows[0] = Row(Json, 0, below)
      BY <1>3 DEF Rows
    <3>3. rows[0].contains = [v \in Json[0] |-> Contains(below.contains, v)]
      BY <3>2 DEF Row
    <3>4. f[0] = rows[0].contains
      BY <1>1 DEF f
    <3>5. f[0] = [v \in Json[0] |-> Contains(f[0 - 1], v)]
      BY <3>1, <3>3, <3>4
    <3> QED BY <2>2, <3>5
  <2>3. n = 0 \/ n \in 1..MaxDepth
    BY <1>1
  <2> QED BY <2>1, <2>2, <2>3
<1>5. Good(f)
  BY <1>4
<1>6. Good(contains)
  BY <1>2, <1>5
<1> QED
  BY <1>6

LEMMA SanitizedExists ==
  \A n \in 0..MaxDepth : sanitize[n] = [v \in Json[n] |-> Sanitized(sanitize[n - 1], v)]
<1> DEFINE Good(g) == g = [n \in 0..MaxDepth |-> [v \in Json[n] |-> Sanitized(g[n - 1], v)]]
<1>1. MaxDepth \in Nat
  BY DepthAssumption
<1>2. sanitize = CHOOSE g : Good(g)
  BY DEF sanitize
<1>3. PICK rows : Rows(Json, rows)
  BY JsonExists, RowsExist
<1> DEFINE f == [n \in 0..MaxDepth |-> rows[n].sanitize]
<1>4. ASSUME NEW n \in 0..MaxDepth PROVE f[n] = [v \in Json[n] |-> Sanitized(f[n - 1], v)]
  <2>1. CASE n \in 1..MaxDepth
    <3>1. n - 1 \in 0..MaxDepth /\ rows[n] = Row(Json, n, rows[n - 1])
      BY <1>1, <1>3, <2>1 DEF Rows
    <3> QED BY <3>1 DEF Row
  <2>2. CASE n = 0
    <3> DEFINE below == [sanitize |-> f[0 - 1]]
    <3>1. below.sanitize = f[0 - 1]
      OBVIOUS
    <3> HIDE DEF f, below
    <3>2. rows[0] = Row(Json, 0, below)
      BY <1>3 DEF Rows
    <3>3. rows[0].sanitize = [v \in Json[0] |-> Sanitized(below.sanitize, v)]
      BY <3>2 DEF Row
    <3>4. f[0] = rows[0].sanitize
      BY <1>1 DEF f
    <3>5. f[0] = [v \in Json[0] |-> Sanitized(f[0 - 1], v)]
      BY <3>1, <3>3, <3>4
    <3> QED BY <2>2, <3>5
  <2>3. n = 0 \/ n \in 1..MaxDepth
    BY <1>1
  <2> QED BY <2>1, <2>2, <2>3
<1>5. Good(f)
  BY <1>4
<1>6. Good(sanitize)
  BY <1>2, <1>5
<1> QED
  BY <1>6

LEMMA RemovedExists ==
  \A n \in 0..MaxDepth : remove[n] = [v \in Json[n] |-> Removed(remove[n - 1], v)]
<1> DEFINE Good(g) == g = [n \in 0..MaxDepth |-> [v \in Json[n] |-> Removed(g[n - 1], v)]]
<1>1. MaxDepth \in Nat
  BY DepthAssumption
<1>2. remove = CHOOSE g : Good(g)
  BY DEF remove
<1>3. PICK rows : Rows(Json, rows)
  BY JsonExists, RowsExist
<1> DEFINE f == [n \in 0..MaxDepth |-> rows[n].remove]
<1>4. ASSUME NEW n \in 0..MaxDepth PROVE f[n] = [v \in Json[n] |-> Removed(f[n - 1], v)]
  <2>1. CASE n \in 1..MaxDepth
    <3>1. n - 1 \in 0..MaxDepth /\ rows[n] = Row(Json, n, rows[n - 1])
      BY <1>1, <1>3, <2>1 DEF Rows
    <3> QED BY <3>1 DEF Row
  <2>2. CASE n = 0
    <3> DEFINE below == [remove |-> f[0 - 1]]
    <3>1. below.remove = f[0 - 1]
      OBVIOUS
    <3> HIDE DEF f, below
    <3>2. rows[0] = Row(Json, 0, below)
      BY <1>3 DEF Rows
    <3>3. rows[0].remove = [v \in Json[0] |-> Removed(below.remove, v)]
      BY <3>2 DEF Row
    <3>4. f[0] = rows[0].remove
      BY <1>1 DEF f
    <3>5. f[0] = [v \in Json[0] |-> Removed(f[0 - 1], v)]
      BY <3>1, <3>3, <3>4
    <3> QED BY <2>2, <3>5
  <2>3. n = 0 \/ n \in 1..MaxDepth
    BY <1>1
  <2> QED BY <2>1, <2>2, <2>3
<1>5. Good(f)
  BY <1>4
<1>6. Good(remove)
  BY <1>2, <1>5
<1> QED
  BY <1>6

LEMMA FoundExists ==
  \A n \in 0..MaxDepth : parts[n] = [v \in Json[n] |-> Found(parts[n - 1], v)]
<1> DEFINE Good(g) == g = [n \in 0..MaxDepth |-> [v \in Json[n] |-> Found(g[n - 1], v)]]
<1>1. MaxDepth \in Nat
  BY DepthAssumption
<1>2. parts = CHOOSE g : Good(g)
  BY DEF parts
<1>3. PICK rows : Rows(Json, rows)
  BY JsonExists, RowsExist
<1> DEFINE f == [n \in 0..MaxDepth |-> rows[n].parts]
<1>4. ASSUME NEW n \in 0..MaxDepth PROVE f[n] = [v \in Json[n] |-> Found(f[n - 1], v)]
  <2>1. CASE n \in 1..MaxDepth
    <3>1. n - 1 \in 0..MaxDepth /\ rows[n] = Row(Json, n, rows[n - 1])
      BY <1>1, <1>3, <2>1 DEF Rows
    <3> QED BY <3>1 DEF Row
  <2>2. CASE n = 0
    <3> DEFINE below == [parts |-> f[0 - 1]]
    <3>1. below.parts = f[0 - 1]
      OBVIOUS
    <3> HIDE DEF f, below
    <3>2. rows[0] = Row(Json, 0, below)
      BY <1>3 DEF Rows
    <3>3. rows[0].parts = [v \in Json[0] |-> Found(below.parts, v)]
      BY <3>2 DEF Row
    <3>4. f[0] = rows[0].parts
      BY <1>1 DEF f
    <3>5. f[0] = [v \in Json[0] |-> Found(f[0 - 1], v)]
      BY <3>1, <3>3, <3>4
    <3> QED BY <2>2, <3>5
  <2>3. n = 0 \/ n \in 1..MaxDepth
    BY <1>1
  <2> QED BY <2>1, <2>2, <2>3
<1>5. Good(f)
  BY <1>4
<1>6. Good(parts)
  BY <1>2, <1>5
<1> QED
  BY <1>6

LEMMA FormedExists ==
  \A n \in 0..MaxDepth :
    WellFormed[n] = {v \in Json[n] : IsWellFormed(WellFormed[n - 1], parts[n - 1], v)}
<1> DEFINE Good(g) == g = [n \in 0..MaxDepth |-> {v \in Json[n] : IsWellFormed(g[n - 1], parts[n - 1], v)}]
<1>1. MaxDepth \in Nat
  BY DepthAssumption
<1>2. WellFormed = CHOOSE g : Good(g)
  BY DEF WellFormed
<1>3. PICK rows : Rows(Json, rows)
  BY JsonExists, RowsExist
<1> DEFINE f == [n \in 0..MaxDepth |-> rows[n].formed]
<1>4. ASSUME NEW n \in 0..MaxDepth PROVE f[n] = {v \in Json[n] : IsWellFormed(f[n - 1], parts[n - 1], v)}
  <2>1. CASE n \in 1..MaxDepth
    <3>1. n - 1 \in 0..MaxDepth /\ rows[n] = Row(Json, n, rows[n - 1])
      BY <1>1, <1>3, <2>1 DEF Rows
    <3> QED BY <3>1 DEF Row
  <2>2. CASE n = 0
    <3> DEFINE below == [formed |-> f[0 - 1]]
    <3>1. below.formed = f[0 - 1]
      OBVIOUS
    <3> HIDE DEF f, below
    <3>2. rows[0] = Row(Json, 0, below)
      BY <1>3 DEF Rows
    <3>3. rows[0].formed = {v \in Json[0] : IsWellFormed(below.formed, parts[0 - 1], v)}
      BY <3>2 DEF Row
    <3>4. f[0] = rows[0].formed
      BY <1>1 DEF f
    <3>5. f[0] = {v \in Json[0] : IsWellFormed(f[0 - 1], parts[0 - 1], v)}
      BY <3>1, <3>3, <3>4
    <3> QED BY <2>2, <3>5
  <2>3. n = 0 \/ n \in 1..MaxDepth
    BY <1>1
  <2> QED BY <2>1, <2>2, <2>3
<1>5. Good(f)
  BY <1>4
<1>6. Good(WellFormed)
  BY <1>2, <1>5
<1> QED
  BY <1>6


-----------------------------------------------------------------------------
(* What they are of each kind of value. *)

LEMMA Depths ==
  /\ MaxDepth \in Nat /\ MaxDepth \in 1..MaxDepth /\ 0 \in 0..MaxDepth /\ MaxDepth \in 0..MaxDepth
  /\ \A n \in 1..MaxDepth : n \in 0..MaxDepth /\ n - 1 \in 0..MaxDepth
  /\ \A n \in 0..MaxDepth : n # 0 => n \in 1..MaxDepth
BY DepthAssumption

IsNothing(v) == v \in {Null, Number} /\ v.kind \notin {"str", "list", "dict"}
IsStr(v) == v.kind = "str" /\ v = Str(v.parts) /\ v.parts \subseteq Part
IsList(n, v) == v.kind = "list" /\ v = List(v.items) /\ v.items \subseteq Json[n - 1]
IsDict(n, v) ==
  /\ v.kind = "dict" /\ v = Dict(v.type, v.fields) /\ v.type \in Name
  /\ \A f \in v.fields : f.key \in Name /\ f.value \in Json[n - 1] /\ f = Field(f.key, f.value)

LEMMA ValueCases ==
  ASSUME NEW n \in 0..MaxDepth, NEW v \in Json[n]
  PROVE  IsNothing(v) \/ IsStr(v) \/ (n \in 1..MaxDepth /\ (IsList(n, v) \/ IsDict(n, v)))
<1>1. ASSUME NEW u \in Leaf PROVE IsNothing(u) \/ IsStr(u)
  BY DEF Leaf, Null, Number, Str, IsNothing, IsStr
<1>2. CASE n = 0
  BY <1>1, <1>2, JsonExists
<1>3. CASE n \in 1..MaxDepth
  <2>1. v \in JsonOver(Json[n - 1])
    BY <1>3, JsonExists
  <2>2. CASE v \in Leaf
    BY <1>1, <2>2
  <2>3. CASE v \in [kind: {"list"}, items: SUBSET Json[n - 1]]
    BY <1>3, <2>3 DEF IsList, List
  <2>4. CASE v \in [kind: {"dict"}, type: Name, fields: SUBSET [key: Name, value: Json[n - 1]]]
    <3>1. \A f \in v.fields : f \in [key: Name, value: Json[n - 1]]
      BY <2>4
    <3>2. \A f \in v.fields : f.key \in Name /\ f.value \in Json[n - 1] /\ f = Field(f.key, f.value)
      BY <3>1 DEF Field
    <3> QED BY <1>3, <2>4, <3>2 DEF IsDict, Dict
  <2> QED BY <2>1, <2>2, <2>3, <2>4 DEF JsonOver
<1> QED
  BY <1>2, <1>3, Depths

LEMMA ValuesMade ==
  /\ \A n \in 0..MaxDepth : Leaf \subseteq Json[n]
  /\ \A n \in 1..MaxDepth : \A S : S \subseteq Json[n - 1] => List(S) \in Json[n]
  /\ \A n \in 1..MaxDepth : \A type \in Name : \A F :
       (\A f \in F : f \in [key: Name, value: Json[n - 1]]) => Dict(type, F) \in Json[n]
<1>1. ASSUME NEW n \in 1..MaxDepth
      PROVE  /\ Leaf \subseteq Json[n]
             /\ \A S : S \subseteq Json[n - 1] => List(S) \in Json[n]
             /\ \A type \in Name : \A F :
                  (\A f \in F : f \in [key: Name, value: Json[n - 1]]) => Dict(type, F) \in Json[n]
  <2>1. Json[n] = JsonOver(Json[n - 1])
    BY JsonExists
  <2>2. Leaf \subseteq Json[n]
    BY <2>1 DEF JsonOver
  <2>3. \A S : S \subseteq Json[n - 1] => List(S) \in Json[n]
    BY <2>1 DEF JsonOver, List
  <2>4. ASSUME NEW type \in Name, NEW F, \A f \in F : f \in [key: Name, value: Json[n - 1]]
        PROVE  Dict(type, F) \in Json[n]
    <3>1. F \in SUBSET [key: Name, value: Json[n - 1]]
      BY <2>4
    <3>2. Dict(type, F) \in [kind: {"dict"}, type: Name, fields: SUBSET [key: Name, value: Json[n - 1]]]
      BY <3>1 DEF Dict
    <3> QED BY <2>1, <3>2 DEF JsonOver
  <2> QED BY <2>2, <2>3, <2>4
<1> QED
  BY <1>1, JsonExists, Depths

LEMMA StrMade == \A p : p \subseteq Part => Str(p) \in Leaf
BY DEF Str, Leaf

\* The parts of a value of each kind.
LEMMA PartsByKind ==
  ASSUME NEW n \in 0..MaxDepth
  PROVE  /\ \A v \in Json[n] : IsNothing(v) => parts[n][v] = {}
         /\ \A p : p \subseteq Part => parts[n][Str(p)] = p
         /\ n \in 1..MaxDepth =>
              /\ \A S : S \subseteq Json[n - 1] => parts[n][List(S)] = UNION {parts[n - 1][x] : x \in S}
              /\ \A type \in Name : \A F : (\A f \in F : f \in [key: Name, value: Json[n - 1]])
                   => parts[n][Dict(type, F)] = UNION {parts[n - 1][f.value] : f \in F}
<1>1. \A v \in Json[n] : parts[n][v] = Found(parts[n - 1], v)
  BY FoundExists
<1>2. \A v \in Json[n] : IsNothing(v) => parts[n][v] = {}
  BY <1>1 DEF Found, IsNothing
<1>3. ASSUME NEW p, p \subseteq Part PROVE parts[n][Str(p)] = p
  <2>1. Str(p) \in Json[n]
    BY <1>3, StrMade, ValuesMade
  <2> QED BY <1>1, <2>1 DEF Found, Str
<1>4. ASSUME n \in 1..MaxDepth, NEW S, S \subseteq Json[n - 1]
      PROVE  parts[n][List(S)] = UNION {parts[n - 1][x] : x \in S}
  <2>1. List(S) \in Json[n]
    BY <1>4, ValuesMade
  <2> QED BY <1>1, <2>1 DEF Found, List
<1>5. ASSUME n \in 1..MaxDepth, NEW type \in Name, NEW F, \A f \in F : f \in [key: Name, value: Json[n - 1]]
      PROVE  parts[n][Dict(type, F)] = UNION {parts[n - 1][f.value] : f \in F}
  <2>1. Dict(type, F) \in Json[n]
    BY <1>5, ValuesMade
  <2> QED BY <1>1, <2>1 DEF Found, Dict
<1> QED
  BY <1>2, <1>3, <1>4, <1>5

LEMMA DictMade ==
  ASSUME NEW n \in 1..MaxDepth, NEW type \in Name, NEW F,
         \A f \in F : f \in [key: Name, value: Json[n - 1]]
  PROVE  /\ Dict(type, F) \in Json[n]
         /\ parts[n][Dict(type, F)] = UNION {parts[n - 1][f.value] : f \in F}
<1>1. n \in 0..MaxDepth
  BY Depths
<1>2. Dict(type, F) \in Json[n]
  BY ValuesMade
<1>3. parts[n][Dict(type, F)] = UNION {parts[n - 1][f.value] : f \in F}
  BY <1>1, PartsByKind
<1> QED
  BY <1>2, <1>3

LEMMA DictIsDict ==
  ASSUME NEW n \in 1..MaxDepth, NEW type \in Name, NEW F,
         \A f \in F : f \in [key: Name, value: Json[n - 1]]
  PROVE  /\ Dict(type, F) \in Json[n] /\ IsDict(n, Dict(type, F))
         /\ Dict(type, F).type = type /\ Dict(type, F).fields = F
<1>1. \A f \in F : f.key \in Name /\ f.value \in Json[n - 1] /\ f = Field(f.key, f.value)
  BY DEF Field
<1>2. /\ Dict(type, F).kind = "dict" /\ Dict(type, F).type = type /\ Dict(type, F).fields = F
      /\ Dict(type, F) = Dict(Dict(type, F).type, Dict(type, F).fields)
  BY DEF Dict
<1>3. IsDict(n, Dict(type, F))
  BY <1>1, <1>2 DEF IsDict
<1> QED
  BY <1>2, <1>3, DictMade

LEMMA PlaceholderMade ==
  /\ ImagePlaceholder = Str({"placeholder"}) /\ {"placeholder"} \subseteq Part
  /\ ImagePlaceholder \in Leaf
BY StrMade DEF ImagePlaceholder, Part

\* What sanitize_images makes of each kind of value.
KeptValue(n, f) == IF f.key \in ImageKeys THEN ImagePlaceholder ELSE sanitize[n][f.value]

LEMMA SanitizedByKind ==
  ASSUME NEW n \in 0..MaxDepth, NEW v \in Json[n]
  PROVE  /\ IsNothing(v) => sanitize[n][v] = v
         /\ IsStr(v) => sanitize[n][v] = Str(IF "dataURL" \in v.parts
                                             THEN (v.parts \ {"dataURL"}) \cup {"placeholder"}
                                             ELSE v.parts)
         /\ IsList(n, v) => sanitize[n][v] = List({sanitize[n - 1][x] : x \in v.items})
         /\ IsDict(n, v) => sanitize[n][v] = IF v.type \in ImageTypes THEN Replaced(v.type)
                                             ELSE Dict(v.type, {Field(f.key, KeptValue(n - 1, f)) : f \in v.fields})
<1>1. sanitize[n][v] = Sanitized(sanitize[n - 1], v)
  BY SanitizedExists
<1>2. IsNothing(v) => sanitize[n][v] = v
  BY <1>1 DEF Sanitized, IsNothing
<1>3. ASSUME IsStr(v)
      PROVE  sanitize[n][v] = Str(IF "dataURL" \in v.parts
                                  THEN (v.parts \ {"dataURL"}) \cup {"placeholder"}
                                  ELSE v.parts)
  BY <1>1, <1>3 DEF Sanitized, IsStr
<1>4. IsList(n, v) => sanitize[n][v] = List({sanitize[n - 1][x] : x \in v.items})
  BY <1>1 DEF Sanitized, IsList
<1>5. ASSUME IsDict(n, v)
      PROVE  sanitize[n][v] = IF v.type \in ImageTypes THEN Replaced(v.type)
                              ELSE Dict(v.type, {Field(f.key, KeptValue(n - 1, f)) : f \in v.fields})
  <2>1. v.kind = "dict"
    BY <1>5 DEF IsDict
  <2>2. CASE v.type \in ImageTypes
    BY <1>1, <2>1, <2>2 DEF Sanitized
  <2>3. CASE v.type \notin ImageTypes
    BY <1>1, <2>1, <2>3 DEF Sanitized, KeptValue
  <2> QED BY <2>2, <2>3
<1> QED
  BY <1>2, <1>3, <1>4, <1>5

LEMMA SanitizedIsJson == \A n \in 0..MaxDepth : \A v \in Json[n] : sanitize[n][v] \in Json[n]
<1> DEFINE Ns == {n \in 0..MaxDepth : \A v \in Json[n] : sanitize[n][v] \in Json[n]}
<1>1. ASSUME NEW n \in 0..MaxDepth, NEW v \in Json[n], IsNothing(v) \/ IsStr(v)
      PROVE  sanitize[n][v] \in Json[n]
  <2>1. CASE IsNothing(v)
    BY <2>1, SanitizedByKind
  <2>2. CASE IsStr(v)
    <3> DEFINE p == IF "dataURL" \in v.parts THEN (v.parts \ {"dataURL"}) \cup {"placeholder"} ELSE v.parts
    <3>1. p \subseteq Part
      BY <2>2, PlaceholderMade DEF IsStr
    <3>2. sanitize[n][v] = Str(p)
      BY <2>2, SanitizedByKind
    <3> QED BY <3>1, <3>2, StrMade, ValuesMade
  <2> QED BY <1>1, <2>1, <2>2
<1>2. ASSUME NEW n \in 1..MaxDepth, n - 1 \in Ns, NEW v \in Json[n], IsList(n, v) \/ IsDict(n, v)
      PROVE  sanitize[n][v] \in Json[n]
  <2>1. n \in 0..MaxDepth /\ n - 1 \in 0..MaxDepth
    BY Depths
  <2>2. \A x \in Json[n - 1] : sanitize[n - 1][x] \in Json[n - 1]
    BY <1>2
  <2>3. CASE IsList(n, v)
    <3>1. {sanitize[n - 1][x] : x \in v.items} \subseteq Json[n - 1]
      BY <2>2, <2>3 DEF IsList
    <3>2. sanitize[n][v] = List({sanitize[n - 1][x] : x \in v.items})
      BY <2>1, <2>3, SanitizedByKind
    <3> QED BY <3>1, <3>2, ValuesMade
  <2>4. CASE IsDict(n, v)
    <3>1. ImagePlaceholder \in Json[n - 1]
      BY <2>1, PlaceholderMade, ValuesMade
    <3>2. CASE v.type \in ImageTypes
      <4>1. \A k \in Name : Field(k, ImagePlaceholder) \in [key: Name, value: Json[n - 1]]
        BY <3>1 DEF Field
      <4>2. /\ v.type \in Name
            /\ \A k \in Name : Dict(v.type, {Field(k, ImagePlaceholder)}) \in Json[n]
            /\ \A k \in Name : Dict("input_text", {Field(k, ImagePlaceholder)}) \in Json[n]
        BY <2>4, <4>1, ValuesMade, NameAssumption DEF IsDict
      <4>3. Replaced(v.type) \in Json[n]
        BY <4>2, NameAssumption DEF Replaced
      <4> QED BY <2>1, <2>4, <3>2, <4>3, SanitizedByKind
    <3>3. CASE v.type \notin ImageTypes
      <4> DEFINE F == {Field(f.key, KeptValue(n - 1, f)) : f \in v.fields}
      <4>1. \A f \in v.fields : f.key \in Name /\ KeptValue(n - 1, f) \in Json[n - 1]
        BY <2>2, <2>4, <3>1 DEF IsDict, KeptValue
      <4>2. \A f \in v.fields : Field(f.key, KeptValue(n - 1, f)) \in [key: Name, value: Json[n - 1]]
        BY <4>1 DEF Field
      <4>3. \A f \in F : f \in [key: Name, value: Json[n - 1]]
        BY <4>2
      <4>4. sanitize[n][v] = Dict(v.type, F)
        BY <2>1, <2>4, <3>3, SanitizedByKind
      <4>5. v.type \in Name
        BY <2>4 DEF IsDict
      <4> HIDE DEF F
      <4> QED BY <4>3, <4>4, <4>5, ValuesMade
    <3> QED BY <3>2, <3>3
  <2> QED BY <1>2, <2>3, <2>4
<1>3. 0 \in Ns
  <2>1. \A v \in Json[0] : IsNothing(v) \/ IsStr(v)
    BY Depths, ValueCases
  <2> QED BY <1>1, <2>1, Depths
<1>4. ASSUME NEW n \in 1..MaxDepth, n - 1 \in Ns PROVE n \in Ns
  BY <1>1, <1>2, <1>4, ValueCases, Depths
<1> HIDE DEF Ns
<1>5. \A n \in 0..MaxDepth : n \in Ns
  BY <1>3, <1>4, DepthInduction
<1> QED
  BY <1>5 DEF Ns

\* What remove_image_placeholders makes of each kind of value.
Cleaned(n, F) == {f \in {Field(f.key, remove[n][f.value]) : f \in F} : f.value \notin Empty}

LEMMA RemovedByKind ==
  ASSUME NEW n \in 0..MaxDepth, NEW v \in Json[n]
  PROVE  /\ IsNothing(v) => remove[n][v] = v
         /\ IsStr(v) => remove[n][v] = Str(v.parts \ {"placeholder"})
         /\ IsList(n, v) => remove[n][v] = List({remove[n - 1][x] : x \in v.items} \ Empty)
         /\ IsDict(n, v) =>
              remove[n][v] = IF v.type \in TextTypes
                                /\ \A f \in Cleaned(n - 1, v.fields) : f.key \notin TextKeys
                             THEN Dict("", {})
                             ELSE Dict(v.type, Cleaned(n - 1, v.fields))
<1>1. remove[n][v] = Removed(remove[n - 1], v)
  BY RemovedExists
<1>2. IsNothing(v) => remove[n][v] = v
  BY <1>1 DEF Removed, IsNothing
<1>3. IsStr(v) => remove[n][v] = Str(v.parts \ {"placeholder"})
  BY <1>1 DEF Removed, IsStr
<1>4. IsList(n, v) => remove[n][v] = List({remove[n - 1][x] : x \in v.items} \ Empty)
  BY <1>1 DEF Removed, IsList
<1>5. ASSUME IsDict(n, v)
      PROVE  remove[n][v] = IF v.type \in TextTypes
                               /\ \A f \in Cleaned(n - 1, v.fields) : f.key \notin TextKeys
                            THEN Dict("", {})
                            ELSE Dict(v.type, Cleaned(n - 1, v.fields))
  <2>1. v.kind = "dict"
    BY <1>5 DEF IsDict
  <2> QED BY <1>1, <2>1 DEF Removed, Cleaned
<1> QED
  BY <1>2, <1>3, <1>4, <1>5

LEMMA RemovedIsJson == \A n \in 0..MaxDepth : \A v \in Json[n] : remove[n][v] \in Json[n]
<1> DEFINE Ns == {n \in 0..MaxDepth : \A v \in Json[n] : remove[n][v] \in Json[n]}
<1>1. ASSUME NEW n \in 0..MaxDepth, NEW v \in Json[n], IsNothing(v) \/ IsStr(v)
      PROVE  remove[n][v] \in Json[n]
  <2>1. CASE IsNothing(v)
    BY <2>1, RemovedByKind
  <2>2. CASE IsStr(v)
    <3>1. v.parts \ {"placeholder"} \subseteq Part /\ remove[n][v] = Str(v.parts \ {"placeholder"})
      BY <2>2, RemovedByKind DEF IsStr
    <3> QED BY <3>1, StrMade, ValuesMade
  <2> QED BY <1>1, <2>1, <2>2
<1>2. ASSUME NEW n \in 1..MaxDepth, n - 1 \in Ns, NEW v \in Json[n], IsList(n, v) \/ IsDict(n, v)
      PROVE  remove[n][v] \in Json[n]
  <2>1. n \in 0..MaxDepth /\ n - 1 \in 0..MaxDepth
    BY Depths
  <2>2. \A x \in Json[n - 1] : remove[n - 1][x] \in Json[n - 1]
    BY <1>2
  <2>3. CASE IsList(n, v)
    <3>1. {remove[n - 1][x] : x \in v.items} \ Empty \subseteq Json[n - 1]
      BY <2>2, <2>3 DEF IsList
    <3>2. remove[n][v] = List({remove[n - 1][x] : x \in v.items} \ Empty)
      BY <2>1, <2>3, RemovedByKind
    <3> QED BY <3>1, <3>2, ValuesMade
  <2>4. CASE IsDict(n, v)
    <3> DEFINE F == Cleaned(n - 1, v.fields)
    <3>1. \A f \in v.fields : Field(f.key, remove[n - 1][f.value]) \in [key: Name, value: Json[n - 1]]
      BY <2>2, <2>4 DEF IsDict, Field
    <3>2. \A f \in F : f \in [key: Name, value: Json[n - 1]]
      BY <3>1 DEF Cleaned
    <3>3. remove[n][v] \in {Dict("", {}), Dict(v.type, F)}
      BY <2>1, <2>4, RemovedByKind
    <3>4. v.type \in Name /\ "" \in Name
      BY <2>4, NameAssumption DEF IsDict
    <3> HIDE DEF F
    <3>5. Dict(v.type, F) \in Json[n] /\ Dict("", {}) \in Json[n]
      BY <3>2, <3>4, ValuesMade
    <3> QED BY <3>3, <3>5
  <2> QED BY <1>2, <2>3, <2>4
<1>3. 0 \in Ns
  <2>1. \A v \in Json[0] : IsNothing(v) \/ IsStr(v)
    BY Depths, ValueCases
  <2> QED BY <1>1, <2>1, Depths
<1>4. ASSUME NEW n \in 1..MaxDepth, n - 1 \in Ns PROVE n \in Ns
  BY <1>1, <1>2, <1>4, ValueCases, Depths
<1> HIDE DEF Ns
<1>5. \A n \in 0..MaxDepth : n \in Ns
  BY <1>3, <1>4, DepthInduction
<1> QED
  BY <1>5 DEF Ns

-----------------------------------------------------------------------------
(* What they do to the parts of a value. *)

\* The parts of what sanitize_images makes of a list and of a dict.
LEMMA PartsOfSanitized ==
  ASSUME NEW n \in 1..MaxDepth, NEW v \in Json[n]
  PROVE  /\ IsList(n, v) =>
              /\ parts[n][v] = UNION {parts[n - 1][x] : x \in v.items}
              /\ parts[n][sanitize[n][v]] = UNION {parts[n - 1][sanitize[n - 1][x]] : x \in v.items}
         /\ IsDict(n, v) =>
              /\ parts[n][v] = UNION {parts[n - 1][f.value] : f \in v.fields}
              /\ v.type \in ImageTypes => parts[n][sanitize[n][v]] = {"placeholder"}
              /\ v.type \notin ImageTypes =>
                   parts[n][sanitize[n][v]] = UNION {parts[n - 1][KeptValue(n - 1, f)] : f \in v.fields}
<1>1. n \in 0..MaxDepth /\ n - 1 \in 0..MaxDepth
  BY Depths
<1>2. \A x \in Json[n - 1] : sanitize[n - 1][x] \in Json[n - 1]
  BY <1>1, SanitizedIsJson
<1>3. ImagePlaceholder \in Json[n - 1] /\ parts[n - 1][ImagePlaceholder] = {"placeholder"}
  BY <1>1, PlaceholderMade, ValuesMade, PartsByKind
<1>4. ASSUME IsList(n, v)
      PROVE  /\ parts[n][v] = UNION {parts[n - 1][x] : x \in v.items}
             /\ parts[n][sanitize[n][v]] = UNION {parts[n - 1][sanitize[n - 1][x]] : x \in v.items}
  <2> DEFINE S == {sanitize[n - 1][x] : x \in v.items}
  <2>1. v = List(v.items) /\ v.items \subseteq Json[n - 1]
    BY <1>4 DEF IsList
  <2>2. S \subseteq Json[n - 1] /\ sanitize[n][v] = List(S)
    BY <1>1, <1>2, <1>4, <2>1, SanitizedByKind
  <2>3. {parts[n - 1][y] : y \in S} = {parts[n - 1][sanitize[n - 1][x]] : x \in v.items}
    OBVIOUS
  <2> HIDE DEF S
  <2>4. parts[n][List(S)] = UNION {parts[n - 1][y] : y \in S}
    BY <1>1, <2>2, PartsByKind
  <2>5. parts[n][List(v.items)] = UNION {parts[n - 1][x] : x \in v.items}
    BY <1>1, <2>1, PartsByKind
  <2> QED BY <2>1, <2>2, <2>3, <2>4, <2>5
<1>5. ASSUME IsDict(n, v)
      PROVE  /\ parts[n][v] = UNION {parts[n - 1][f.value] : f \in v.fields}
             /\ v.type \in ImageTypes => parts[n][sanitize[n][v]] = {"placeholder"}
             /\ v.type \notin ImageTypes =>
                  parts[n][sanitize[n][v]] = UNION {parts[n - 1][KeptValue(n - 1, f)] : f \in v.fields}
  <2> DEFINE F == {Field(f.key, KeptValue(n - 1, f)) : f \in v.fields}
  <2>1. /\ v = Dict(v.type, v.fields) /\ v.type \in Name
        /\ \A f \in v.fields : f.key \in Name /\ f.value \in Json[n - 1] /\ f = Field(f.key, f.value)
    BY <1>5 DEF IsDict
  <2>2. \A f \in v.fields : f \in [key: Name, value: Json[n - 1]]
    BY <2>1 DEF Field
  <2>3. parts[n][Dict(v.type, v.fields)] = UNION {parts[n - 1][f.value] : f \in v.fields}
    BY <1>1, <2>1, <2>2, PartsByKind
  <2>4. ASSUME v.type \in ImageTypes PROVE parts[n][sanitize[n][v]] = {"placeholder"}
    <3>1. sanitize[n][v] = Replaced(v.type)
      BY <1>1, <1>5, <2>4, SanitizedByKind
    <3>2. ASSUME NEW type \in Name, NEW key \in Name
          PROVE  parts[n][Dict(type, {Field(key, ImagePlaceholder)})] = {"placeholder"}
      <4> DEFINE G == {Field(key, ImagePlaceholder)}
      <4>1. \A f \in G : f \in [key: Name, value: Json[n - 1]] /\ f.value = ImagePlaceholder
        BY <1>3, <3>2 DEF Field
      <4>2. {parts[n - 1][f.value] : f \in G} = {parts[n - 1][ImagePlaceholder]}
        BY <4>1
      <4> HIDE DEF G
      <4>3. parts[n][Dict(type, G)] = UNION {parts[n - 1][f.value] : f \in G}
        BY <1>1, <4>1, PartsByKind
      <4>4. parts[n][Dict(type, G)] = {"placeholder"}
        BY <1>3, <4>2, <4>3
      <4> QED BY <4>4 DEF G
    <3> QED BY <2>1, <3>1, <3>2, NameAssumption DEF Replaced
  <2>5. ASSUME v.type \notin ImageTypes
        PROVE  parts[n][sanitize[n][v]] = UNION {parts[n - 1][KeptValue(n - 1, f)] : f \in v.fields}
    <3>1. sanitize[n][v] = Dict(v.type, F)
      BY <1>1, <1>5, <2>5, SanitizedByKind
    <3>2. \A f \in v.fields : KeptValue(n - 1, f) \in Json[n - 1]
      BY <1>2, <1>3, <2>1 DEF KeptValue
    <3>3. \A f \in F : f \in [key: Name, value: Json[n - 1]]
      BY <2>1, <3>2 DEF Field
    <3>4. {parts[n - 1][g.value] : g \in F} = {parts[n - 1][KeptValue(n - 1, f)] : f \in v.fields}
      <4>1. \A k, x : Field(k, x).value = x
        BY DEF Field
      <4>2. \A g \in F : \E f \in v.fields : g.value = KeptValue(n - 1, f)
        BY <4>1
      <4>3. \A f \in v.fields : \E g \in F : g.value = KeptValue(n - 1, f)
        BY <4>1
      <4> HIDE DEF F
      <4> QED BY <4>2, <4>3
    <3> HIDE DEF F
    <3>5. parts[n][Dict(v.type, F)] = UNION {parts[n - 1][g.value] : g \in F}
      BY <1>1, <2>1, <3>3, PartsByKind
    <3> QED BY <3>1, <3>4, <3>5
  <2> QED BY <2>1, <2>3, <2>4, <2>5
<1> QED
  BY <1>4, <1>5

\* sanitize_images adds no more than placeholders, and leaves no data URL.
THEOREM SanitizedParts ==
  \A n \in 0..MaxDepth : \A v \in Json[n] :
    parts[n][sanitize[n][v]] \subseteq (parts[n][v] \ {"dataURL"}) \cup {"placeholder"}
<1> DEFINE Less(n, v) == parts[n][sanitize[n][v]] \subseteq (parts[n][v] \ {"dataURL"}) \cup {"placeholder"}
           Ns == {n \in 0..MaxDepth : \A v \in Json[n] : Less(n, v)}
<1>1. ASSUME NEW n \in 0..MaxDepth, NEW v \in Json[n], IsNothing(v) \/ IsStr(v) PROVE Less(n, v)
  <2>1. CASE IsNothing(v)
    <3>1. sanitize[n][v] = v /\ parts[n][v] = {}
      BY <2>1, SanitizedByKind, PartsByKind
    <3> QED BY <3>1
  <2>2. CASE IsStr(v)
    <3> DEFINE p == IF "dataURL" \in v.parts THEN (v.parts \ {"dataURL"}) \cup {"placeholder"} ELSE v.parts
    <3>1. p \subseteq Part /\ v.parts \subseteq Part /\ v = Str(v.parts)
      BY <2>2, PlaceholderMade DEF IsStr
    <3>2. sanitize[n][v] = Str(p)
      BY <2>2, SanitizedByKind
    <3>3. parts[n][Str(v.parts)] = v.parts /\ parts[n][Str(p)] = p
      BY <3>1, PartsByKind
    <3>4. parts[n][v] = v.parts /\ parts[n][sanitize[n][v]] = p
      BY <3>1, <3>2, <3>3
    <3> QED BY <3>4
  <2> QED BY <1>1, <2>1, <2>2
<1>2. ASSUME NEW n \in 1..MaxDepth, n - 1 \in Ns, NEW v \in Json[n], IsList(n, v) \/ IsDict(n, v)
      PROVE  Less(n, v)
  <2>1. n - 1 \in 0..MaxDepth /\ \A x \in Json[n - 1] : Less(n - 1, x)
    BY <1>2, Depths
  <2>2. CASE IsList(n, v)
    <3>1. v.items \subseteq Json[n - 1]
      BY <2>2 DEF IsList
    <3>2. /\ parts[n][v] = UNION {parts[n - 1][x] : x \in v.items}
          /\ parts[n][sanitize[n][v]] = UNION {parts[n - 1][sanitize[n - 1][x]] : x \in v.items}
      BY <2>2, PartsOfSanitized
    <3> QED BY <2>1, <3>1, <3>2
  <2>3. CASE IsDict(n, v) /\ v.type \in ImageTypes
    <3>1. parts[n][sanitize[n][v]] = {"placeholder"}
      BY <2>3, PartsOfSanitized
    <3> QED BY <3>1
  <2>4. CASE IsDict(n, v) /\ v.type \notin ImageTypes
    <3>1. parts[n - 1][ImagePlaceholder] = {"placeholder"}
      BY <2>1, PlaceholderMade, PartsByKind
    <3>2. \A f \in v.fields :
            parts[n - 1][KeptValue(n - 1, f)] \subseteq (parts[n - 1][f.value] \ {"dataURL"}) \cup {"placeholder"}
      BY <2>1, <2>4, <3>1 DEF IsDict, KeptValue
    <3>3. /\ parts[n][v] = UNION {parts[n - 1][f.value] : f \in v.fields}
          /\ parts[n][sanitize[n][v]] = UNION {parts[n - 1][KeptValue(n - 1, f)] : f \in v.fields}
      BY <2>4, PartsOfSanitized
    <3> QED BY <3>2, <3>3
  <2> QED BY <1>2, <2>2, <2>3, <2>4
<1> HIDE DEF Less
<1>3. 0 \in Ns
  <2>1. \A v \in Json[0] : IsNothing(v) \/ IsStr(v)
    BY Depths, ValueCases
  <2> QED BY <1>1, <2>1, Depths
<1>4. ASSUME NEW n \in 1..MaxDepth, n - 1 \in Ns PROVE n \in Ns
  BY <1>1, <1>2, <1>4, ValueCases, Depths
<1> HIDE DEF Ns
<1>5. \A n \in 0..MaxDepth : n \in Ns
  BY <1>3, <1>4, DepthInduction
<1> QED
  BY <1>5 DEF Ns, Less

LEMMA EmptyDict ==
  ASSUME NEW n \in 1..MaxDepth
  PROVE  Dict("", {}) \in Json[n] /\ parts[n][Dict("", {})] = {}
<1> DEFINE F == {}
<1>1. n \in 0..MaxDepth /\ "" \in Name
  BY Depths, NameAssumption
<1>2. /\ \A f \in F : f \in [key: Name, value: Json[n - 1]]
      /\ UNION {parts[n - 1][f.value] : f \in F} = {}
      /\ F = {}
  OBVIOUS
<1> HIDE DEF F
<1>3. Dict("", F) \in Json[n] /\ parts[n][Dict("", F)] = {}
  BY <1>1, <1>2, DictMade
<1> QED
  BY <1>2, <1>3

\* remove_image_placeholders adds nothing, and leaves no placeholder.
LEMMA RemovedParts ==
  \A n \in 0..MaxDepth : \A v \in Json[n] :
    parts[n][remove[n][v]] \subseteq parts[n][v] \ {"placeholder"}
<1> DEFINE Less(n, v) == parts[n][remove[n][v]] \subseteq parts[n][v] \ {"placeholder"}
           Ns == {n \in 0..MaxDepth : \A v \in Json[n] : Less(n, v)}
<1>1. ASSUME NEW n \in 0..MaxDepth, NEW v \in Json[n], IsNothing(v) \/ IsStr(v) PROVE Less(n, v)
  <2>1. CASE IsNothing(v)
    <3>1. remove[n][v] = v /\ parts[n][v] = {}
      BY <2>1, RemovedByKind, PartsByKind
    <3> QED BY <3>1
  <2>2. CASE IsStr(v)
    <3> DEFINE p == v.parts \ {"placeholder"}
    <3>1. p \subseteq Part /\ v.parts \subseteq Part /\ v = Str(v.parts)
      BY <2>2 DEF IsStr
    <3>2. remove[n][v] = Str(p)
      BY <2>2, RemovedByKind
    <3>3. parts[n][Str(v.parts)] = v.parts /\ parts[n][Str(p)] = p
      BY <3>1, PartsByKind
    <3>4. parts[n][v] = v.parts /\ parts[n][remove[n][v]] = p
      BY <3>1, <3>2, <3>3
    <3> QED BY <3>4
  <2> QED BY <1>1, <2>1, <2>2
<1>2. ASSUME NEW n \in 1..MaxDepth, n - 1 \in Ns, NEW v \in Json[n], IsList(n, v) \/ IsDict(n, v)
      PROVE  Less(n, v)
  <2>1. n \in 0..MaxDepth /\ n - 1 \in 0..MaxDepth /\ \A x \in Json[n - 1] : Less(n - 1, x)
    BY <1>2, Depths
  <2>2. \A x \in Json[n - 1] : remove[n - 1][x] \in Json[n - 1]
    BY <2>1, RemovedIsJson
  <2>3. CASE IsList(n, v)
    <3> DEFINE S == {remove[n - 1][x] : x \in v.items} \ Empty
    <3>1. v.items \subseteq Json[n - 1]
      BY <2>3 DEF IsList
    <3>2. S \subseteq Json[n - 1] /\ \A y \in S : \E x \in v.items : y = remove[n - 1][x]
      BY <2>2, <3>1
    <3>3. remove[n][v] = List(S)
      BY <2>1, <2>3, RemovedByKind
    <3>4. \A y \in S : parts[n - 1][y] \subseteq (UNION {parts[n - 1][x] : x \in v.items}) \ {"placeholder"}
      BY <2>1, <3>1, <3>2
    <3> HIDE DEF S
    <3>5. parts[n][List(S)] = UNION {parts[n - 1][y] : y \in S}
      BY <2>1, <3>2, PartsByKind
    <3>6. parts[n][v] = UNION {parts[n - 1][x] : x \in v.items}
      BY <2>3, PartsOfSanitized
    <3> QED BY <3>3, <3>4, <3>5, <3>6
  <2>4. CASE IsDict(n, v)
    <3> DEFINE F == Cleaned(n - 1, v.fields)
    <3>1. \A f \in v.fields : f.key \in Name /\ f.value \in Json[n - 1]
      BY <2>4 DEF IsDict
    <3>2. \A g \in F : \E f \in v.fields : g = Field(f.key, remove[n - 1][f.value])
      BY DEF Cleaned
    <3>3. \A g \in F : /\ g \in [key: Name, value: Json[n - 1]]
                       /\ \E f \in v.fields : g.value = remove[n - 1][f.value]
      BY <2>2, <3>1, <3>2 DEF Field
    <3>4. \A g \in F :
            parts[n - 1][g.value] \subseteq (UNION {parts[n - 1][f.value] : f \in v.fields}) \ {"placeholder"}
      BY <2>1, <3>1, <3>3
    <3>5. remove[n][v] \in {Dict("", {}), Dict(v.type, F)}
      BY <2>1, <2>4, RemovedByKind
    <3>6. v.type \in Name /\ "" \in Name
      BY <2>4, NameAssumption DEF IsDict
    <3> HIDE DEF F
    <3>7. parts[n][Dict(v.type, F)] = UNION {parts[n - 1][g.value] : g \in F}
      BY <3>3, <3>6, DictMade
    <3>8. parts[n][Dict("", {})] = {}
      BY EmptyDict
    <3>9. parts[n][v] = UNION {parts[n - 1][f.value] : f \in v.fields}
      BY <2>4, PartsOfSanitized
    <3>10. parts[n][Dict(v.type, F)] \subseteq parts[n][v] \ {"placeholder"}
      BY <3>4, <3>7, <3>9
    <3> QED BY <3>5, <3>8, <3>10
  <2> QED BY <1>2, <2>3, <2>4
<1> HIDE DEF Less
<1>3. 0 \in Ns
  <2>1. \A v \in Json[0] : IsNothing(v) \/ IsStr(v)
    BY Depths, ValueCases
  <2> QED BY <1>1, <2>1, Depths
<1>4. ASSUME NEW n \in 1..MaxDepth, n - 1 \in Ns PROVE n \in Ns
  BY <1>1, <1>2, <1>4, ValueCases, Depths
<1> HIDE DEF Ns
<1>5. \A n \in 0..MaxDepth : n \in Ns
  BY <1>3, <1>4, DepthInduction
<1> QED
  BY <1>5 DEF Ns, Less

-----------------------------------------------------------------------------
(* Well-formed values. *)

LEMMA FormedByKind ==
  ASSUME NEW n \in 0..MaxDepth, NEW v \in WellFormed[n]
  PROVE  /\ v \in Json[n]
         /\ IsStr(v) => "base64" \notin v.parts
         /\ IsList(n, v) => v.items \subseteq WellFormed[n - 1]
         /\ IsDict(n, v) => \A f \in v.fields :
              /\ v.type \in ImageTypes \/ f.key \in ImageKeys => "words" \notin parts[n - 1][f.value]
              /\ v.type \in TextTypes /\ f.key \notin TextKeys => "words" \notin parts[n - 1][f.value]
              /\ v.type \in ImageTypes \/ f.key \in ImageKeys \/ f.value \in WellFormed[n - 1]
<1>1. v \in Json[n] /\ IsWellFormed(WellFormed[n - 1], parts[n - 1], v)
  BY FormedExists
<1>2. IsStr(v) => "base64" \notin v.parts
  BY <1>1 DEF IsWellFormed, IsStr
<1>3. IsList(n, v) => v.items \subseteq WellFormed[n - 1]
  BY <1>1 DEF IsWellFormed, IsList
<1>4. ASSUME IsDict(n, v), NEW f \in v.fields
      PROVE  /\ v.type \in ImageTypes \/ f.key \in ImageKeys => "words" \notin parts[n - 1][f.value]
             /\ v.type \in TextTypes /\ f.key \notin TextKeys => "words" \notin parts[n - 1][f.value]
             /\ v.type \in ImageTypes \/ f.key \in ImageKeys \/ f.value \in WellFormed[n - 1]
  BY <1>1, <1>4 DEF IsWellFormed, IsDict, ImageTypes, ImageKeys, TextTypes, TextKeys
<1> QED
  BY <1>1, <1>2, <1>3, <1>4

\* The bare base64 goes with the items and the keys that it stands in.
THEOREM NoBase64Left ==
  \A n \in 0..MaxDepth : \A v \in WellFormed[n] : "base64" \notin parts[n][sanitize[n][v]]
<1> DEFINE Clean(n, v) == "base64" \notin parts[n][sanitize[n][v]]
           Ns == {n \in 0..MaxDepth : \A v \in WellFormed[n] : Clean(n, v)}
<1>1. ASSUME NEW n \in 0..MaxDepth, NEW v \in WellFormed[n], IsNothing(v) \/ IsStr(v) PROVE Clean(n, v)
  <2>1. v \in Json[n]
    BY FormedByKind
  <2>2. parts[n][sanitize[n][v]] \subseteq (parts[n][v] \ {"dataURL"}) \cup {"placeholder"}
    BY <2>1, SanitizedParts
  <2>3. "base64" \notin parts[n][v]
    <3>1. CASE IsNothing(v)
      BY <2>1, <3>1, PartsByKind
    <3>2. CASE IsStr(v)
      <4>1. "base64" \notin v.parts /\ v = Str(v.parts) /\ v.parts \subseteq Part
        BY <3>2, FormedByKind DEF IsStr
      <4>2. parts[n][Str(v.parts)] = v.parts
        BY <4>1, PartsByKind
      <4> QED BY <4>1, <4>2
    <3> QED BY <1>1, <3>1, <3>2
  <2> QED BY <2>2, <2>3
<1>2. ASSUME NEW n \in 1..MaxDepth, n - 1 \in Ns, NEW v \in WellFormed[n], IsList(n, v) \/ IsDict(n, v)
      PROVE  Clean(n, v)
  <2>1. n \in 0..MaxDepth /\ n - 1 \in 0..MaxDepth /\ \A x \in WellFormed[n - 1] : Clean(n - 1, x)
    BY <1>2, Depths
  <2>2. v \in Json[n]
    BY <2>1, FormedByKind
  <2>3. CASE IsList(n, v)
    <3>1. v.items \subseteq WellFormed[n - 1]
      BY <2>1, <2>3, FormedByKind
    <3>2. parts[n][sanitize[n][v]] = UNION {parts[n - 1][sanitize[n - 1][x]] : x \in v.items}
      BY <2>2, <2>3, PartsOfSanitized
    <3> QED BY <2>1, <3>1, <3>2
  <2>4. CASE IsDict(n, v) /\ v.type \in ImageTypes
    <3>1. parts[n][sanitize[n][v]] = {"placeholder"}
      BY <2>2, <2>4, PartsOfSanitized
    <3> QED BY <3>1
  <2>5. CASE IsDict(n, v) /\ v.type \notin ImageTypes
    <3>1. parts[n - 1][ImagePlaceholder] = {"placeholder"}
      BY <2>1, PlaceholderMade, PartsByKind
    <3>2. \A f \in v.fields : f.key \in ImageKeys \/ f.value \in WellFormed[n - 1]
      BY <2>1, <2>5, FormedByKind
    <3>3. \A f \in v.fields : "base64" \notin parts[n - 1][KeptValue(n - 1, f)]
      BY <2>1, <3>1, <3>2 DEF KeptValue
    <3>4. parts[n][sanitize[n][v]] = UNION {parts[n - 1][KeptValue(n - 1, f)] : f \in v.fields}
      BY <2>2, <2>5, PartsOfSanitized
    <3> QED BY <3>3, <3>4
  <2> QED BY <1>2, <2>3, <2>4, <2>5
<1> HIDE DEF Clean
<1>3. 0 \in Ns
  <2>1. \A v \in WellFormed[0] : IsNothing(v) \/ IsStr(v)
    BY Depths, ValueCases, FormedByKind
  <2> QED BY <1>1, <2>1, Depths
<1>4. ASSUME NEW n \in 1..MaxDepth, n - 1 \in Ns PROVE n \in Ns
  <2>1. n \in 0..MaxDepth
    BY Depths
  <2>2. \A v \in WellFormed[n] : IsNothing(v) \/ IsStr(v) \/ IsList(n, v) \/ IsDict(n, v)
    BY <2>1, ValueCases, FormedByKind
  <2> QED BY <1>1, <1>2, <1>4, <2>1, <2>2
<1> HIDE DEF Ns
<1>5. \A n \in 0..MaxDepth : n \in Ns
  BY <1>3, <1>4, DepthInduction
<1> QED
  BY <1>5 DEF Ns, Clean

\* What is dropped as empty has no parts.
LEMMA EmptyParts ==
  ASSUME NEW n \in 0..MaxDepth, NEW v \in Json[n], v \in Empty
  PROVE  parts[n][v] = {} /\ parts[n][sanitize[n][v]] \subseteq {"placeholder"}
<1>1. parts[n][v] = {}
  <2>1. CASE v = Null
    BY <2>1, PartsByKind DEF IsNothing, Null
  <2>2. CASE v = Str({})
    BY <2>2, PartsByKind
  <2>3. CASE v = List({})
    <3>1. v.kind = "list" /\ v.items = {}
      BY <2>3 DEF List
    <3>2. n \in 1..MaxDepth
      BY <3>1, ValueCases DEF IsNothing, IsStr
    <3>3. parts[n][List({})] = UNION {parts[n - 1][x] : x \in {}}
      BY <3>2, PartsByKind
    <3> QED BY <2>3, <3>3
  <2>4. CASE v = Dict("", {})
    <3>1. v.kind = "dict"
      BY <2>4 DEF Dict
    <3>2. n \in 1..MaxDepth
      BY <3>1, ValueCases DEF IsNothing, IsStr
    <3> QED BY <2>4, <3>2, EmptyDict
  <2> QED BY <2>1, <2>2, <2>3, <2>4 DEF Empty
<1> QED
  BY <1>1, SanitizedParts

\* Words outlast the image they came with, when it is taken out, its placeholder
\* is, and what is left goes through sanitize_images again.
THEOREM WordsOutlast ==
  \A n \in 0..MaxDepth : \A v \in WellFormed[n] :
    "words" \in parts[n][v] => "words" \in parts[n][sanitize[n][remove[n][sanitize[n][v]]]]
<1> DEFINE twice(n, v) == sanitize[n][remove[n][sanitize[n][v]]]
           Ns == {n \in 0..MaxDepth : \A v \in WellFormed[n] :
                    "words" \in parts[n][v] => "words" \in parts[n][twice(n, v)]}
<1>1. ASSUME NEW n \in 0..MaxDepth, NEW v \in Json[n], IsNothing(v) \/ IsStr(v), "words" \in parts[n][v]
      PROVE  "words" \in parts[n][twice(n, v)]
  <2>1. IsStr(v)
    BY <1>1, PartsByKind
  <2>2. ASSUME NEW p, p \subseteq Part, "words" \in p
        PROVE  /\ \E q : q \subseteq Part /\ "words" \in q /\ sanitize[n][Str(p)] = Str(q)
               /\ \E q : q \subseteq Part /\ "words" \in q /\ remove[n][Str(p)] = Str(q)
               /\ parts[n][Str(p)] = p
    <3>1. Str(p) \in Json[n] /\ IsStr(Str(p)) /\ Str(p).parts = p
      BY <2>2, StrMade, ValuesMade DEF IsStr, Str
    <3> DEFINE q == IF "dataURL" \in p THEN (p \ {"dataURL"}) \cup {"placeholder"} ELSE p
    <3>2. q \subseteq Part /\ "words" \in q
      BY <2>2, PlaceholderMade
    <3>3. sanitize[n][Str(p)] = Str(q)
      BY <3>1, SanitizedByKind
    <3>4. remove[n][Str(p)] = Str(p \ {"placeholder"})
      BY <3>1, RemovedByKind
    <3> QED BY <2>2, <3>2, <3>3, <3>4, PartsByKind
  <2>3. v = Str(v.parts) /\ v.parts \subseteq Part
    BY <2>1 DEF IsStr
  <2>4. "words" \in v.parts
    BY <1>1, <2>3, PartsByKind
  <2>5. PICK a : a \subseteq Part /\ "words" \in a /\ sanitize[n][v] = Str(a)
    BY <2>2, <2>3, <2>4
  <2>6. PICK b : b \subseteq Part /\ "words" \in b /\ remove[n][Str(a)] = Str(b)
    BY <2>2, <2>5
  <2>7. PICK c : c \subseteq Part /\ "words" \in c /\ sanitize[n][Str(b)] = Str(c)
    BY <2>2, <2>6
  <2> QED BY <2>2, <2>5, <2>6, <2>7
<1>2. ASSUME NEW n \in 1..MaxDepth, n - 1 \in Ns, NEW x \in WellFormed[n - 1], "words" \in parts[n - 1][x]
      PROVE  LET s == sanitize[n - 1][x]
                 r == remove[n - 1][s]
             IN /\ s \in Json[n - 1] /\ r \in Json[n - 1] /\ r \notin Empty
                /\ "words" \in parts[n - 1][sanitize[n - 1][r]]
  <2> DEFINE s == sanitize[n - 1][x]
             r == remove[n - 1][s]
  <2>1. n - 1 \in 0..MaxDepth /\ x \in Json[n - 1]
    BY Depths, FormedByKind
  <2>2. s \in Json[n - 1] /\ r \in Json[n - 1]
    BY <2>1, SanitizedIsJson, RemovedIsJson
  <2>3. "words" \in parts[n - 1][sanitize[n - 1][r]]
    BY <1>2
  <2> HIDE DEF r
  <2>4. r \notin Empty
    BY <2>1, <2>2, <2>3, EmptyParts
  <2> QED BY <2>2, <2>3, <2>4 DEF r
<1> HIDE DEF Ns
<1>3. ASSUME NEW n \in 1..MaxDepth, n - 1 \in Ns, NEW v \in WellFormed[n], IsList(n, v),
             "words" \in parts[n][v]
      PROVE  "words" \in parts[n][twice(n, v)]
  <2> DEFINE S == {sanitize[n - 1][x] : x \in v.items}
             T == {remove[n - 1][s] : s \in S} \ Empty
  <2>1. n \in 0..MaxDepth /\ n - 1 \in 0..MaxDepth /\ v \in Json[n]
    BY Depths, FormedByKind
  <2>2. v.items \subseteq Json[n - 1] /\ v.items \subseteq WellFormed[n - 1]
    BY <1>3, <2>1, FormedByKind DEF IsList
  <2>3. PICK x \in v.items : "words" \in parts[n - 1][x]
    BY <1>3, <2>1, PartsOfSanitized
  <2> DEFINE s == sanitize[n - 1][x]
             r == remove[n - 1][s]
  <2>4. /\ s \in S /\ r \in T
        /\ "words" \in parts[n - 1][sanitize[n - 1][r]]
    BY <1>2, <1>3, <2>2, <2>3
  <2>5. S \subseteq Json[n - 1]
    BY <2>1, <2>2, SanitizedIsJson
  <2>6. T \subseteq Json[n - 1]
    BY <2>1, <2>5, RemovedIsJson
  <2>7. sanitize[n][v] = List(S)
    BY <1>3, <2>1, SanitizedByKind
  <2> HIDE DEF S
  <2>8. List(S) \in Json[n] /\ IsList(n, List(S)) /\ List(S).items = S
    BY <2>5, ValuesMade DEF IsList, List
  <2>9. remove[n][List(S)] = List(T)
    BY <2>1, <2>8, RemovedByKind
  <2> HIDE DEF T, r
  <2>10. List(T) \in Json[n] /\ IsList(n, List(T)) /\ List(T).items = T
    BY <2>6, ValuesMade DEF IsList, List
  <2>11. parts[n][sanitize[n][List(T)]] = UNION {parts[n - 1][sanitize[n - 1][y]] : y \in T}
    BY <2>10, PartsOfSanitized
  <2> QED BY <2>4, <2>7, <2>9, <2>11
<1>4. ASSUME NEW n \in 1..MaxDepth, n - 1 \in Ns, NEW v \in WellFormed[n], IsDict(n, v),
             "words" \in parts[n][v]
      PROVE  "words" \in parts[n][twice(n, v)]
  <2> DEFINE F == {Field(f.key, KeptValue(n - 1, f)) : f \in v.fields}
             G == Cleaned(n - 1, F)
  <2>1. n \in 0..MaxDepth /\ n - 1 \in 0..MaxDepth /\ v \in Json[n]
    BY Depths, FormedByKind
  <2>2. v.type \in Name /\ \A f \in v.fields : f.key \in Name /\ f.value \in Json[n - 1]
    BY <1>4 DEF IsDict
  <2>3. PICK f \in v.fields : "words" \in parts[n - 1][f.value]
    BY <1>4, <2>1, PartsOfSanitized
  <2>4. /\ v.type \notin ImageTypes /\ f.key \notin ImageKeys /\ f.value \in WellFormed[n - 1]
        /\ v.type \in TextTypes => f.key \in TextKeys
    BY <1>4, <2>1, <2>3, FormedByKind
  <2> DEFINE s == sanitize[n - 1][f.value]
             r == remove[n - 1][s]
  <2>5. r \notin Empty /\ "words" \in parts[n - 1][sanitize[n - 1][r]]
    BY <1>2, <1>4, <2>3, <2>4
  <2>6. Field(f.key, s) \in F
    BY <2>3, <2>4 DEF KeptValue
  <2>7. \A g \in F : g \in [key: Name, value: Json[n - 1]]
    <3>1. \A h \in v.fields : KeptValue(n - 1, h) \in Json[n - 1]
      BY <2>1, <2>2, SanitizedIsJson, PlaceholderMade, ValuesMade DEF KeptValue
    <3> QED BY <2>2, <3>1 DEF Field
  <2>8. sanitize[n][v] = Dict(v.type, F)
    BY <1>4, <2>1, <2>4, SanitizedByKind
  <2> HIDE DEF F
  <2>9. Dict(v.type, F) \in Json[n] /\ IsDict(n, Dict(v.type, F)) /\ Dict(v.type, F).fields = F
        /\ Dict(v.type, F).type = v.type
    BY <2>2, <2>7, DictIsDict
  <2>10. Field(f.key, r) \in G
    <3>1. Field(f.key, s).key = f.key /\ Field(f.key, s).value = s /\ Field(f.key, r).value = r
      BY DEF Field
    <3>2. Field(f.key, r) \in {Field(g.key, remove[n - 1][g.value]) : g \in F}
      BY <2>6, <3>1
    <3> QED BY <2>5, <3>1, <3>2 DEF Cleaned
  <2>11. \A g \in G : g \in [key: Name, value: Json[n - 1]]
    <3>1. \A g \in F : remove[n - 1][g.value] \in Json[n - 1]
      BY <2>1, <2>7, RemovedIsJson
    <3> QED BY <2>7, <3>1 DEF Cleaned, Field
  <2>12. remove[n][Dict(v.type, F)] = Dict(v.type, G)
    <3>1. Field(f.key, r).key = f.key
      BY DEF Field
    <3>2. ~(v.type \in TextTypes /\ \A g \in G : g.key \notin TextKeys)
      BY <2>4, <2>10, <3>1
    <3> QED BY <2>1, <2>9, <3>2, RemovedByKind
  <2> HIDE DEF G, r
  <2>13. Dict(v.type, G) \in Json[n] /\ IsDict(n, Dict(v.type, G)) /\ Dict(v.type, G).fields = G
         /\ Dict(v.type, G).type = v.type
    BY <2>2, <2>11, DictIsDict
  <2>14. parts[n][sanitize[n][Dict(v.type, G)]] = UNION {parts[n - 1][KeptValue(n - 1, g)] : g \in G}
    BY <2>4, <2>13, PartsOfSanitized
  <2>15. KeptValue(n - 1, Field(f.key, r)) = sanitize[n - 1][r]
    BY <2>4 DEF KeptValue, Field
  <2>16. "words" \in parts[n - 1][KeptValue(n - 1, Field(f.key, r))]
    BY <2>5, <2>15
  <2> QED BY <2>8, <2>10, <2>12, <2>14, <2>16
<1>5. 0 \in Ns
  <2>1. \A v \in WellFormed[0] : v \in Json[0] /\ (IsNothing(v) \/ IsStr(v))
    BY Depths, ValueCases, FormedByKind
  <2> QED BY <1>1, <2>1, Depths DEF Ns
<1>6. ASSUME NEW n \in 1..MaxDepth, n - 1 \in Ns PROVE n \in Ns
  <2>1. n \in 0..MaxDepth
    BY Depths
  <2>2. \A v \in WellFormed[n] : v \in Json[n] /\ (IsNothing(v) \/ IsStr(v) \/ IsList(n, v) \/ IsDict(n, v))
    BY <2>1, ValueCases, FormedByKind
  <2>3. \A v \in WellFormed[n] : "words" \in parts[n][v] => "words" \in parts[n][twice(n, v)]
    BY <1>1, <1>3, <1>4, <1>6, <2>1, <2>2
  <2> QED BY <2>1, <2>3 DEF Ns
<1>7. \A n \in 0..MaxDepth : n \in Ns
  BY <1>5, <1>6, DepthInduction
<1> QED
  BY <1>7 DEF Ns

-----------------------------------------------------------------------------
(* What is stored and remembered of one value. *)

LEMMA PartsArePart == \A n \in 0..MaxDepth : \A v \in Json[n] : parts[n][v] \subseteq Part
<1> DEFINE Ns == {n \in 0..MaxDepth : \A v \in Json[n] : parts[n][v] \subseteq Part}
<1>1. ASSUME NEW n \in 0..MaxDepth, NEW v \in Json[n], IsNothing(v) \/ IsStr(v)
      PROVE  parts[n][v] \subseteq Part
  BY <1>1, PartsByKind DEF IsStr
<1>2. ASSUME NEW n \in 1..MaxDepth, n - 1 \in Ns, NEW v \in Json[n], IsList(n, v) \/ IsDict(n, v)
      PROVE  parts[n][v] \subseteq Part
  <2>1. \A x \in Json[n - 1] : parts[n - 1][x] \subseteq Part
    BY <1>2
  <2>2. CASE IsList(n, v)
    <3>1. v.items \subseteq Json[n - 1] /\ parts[n][v] = UNION {parts[n - 1][x] : x \in v.items}
      BY <2>2, PartsOfSanitized DEF IsList
    <3> QED BY <2>1, <3>1
  <2>3. CASE IsDict(n, v)
    <3>1. /\ \A f \in v.fields : f.value \in Json[n - 1]
          /\ parts[n][v] = UNION {parts[n - 1][f.value] : f \in v.fields}
      BY <2>3, PartsOfSanitized DEF IsDict
    <3> QED BY <2>1, <3>1
  <2> QED BY <1>2, <2>2, <2>3
<1>3. 0 \in Ns
  <2>1. \A v \in Json[0] : IsNothing(v) \/ IsStr(v)
    BY Depths, ValueCases
  <2> QED BY <1>1, <2>1, Depths
<1>4. ASSUME NEW n \in 1..MaxDepth, n - 1 \in Ns PROVE n \in Ns
  BY <1>1, <1>2, <1>4, ValueCases, Depths
<1> HIDE DEF Ns
<1>5. \A n \in 0..MaxDepth : n \in Ns
  BY <1>3, <1>4, DepthInduction
<1> QED
  BY <1>5 DEF Ns

\* What is found in a value, when it has been sanitized and when its placeholders
\* have gone.
LEMMA SanitizeFacts ==
  ASSUME NEW v \in Json[MaxDepth]
  PROVE  /\ sanitize_images(v) \in Json[MaxDepth] /\ remove_image_placeholders(v) \in Json[MaxDepth]
         /\ PartsOf(v) \subseteq Part
         /\ PartsOf(sanitize_images(v)) \subseteq (PartsOf(v) \ {"dataURL"}) \cup {"placeholder"}
         /\ PartsOf(remove_image_placeholders(v)) \subseteq PartsOf(v) \ {"placeholder"}
<1>1. MaxDepth \in 0..MaxDepth
  BY Depths
<1>2. sanitize_images(v) \in Json[MaxDepth] /\ remove_image_placeholders(v) \in Json[MaxDepth]
  BY <1>1, SanitizedIsJson, RemovedIsJson DEF sanitize_images, remove_image_placeholders
<1>3. PartsOf(v) \subseteq Part
  BY <1>1, PartsArePart DEF PartsOf
<1>4. PartsOf(sanitize_images(v)) \subseteq (PartsOf(v) \ {"dataURL"}) \cup {"placeholder"}
  BY <1>1, SanitizedParts DEF PartsOf, sanitize_images
<1>5. PartsOf(remove_image_placeholders(v)) \subseteq PartsOf(v) \ {"placeholder"}
  BY <1>1, RemovedParts DEF PartsOf, remove_image_placeholders
<1> QED
  BY <1>2, <1>3, <1>4, <1>5

LEMMA StrFacts ==
  ASSUME NEW p, p \subseteq Part
  PROVE  Str(p) \in Json[MaxDepth] /\ PartsOf(Str(p)) = p /\ Str(p).kind = "str"
<1>1. MaxDepth \in 0..MaxDepth
  BY Depths
<1>2. Str(p) \in Json[MaxDepth]
  BY <1>1, StrMade, ValuesMade
<1>3. parts[MaxDepth][Str(p)] = p
  BY <1>1, PartsByKind
<1> QED
  BY <1>2, <1>3 DEF PartsOf, Str

LEMMA JsonTextFacts ==
  ASSUME NEW v \in Json[MaxDepth]
  PROVE  JsonText(v) \in Json[MaxDepth] /\ PartsOf(JsonText(v)) = PartsOf(v) \cup {"syntax"}
<1> DEFINE p == PartsOf(v) \cup {"syntax"}
<1>1. p \subseteq Part
  BY SanitizeFacts DEF Part
<1> HIDE DEF p
<1>2. Str(p) \in Json[MaxDepth] /\ PartsOf(Str(p)) = p
  BY <1>1, StrFacts
<1> QED
  BY <1>2 DEF JsonText, p

\* Words in a text stay, whatever is taken out beside them.
LEMMA WordsStay ==
  ASSUME NEW p, p \subseteq Part, "words" \in p
  PROVE  "words" \in PartsOf(MemorySafeValue(Str(p)))
<1> DEFINE q == IF "dataURL" \in p THEN (p \ {"dataURL"}) \cup {"placeholder"} ELSE p
           r == q \ {"placeholder"}
<1>1. MaxDepth \in 0..MaxDepth
  BY Depths
<1>2. q \subseteq Part /\ r \subseteq Part /\ "words" \in r
  BY PlaceholderMade
<1>3. \A s : s \subseteq Part => Str(s) \in Json[MaxDepth] /\ IsStr(Str(s)) /\ Str(s).parts = s
  BY StrFacts DEF IsStr, Str
<1>4. sanitize[MaxDepth][Str(p)] = Str(q)
  <2> DEFINE t == Str(p)
  <2>1. t \in Json[MaxDepth] /\ IsStr(t) /\ t.parts = p
    BY <1>3
  <2> HIDE DEF t
  <2>2. sanitize[MaxDepth][t] = Str(IF "dataURL" \in t.parts
                                    THEN (t.parts \ {"dataURL"}) \cup {"placeholder"}
                                    ELSE t.parts)
    BY <1>1, <2>1, SanitizedByKind
  <2> QED BY <2>1, <2>2 DEF t
<1>5. remove[MaxDepth][Str(q)] = Str(r)
  <2> DEFINE t == Str(q)
  <2>1. t \in Json[MaxDepth] /\ IsStr(t) /\ t.parts = q
    BY <1>2, <1>3
  <2> HIDE DEF t
  <2>2. remove[MaxDepth][t] = Str(t.parts \ {"placeholder"})
    BY <1>1, <2>1, RemovedByKind
  <2> QED BY <2>1, <2>2 DEF t
<1> HIDE DEF q, r
<1>6. PartsOf(Str(r)) = r
  BY <1>2, StrFacts
<1> QED
  BY <1>2, <1>4, <1>5, <1>6 DEF MemorySafeValue, sanitize_images, remove_image_placeholders

\* Nothing of an image is left in what the memory gets of a value that had no
\* base64 of its own.
LEMMA MemoryFacts ==
  ASSUME NEW v \in Json[MaxDepth], "base64" \notin PartsOf(v)
  PROVE  PartsOf(MemorySafeValue(v)) \cap {"dataURL", "base64", "placeholder"} = {}
<1> DEFINE s == sanitize_images(v)
<1>1. s \in Json[MaxDepth] /\ PartsOf(s) \subseteq (PartsOf(v) \ {"dataURL"}) \cup {"placeholder"}
  BY SanitizeFacts
<1>2. MemorySafeValue(v) = remove_image_placeholders(s)
  BY DEF MemorySafeValue
<1> HIDE DEF s
<1>3. PartsOf(remove_image_placeholders(s)) \subseteq PartsOf(s) \ {"placeholder"}
  BY <1>1, SanitizeFacts
<1> QED
  BY <1>1, <1>2, <1>3

\* The arguments of a call: in the session they are a text.
LEMMA ArgumentFacts ==
  ASSUME NEW v \in Argument
  PROVE  /\ ~HasImageData(sanitize_images(JsonText(v)))
         /\ ~HasImageData(sanitize_images(v))
         /\ PartsOf(MemorySafeValue(sanitize_images(v))) \cap {"dataURL", "base64", "placeholder"} = {}
<1>1. v \in Json[MaxDepth] /\ "base64" \notin PartsOf(v)
  BY RecordAssumption
<1>2. JsonText(v) \in Json[MaxDepth] /\ "base64" \notin PartsOf(JsonText(v))
  BY <1>1, JsonTextFacts
<1>3. ASSUME NEW x \in Json[MaxDepth], "base64" \notin PartsOf(x)
      PROVE  /\ sanitize_images(x) \in Json[MaxDepth]
             /\ PartsOf(sanitize_images(x)) \cap ImageData = {}
  BY <1>3, SanitizeFacts DEF ImageData
<1>4. sanitize_images(v) \in Json[MaxDepth] /\ "base64" \notin PartsOf(sanitize_images(v))
  BY <1>1, <1>3 DEF ImageData
<1> QED
  BY <1>1, <1>2, <1>3, <1>4, MemoryFacts DEF HasImageData

\* The output of a call: what is in the session, in the record and in the memory.
LEMMA OutputFacts ==
  ASSUME NEW v \in Output
  PROVE  /\ ~HasImageData(sanitize_images(v))
         /\ ~HasImageData(OutputPreview(v))
         /\ PartsOf(MemorySafeValue(OutputPreview(v))) \cap {"dataURL", "base64", "placeholder"} = {}
         /\ "words" \in PartsOf(v) => "words" \in PartsOf(MemorySafeValue(OutputPreview(v)))
<1> DEFINE s == sanitize_images(v)
           r == remove_image_placeholders(s)
           p == OutputPreview(v)
<1>1. MaxDepth \in 0..MaxDepth /\ v \in WellFormed[MaxDepth] /\ v \in Json[MaxDepth]
  <2>1. MaxDepth \in 0..MaxDepth /\ v \in WellFormed[MaxDepth]
    BY Depths, RecordAssumption
  <2> QED BY <2>1, FormedByKind
<1>2. s \in Json[MaxDepth] /\ PartsOf(s) \cap ImageData = {}
  <2>1. "base64" \notin PartsOf(s)
    BY <1>1, NoBase64Left DEF PartsOf, sanitize_images
  <2> QED BY <1>1, <2>1, SanitizeFacts DEF ImageData
<1>3. "words" \in PartsOf(v) => "words" \in PartsOf(sanitize_images(r))
  BY <1>1, WordsOutlast DEF PartsOf, sanitize_images, remove_image_placeholders
<1>4. p = IF r \in Empty THEN Str({}) ELSE IF r.kind = "str" THEN r ELSE JsonText(sanitize_images(r))
  BY DEF OutputPreview, json_dump
<1> HIDE DEF s
<1>5. r \in Json[MaxDepth] /\ PartsOf(r) \cap {"dataURL", "base64", "placeholder"} = {}
  BY <1>2, SanitizeFacts DEF ImageData
<1> HIDE DEF r, p
<1>6. /\ sanitize_images(r) \in Json[MaxDepth]
      /\ PartsOf(sanitize_images(r)) \subseteq PartsOf(r) \cup {"placeholder"}
  BY <1>5, SanitizeFacts
<1>7. ASSUME "words" \in PartsOf(v) PROVE "words" \in PartsOf(r) /\ r \notin Empty
  <2>1. "words" \in PartsOf(r)
    BY <1>3, <1>6, <1>7
  <2> QED BY <1>1, <1>5, <2>1, EmptyParts DEF PartsOf
<1>8. \E q : /\ q \subseteq Part /\ p = Str(q) /\ q \cap ImageData = {}
             /\ "words" \in PartsOf(v) => "words" \in q
  <2>1. CASE r \in Empty
    <3>1. p = Str({}) /\ "words" \notin PartsOf(v)
      BY <1>4, <1>7, <2>1
    <3> QED BY <3>1
  <2>2. CASE r \notin Empty /\ r.kind = "str"
    <3>1. IsStr(r)
      BY <1>1, <1>5, <2>2, ValueCases DEF IsNothing, IsList, IsDict
    <3>2. r = Str(r.parts) /\ r.parts \subseteq Part
      BY <3>1 DEF IsStr
    <3>3. PartsOf(Str(r.parts)) = r.parts
      BY <3>2, StrFacts
    <3>4. p = r
      BY <1>4, <2>2
    <3>5. r.parts = PartsOf(r)
      BY <3>2, <3>3
    <3>6. r.parts \cap ImageData = {}
      BY <1>5, <3>5 DEF ImageData
    <3> QED BY <1>7, <3>2, <3>4, <3>5, <3>6
  <2>3. CASE r \notin Empty /\ r.kind # "str"
    <3> DEFINE q == PartsOf(sanitize_images(r)) \cup {"syntax"}
    <3>1. p = Str(q)
      BY <1>4, <2>3 DEF JsonText
    <3>2. q \subseteq Part
      BY <1>6, SanitizeFacts DEF Part
    <3>3. q \cap ImageData = {}
      BY <1>5, <1>6 DEF ImageData
    <3> QED BY <1>3, <3>1, <3>2, <3>3
  <2> QED BY <2>1, <2>2, <2>3
<1>9. PICK q : /\ q \subseteq Part /\ p = Str(q) /\ q \cap ImageData = {}
               /\ "words" \in PartsOf(v) => "words" \in q
  BY <1>8
<1>10. p \in Json[MaxDepth] /\ PartsOf(p) = q
  BY <1>9, StrFacts
<1>11. PartsOf(MemorySafeValue(p)) \cap {"dataURL", "base64", "placeholder"} = {}
  BY <1>9, <1>10, MemoryFacts DEF ImageData
<1>12. "words" \in PartsOf(v) => "words" \in PartsOf(MemorySafeValue(p))
  BY <1>9, WordsStay
<1>13. ~HasImageData(s) /\ ~HasImageData(p)
  BY <1>2, <1>9, <1>10 DEF HasImageData
<1> QED
  BY <1>11, <1>12, <1>13 DEF s, p

\* No text is taken for an image once it has been sanitized, and no placeholder is.
LEMMA TextIsNoImage ==
  ASSUME NEW n \in 0..MaxDepth
  PROVE  /\ \A v \in Json[n] : IsStr(v) => sanitize[n][v] \in Json[n] /\ ~contains[n][sanitize[n][v]]
         /\ ImagePlaceholder \in Json[n] /\ ~contains[n][ImagePlaceholder]
<1>1. ASSUME NEW q, q \subseteq Part, "dataURL" \notin q
      PROVE  Str(q) \in Json[n] /\ ~contains[n][Str(q)]
  <2>1. Str(q) \in Json[n] /\ Str(q).kind = "str" /\ Str(q).parts = q
    BY <1>1, StrMade, ValuesMade DEF Str
  <2>2. contains[n][Str(q)] = Contains(contains[n - 1], Str(q))
    BY <2>1, ContainsExists
  <2>3. ~Contains(contains[n - 1], Str(q))
    BY <1>1, <2>1 DEF Contains
  <2> QED BY <2>1, <2>2, <2>3
<1>2. ASSUME NEW v \in Json[n], IsStr(v)
      PROVE  sanitize[n][v] \in Json[n] /\ ~contains[n][sanitize[n][v]]
  <2> DEFINE q == IF "dataURL" \in v.parts THEN (v.parts \ {"dataURL"}) \cup {"placeholder"} ELSE v.parts
  <2>1. q \subseteq Part /\ "dataURL" \notin q
    BY <1>2, PlaceholderMade DEF IsStr
  <2>2. sanitize[n][v] = Str(q)
    BY <1>2, SanitizedByKind
  <2> HIDE DEF q
  <2> QED BY <1>1, <2>1, <2>2
<1>3. ImagePlaceholder \in Json[n] /\ ~contains[n][ImagePlaceholder]
  <2>1. {"placeholder"} \subseteq Part /\ "dataURL" \notin {"placeholder"}
    BY PlaceholderMade
  <2> QED BY <1>1, <2>1, PlaceholderMade
<1> QED
  BY <1>2, <1>3

\* A text item with texts that are no images is none.
LEMMA TextItemIsNoImage ==
  ASSUME NEW n \in 1..MaxDepth, NEW F,
         \A f \in F : /\ f \in [key: Name, value: Json[n - 1]]
                      /\ f.key = "text" /\ ~contains[n - 1][f.value]
  PROVE  Dict("input_text", F) \in Json[n] /\ ~contains[n][Dict("input_text", F)]
<1> DEFINE d == Dict("input_text", F)
<1>1. n \in 0..MaxDepth /\ "input_text" \in Name
  BY Depths, NameAssumption
<1>2. d \in Json[n] /\ d.kind = "dict" /\ d.type = "input_text" /\ d.fields = F
  BY <1>1, DictMade DEF Dict
<1> HIDE DEF d
<1>3. contains[n][d] = Contains(contains[n - 1], d)
  BY <1>1, <1>2, ContainsExists
<1>4. d.type \notin ImageTypes /\ "text" \notin ImageKeys
  BY <1>2 DEF ImageTypes, ImageKeys
<1>5. ~Contains(contains[n - 1], d)
  BY <1>2, <1>4 DEF Contains
<1> QED
  BY <1>2, <1>3, <1>5 DEF d

\* An item of an MCP result, an image or a text.
LEMMA ItemIsNoImage ==
  ASSUME NEW n \in 0..MaxDepth, NEW x \in Json[n], x.kind = "dict",
         \/ x.type = "input_image"
         \/ x.type = "input_text" /\ \A f \in x.fields : f.key = "text" /\ f.value.kind = "str"
  PROVE  sanitize[n][x] \in Json[n] /\ ~contains[n][sanitize[n][x]]
<1>1. n \in 1..MaxDepth /\ IsDict(n, x)
  BY ValueCases DEF IsNothing, IsStr, IsList
<1>2. n - 1 \in 0..MaxDepth /\ {"text", "input_text"} \subseteq Name
  BY <1>1, Depths, NameAssumption
<1>3. CASE x.type = "input_image"
  <2> DEFINE F == {Field("text", ImagePlaceholder)}
  <2>1. sanitize[n][x] = Dict("input_text", F)
    BY <1>1, <1>3, SanitizedByKind DEF ImageTypes, Replaced
  <2>2. ImagePlaceholder \in Json[n - 1] /\ ~contains[n - 1][ImagePlaceholder]
    BY <1>2, TextIsNoImage
  <2>3. \A f \in F : /\ f \in [key: Name, value: Json[n - 1]]
                     /\ f.key = "text" /\ ~contains[n - 1][f.value]
    BY <1>2, <2>2 DEF Field
  <2> HIDE DEF F
  <2> QED BY <1>1, <2>1, <2>3, TextItemIsNoImage
<1>4. CASE x.type = "input_text" /\ \A f \in x.fields : f.key = "text" /\ f.value.kind = "str"
  <2> DEFINE F == {Field(f.key, KeptValue(n - 1, f)) : f \in x.fields}
  <2>1. sanitize[n][x] = Dict("input_text", F)
    BY <1>1, <1>4, SanitizedByKind DEF ImageTypes
  <2>2. ASSUME NEW f \in x.fields
        PROVE  /\ f.key = "text" /\ KeptValue(n - 1, f) \in Json[n - 1]
               /\ ~contains[n - 1][KeptValue(n - 1, f)]
    <3>1. f.value \in Json[n - 1] /\ f.key = "text" /\ f.value.kind = "str"
      BY <1>1, <1>4 DEF IsDict
    <3>2. IsStr(f.value)
      BY <1>2, <3>1, ValueCases DEF IsNothing, IsList, IsDict
    <3>3. KeptValue(n - 1, f) = sanitize[n - 1][f.value]
      BY <3>1 DEF KeptValue, ImageKeys
    <3> QED BY <1>2, <3>1, <3>2, <3>3, TextIsNoImage
  <2>3. \A f \in F : /\ f \in [key: Name, value: Json[n - 1]]
                     /\ f.key = "text" /\ ~contains[n - 1][f.value]
    <3>1. \A k, y : Field(k, y).key = k /\ Field(k, y).value = y
      BY DEF Field
    <3>2. \A k \in Name : \A y \in Json[n - 1] : Field(k, y) \in [key: Name, value: Json[n - 1]]
      BY DEF Field
    <3> QED BY <1>2, <2>2, <3>1, <3>2
  <2> HIDE DEF F
  <2> QED BY <1>1, <2>1, <2>3, TextItemIsNoImage
<1> QED
  BY <1>3, <1>4

\* An output in the form of the SDK is no camera frame once it is in the session.
THEOREM SdkFormIsNoFrame ==
  ASSUME NEW v \in Json[MaxDepth], IsSdkForm(v)
  PROVE  ~contains_image(sanitize_images(v))
<1>1. MaxDepth \in 0..MaxDepth /\ MaxDepth \in 1..MaxDepth /\ MaxDepth - 1 \in 0..MaxDepth
  BY Depths
<1>2. CASE v.kind = "str"
  <2>1. IsStr(v)
    BY <1>1, <1>2, ValueCases DEF IsNothing, IsList, IsDict
  <2> QED BY <1>1, <2>1, TextIsNoImage DEF contains_image, sanitize_images
<1>3. CASE v.kind = "list"
  <2> DEFINE S == {sanitize[MaxDepth - 1][x] : x \in v.items}
  <2>1. IsList(MaxDepth, v)
    BY <1>1, <1>3, ValueCases DEF IsNothing, IsStr, IsDict
  <2>2. \A x \in v.items : /\ sanitize[MaxDepth - 1][x] \in Json[MaxDepth - 1]
                           /\ ~contains[MaxDepth - 1][sanitize[MaxDepth - 1][x]]
    <3> TAKE x \in v.items
    <3>1. x \in Json[MaxDepth - 1]
      BY <2>1 DEF IsList
    <3>2. /\ x.kind = "dict"
          /\ \/ x.type = "input_image"
             \/ x.type = "input_text" /\ \A f \in x.fields : f.key = "text" /\ f.value.kind = "str"
      BY <1>3 DEF IsSdkForm
    <3> QED BY <1>1, <3>1, <3>2, ItemIsNoImage
  <2>3. S \subseteq Json[MaxDepth - 1] /\ \A y \in S : ~contains[MaxDepth - 1][y]
    BY <2>2
  <2>4. sanitize[MaxDepth][v] = List(S)
    BY <1>1, <2>1, SanitizedByKind
  <2> HIDE DEF S
  <2>5. List(S) \in Json[MaxDepth] /\ List(S).kind = "list" /\ List(S).items = S
    BY <1>1, <2>3, ValuesMade DEF List
  <2>6. contains[MaxDepth][List(S)] = Contains(contains[MaxDepth - 1], List(S))
    BY <1>1, <2>5, ContainsExists
  <2>7. ~Contains(contains[MaxDepth - 1], List(S))
    BY <2>3, <2>5 DEF Contains
  <2> QED BY <2>4, <2>6, <2>7 DEF contains_image, sanitize_images
<1> QED
  BY <1>2, <1>3 DEF IsSdkForm

-----------------------------------------------------------------------------
(* The run and its log. *)

Event == [name: {"tool_called", "tool_output"}, id: CallId]

CallItem == [type: {"call"}, id: CallId, tool: Tool, value: Argument]

OutputItem == [type: {"output"}, id: CallId, tool: Tool, value: Output]

Item == CallItem \cup OutputItem

RunTypeOK ==
  /\ phase \in {"running", "completed", "failed", "cancelled"}
  /\ batch \in Seq(CallItem)
  /\ items \in Seq(Item)
  /\ queue \in Seq(Event)
  /\ pending \subseteq CallId
  /\ reported \in [CallId -> Seq({"response", "error"})]

-----------------------------------------------------------------------------
(* The events that are not handled. *)

\* The calls that a queue has an event of this name for.
IdsOf(q, name) == {q[k].id : k \in {j \in DOMAIN q : q[j].name = name}}

\* Each event is there once, and the call before its output.
Orderly(q) ==
  \A j, k \in DOMAIN q : q[j].id = q[k].id =>
    /\ q[j].name = q[k].name => j = k
    /\ q[j].name = "tool_called" /\ q[k].name = "tool_output" => j < k

BatchIds == {batch[i].id : i \in DOMAIN batch}

\* The calls of the batch are not answered, and have ids of their own.
BatchOpen ==
  /\ \A i, j \in DOMAIN batch : batch[i].id = batch[j].id => i = j
  /\ BatchIds \cap IdsOf(queue, "tool_output") = {}

\* Nothing has ended of a call that is yet to be logged, pending, or running; each
\* call that has begun will be answered, or is reported.
Progress ==
  /\ Begun <= MaxCalls
  /\ BatchIds \cup IdsOf(queue, "tool_called") \cup IdsOf(queue, "tool_output") \cup pending
       \subseteq 1..Begun
  /\ IdsOf(queue, "tool_called") \cap pending = {}
  /\ \A c \in CallId :
       /\ c \in BatchIds \cup IdsOf(queue, "tool_called") \cup IdsOf(queue, "tool_output") \cup pending
            => reported[c] = <<>>
       /\ c > Begun => reported[c] = <<>>
       /\ c <= Begun => \/ c \in BatchIds \cup IdsOf(queue, "tool_output")
                        \/ reported[c] = <<"response">>

Running == phase = "running" => Orderly(queue) /\ BatchOpen /\ Progress

RunInv == RunTypeOK /\ Running /\ ReportedOnce

-----------------------------------------------------------------------------
(* The queue. *)

LEMMA FunctionIsSeq ==
  ASSUME NEW S, NEW n \in Nat, NEW f \in [1..n -> S]
  PROVE  f \in Seq(S) /\ Len(f) = n
<1>1. f \in Seq(S)
  OBVIOUS
<1>2. Len(f) \in Nat /\ DOMAIN f = 1..Len(f) /\ DOMAIN f = 1..n
  BY <1>1, LenProperties
<1> QED
  BY <1>1, <1>2

LEMMA ConcatIds ==
  ASSUME NEW q \in Seq(Event), NEW r \in Seq(Event), NEW name
  PROVE  IdsOf(q \o r, name) = IdsOf(q, name) \cup IdsOf(r, name)
<1> DEFINE s == q \o r
<1>1. /\ Len(q) \in Nat /\ Len(r) \in Nat /\ Len(s) = Len(q) + Len(r)
      /\ DOMAIN q = 1..Len(q) /\ DOMAIN r = 1..Len(r) /\ DOMAIN s = 1..Len(s)
  BY ConcatProperties, LenProperties
<1>2. \A k \in DOMAIN s : s[k] = IF k <= Len(q) THEN q[k] ELSE r[k - Len(q)]
  BY ConcatProperties, <1>1
<1> HIDE DEF s
<1>3. ASSUME NEW k \in DOMAIN s, s[k].name = name
      PROVE  s[k].id \in IdsOf(q, name) \cup IdsOf(r, name)
  <2>1. CASE k <= Len(q)
    BY <1>1, <1>2, <1>3, <2>1 DEF IdsOf
  <2>2. CASE ~(k <= Len(q))
    <3>1. k - Len(q) \in DOMAIN r /\ s[k] = r[k - Len(q)]
      BY <1>1, <1>2, <2>2
    <3> QED
      BY <1>3, <3>1 DEF IdsOf
  <2> QED
    BY <2>1, <2>2
<1>4. ASSUME NEW k \in DOMAIN q, q[k].name = name PROVE q[k].id \in IdsOf(s, name)
  <2>1. k \in DOMAIN s /\ s[k] = q[k]
    BY <1>1, <1>2
  <2> QED
    BY <1>4, <2>1 DEF IdsOf
<1>5. ASSUME NEW k \in DOMAIN r, r[k].name = name PROVE r[k].id \in IdsOf(s, name)
  <2>1. k + Len(q) \in DOMAIN s /\ s[k + Len(q)] = r[k]
    BY <1>1, <1>2
  <2> QED
    BY <1>5, <2>1 DEF IdsOf
<1>6. IdsOf(s, name) \subseteq IdsOf(q, name) \cup IdsOf(r, name)
  BY <1>3 DEF IdsOf
<1>7. IdsOf(q, name) \subseteq IdsOf(s, name) /\ IdsOf(r, name) \subseteq IdsOf(s, name)
  BY <1>4, <1>5 DEF IdsOf
<1> QED
  BY <1>6, <1>7 DEF s

\* Events of one kind are put behind the others: of calls that have no event of
\* the kind, nor an output that is waiting.
LEMMA ConcatOrderly ==
  ASSUME NEW q \in Seq(Event), NEW r \in Seq(Event), NEW name, Orderly(q),
         \A k \in DOMAIN r : r[k].name = name,
         \A j, k \in DOMAIN r : r[j].id = r[k].id => j = k,
         \A k \in DOMAIN r : r[k].id \notin IdsOf(q, name) \cup IdsOf(q, "tool_output")
  PROVE  Orderly(q \o r)
<1> DEFINE s == q \o r
<1>1. /\ Len(q) \in Nat /\ Len(r) \in Nat /\ Len(s) = Len(q) + Len(r)
      /\ DOMAIN q = 1..Len(q) /\ DOMAIN r = 1..Len(r) /\ DOMAIN s = 1..Len(s)
  BY ConcatProperties, LenProperties
<1>2. \A k \in DOMAIN s : s[k] = IF k <= Len(q) THEN q[k] ELSE r[k - Len(q)]
  BY ConcatProperties, <1>1
<1> HIDE DEF s
<1>3. ASSUME NEW j \in DOMAIN s, NEW k \in DOMAIN s, s[j].id = s[k].id
      PROVE  /\ s[j].name = s[k].name => j = k
             /\ s[j].name = "tool_called" /\ s[k].name = "tool_output" => j < k
  <2>1. CASE j <= Len(q) /\ k <= Len(q)
    <3>1. j \in DOMAIN q /\ k \in DOMAIN q /\ s[j] = q[j] /\ s[k] = q[k]
      BY <1>1, <1>2, <2>1
    <3> QED
      BY <1>3, <3>1 DEF Orderly
  <2>2. CASE j > Len(q) /\ k > Len(q)
    <3>1. /\ j - Len(q) \in DOMAIN r /\ k - Len(q) \in DOMAIN r
          /\ s[j] = r[j - Len(q)] /\ s[k] = r[k - Len(q)]
      BY <1>1, <1>2, <2>2
    <3>2. j - Len(q) = k - Len(q) /\ s[j].name = name /\ s[k].name = name
      BY <1>3, <3>1
    <3>3. j = k
      BY <1>1, <3>2
    <3> QED
      BY <3>2, <3>3
  <2>3. CASE j <= Len(q) /\ k > Len(q)
    <3>1. /\ j \in DOMAIN q /\ k - Len(q) \in DOMAIN r
          /\ s[j] = q[j] /\ s[k] = r[k - Len(q)]
      BY <1>1, <1>2, <2>3
    <3>2. s[k].name = name /\ s[j].id \notin IdsOf(q, name)
      BY <1>3, <3>1
    <3>3. s[j].name # name
      BY <3>1, <3>2 DEF IdsOf
    <3> QED
      BY <1>1, <2>3, <3>2, <3>3
  <2>4. CASE j > Len(q) /\ k <= Len(q)
    <3>1. /\ k \in DOMAIN q /\ j - Len(q) \in DOMAIN r
          /\ s[k] = q[k] /\ s[j] = r[j - Len(q)]
      BY <1>1, <1>2, <2>4
    <3>2. /\ s[j].name = name /\ s[k].id \notin IdsOf(q, name)
          /\ s[k].id \notin IdsOf(q, "tool_output")
      BY <1>3, <3>1
    <3>3. s[k].name # name /\ s[k].name # "tool_output"
      BY <3>1, <3>2 DEF IdsOf
    <3> QED
      BY <3>2, <3>3
  <2> QED
    BY <1>1, <2>1, <2>2, <2>3, <2>4
<1> QED
  BY <1>3 DEF Orderly, s

\* Handling the first event takes its call from those that have one of the kind;
\* an output that is handled is of a call that was handled before.
LEMMA TailOrderly ==
  ASSUME NEW q \in Seq(Event), q # <<>>, Orderly(q)
  PROVE  /\ Head(q) \in Event /\ Tail(q) \in Seq(Event) /\ Orderly(Tail(q))
         /\ \A name : IdsOf(Tail(q), name) = IF Head(q).name = name
                                            THEN IdsOf(q, name) \ {Head(q).id}
                                            ELSE IdsOf(q, name)
         /\ Head(q).id \in IdsOf(q, Head(q).name)
         /\ Head(q).name = "tool_output" => Head(q).id \notin IdsOf(q, "tool_called")
<1> DEFINE t == Tail(q)
<1>1. /\ t \in Seq(Event) /\ Head(q) \in Event /\ Head(q) = q[1]
      /\ Len(q) \in Nat \ {0} /\ Len(t) = Len(q) - 1
      /\ DOMAIN q = 1..Len(q) /\ DOMAIN t = 1..Len(t)
  BY EmptySeq, HeadTailProperties, LenProperties
<1>2. \A k \in DOMAIN t : t[k] = q[k + 1]
  BY HeadTailProperties, <1>1
<1> HIDE DEF t
<1>3. 1 \in DOMAIN q
  BY <1>1
<1>4. \A k \in DOMAIN t : k + 1 \in DOMAIN q /\ k + 1 # 1
  BY <1>1
<1>5. \A k \in DOMAIN q : k # 1 => k - 1 \in DOMAIN t /\ t[k - 1] = q[k]
  <2> SUFFICES ASSUME NEW k \in DOMAIN q, k # 1 PROVE k - 1 \in DOMAIN t /\ t[k - 1] = q[k]
    OBVIOUS
  <2>1. k - 1 \in DOMAIN t /\ (k - 1) + 1 = k
    BY <1>1
  <2> QED
    BY <1>2, <2>1
<1>6. Orderly(t)
  <2> SUFFICES ASSUME NEW j \in DOMAIN t, NEW k \in DOMAIN t, t[j].id = t[k].id
               PROVE  /\ t[j].name = t[k].name => j = k
                      /\ t[j].name = "tool_called" /\ t[k].name = "tool_output" => j < k
    BY DEF Orderly
  <2>1. /\ j + 1 \in DOMAIN q /\ k + 1 \in DOMAIN q /\ q[j + 1] = t[j] /\ q[k + 1] = t[k]
    BY <1>2, <1>4
  <2>2. /\ t[j].name = t[k].name => j + 1 = k + 1
        /\ t[j].name = "tool_called" /\ t[k].name = "tool_output" => j + 1 < k + 1
    BY <2>1 DEF Orderly
  <2> QED
    BY <1>1, <2>2
<1>7. ASSUME NEW name
      PROVE  IdsOf(t, name) = IF Head(q).name = name THEN IdsOf(q, name) \ {Head(q).id}
                              ELSE IdsOf(q, name)
  <2>1. IdsOf(t, name) \subseteq IdsOf(q, name)
    BY <1>2, <1>4 DEF IdsOf
  <2>2. IdsOf(q, name) \ {Head(q).id} \subseteq IdsOf(t, name)
    BY <1>1, <1>5 DEF IdsOf
  <2>3. ASSUME Head(q).name = name PROVE Head(q).id \notin IdsOf(t, name)
    <3>1. ASSUME NEW k \in DOMAIN t, t[k].name = name, t[k].id = Head(q).id PROVE FALSE
      <4>1. q[k + 1].id = q[1].id /\ q[k + 1].name = q[1].name
        BY <1>1, <1>2, <2>3, <3>1
      <4> QED
        BY <1>3, <1>4, <4>1 DEF Orderly
    <3> QED
      BY <3>1 DEF IdsOf
  <2>4. ASSUME Head(q).name # name PROVE IdsOf(q, name) \subseteq IdsOf(t, name)
    BY <1>1, <1>5, <2>4 DEF IdsOf
  <2> QED
    BY <2>1, <2>2, <2>3, <2>4
<1>8. Head(q).id \in IdsOf(q, Head(q).name)
  BY <1>1, <1>3 DEF IdsOf
<1>9. ASSUME Head(q).name = "tool_output" PROVE Head(q).id \notin IdsOf(q, "tool_called")
  <2>1. ASSUME NEW k \in DOMAIN q, q[k].name = "tool_called", q[k].id = Head(q).id PROVE FALSE
    <3>1. k < 1
      BY <1>1, <1>3, <1>9, <2>1 DEF Orderly
    <3> QED
      BY <1>1, <3>1
  <2> QED
    BY <2>1 DEF IdsOf
<1> QED
  BY <1>1, <1>6, <1>7, <1>8, <1>9 DEF t

-----------------------------------------------------------------------------
(* The calls that have begun. *)

CallPositions == {i \in DOMAIN items : IsCall(items[i])}

LEMMA BegunIsNat ==
  ASSUME RunTypeOK
  PROVE  Begun \in Nat /\ IsFiniteSet(CallPositions) /\ Cardinality(CallPositions) \in Nat
<1>1. Len(items) \in Nat /\ DOMAIN items = 1..Len(items) /\ Len(batch) \in Nat
  BY LenProperties DEF RunTypeOK
<1>2. IsFiniteSet(1..Len(items)) /\ CallPositions \subseteq 1..Len(items)
  BY <1>1, FS_Interval DEF CallPositions
<1>3. IsFiniteSet(CallPositions)
  BY <1>2, FS_Subset
<1>4. Cardinality(CallPositions) \in Nat
  BY <1>3, FS_CardinalityType
<1> QED
  BY <1>1, <1>3, <1>4 DEF Begun, CallPositions

LEMMA RunInvInit == RunInit => RunInv
<1> SUFFICES ASSUME RunInit PROVE RunInv
  OBVIOUS
<1>1. RunTypeOK
  BY EmptySeq DEF RunInit, RunTypeOK
<1>2. Begun = 0
  <2>1. CallPositions = {} /\ Len(batch) = 0
    BY EmptySeq DEF RunInit, CallPositions
  <2> QED
    BY <2>1, FS_EmptySet DEF Begun, CallPositions
<1>3. BatchIds = {} /\ IdsOf(queue, "tool_called") = {} /\ IdsOf(queue, "tool_output") = {}
  BY DEF RunInit, BatchIds, IdsOf
<1>4. \A c \in CallId : reported[c] = <<>> /\ ~(c <= 0)
  BY RunAssumption DEF RunInit, CallId
<1>5. Orderly(queue) /\ BatchOpen
  BY <1>3 DEF RunInit, Orderly, BatchOpen
<1>6. Progress
  BY <1>2, <1>3, <1>4, RunAssumption DEF RunInit, Progress
<1>7. ReportedOnce
  BY <1>4, EmptySeq DEF RunInit, ReportedOnce
<1> QED
  BY <1>1, <1>5, <1>6, <1>7 DEF RunInv, Running

-----------------------------------------------------------------------------
(* The steps. *)

Called(n) == [i \in 1..n |-> [name |-> "tool_called", id |-> Begun + i]]

LEMMA CalledBatch ==
  ASSUME RunTypeOK, NEW n \in 1..MaxBatch, NEW asked \in [1..n -> Asked], ModelCalls(asked)
  PROVE  /\ n \in Nat \ {0}
         /\ batch' \in Seq(CallItem) /\ DOMAIN batch' = 1..n /\ Len(batch') = n
         /\ \A i \in 1..n : batch'[i].id = Begun + i
         /\ queue' = queue \o Called(n) /\ Called(n) \in Seq(Event) /\ DOMAIN Called(n) = 1..n
         /\ IdsOf(queue', "tool_output") = IdsOf(queue, "tool_output")
         /\ Begun + n <= MaxCalls
<1>1. /\ n \in Nat \ {0} /\ asked \in Seq(Asked) /\ Len(asked) = n /\ DOMAIN asked = 1..n
  BY RunAssumption, LenProperties
<1>2. Begun \in Nat
  BY BegunIsNat
<1>3. \A i \in 1..n : Begun + i \in CallId
  BY <1>1, <1>2, RunAssumption DEF ModelCalls, CallId
<1>4. Called(n) \in Seq(Event) /\ DOMAIN Called(n) = 1..n
  BY <1>1, <1>3 DEF Event, Called
<1>5. /\ batch' \in Seq(CallItem) /\ DOMAIN batch' = 1..n /\ Len(batch') = n
      /\ \A i \in 1..n : batch'[i].id = Begun + i
  <2>1. batch' = [i \in 1..n |-> [type |-> "call", id |-> Begun + i, tool |-> asked[i].tool,
                                  value |-> asked[i].value]]
    BY <1>1 DEF ModelCalls
  <2>2. \A i \in 1..n : asked[i].tool \in Tool /\ asked[i].value \in Argument
    BY DEF Asked
  <2>3. batch' \in [1..n -> CallItem]
    BY <1>3, <2>1, <2>2 DEF CallItem
  <2>4. batch' \in Seq(CallItem)
    BY <1>1, <2>3, FunctionIsSeq
  <2>5. DOMAIN batch' = 1..n /\ Len(batch') = n
    BY <1>1, <2>1, <2>4, LenProperties
  <2> QED
    BY <2>1, <2>4, <2>5
<1>6. queue' = queue \o Called(n)
  BY <1>1 DEF ModelCalls, Called
<1>7. IdsOf(Called(n), "tool_output") = {}
  BY <1>4 DEF IdsOf, Called
<1>8. IdsOf(queue', "tool_output") = IdsOf(queue, "tool_output")
  <2>1. queue \in Seq(Event)
    BY DEF RunTypeOK
  <2>2. IdsOf(queue \o Called(n), "tool_output")
          = IdsOf(queue, "tool_output") \cup IdsOf(Called(n), "tool_output")
    BY <1>4, <2>1, ConcatIds
  <2> QED
    BY <1>6, <1>7, <2>2
<1>9. Begun + n <= MaxCalls
  BY <1>1 DEF ModelCalls
<1> QED
  BY <1>1, <1>4, <1>5, <1>6, <1>8, <1>9

LEMMA CallsStep ==
  ASSUME RunInv, NEW n \in 1..MaxBatch, NEW asked \in [1..n -> Asked], ModelCalls(asked)
  PROVE  RunInv'
<1> DEFINE called == Called(n)
           new == (Begun + 1)..(Begun + n)
<1>1. /\ RunTypeOK /\ Orderly(queue) /\ BatchOpen /\ Progress /\ ReportedOnce
      /\ phase = "running" /\ phase' = "running"
  BY DEF RunInv, Running, ModelCalls
<1>2. n \in Nat \ {0}
  BY <1>1, CalledBatch
<1>3. Begun \in Nat
  BY <1>1, BegunIsNat
<1>4. Begun + n <= MaxCalls
  BY <1>1, CalledBatch
<1>5. called \in Seq(Event) /\ DOMAIN called = 1..n
  BY <1>1, CalledBatch
<1>6. /\ batch' \in Seq(CallItem)
      /\ DOMAIN batch' = 1..n /\ Len(batch') = n
      /\ \A i \in 1..n : batch'[i].id = Begun + i
  BY <1>1, CalledBatch
<1>7. queue' = queue \o called /\ UNCHANGED <<items, pending, reported>> /\ batch = <<>>
  BY <1>1, CalledBatch DEF ModelCalls
<1> HIDE DEF called
<1>8. RunTypeOK'
  <2>1. queue' \in Seq(Event)
    BY <1>1, <1>5, <1>7, ConcatProperties DEF RunTypeOK
  <2> QED
    BY <1>1, <1>6, <1>7, <2>1 DEF RunTypeOK
<1>9. Begun' = Begun + n
  <2>1. CallPositions' = CallPositions /\ Len(batch) = 0
    BY <1>7, EmptySeq DEF CallPositions
  <2>2. Begun = Cardinality(CallPositions) /\ Begun' = Cardinality(CallPositions') + n
    BY <1>1, <1>6, <2>1, BegunIsNat DEF Begun, CallPositions
  <2> QED
    BY <2>1, <2>2
<1>10. BatchIds = {} /\ BatchIds' = new
  <2>1. \A c \in new : c - Begun \in 1..n /\ c = Begun + (c - Begun)
    BY <1>2, <1>3
  <2>2. \A i \in 1..n : Begun + i \in new
    BY <1>2, <1>3
  <2>3. \A c \in new : \E i \in 1..n : batch'[i].id = c
    BY <1>6, <2>1
  <2>4. \A i \in 1..n : batch'[i].id \in new
    BY <1>6, <2>2
  <2>5. BatchIds' = {batch'[i].id : i \in 1..n}
    BY <1>6 DEF BatchIds
  <2>6. BatchIds = {}
    BY <1>7 DEF BatchIds
  <2> HIDE DEF new
  <2> QED
    BY <2>3, <2>4, <2>5, <2>6
<1>11. \A k \in 1..n : called[k].name = "tool_called" /\ called[k].id = Begun + k
  BY <1>2 DEF called, Called
<1>12. IdsOf(called, "tool_called") = new /\ IdsOf(called, "tool_output") = {}
  <2>1. \A c \in new : c - Begun \in 1..n /\ c = Begun + (c - Begun)
    BY <1>2, <1>3
  <2>2. \A i \in 1..n : Begun + i \in new
    BY <1>2, <1>3
  <2>3. \A c \in new : \E k \in 1..n : called[k].name = "tool_called" /\ called[k].id = c
    BY <1>11, <2>1
  <2>4. \A k \in 1..n : called[k].name = "tool_called" /\ called[k].id \in new
    BY <1>11, <2>2
  <2> HIDE DEF new
  <2> QED
    BY <1>5, <2>3, <2>4 DEF IdsOf
<1>13. /\ IdsOf(queue', "tool_called") = IdsOf(queue, "tool_called") \cup new
       /\ IdsOf(queue', "tool_output") = IdsOf(queue, "tool_output")
  <2>1. queue \in Seq(Event)
    BY <1>1 DEF RunTypeOK
  <2>2. /\ IdsOf(queue \o called, "tool_called")
             = IdsOf(queue, "tool_called") \cup IdsOf(called, "tool_called")
        /\ IdsOf(queue \o called, "tool_output")
             = IdsOf(queue, "tool_output") \cup IdsOf(called, "tool_output")
    BY <1>5, <2>1, ConcatIds
  <2> QED
    BY <1>7, <1>12, <2>2
<1>14. new \cap 1..Begun = {} /\ new \subseteq 1..Begun' /\ 1..Begun \subseteq 1..Begun'
  BY <1>2, <1>3, <1>9
<1>15. Orderly(queue')
  <2>1. \A j, k \in 1..n : called[j].id = called[k].id => j = k
    BY <1>2, <1>3, <1>11
  <2>2. \A k \in 1..n : called[k].id \in new
    BY <1>2, <1>3, <1>11
  <2>3. \A k \in 1..n : called[k].id \notin IdsOf(queue, "tool_called") \cup IdsOf(queue, "tool_output")
    BY <1>1, <1>14, <2>2 DEF Progress
  <2>4. queue \in Seq(Event)
    BY <1>1 DEF RunTypeOK
  <2> QED
    BY <1>1, <1>5, <1>7, <1>11, <2>1, <2>3, <2>4, ConcatOrderly
<1>16. BatchOpen'
  <2>1. \A i, j \in 1..n : batch'[i].id = batch'[j].id => i = j
    BY <1>2, <1>3, <1>6
  <2>2. new \cap IdsOf(queue, "tool_output") = {}
    BY <1>1, <1>14 DEF Progress
  <2> QED
    BY <1>6, <1>10, <1>13, <2>1, <2>2 DEF BatchOpen
<1>17. Progress'
  <2>1. \A c \in CallId : /\ c \in new => c > Begun
                          /\ c > Begun' => c > Begun
                          /\ c <= Begun' => c <= Begun \/ c \in new
    BY <1>2, <1>3, <1>9 DEF CallId
  <2>2. /\ new \cap pending = {} /\ IdsOf(queue, "tool_called") \cap pending = {}
    BY <1>1, <1>14 DEF Progress
  <2>3. BatchIds' \cup IdsOf(queue', "tool_called") \cup IdsOf(queue', "tool_output") \cup pending'
          \subseteq 1..Begun'
    BY <1>1, <1>7, <1>10, <1>13, <1>14 DEF Progress
  <2>4. ASSUME NEW c \in CallId
        PROVE  /\ c \in BatchIds' \cup IdsOf(queue', "tool_called")
                          \cup IdsOf(queue', "tool_output") \cup pending'
                    => reported'[c] = <<>>
               /\ c > Begun' => reported'[c] = <<>>
               /\ c <= Begun' => \/ c \in BatchIds' \cup IdsOf(queue', "tool_output")
                                 \/ reported'[c] = <<"response">>
    BY <1>1, <1>7, <1>10, <1>13, <2>1, <2>4 DEF Progress
  <2>5. Begun' <= MaxCalls
    BY <1>4, <1>9
  <2> QED
    BY <1>7, <1>13, <2>2, <2>3, <2>4, <2>5 DEF Progress
<1>18. ReportedOnce'
  BY <1>1, <1>7 DEF ReportedOnce
<1> QED
  BY <1>8, <1>15, <1>16, <1>17, <1>18 DEF RunInv, Running

LEMMA BatchItemsFacts ==
  ASSUME RunTypeOK, NEW results \in [DOMAIN batch -> Output]
  PROVE  LET m == Len(batch)
             both == BatchItems(results)
         IN /\ both \in Seq(Item) /\ Len(both) = m + m
            /\ \A i \in 1..(m + m) : i <= m => both[i] = batch[i] /\ IsCall(both[i])
            /\ \A k \in 1..m : /\ IsOutput(both[m + k]) /\ ~IsCall(both[m + k])
                               /\ both[m + k].id = batch[k].id
<1> DEFINE outputs == [i \in DOMAIN batch |->
                         [batch[i] EXCEPT !.type = "output", !.value = results[i]]]
           m == Len(batch)
           both == BatchItems(results)
<1>1. m \in Nat /\ DOMAIN batch = 1..m
  BY LenProperties DEF RunTypeOK
<1>2. \A i \in 1..m : batch[i] \in CallItem
  BY <1>1 DEF RunTypeOK
<1>3. batch \in Seq(Item)
  <2>1. \A i \in 1..m : batch[i] \in Item
    BY <1>2 DEF Item
  <2>2. batch \in [1..m -> CallItem]
    BY <1>1 DEF RunTypeOK
  <2>3. batch \in [1..m -> Item]
    BY <2>1, <2>2
  <2> QED
    BY <1>1, <2>3
<1>4. \A i \in 1..m : /\ outputs[i] \in Item /\ outputs[i].type = "output"
                      /\ outputs[i].id = batch[i].id
  <2> SUFFICES ASSUME NEW i \in 1..m
               PROVE  /\ outputs[i] \in OutputItem /\ outputs[i].type = "output"
                      /\ outputs[i].id = batch[i].id
    BY DEF Item
  <2> QED
    BY <1>1, <1>2 DEF CallItem, OutputItem
<1>5. outputs \in Seq(Item) /\ Len(outputs) = m
  <2>1. outputs \in [1..m -> Item]
    BY <1>1, <1>4
  <2> QED
    BY <1>1, <2>1, FunctionIsSeq
<1>6. both = batch \o outputs
  BY DEF BatchItems
<1> HIDE DEF outputs, both
<1>7. /\ both \in Seq(Item) /\ Len(both) = m + m
      /\ \A i \in 1..(m + m) : both[i] = IF i <= m THEN batch[i] ELSE outputs[i - m]
  <2>1. Len(batch) = m /\ Len(outputs) = m
    BY <1>5
  <2>2. /\ batch \o outputs \in Seq(Item) /\ Len(batch \o outputs) = Len(batch) + Len(outputs)
        /\ \A i \in 1..(Len(batch) + Len(outputs)) :
             (batch \o outputs)[i] = IF i <= Len(batch) THEN batch[i] ELSE outputs[i - Len(batch)]
    BY <1>3, <1>5, ConcatProperties
  <2> QED
    BY <1>6, <2>1, <2>2
<1> HIDE DEF m
<1>8. \A i \in 1..(m + m) : i <= m => both[i] = batch[i] /\ IsCall(both[i])
  BY <1>1, <1>2, <1>7 DEF IsCall, CallItem
<1>9. ASSUME NEW k \in 1..m
      PROVE  /\ IsOutput(both[m + k]) /\ ~IsCall(both[m + k])
             /\ both[m + k].id = batch[k].id
  <2>1. m + k \in 1..(m + m) /\ ~(m + k <= m) /\ (m + k) - m = k
    BY <1>1
  <2>2. both[m + k] = outputs[k]
    BY <1>7, <2>1
  <2> QED
    BY <1>4, <2>2 DEF IsCall, IsOutput
<1> QED
  BY <1>7, <1>8, <1>9 DEF m, both

\* The items grow by the calls of the batch, and behind them their outputs.
Grown(l, m) ==
  /\ items' \in Seq(Item) /\ DOMAIN items' = 1..(l + (m + m))
  /\ \A i \in 1..l : items'[i] = items[i]
  /\ \A k \in 1..m : items'[l + k] = batch[k] /\ IsCall(batch[k])
  /\ \A k \in 1..m : /\ IsOutput(items'[l + (m + k)]) /\ ~IsCall(items'[l + (m + k)])
                      /\ items'[l + (m + k)].id = batch[k].id
  /\ CallPositions' = CallPositions \cup (l + 1)..(l + m)
  /\ Cardinality(CallPositions') = Cardinality(CallPositions) + m

\* A place in the items of a step is one of the old, of the calls or of the outputs.
LEMMA PlaceOf ==
  ASSUME NEW l \in Nat, NEW m \in Nat, NEW i \in 1..(l + (m + m))
  PROVE  \/ i \in 1..l
         \/ \E k \in 1..m : i = l + k
         \/ \E k \in 1..m : i = l + (m + k)
<1>1. CASE i <= l
  BY <1>1
<1>2. CASE i > l /\ i <= l + m
  <2>1. i - l \in 1..m /\ i = l + (i - l)
    BY <1>2
  <2> QED
    BY <2>1
<1>3. CASE i > l + m
  <2>1. i - (l + m) \in 1..m /\ i = l + (m + (i - (l + m)))
    BY <1>3
  <2> QED
    BY <2>1
<1> QED
  BY <1>1, <1>2, <1>3

LEMMA PlacesApart ==
  ASSUME NEW l \in Nat, NEW m \in Nat, NEW k \in 1..m
  PROVE  /\ l + k \in 1..(l + (m + m)) /\ l + (m + k) \in 1..(l + (m + m))
         /\ l + k \in (l + 1)..(l + m) /\ l + (m + k) \notin (l + 1)..(l + m)
         /\ l + k > l /\ l + (m + k) > l
         /\ \A j \in 1..l : j \in 1..(l + (m + m))
  OBVIOUS

LEMMA ToolsItems ==
  ASSUME RunTypeOK, NEW results \in [DOMAIN batch -> Output], ToolsEnd(results)
  PROVE  Grown(Len(items), Len(batch))
<1> DEFINE l == Len(items)
           m == Len(batch)
           both == BatchItems(results)
<1>1. /\ l \in Nat /\ m \in Nat /\ DOMAIN items = 1..l /\ DOMAIN batch = 1..m
      /\ items \in Seq(Item)
  BY LenProperties DEF RunTypeOK
<1>2. items' = items \o both
  BY DEF ToolsEnd
<1> HIDE DEF both
<1>7. /\ both \in Seq(Item) /\ Len(both) = m + m
      /\ \A i \in 1..(m + m) : i <= m => both[i] = batch[i] /\ IsCall(both[i])
      /\ \A k \in 1..m : /\ IsOutput(both[m + k]) /\ ~IsCall(both[m + k])
                         /\ both[m + k].id = batch[k].id
  BY BatchItemsFacts DEF both
<1>8. /\ items' \in Seq(Item) /\ DOMAIN items' = 1..(l + (m + m))
      /\ \A i \in 1..(l + (m + m)) : items'[i] = IF i <= l THEN items[i] ELSE both[i - l]
  <2>1. items \o both \in Seq(Item) /\ Len(items \o both) = Len(items) + Len(both)
    <3>1. items \in Seq(Item) /\ both \in Seq(Item)
      BY <1>1, <1>7
    <3> QED
      BY <3>1, ConcatProperties
  <2>2. \A i \in 1..(Len(items) + Len(both)) :
          (items \o both)[i] = IF i <= Len(items) THEN items[i] ELSE both[i - Len(items)]
    <3>1. items \in Seq(Item) /\ both \in Seq(Item)
      BY <1>1, <1>7
    <3> QED
      BY <3>1, ConcatProperties
  <2>3. Len(items \o both) = l + (m + m) /\ Len(items) + Len(both) = l + (m + m)
    BY <1>7, <2>1
  <2>4. DOMAIN items' = 1..(l + (m + m))
    BY <1>2, <2>1, <2>3, LenProperties
  <2> QED
    BY <1>2, <2>1, <2>2, <2>3, <2>4
<1> HIDE DEF l, m
<1>9. \A i \in 1..l : i \in 1..(l + (m + m)) /\ items'[i] = items[i]
  BY <1>1, <1>8
<1>10. \A k \in 1..m : items'[l + k] = batch[k] /\ IsCall(batch[k])
  <2> SUFFICES ASSUME NEW k \in 1..m PROVE items'[l + k] = batch[k] /\ IsCall(batch[k])
    OBVIOUS
  <2>1. /\ l + k \in 1..(l + (m + m)) /\ ~(l + k <= l) /\ (l + k) - l = k
        /\ k \in 1..(m + m) /\ k <= m
    BY <1>1
  <2>2. items'[l + k] = both[k]
    BY <1>8, <2>1
  <2> QED
    BY <1>7, <2>1, <2>2
<1>11. \A k \in 1..m : /\ IsOutput(items'[l + (m + k)]) /\ ~IsCall(items'[l + (m + k)])
                       /\ items'[l + (m + k)].id = batch[k].id
  <2> SUFFICES ASSUME NEW k \in 1..m
               PROVE  /\ IsOutput(items'[l + (m + k)]) /\ ~IsCall(items'[l + (m + k)])
                      /\ items'[l + (m + k)].id = batch[k].id
    OBVIOUS
  <2>1. /\ l + (m + k) \in 1..(l + (m + m)) /\ ~(l + (m + k) <= l)
        /\ (l + (m + k)) - l = m + k
    BY <1>1
  <2>2. items'[l + (m + k)] = both[m + k]
    BY <1>8, <2>1
  <2> QED
    BY <1>7, <2>2
<1>12. CallPositions' = CallPositions \cup (l + 1)..(l + m)
  <2>1. CallPositions' = {i \in 1..(l + (m + m)) : IsCall(items'[i])}
    BY <1>8 DEF CallPositions
  <2>2. CallPositions = {i \in 1..l : IsCall(items[i])}
    BY <1>1 DEF CallPositions
  <2>3. ASSUME NEW i \in CallPositions' PROVE i \in CallPositions \cup (l + 1)..(l + m)
    <3>1. i \in 1..(l + (m + m)) /\ IsCall(items'[i])
      BY <2>1
    <3>2. CASE i \in 1..l
      BY <1>9, <2>2, <3>1, <3>2
    <3>3. CASE \E k \in 1..m : i = l + k
      BY <1>1, <3>3
    <3>4. CASE \E k \in 1..m : i = l + (m + k)
      BY <1>11, <3>1, <3>4
    <3> QED
      BY <1>1, <3>1, <3>2, <3>3, <3>4, PlaceOf
  <2>4. ASSUME NEW i \in (l + 1)..(l + m) PROVE i \in CallPositions'
    <3>1. i - l \in 1..m /\ i = l + (i - l) /\ i \in 1..(l + (m + m))
      BY <1>1
    <3> QED
      BY <1>10, <2>1, <3>1
  <2>5. CallPositions \subseteq CallPositions'
    BY <1>9, <2>1, <2>2
  <2> QED
    BY <2>3, <2>4, <2>5
<1>13. Cardinality(CallPositions') = Cardinality(CallPositions) + m
  <2>1. IsFiniteSet(CallPositions) /\ Cardinality(CallPositions) \in Nat
    BY BegunIsNat
  <2>2. IsFiniteSet((l + 1)..(l + m)) /\ Cardinality((l + 1)..(l + m)) = m
    <3>1. l + 1 \in Int /\ l + m \in Int
      BY <1>1
    <3>2. /\ IsFiniteSet((l + 1)..(l + m))
          /\ Cardinality((l + 1)..(l + m)) = IF l + 1 > l + m THEN 0 ELSE (l + m) - (l + 1) + 1
      BY <3>1, FS_Interval
    <3> QED
      BY <1>1, <3>2
  <2>3. Cardinality(CallPositions \cap (l + 1)..(l + m)) = 0
    <3>1. CallPositions \cap (l + 1)..(l + m) = {}
      BY <1>1 DEF CallPositions
    <3> QED
      BY <3>1, FS_EmptySet
  <2>4. /\ Cardinality(CallPositions \cup (l + 1)..(l + m))
            = Cardinality(CallPositions) + m - Cardinality(CallPositions \cap (l + 1)..(l + m))
    BY <2>1, <2>2, FS_Union
  <2> QED
    BY <1>1, <1>12, <2>1, <2>3, <2>4
<1> QED
  BY <1>8, <1>9, <1>10, <1>11, <1>12, <1>13 DEF Grown, l, m

Answers == [i \in DOMAIN batch |-> [name |-> "tool_output", id |-> batch[i].id]]

LEMMA AnswersFacts ==
  ASSUME RunTypeOK, NEW results, ToolsEnd(results)
  PROVE  /\ Answers \in Seq(Event) /\ DOMAIN Answers = DOMAIN batch
         /\ \A k \in DOMAIN batch : Answers[k].name = "tool_output" /\ Answers[k].id = batch[k].id
         /\ queue' = queue \o Answers
         /\ IdsOf(queue', "tool_called") = IdsOf(queue, "tool_called")
         /\ IdsOf(queue', "tool_output") = IdsOf(queue, "tool_output") \cup BatchIds
<1>1. Len(batch) \in Nat /\ DOMAIN batch = 1..Len(batch) /\ queue \in Seq(Event)
  BY LenProperties DEF RunTypeOK
<1>2. \A i \in DOMAIN batch : batch[i] \in CallItem
  BY <1>1 DEF RunTypeOK
<1>3. Answers \in Seq(Event)
  <2>1. Answers \in [1..Len(batch) -> Event]
    BY <1>1, <1>2 DEF CallItem, Event, Answers
  <2> QED
    BY <1>1, <2>1
<1>4. queue' = queue \o Answers
  BY DEF ToolsEnd, Answers
<1>5. /\ DOMAIN Answers = DOMAIN batch
      /\ \A k \in DOMAIN batch : Answers[k].name = "tool_output" /\ Answers[k].id = batch[k].id
  BY DEF Answers
<1>6. IdsOf(Answers, "tool_output") = BatchIds /\ IdsOf(Answers, "tool_called") = {}
  BY <1>5 DEF IdsOf, BatchIds
<1>7. /\ IdsOf(queue \o Answers, "tool_called")
           = IdsOf(queue, "tool_called") \cup IdsOf(Answers, "tool_called")
      /\ IdsOf(queue \o Answers, "tool_output")
           = IdsOf(queue, "tool_output") \cup IdsOf(Answers, "tool_output")
  BY <1>1, <1>3, ConcatIds
<1> QED
  BY <1>3, <1>4, <1>5, <1>6, <1>7

LEMMA ToolsStep ==
  ASSUME RunInv, NEW results \in [DOMAIN batch -> Output], ToolsEnd(results)
  PROVE  RunInv'
<1>1. /\ RunTypeOK /\ Orderly(queue) /\ BatchOpen /\ Progress /\ ReportedOnce
      /\ phase = "running" /\ phase' = "running"
  BY DEF RunInv, Running, ToolsEnd
<1>2. queue \in Seq(Event) /\ batch' = <<>> /\ UNCHANGED <<pending, reported>>
  BY <1>1 DEF RunTypeOK, ToolsEnd
<1>3. items' \in Seq(Item) /\ Cardinality(CallPositions') = Cardinality(CallPositions) + Len(batch)
  BY <1>1, ToolsItems DEF Grown
<1>4. /\ Answers \in Seq(Event) /\ DOMAIN Answers = DOMAIN batch
      /\ \A k \in DOMAIN batch : Answers[k].name = "tool_output" /\ Answers[k].id = batch[k].id
      /\ queue' = queue \o Answers
  BY <1>1, AnswersFacts
<1>5. /\ IdsOf(queue', "tool_called") = IdsOf(queue, "tool_called")
      /\ IdsOf(queue', "tool_output") = IdsOf(queue, "tool_output") \cup BatchIds
  BY <1>1, AnswersFacts
<1>6. RunTypeOK'
  <2>1. queue' \in Seq(Event)
    BY <1>2, <1>4, ConcatProperties
  <2>2. batch' \in Seq(CallItem)
    BY <1>2, EmptySeq
  <2> QED
    BY <1>1, <1>2, <1>3, <2>1, <2>2 DEF RunTypeOK
<1>7. Begun' = Begun
  <2>1. Cardinality(CallPositions) \in Nat /\ Len(batch) \in Nat
    BY <1>1, BegunIsNat, LenProperties DEF RunTypeOK
  <2>2. Begun = Cardinality(CallPositions) + Len(batch)
    BY DEF Begun, CallPositions
  <2>3. Begun' = Cardinality(CallPositions') + 0
    BY <1>2, EmptySeq DEF Begun, CallPositions
  <2> QED
    BY <1>3, <2>1, <2>2, <2>3
<1>8. BatchIds' = {}
  BY <1>2 DEF BatchIds
<1>9. Orderly(queue')
  <2>1. \A j, k \in DOMAIN Answers : Answers[j].id = Answers[k].id => j = k
    BY <1>1, <1>4 DEF BatchOpen
  <2>2. \A k \in DOMAIN Answers : Answers[k].id \notin IdsOf(queue, "tool_output")
    BY <1>1, <1>4 DEF BatchOpen, BatchIds
  <2> QED
    BY <1>1, <1>2, <1>4, <2>1, <2>2, ConcatOrderly
<1>10. BatchOpen'
  BY <1>2, <1>8 DEF BatchOpen
<1>11. Progress'
  BY <1>1, <1>2, <1>5, <1>7, <1>8 DEF Progress
<1>12. ReportedOnce'
  BY <1>1, <1>2 DEF ReportedOnce
<1> QED
  BY <1>6, <1>9, <1>10, <1>11, <1>12 DEF RunInv, Running

LEMMA HandleStep == ASSUME RunInv, HandleEvent PROVE RunInv'
<1> DEFINE event == Head(queue)
           called(q) == IdsOf(q, "tool_called")
           output(q) == IdsOf(q, "tool_output")
<1>1. /\ RunTypeOK /\ Orderly(queue) /\ BatchOpen /\ Progress /\ ReportedOnce
      /\ phase = "running" /\ phase' = "running"
      /\ queue # <<>> /\ queue' = Tail(queue) /\ UNCHANGED <<batch, items>>
  BY DEF RunInv, Running, HandleEvent
<1>2. Begun' = Begun /\ BatchIds' = BatchIds
  BY <1>1 DEF Begun, BatchIds
<1>3. Begun \in Nat
  BY <1>1, BegunIsNat
<1>4. queue \in Seq(Event)
  BY <1>1 DEF RunTypeOK
<1>5. /\ event \in Event /\ queue' \in Seq(Event) /\ Orderly(queue')
      /\ event.id \in IdsOf(queue, event.name)
      /\ event.name = "tool_output" => event.id \notin called(queue)
  BY <1>1, <1>4, TailOrderly
<1>6. /\ called(queue') = IF event.name = "tool_called" THEN called(queue) \ {event.id} ELSE called(queue)
      /\ output(queue') = IF event.name = "tool_output" THEN output(queue) \ {event.id} ELSE output(queue)
  BY <1>1, <1>4, TailOrderly
<1>7. event.id \in CallId /\ event.name \in {"tool_called", "tool_output"}
  BY <1>5 DEF Event
<1> HIDE DEF event, called, output
<1>8. BatchOpen'
  BY <1>1, <1>2, <1>6 DEF BatchOpen, output
<1>9. ASSUME event.name = "tool_called" PROVE RunInv'
  <2>1. pending' = pending \cup {event.id} /\ reported' = reported
    BY <1>9 DEF HandleEvent, event
  <2>2. /\ event.id \in called(queue) /\ reported[event.id] = <<>>
        /\ called(queue') = called(queue) \ {event.id} /\ output(queue') = output(queue)
    BY <1>1, <1>5, <1>6, <1>7, <1>9 DEF Progress, called
  <2>3. RunTypeOK'
    BY <1>1, <1>5, <1>7, <2>1 DEF RunTypeOK
  <2>4. Progress'
    BY <1>1, <1>2, <2>1, <2>2 DEF Progress, called, output
  <2>5. ReportedOnce'
    BY <1>1, <2>1, <2>2 DEF ReportedOnce
  <2> QED
    BY <1>5, <1>8, <2>3, <2>4, <2>5 DEF RunInv, Running
<1>10. ASSUME event.name = "tool_output" PROVE RunInv'
  <2>1. /\ pending' = pending \ {event.id}
        /\ reported' = [reported EXCEPT ![event.id] = Append(@, "response")]
    BY <1>10 DEF HandleEvent, Answered, event
  <2>2. /\ event.id \in output(queue) /\ event.id \notin called(queue) /\ reported[event.id] = <<>>
        /\ called(queue') = called(queue) /\ output(queue') = output(queue) \ {event.id}
        /\ event.id \notin BatchIds /\ event.id \in 1..Begun
    BY <1>1, <1>5, <1>6, <1>7, <1>10 DEF Progress, BatchOpen, output, called
  <2>3. /\ reported'[event.id] = <<"response">> /\ DOMAIN reported = CallId
        /\ \A c \in CallId : c # event.id => reported'[c] = reported[c]
    <3>1. Append(<<>>, "response") = <<"response">>
      OBVIOUS
    <3>2. DOMAIN reported = CallId
      BY <1>1 DEF RunTypeOK
    <3> QED
      BY <1>7, <2>1, <2>2, <3>1, <3>2
  <2>4. reported' \in [CallId -> Seq({"response", "error"})]
    <3>1. reported \in [CallId -> Seq({"response", "error"})] /\ <<"response">> \in Seq({"response", "error"})
      BY <1>1 DEF RunTypeOK
    <3>2. \A c \in CallId : reported'[c] \in Seq({"response", "error"})
      BY <2>3, <3>1
    <3>3. reported' = [c \in CallId |-> reported'[c]]
      BY <2>1, <2>3
    <3> QED
      BY <3>2, <3>3
  <2>5. RunTypeOK'
    BY <1>1, <1>5, <2>1, <2>4 DEF RunTypeOK
  <2>6. Progress'
    <3>1. BatchIds \cup called(queue') \cup output(queue') \cup pending' \subseteq 1..Begun
      BY <1>1, <2>1, <2>2 DEF Progress, called, output
    <3>2. called(queue') \cap pending' = {}
      BY <1>1, <2>1, <2>2 DEF Progress, called
    <3>3. ASSUME NEW c \in CallId
          PROVE  /\ c \in BatchIds \cup called(queue') \cup output(queue') \cup pending'
                      => reported'[c] = <<>>
                 /\ c > Begun => reported'[c] = <<>>
                 /\ c <= Begun => \/ c \in BatchIds \cup output(queue')
                                  \/ reported'[c] = <<"response">>
      <4>1. CASE c = event.id
        BY <1>3, <2>1, <2>2, <2>3, <4>1
      <4>2. CASE c # event.id
        BY <1>1, <2>1, <2>2, <2>3, <4>2 DEF Progress, called, output
      <4> QED
        BY <4>1, <4>2
    <3> QED
      BY <1>1, <1>2, <3>1, <3>2, <3>3 DEF Progress, called, output
  <2>7. ReportedOnce'
    <3>1. Len(<<"response">>) = 1
      OBVIOUS
    <3> QED
      BY <1>1, <2>1, <2>3, <3>1 DEF ReportedOnce
  <2> QED
    BY <1>5, <1>8, <2>5, <2>6, <2>7 DEF RunInv, Running
<1> QED
  BY <1>7, <1>9, <1>10

\* When the stream has ended every call has been answered; when it raises, what is
\* pending gets the turn's error.
LEMMA EndStep ==
  ASSUME RunInv, RunCompletes \/ RunRaises \/ RunCancelled
  PROVE  RunInv'
<1>1. /\ RunTypeOK /\ Progress /\ ReportedOnce /\ phase = "running"
  BY DEF RunInv, Running, RunCompletes, RunRaises, RunCancelled
<1>2. <<>> \in Seq(CallItem) /\ <<>> \in Seq(Event)
  BY EmptySeq
<1>3. CASE RunCompletes
  <2>1. BatchIds = {} /\ IdsOf(queue, "tool_output") = {}
    BY <1>3 DEF RunCompletes, BatchIds, IdsOf
  <2>2. Begun' = Begun /\ Begun \in Nat
    BY <1>1, <1>3, BegunIsNat DEF RunCompletes, Begun
  <2>3. \A c \in CallId : c <= Begun => reported[c] = <<"response">>
    BY <1>1, <2>1 DEF Progress
  <2>4. \A c \in 1..Begun : c \in CallId /\ reported[c] = <<"response">>
    BY <1>1, <2>2, <2>3, RunAssumption DEF CallId, Progress
  <2>5. \A c \in pending : c \in 1..Begun /\ reported[c] = <<>>
    BY <1>1 DEF RunTypeOK, Progress
  <2>6. pending = {}
    <3>1. <<"response">> # <<>>
      OBVIOUS
    <3> QED
      BY <2>4, <2>5, <3>1
  <2>7. /\ phase' = "completed" /\ UNCHANGED <<batch, items, queue, pending, reported>>
    BY <1>3 DEF RunCompletes
  <2>8. RunTypeOK'
    BY <1>1, <2>7 DEF RunTypeOK
  <2>9. ReportedOnce'
    BY <1>1, <2>2, <2>4, <2>6, <2>7 DEF ReportedOnce
  <2> QED
    BY <2>7, <2>8, <2>9 DEF RunInv, Running
<1>4. CASE RunRaises
  <2>1. /\ phase' = "failed" /\ queue' = <<>> /\ batch' = <<>> /\ items' = items /\ pending' = {}
        /\ reported' = [c \in CallId |-> IF c \in pending THEN Append(reported[c], "error")
                                         ELSE reported[c]]
    BY <1>4 DEF RunRaises, LogPendingErrors
  <2>2. \A c \in CallId : c \in pending => reported'[c] = <<"error">>
    <3>1. Append(<<>>, "error") = <<"error">>
      OBVIOUS
    <3> QED
      BY <1>1, <2>1, <3>1 DEF ReportedOnce
  <2>3. Len(<<"error">>) = 1 /\ <<"error">> \in Seq({"response", "error"})
    OBVIOUS
  <2>4. \A c \in CallId : reported'[c] \in Seq({"response", "error"}) /\ Len(reported'[c]) <= 1
    BY <1>1, <2>1, <2>2, <2>3 DEF RunTypeOK, ReportedOnce
  <2>5. RunTypeOK'
    BY <1>1, <1>2, <2>1, <2>4 DEF RunTypeOK
  <2>6. ReportedOnce'
    BY <2>1, <2>4 DEF ReportedOnce
  <2> QED
    BY <2>1, <2>5, <2>6 DEF RunInv, Running
<1>5. CASE RunCancelled
  <2>1. /\ phase' = "cancelled" /\ queue' = <<>> /\ batch' = <<>>
        /\ UNCHANGED <<items, pending, reported>>
    BY <1>5 DEF RunCancelled
  <2>2. RunTypeOK'
    BY <1>1, <1>2, <2>1 DEF RunTypeOK
  <2>3. ReportedOnce'
    BY <1>1, <2>1 DEF ReportedOnce
  <2> QED
    BY <2>1, <2>2, <2>3 DEF RunInv, Running
<1> QED
  BY <1>3, <1>4, <1>5

LEMMA RunInvStep == RunInv /\ [RunNext]_runVars => RunInv'
<1> SUFFICES ASSUME RunInv, [RunNext]_runVars PROVE RunInv'
  OBVIOUS
<1>1. ASSUME NEW n \in 1..MaxBatch, NEW asked \in [1..n -> Asked], ModelCalls(asked) PROVE RunInv'
  BY <1>1, CallsStep
<1>2. ASSUME NEW results \in [DOMAIN batch -> Output], ToolsEnd(results) PROVE RunInv'
  BY <1>2, ToolsStep
<1>3. CASE HandleEvent
  BY <1>3, HandleStep
<1>4. CASE RunCompletes \/ RunRaises \/ RunCancelled
  BY <1>4, EndStep
<1>5. CASE UNCHANGED runVars
  <2>1. RunTypeOK' /\ ReportedOnce'
    BY <1>5 DEF RunInv, runVars, RunTypeOK, ReportedOnce, Begun
  <2>2. CASE phase = "running"
    <3>1. /\ phase' = phase /\ batch' = batch /\ items' = items /\ queue' = queue
          /\ pending' = pending /\ reported' = reported
      BY <1>5 DEF runVars
    <3>2. Orderly(queue)' /\ BatchOpen'
      BY <2>2, <3>1 DEF RunInv, Running, Orderly, BatchOpen, BatchIds, IdsOf
    <3>3. /\ Begun' = Begun /\ BatchIds' = BatchIds
          /\ \A name : IdsOf(queue, name)' = IdsOf(queue, name)
      BY <3>1 DEF Begun, BatchIds, IdsOf
    <3>4. Progress'
      BY <2>2, <3>1, <3>3 DEF RunInv, Running, Progress
    <3> QED
      BY <2>1, <3>2, <3>4 DEF RunInv, Running
  <2>3. CASE phase # "running"
    BY <1>5, <2>1, <2>3 DEF RunInv, runVars, Running
  <2> QED
    BY <2>2, <2>3
<1> QED
  BY <1>1, <1>2, <1>3, <1>4, <1>5 DEF RunNext

\* The log's state keeps its types, and its events their order, in every run.
THEOREM RunInvariant == RunSpec => []RunInv
<1> QED
  BY RunInvInit, RunInvStep, PTL DEF RunSpec

\* Whatever the responses ask for, and however far the stream is behind: no end of
\* a call is logged twice or before the call, none stays open when the stream has
\* ended, and a completed run has logged the response of every call.
THEOREM CallsReportedOnce == RunSpec => []ReportedOnce
<1>1. RunInv => ReportedOnce
  BY DEF RunInv
<1> QED
  BY <1>1, RunInvariant, PTL

-----------------------------------------------------------------------------
(* The record. *)

\* The calls are in the items in the order of their ids, and those of the batch
\* come next.
CallsAscend ==
  /\ \A i, j \in CallPositions : i < j => items[i].id < items[j].id
  /\ \A i \in CallPositions : items[i].id <= Cardinality(CallPositions)
  /\ \A k \in DOMAIN batch : batch[k].id = Cardinality(CallPositions) + k

\* An output is there with its call, and an answer that the log has or will have
\* with its output.
Paired ==
  /\ \A i \in DOMAIN items : IsOutput(items[i]) => \E j \in CallPositions : items[j].id = items[i].id
  /\ \A c \in CallId : c \in IdsOf(queue, "tool_output") \/ reported[c] = <<"response">>
                        => c \in OutputIds

\* The record and the draft are those of the items, which the end has left alone.
RecordOfItems ==
  /\ categories \in {SetCategories(Advertised), SetCategories(<<>>)}
  /\ phase \in {"running", "cancelled"} => recorded = <<>> /\ drafted = <<>>
  /\ phase \in {"completed", "failed"} => /\ recorded = RecordedCalls
                                          /\ drafted = DraftedCalls(RecordedCalls)

RecordInv == RunInv /\ CallsAscend /\ Paired /\ RecordOfItems

-----------------------------------------------------------------------------
(* The elements at some places of a sequence. *)

Before(S, p) == {q \in S : q < p}

\* This function goes through the places of S upwards.
InOrder(place, S) ==
  /\ place \in [1..Cardinality(S) -> S]
  /\ \A j, k \in 1..Cardinality(S) : j < k => place[j] < place[k]
  /\ \A p \in S : \E k \in 1..Cardinality(S) : place[k] = p

LEMMA RankFacts ==
  ASSUME NEW n \in Nat, NEW S \in SUBSET (1..n)
  PROVE  /\ Cardinality(S) \in Nat
         /\ \A p \in S : Cardinality(Before(S, p)) \in 0..(Cardinality(S) - 1)
         /\ \A p, q \in S : p < q => Cardinality(Before(S, p)) < Cardinality(Before(S, q))
<1>1. IsFiniteSet(S)
  <2>1. IsFiniteSet(1..n)
    BY FS_Interval
  <2> QED
    BY <2>1, FS_Subset
<1>2. Cardinality(S) \in Nat
  BY <1>1, FS_CardinalityType
<1>3. ASSUME NEW p \in S
      PROVE  IsFiniteSet(Before(S, p)) /\ Cardinality(Before(S, p)) \in 0..(Cardinality(S) - 1)
  <2>1. IsFiniteSet(S \ {p}) /\ Cardinality(S \ {p}) = Cardinality(S) - 1
    BY <1>1, FS_RemoveElement
  <2>2. Before(S, p) \in SUBSET (S \ {p})
    BY DEF Before
  <2>3. IsFiniteSet(Before(S, p)) /\ Cardinality(Before(S, p)) <= Cardinality(S \ {p})
    BY <2>1, <2>2, FS_Subset
  <2>4. Cardinality(Before(S, p)) \in Nat
    BY <2>3, FS_CardinalityType
  <2> QED
    BY <1>2, <2>1, <2>3, <2>4
<1>4. ASSUME NEW p \in S, NEW q \in S, p < q
      PROVE  Cardinality(Before(S, p)) < Cardinality(Before(S, q))
  <2>1. Before(S, p) \in SUBSET Before(S, q)
    <3>1. p \in Int /\ q \in Int /\ \A r \in S : r \in Int
      OBVIOUS
    <3>2. \A r \in S : r < p => r < q
      BY <1>4, <3>1
    <3> QED
      BY <3>2 DEF Before
  <2>2. p \in Before(S, q) /\ p \notin Before(S, p)
    BY <1>4 DEF Before
  <2>3. IsFiniteSet(Before(S, q))
    BY <1>3
  <2>4. /\ Cardinality(Before(S, p)) <= Cardinality(Before(S, q))
        /\ Cardinality(Before(S, q)) = Cardinality(Before(S, p)) => Before(S, q) = Before(S, p)
    BY <2>1, <2>3, FS_Subset
  <2>5. Cardinality(Before(S, p)) \in Nat /\ Cardinality(Before(S, q)) \in Nat
    BY <1>2, <1>3
  <2> QED
    BY <2>2, <2>4, <2>5
<1> QED
  BY <1>2, <1>3, <1>4

\* Each number is the rank of a place: there are as many of them as places.
LEMMA EveryRank ==
  ASSUME NEW n \in Nat, NEW S \in SUBSET (1..n), NEW k \in 1..Cardinality(S)
  PROVE  \E p \in S : Cardinality(Before(S, p)) = k - 1
<1> DEFINE N == Cardinality(S)
           rank == [p \in S |-> Cardinality(Before(S, p))]
<1>1. N \in Nat /\ rank \in [S -> 0..(N - 1)]
  BY RankFacts
<1>2. ASSUME NEW p \in S, NEW q \in S, rank[p] = rank[q] PROVE p = q
  <2>1. Cardinality(Before(S, p)) = Cardinality(Before(S, q))
    BY <1>2
  <2>2. /\ ~(Cardinality(Before(S, p)) < Cardinality(Before(S, q)))
        /\ ~(Cardinality(Before(S, q)) < Cardinality(Before(S, p)))
    BY <2>1, <1>1
  <2>3. ~(p < q) /\ ~(q < p)
    BY <2>2, RankFacts
  <2> QED
    BY <2>3
<1>3. IsFiniteSet(0..(N - 1)) /\ Cardinality(0..(N - 1)) = N
  <2>1. 0 \in Int /\ N - 1 \in Int
    BY <1>1
  <2>2. /\ IsFiniteSet(0..(N - 1))
        /\ Cardinality(0..(N - 1)) = IF 0 > N - 1 THEN 0 ELSE (N - 1) - 0 + 1
    BY <2>1, FS_Interval
  <2> QED
    BY <1>1, <2>2
<1> HIDE DEF rank
<1>4. rank \in Injection(S, 0..(N - 1))
  BY <1>1, <1>2, Fun_IsInj
<1>5. rank \in Surjection(S, 0..(N - 1))
  BY <1>3, <1>4, FS_Injection
<1>6. k - 1 \in 0..(N - 1)
  BY <1>1
<1>7. PICK p \in S : rank[p] = k - 1
  BY <1>5, <1>6 DEF Surjection
<1> QED
  BY <1>7 DEF rank

LEMMA PlacesInOrder ==
  ASSUME NEW n \in Nat, NEW S \in SUBSET (1..n), NEW seq
  PROVE  \E place : /\ InOrder(place, S)
                    /\ AtPlaces(seq, S) = [k \in 1..Cardinality(S) |-> seq[place[k]]]
<1> DEFINE N == Cardinality(S)
           rank(p) == Cardinality(Before(S, p))
           place == [k \in 1..N |-> CHOOSE p \in S : rank(p) = k - 1]
<1>1. N \in Nat /\ \A p \in S : rank(p) \in 0..(N - 1)
  BY RankFacts
<1>2. \A k \in 1..N : place[k] \in S /\ rank(place[k]) = k - 1
  BY EveryRank
<1>3. AtPlaces(seq, S) = [k \in 1..N |-> seq[place[k]]]
  BY DEF AtPlaces, Before
<1>4. \A p, q \in S : p < q => rank(p) < rank(q)
  BY RankFacts
<1>5. \A p \in S : p \in Int /\ rank(p) \in Int
  BY <1>1
<1> HIDE DEF rank, place
<1>6. ASSUME NEW j \in 1..N, NEW k \in 1..N, j < k PROVE place[j] < place[k]
  <2>1. place[j] \in S /\ place[k] \in S /\ rank(place[j]) < rank(place[k])
    BY <1>1, <1>2, <1>6
  <2>2. ~(rank(place[k]) < rank(place[j])) /\ rank(place[k]) # rank(place[j])
    <3>1. rank(place[k]) \in Int /\ rank(place[j]) \in Int
      BY <1>5, <2>1
    <3> QED
      BY <2>1, <3>1
  <2>3. ~(place[k] < place[j]) /\ place[k] # place[j]
    BY <1>4, <2>1, <2>2
  <2>4. place[j] \in Int /\ place[k] \in Int
    BY <1>5, <2>1
  <2> QED
    BY <2>3, <2>4
<1>7. ASSUME NEW p \in S PROVE \E k \in 1..N : place[k] = p
  <2>1. rank(p) + 1 \in 1..N
    BY <1>1
  <2>2. place[rank(p) + 1] \in S /\ rank(place[rank(p) + 1]) = rank(p)
    BY <1>1, <1>2, <2>1
  <2>3. ~(rank(place[rank(p) + 1]) < rank(p)) /\ ~(rank(p) < rank(place[rank(p) + 1]))
    <3>1. rank(p) \in Int /\ ~(rank(p) < rank(p))
      BY <1>1
    <3> QED
      BY <2>2, <3>1
  <2>4. ~(place[rank(p) + 1] < p) /\ ~(p < place[rank(p) + 1])
    BY <1>4, <2>2, <2>3
  <2>5. place[rank(p) + 1] \in Int /\ p \in Int
    BY <1>5, <2>2
  <2>6. place[rank(p) + 1] = p
    BY <2>4, <2>5
  <2> QED
    BY <2>1, <2>6
<1>8. place \in [1..N -> S]
  BY <1>2 DEF place
<1>9. InOrder(place, S)
  BY <1>6, <1>7, <1>8 DEF InOrder
<1> QED
  BY <1>3, <1>9

-----------------------------------------------------------------------------
(* The calls in the draft. *)

\* What the filters of the record and of the draft leave.
Kept(tool) == ~IsNoise(tool) /\ Category(tool) \notin {"speech", "status"}

Memorable(tool) ==
  /\ tool.name \notin NoiseToolNames
  /\ \/ DOMAIN categories = {} \/ tool.name \notin DOMAIN Advertised
     \/ Advertised[tool.name] \notin {"speech", "status"}

LEMMA KeptIsMemorable ==
  ASSUME categories \in {SetCategories(Advertised), SetCategories(<<>>)}, NEW tool
  PROVE  Kept(tool) <=> Memorable(tool)
<1> DEFINE key(name) == <<name, "normal">>
<1>1. NormalizeToolName(tool) = key(tool.name)
  BY DEF NormalizeToolName
<1>2. \A name : /\ NormalizeToolName([name |-> name, spelling |-> "dotted"]) = key(name)
                /\ NormalizeToolName([name |-> name, spelling |-> "prefixed"]) = key(name)
  BY DEF NormalizeToolName
<1>3. \A a, b : key(a) = key(b) => a = b
  OBVIOUS
<1>4. \A a : key(a)[1] = a
  OBVIOUS
<1> HIDE DEF key
<1>5. IsNoise(tool) <=> tool.name \in NoiseToolNames
  <2>1. {NormalizeToolName([name |-> n, spelling |-> "prefixed"]) : n \in NoiseToolNames}
          = {key(n) : n \in NoiseToolNames}
    BY <1>2
  <2>2. key(tool.name) \in {key(n) : n \in NoiseToolNames} <=> tool.name \in NoiseToolNames
    BY <1>3
  <2> QED
    BY <1>1, <2>1, <2>2 DEF IsNoise
<1>6. ASSUME NEW mapping
      PROVE  SetCategories(mapping) = [k \in {key(name) : name \in DOMAIN mapping} |-> mapping[k[1]]]
  <2>1. {NormalizeToolName([name |-> name, spelling |-> "dotted"]) : name \in DOMAIN mapping}
          = {key(name) : name \in DOMAIN mapping}
    BY <1>2
  <2> QED
    BY <2>1 DEF SetCategories
<1>7. CASE categories = SetCategories(<<>>)
  <2>1. DOMAIN categories = {}
    <3>1. DOMAIN <<>> = {}
      OBVIOUS
    <3> QED
      BY <1>6, <1>7, <3>1
  <2> QED
    BY <1>1, <1>5, <2>1 DEF Kept, Memorable, Category
<1>8. CASE categories = SetCategories(Advertised)
  <2>1. DOMAIN categories = {key(name) : name \in DOMAIN Advertised}
    BY <1>6, <1>8
  <2>2. \A name \in DOMAIN Advertised : categories[key(name)] = Advertised[name]
    BY <1>4, <1>6, <1>8
  <2>3. key(tool.name) \in DOMAIN categories <=> tool.name \in DOMAIN Advertised
    BY <1>3, <2>1
  <2>4. DOMAIN categories = {} => tool.name \notin DOMAIN Advertised
    BY <2>3
  <2>5. Category(tool) = IF tool.name \in DOMAIN Advertised THEN Advertised[tool.name] ELSE "tool"
    BY <1>1, <2>2, <2>3 DEF Category
  <2> QED
    BY <1>5, <2>4, <2>5 DEF Kept, Memorable
<1> QED
  BY <1>7, <1>8

\* A draft that has the kept calls of the matched items, in the order of their ids.
DraftOf(d) ==
  /\ \A i \in DOMAIN d : \E p \in MatchedToolItems : Kept(items[p].tool) /\ d[i] = items[p]
  /\ \A p \in MatchedToolItems : Kept(items[p].tool) => \E i \in DOMAIN d : d[i] = items[p]
  /\ \A i, j \in DOMAIN d : i < j => d[i].id < d[j].id

LEMMA DraftFacts ==
  ASSUME RunTypeOK, CallsAscend
  PROVE  DraftOf(DraftedCalls(RecordedCalls))
<1> DEFINE P == {i \in MatchedToolItems : Category(items[i].tool) # "status"}
           N == Cardinality(P)
           calls == RecordedCalls
           Q == {i \in DOMAIN calls : /\ ~IsNoise(calls[i].tool)
                                      /\ Category(calls[i].tool) \notin {"speech", "status"}}
           d == DraftedCalls(calls)
<1>1. /\ Len(items) \in Nat /\ P \in SUBSET (1..Len(items)) /\ P \subseteq CallPositions
      /\ P \subseteq MatchedToolItems
  BY LenProperties DEF RunTypeOK, MatchedToolItems, CallPositions
<1>2. N \in Nat
  BY <1>1, RankFacts
<1>3. calls = AtPlaces(items, P) /\ d = AtPlaces(calls, Q)
  BY DEF RecordedCalls, DraftedCalls
<1> HIDE DEF P, Q, calls, d
<1>4. PICK place : InOrder(place, P) /\ calls = [k \in 1..N |-> items[place[k]]]
  <2>1. \A seq : \E place : /\ InOrder(place, P)
                           /\ AtPlaces(seq, P) = [k \in 1..N |-> seq[place[k]]]
    BY <1>1, PlacesInOrder
  <2> QED
    BY <1>3, <2>1
<1>5. DOMAIN calls = 1..N /\ \A k \in 1..N : place[k] \in P /\ calls[k] = items[place[k]]
  BY <1>4 DEF InOrder
<1>6. Q \in SUBSET (1..N)
  BY <1>5 DEF Q
<1>7. PICK pick : InOrder(pick, Q) /\ d = [k \in 1..Cardinality(Q) |-> calls[pick[k]]]
  BY <1>2, <1>3, <1>6, PlacesInOrder
<1>8. /\ DOMAIN d = 1..Cardinality(Q)
      /\ \A k \in DOMAIN d : pick[k] \in Q /\ d[k] = calls[pick[k]]
  BY <1>7 DEF InOrder
<1>9. \A k \in 1..N : k \in Q <=> Kept(items[place[k]].tool)
  BY <1>5 DEF Kept, Q
<1>10. \A p \in MatchedToolItems : Kept(items[p].tool) => p \in P
  BY DEF Kept, P
<1> HIDE DEF N
<1>11. ASSUME NEW i \in DOMAIN d
       PROVE  /\ pick[i] \in 1..N /\ place[pick[i]] \in P /\ d[i] = items[place[pick[i]]]
              /\ Kept(items[place[pick[i]]].tool)
  BY <1>5, <1>6, <1>8, <1>9
<1>12. \A i \in DOMAIN d : \E p \in MatchedToolItems : Kept(items[p].tool) /\ d[i] = items[p]
  BY <1>1, <1>11
<1>13. ASSUME NEW p \in MatchedToolItems, Kept(items[p].tool)
       PROVE  \E i \in DOMAIN d : d[i] = items[p]
  <2>1. p \in P
    BY <1>10, <1>13
  <2>2. PICK k \in 1..N : place[k] = p
    BY <1>4, <2>1 DEF InOrder, N
  <2>3. k \in Q
    BY <1>9, <1>13, <2>2
  <2>4. PICK i \in DOMAIN d : pick[i] = k
    BY <1>7, <1>8, <2>3 DEF InOrder
  <2> QED
    BY <1>11, <2>2, <2>4
<1>14. ASSUME NEW i \in DOMAIN d, NEW j \in DOMAIN d, i < j PROVE d[i].id < d[j].id
  <2>1. pick[i] < pick[j]
    BY <1>7, <1>8, <1>14 DEF InOrder
  <2>2. place[pick[i]] < place[pick[j]]
    BY <1>4, <1>11, <2>1 DEF InOrder, N
  <2>3. place[pick[i]] \in CallPositions /\ place[pick[j]] \in CallPositions
    BY <1>1, <1>11
  <2> QED
    BY <1>11, <2>2, <2>3 DEF CallsAscend
<1> QED
  BY <1>12, <1>13, <1>14 DEF DraftOf, d, calls

\* In the end, the draft has what the log has seen answered, unless it is noise.
LEMMA InvGivesRemembered == RecordInv => AnsweredIsRemembered
<1> DEFINE remembered == {drafted[i].id : i \in DOMAIN drafted}
           callOf(c) == items[CHOOSE i \in DOMAIN items : IsCall(items[i]) /\ items[i].id = c]
<1> SUFFICES ASSUME RecordInv, phase \in {"completed", "failed"}
             PROVE  /\ \A c \in CallId : reported[c] = <<"response">> /\ Memorable(callOf(c).tool)
                                           => c \in remembered
                    /\ \A c \in remembered : c \in OutputIds /\ Memorable(callOf(c).tool)
                    /\ \A i, j \in DOMAIN drafted : i < j => drafted[i].id < drafted[j].id
  BY DEF AnsweredIsRemembered, Memorable
<1>1. RunTypeOK /\ CallsAscend /\ Paired /\ RecordOfItems
  BY DEF RecordInv, RunInv
<1>2. DraftOf(drafted)
  BY <1>1, DraftFacts DEF RecordOfItems
<1>3. \A tool : Kept(tool) <=> Memorable(tool)
  BY <1>1, KeptIsMemorable DEF RecordOfItems
<1>4. \A p \in CallPositions : p \in Int /\ items[p].id \in Int
  <2>1. \A p \in DOMAIN items : p \in Int /\ items[p] \in Item
    BY <1>1, LenProperties DEF RunTypeOK
  <2>2. CallId \subseteq Int
    BY RunAssumption DEF CallId
  <2> QED
    BY <2>1, <2>2 DEF CallPositions, Item, CallItem, OutputItem
<1>5. \A p, q \in CallPositions : items[p].id = items[q].id => p = q
  <2> SUFFICES ASSUME NEW p \in CallPositions, NEW q \in CallPositions, items[p].id = items[q].id
               PROVE  p = q
    OBVIOUS
  <2>1. /\ p \in Int /\ q \in Int
        /\ ~(items[p].id < items[q].id) /\ ~(items[q].id < items[p].id)
    BY <1>4
  <2>2. ~(p < q) /\ ~(q < p)
    BY <1>1, <2>1 DEF CallsAscend
  <2> QED
    BY <2>1, <2>2
<1>6. ASSUME NEW p \in CallPositions PROVE callOf(items[p].id) = items[p]
  <2>1. \A i \in DOMAIN items : IsCall(items[i]) /\ items[i].id = items[p].id => i = p
    BY <1>5 DEF CallPositions
  <2>2. p \in DOMAIN items /\ IsCall(items[p])
    BY DEF CallPositions
  <2> QED
    BY <2>1, <2>2
<1>7. MatchedToolItems = {p \in CallPositions : items[p].id \in OutputIds}
  BY DEF MatchedToolItems, CallPositions
<1> HIDE DEF callOf
<1>8. ASSUME NEW c \in CallId, reported[c] = <<"response">>, Memorable(callOf(c).tool)
      PROVE  c \in remembered
  <2>1. c \in OutputIds
    BY <1>1, <1>8 DEF Paired
  <2>2. PICK i \in DOMAIN items : IsOutput(items[i]) /\ items[i].id = c
    BY <2>1 DEF OutputIds
  <2>3. PICK p \in CallPositions : items[p].id = c
    BY <1>1, <2>2 DEF Paired
  <2>4. p \in MatchedToolItems /\ Kept(items[p].tool)
    BY <1>3, <1>6, <1>7, <1>8, <2>1, <2>3
  <2>5. PICK k \in DOMAIN drafted : drafted[k] = items[p]
    BY <1>2, <2>4 DEF DraftOf
  <2> QED
    BY <2>3, <2>5
<1>9. ASSUME NEW c \in remembered PROVE c \in OutputIds /\ Memorable(callOf(c).tool)
  <2>1. PICK i \in DOMAIN drafted : c = drafted[i].id
    OBVIOUS
  <2>2. PICK p \in MatchedToolItems : Kept(items[p].tool) /\ drafted[i] = items[p]
    BY <1>2 DEF DraftOf
  <2> QED
    BY <1>3, <1>6, <1>7, <2>1, <2>2
<1>10. \A i, j \in DOMAIN drafted : i < j => drafted[i].id < drafted[j].id
  BY <1>2 DEF DraftOf
<1> QED
  BY <1>8, <1>9, <1>10

-----------------------------------------------------------------------------
(* The steps, for the record. *)

LEMMA RecordInvInit == RecordInit => RecordInv
<1> SUFFICES ASSUME RecordInit PROVE RecordInv
  OBVIOUS
<1>1. RunInv
  BY RunInvInit DEF RecordInit
<1>2. /\ items = <<>> /\ batch = <<>> /\ queue = <<>> /\ phase = "running"
      /\ \A c \in CallId : reported[c] = <<>>
  BY DEF RecordInit, RunInit
<1>3. CallsAscend
  BY <1>2 DEF CallsAscend, CallPositions
<1>4. Paired
  <2>1. IdsOf(queue, "tool_output") = {} /\ <<"response">> # <<>>
    BY <1>2 DEF IdsOf
  <2> QED
    BY <1>2, <2>1 DEF Paired
<1>5. RecordOfItems
  BY <1>2 DEF RecordInit, RecordOfItems
<1> QED
  BY <1>1, <1>3, <1>4, <1>5 DEF RecordInv

LEMMA CallsPaired ==
  ASSUME RunInv, CallsAscend, Paired,
         NEW n \in 1..MaxBatch, NEW asked \in [1..n -> Asked], ModelCalls(asked)
  PROVE  CallsAscend' /\ Paired'
<1>1. RunTypeOK /\ batch = <<>> /\ UNCHANGED <<items, reported>>
  BY DEF RunInv, ModelCalls
<1>2. /\ DOMAIN batch' = 1..n /\ \A i \in 1..n : batch'[i].id = Begun + i
      /\ IdsOf(queue', "tool_output") = IdsOf(queue, "tool_output")
  BY <1>1, CalledBatch
<1>3. CallPositions' = CallPositions /\ OutputIds' = OutputIds
  BY <1>1 DEF CallPositions, OutputIds
<1>4. Begun = Cardinality(CallPositions)
  <2>1. Len(batch) = 0 /\ Cardinality(CallPositions) \in Nat
    BY <1>1, EmptySeq, BegunIsNat
  <2> QED
    BY <2>1 DEF Begun, CallPositions
<1>5. CallsAscend'
  BY <1>1, <1>2, <1>3, <1>4 DEF CallsAscend
<1>6. Paired'
  BY <1>1, <1>2, <1>3 DEF Paired
<1> QED
  BY <1>5, <1>6

LEMMA ToolsPaired ==
  ASSUME RunInv, CallsAscend, Paired,
         NEW results \in [DOMAIN batch -> Output], ToolsEnd(results)
  PROVE  CallsAscend' /\ Paired'
<1> DEFINE l == Len(items)
           m == Len(batch)
           n == Cardinality(CallPositions)
           size == l + (m + m)
<1>1. RunTypeOK /\ batch' = <<>> /\ UNCHANGED reported
  BY DEF RunInv, ToolsEnd
<1>2. /\ l \in Nat /\ m \in Nat /\ n \in Nat /\ DOMAIN items = 1..l /\ DOMAIN batch = 1..m
  BY <1>1, LenProperties, BegunIsNat DEF RunTypeOK
<1>3. Grown(l, m)
  BY <1>1, ToolsItems
<1> HIDE DEF l, m, n
<1>4. /\ DOMAIN items' = 1..size /\ CallPositions' = CallPositions \cup (l + 1)..(l + m)
      /\ Cardinality(CallPositions') = n + m
      /\ \A i \in 1..l : items'[i] = items[i]
      /\ \A k \in 1..m : items'[l + k] = batch[k] /\ IsCall(batch[k])
  BY <1>3 DEF Grown, n
<1>5. \A k \in 1..m : /\ IsOutput(items'[l + (m + k)])
                      /\ items'[l + (m + k)].id = batch[k].id
  BY <1>3 DEF Grown
<1>6. CallPositions \subseteq 1..l
  BY <1>2 DEF CallPositions
<1>7. /\ \A p \in CallPositions : items'[p] = items[p] /\ p <= l /\ items[p].id <= n
      /\ \A p \in CallPositions : items[p].id \in Int /\ p \in Int
  <2>1. \A p \in 1..l : items[p] \in Item
    BY <1>1, <1>2 DEF RunTypeOK
  <2>2. CallId \subseteq Int
    BY RunAssumption DEF CallId
  <2>3. \A p \in CallPositions : items[p].id \in Int
    BY <1>6, <2>1, <2>2 DEF Item, CallItem, OutputItem
  <2>4. \A p \in CallPositions : items[p].id <= n
    BY DEF CallsAscend, n
  <2>5. \A p \in CallPositions : p \in Int /\ p <= l
    BY <1>2, <1>6
  <2> QED
    BY <1>4, <1>6, <2>3, <2>4, <2>5
\* A call of the batch, by its place.
<1>8. ASSUME NEW p \in (l + 1)..(l + m)
      PROVE  /\ p \in Int /\ p > l /\ items'[p].id = n + (p - l)
             /\ n + (p - l) > n /\ n + (p - l) <= n + m
  <2>1. p - l \in 1..m /\ p = l + (p - l) /\ p \in Int /\ p > l
    BY <1>2
  <2>2. batch[p - l].id = n + (p - l)
    BY <1>2, <2>1 DEF CallsAscend, n
  <2>3. items'[p].id = n + (p - l)
    BY <1>4, <2>1, <2>2
  <2>4. n + (p - l) > n /\ n + (p - l) <= n + m
    BY <1>2, <2>1
  <2> QED
    BY <2>1, <2>3, <2>4
<1>9. CallsAscend'
  <2>1. ASSUME NEW i \in CallPositions', NEW j \in CallPositions', i < j
        PROVE  items'[i].id < items'[j].id
    <3>1. CASE i \in CallPositions /\ j \in CallPositions
      BY <1>7, <2>1, <3>1 DEF CallsAscend
    <3>2. CASE i \in CallPositions /\ j \in (l + 1)..(l + m)
      <4>1. items'[i].id = items[i].id /\ items[i].id \in Int /\ items[i].id <= n
        BY <1>7, <3>2
      <4>2. items'[j].id = n + (j - l) /\ j \in Int /\ n + (j - l) > n
        BY <1>8, <3>2
      <4> QED
        BY <1>2, <4>1, <4>2
    <3>3. CASE i \in (l + 1)..(l + m) /\ j \in CallPositions
      <4>1. i > l /\ i \in Int /\ j <= l /\ j \in Int
        BY <1>7, <1>8, <3>3
      <4> QED
        BY <1>2, <2>1, <4>1
    <3>4. CASE i \in (l + 1)..(l + m) /\ j \in (l + 1)..(l + m)
      <4>1. items'[i].id = n + (i - l) /\ items'[j].id = n + (j - l) /\ i \in Int /\ j \in Int
        BY <1>8, <3>4
      <4>2. n + (i - l) < n + (j - l)
        BY <1>2, <2>1, <4>1
      <4> QED
        BY <4>1, <4>2
    <3> QED
      BY <1>4, <3>1, <3>2, <3>3, <3>4
  <2>2. ASSUME NEW i \in CallPositions' PROVE items'[i].id <= n + m
    <3>1. CASE i \in CallPositions
      <4>1. items'[i].id = items[i].id /\ items[i].id \in Int /\ items[i].id <= n
        BY <1>7, <3>1
      <4> QED
        BY <1>2, <4>1
    <3>2. CASE i \in (l + 1)..(l + m)
      BY <1>8, <3>2
    <3> QED
      BY <1>4, <3>1, <3>2
  <2>3. DOMAIN batch' = {}
    BY <1>1
  <2> QED
    BY <1>4, <2>1, <2>2, <2>3 DEF CallsAscend
<1>10. ASSUME NEW i \in DOMAIN items', IsOutput(items'[i])
       PROVE  \E j \in CallPositions' : items'[j].id = items'[i].id
  <2>1. i \in 1..size
    BY <1>4
  <2>2. CASE i \in 1..l
    <3>1. items'[i] = items[i] /\ i \in DOMAIN items
      BY <1>2, <1>4, <2>2
    <3>2. PICK j \in CallPositions : items[j].id = items[i].id
      BY <1>10, <3>1 DEF Paired
    <3> QED
      BY <1>4, <1>7, <3>1, <3>2
  <2>3. CASE \E k \in 1..m : i = l + k
    BY <1>4, <1>10, <2>3 DEF IsCall, IsOutput
  <2>4. ASSUME NEW k \in 1..m, i = l + (m + k)
        PROVE  \E j \in CallPositions' : items'[j].id = items'[i].id
    <3>1. l + k \in (l + 1)..(l + m)
      BY <1>2, PlacesApart
    <3> QED
      BY <1>4, <1>5, <2>4, <3>1
  <2>5. i \in 1..l \/ (\E k \in 1..m : i = l + k) \/ (\E k \in 1..m : i = l + (m + k))
    BY <1>2, <2>1, PlaceOf
  <2> QED
    BY <2>2, <2>3, <2>4, <2>5
<1>11. OutputIds \subseteq OutputIds'
  <2>1. \A i \in DOMAIN items : i \in DOMAIN items' /\ items'[i] = items[i]
    BY <1>2, <1>4, PlacesApart
  <2> QED
    BY <2>1 DEF OutputIds
<1>12. BatchIds \subseteq OutputIds'
  <2>1. ASSUME NEW k \in 1..m PROVE batch[k].id \in OutputIds'
    <3>1. l + (m + k) \in DOMAIN items'
      BY <1>2, <1>4, PlacesApart
    <3> QED
      BY <1>5, <3>1 DEF OutputIds
  <2> QED
    BY <1>2, <2>1 DEF BatchIds
<1>13. IdsOf(queue', "tool_output") = IdsOf(queue, "tool_output") \cup BatchIds
  BY <1>1, AnswersFacts
<1>14. Paired'
  BY <1>1, <1>10, <1>11, <1>12, <1>13 DEF Paired
<1> QED
  BY <1>9, <1>14

LEMMA HandlePaired ==
  ASSUME RunInv, CallsAscend, Paired, HandleEvent
  PROVE  CallsAscend' /\ Paired'
<1> DEFINE event == Head(queue)
<1>1. /\ Orderly(queue) /\ queue \in Seq(Event) /\ queue # <<>>
      /\ queue' = Tail(queue) /\ UNCHANGED <<batch, items>>
      /\ DOMAIN reported = CallId
  BY DEF RunInv, RunTypeOK, Running, HandleEvent
<1>2. /\ IdsOf(queue', "tool_output") \subseteq IdsOf(queue, "tool_output")
      /\ event \in Event
      /\ event.name = "tool_output" => event.id \in IdsOf(queue, "tool_output")
  BY <1>1, TailOrderly
<1>3. ASSUME NEW c \in CallId, reported'[c] = <<"response">>
      PROVE  reported[c] = <<"response">> \/ c \in IdsOf(queue, "tool_output")
  <2>1. CASE event.name = "tool_called"
    BY <1>3, <2>1 DEF HandleEvent
  <2>2. CASE event.name = "tool_output"
    <3>1. reported' = [reported EXCEPT ![event.id] = Append(@, "response")]
      BY <2>2 DEF HandleEvent
    <3>2. CASE c = event.id
      BY <1>2, <2>2, <3>2
    <3>3. CASE c # event.id
      BY <1>1, <1>3, <3>1, <3>3
    <3> QED
      BY <3>2, <3>3
  <2> QED
    BY <1>2, <2>1, <2>2 DEF Event
<1>4. CallPositions' = CallPositions /\ OutputIds' = OutputIds
  BY <1>1 DEF CallPositions, OutputIds
<1>5. CallsAscend'
  BY <1>1, <1>4 DEF CallsAscend
<1>6. Paired'
  BY <1>1, <1>2, <1>3, <1>4 DEF Paired
<1> QED
  BY <1>5, <1>6

LEMMA EndPaired ==
  ASSUME RunInv, CallsAscend, Paired, RunCompletes \/ RunRaises \/ RunCancelled
  PROVE  CallsAscend' /\ Paired'
<1>1. items' = items /\ (batch' = batch \/ batch' = <<>>) /\ (queue' = queue \/ queue' = <<>>)
  BY DEF RunCompletes, RunRaises, RunCancelled
<1>2. ASSUME NEW c \in CallId, reported'[c] = <<"response">> PROVE reported[c] = <<"response">>
  <2>1. CASE UNCHANGED reported
    BY <1>2, <2>1
  <2>2. CASE RunRaises
    <3>1. reported'[c] = IF c \in pending THEN Append(reported[c], "error") ELSE reported[c]
      BY <2>2 DEF RunRaises, LogPendingErrors
    <3>2. Append(<<>>, "error") = <<"error">> /\ <<"error">> # <<"response">>
      OBVIOUS
    <3>3. c \in pending => reported[c] = <<>>
      BY DEF RunInv, ReportedOnce
    <3> QED
      BY <1>2, <3>1, <3>2, <3>3
  <2> QED
    BY <2>1, <2>2 DEF RunCompletes, RunCancelled
<1>3. CallPositions' = CallPositions /\ OutputIds' = OutputIds
  BY <1>1 DEF CallPositions, OutputIds
<1>4. CallsAscend'
  <2>1. \A k \in DOMAIN batch' : batch'[k].id = Cardinality(CallPositions) + k
    BY <1>1 DEF CallsAscend
  <2> QED
    BY <1>1, <1>3, <2>1 DEF CallsAscend
<1>5. Paired'
  <2>1. IdsOf(queue', "tool_output") \subseteq IdsOf(queue, "tool_output")
    BY <1>1 DEF IdsOf
  <2> QED
    BY <1>1, <1>2, <1>3, <2>1 DEF Paired
<1> QED
  BY <1>4, <1>5

\* Every step is one of the run, or leaves the run alone.
LEMMA RecordStepIsRunStep == [RecordNext]_recordVars => [RunNext]_runVars
BY DEF RecordNext, recordVars, RunNext, StreamEnds, StreamRaises, Cancelled

LEMMA RecordedStep ==
  ASSUME RecordOfItems, [RecordNext]_recordVars
  PROVE  RecordOfItems'
<1>1. CASE phase' = phase /\ Unrecorded /\ items' = items
  <2>1. RecordedCalls' = RecordedCalls
    BY <1>1 DEF Unrecorded, RecordedCalls, MatchedToolItems, OutputIds, Category
  <2>2. DraftedCalls(RecordedCalls)' = DraftedCalls(RecordedCalls)
    BY <1>1, <2>1 DEF Unrecorded, DraftedCalls, Category
  <2> QED
    BY <1>1, <2>1, <2>2 DEF Unrecorded, RecordOfItems
<1>2. CASE phase = "running" /\ phase' \in {"running", "cancelled"} /\ Unrecorded
  BY <1>2 DEF Unrecorded, RecordOfItems
<1>3. CASE StreamEnds \/ StreamRaises
  <2>1. /\ phase' \in {"completed", "failed"} /\ items' = items /\ categories' = categories
        /\ recorded' = RecordedCalls /\ drafted' = DraftedCalls(RecordedCalls)
    BY <1>3 DEF StreamEnds, StreamRaises, RunCompletes, RunRaises, MakeRecord
  <2>2. RecordedCalls' = RecordedCalls
    BY <2>1 DEF RecordedCalls, MatchedToolItems, OutputIds, Category
  <2>3. DraftedCalls(RecordedCalls)' = DraftedCalls(RecordedCalls)
    BY <2>1, <2>2 DEF DraftedCalls, Category
  <2> QED
    BY <2>1, <2>2, <2>3 DEF RecordOfItems
<1>4. CASE UNCHANGED recordVars
  BY <1>1, <1>4 DEF recordVars, runVars, Unrecorded
<1> QED
  BY <1>2, <1>3, <1>4
     DEF RecordNext, ModelCalls, ToolsEnd, HandleEvent, Cancelled, RunCancelled

LEMMA RecordInvStep == RecordInv /\ [RecordNext]_recordVars => RecordInv'
<1> SUFFICES ASSUME RecordInv, [RecordNext]_recordVars PROVE RecordInv'
  OBVIOUS
<1>1. RunInv /\ CallsAscend /\ Paired /\ RecordOfItems /\ [RunNext]_runVars
  BY RecordStepIsRunStep DEF RecordInv
<1>2. RunInv' /\ RecordOfItems'
  BY <1>1, RunInvStep, RecordedStep
<1>3. CallsAscend' /\ Paired'
  <2>1. ASSUME NEW n \in 1..MaxBatch, NEW asked \in [1..n -> Asked], ModelCalls(asked)
        PROVE  CallsAscend' /\ Paired'
    BY <1>1, <2>1, CallsPaired
  <2>2. ASSUME NEW results \in [DOMAIN batch -> Output], ToolsEnd(results)
        PROVE  CallsAscend' /\ Paired'
    BY <1>1, <2>2, ToolsPaired
  <2>3. CASE HandleEvent
    BY <1>1, <2>3, HandlePaired
  <2>4. CASE RunCompletes \/ RunRaises \/ RunCancelled
    BY <1>1, <2>4, EndPaired
  <2>5. CASE UNCHANGED runVars
    <3>1. /\ CallPositions' = CallPositions /\ OutputIds' = OutputIds
          /\ UNCHANGED <<items, batch, queue, reported>>
      BY <2>5 DEF runVars, CallPositions, OutputIds
    <3>2. CallsAscend'
      BY <1>1, <3>1 DEF CallsAscend
    <3>3. Paired'
      BY <1>1, <3>1 DEF Paired
    <3> QED
      BY <3>2, <3>3
  <2> QED
    BY <1>1, <2>1, <2>2, <2>3, <2>4, <2>5 DEF RunNext
<1> QED
  BY <1>2, <1>3 DEF RecordInv

-----------------------------------------------------------------------------
\* The items of a run have their calls in order and their outputs with them, and
\* the record of the turn is made of them, in every run.
THEOREM RecordInvariant == RecordSpec => []RecordInv
<1> QED
  BY RecordInvInit, RecordInvStep, PTL DEF RecordSpec

\* What the turn records does not change what the run does.
LEMMA RecordIsRun == RecordSpec => RunSpec
<1>1. RecordInit => RunInit
  BY DEF RecordInit
<1> QED
  BY <1>1, RecordStepIsRunStep, PTL DEF RecordSpec, RunSpec

\* Whatever the tools, the categories and the number of calls, and wherever the
\* stream ends or raises: the memory has the calls whose response was logged, and
\* no others but answered ones, in their order and without the noise.
THEOREM AnsweredCallsRemembered == RecordSpec => []AnsweredIsRemembered
<1> QED
  BY RecordInvariant, InvGivesRemembered, PTL

-----------------------------------------------------------------------------
(* The turn. *)

StoredItem == [type: {"call", "output"}, id: CallId, tool: Tool, value: Json[MaxDepth]]

\* An item as the session has it.
StoredOf(item) ==
  [item EXCEPT !.value = sanitize_images(IF IsCall(item) THEN JsonText(@) ELSE @)]

\* The session has the items of the run, each of them sanitized.
SessionOfItems == stored = AddItems(items)

TurnInv == RecordInv /\ SessionOfItems

LEMMA StoredOfItem ==
  ASSUME NEW item \in Item
  PROVE  /\ StoredOf(item) \in StoredItem
         /\ IsOutput(StoredOf(item)) <=> IsOutput(item)
         /\ ~HasImageData(StoredOf(item).value)
         /\ IsOutput(item) /\ IsSdkForm(item.value) => ~contains_image(StoredOf(item).value)
<1>1. CASE item \in CallItem
  <2>1. item.value \in Argument /\ IsCall(item) /\ ~IsOutput(item)
    BY <1>1 DEF CallItem, IsCall, IsOutput
  <2> DEFINE text == sanitize_images(JsonText(item.value))
  <2>2. text \in Json[MaxDepth]
    BY <2>1, RecordAssumption, JsonTextFacts, SanitizeFacts
  <2>3. ~HasImageData(text)
    BY <2>1, ArgumentFacts
  <2>4. StoredOf(item) = [item EXCEPT !.value = text]
    BY <2>1 DEF StoredOf
  <2> HIDE DEF text
  <2>5. [item EXCEPT !.value = text] \in [type: {"call"}, id: CallId, tool: Tool, value: Json[MaxDepth]]
    BY <1>1, <2>2 DEF CallItem
  <2>6. [item EXCEPT !.value = text].value = text
    BY <1>1 DEF CallItem
  <2> QED BY <2>1, <2>3, <2>4, <2>5, <2>6 DEF StoredItem, IsOutput
<1>2. CASE item \in OutputItem
  <2>1. item.value \in Output /\ ~IsCall(item) /\ IsOutput(item)
    BY <1>2 DEF OutputItem, IsCall, IsOutput
  <2> DEFINE value == sanitize_images(item.value)
  <2>2. item.value \in Json[MaxDepth]
    BY <2>1, RecordAssumption, FormedByKind, Depths
  <2>3. value \in Json[MaxDepth] /\ ~HasImageData(value)
    BY <2>1, <2>2, OutputFacts, SanitizeFacts
  <2>4. IsSdkForm(item.value) => ~contains_image(value)
    BY <2>2, SdkFormIsNoFrame
  <2>5. StoredOf(item) = [item EXCEPT !.value = value]
    BY <2>1 DEF StoredOf
  <2> HIDE DEF value
  <2>6. [item EXCEPT !.value = value] \in [type: {"output"}, id: CallId, tool: Tool, value: Json[MaxDepth]]
    BY <1>2, <2>3 DEF OutputItem
  <2>7. [item EXCEPT !.value = value].value = value
    BY <1>2 DEF OutputItem
  <2> QED BY <2>1, <2>3, <2>4, <2>5, <2>6, <2>7 DEF StoredItem, IsOutput
<1> QED
  BY <1>1, <1>2 DEF Item

LEMMA AddItemsFacts ==
  ASSUME NEW new \in Seq(Item)
  PROVE  /\ AddItems(new) \in Seq(StoredItem) /\ Len(AddItems(new)) = Len(new)
         /\ DOMAIN AddItems(new) = DOMAIN new
         /\ \A i \in DOMAIN new : AddItems(new)[i] = StoredOf(new[i])
<1>1. Len(new) \in Nat /\ DOMAIN new = 1..Len(new) /\ \A i \in DOMAIN new : new[i] \in Item
  BY LenProperties
<1>2. AddItems(new) = [i \in DOMAIN new |-> StoredOf(new[i])]
  BY DEF AddItems, StoredOf
<1>3. \A i \in DOMAIN new : StoredOf(new[i]) \in StoredItem
  BY <1>1, StoredOfItem
<1>4. AddItems(new) \in [1..Len(new) -> StoredItem]
  BY <1>1, <1>2, <1>3
<1>5. AddItems(new) \in Seq(StoredItem) /\ Len(AddItems(new)) = Len(new)
  BY <1>1, <1>4, FunctionIsSeq
<1> QED
  BY <1>2, <1>5

\* Saving one response after the other is as good as saving them all.
LEMMA AddItemsConcat ==
  ASSUME NEW old \in Seq(Item), NEW new \in Seq(Item)
  PROVE  AddItems(old \o new) = AddItems(old) \o AddItems(new)
<1> DEFINE both == old \o new
           left == AddItems(both)
           right == AddItems(old) \o AddItems(new)
           l == Len(old)
           m == Len(new)
<1>1. l \in Nat /\ m \in Nat /\ DOMAIN old = 1..l /\ DOMAIN new = 1..m
  BY LenProperties
<1>2. /\ both \in Seq(Item) /\ Len(both) = l + m
      /\ \A i \in 1..(l + m) : both[i] = IF i <= l THEN old[i] ELSE new[i - l]
  BY ConcatProperties
<1>3. /\ AddItems(old) \in Seq(StoredItem) /\ Len(AddItems(old)) = l
      /\ AddItems(new) \in Seq(StoredItem) /\ Len(AddItems(new)) = m
  BY AddItemsFacts
<1>4. /\ right \in Seq(StoredItem) /\ Len(right) = l + m
      /\ \A i \in 1..(l + m) : right[i] = IF i <= l THEN AddItems(old)[i] ELSE AddItems(new)[i - l]
  <2> DEFINE a == AddItems(old)
             b == AddItems(new)
  <2>1. a \in Seq(StoredItem) /\ b \in Seq(StoredItem) /\ Len(a) = l /\ Len(b) = m
    BY <1>3
  <2> HIDE DEF a, b, l, m
  <2>2. /\ a \o b \in Seq(StoredItem) /\ Len(a \o b) = Len(a) + Len(b)
        /\ \A i \in 1..(Len(a) + Len(b)) : (a \o b)[i] = IF i <= Len(a) THEN a[i] ELSE b[i - Len(a)]
    BY <2>1, ConcatProperties
  <2>3. right = a \o b
    BY DEF a, b
  <2> HIDE DEF right
  <2>4. /\ right \in Seq(StoredItem) /\ Len(right) = l + m
        /\ \A i \in 1..(l + m) : right[i] = IF i <= l THEN a[i] ELSE b[i - l]
    BY <2>1, <2>2, <2>3
  <2> QED BY <2>4 DEF a, b
<1> HIDE DEF both, right
<1>5. /\ left \in Seq(StoredItem) /\ Len(left) = l + m
      /\ \A i \in 1..(l + m) : left[i] = StoredOf(both[i])
  <2>1. DOMAIN both = 1..(l + m)
    BY <1>2, LenProperties
  <2> QED BY <1>2, <2>1, AddItemsFacts
<1> HIDE DEF left, l, m
<1>6. ASSUME NEW i \in 1..(l + m) PROVE left[i] = right[i]
  <2>1. CASE i <= l
    <3>1. i \in DOMAIN old
      BY <1>1, <2>1
    <3>2. AddItems(old)[i] = StoredOf(old[i])
      BY <3>1, AddItemsFacts
    <3> QED BY <1>2, <1>4, <1>5, <2>1, <3>2
  <2>2. CASE ~(i <= l)
    <3>1. i - l \in DOMAIN new
      BY <1>1, <2>2
    <3>2. AddItems(new)[i - l] = StoredOf(new[i - l])
      BY <3>1, AddItemsFacts
    <3> QED BY <1>2, <1>4, <1>5, <2>2, <3>2
  <2> QED BY <2>1, <2>2
<1>7. left = right
  BY <1>4, <1>5, <1>6, SeqEqual
<1> QED
  BY <1>7 DEF left, right, both

\* Every step of the turn is one of the run, its record, or leaves these alone.
LEMMA TurnStepIsRecordStep == [Next]_vars => [RecordNext]_recordVars
BY DEF Next, vars, RecordNext, ToolsSaved

LEMMA TurnInvInit == Init => TurnInv
<1> SUFFICES ASSUME Init PROVE TurnInv
  OBVIOUS
<1>1. RecordInv
  BY RecordInvInit DEF Init
<1>2. items = <<>> /\ stored = <<>>
  BY DEF Init, RecordInit, RunInit
<1>3. AddItems(<<>>) = <<>>
  BY DEF AddItems
<1> QED
  BY <1>1, <1>2, <1>3 DEF TurnInv, SessionOfItems

LEMMA TurnInvStep == TurnInv /\ [Next]_vars => TurnInv'
<1> SUFFICES ASSUME TurnInv, [Next]_vars PROVE TurnInv'
  OBVIOUS
<1>1. RecordInv /\ RunTypeOK /\ SessionOfItems
  BY DEF TurnInv, RecordInv, RunInv
<1>2. RecordInv'
  BY <1>1, TurnStepIsRecordStep, RecordInvStep
<1>3. SessionOfItems' <=> stored' = AddItems(items')
  BY DEF SessionOfItems, AddItems, IsCall
<1>4. ASSUME NEW results \in [DOMAIN batch -> Output], ToolsSaved(results) PROVE SessionOfItems'
  <2>1. items \in Seq(Item) /\ BatchItems(results) \in Seq(Item)
    BY <1>1, BatchItemsFacts DEF RunTypeOK
  <2>2. AddItems(items \o BatchItems(results)) = AddItems(items) \o AddItems(BatchItems(results))
    BY <2>1, AddItemsConcat
  <2>3. items' = items \o BatchItems(results) /\ stored' = stored \o AddItems(BatchItems(results))
    BY <1>4 DEF ToolsSaved, ToolsEnd
  <2> QED BY <1>1, <1>3, <2>2, <2>3 DEF SessionOfItems
<1>5. ASSUME UNCHANGED <<items, stored>> PROVE SessionOfItems'
  BY <1>1, <1>3, <1>5 DEF SessionOfItems
<1>6. (\E results \in [DOMAIN batch -> Output] : ToolsSaved(results)) \/ UNCHANGED <<items, stored>>
  BY DEF Next, vars, recordVars, runVars, ModelCalls, HandleEvent, StreamEnds, RunCompletes,
         StreamRaises, RunRaises, Cancelled, RunCancelled
<1> QED
  BY <1>2, <1>4, <1>5, <1>6 DEF TurnInv

\* The record has calls that were answered, with arguments and outputs of the run.
LEMMA RecordedFacts ==
  ASSUME RunTypeOK
  PROVE  \A i \in DOMAIN RecordedCalls : \E p \in MatchedToolItems : RecordedCalls[i] = items[p]
<1> DEFINE P == {i \in MatchedToolItems : Category(items[i].tool) # "status"}
<1>1. Len(items) \in Nat /\ P \in SUBSET (1..Len(items)) /\ P \subseteq MatchedToolItems
  BY LenProperties DEF RunTypeOK, MatchedToolItems
<1>2. RecordedCalls = AtPlaces(items, P)
  BY DEF RecordedCalls
<1> HIDE DEF P
<1> DEFINE N == Cardinality(P)
<1>3. PICK place : InOrder(place, P) /\ RecordedCalls = [k \in 1..N |-> items[place[k]]]
  <2>1. \A seq : \E place : /\ InOrder(place, P)
                           /\ AtPlaces(seq, P) = [k \in 1..N |-> seq[place[k]]]
    BY <1>1, PlacesInOrder
  <2> QED BY <1>2, <2>1
<1>4. DOMAIN RecordedCalls = 1..N /\ \A k \in 1..N : place[k] \in P /\ RecordedCalls[k] = items[place[k]]
  BY <1>3 DEF InOrder
<1> QED
  BY <1>1, <1>4

LEMMA MatchedFacts ==
  ASSUME RunTypeOK, NEW p \in MatchedToolItems
  PROVE  items[p].value \in Argument /\ OutputOf(items[p].id) \in Output
<1>1. p \in DOMAIN items /\ IsCall(items[p]) /\ items[p].id \in OutputIds
  BY DEF MatchedToolItems
<1>2. \A i \in DOMAIN items : items[i] \in Item
  BY DEF RunTypeOK
<1>3. items[p].value \in Argument
  BY <1>1, <1>2 DEF Item, CallItem, OutputItem, IsCall
<1> DEFINE place == CHOOSE i \in DOMAIN items : IsOutput(items[i]) /\ items[i].id = items[p].id
<1>4. \E i \in DOMAIN items : IsOutput(items[i]) /\ items[i].id = items[p].id
  BY <1>1 DEF OutputIds
<1>5. place \in DOMAIN items /\ IsOutput(items[place])
  BY <1>4
<1>6. items[place].value \in Output
  BY <1>2, <1>5 DEF Item, CallItem, OutputItem, IsOutput
<1> QED
  BY <1>3, <1>6 DEF OutputOf

LEMMA InvGivesNoImage == TurnInv => NoImageKept
<1> SUFFICES ASSUME TurnInv PROVE NoImageKept
  OBVIOUS
<1>1. RunTypeOK /\ CallsAscend /\ RecordOfItems /\ SessionOfItems /\ items \in Seq(Item)
  BY DEF TurnInv, RecordInv, RunInv, RunTypeOK
<1>2. ASSUME NEW i \in DOMAIN stored
      PROVE  /\ ~HasImageData(stored[i].value)
             /\ IsOutput(stored[i]) /\ IsSdkForm(items[i].value) => ~contains_image(stored[i].value)
  <2>1. i \in DOMAIN items /\ items[i] \in Item /\ stored[i] = StoredOf(items[i])
    BY <1>1, AddItemsFacts, LenProperties DEF SessionOfItems
  <2> QED BY <2>1, StoredOfItem
<1>3. \A i \in DOMAIN recorded : \E p \in MatchedToolItems : recorded[i] = items[p]
  <2>1. recorded = <<>> \/ recorded = RecordedCalls
    BY <1>1 DEF RecordOfItems, RunTypeOK
  <2> QED BY <1>1, <2>1, RecordedFacts
<1>4. \A i \in DOMAIN drafted : \E p \in MatchedToolItems : drafted[i] = items[p]
  <2>1. drafted = <<>> \/ drafted = DraftedCalls(RecordedCalls)
    BY <1>1 DEF RecordOfItems, RunTypeOK
  <2> QED BY <1>1, <2>1, DraftFacts DEF DraftOf
<1>5. ASSUME NEW i \in DOMAIN ToolEvents, NEW field \in DOMAIN ToolEvents[i]
      PROVE  ~HasImageData(ToolEvents[i][field])
  <2>1. PICK p \in MatchedToolItems : recorded[i] = items[p]
    BY <1>3 DEF ToolEvents
  <2> DEFINE arguments == sanitize_images(items[p].value)
             output == OutputPreview(OutputOf(items[p].id))
  <2>2. ToolEvents[i] = [arguments |-> arguments, output |-> output]
    BY <2>1 DEF ToolEvents, CompactToolEvent
  <2>3. ~HasImageData(arguments) /\ ~HasImageData(output)
    BY <1>1, MatchedFacts, ArgumentFacts, OutputFacts
  <2> HIDE DEF arguments, output
  <2> QED BY <2>2, <2>3
<1>6. ASSUME NEW i \in DOMAIN DraftEvents
      PROVE  LET found(field) == PartsOf(DraftEvents[i][field])
             IN /\ (found("arguments") \cup found("output")) \cap {"dataURL", "base64", "placeholder"} = {}
                /\ "words" \in PartsOf(OutputOf(drafted[i].id)) => "words" \in found("output")
  <2>1. PICK p \in MatchedToolItems : drafted[i] = items[p]
    BY <1>4 DEF DraftEvents
  <2> DEFINE arguments == MemorySafeValue(sanitize_images(items[p].value))
             output == MemorySafeValue(OutputPreview(OutputOf(items[p].id)))
  <2>2. DraftEvents[i].arguments = arguments /\ DraftEvents[i].output = output
    BY <2>1 DEF DraftEvents, DraftEvent, CompactToolEvent
  <2>3. items[p].value \in Argument /\ OutputOf(items[p].id) \in Output
    BY <1>1, MatchedFacts
  <2>4. PartsOf(arguments) \cap {"dataURL", "base64", "placeholder"} = {}
    BY <2>3, ArgumentFacts
  <2>5. /\ PartsOf(output) \cap {"dataURL", "base64", "placeholder"} = {}
        /\ "words" \in PartsOf(OutputOf(items[p].id)) => "words" \in PartsOf(output)
    BY <2>3, OutputFacts
  <2> HIDE DEF arguments, output
  <2> QED BY <2>1, <2>2, <2>4, <2>5
<1> QED
  BY <1>2, <1>5, <1>6 DEF NoImageKept

-----------------------------------------------------------------------------
\* The session has the items of the run, each of them sanitized, and the record is
\* made of them, in every turn.
THEOREM TurnInvariant == Spec => []TurnInv
<1> QED
  BY TurnInvInit, TurnInvStep, PTL DEF Spec

\* The run, the session and the record keep their types: what is stored of a call or
\* of an output is an item of its kind, whose value is no deeper than it was allowed.
THEOREM TurnTypeCorrect == Spec => [](RunTypeOK /\ stored \in Seq(StoredItem))
<1>1. TurnInv => RunTypeOK /\ stored \in Seq(StoredItem)
  <2> SUFFICES ASSUME TurnInv PROVE RunTypeOK /\ stored \in Seq(StoredItem)
    OBVIOUS
  <2>1. RunTypeOK /\ items \in Seq(Item) /\ stored = AddItems(items)
    BY DEF TurnInv, RecordInv, RunInv, RunTypeOK, SessionOfItems
  <2> QED BY <2>1, AddItemsFacts
<1> QED
  BY <1>1, TurnInvariant, PTL

\* What a turn stores does not change what it records.
LEMMA TurnIsRecord == Spec => RecordSpec
<1>1. Init => RecordInit
  BY DEF Init
<1> QED
  BY <1>1, TurnStepIsRecordStep, PTL DEF Spec, RecordSpec

\* A whole turn, with its session: the log says once how each call has ended, and the
\* memory has the calls whose response was logged, answered ones only, in their order
\* and without the noise, wherever the stream ends or raises.
THEOREM TurnReportedAndRemembered == Spec => [](ReportedOnce /\ AnsweredIsRemembered)
BY TurnIsRecord, RecordIsRun, CallsReportedOnce, AnsweredCallsRemembered, PTL

\* Whatever a tool answers, as deep as it may be and in any form that MCP and the SDK
\* give it: no image is in the session, the record or the memory, nor would a later
\* turn take an output in the session for a camera frame; and the memory keeps the
\* words of every output.
THEOREM NoImageOutlivesTurn == Spec => []NoImageKept
<1> QED
  BY TurnInvariant, InvGivesNoImage, PTL
=============================================================================
