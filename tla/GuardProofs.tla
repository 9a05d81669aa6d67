----------------------------- MODULE GuardProofs -----------------------------
(***************************************************************************)
(* Proofs about Guard.tla, for integers of any width, any floats, any      *)
(* parser and any evaluation of expressions, and any payload: the          *)
(* operators of guards agree with each other.                              *)
(***************************************************************************)
EXTENDS Guard, FiniteSetTheorems, SequenceTheorems, TLAPS

-----------------------------------------------------------------------------
(* Values                                                                  *)

\* All values but null.
Scalars == Values \ {Null}

LEMMA PlaceIs ==
  ASSUME NEW s \in Strings
  PROVE  Place(s) \in Int /\ StringOrder[Place(s)] = s
<1>1. \E i \in DOMAIN StringOrder : StringOrder[i] = s
  BY DEF Strings
<1>2. Place(s) \in DOMAIN StringOrder /\ StringOrder[Place(s)] = s
  BY <1>1 DEF Place
<1>3. DOMAIN StringOrder = 1..Len(StringOrder)
  BY StringsAssumption, LenProperties
<1> QED
  BY <1>2, <1>3

\* The kinds of values.
LEMMA ScalarCases ==
  ASSUME NEW v \in Scalars
  PROVE  \/ v[1] = "int" /\ v[2] \in Int /\ AsFloat(v[2]) \in Int /\ v = <<"int", v[2]>>
         \/ v[1] = "float" /\ v[2] \in Int \cup {NaN} /\ v = <<"float", v[2]>>
         \/ v[1] = "str" /\ v[2] \in Strings /\ v = <<"str", v[2]>>
         \/ v[1] = "bool" /\ v[2] \in BOOLEAN /\ v = <<"bool", v[2]>>
BY NumbersAssumption DEF Scalars, Values, Ints, Null

LEMMA ScalarsHaveValues ==
  ASSUME NEW v \in Scalars
  PROVE  ~Stops(v) /\ v # Null
BY ScalarCases DEF Stops, Error, Panic, Null

\* The numbers by which an order compares two values, and equality.
LEMMA RanksAre ==
  ASSUME NEW a \in Scalars, NEW b \in Scalars, Comparable(a, b)
  PROVE  \E x, y \in Int : /\ Ranks(a, b) = <<x, y>> /\ Ranks(b, a) = <<y, x>>
                           /\ Equal(a, b) <=> x = y
                           /\ Equal(b, a) <=> x = y
<1>1. CASE a[1] = "str" /\ b[1] = "str"
  <2>1. PICK x, y : x = Place(a[2]) /\ y = Place(b[2])
    OBVIOUS
  <2>2. a[2] \in Strings /\ b[2] \in Strings /\ a = <<"str", a[2]>> /\ b = <<"str", b[2]>>
    BY <1>1, ScalarCases
  <2>3. x \in Int /\ y \in Int /\ StringOrder[x] = a[2] /\ StringOrder[y] = b[2]
    BY <2>1, <2>2, PlaceIs
  <2>4. x = y <=> a[2] = b[2]
    BY <2>1, <2>3
  <2>5. a = b <=> x = y
    BY <2>2, <2>4
  <2>6. Ranks(a, b) = <<x, y>> /\ Ranks(b, a) = <<y, x>>
    BY <1>1, <2>1 DEF Ranks
  <2>7. (Equal(a, b) <=> a = b) /\ (Equal(b, a) <=> b = a)
    BY <1>1 DEF Equal, Numeric
  <2> QED
    BY <2>3, <2>5, <2>6, <2>7
<1>2. CASE a[1] = "int" /\ b[1] = "int"
  <2>1. PICK x, y : x = a[2] /\ y = b[2]
    OBVIOUS
  <2>2. x \in Int /\ y \in Int
    BY <1>2, <2>1, ScalarCases
  <2>3. Ranks(a, b) = <<x, y>> /\ Ranks(b, a) = <<y, x>>
    BY <1>2, <2>1 DEF Ranks
  <2>4. (Equal(a, b) <=> x = y) /\ (Equal(b, a) <=> x = y)
    BY <1>2, <2>1 DEF Equal
  <2> QED
    BY <2>2, <2>3, <2>4
<1>3. CASE Numeric(a) /\ Numeric(b) /\ NaN \notin {a[2], b[2]} /\ ~(a[1] = "int" /\ b[1] = "int")
  <2>1. PICK x, y : x = ToFloat(a) /\ y = ToFloat(b)
    OBVIOUS
  <2>2. x \in Int /\ y \in Int
    BY <1>3, <2>1, ScalarCases DEF ToFloat, Numeric
  <2>3. x # NaN /\ y # NaN
    BY <2>2, NumbersAssumption
  <2> QED
    BY <1>3, <2>1, <2>2, <2>3 DEF Ranks, Equal, Numeric
<1> QED
  BY <1>1, <1>2, <1>3 DEF Comparable, Numeric

-----------------------------------------------------------------------------
(* Operators                                                               *)

LEMMA OrderOperators ==
  ASSUME NEW a \in Scalars, NEW b \in Scalars, NEW op \in {"<", "<=", ">", ">="}
  PROVE  /\ Apply(op, a, b) = Compare(op, a, b)
         /\ ~Comparable(a, b) => Compare(op, a, b) = Error
<1>1. ~Stops(a) /\ ~Stops(b) /\ a # Null /\ b # Null
  BY ScalarsHaveValues
<1>2. Apply(op, a, b) = Compare(op, a, b)
  BY <1>1 DEF Apply
<1>3. ~Comparable(a, b) => Compare(op, a, b) = Error
  BY <1>1 DEF Compare
<1> QED
  BY <1>2, <1>3

LEMMA EqualityOperators ==
  ASSUME NEW a, NEW b, ~Stops(a), ~Stops(b)
  PROVE  /\ Holds("==", a, b) <=> Equal(a, b)
         /\ Holds("!=", a, b) <=> ~Equal(a, b)
<1>2. Apply("==", a, b) = <<"bool", Equal(a, b)>> /\ Apply("!=", a, b) = <<"bool", ~Equal(a, b)>>
  BY DEF Apply
<1>3. PICK v, w, p : v = Apply("==", a, b) /\ w = Apply("!=", a, b) /\ p = Equal(a, b)
  OBVIOUS
<1>4. p \in BOOLEAN
  BY <1>3 DEF Equal
<1>5. v = <<"bool", p>> /\ w = <<"bool", ~p>>
  BY <1>2, <1>3
<1>6. (v = <<"bool", TRUE>> <=> p) /\ (w = <<"bool", TRUE>> <=> ~p)
  BY <1>4, <1>5
<1> QED
  BY <1>3, <1>6 DEF Holds

\* An order says of two values what it says of their ranks.
LEMMA OrderSays ==
  ASSUME NEW a \in Scalars, NEW b \in Scalars, Comparable(a, b),
         NEW x \in Int, NEW y \in Int, Ranks(a, b) = <<x, y>>,
         NEW op \in {"<", "<=", ">", ">="}
  PROVE  /\ Holds(op, a, b) <=> Ordered(op, x, y)
         /\ Apply(op, a, b) # Error
<1>1. a # Null /\ b # Null
  BY ScalarsHaveValues
<1>2. Ranks(a, b)[1] = x /\ Ranks(a, b)[2] = y
  OBVIOUS
<1>3. PICK v, p : v = Apply(op, a, b) /\ p = Ordered(op, x, y)
  OBVIOUS
<1>4. p \in BOOLEAN
  BY <1>3 DEF Ordered
<1>5. v = <<"bool", p>>
  <2>1. Compare(op, a, b) = <<"bool", Ordered(op, Ranks(a, b)[1], Ranks(a, b)[2])>>
    BY <1>1 DEF Compare
  <2> QED
    BY <1>2, <1>3, <2>1, OrderOperators
<1>6. (v = <<"bool", TRUE>> <=> p) /\ v # Error
  BY <1>4, <1>5 DEF Error
<1> QED
  BY <1>3, <1>6 DEF Holds

LEMMA ComparableBothWays ==
  ASSUME NEW a, NEW b
  PROVE  Comparable(a, b) <=> Comparable(b, a)
BY DEF Comparable

LEMMA EqualBothWays ==
  ASSUME NEW a \in Scalars, NEW b \in Scalars
  PROVE  Equal(a, b) <=> Equal(b, a)
<1>1. CASE Numeric(a) /\ Numeric(b)
  BY <1>1 DEF Equal
<1>2. CASE ~(Numeric(a) /\ Numeric(b))
  BY <1>2 DEF Equal, Numeric
<1> QED
  BY <1>1, <1>2

\* Values of which an order speaks.
LEMMA OrderedStory ==
  ASSUME NEW a \in Scalars, NEW b \in Scalars, Comparable(a, b)
  PROVE  TellOneStory(a, b)
<1>1. PICK x, y \in Int : /\ Ranks(a, b) = <<x, y>> /\ Ranks(b, a) = <<y, x>>
                          /\ Equal(a, b) <=> x = y
                          /\ Equal(b, a) <=> x = y
  BY RanksAre
<1>2. Comparable(b, a)
  BY ComparableBothWays
<1>3. /\ \A op \in {"<", "<=", ">", ">="} : /\ Holds(op, a, b) <=> Ordered(op, x, y)
                                            /\ Apply(op, a, b) # Error
      /\ Holds(">", b, a) <=> Ordered(">", y, x)
  BY <1>1, <1>2, OrderSays
<1>4. /\ Holds("<", a, b) <=> x < y
      /\ Holds("<=", a, b) <=> x <= y
      /\ Holds(">", a, b) <=> x > y
      /\ Holds(">=", a, b) <=> x >= y
      /\ Holds(">", b, a) <=> y > x
  BY <1>3 DEF Ordered
<1>5. /\ Holds("==", a, b) <=> x = y
      /\ Holds("==", b, a) <=> x = y
      /\ Holds("!=", a, b) <=> x # y
  BY <1>1, ScalarsHaveValues, EqualityOperators
<1>6. Cardinality({op \in {"<", "==", ">"} : Holds(op, a, b)}) = 1
  <2>1. PICK op \in {"<", "==", ">"} : \A other \in {"<", "==", ">"} : Holds(other, a, b) <=> other = op
    BY <1>1, <1>4, <1>5
  <2>2. {other \in {"<", "==", ">"} : Holds(other, a, b)} = {op}
    BY <2>1
  <2> QED
    BY <2>2, FS_Singleton
<1> QED
  BY <1>3, <1>4, <1>5, <1>6, ScalarsHaveValues DEF TellOneStory

\* Values of which it does not.
LEMMA UnorderedStory ==
  ASSUME NEW a \in Scalars, NEW b \in Scalars, ~Comparable(a, b)
  PROVE  TellOneStory(a, b)
<1>1. \A op \in {"<", "<=", ">", ">="} : Apply(op, a, b) = Error /\ Apply(op, b, a) = Error
  BY ComparableBothWays, OrderOperators
<1>2. ~Holds("<", a, b) /\ ~Holds(">", b, a)
  <2>1. PICK v, w : v = Apply("<", a, b) /\ w = Apply(">", b, a)
    OBVIOUS
  <2>2. v = Error /\ w = Error
    BY <1>1, <2>1
  <2>3. v # <<"bool", TRUE>> /\ w # <<"bool", TRUE>>
    BY <2>2 DEF Error
  <2> QED
    BY <2>1, <2>3 DEF Holds
<1>3. /\ Holds("==", a, b) <=> Equal(a, b)
      /\ Holds("==", b, a) <=> Equal(b, a)
      /\ Holds("!=", a, b) <=> ~Equal(a, b)
  BY ScalarsHaveValues, EqualityOperators
<1> QED
  BY <1>1, <1>2, <1>3, EqualBothWays, ScalarsHaveValues DEF TellOneStory

\* Null, with anything.
LEMMA NullStory ==
  ASSUME NEW a \in Values, NEW b \in Values, Null \in {a, b}
  PROVE  TellOneStory(a, b)
<1>1. ~Stops(a) /\ ~Stops(b)
  <2>1. ~Stops(Null)
    BY DEF Stops, Null, Error, Panic
  <2> QED
    BY <2>1, ScalarsHaveValues DEF Scalars
<1>2. ~(Numeric(a) /\ Numeric(b)) /\ ~Comparable(a, b)
  BY DEF Numeric, Comparable, Null
<1>3. Equal(a, b) <=> a = b
  BY <1>2 DEF Equal, Numeric
<1>4. Equal(b, a) <=> a = b
  BY <1>2 DEF Equal, Numeric
<1>5. ASSUME NEW op \in {"<", "<=", ">", ">="}
      PROVE  ~Holds(op, a, b) /\ ~Holds(op, b, a) /\ Apply(op, a, b) # Error
  <2>1. PICK v, w : v = Apply(op, a, b) /\ w = Apply(op, b, a)
    OBVIOUS
  <2>2. v = Compare(op, a, b) /\ w = Compare(op, b, a)
    BY <1>1, <2>1 DEF Apply
  <2>3. v = <<"bool", FALSE>> /\ w = <<"bool", FALSE>>
    BY <2>2 DEF Compare
  <2>4. v # <<"bool", TRUE>> /\ w # <<"bool", TRUE>> /\ v # Error
    BY <2>3 DEF Error
  <2> QED
    BY <2>1, <2>4 DEF Holds
<1>6. /\ Holds("==", a, b) <=> a = b
      /\ Holds("==", b, a) <=> a = b
      /\ Holds("!=", a, b) <=> a # b
  BY <1>1, <1>3, <1>4, EqualityOperators
<1> QED
  BY <1>2, <1>5, <1>6 DEF TellOneStory

-----------------------------------------------------------------------------
(* Calls                                                                   *)

LEMMA TypeInitially ==
  ASSUME Init
  PROVE  GuardTypeOK
BY DEF Init, GuardTypeOK

LEMMA TypeStep ==
  ASSUME GuardTypeOK, [Next]_guardVars
  PROVE  GuardTypeOK'
<1>1. CASE Refuse
  BY <1>1 DEF Refuse, GuardTypeOK
<1>2. CASE Accept
  BY <1>2 DEF Accept, GuardTypeOK
<1>3. CASE Evaluate
  <2>1. PICK p \in PayloadsOf(tokens) : payload' = p /\ answer' = Answer(Eval(expr, p, build))
    BY <1>3 DEF Evaluate
  <2>2. PICK v : v = Eval(expr, p, build)
    OBVIOUS
  <2>3. Answer(v) \in {"true", "false", "error", "panic"}
    BY DEF Answer, Stops, Error, Panic
  <2> QED
    BY <1>3, <2>1, <2>2, <2>3 DEF Evaluate, GuardTypeOK
<1>4. CASE UNCHANGED guardVars
  BY <1>4 DEF guardVars, GuardTypeOK
<1> QED
  BY <1>1, <1>2, <1>3, <1>4 DEF Next

\* A call answers yes or no, or it fails, whatever its parser and evaluation
\* make of the guard, and it has an expression before it answers yes or no
\* (guard/eval.rs:14-28).
THEOREM CallsAreTyped == Spec => []GuardTypeOK
<1>1. Init => GuardTypeOK
  BY TypeInitially
<1>2. GuardTypeOK /\ [Next]_guardVars => GuardTypeOK'
  BY TypeStep
<1> QED
  BY <1>1, <1>2, PTL DEF Spec

LEMMA TypedAgree ==
  ASSUME GuardTypeOK
  PROVE  ComparisonsAgree
<1> SUFFICES ASSUME NEW pair \in Operands,
                    {pair[1][1], pair[2][1]} \cap {"obj", "array"} = {}
             PROVE  TellOneStory(pair[1], pair[2])
  BY DEF ComparisonsAgree
<1>1. /\ payload # NoPayload /\ payload[1] = "obj"
      /\ "a" \in DOMAIN payload[2] /\ "b" \in DOMAIN payload[2]
      /\ pair = <<payload[2]["a"], payload[2]["b"]>>
  BY DEF Operands
<1>2. payload \in PayloadsOf(tokens) /\ tokens \in Sources
  BY <1>1 DEF GuardTypeOK
<1>3. PICK a, b : pair = <<a, b>> /\ a = payload[2]["a"] /\ b = payload[2]["b"]
  BY <1>1
<1>4. /\ a[1] \in {"obj", "array"} \/ a \in Values
      /\ b[1] \in {"obj", "array"} \/ b \in Values
  BY <1>1, <1>2, <1>3, PayloadsAssumption
<1>5. a[1] \notin {"obj", "array"} /\ b[1] \notin {"obj", "array"}
  BY <1>3
<1>6. a \in Values /\ b \in Values
  BY <1>4, <1>5
<1>7. CASE Null \in {a, b}
  BY <1>3, <1>6, <1>7, NullStory
<1>8. CASE Null \notin {a, b}
  <2>1. a \in Scalars /\ b \in Scalars
    BY <1>6, <1>8 DEF Scalars
  <2> QED
    BY <1>3, <2>1, OrderedStory, UnorderedStory
<1> QED
  BY <1>7, <1>8

\* Whatever two values the fields of a payload hold, of whatever types, null
\* among them, the six comparisons tell one story of them (guard/eval.rs:151-199).
THEOREM ComparisonsTellOneStory == Spec => []ComparisonsAgree
<1>1. GuardTypeOK => ComparisonsAgree
  BY TypedAgree
<1> QED
  BY <1>1, CallsAreTyped, PTL
==============================================================================
