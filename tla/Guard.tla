-------------------------------- MODULE Guard --------------------------------
(***************************************************************************)
(* What a guard computes with, and its call (guard/eval.rs): eval_guard    *)
(* parses the tokens of a guard and evaluates the expression on the        *)
(* payload of the event, at each event anew: a behaviour is one call.  The *)
(* parser and the evaluation of an expression are those of GuardLanguage;  *)
(* here are the values, what each operator makes of them, and the steps.   *)
(*                                                                         *)
(* A value is <<"int", i>>, <<"float", x>>, <<"str", s>>, <<"bool", b>> or *)
(* <<"null">>; a payload is a value, <<"array">>, <<"obj", f>> with f from *)
(* field names to payloads, or NoPayload.                                  *)
(*                                                                         *)
(* Integers are those of a small width, MinInt..MaxInt; floats are what    *)
(* FloatArith and AsFloat make of them: a conversion may round.            *)
(***************************************************************************)
EXTENDS Integers, Sequences, FiniteSets

CONSTANTS
  MinInt, MaxInt,       \* i64::MIN and i64::MAX
  NaN,                  \* the float that is not comparable; others are integers
  AsFloat(_),           \* i as f64
  FloatArith(_, _, _),  \* float arithmetic: operator and two floats
  StringOrder,          \* the strings of guards and payloads in ascending order
  NoPayload,            \* payload = None
  Parse(_),             \* what tokens say: the place after the last one read, 0 for
                        \* an error, and the expression
  Eval(_, _, _),        \* the value of an expression on a payload in a build
  Sources,              \* the token sequences of guards
  PayloadsOf(_)         \* the payloads to evaluate a guard on

VARIABLES
  tokens,    \* the guard's tokens
  expr,      \* its expression, once it is parsed
  payload,   \* the payload of the event, once it is evaluated
  build,     \* "debug": integer overflow panics; "release": it wraps
  answer     \* "none" yet, "true", "false", "error", or "panic"

guardVars == <<tokens, expr, payload, build, answer>>

Ints == MinInt..MaxInt
Strings == {StringOrder[i] : i \in DOMAIN StringOrder}

Null == <<"null">>
Values == ({"int"} \X Ints) \cup ({"float"} \X (Int \cup {NaN})) \cup ({"str"} \X Strings)
            \cup ({"bool"} \X BOOLEAN) \cup {Null}

\* Integers become floats, and no number is NaN.
ASSUME NumbersAssumption ==
  /\ MinInt \in Int /\ MaxInt \in Int /\ NaN \notin Int
  /\ \A i \in Ints : AsFloat(i) \in Int

\* Each string has one place in their order.
ASSUME StringsAssumption ==
  /\ StringOrder \in Seq(Strings)
  /\ \A i, j \in DOMAIN StringOrder : StringOrder[i] = StringOrder[j] => i = j

\* The fields of a payload are values, objects or arrays.
ASSUME PayloadsAssumption ==
  \A q \in Sources : \A p \in PayloadsOf(q) :
    p # NoPayload /\ p[1] = "obj" =>
      \A x \in DOMAIN p[2] : p[2][x][1] \in {"obj", "array"} \/ p[2][x] \in Values

-----------------------------------------------------------------------------
(* Values and operators                                                    *)

Error == <<"error">>
Panic == <<"panic">>
Stops(v) == v \in {Error, Panic}

\* as_bool, and what eval_guard makes of the guard's value.
AsBool(v) ==
  CASE v[1] = "bool" -> v[2]
    [] v[1] = "null" -> FALSE
    [] v[1] \in {"int", "float"} -> v[2] # 0
    [] v[1] = "str" -> v[2] # ""

Numeric(v) == v[1] \in {"int", "float"}
ToFloat(v) == IF v[1] = "int" THEN AsFloat(v[2]) ELSE v[2]

Sign(i) == IF i < 0 THEN -1 ELSE 1
Abs(i) == i * Sign(i)

\* Of integers, division cuts off towards zero.
Exact(op, a, b) ==
  CASE op = "+" -> a + b
    [] op = "-" -> a - b
    [] op = "*" -> a * b
    [] op = "/" -> Sign(a) * Sign(b) * (Abs(a) \div Abs(b))

\* Mutant: arithmetic of integers wraps around.
ArithmeticWrapping(op, a, b) ==
  CASE ~(Numeric(a) /\ Numeric(b)) \/ (op = "/" /\ b[2] = 0) -> Error
    [] a[1] = "int" /\ b[1] = "int" ->
         <<"int", MinInt + ((Exact(op, a[2], b[2]) - MinInt) % (MaxInt - MinInt + 1))>>
    [] OTHER -> <<"float", FloatArith(op, ToFloat(a), ToFloat(b))>>

\* apply_numeric with the checked operations.
Arithmetic(op, a, b) ==
  CASE ~(Numeric(a) /\ Numeric(b)) \/ (op = "/" /\ b[2] = 0) -> Error
    [] a[1] = "int" /\ b[1] = "int" ->
         IF Exact(op, a[2], b[2]) \in Ints THEN <<"int", Exact(op, a[2], b[2])>> ELSE Error
    [] OTHER -> <<"float", FloatArith(op, ToFloat(a), ToFloat(b))>>

\* Mutant: an integer and a float are different.
EqualSameTypeOnly(a, b) == a = b /\ a # <<"float", NaN>>

\* values_equal
Equal(a, b) ==
  \/ a[1] = "int" /\ b[1] = "int" /\ a[2] = b[2]
  \/ /\ Numeric(a) /\ Numeric(b) /\ "float" \in {a[1], b[1]}
     /\ ToFloat(a) = ToFloat(b) /\ ToFloat(a) # NaN
  \/ ~(Numeric(a) /\ Numeric(b)) /\ a = b

Place(s) == CHOOSE i \in DOMAIN StringOrder : StringOrder[i] = s

\* The two operands of an order as integers, if value_ordering has one.
Comparable(a, b) ==
  \/ a[1] = "str" /\ b[1] = "str"
  \/ Numeric(a) /\ Numeric(b) /\ NaN \notin {a[2], b[2]}
Ranks(a, b) ==
  CASE a[1] = "str" -> <<Place(a[2]), Place(b[2])>>
    [] a[1] = "int" /\ b[1] = "int" -> <<a[2], b[2]>>
    [] OTHER -> <<ToFloat(a), ToFloat(b)>>

\* What an order says of two ranks.
Ordered(op, x, y) ==
  \/ op = "<" /\ x < y
  \/ op = "<=" /\ x <= y
  \/ op = ">" /\ x > y
  \/ op = ">=" /\ x >= y

\* compare: null is in no order, other types are an error.
Compare(op, a, b) ==
  CASE Null \in {a, b} -> <<"bool", FALSE>>
    [] Null \notin {a, b} /\ ~Comparable(a, b) -> Error
    [] OTHER -> <<"bool", Ordered(op, Ranks(a, b)[1], Ranks(a, b)[2])>>

\* -i is not checked: at MinInt it panics or wraps to itself.
Negate(v, b) ==
  CASE v[1] = "int" /\ v[2] = MinInt -> IF b = "debug" THEN Panic ELSE v
    [] v[1] = "int" /\ v[2] # MinInt -> <<"int", -v[2]>>
    [] v[1] = "float" -> <<"float", FloatArith("-", 0, v[2])>>
    [] OTHER -> Error

\* Mutant: an operand that decides it keeps the other's error back.
ApplyShortCircuit(op, l, r) ==
  CASE op = "and" /\ ~Stops(l) /\ ~AsBool(l) -> <<"bool", FALSE>>
    [] op = "or" /\ ~Stops(l) /\ AsBool(l) -> <<"bool", TRUE>>
    [] Stops(l) -> l
    [] Stops(r) -> r
    [] op \in {"and", "or"} -> <<"bool", AsBool(r)>>
    [] op = "==" -> <<"bool", Equal(l, r)>>
    [] op = "!=" -> <<"bool", ~Equal(l, r)>>
    [] op \in {"<", "<=", ">", ">="} -> Compare(op, l, r)
    [] OTHER -> Arithmetic(op, l, r)

\* A binary operator on its operands' values: both are evaluated, first the left.
Apply(op, l, r) ==
  CASE Stops(l) -> l
    [] ~Stops(l) /\ Stops(r) -> r
    [] OTHER ->
         CASE op = "and" -> <<"bool", AsBool(l) /\ AsBool(r)>>
           [] op = "or" -> <<"bool", AsBool(l) \/ AsBool(r)>>
           [] op = "==" -> <<"bool", Equal(l, r)>>
           [] op = "!=" -> <<"bool", ~Equal(l, r)>>
           [] op \in {"<", "<=", ">", ">="} -> Compare(op, l, r)
           [] OTHER -> Arithmetic(op, l, r)

\* Mutant: only a boolean and null are an answer.
AnswerUnconverted(v) ==
  CASE v[1] = "bool" -> IF v[2] THEN "true" ELSE "false"
    [] v = Null -> "false"
    [] OTHER -> v[1]

\* The answer of eval_guard.
Answer(v) == CASE Stops(v) -> v[1]
               [] OTHER -> IF AsBool(v) THEN "true" ELSE "false"

-----------------------------------------------------------------------------
(* eval_guard                                                              *)

Init ==
  /\ tokens \in Sources
  /\ build \in {"debug", "release"}
  /\ expr = <<>> /\ payload = NoPayload /\ answer = "none"

\* The parser's error is the answer, whatever the payload.
Refuse ==
  /\ expr = <<>> /\ answer = "none" /\ Parse(tokens).to = 0
  /\ answer' = "error"
  /\ UNCHANGED <<tokens, expr, payload, build>>

Accept ==
  /\ expr = <<>> /\ Parse(tokens).to # 0
  /\ expr' = Parse(tokens).tree
  /\ UNCHANGED <<tokens, payload, build, answer>>

Evaluate ==
  /\ expr # <<>> /\ answer = "none"
  /\ \E p \in PayloadsOf(tokens) :
       payload' = p /\ answer' = Answer(Eval(expr, p, build))
  /\ UNCHANGED <<tokens, expr, build>>

Next == Refuse \/ Accept \/ Evaluate

Spec == Init /\ [][Next]_guardVars

-----------------------------------------------------------------------------
(* Properties                                                              *)

\* A call answers yes or no, or fails, and never answers what it did not parse
\* (guard/eval.rs:14-28).
GuardTypeOK ==
  /\ tokens \in Sources /\ build \in {"debug", "release"}
  /\ payload \in {NoPayload} \cup PayloadsOf(tokens)
  /\ answer \in {"none", "true", "false", "error", "panic"}
  /\ expr = <<>> => answer \in {"none", "error"}

\* The values of the fields a and b of the payload, if it has them.
Operands == IF payload # NoPayload /\ payload[1] = "obj" /\ {"a", "b"} \subseteq DOMAIN payload[2]
            THEN {<<payload[2]["a"], payload[2]["b"]>>} ELSE {}

Holds(op, a, b) == Apply(op, a, b) = <<"bool", TRUE>>

\* The six comparisons tell one story, across integers and floats too: of
\* ordered values exactly one of <, == and > holds, <= and >= are the others'
\* denials, != that of ==, and swapping the operands swaps the operators.  Null
\* equals null alone and is in no order with anything, without an error.
\* values_equal, compare and value_ordering convert for themselves
\* (guard/eval.rs:151-199).
TellOneStory(a, b) ==
  /\ \A op \in {"<", "<=", ">", ">="} :
       Apply(op, a, b) = Error <=> ~Comparable(a, b) /\ Null \notin {a, b}
  /\ Null \in {a, b} =>
       \A op \in {"<", "<=", ">", ">=", "=="} : Holds(op, a, b) <=> op = "==" /\ a = b
  /\ Comparable(a, b) =>
       /\ Cardinality({op \in {"<", "==", ">"} : Holds(op, a, b)}) = 1
       /\ Holds("<=", a, b) <=> ~Holds(">", a, b)
       /\ Holds(">=", a, b) <=> ~Holds("<", a, b)
  /\ Holds("!=", a, b) <=> ~Holds("==", a, b)
  /\ Holds("<", a, b) <=> Holds(">", b, a)
  /\ Holds("==", a, b) <=> Holds("==", b, a)

\* It is told of every two fields that are no structures.
ComparisonsAgree ==
  \A pair \in Operands :
    {pair[1][1], pair[2][1]} \cap {"obj", "array"} = {} => TellOneStory(pair[1], pair[2])

==============================================================================
