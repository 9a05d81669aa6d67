------------------------------- MODULE MCGuard -------------------------------
(* All token sequences up to five tokens of three alphabets, and guards that  *)
(* apply the operators to two fields of the payload, which hold every pair    *)
(* of values.  Integers have four bits, floats are the integers that are even *)
(* or small, and two infinities.                                              *)
EXTENDS GuardLanguage

MCInfinity == 100
MCMinInt == -8

\* Above 4 only even integers are floats: conversions round down.
MCAsFloat(i) == IF Abs(i) <= 4 THEN i ELSE 2 * (i \div 2)
Rounded(i) == CASE i > 20 -> MCInfinity
                [] i < -20 -> -MCInfinity
                [] OTHER -> MCAsFloat(i)
Infinite(x) == Abs(x) = MCInfinity
MCFloatArith(op, a, b) ==
  CASE NaN \in {a, b} -> NaN
    [] op = "+" /\ Infinite(a) /\ b = -a -> NaN
    [] op = "-" /\ Infinite(a) /\ b = a -> NaN
    [] op \in {"+", "-"} /\ Infinite(a) -> a
    [] op = "*" /\ 0 \in {a, b} /\ (Infinite(a) \/ Infinite(b)) -> NaN
    [] op = "/" /\ Infinite(a) /\ Infinite(b) -> NaN
    [] op = "/" /\ Infinite(a) -> a * Sign(b)
    [] OTHER -> Rounded(Exact(op, a, b))

One == <<"int", 1>>
P == <<"ident", "payload">>
Field(x) == <<P, <<".">>, <<"ident", x>>>>
SeqsUpTo(n, S) == UNION {[1..k -> S] : k \in 0..n}
Written ==
  SeqsUpTo(5, {One, <<"-">>, <<"+">>, <<"*">>, <<"(">>, <<")">>})
    \cup SeqsUpTo(5, {One, <<"<">>, <<"==">>, <<"and">>, <<"or">>, <<"not">>})
    \cup SeqsUpTo(5, {P, <<"ident", "a">>, <<".">>, <<"/">>, <<"str", "x">>})

Operators == UNION {Precedence[n] : n \in DOMAIN Precedence}
\* a op b, -a op b, not (a op b) or a: the operators nested in each other.
Operations ==
  {Field("a") \o <<<<op>>>> \o Field("b") : op \in Operators}
    \cup {<<<<"-">>>> \o Field("a") \o <<<<op>>>> \o Field("b") : op \in {"+", "<", "=="}}
    \cup {<<<<"not">>, <<"(">>>> \o Field("a") \o <<<<op>>>> \o Field("b") \o <<<<")">>, <<"or">>>>
            \o Field("a") : op \in {"+", ">", "and"}}
    \cup {Field("a") \o <<<<"-">>>> \o Field("b") \o <<<<op>>>> \o Field("a") : op \in {"-", "*"}}

Fields ==
  {<<"int", i>> : i \in MinInt..MaxInt}
    \cup {<<"float", x>> : x \in {-100, -8, -6, -1, 0, 1, 4, 6, 8, 100}}
    \cup {<<"str", s>> : s \in {"", "x", "y"}} \cup {<<"bool", b>> : b \in BOOLEAN}
    \cup {<<"null">>, <<"array">>}
MCSources == Written \cup Operations
MCPayloadsOf(q) ==
  IF q \notin Operations THEN {NoPayload, <<"obj", [a |-> <<"int", 0>>]>>, <<"array">>}
  ELSE {NoPayload, <<"int", 1>>, <<"obj", [a |-> <<"obj", [a |-> One]>>]>>}
         \cup {<<"obj", [a |-> x, b |-> y]>> : x, y \in Fields}
MCStrings == <<"", "x", "y">>
==============================================================================
