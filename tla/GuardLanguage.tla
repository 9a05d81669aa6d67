----------------------------- MODULE GuardLanguage -----------------------------
(***************************************************************************)
(* The guard language (guard/parser.rs, guard/eval.rs): the parser that    *)
(* Guard's call uses as Parse and the evaluation it uses as Eval.          *)
(*                                                                         *)
(* A token is <<kind>> or <<kind, value>>.  An expression is               *)
(* <<"lit", value>>, <<"payload", path>>, <<"id", name>>, <<"not", e>>,    *)
(* <<"neg", e>> or <<operator, left, right>>.                              *)
(***************************************************************************)
EXTENDS Guard

-----------------------------------------------------------------------------
(* Parsing                                                                 *)

Kind(q, i) == IF i \in DOMAIN q THEN q[i][1] ELSE "eof"

\* The levels of the grammar, from the weakest; comparison does not chain.
OperatorsOf == <<{"or"}, {"and"}, {"==", "!=", "<", "<=", ">", ">="}, {"+", "-"}, {"*", "/"}>>
Comparison == 3
Unary == Len(OperatorsOf) + 1

\* A parse is the place after what was read and the expression; 0 is an error.
Failed == [to |-> 0, tree |-> <<>>]

\* The places of the identifiers of the path that begins at i.
PathEnd(q, i) ==
  CHOOSE n \in 0..Len(q) :
    /\ \A k \in 1..n : Kind(q, i + 2 * k - 1) = "." /\ Kind(q, i + 2 * k) = "ident"
    /\ ~(Kind(q, i + 2 * n + 1) = "." /\ Kind(q, i + 2 * n + 2) = "ident")

\* An identifier at i with what dots append to it.
ParsePath(q, i) ==
  LET n == PathEnd(q, i)
      path == [k \in 1..n |-> q[i + 2 * k][2]]
      after == i + 2 * n + 1
  IN  CASE Kind(q, after) = "." -> Failed
        [] n > 0 /\ q[i][2] = "payload" -> [to |-> after, tree |-> <<"payload", path>>]
        [] OTHER -> [to |-> after, tree |-> <<"id", <<q[i][2]>> \o path>>]

RECURSIVE ParseLevel(_, _, _), ParseRest(_, _, _), ParseUnary(_, _)

ParsePrimary(q, i) ==
  CASE Kind(q, i) \in {"int", "float", "str", "bool"} -> [to |-> i + 1, tree |-> <<"lit", q[i]>>]
    [] Kind(q, i) = "ident" -> ParsePath(q, i)
    [] Kind(q, i) = "(" ->
         LET inner == ParseLevel(q, 1, i + 1)
         IN  IF inner.to # 0 /\ Kind(q, inner.to) = ")"
             THEN [inner EXCEPT !.to = @ + 1] ELSE Failed
    [] OTHER -> Failed

ParseUnary(q, i) ==
  IF Kind(q, i) \notin {"not", "-"} THEN ParsePrimary(q, i)
  ELSE LET inner == ParseUnary(q, i + 1)
       IN  IF inner.to = 0 THEN Failed
           ELSE [inner EXCEPT !.tree = <<IF Kind(q, i) = "-" THEN "neg" ELSE "not", @>>]

\* Mutant: the operands of an operator are all to its right.
ParseRestToTheRight(q, n, left) ==
  IF left.to = 0 \/ Kind(q, left.to) \notin OperatorsOf[n] THEN left
  ELSE LET right == ParseLevel(q, n, left.to + 1)
       IN  IF right.to = 0 THEN Failed
           ELSE [to |-> right.to, tree |-> <<Kind(q, left.to), left.tree, right.tree>>]

\* The rest of level n after its first operand: operators to the left first.
ParseRest(q, n, left) ==
  IF left.to = 0 \/ Kind(q, left.to) \notin OperatorsOf[n] THEN left
  ELSE LET right == ParseLevel(q, n + 1, left.to + 1)
           both == [to |-> right.to, tree |-> <<Kind(q, left.to), left.tree, right.tree>>]
       IN  CASE right.to = 0 -> Failed
             [] n = Comparison -> both
             [] OTHER -> ParseRest(q, n, both)

ParseLevel(q, n, i) ==
  IF n = Unary THEN ParseUnary(q, i) ELSE ParseRest(q, n, ParseLevel(q, n + 1, i))

\* parse: all tokens are read, or it is an error.
ParseTokens(q) == LET p == ParseLevel(q, 1, 1) IN IF p.to = Len(q) + 1 THEN p ELSE Failed

-----------------------------------------------------------------------------
(* Evaluation                                                              *)

\* access_payload and json_to_value: what is not there is null.
RECURSIVE Access(_, _)
Access(p, path) ==
  CASE path = <<>> -> IF p[1] \in {"obj", "array"} THEN Error ELSE p
    [] path # <<>> /\ p[1] = "obj" ->
         Access(IF path[1] \in DOMAIN p[2] THEN p[2][path[1]] ELSE Null, Tail(path))
    [] OTHER -> Null

\* eval
RECURSIVE EvalExpr(_, _, _)
EvalExpr(e, p, b) ==
  CASE e[1] = "lit" -> e[2]
    [] e[1] = "payload" -> IF p = NoPayload THEN Error ELSE Access(p, e[2])
    [] e[1] = "id" -> Error
    [] e[1] \in {"not", "neg"} ->
         LET v == EvalExpr(e[2], p, b)
         IN  CASE Stops(v) -> v
               [] e[1] = "not" /\ ~Stops(v) -> <<"bool", ~AsBool(v)>>
               [] OTHER -> Negate(v, b)
    [] OTHER -> Apply(e[1], EvalExpr(e[2], p, b), EvalExpr(e[3], p, b))

-----------------------------------------------------------------------------
(* Properties                                                              *)

\* The precedence that the documentation states (doc/guards.md:60-70).
Precedence == <<{"or"}, {"and"}, {"==", "!=", "<", "<=", ">", ">="}, {"+", "-"}, {"*", "/"}>>

\* What tokens q can mean at level n, as a grammar says it: the expressions
\* of which they are a way to write.
RECURSIVE Meanings(_, _)
Meanings(q, n) ==
  LET rest == SubSeq(q, 2, Len(q))
      inside == SubSeq(q, 2, Len(q) - 1)
      dots == {2 * k : k \in 1..(Len(q) \div 2)}
      Split(k) == {<<q[k][1], l, r>> : l \in Meanings(SubSeq(q, 1, k - 1), IF n = 3 THEN 4 ELSE n),
                                       r \in Meanings(SubSeq(q, k + 1, Len(q)), n + 1)}
  IN  CASE q = <<>> -> {}
        [] q # <<>> /\ n <= 5 ->
             Meanings(q, n + 1) \cup UNION {Split(k) : k \in {k \in DOMAIN q : q[k][1] \in Precedence[n]}}
        [] q # <<>> /\ n = 6 ->
             {<<"not", e>> : e \in IF q[1][1] = "not" THEN Meanings(rest, 6) ELSE {}}
               \cup {<<"neg", e>> : e \in IF q[1][1] = "-" THEN Meanings(rest, 6) ELSE {}}
               \cup Meanings(q, 7)
        [] q # <<>> /\ n = 7 ->
             (IF Len(q) = 1 /\ q[1][1] \in {"int", "float", "str", "bool"} THEN {<<"lit", q[1]>>} ELSE {})
               \cup (IF Len(q) % 2 = 1 /\ \A i \in DOMAIN q : q[i][1] = IF i \in dots THEN "." ELSE "ident"
                     THEN LET names == [k \in 1..(Len(q) - Len(q) \div 2) |-> q[2 * k - 1][2]]
                          IN  {IF Len(names) > 1 /\ names[1] = "payload"
                               THEN <<"payload", Tail(names)>> ELSE <<"id", names>>}
                     ELSE {})
               \cup (IF q[1][1] = "(" /\ q[Len(q)][1] = ")" THEN Meanings(inside, 1) ELSE {})

\* A guard is refused exactly if the documented grammar has no reading of it,
\* and it is read as the only one it has: precedence and associativity are
\* the documented ones, nothing is left over (guard/parser.rs:4-11).
DecidedByTheGrammar ==
  /\ expr # <<>> => Meanings(tokens, 1) = {expr}
  /\ expr = <<>> /\ answer = "error" => Meanings(tokens, 1) = {}

RECURSIVE Subexpressions(_)
Subexpressions(e) ==
  {e} \cup CASE e[1] \in {"lit", "payload", "id"} -> {}
             [] e[1] \in {"not", "neg"} -> Subexpressions(e[2])
             [] OTHER -> Subexpressions(e[2]) \cup Subexpressions(e[3])

ValueOf(e) == EvalExpr(e, payload, build)

\* The value of an expression of integers in unbounded arithmetic.
RECURSIVE Mathematical(_)
Mathematical(e) ==
  CASE e[1] = "neg" -> -Mathematical(e[2])
    [] e[1] \in {"+", "-", "*", "/"} -> Exact(e[1], Mathematical(e[2]), Mathematical(e[3]))
    [] OTHER -> ValueOf(e)[2]

\* Integer arithmetic of any depth is exact or an error, at every limit of the
\* width, whatever the build: only the negation of the minimum is not checked
\* (guard/eval.rs:49), and that is the only thing that panics.
IntegersExactOrRefused ==
  answer # "none" /\ expr # <<>> =>
    LET negatesMin == \E e \in Subexpressions(expr) :
                        e[1] = "neg" /\ ValueOf(e[2]) = <<"int", MinInt>>
    IN  /\ answer = "panic" => negatesMin /\ build = "debug"
        /\ ~negatesMin => \A e \in Subexpressions(expr) :
             ValueOf(e)[1] = "int" => ValueOf(e)[2] = Mathematical(e)

\* A guard answers yes or no only if all of it has a value: and and or do not
\* hide an error of an operand they could do without, so that whether a guard
\* is broken does not depend on the rest of it (guard/eval.rs:55-57, 97-98).
ErrorsSurface ==
  answer \in {"true", "false"} => \A e \in Subexpressions(expr) : ~Stops(ValueOf(e))

==============================================================================
