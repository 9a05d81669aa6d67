----------------------------- MODULE MCCompiler -----------------------------
(* Documents with every pair of arms, every order of workflow blocks, every  *)
(* use of guards and components, as written and with a lexeme lost, doubled, *)
(* or taken for another.                                                     *)
EXTENDS Compiler

Upto(n, S) == UNION {[1..k -> S] : k \in 0..n}
Tuples(S, k) == [1..k -> S]

None == <<"none">>
Ident(x) == <<"ident", x>>
Long == <<"text", <<Ident("payload"), <<".">>, Ident("x"), <<">">>, <<"int">>>>>>
Short == <<"text", <<Ident("ready")>>>>

Arm(from, to, guard, onExit, onEnter) ==
  [kind |-> "transition", event |-> "go", from |-> from, to |-> to, guard |-> guard,
   on_exit |-> onExit, on_transition |-> <<>>, on_enter |-> onEnter]
Signal(id, states, initial, parts) ==
  [kind |-> "signal", id |-> id, states |-> states, initial |-> initial, parts |-> parts]
Plainly(id) == Signal(id, <<"a">>, "a", <<>>)
Reaction(from, to, guard, payload, onFail) ==
  [kind |-> "reaction", fromSignal |-> from, fromState |-> "a", toSignal |-> to, event |-> "go",
   guard |-> guard, payload |-> payload, onFail |-> onFail]
Guard(id, expr) == [kind |-> "guard", id |-> id, expr |-> expr]
Fork(parts) == [kind |-> "fork", parts |-> parts]
Join(group, parts) == [kind |-> "join", group |-> group, parts |-> parts]
Component(id, params, parts) == [kind |-> "component", id |-> id, params |-> params, parts |-> parts]
Port(signal, state, alias) ==
  [kind |-> "port", direction |-> "out", signal |-> signal, state |-> state, alias |-> alias]
Instantiate(bindings, connections) ==
  [kind |-> "instantiate", component |-> "C", id |-> "i", bindings |-> bindings, connections |-> connections]

\* Signals: three arms that go anywhere, or two arms of any kind, of a signal that may start in a state it lacks.
ArmKinds ==
  {Arm(from, to, guard, <<>>, <<>>) : from \in {"a", "b", "*"}, to \in {"b", "c"}, guard \in {None, Long}}
    \cup {Arm(from, to, guard, <<"x", "y">>, <<"z">>) : from \in {"a", "*"}, to \in {"a"}, guard \in {None, Short}}
    \cup {Arm("a", "d", None, <<>>, <<>>), Arm("d", "a", Long, <<>>, <<"z">>)}
Bare == {Arm(from, to, None, <<>>, <<>>) : from \in {"a", "b", "c", "*"}, to \in {"a", "b", "c"}}
Signals == {<<Signal("A", <<"a", "b", "c">>, "a", arms)>> : arms \in [1..3 -> Bare]} \cup {<<Signal("A", <<"a", "b", "c">>, "a", arms)>> : arms \in Upto(2, ArmKinds)}
             \cup {<<Signal("A", <<"a", "b">>, x, <<>>), Plainly(id)>> : x \in {"a", "c"}, id \in {"A", "B"}}

\* Workflows: up to four blocks.
R(n) == Reaction("A", "A", None, None, <<"hook", n>>)
Blocks == {R("r"), Fork(<<>>), Fork(<<R("f"), R("g")>>), Join("fork0", <<R("j")>>),
           Join("fork1", <<R("k")>>), Join("left", <<R("l")>>)}
Workflows == {<<Plainly("A")>> \o some : some \in Upto(4, Blocks)}

\* Reactions, with everything that may follow them, alone and side by side.
Json == <<"json", <<<<"{">>, <<"str">>, <<":">>, <<"int">>, <<"}">>>>>>
NoJson == <<"json", <<<<"{">>, <<"int">>, <<"}">>>>>>
Bodies == {Reaction("A", "A", guard, payload, hook) :
             guard \in {None, Long, <<"ref", "g">>}, payload \in {None, Json}, hook \in {None, <<"hook", "undo">>}}
Pairs2 == {<<Fork(rs), Plainly("A"), Guard("g", Long[2])>> : rs \in Upto(2, Bodies)}
            \cup {<<Fork(<<>>), Join("fork0", rs), Plainly("A"), Guard("h", Long[2])>> : rs \in Upto(2, Bodies)}
            \cup {<<Reaction("A", to, None, payload, None), Plainly("A")>> : to \in {"A", "B"}, payload \in {Json, NoJson}}

\* Guards: declared twice, alike, unused, used by a component only.
Referring == Reaction("A", "A", <<"ref", "g">>, None, None)
Guards == {<<Plainly("A"), r>> \o gs :
             r \in {Referring, Component("C", <<>>, <<Referring>>), Component("C", <<>>, <<Plainly("A")>>)},
             gs \in Upto(2, {Guard(id, e) : id \in {"g", "h"}, e \in {Long[2], <<<<"int">>>>}})}

\* A component with ports, wired in every way.
Parts == <<Port("P", "a", <<"alias", "run">>), Port("P", "b", None), Port("Q", "a", <<"alias", "odd">>),
           Port("P", "gone", <<"alias", "late">>),
           Signal("P", <<"a", "b">>, "a", <<Arm("a", "b", None, <<>>, <<>>), Arm("*", "a", None, <<>>, <<>>)>>),
           Reaction("P", "D", None, Json, None)>>
Wires == Upto(2, {"run", "odd", "late", "none"} \X {"D", "E"})
Components ==
  {<<Component("C", <<"p">>, Parts)>> \o also \o <<Instantiate(bindings, wires)>> :
     also \in {<<>>, <<Plainly("D")>>, <<Plainly("D"), Component("C", <<>>, <<>>)>>},
     bindings \in {<<>>, <<<<"p", "x">>>>, <<<<"p", "x">>, <<"p", "y">>>>}, wires \in Wires}
  \cup {<<Component("C", <<>>, <<Plainly("P")>> \o more), Plainly("D"), Instantiate(<<>>, <<>>)>> \o again :
          more \in {<<>>, <<Plainly("P")>>}, again \in {<<>>, <<Instantiate(<<>>, <<>>)>>}}
  \cup {<<Plainly("D"), Instantiate(<<>>, <<>>)>>}

MCDocuments == Signals \cup Workflows \cup Pairs2 \cup Guards \cup Components

\* Documents with every construct, to be damaged.
Fragile ==
  {<<Signal("A", <<"a", "b">>, "a", <<Arm("*", "b", Long, <<"x", "y">>, <<"z">>)>>),
     Guard("g", Long[2]), Reaction("A", "A", <<"ref", "g">>, Json, <<"hook", "undo">>)>>,
   <<Plainly("A"), Fork(<<R("f"), R("g")>>), Join("fork0", <<Reaction("A", "A", Long, Json, None)>>)>>,
   <<Component("C", <<"p", "q">>, Parts), Plainly("D"),
     Instantiate(<<<<"p", "x">>, <<"q", "y">>>>, <<<<"run", "E">>>>)>>}

Without(q, i) == SubSeq(q, 1, i - 1) \o SubSeq(q, i + 1, Len(q))
With(q, i, x) == SubSeq(q, 1, i) \o <<x>> \o SubSeq(q, i + 1, Len(q))
Strays == {<<"comment">>, <<"unknown">>, <<",">>, <<"when">>, <<"}">>, <<"ident", "a">>}
MCDamaged(document) ==
  LET q == TextOf(document)
  IN  IF document \notin Fragile THEN {}
      ELSE {Without(q, i) : i \in DOMAIN q} \cup {With(q, i, q[i]) : i \in DOMAIN q}
             \cup {With(q, i, x) : i \in 0..Len(q), x \in Strays}
             \cup {[q EXCEPT ![i] = q[i + 1], ![i + 1] = q[i]] : i \in 1..(Len(q) - 1)}

MCDocumentsAll == MCDocuments \cup Fragile
MCJsonTexts == {Json[2]}
MCAny == Lit("*")
MCGuardResult == [g \in {} |-> "true"]
=============================================================================
