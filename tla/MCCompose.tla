----------------------------- MODULE MCCompose -----------------------------
(* All include graphs over three files, and a root that instantiates a      *)
(* component with two parameters and four ports in every way.               *)
EXTENDS Compose

Lit(x) == <<"lit", x>>
Ref(p) == <<"ref", p>>
SeqsTo2(S) == {<<>>} \cup {<<x>> : x \in S} \cup {<<x, y>> : x, y \in S}

Signal(id, states, initial) == [id |-> id, states |-> states, initial |-> initial]
Transition(s, event, from, to, guard, action) ==
  [signal |-> s, event |-> event, from |-> from, to |-> to, guard |-> guard,
   on_exit |-> <<>>, on_transition |-> <<action>>, on_enter |-> <<>>]
Reaction(from, state, to, event, guard) ==
  [fromSignal |-> from, fromState |-> state, toSignal |-> to, event |-> event,
   payload |-> "none", guard |-> guard, group |-> NoGroup, requires |-> {},
   onFail |-> NoHook]
Instance(n, bindings, connections) ==
  [component |-> n, bindings |-> bindings, connections |-> connections]
Connection(port, target) == [port |-> port, target |-> target]
File(signals, transitions, reactions, components, instances, includes) ==
  [signals |-> signals, transitions |-> transitions, reactions |-> reactions,
   components |-> components, instances |-> instances, includes |-> includes]

\* A file named f: its signal is s, and all of its parts tell that they are
\* from f.  Its instance is expanded only if the file is the root.
Part(f, s, includes) ==
  LET piece == [params |-> {}, ports |-> <<>>,
                signals |-> <<Signal(Lit("piece"), {Lit("off")}, Lit("off"))>>,
                transitions |-> <<Transition(Lit("piece"), Lit("go"), Any, Lit("off"), NoGuard, Lit(f))>>,
                reactions |-> <<>>]
  IN  File(<<Signal(s, {Lit("off")}, Lit("off"))>>,
           <<Transition(s, Lit("go"), Lit("off"), Lit("off"), NoGuard, Lit(f))>>,
           <<Reaction(s, Lit("off"), s, Lit(f), NoGuard)>>,
           [n \in {"piece", f} |-> piece],
           <<Instance("piece", <<>>, <<>>)>>, includes)

\* f3 may declare f2's signal.
Graphs ==
  {[f \in {"f1", "f2", "f3"} |->
      IF graph[f] = <<"missing">> THEN Unreadable
      ELSE Part(f, IF f = "f3" /\ share THEN Lit("f2") ELSE Lit(f), graph[f])] :
     graph \in [{"f1", "f2", "f3"} -> SeqsTo2({"f1", "f2", "f3"}) \cup {<<"missing">>}],
     share \in BOOLEAN}

\* Two signals; the second one starts in the first one's state names.
Pump ==
  [params |-> {"id", "st"},
   ports |-> <<[signal |-> Ref("id"), state |-> Ref("st"), alias |-> Lit("run")],
               [signal |-> Ref("id"), state |-> Lit("off"), alias |-> Lit("stop")],
               [signal |-> Lit("alarm"), state |-> Lit("idle"), alias |-> NoAlias],
               [signal |-> Lit("gone"), state |-> Lit("idle"), alias |-> Lit("gone")],
               [signal |-> Lit("alarm"), state |-> Ref("st"), alias |-> Lit("odd")]>>,
   signals |-> <<Signal(Ref("id"), {Lit("off"), Ref("st")}, Lit("off")),
                 Signal(Lit("alarm"), {Lit("idle"), Lit("on")}, Lit("idle"))>>,
   transitions |-> <<Transition(Ref("id"), Lit("go"), Lit("off"), Ref("st"), Ref("st"), Ref("id")),
                     Transition(Lit("alarm"), Ref("st"), Any, Lit("on"), NoGuard, Lit("ring"))>>,
   reactions |-> <<[Reaction(Ref("id"), Ref("st"), Lit("alarm"), Ref("st"), Ref("id")) EXCEPT
                      !.group = Ref("st"), !.requires = {Lit("all")}, !.onFail = Lit("undo")]>>]
\* It names a parameter that it does not have, and one that is not closed.
Typo == [Pump EXCEPT !.params = {"id"}]
Open1 == [Pump EXCEPT !.signals = <<Pump.signals[1]>>]

Bindings == [{"id", "st"} -> {Lit("p"), Lit("on"), Ref("st")}]
              \cup {[id |-> Lit("p")], [id |-> Ref("other"), st |-> Lit("on")],
                    [id |-> Lit("p"), st |-> Lit("on"), unused |-> Lit("x")]}
Wires == [port : {Lit("run"), Lit("stop"), <<"port", Lit("alarm"), Lit("idle")>>,
                  Lit("gone"), Lit("odd"), Lit("none")},
          target : {Lit("door"), Lit("parent")}]
Firsts == {Instance(n, b, w) : n \in {"pump"}, b \in Bindings, w \in SeqsTo2(Wires)}
            \cup {Instance(n, b, <<>>) : n \in {"typo", "open", "none"}, b \in Bindings}
\* Wired to names that the first instance leaves free, or not wired.
Seconds == {<<>>,
            <<Instance("pump", [id |-> Lit("q"), st |-> Lit("on")], <<>>)>>,
            <<Instance("pump", [id |-> Lit("q"), st |-> Lit("on")],
                       <<Connection(<<"port", Lit("alarm"), Lit("idle")>>, Lit("bell")),
                         Connection(Lit("run"), Lit("motor"))>>)>>}

Instantiations ==
  {[f \in {"f1", "f2", "f3"} |->
      IF f # "f1" THEN Unreadable
      ELSE File(<<Signal(Lit("parent"), {Lit("off")}, Lit("off"))>>, <<>>, <<>>,
                [pump |-> Pump, typo |-> Typo, open |-> Open1], <<i>> \o q, <<>>)] :
     i \in Firsts, q \in Seconds}

MCAny == Lit("*")
MCDisks == Graphs \cup Instantiations
MCGuardResult == [g \in {} |-> "true"]
=============================================================================
