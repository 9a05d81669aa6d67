------------------------------ MODULE MCEngine ------------------------------
(***************************************************************************)
(* Small topologies, each chosen for a way in which events, lifecycle      *)
(* actions, guards and cascades can meet.                                  *)
(***************************************************************************)
EXTENDS Engine

\* The guard "pos" is true on payload p1, false on p2 and fails without payload.
MCGuardResult ==
  [g \in {"pos"} |-> [p \in {"none", "p1", "p2"} |->
     CASE p = "p1" -> "true" [] p = "p2" -> "false" [] p = "none" -> "error"]]

Signal(s, states, initial) == [id |-> s, states |-> states, initial |-> initial]
Switch(s) == Signal(s, {"off", "on"}, "off")

Transition(s, e, from, to) ==
  [signal |-> s, event |-> e, from |-> from, to |-> to, guard |-> NoGuard,
   on_exit |-> <<>>, on_transition |-> <<>>, on_enter |-> <<>>]
TurnOn(s) == Transition(s, "go", "off", "on")

Reaction(s, x, s2, e) ==
  [fromSignal |-> s, fromState |-> x, toSignal |-> s2, event |-> e, payload |-> "none",
   guard |-> NoGuard, group |-> NoGroup, requires |-> {}, onFail |-> NoHook]
OnEntering(s, s2) == Reaction(s, "on", s2, "go")
Forked(r) == [r EXCEPT !.group = "fork0"]
Joined(r) == [r EXCEPT !.requires = {"fork0"}]
Guarded(r) == [r EXCEPT !.guard = "pos"]
Hooked(r) == [r EXCEPT !.onFail = "undo"]

\* One signal that takes the event "go" twice, to "on" with an action in each phase
\* and then to "worn".  The event "off" is matched by a guarded wildcard transition
\* and, behind it, by one that names the state, which the wildcard hides even when
\* its guard is false.
Lifecycle ==
  [signals     |-> <<Signal("A", {"off", "on", "worn"}, "off")>>,
   transitions |-> <<Transition("A", "go", "on", "worn"),
                     [TurnOn("A") EXCEPT !.on_exit = <<"act">>, !.on_transition = <<"act">>,
                                         !.on_enter = <<"act">>],
                     [Transition("A", "off", Any, "off") EXCEPT !.guard = "pos"],
                     Transition("A", "off", "on", "off")>>,
   reactions   |-> <<>>]

\* A chain A -> B -> C with hooks on both links, where C's transition can fail
\* and the first link is guarded; A's payload reaches B's guard but not C's.
Chain ==
  [signals     |-> <<Switch("A"), Switch("B"), Switch("C")>>,
   transitions |-> <<TurnOn("A"), TurnOn("B"),
                     [TurnOn("C") EXCEPT !.on_exit = <<"act">>]>>,
   reactions   |-> <<Hooked(Guarded(OnEntering("A", "B"))), Hooked(OnEntering("B", "C"))>>]

\* A fork of a guarded and a free reaction with a join, all started by A; the
\* join's target C is also reached through B, so that the cascade meets it twice.
ForkAndJoin ==
  [signals     |-> <<Switch("A"), Switch("B"), Switch("C")>>,
   transitions |-> <<TurnOn("A"), TurnOn("B"),
                     [Transition("C", "go", Any, "on") EXCEPT !.on_enter = <<"act">>]>>,
   reactions   |-> <<Joined(OnEntering("A", "C")), Forked(Guarded(OnEntering("A", "B"))),
                     Forked(OnEntering("A", "C")), OnEntering("B", "C")>>]

\* Two signals that set each other off for ever, from whatever state.
Cycle ==
  [signals     |-> <<Switch("A"), Switch("B")>>,
   transitions |-> <<Transition("A", "go", "off", "on"), Transition("A", "go", "on", "off"),
                     Transition("B", "go", Any, "on")>>,
   reactions   |-> <<Hooked(Reaction("A", Any, "B", "go")), Reaction("B", Any, "A", "go")>>]

\* A join on another trigger than its fork: when B's reactions are dispatched the
\* group has no member among them, and it completes in A's dispatch, above.
StrayJoin ==
  [signals     |-> <<Switch("A"), Switch("B"), Switch("C")>>,
   transitions |-> <<TurnOn("A"), TurnOn("B"), TurnOn("C")>>,
   reactions   |-> <<Forked(OnEntering("A", "B")), Joined(OnEntering("B", "C"))>>]

\* Rejected by validate: an undeclared target state, an undeclared reacting
\* signal, a signal declared twice, an initial state that is not a state.
BadTarget  == [Chain EXCEPT !.transitions = Append(@, Transition("A", "go", "on", "gone"))]
BadReactor == [Chain EXCEPT !.reactions = <<OnEntering("A", "Z")>>]
TwiceA     == [Chain EXCEPT !.signals = Append(@, Signal("A", {"on"}, "on"))]
BadInitial == [Lifecycle EXCEPT !.signals = <<Signal("A", {"off", "on"}, "idle")>>]

MCTopologies ==
  {Lifecycle, Chain, ForkAndJoin, Cycle, StrayJoin,
   BadTarget, BadReactor, TwiceA, BadInitial}
=============================================================================
