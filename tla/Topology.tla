------------------------------ MODULE Topology ------------------------------
(***************************************************************************)
(* The data the engine interprets (schema.rs, after expansion) and the     *)
(* questions it asks of it (validate and the matching rules of engine.rs). *)
(*                                                                         *)
(* A topology is a record                                                  *)
(*   signals      a sequence of [id, states, initial]                      *)
(*   transitions  a sequence of [signal, event, from, to, guard,           *)
(*                on_exit, on_transition, on_enter]; the last three are    *)
(*                sequences of action ids                                  *)
(*   reactions    a sequence of [fromSignal, fromState, toSignal, event,   *)
(*                payload, guard, group, requires, onFail]                 *)
(* Guards are opaque: what counts is how one evaluates on a payload, the   *)
(* only part of the context that eval_guard reads.                         *)
(***************************************************************************)
EXTENDS ForkGroups

CONSTANTS
  Any,          \* the wildcard state "*"
  NoGuard,      \* guard = None
  NoHook,       \* on_fail = None
  Payloads,     \* event payloads, None among them
  GuardResult   \* GuardResult[guard][payload]: "true", "false" or "error"

\* A Vec, whatever it holds.
IsList(q) == q \in Seq(Elements(q))

\* What eval_guard answers for a guard or for no guard.
Evaluate(guard, payload) ==
  IF guard = NoGuard THEN "true" ELSE GuardResult[guard][payload]

SignalIds(t) == {t.signals[i].id : i \in DOMAIN t.signals}

\* The first declaration of signal s.
Declaration(t, s) ==
  LET i == CHOOSE i \in DOMAIN t.signals :
             /\ t.signals[i].id = s
             /\ \A j \in 1..(i - 1) : t.signals[j].id # s
  IN  t.signals[i]

StatesOf(t, s) == Declaration(t, s).states

\* Every signal at its initial_state, as from_schema leaves it.
InitialStates(t) == [s \in SignalIds(t) |-> Declaration(t, s).initial]

SignalsOk(t) ==
  \A i \in DOMAIN t.signals :
    /\ \A j \in 1..(i - 1) : t.signals[j].id # t.signals[i].id
    /\ t.signals[i].initial \in t.signals[i].states

\* Mutant: the target state is not looked up.
TransitionsOkNoTarget(t) ==
  \A i \in DOMAIN t.transitions :
    LET tr == t.transitions[i]
    IN  /\ tr.signal \in SignalIds(t)
        /\ tr.from \in StatesOf(t, tr.signal) \cup {Any}

TransitionsOk(t) ==
  \A i \in DOMAIN t.transitions :
    LET tr == t.transitions[i]
    IN  /\ tr.signal \in SignalIds(t)
        /\ tr.from \in StatesOf(t, tr.signal) \cup {Any}
        /\ tr.to \in StatesOf(t, tr.signal)

\* Mutant: only the reacting side is looked up.
ReactionsOkSourceOnly(t) ==
  \A i \in DOMAIN t.reactions : t.reactions[i].fromSignal \in SignalIds(t)

\* States, events, groups and hooks of reactions are not checked.
ReactionsOk(t) ==
  \A i \in DOMAIN t.reactions :
    /\ t.reactions[i].fromSignal \in SignalIds(t)
    /\ t.reactions[i].toSignal \in SignalIds(t)

\* TopologyEngine::validate
Valid(t) == SignalsOk(t) /\ TransitionsOk(t) /\ ReactionsOk(t)

\* Mutant: the source state of the transition is not looked at.
MatchesEventOnly(tr, s, event, state) == tr.signal = s /\ tr.event = event

Matches(tr, s, event, state) ==
  /\ tr.signal = s
  /\ tr.event = event
  /\ tr.from \in {state, Any}

\* The places of the transitions that match, of which the engine takes the first.
MatchingTransitions(t, s, event, state) ==
  {i \in DOMAIN t.transitions : Matches(t.transitions[i], s, event, state)}

First(S) == CHOOSE i \in S : \A j \in S : i <= j

\* The reactions triggered by signal s entering state.
MatchingReactions(t, s, state) ==
  {r \in DOMAIN t.reactions :
     /\ t.reactions[r].fromSignal = s
     /\ t.reactions[r].fromState \in {state, Any}}

\* action_ids / collect_action_ids: the ids bound to transitions, not the hooks.
ActionIds(t) ==
  LET Of(q) == {q[i] : i \in DOMAIN q}
  IN  UNION {Of(t.transitions[i].on_exit) \cup Of(t.transitions[i].on_transition)
               \cup Of(t.transitions[i].on_enter) : i \in DOMAIN t.transitions}

=============================================================================
