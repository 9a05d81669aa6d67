--------------------------- MODULE MCPersistence ---------------------------
(* Four versions of one topology and state files none of them wrote.        *)
EXTENDS Persistence

Signal(s, states, initial) == [id |-> s, states |-> states, initial |-> initial]
Transition(s, from, to) ==
  [signal |-> s, event |-> "go", from |-> from, to |-> to, guard |-> NoGuard,
   on_exit |-> <<>>, on_transition |-> <<>>, on_enter |-> <<>>]
Version(signals, transitions) ==
  [signals |-> signals, transitions |-> transitions, reactions |-> <<>>]

AOnOff == Signal("A", {"off", "on"}, "off")
V1 == Version(<<AOnOff, Signal("B", {"off", "on"}, "off")>>,
              <<Transition("A", "off", "on"), Transition("B", "off", "on")>>)
\* B is dropped, C is new; C's initial state is not the one A and B have.
V2 == Version(<<AOnOff, Signal("C", {"low", "high"}, "low")>>,
              <<Transition("A", Any, "off"), Transition("C", "low", "high")>>)
\* A is no longer ever "on", and B starts "on".
V3 == Version(<<Signal("A", {"off", "idle"}, "idle"), Signal("B", {"off", "on"}, "on")>>,
              <<Transition("A", "idle", "off")>>)
\* Invalid: B's initial state is not one of its states.
VBad == Version(<<AOnOff, Signal("B", {"off"}, "on")>>, <<>>)

MCTopologies == {V1, V2, V3, VBad}
MCHandWritten == {[A |-> "on"], [Z |-> "on"], [A |-> "on", C |-> "no"]}
MCGuardResult == [g \in {} |-> "true"]
=============================================================================
