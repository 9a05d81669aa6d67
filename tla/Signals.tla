------------------------------ MODULE Signals ------------------------------
(***************************************************************************)
(* What the engine promises about its signals, without lifecycle actions,  *)
(* rollbacks and cascades: a set of state machines of which one moves at a *)
(* time, along a transition declared for it from the state it is in, whose *)
(* guard some payload satisfies.  A move is never taken back.              *)
(***************************************************************************)
EXTENDS Topology

VARIABLES
  topo,       \* the topology
  committed   \* the state of each signal

vars == <<topo, committed>>

Init == committed = InitialStates(topo)

Move(tr) ==
  /\ tr.from \in {committed[tr.signal], Any}
  /\ \E p \in Payloads : Evaluate(tr.guard, p) = "true"
  /\ committed' = [committed EXCEPT ![tr.signal] = tr.to]
  /\ UNCHANGED topo

Next == \E i \in DOMAIN topo.transitions : Move(topo.transitions[i])

Spec == Init /\ [][Next]_vars

=============================================================================
