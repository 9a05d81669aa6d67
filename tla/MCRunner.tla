------------------------------ MODULE MCRunner ------------------------------
(* All scenarios of up to MaxEvents events over five that matter.           *)
EXTENDS Runner, MCEngine

CONSTANT MaxEvents

Replay(s, e, p, fails) == [signal |-> s, event |-> e, payload |-> p, fails |-> fails]
MCSteps ==
  {Replay("A", "go", "p1", {}), Replay("A", "go", "p1", {"act"}), Replay("A", "off", "p2", {}),
   Replay("C", "go", "none", {"act", "undo"}), Replay("X", "go", "none", {"other"})}
MCScenarios == UNION {[1..n -> MCSteps] : n \in 1..MaxEvents}
MCPrograms == {Lifecycle, Chain, ForkAndJoin, Cycle}
=============================================================================
