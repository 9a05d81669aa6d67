----------------------------- MODULE EngineDocs -----------------------------
(***************************************************************************)
(* A sentence of the documentation about the engine that its code does not *)
(* keep, stated about the trace a caller can read.                         *)
(***************************************************************************)
EXTENDS MCEngine

\* Reaction r was triggered in the last call, and its derived event was sent (the
\* first event of the call is the caller's).
Triggered(r) ==
  \E i \in Logged("StateChanged") :
    r \in MatchingReactions(topo, CallLog[i].signal, CallLog[i].to)
Sent(r) ==
  \E i \in Logged("EventReceived") \ {1} :
    /\ CallLog[i].signal = topo.reactions[r].toSignal
    /\ CallLog[i].event = topo.reactions[r].event

\* doc/ddl.md:415-416: the reactions of a join "are held until the group
\* completes, then fired".  So in a call that returns Ok, a triggered join all of
\* whose groups' members have fired has fired too.  The engine looks for the
\* members only among the reactions of the same trigger (dispatch_reactions).
HeldJoinsFire ==
  outcome = "ok" =>
    \A r \in DOMAIN topo.reactions :
      (/\ topo.reactions[r].requires # {}
       /\ Triggered(r)
       /\ \A g \in topo.reactions[r].requires :
            \A m \in Members(topo.reactions, DOMAIN topo.reactions, g) :
              Triggered(m) /\ Sent(m))
      => Sent(r)

=============================================================================
