------------------------------ MODULE ForkJoin ------------------------------
(***************************************************************************)
(* What a dispatch promises, without saying how it schedules: reactions    *)
(* fire one at a time, each at most once, and none before every fork group *)
(* it requires has fired completely.  A dispatch returns only when nothing *)
(* more can fire, and one failing reaction aborts it.                      *)
(***************************************************************************)
EXTENDS Naturals, Sequences

CONSTANTS
  Groups,
  NoGroup

VARIABLES
  matched,   \* the reactions to dispatch; whatever they are, they stay
  fired,     \* those that have fired (cascaded, or were skipped by their guard)
  status     \* "scheduling", "returned" or "aborted"

vars == <<matched, fired, status>>

Reactions == DOMAIN matched

GroupMembers(g) == {r \in Reactions : matched[r].group = g}

\* A group no matched reaction belongs to never completes.
Completed(g) == GroupMembers(g) # {} /\ GroupMembers(g) \subseteq fired

Enabled(r) == r \notin fired /\ \A g \in matched[r].requires : Completed(g)

Init ==
  /\ fired = {}
  /\ status = "scheduling"

Fire(r) ==
  /\ status = "scheduling"
  /\ Enabled(r)
  /\ fired' = fired \cup {r}
  /\ UNCHANGED <<matched, status>>

Abort ==
  /\ status = "scheduling"
  /\ \E r \in Reactions : Enabled(r)
  /\ status' = "aborted"
  /\ UNCHANGED <<matched, fired>>

Return ==
  /\ status = "scheduling"
  /\ \A r \in Reactions : ~Enabled(r)
  /\ status' = "returned"
  /\ UNCHANGED <<matched, fired>>

Next ==
  \/ \E r \in Reactions : Fire(r)
  \/ Abort
  \/ Return

Spec == Init /\ [][Next]_vars

=============================================================================
