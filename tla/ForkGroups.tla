----------------------------- MODULE ForkGroups -----------------------------
(***************************************************************************)
(* The bookkeeping of one reaction dispatch (dispatch_reactions in         *)
(* engine.rs): which reactions are ready, which joins are held, and how    *)
(* far each fork group has come.                                           *)
(*                                                                         *)
(* A reaction is named by its place in the source list, so that "source    *)
(* order" is the order of numbers.  `rs` is the list of reactions; only    *)
(* the fields group (join_group) and requires matter here.                 *)
(*                                                                         *)
(* A schedule is the record of dispatch_reactions' local variables:        *)
(*   ready    the VecDeque, a sequence of reactions                        *)
(*   waiting  the Vec of held joins.  It is only ever filtered, so it is   *)
(*            always in source order and the set of its members fixes it   *)
(*   done     group_done_count (an absent key is 0)                        *)
(*   complete groups_done                                                  *)
(***************************************************************************)
EXTENDS Naturals, Sequences, FiniteSets

CONSTANTS
  Groups,   \* the names of fork groups
  NoGroup   \* join_group = None

ASSUME NoGroupAssumption == NoGroup \notin Groups

\* The reactions in a queue, and that none of them is queued twice.
Elements(q) == {q[i] : i \in DOMAIN q}
NoRepetition(q) == \A i, j \in DOMAIN q : q[i] = q[j] => i = j

\* The vectors that hold exactly the members of S, in source order (there is
\* one for each finite S).
InSourceOrder(S) ==
  {q \in [1..Cardinality(S) -> S] :
     /\ \A r \in S : \E i \in DOMAIN q : q[i] = r
     /\ \A i, j \in DOMAIN q : i < j => q[i] < q[j]}

\* The matched reactions that belong to group g.
Members(rs, matched, g) == {r \in matched : rs[r].group = g}

\* Mutant: a total that is one too high.
GroupTotalOffByOne(rs, matched, g) == Cardinality(Members(rs, matched, g)) + 1

\* group_total[g]
GroupTotal(rs, matched, g) == Cardinality(Members(rs, matched, g))

\* Mutant: one completed requirement is enough.
UnblockedByAny(rs, waiting, complete) ==
  {r \in waiting : rs[r].requires \cap complete # {}}

\* The held joins whose requirements are all complete.
Unblocked(rs, waiting, complete) ==
  {r \in waiting : rs[r].requires \subseteq complete}

\* Mutant: the waiting list is not replaced by what is still waiting.
StillWaitingKeepsAll(waiting, freed) == waiting

\* still_waiting
StillWaiting(waiting, freed) == waiting \ freed

\* The schedule a dispatch starts with: reactions without requirements are
\* ready, the others wait.
NewSchedule(rs, matched) ==
  LET independent == {r \in matched : rs[r].requires = {}}
  IN  {[ready    |-> q,
        waiting  |-> matched \ independent,
        done     |-> [g \in Groups |-> 0],
        complete |-> {}] : q \in InSourceOrder(independent)}

\* The schedule after reaction r has fired: its group has come one further, and
\* the last member of a group releases the joins that were waiting only for it.
AfterFiring(rs, matched, d, r) ==
  LET g        == rs[r].group
      done     == [d.done EXCEPT ![g] = @ + 1]
      complete == d.complete \cup {g}
      freed    == Unblocked(rs, d.waiting, complete)
  IN  IF g = NoGroup THEN {d}
      ELSE IF done[g] # GroupTotal(rs, matched, g)
           THEN {[d EXCEPT !.done = done]}
           ELSE {[ready    |-> d.ready \o q,
                  waiting  |-> StillWaiting(d.waiting, freed),
                  done     |-> done,
                  complete |-> complete] : q \in InSourceOrder(freed)}

=============================================================================
