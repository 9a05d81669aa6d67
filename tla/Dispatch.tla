------------------------------ MODULE Dispatch ------------------------------
(***************************************************************************)
(* One call of TopologyEngine::dispatch_reactions (engine.rs): the loop    *)
(* that pops a reaction from the ready queue, fires it, and lets a         *)
(* completed fork group release the joins held for it.                     *)
(*                                                                         *)
(* Firing a reaction runs a whole cascade below this call; here it only    *)
(* succeeds (the guard skipped it, or the cascade returned Ok) or fails    *)
(* (the cascade returned Err).  Engine.tla models what happens inside.     *)
(***************************************************************************)
EXTENDS ForkGroups

CONSTANT
  Dispatchable   \* the lists of matched reactions a dispatch may be given

\* What the dispatcher looks at in a ReactionDef.
Reaction == [group : Groups \cup {NoGroup}, requires : SUBSET Groups]

ASSUME DispatchableAssumption == Dispatchable \subseteq Seq(Reaction)

VARIABLES
  matched,   \* the matching reactions, in source order
  sched,     \* the schedule: ready, waiting, done, complete (see ForkGroups)
  firing,    \* the reaction popped and not yet settled, 0 when there is none
  fired,     \* history: the reactions that have fired
  status     \* "scheduling", "returned" (Ok) or "aborted" (Err)

vars == <<matched, sched, firing, fired, status>>

Reactions == DOMAIN matched

Schedule ==
  [ready : Seq(Reactions), waiting : SUBSET Reactions,
   done : [Groups -> Nat], complete : SUBSET Groups]

Init ==
  /\ matched \in Dispatchable
  /\ sched \in NewSchedule(matched, Reactions)
  /\ firing = 0
  /\ fired = {}
  /\ status = "scheduling"

\* Mutant: the queue is read but not popped.
PopKeepsFront ==
  /\ status = "scheduling"
  /\ firing = 0
  /\ sched.ready # <<>>
  /\ firing' = Head(sched.ready)
  /\ UNCHANGED <<matched, sched, fired, status>>

\* Mutant: the queue is used as a stack.
PopBack ==
  /\ status = "scheduling"
  /\ firing = 0
  /\ sched.ready # <<>>
  /\ firing' = sched.ready[Len(sched.ready)]
  /\ sched' = [sched EXCEPT !.ready = SubSeq(@, 1, Len(@) - 1)]
  /\ UNCHANGED <<matched, fired, status>>

\* ready.pop_front()
Pop ==
  /\ status = "scheduling"
  /\ firing = 0
  /\ sched.ready # <<>>
  /\ firing' = Head(sched.ready)
  /\ sched' = [sched EXCEPT !.ready = Tail(@)]
  /\ UNCHANGED <<matched, fired, status>>

\* Mutant: the reaction in hand is let go before it is recorded.
SettleLetsGoFirst ==
  /\ status = "scheduling"
  /\ firing # 0
  /\ sched' \in AfterFiring(matched, Reactions, sched, firing)
  /\ firing' = 0
  /\ fired' = fired \cup {firing'}
  /\ UNCHANGED <<matched, status>>

\* fire_one_reaction returned Ok: record the group's progress.
Settle ==
  /\ status = "scheduling"
  /\ firing # 0
  /\ sched' \in AfterFiring(matched, Reactions, sched, firing)
  /\ fired' = fired \cup {firing}
  /\ firing' = 0
  /\ UNCHANGED <<matched, status>>

\* Mutant: a failed reaction is dropped and the loop goes on.
AbortIsSwallowed ==
  /\ status = "scheduling"
  /\ firing # 0
  /\ firing' = 0
  /\ UNCHANGED <<matched, sched, fired, status>>

\* fire_one_reaction returned Err: the `?` leaves the loop.
Abort ==
  /\ status = "scheduling"
  /\ firing # 0
  /\ status' = "aborted"
  /\ UNCHANGED <<matched, sched, firing, fired>>

\* The queue is empty: the dispatch returns, whatever is still waiting.
Return ==
  /\ status = "scheduling"
  /\ firing = 0
  /\ sched.ready = <<>>
  /\ status' = "returned"
  /\ UNCHANGED <<matched, sched, firing, fired>>

Next == Pop \/ Settle \/ Abort \/ Return

\* The loop is sequential code that the caller runs to its end; a firing
\* returns because cascades are bounded (EventsReturn in Engine.tla).
Fairness == WF_vars(Next)

Spec == Init /\ [][Next]_vars /\ Fairness

-----------------------------------------------------------------------------

TypeOK ==
  /\ matched \in Seq(Reaction)
  /\ sched \in Schedule
  /\ firing \in Reactions \cup {0}
  /\ fired \subseteq Reactions
  /\ status \in {"scheduling", "returned", "aborted"}

\* A fork group is complete when it has members and all of them have fired.
GroupFired(g) ==
  /\ Members(matched, Reactions, g) # {}
  /\ Members(matched, Reactions, g) \subseteq fired

\* A join never fires before its forks: while a reaction is being fired, every
\* member of every group it requires has fired and returned.
JoinAfterForks ==
  firing # 0 => \A g \in matched[firing].requires : GroupFired(g)

\* Where a matched reaction can be: in the queue, or in the loop's hand.
Queued == Elements(sched.ready)
InHand == {firing} \ {0}

\* No reaction is fired a second time and none is lost: each matched reaction is
\* in exactly one of the queue, the waiting list, the loop's hand and the past,
\* and the queue holds no reaction twice.
EachReactionInOnePlace ==
  /\ Queued \cup sched.waiting \cup InHand \cup fired = Reactions
  /\ Queued \cap (sched.waiting \cup InHand \cup fired) = {}
  /\ sched.waiting \cap (InHand \cup fired) = {}
  /\ InHand \cap fired = {}
  /\ NoRepetition(sched.ready)

\* A dispatch that returns Ok left nothing behind that could have fired: every
\* reaction still waiting requires a group that is not complete.
NothingRunnableLeft ==
  status = "returned" =>
    \A r \in Reactions \ fired : \E g \in matched[r].requires : ~GroupFired(g)

\* Source order decides between equals: of two reactions with the same
\* requirements the earlier one in the source fires first.  For reactions
\* without requirements this is the serial dispatch that predates fork/join.
EqualsFireInSourceOrder ==
  \A r, q \in Reactions :
    (/\ r < q
     /\ matched[r].requires = matched[q].requires
     /\ q \in fired \cup {firing})
    => r \in fired

\* A set of reactions that holds every reaction of which it holds the groups: all
\* of those have members, and the members are in the set.
ClosedUnderForks(S) ==
  \A r \in Reactions :
    (\A g \in matched[r].requires : /\ Members(matched, Reactions, g) # {}
                                    /\ Members(matched, Reactions, g) \subseteq S)
    => r \in S

\* What fires does not depend on the schedule: a dispatch that returns Ok has
\* fired exactly the reactions that are in every set closed under fork groups.
Fireable ==
  {r \in Reactions : \A S \in SUBSET Reactions : ClosedUnderForks(S) => r \in S}

FiresTheLeastClosedSet == status = "returned" => fired = Fireable

\* The strengthening that makes these inductive: group_done_count counts the
\* fired members of a group and groups_done is exactly the completed groups, so
\* what is queued or in hand has its requirements and what waits lacks one.
GroupsCounted ==
  \A g \in Groups :
    /\ sched.done[g] = Cardinality(Members(matched, Reactions, g) \cap fired)
    /\ g \in sched.complete <=> GroupFired(g)

RequirementsDecideThePlace ==
  /\ \A r \in Queued \cup InHand : matched[r].requires \subseteq sched.complete
  /\ \A r \in sched.waiting : ~(matched[r].requires \subseteq sched.complete)

ReturnedEmptyHanded == status = "returned" => firing = 0 /\ sched.ready = <<>>

IInv ==
  /\ TypeOK
  /\ EachReactionInOnePlace
  /\ GroupsCounted
  /\ RequirementsDecideThePlace
  /\ ReturnedEmptyHanded

\* The dispatch implements the abstract fork/join specification.
Abstract == INSTANCE ForkJoin
ImplementsForkJoin == Abstract!Spec

\* Every dispatch comes to an end, even when joins wait for groups that can
\* never complete or for each other.
DispatchEnds == <>(status \in {"returned", "aborted"})

=============================================================================
