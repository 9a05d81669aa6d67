--------------------------- MODULE DispatchProofs ---------------------------
(***************************************************************************)
(* Proofs about Dispatch.tla, for every list of reactions and every set of *)
(* fork groups.                                                            *)
(***************************************************************************)
EXTENDS Dispatch, TopologyProofs

\* The matched reactions are the first numbers, and each group has finitely many.
LEMMA MatchedFinite ==
  ASSUME matched \in Seq(Reaction)
  PROVE  /\ Len(matched) \in Nat
         /\ Reactions = 1..Len(matched)
         /\ Reactions \subseteq Nat /\ IsFiniteSet(Reactions)
         /\ \A r \in Reactions : /\ matched[r].group \in Groups \cup {NoGroup}
                                 /\ matched[r].requires \subseteq Groups
         /\ \A g : /\ Members(matched, Reactions, g) \subseteq Reactions
                   /\ IsFiniteSet(Members(matched, Reactions, g))
<1>1. /\ Len(matched) \in Nat
      /\ Reactions = 1..Len(matched)
      /\ matched \in [1..Len(matched) -> Reaction]
  BY LenProperties DEF Reactions
<1>2. IsFiniteSet(Reactions)
  BY <1>1, FS_Interval
<1>3. ASSUME NEW g
      PROVE  /\ Members(matched, Reactions, g) \subseteq Reactions
             /\ IsFiniteSet(Members(matched, Reactions, g))
  <2>1. Members(matched, Reactions, g) \in SUBSET Reactions
    BY DEF Members
  <2> QED
    BY <1>2, <2>1, FS_Subset
<1> QED
  BY <1>1, <1>2, <1>3 DEF Reaction

-----------------------------------------------------------------------------
(* The inductive invariant                                                 *)

LEMMA InitEstablishes == Init => IInv
<1> SUFFICES ASSUME Init PROVE IInv
  OBVIOUS
<1> USE DEF Init
<1>1. matched \in Seq(Reaction)
  BY DispatchableAssumption
<1> DEFINE independent == {r \in Reactions : matched[r].requires = {}}
<1>2. PICK q \in InSourceOrder(independent) :
        sched = [ready |-> q, waiting |-> Reactions \ independent,
                 done |-> [g \in Groups |-> 0], complete |-> {}]
  BY DEF NewSchedule
<1>3. /\ Reactions = 1..Len(matched)
      /\ Len(matched) \in Nat
      /\ Reactions \subseteq Nat /\ IsFiniteSet(Reactions)
      /\ independent \in SUBSET Reactions
  BY <1>1, MatchedFinite
<1>4. /\ q \in Seq(independent)
      /\ Elements(q) = independent
      /\ NoRepetition(q)
  <2> HIDE DEF independent
  <2> QED
    BY <1>3, SourceOrder, FS_Subset
<1> HIDE DEF independent
<1>5. independent \subseteq Reactions /\ q \in Seq(Reactions)
  BY <1>3, <1>4, SeqMonotonic
<1>6. TypeOK
  <2>1. sched \in Schedule
    BY <1>2, <1>5 DEF Schedule
  <2> QED
    BY <1>1, <2>1 DEF TypeOK
<1>7. EachReactionInOnePlace
  BY <1>2, <1>3, <1>4, <1>5 DEF EachReactionInOnePlace, Queued, InHand
<1>8. GroupsCounted
  <2> SUFFICES ASSUME NEW g \in Groups
               PROVE  /\ 0 = Cardinality(Members(matched, Reactions, g) \cap {})
                      /\ ~GroupFired(g)
    BY <1>2 DEF GroupsCounted
  <2>1. Members(matched, Reactions, g) \cap {} = {}
    OBVIOUS
  <2> QED
    BY <2>1, FS_EmptySet DEF GroupFired
<1>9. RequirementsDecideThePlace
  BY <1>2, <1>4 DEF RequirementsDecideThePlace, Queued, InHand, independent
<1> QED
  BY <1>6, <1>7, <1>8, <1>9 DEF IInv, ReturnedEmptyHanded

LEMMA PopPreserves == IInv /\ Pop => IInv'
<1> SUFFICES ASSUME IInv, Pop PROVE IInv'
  OBVIOUS
<1>1. TypeOK /\ EachReactionInOnePlace /\ GroupsCounted /\ RequirementsDecideThePlace
  BY DEF IInv
<1>2. /\ status = "scheduling"
      /\ firing = 0
      /\ sched.ready # <<>>
      /\ firing' = Head(sched.ready)
      /\ sched' = [sched EXCEPT !.ready = Tail(@)]
      /\ matched' = matched /\ fired' = fired /\ status' = status
  BY DEF Pop
<1>3. /\ Reactions' = Reactions
      /\ sched \in Schedule
      /\ Len(matched) \in Nat
      /\ Reactions = 1..Len(matched)
  BY <1>1, <1>2, MatchedFinite DEF TypeOK, Reactions
<1>4. /\ sched.ready \in Seq(Reactions)
      /\ sched'.ready = Tail(sched.ready)
      /\ sched'.waiting = sched.waiting
      /\ sched'.done = sched.done
      /\ sched'.complete = sched.complete
  BY <1>2, <1>3 DEF Schedule
<1>5. /\ firing' \in Queued
      /\ sched'.ready \in Seq(Reactions)
      /\ Queued' = Queued \ {firing'}
      /\ NoRepetition(sched'.ready)
  BY <1>1, <1>2, <1>4, PopFront DEF EachReactionInOnePlace, Queued
<1>6. firing' \in Reactions /\ firing' # 0
  BY <1>1, <1>3, <1>5 DEF EachReactionInOnePlace
<1>7. InHand = {} /\ InHand' = {firing'}
  BY <1>2, <1>6 DEF InHand
<1>8. TypeOK'
  <2>1. sched' \in [ready : Seq(Reactions), waiting : SUBSET Reactions,
                    done : [Groups -> Nat], complete : SUBSET Groups]
    BY <1>2, <1>3, <1>4, <1>5 DEF Schedule
  <2> QED
    BY <1>1, <1>2, <1>3, <1>6, <2>1 DEF TypeOK, Schedule
<1>9. EachReactionInOnePlace'
  BY <1>1, <1>2, <1>3, <1>4, <1>5, <1>6, <1>7 DEF EachReactionInOnePlace
<1>10. GroupsCounted'
  BY <1>1, <1>2, <1>3, <1>4 DEF GroupsCounted, GroupFired
<1>11. RequirementsDecideThePlace'
  BY <1>1, <1>2, <1>4, <1>5, <1>7 DEF RequirementsDecideThePlace
<1> QED
  BY <1>2, <1>8, <1>9, <1>10, <1>11 DEF IInv, ReturnedEmptyHanded

LEMMA SettlePreserves == IInv /\ Settle => IInv'
<1> SUFFICES ASSUME IInv, Settle PROVE IInv'
  OBVIOUS
<1>1. TypeOK /\ EachReactionInOnePlace /\ GroupsCounted /\ RequirementsDecideThePlace
  BY DEF IInv
<1>2. /\ firing # 0
      /\ sched' \in AfterFiring(matched, Reactions, sched, firing)
      /\ firing' = 0
      /\ fired' = fired \cup {firing}
      /\ matched' = matched
      /\ Reactions' = Reactions
      /\ status = "scheduling"
      /\ status' = status
  BY DEF Settle, Reactions
<1>3. /\ Reactions \subseteq Nat
      /\ IsFiniteSet(Reactions)
      /\ 0 \notin Reactions
      /\ firing \in Reactions
      /\ firing \notin fired
      /\ matched[firing].group \in Groups \cup {NoGroup}
      /\ InHand = {firing}
      /\ InHand' = {}
  BY <1>1, <1>2, MatchedFinite DEF TypeOK, EachReactionInOnePlace, InHand
<1>4. BooksRight(matched, Reactions, sched, fired)
  BY <1>1 DEF BooksRight, TypeOK, Schedule, EachReactionInOnePlace, Queued,
              GroupsCounted, GroupFired, RequirementsDecideThePlace
<1>5. /\ BooksRight(matched, Reactions, sched', fired \cup {firing})
      /\ sched'.waiting \subseteq sched.waiting
      /\ Elements(sched'.ready) = Elements(sched.ready) \cup (sched.waiting \ sched'.waiting)
      /\ \A w \in sched.waiting \ sched'.waiting : matched[w].requires \subseteq sched'.complete
      /\ sched.complete \subseteq sched'.complete
  BY <1>2, <1>3, <1>4, BooksKept
<1>6. Queued' = Queued \cup (sched.waiting \ sched'.waiting)
  BY <1>5 DEF Queued
<1>7. TypeOK'
  BY <1>1, <1>2, <1>3, <1>5 DEF TypeOK, Schedule, BooksRight
<1>8. EachReactionInOnePlace'
  BY <1>1, <1>2, <1>3, <1>5, <1>6 DEF EachReactionInOnePlace, BooksRight
<1>9. GroupsCounted'
  BY <1>2, <1>5 DEF GroupsCounted, GroupFired, BooksRight
<1>10. RequirementsDecideThePlace'
  BY <1>1, <1>2, <1>3, <1>5, <1>6 DEF RequirementsDecideThePlace, BooksRight
<1> QED
  BY <1>2, <1>7, <1>8, <1>9, <1>10 DEF IInv, ReturnedEmptyHanded

LEMMA StopPreserves == IInv /\ (Abort \/ Return \/ UNCHANGED vars) => IInv'
<1> SUFFICES ASSUME IInv, Abort \/ Return \/ UNCHANGED vars PROVE IInv'
  OBVIOUS
<1>1. /\ matched' = matched /\ sched' = sched /\ firing' = firing /\ fired' = fired
      /\ status' \in {"scheduling", "returned", "aborted"}
      /\ status' = "returned" => firing = 0 /\ sched.ready = <<>>
  BY DEF IInv, TypeOK, ReturnedEmptyHanded, Abort, Return, vars
<1>2. TypeOK'
  BY <1>1 DEF IInv, TypeOK, Schedule, Reactions
<1>3. EachReactionInOnePlace'
  BY <1>1 DEF IInv, EachReactionInOnePlace, Queued, InHand, Reactions
<1>4. GroupsCounted'
  BY <1>1 DEF IInv, GroupsCounted, GroupFired, Reactions
<1>5. RequirementsDecideThePlace'
  BY <1>1 DEF IInv, RequirementsDecideThePlace, Queued, InHand
<1> QED
  BY <1>1, <1>2, <1>3, <1>4, <1>5 DEF IInv, ReturnedEmptyHanded

\* The invariant the safety properties of a dispatch follow from.
THEOREM Invariance == Spec => []IInv
<1>1. IInv /\ [Next]_vars => IInv'
  BY PopPreserves, SettlePreserves, StopPreserves DEF Next
<1> QED
  BY <1>1, InitEstablishes, PTL DEF Spec

-----------------------------------------------------------------------------
(* What follows                                                            *)

\* The variables of a dispatch keep their types.
THEOREM TypeCorrectness == Spec => []TypeOK
<1>1. IInv => TypeOK
  BY DEF IInv
<1> QED
  BY <1>1, Invariance, PTL

\* A join fires only after every member of every group it requires has fired:
\* what is in hand has its requirements among the completed groups, and those
\* are groups that have fired.
THEOREM JoinsFireAfterTheirForks == Spec => []JoinAfterForks
<1>1. IInv => JoinAfterForks
  <2> SUFFICES ASSUME IInv, firing # 0, NEW g \in matched[firing].requires
               PROVE  GroupFired(g)
    BY DEF JoinAfterForks
  <2>1. firing \in InHand /\ firing \in Reactions
    BY DEF IInv, TypeOK, InHand
  <2>2. g \in sched.complete
    BY <2>1 DEF IInv, RequirementsDecideThePlace
  <2>3. g \in Groups
    BY <2>2 DEF IInv, TypeOK, Schedule
  <2> QED
    BY <2>2, <2>3 DEF IInv, GroupsCounted
<1> QED
  BY <1>1, Invariance, PTL

\* No reaction is lost or fired twice.
THEOREM NoReactionLostOrRepeated == Spec => []EachReactionInOnePlace
<1>1. IInv => EachReactionInOnePlace
  BY DEF IInv
<1> QED
  BY <1>1, Invariance, PTL

\* What has not fired when a dispatch returns Ok is exactly what waits, and a
\* waiting reaction lacks a requirement.
LEMMA UnfiredIsBlocked == IInv => NothingRunnableLeft
<1> SUFFICES ASSUME IInv, status = "returned", NEW r \in Reactions \ fired
             PROVE  \E g \in matched[r].requires : ~GroupFired(g)
  BY DEF NothingRunnableLeft
<1>1. Queued = {} /\ InHand = {}
  <2>1. sched.ready = <<>> /\ firing = 0
    BY DEF IInv, ReturnedEmptyHanded
  <2>2. sched.ready \in Seq(Reactions) /\ DOMAIN sched.ready = {}
    BY <2>1, EmptySeq
  <2> QED
    BY <2>1, <2>2 DEF Queued, InHand, Elements
<1>2. r \in sched.waiting
  BY <1>1 DEF IInv, EachReactionInOnePlace
<1>3. PICK g \in matched[r].requires : g \notin sched.complete
  BY <1>2 DEF IInv, RequirementsDecideThePlace
<1>4. g \in Groups
  BY MatchedFinite DEF IInv, TypeOK
<1> QED
  BY <1>3, <1>4 DEF IInv, GroupsCounted

\* A dispatch that returns Ok leaves no reaction that could still have fired.
THEOREM ReturnLeavesNothingRunnable == Spec => []NothingRunnableLeft
  BY Invariance, UnfiredIsBlocked, PTL

-----------------------------------------------------------------------------
(* The order of firing                                                     *)

\* The queue does not turn the source order of equals round.
EqualsQueuedInOrder ==
  \A i, j \in DOMAIN sched.ready :
    (/\ i < j
     /\ matched[sched.ready[i]].requires = matched[sched.ready[j]].requires)
    => sched.ready[i] < sched.ready[j]

\* Nor does the past: with the queue in order, an earlier equal of the reaction
\* at its front is not behind it, does not wait (it needs no more than the front
\* does), and so has fired.
OrderKept == EqualsQueuedInOrder /\ EqualsFireInSourceOrder

LEMMA InitKeepsOrder == Init => OrderKept
<1> SUFFICES ASSUME Init PROVE OrderKept
  OBVIOUS
<1> DEFINE independent == {r \in Reactions : matched[r].requires = {}}
<1>1. PICK q \in InSourceOrder(independent) :
        sched = [ready |-> q, waiting |-> Reactions \ independent,
                 done |-> [g \in Groups |-> 0], complete |-> {}]
  BY DEF Init, NewSchedule
<1>2. EqualsQueuedInOrder
  <2>1. sched.ready = q
    BY <1>1
  <2>2. \A i, j \in DOMAIN q : i < j => q[i] < q[j]
    BY DEF InSourceOrder
  <2> QED
    BY <2>1, <2>2 DEF EqualsQueuedInOrder
<1>3. fired \cup {firing} = {0} /\ 0 \notin Reactions
  <2>1. matched \in Seq(Reaction)
    BY DispatchableAssumption DEF Init
  <2> QED
    BY <2>1, MatchedFinite DEF Init
<1> QED
  BY <1>2, <1>3 DEF OrderKept, EqualsFireInSourceOrder

LEMMA PopKeepsOrder == IInv /\ IInv' /\ OrderKept /\ Pop => OrderKept'
<1> SUFFICES ASSUME IInv, IInv', OrderKept, Pop PROVE OrderKept'
  OBVIOUS
<1> DEFINE q == sched.ready
           n == Len(q)
<1>1. /\ firing = 0 /\ q # <<>> /\ firing' = Head(q) /\ sched'.ready = Tail(q)
      /\ matched' = matched /\ fired' = fired /\ Reactions' = Reactions
      /\ q \in Seq(Reactions) /\ Reactions \subseteq Nat
  BY MatchedFinite DEF Pop, IInv, TypeOK, Schedule, Reactions
<1>2. /\ n \in Nat \ {0}
      /\ DOMAIN q = 1..n /\ DOMAIN Tail(q) = 1..(n - 1)
      /\ \A i \in 1..(n - 1) : Tail(q)[i] = q[i + 1]
      /\ Head(q) = q[1]
  BY <1>1, EmptySeq, LenProperties, HeadTailProperties
<1> HIDE DEF q, n
<1>3. EqualsQueuedInOrder'
  <2> SUFFICES ASSUME NEW i \in DOMAIN Tail(q), NEW j \in DOMAIN Tail(q), i < j,
                      matched[Tail(q)[i]].requires = matched[Tail(q)[j]].requires
               PROVE  Tail(q)[i] < Tail(q)[j]
    BY <1>1 DEF EqualsQueuedInOrder
  <2>1. /\ i + 1 \in 1..n /\ j + 1 \in 1..n /\ i + 1 < j + 1
        /\ Tail(q)[i] = q[i + 1] /\ Tail(q)[j] = q[j + 1]
    BY <1>2
  <2>2. \A k, l \in 1..n : (k < l /\ matched[q[k]].requires = matched[q[l]].requires) => q[k] < q[l]
    BY <1>2 DEF OrderKept, EqualsQueuedInOrder, q
  <2> QED
    BY <2>1, <2>2
<1>4. ASSUME NEW r \in Reactions, r < q[1], matched[r].requires = matched[q[1]].requires
      PROVE  r \in fired
  <2>1. q[1] \in Queued /\ q[1] \in Reactions
    BY <1>1, <1>2 DEF Queued, Elements, q
  <2>2. r \notin sched.waiting
    BY <1>4, <2>1 DEF IInv, RequirementsDecideThePlace
  <2>3. r \notin Queued
    <3> SUFFICES ASSUME NEW i \in 1..n, q[i] = r PROVE FALSE
      BY <1>2 DEF Queued, Elements, q
    <3>1. i # 1
      <4>1. r \in Nat /\ q[1] \in Nat
        BY <1>1, <2>1
      <4> QED
        BY <1>4, <4>1
    <3>2. 1 \in 1..n /\ 1 < i
      BY <1>2, <3>1
    <3>3. q[1] < r
      BY <1>2, <1>4, <3>2 DEF OrderKept, EqualsQueuedInOrder, q
    <3>4. r \in Nat /\ q[1] \in Nat
      BY <1>1, <2>1
    <3> QED
      BY <1>4, <3>3, <3>4
  <2>4. r \notin InHand
    BY <1>1 DEF InHand
  <2> QED
    BY <2>2, <2>3, <2>4 DEF IInv, EachReactionInOnePlace
<1>5. EqualsFireInSourceOrder'
  BY <1>1, <1>2, <1>4 DEF OrderKept, EqualsFireInSourceOrder
<1> QED
  BY <1>3, <1>5 DEF OrderKept

\* The joins that a completed group releases have waited for more than those that
\* are queued, so no two equals meet where the queue is extended.
LEMMA SettleKeepsOrder == IInv /\ OrderKept /\ Settle => OrderKept'
<1> SUFFICES ASSUME IInv, OrderKept, Settle PROVE OrderKept'
  OBVIOUS
<1> DEFINE p == sched.ready
<1>1. /\ matched' = matched /\ fired' = fired \cup {firing} /\ firing' = 0
      /\ Reactions' = Reactions /\ Reactions \subseteq Nat /\ IsFiniteSet(Reactions)
      /\ 0 \notin Reactions
      /\ p \in Seq(Reactions) /\ sched.waiting \in SUBSET Reactions
      /\ sched' \in AfterFiring(matched, Reactions, sched, firing)
  BY MatchedFinite DEF Settle, IInv, TypeOK, Schedule, Reactions
<1>2. EqualsFireInSourceOrder'
  BY <1>1 DEF OrderKept, EqualsFireInSourceOrder
<1>3. CASE sched'.ready = p
  BY <1>1, <1>2, <1>3 DEF OrderKept, EqualsQueuedInOrder
<1>4. ASSUME NEW freed \in SUBSET sched.waiting, NEW q \in InSourceOrder(freed),
             sched'.ready = p \o q
      PROVE  EqualsQueuedInOrder'
  <2> DEFINE m == Len(p)
             n == Len(q)
  <2>1. IsFiniteSet(freed) /\ freed \subseteq Nat
    BY <1>1, FS_Subset
  <2>2. q \in Seq(freed) /\ Elements(q) = freed
    BY <2>1, SourceOrder
  <2>3. /\ m \in Nat /\ n \in Nat /\ DOMAIN p = 1..m /\ DOMAIN q = 1..n
        /\ DOMAIN (p \o q) = 1..(m + n)
        /\ \A i \in 1..(m + n) : (p \o q)[i] = IF i <= m THEN p[i] ELSE q[i - m]
    BY <1>1, <2>2, SeqMonotonic, ConcatProperties, LenProperties
  <2> HIDE DEF m, n
  <2> SUFFICES ASSUME NEW i \in 1..(m + n), NEW j \in 1..(m + n), i < j,
                      matched[(p \o q)[i]].requires = matched[(p \o q)[j]].requires
               PROVE  (p \o q)[i] < (p \o q)[j]
    BY <1>1, <1>4, <2>3 DEF EqualsQueuedInOrder
  <2>4. CASE j <= m
    <3>1. i \in 1..m /\ j \in 1..m /\ i <= m
      BY <2>3, <2>4
    <3> QED
      BY <2>3, <2>4, <3>1 DEF OrderKept, EqualsQueuedInOrder
  <2>5. CASE i > m
    <3>1. i - m \in 1..n /\ j - m \in 1..n /\ i - m < j - m /\ ~(i <= m) /\ ~(j <= m)
      BY <2>3, <2>5
    <3> QED
      BY <2>3, <3>1 DEF InSourceOrder
  <2>6. CASE i <= m /\ ~(j <= m)
    <3>1. i \in 1..m /\ j - m \in 1..n
      BY <2>3, <2>6
    <3>2. (p \o q)[i] \in Queued /\ (p \o q)[j] \in sched.waiting
      BY <2>2, <2>3, <2>6, <3>1 DEF Queued, Elements
    <3> QED
      BY <3>2 DEF IInv, RequirementsDecideThePlace
  <2> QED
    BY <2>3, <2>4, <2>5, <2>6
<1>5. \/ sched'.ready = p
      \/ \E freed \in SUBSET sched.waiting : \E q \in InSourceOrder(freed) : sched'.ready = p \o q
  <2> DEFINE g == matched[firing].group
             done == [sched.done EXCEPT ![g] = @ + 1]
             complete == sched.complete \cup {g}
             freed == Unblocked(matched, sched.waiting, complete)
  <2>1. CASE g = NoGroup
    BY <1>1, <2>1 DEF AfterFiring
  <2>2. CASE g # NoGroup /\ done[g] # GroupTotal(matched, Reactions, g)
    <3>1. sched' = [sched EXCEPT !.done = done]
      BY <1>1, <2>2 DEF AfterFiring
    <3>2. sched \in Schedule
      BY DEF IInv, TypeOK
    <3> QED
      BY <3>1, <3>2 DEF Schedule
  <2>3. CASE g # NoGroup /\ done[g] = GroupTotal(matched, Reactions, g)
    <3>1. PICK q \in InSourceOrder(freed) :
            sched' = [ready |-> p \o q, waiting |-> StillWaiting(sched.waiting, freed),
                      done |-> done, complete |-> complete]
      BY <1>1, <2>3 DEF AfterFiring
    <3>2. sched'.ready = p \o q /\ freed \in SUBSET sched.waiting
      BY <3>1 DEF Unblocked
    <3> QED
      BY <3>2
  <2> QED
    BY <2>1, <2>2, <2>3
<1> QED
  BY <1>2, <1>3, <1>4, <1>5 DEF OrderKept

\* Of two reactions with the same requirements the earlier one fires first, in a
\* dispatch of any size.
THEOREM SourceOrderDecides == Spec => []EqualsFireInSourceOrder
<1>1. IInv /\ OrderKept /\ (Abort \/ Return \/ UNCHANGED vars) => OrderKept'
  BY DEF OrderKept, EqualsQueuedInOrder, EqualsFireInSourceOrder, Abort, Return, vars, Reactions
<1>2. IInv /\ IInv' /\ OrderKept /\ [Next]_vars => OrderKept'
  BY <1>1, PopKeepsOrder, SettleKeepsOrder DEF Next
<1>3. OrderKept => EqualsFireInSourceOrder
  BY DEF OrderKept
<1> QED
  BY <1>2, <1>3, InitKeepsOrder, Invariance, PTL DEF Spec

-----------------------------------------------------------------------------
(* What fires                                                              *)

\* Nothing fires that is not in every closed set.
FiresNoMore == fired \subseteq Fireable

\* What is in hand has its groups complete, their members have fired, and so are
\* in every closed set: so is what is in hand.
LEMMA FiredAreFireable == IInv /\ FiresNoMore /\ [Next]_vars => FiresNoMore'
<1> SUFFICES ASSUME IInv, FiresNoMore, [Next]_vars PROVE FiresNoMore'
  OBVIOUS
<1>1. matched' = matched /\ Reactions' = Reactions /\ Fireable' = Fireable
  <2>1. matched' = matched
    BY DEF Next, Pop, Settle, Abort, Return, vars
  <2> QED
    BY <2>1 DEF Reactions, Fireable, ClosedUnderForks, Members
<1>2. CASE Settle
  <2>1. firing \in Reactions /\ firing \in InHand /\ fired' = fired \cup {firing}
    BY <1>2 DEF Settle, IInv, TypeOK, InHand
  <2>2. ASSUME NEW S \in SUBSET Reactions, ClosedUnderForks(S) PROVE firing \in S
    <3>1. fired \subseteq S
      BY <2>2 DEF FiresNoMore, Fireable
    <3>2. ASSUME NEW g \in matched[firing].requires
          PROVE  /\ Members(matched, Reactions, g) # {}
                 /\ Members(matched, Reactions, g) \subseteq S
      <4>1. g \in sched.complete /\ g \in Groups
        BY <2>1 DEF IInv, RequirementsDecideThePlace, TypeOK, Schedule
      <4>2. GroupFired(g)
        BY <4>1 DEF IInv, GroupsCounted
      <4> QED
        BY <3>1, <4>2 DEF GroupFired
    <3> QED
      BY <2>1, <2>2, <3>2 DEF ClosedUnderForks
  <2>3. firing \in Fireable
    BY <2>1, <2>2 DEF Fireable
  <2> QED
    BY <1>1, <2>1, <2>3 DEF FiresNoMore
<1>3. CASE Pop \/ Abort \/ Return \/ UNCHANGED vars
  BY <1>1, <1>3 DEF Pop, Abort, Return, vars, FiresNoMore
<1> QED
  BY <1>2, <1>3 DEF Next

\* A dispatch of any size that returns Ok has fired the least closed set: nothing
\* else fires, and what has fired by then is closed.
THEOREM FiredIsLeastClosed == Spec => []FiresTheLeastClosedSet
<1>1. Init => FiresNoMore
  BY DEF Init, FiresNoMore
<1>2. IInv /\ FiresNoMore => FiresTheLeastClosedSet
  <2> SUFFICES ASSUME IInv, FiresNoMore, status = "returned" PROVE fired = Fireable
    BY DEF FiresTheLeastClosedSet
  <2>1. fired \in SUBSET Reactions
    BY DEF IInv, TypeOK
  <2>2. ClosedUnderForks(fired)
    <3> SUFFICES ASSUME NEW r \in Reactions \ fired
                 PROVE  ~ \A g \in matched[r].requires :
                            /\ Members(matched, Reactions, g) # {}
                            /\ Members(matched, Reactions, g) \subseteq fired
      BY DEF ClosedUnderForks
    <3> QED
      BY UnfiredIsBlocked DEF NothingRunnableLeft, GroupFired
  <2> QED
    BY <2>1, <2>2 DEF FiresNoMore, Fireable
<1> QED
  BY <1>1, <1>2, FiredAreFireable, Invariance, PTL DEF Spec

-----------------------------------------------------------------------------
(* The dispatch implements the abstract fork/join specification            *)

\* Both specifications mean the same by a group that has fired.
LEMMA SameGroups ==
  /\ Abstract!Reactions = Reactions
  /\ \A g : Abstract!Completed(g) <=> GroupFired(g)
  BY DEF Abstract!Reactions, Abstract!Completed, Abstract!GroupMembers,
         GroupFired, Members, Reactions

\* The reaction in hand is one the abstract specification may fire.
LEMMA InHandIsEnabled == IInv /\ firing # 0 => firing \in Reactions /\ Abstract!Enabled(firing)
<1> SUFFICES ASSUME IInv, firing # 0
             PROVE  firing \in Reactions /\ Abstract!Enabled(firing)
  OBVIOUS
<1>1. firing \in InHand /\ firing \in Reactions
  BY DEF IInv, TypeOK, InHand
<1>2. firing \notin fired
  BY <1>1 DEF IInv, EachReactionInOnePlace
<1>3. ASSUME NEW g \in matched[firing].requires PROVE GroupFired(g)
  <2>1. g \in sched.complete /\ g \in Groups
    BY <1>1, <1>3 DEF IInv, RequirementsDecideThePlace, TypeOK, Schedule
  <2> QED
    BY <2>1 DEF IInv, GroupsCounted
<1> QED
  BY <1>1, <1>2, <1>3, SameGroups DEF Abstract!Enabled

\* Every step of the dispatch is a step of the abstract specification or changes
\* none of its variables: Settle fires the reaction in hand, Abort and Return are
\* their namesakes, Pop is invisible.
LEMMA StepSimulation == IInv /\ IInv' /\ [Next]_vars => [Abstract!Next]_(Abstract!vars)
<1> SUFFICES ASSUME IInv, IInv', [Next]_vars
             PROVE  [Abstract!Next]_(Abstract!vars)
  OBVIOUS
<1>1. CASE Pop \/ UNCHANGED vars
  BY <1>1 DEF Pop, vars, Abstract!vars
<1>2. CASE Settle
  <2>1. Abstract!Enabled(firing) /\ firing \in Abstract!Reactions
    BY <1>2, InHandIsEnabled, SameGroups DEF Settle
  <2>2. Abstract!Fire(firing)
    BY <1>2, <2>1 DEF Settle, Abstract!Fire
  <2> QED
    BY <2>1, <2>2 DEF Abstract!Next
<1>3. CASE Abort
  <2>1. Abstract!Enabled(firing) /\ firing \in Abstract!Reactions
    BY <1>3, InHandIsEnabled, SameGroups DEF Abort
  <2> QED
    BY <1>3, <2>1 DEF Abort, Abstract!Abort, Abstract!Next
<1>4. CASE Return
  <2>1. status' = "returned" /\ status = "scheduling" /\ UNCHANGED <<matched, fired>>
    BY <1>4 DEF Return
  <2>2. \A r \in Reactions \ fired : \E g \in matched[r].requires : ~GroupFired(g)
    <3>1. NothingRunnableLeft'
      BY UnfiredIsBlocked, PTL
    <3> QED
      BY <2>1, <3>1 DEF NothingRunnableLeft, Reactions, GroupFired
  <2>3. \A r \in Abstract!Reactions : ~Abstract!Enabled(r)
    BY <2>2, SameGroups DEF Abstract!Enabled
  <2> QED
    BY <2>1, <2>3 DEF Abstract!Return, Abstract!Next
<1> QED
  BY <1>1, <1>2, <1>3, <1>4 DEF Next

\* The queue, the counters and the waiting list implement fork/join.
THEOREM Refinement == Spec => ImplementsForkJoin
<1>1. Init => Abstract!Init
  BY DEF Init, Abstract!Init
<1> QED
  BY <1>1, Invariance, StepSimulation, PTL DEF Spec, ImplementsForkJoin, Abstract!Spec

=============================================================================
