--------------------------- MODULE TopologyProofs ---------------------------
(***************************************************************************)
(* Lemmas about what every component is built on: topologies, for any that *)
(* validate() accepts, and the bookkeeping of fork groups, for every       *)
(* finite set of matched reactions: queues lose and gain exactly what is   *)
(* popped and pushed, and recording a firing keeps counters, completed     *)
(* groups and waiting joins in agreement with what has fired.              *)
(***************************************************************************)
EXTENDS Topology, FiniteSetTheorems, SequenceTheorems, TLAPS, WellFoundedInduction

-----------------------------------------------------------------------------
(* Queues                                                                  *)

\* Taking the front off a queue without repetitions removes that element and
\* no other.
LEMMA PopFront ==
  ASSUME NEW S, NEW q \in Seq(S), q # <<>>, NoRepetition(q)
  PROVE  /\ Head(q) \in Elements(q)
         /\ Tail(q) \in Seq(S)
         /\ Elements(Tail(q)) = Elements(q) \ {Head(q)}
         /\ NoRepetition(Tail(q))
<1> DEFINE t == Tail(q)
<1>1. /\ Len(q) \in Nat
      /\ Len(q) # 0
      /\ DOMAIN q = 1..Len(q)
  BY EmptySeq, LenProperties
<1>2. /\ t \in Seq(S)
      /\ Len(t) = Len(q) - 1
      /\ DOMAIN t = 1..(Len(q) - 1)
      /\ \A i \in 1..(Len(q) - 1) : t[i] = q[i + 1]
  BY <1>1, HeadTailProperties, LenProperties
<1>3. Head(q) = q[1]
  BY <1>1
<1> HIDE DEF t
<1>4. Elements(t) = Elements(q) \ {Head(q)}
  <2>1. ASSUME NEW x \in Elements(t) PROVE x \in Elements(q) \ {Head(q)}
    <3>1. PICK i \in 1..(Len(q) - 1) : x = q[i + 1]
      BY <1>2, <2>1 DEF Elements
    <3>2. /\ i + 1 \in DOMAIN q
          /\ 1 \in DOMAIN q
          /\ i + 1 # 1
      BY <1>1, <3>1
    <3> QED
      BY <1>3, <3>1, <3>2 DEF Elements, NoRepetition
  <2>2. ASSUME NEW x \in Elements(q) \ {Head(q)} PROVE x \in Elements(t)
    <3>1. PICK i \in 1..Len(q) : x = q[i]
      BY <1>1, <2>2 DEF Elements
    <3>2. i # 1
      BY <1>3, <2>2, <3>1
    <3>3. /\ i - 1 \in 1..(Len(q) - 1)
          /\ t[i - 1] = x
      BY <1>1, <1>2, <3>1, <3>2
    <3> QED
      BY <1>2, <3>3 DEF Elements
  <2> QED
    BY <2>1, <2>2
<1>5. ASSUME NEW i \in DOMAIN t, NEW j \in DOMAIN t, t[i] = t[j]
      PROVE  i = j
  <2>1. /\ i \in Int
        /\ j \in Int
        /\ i + 1 \in DOMAIN q
        /\ j + 1 \in DOMAIN q
        /\ q[i + 1] = q[j + 1]
    BY <1>1, <1>2, <1>5
  <2>2. i + 1 = j + 1
    BY <2>1 DEF NoRepetition
  <2> QED
    BY <2>1, <2>2
<1>6. Head(q) \in Elements(q)
  BY <1>1, <1>3 DEF Elements
<1> QED
  BY <1>2, <1>4, <1>5, <1>6 DEF t, NoRepetition

\* Appending one queue to another that shares no element with it.
LEMMA PushBack ==
  ASSUME NEW S, NEW p \in Seq(S), NEW q \in Seq(S),
         NoRepetition(p), NoRepetition(q),
         Elements(p) \cap Elements(q) = {}
  PROVE  /\ p \o q \in Seq(S)
         /\ Elements(p \o q) = Elements(p) \cup Elements(q)
         /\ NoRepetition(p \o q)
<1> DEFINE c == p \o q
<1>1. /\ Len(p) \in Nat
      /\ Len(q) \in Nat
      /\ DOMAIN p = 1..Len(p)
      /\ DOMAIN q = 1..Len(q)
  BY LenProperties
<1>2. /\ c \in Seq(S)
      /\ DOMAIN c = 1..(Len(p) + Len(q))
      /\ \A i \in 1..(Len(p) + Len(q)) :
           c[i] = IF i <= Len(p) THEN p[i] ELSE q[i - Len(p)]
  BY ConcatProperties, LenProperties
<1> HIDE DEF c
<1>3. ASSUME NEW i \in DOMAIN c
      PROVE  \/ i \in DOMAIN p /\ c[i] = p[i]
             \/ i - Len(p) \in DOMAIN q /\ c[i] = q[i - Len(p)]
  BY <1>1, <1>2, <1>3
<1>4. ASSUME NEW i \in DOMAIN p PROVE i \in DOMAIN c /\ c[i] = p[i]
  BY <1>1, <1>2, <1>4
<1>5. ASSUME NEW i \in DOMAIN q
      PROVE  i + Len(p) \in DOMAIN c /\ c[i + Len(p)] = q[i]
  <2>1. /\ i + Len(p) \in 1..(Len(p) + Len(q))
        /\ ~(i + Len(p) <= Len(p))
        /\ (i + Len(p)) - Len(p) = i
    BY <1>1, <1>5
  <2> QED
    BY <1>2, <2>1
<1>6. Elements(c) = Elements(p) \cup Elements(q)
  <2>1. ASSUME NEW x \in Elements(c) PROVE x \in Elements(p) \cup Elements(q)
    BY <1>3, <2>1 DEF Elements
  <2>2. ASSUME NEW x \in Elements(p) PROVE x \in Elements(c)
    BY <1>4, <2>2 DEF Elements
  <2>3. ASSUME NEW x \in Elements(q) PROVE x \in Elements(c)
    BY <1>5, <2>3 DEF Elements
  <2> QED
    BY <2>1, <2>2, <2>3
<1>7. ASSUME NEW i \in DOMAIN c, NEW j \in DOMAIN c, c[i] = c[j]
      PROVE  i = j
  <2>1. CASE i \in DOMAIN p /\ c[i] = p[i] /\ j \in DOMAIN p /\ c[j] = p[j]
    BY <1>7, <2>1 DEF NoRepetition
  <2>2. CASE /\ i - Len(p) \in DOMAIN q /\ c[i] = q[i - Len(p)]
             /\ j - Len(p) \in DOMAIN q /\ c[j] = q[j - Len(p)]
    <3>1. i - Len(p) = j - Len(p)
      BY <1>7, <2>2 DEF NoRepetition
    <3> QED
      BY <1>1, <1>2, <3>1
  <2>3. CASE i \in DOMAIN p /\ c[i] = p[i] /\ j - Len(p) \in DOMAIN q /\ c[j] = q[j - Len(p)]
    BY <1>7, <2>3 DEF Elements
  <2>4. CASE j \in DOMAIN p /\ c[j] = p[j] /\ i - Len(p) \in DOMAIN q /\ c[i] = q[i - Len(p)]
    BY <1>7, <2>4 DEF Elements
  <2> QED
    BY <1>3, <2>1, <2>2, <2>3, <2>4
<1> QED
  BY <1>2, <1>6, <1>7 DEF c, NoRepetition

\* A vector in source order is a queue of exactly the given reactions, each once.
LEMMA SourceOrder ==
  ASSUME NEW S, S \subseteq Nat, IsFiniteSet(S), NEW q \in InSourceOrder(S)
  PROVE  /\ q \in Seq(S)
         /\ Elements(q) = S
         /\ NoRepetition(q)
<1>1. Cardinality(S) \in Nat
  BY FS_CardinalityType
<1>2. /\ q \in [1..Cardinality(S) -> S]
      /\ \A r \in S : \E i \in DOMAIN q : q[i] = r
      /\ \A i, j \in DOMAIN q : i < j => q[i] < q[j]
  BY DEF InSourceOrder
<1>3. q \in Seq(S)
  BY <1>1, <1>2, SeqDef
<1>4. Elements(q) = S
  BY <1>2 DEF Elements
<1>5. ASSUME NEW i \in DOMAIN q, NEW j \in DOMAIN q, q[i] = q[j]
      PROVE  i = j
  <2>1. /\ i \in 1..Cardinality(S)
        /\ j \in 1..Cardinality(S)
    BY <1>2
  <2>2. ~(i < j) /\ ~(j < i)
    <3>1. q[i] \in Nat
      BY <1>2
    <3>2. ~(q[i] < q[j]) /\ ~(q[j] < q[i])
      BY <1>5, <3>1
    <3> QED
      BY <1>2, <3>2
  <2> QED
    BY <1>1, <2>1, <2>2
<1> QED
  BY <1>3, <1>4, <1>5 DEF NoRepetition

-----------------------------------------------------------------------------
(* Groups                                                                  *)

\* One more member of M has fired: the count grows by one, and it reaches the
\* size of M exactly when all of M has fired.
LEMMA OneMoreMember ==
  ASSUME NEW M, IsFiniteSet(M), NEW F, NEW r \in M, r \notin F
  PROVE  /\ Cardinality(M \cap F) \in Nat
         /\ Cardinality(M \cap (F \cup {r})) = Cardinality(M \cap F) + 1
         /\ Cardinality(M \cap (F \cup {r})) = Cardinality(M) <=> M \subseteq F \cup {r}
<1>1. IsFiniteSet(M \cap F) /\ Cardinality(M \cap F) \in Nat
  BY FS_Intersection, FS_CardinalityType
<1>2. M \cap (F \cup {r}) = (M \cap F) \cup {r}
  OBVIOUS
<1>3. Cardinality(M \cap (F \cup {r})) = Cardinality(M \cap F) + 1
  BY <1>1, <1>2, FS_AddElement
<1>4. Cardinality(M \cap (F \cup {r})) = Cardinality(M) => M \subseteq F \cup {r}
  <2>1. M \cap (F \cup {r}) \in SUBSET M
    OBVIOUS
  <2>2. Cardinality(M) = Cardinality(M \cap (F \cup {r})) => M = M \cap (F \cup {r})
    BY <2>1, FS_Subset
  <2> QED
    BY <2>2
<1>5. M \subseteq F \cup {r} => M \cap (F \cup {r}) = M
  OBVIOUS
<1> QED
  BY <1>1, <1>3, <1>4, <1>5

\* The books of a schedule d over the matched reactions R are right when F has
\* fired: no reaction is queued twice or both queued and waiting, the counters and
\* the completed groups agree with F, and what waits lacks a requirement.
BooksRight(rs, R, d, F) ==
  /\ d \in [ready : Seq(R), waiting : SUBSET R,
            done : [Groups -> Nat], complete : SUBSET Groups]
  /\ NoRepetition(d.ready)
  /\ Elements(d.ready) \cap d.waiting = {}
  /\ \A g \in Groups : d.done[g] = Cardinality(Members(rs, R, g) \cap F)
  /\ \A g \in Groups : g \in d.complete <=> /\ Members(rs, R, g) # {}
                                            /\ Members(rs, R, g) \subseteq F
  /\ \A w \in d.waiting : ~(rs[w].requires \subseteq d.complete)

\* Recording the firing of r keeps the books right.  The last member of a group
\* completes it and moves exactly the joins it frees to the queue; every other
\* firing leaves the queue and the waiting joins alone.
LEMMA BooksKept ==
  ASSUME NEW R, R \subseteq Nat, IsFiniteSet(R), NEW rs,
         NEW F, NEW r \in R, r \notin F,
         rs[r].group \in Groups \cup {NoGroup},
         NEW d, BooksRight(rs, R, d, F),
         NEW e \in AfterFiring(rs, R, d, r)
  PROVE  /\ BooksRight(rs, R, e, F \cup {r})
         /\ e.waiting \subseteq d.waiting
         /\ Elements(e.ready) = Elements(d.ready) \cup (d.waiting \ e.waiting)
         /\ \A w \in d.waiting \ e.waiting : rs[w].requires \subseteq e.complete
         /\ d.complete \subseteq e.complete
<1> DEFINE g == rs[r].group
           M(h) == Members(rs, R, h)
           G == F \cup {r}
           done == [d.done EXCEPT ![g] = @ + 1]
           complete == d.complete \cup {g}
           freed == Unblocked(rs, d.waiting, complete)
<1>0. SUFFICES
        /\ e \in [ready : Seq(R), waiting : SUBSET R,
                  done : [Groups -> Nat], complete : SUBSET Groups]
        /\ NoRepetition(e.ready)
        /\ e.waiting \subseteq d.waiting
        /\ Elements(e.ready) = Elements(d.ready) \cup (d.waiting \ e.waiting)
        /\ \A w \in d.waiting : w \in e.waiting <=> ~(rs[w].requires \subseteq e.complete)
        /\ d.complete \subseteq e.complete
        /\ \A h \in Groups : e.done[h] = Cardinality(M(h) \cap G)
        /\ \A h \in Groups : h \in e.complete <=> M(h) # {} /\ M(h) \subseteq G
  BY DEF BooksRight
<1> USE DEF BooksRight
\* What the definitions say of groups, and that groups are finite.
<1>1. /\ \A h : r \in M(h) <=> h = g
      /\ \A h : GroupTotal(rs, R, h) = Cardinality(M(h))
  BY DEF Members, GroupTotal
<1>2. \A h : IsFiniteSet(M(h))
  <2>1. \A h : M(h) \in SUBSET R
    BY DEF Members
  <2> QED
    BY <2>1, FS_Subset
<1>3. /\ d.ready \in Seq(R) /\ d.waiting \subseteq R
      /\ d.done \in [Groups -> Nat] /\ d.complete \subseteq Groups
      /\ d = [ready |-> d.ready, waiting |-> d.waiting,
              done |-> d.done, complete |-> d.complete]
  OBVIOUS
\* The groups r is not a member of are as they were.
<1>4. ASSUME NEW h, h # g
      PROVE  /\ M(h) \cap G = M(h) \cap F
             /\ M(h) \subseteq G <=> M(h) \subseteq F
  BY <1>1, <1>4
<1>5. CASE g = NoGroup
  <2>1. e = d
    BY <1>5 DEF AfterFiring
  <2>2. \A h \in Groups : h # g
    BY <1>5, NoGroupAssumption
  <2>3. \A h \in Groups : e.done[h] = Cardinality(M(h) \cap G)
    BY <1>4, <2>1, <2>2
  <2>4. \A h \in Groups : h \in e.complete <=> M(h) # {} /\ M(h) \subseteq G
    BY <1>4, <2>1, <2>2
  <2>5. Elements(e.ready) = Elements(d.ready) \cup (d.waiting \ e.waiting)
    BY <2>1
  <2> QED
    BY <2>1, <2>3, <2>4, <2>5
<1>6. CASE g \in Groups
  \* The group of r has come one further.
  <2>1. /\ Cardinality(M(g) \cap F) \in Nat
        /\ Cardinality(M(g) \cap G) = Cardinality(M(g) \cap F) + 1
        /\ Cardinality(M(g) \cap G) = Cardinality(M(g)) <=> M(g) \subseteq G
    <3> DEFINE m == M(g)
    <3>1. IsFiniteSet(m) /\ r \in m
      BY <1>1, <1>2
    <3> HIDE DEF m
    <3>2. /\ Cardinality(m \cap F) \in Nat
          /\ Cardinality(m \cap (F \cup {r})) = Cardinality(m \cap F) + 1
          /\ Cardinality(m \cap (F \cup {r})) = Cardinality(m) <=> m \subseteq F \cup {r}
      BY <3>1, OneMoreMember
    <3> QED
      BY <3>2 DEF m
  <2>2. /\ done \in [Groups -> Nat]
        /\ \A h \in Groups : done[h] = Cardinality(M(h) \cap G)
    <3>1. done \in [Groups -> Nat]
      BY <1>3, <1>6
    <3>2. done[g] = Cardinality(M(g) \cap G)
      BY <1>3, <1>6, <2>1
    <3>3. ASSUME NEW h \in Groups, h # g PROVE done[h] = Cardinality(M(h) \cap G)
      <4>1. done[h] = d.done[h]
        BY <1>3, <3>3
      <4> QED
        BY <1>4, <3>3, <4>1
    <3> QED
      BY <3>1, <3>2, <3>3
  <2>3. /\ g # NoGroup
        /\ g \notin d.complete
        /\ done[g] = GroupTotal(rs, R, g) <=> M(g) \subseteq G
    <3>1. g \notin d.complete
      BY <1>1, <1>6
    <3>2. done[g] = Cardinality(M(g) \cap G)
      BY <1>6, <2>2
    <3> HIDE DEF M, G, done
    <3> QED
      BY <1>1, <1>6, <2>1, <3>1, <3>2, NoGroupAssumption
  <2>4. CASE done[g] # GroupTotal(rs, R, g)
    <3>1. e = [d EXCEPT !.done = done]
      BY <2>3, <2>4 DEF AfterFiring
    <3> HIDE DEF done
    <3>2. /\ e.done = done
          /\ e.ready = d.ready
          /\ e.waiting = d.waiting
          /\ e.complete = d.complete
          /\ e \in [ready : Seq(R), waiting : SUBSET R,
                    done : [Groups -> Nat], complete : SUBSET Groups]
      BY <1>3, <2>2, <3>1
    <3>3. \A h \in Groups : h \in e.complete <=> M(h) # {} /\ M(h) \subseteq G
      BY <1>4, <2>3, <2>4, <3>2
    <3>4. Elements(e.ready) = Elements(d.ready) \cup (d.waiting \ e.waiting)
      BY <3>2
    <3> QED
      BY <2>2, <3>2, <3>3, <3>4
  <2>5. CASE done[g] = GroupTotal(rs, R, g)
    <3>1. PICK q \in InSourceOrder(freed) :
            e = [ready |-> d.ready \o q,
                 waiting |-> StillWaiting(d.waiting, freed),
                 done |-> done, complete |-> complete]
      BY <2>3, <2>5 DEF AfterFiring
    <3>2. /\ freed \subseteq d.waiting
          /\ \A w \in d.waiting : w \in freed <=> rs[w].requires \subseteq complete
          /\ StillWaiting(d.waiting, freed) = d.waiting \ freed
      BY DEF Unblocked, StillWaiting
    <3>3. freed \in SUBSET R /\ freed \subseteq Nat /\ IsFiniteSet(freed)
      <4>1. freed \in SUBSET R /\ freed \subseteq Nat
        BY <1>3, <3>2
      <4> HIDE DEF freed
      <4> QED
        BY <4>1, FS_Subset
    <3> HIDE DEF freed, done
    <3>4. /\ q \in Seq(R)
          /\ Elements(q) = freed
          /\ NoRepetition(q)
      BY <3>3, SourceOrder, SeqMonotonic
    <3>5. Elements(d.ready) \cap Elements(q) = {}
      BY <3>2, <3>4
    <3>6. /\ d.ready \o q \in Seq(R)
          /\ Elements(d.ready \o q) = Elements(d.ready) \cup freed
          /\ NoRepetition(d.ready \o q)
      BY <1>3, <3>4, <3>5, PushBack
    <3>7. complete \subseteq Groups
      BY <1>3, <1>6
    <3>8. \A h \in Groups : h \in complete <=> M(h) # {} /\ M(h) \subseteq G
      <4>1. M(g) # {} /\ M(g) \subseteq G
        BY <1>1, <2>3, <2>5
      <4> QED
        BY <1>4, <4>1
    <3> HIDE DEF complete
    <3>9. /\ e.ready = d.ready \o q
          /\ e.waiting = d.waiting \ freed
          /\ e.done = done
          /\ e.complete = complete
          /\ e \in [ready : Seq(R), waiting : SUBSET R,
                    done : [Groups -> Nat], complete : SUBSET Groups]
      BY <1>3, <2>2, <3>1, <3>2, <3>6, <3>7
    <3>10. d.waiting \ e.waiting = freed
      BY <3>2, <3>9
    <3>11. d.complete \subseteq e.complete
      BY <3>9 DEF complete
    <3> QED
      BY <2>2, <3>2, <3>6, <3>8, <3>9, <3>10, <3>11
  <2> QED
    BY <2>4, <2>5
<1> QED
  BY <1>5, <1>6

\* A new schedule has every matched reaction still to come, and right books.
LEMMA BooksOpened ==
  ASSUME NEW R, R \subseteq Nat, IsFiniteSet(R), NEW rs,
         NEW d \in NewSchedule(rs, R)
  PROVE  /\ BooksRight(rs, R, d, {})
         /\ Elements(d.ready) \cup d.waiting = R
<1> DEFINE independent == {r \in R : rs[r].requires = {}}
<1>1. PICK q \in InSourceOrder(independent) :
        d = [ready |-> q, waiting |-> R \ independent,
             done |-> [g \in Groups |-> 0], complete |-> {}]
  BY DEF NewSchedule
<1>2. independent \in SUBSET R
  OBVIOUS
<1>3. /\ q \in Seq(independent)
      /\ Elements(q) = independent
      /\ NoRepetition(q)
  <2> HIDE DEF independent
  <2> QED
    BY <1>2, SourceOrder, FS_Subset
<1>4. \A r \in R \ independent : rs[r].requires # {}
  OBVIOUS
<1> HIDE DEF independent
<1>5. q \in Seq(R)
  BY <1>2, <1>3, SeqMonotonic
<1>6. \A g \in Groups : Cardinality(Members(rs, R, g) \cap {}) = 0
  <2>1. \A g \in Groups : Members(rs, R, g) \cap {} = {}
    OBVIOUS
  <2> QED
    BY <2>1, FS_EmptySet
<1> QED
  BY <1>1, <1>2, <1>3, <1>4, <1>5, <1>6 DEF BooksRight

-----------------------------------------------------------------------------
(* Topologies                                                              *)

\* A valid topology declares each of its signals with one of its states as
\* the initial one.
LEMMA InitialIsDeclared ==
  ASSUME NEW t, Valid(t), NEW s \in SignalIds(t)
  PROVE  Declaration(t, s).initial \in StatesOf(t, s)
<1> DEFINE IsFirst(i) == /\ t.signals[i].id = s
                         /\ \A j \in 1..(i - 1) : t.signals[j].id # s
<1>1. PICK i \in DOMAIN t.signals : t.signals[i].id = s
  BY DEF SignalIds
<1>2. IsFirst(i)
  BY <1>1 DEF Valid, SignalsOk
<1> DEFINE first == CHOOSE k \in DOMAIN t.signals : IsFirst(k)
<1>3. first \in DOMAIN t.signals
  BY <1>2
<1>4. Declaration(t, s) = t.signals[first]
  BY DEF Declaration
<1> HIDE DEF first, IsFirst
<1> QED
  BY <1>3, <1>4 DEF Valid, SignalsOk, StatesOf

\* Of some numbers there is a least one.
LEMMA LeastExists ==
  ASSUME NEW S, S \subseteq Nat, S # {}
  PROVE  \E n \in S : \A m \in S : n <= m
<1> DEFINE below == {ss \in Nat \X Nat : ss[1] < ss[2]}
<1>1. IsWellFoundedOn(below, Nat)
  BY NatLessThanWellFounded DEF OpToRel
<1>2. PICK n \in S : \A m \in S : <<m, n>> \notin below
  <2> HIDE DEF below
  <2> QED
    BY <1>1, WFMin
<1>3. ASSUME NEW m \in S PROVE n <= m
  <2>1. m \in Nat /\ n \in Nat
    OBVIOUS
  <2>2. ASSUME m < n PROVE FALSE
    <3>1. <<m, n>> \in Nat \X Nat /\ <<m, n>>[1] = m /\ <<m, n>>[2] = n
      BY <2>1
    <3>2. <<m, n>> \in below
      BY <2>2, <3>1
    <3> QED
      BY <1>2, <3>2
  <2> QED
    BY <2>1, <2>2
<1> QED
  BY <1>2, <1>3

LEMMA FirstExists ==
  ASSUME NEW S, S \subseteq Nat, S # {}
  PROVE  First(S) \in S
BY LeastExists DEF First

\* Induction: a set with 0, and with the successor of each number it has.
LEMMA AllNumbers ==
  ASSUME NEW S, 0 \in S, \A n \in Nat : n \in S => n + 1 \in S
  PROVE  \A n \in Nat : n \in S
<1> SUFFICES ASSUME NEW m \in Nat, m \notin S PROVE FALSE
  OBVIOUS
<1>1. PICK n \in Nat : n \notin S /\ \A k \in Nat : k \notin S => n <= k
  <2> DEFINE T == {k \in Nat : k \notin S}
  <2>1. T \subseteq Nat /\ T # {}
    OBVIOUS
  <2> HIDE DEF T
  <2>2. PICK n \in T : \A k \in T : n <= k
    BY <2>1, LeastExists
  <2> QED
    BY <2>2 DEF T
<1>2. n # 0 /\ n - 1 \in Nat /\ ~(n <= n - 1) /\ (n - 1) + 1 = n
  BY <1>1
<1> QED
  BY <1>1, <1>2
==============================================================================
