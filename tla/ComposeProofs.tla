--------------------------- MODULE ComposeProofs ---------------------------
(***************************************************************************)
(* Proofs about Compose.tla, for any files that include each other in any  *)
(* way, and any instances of any components.                               *)
(***************************************************************************)
EXTENDS Compose, TopologyProofs, SequenceTheorems, FiniteSetTheorems,
        FunctionTheorems

-----------------------------------------------------------------------------
(* Lists                                                                   *)

LEMMA ListFacts ==
  ASSUME NEW q, IsList(q)
  PROVE  /\ Len(q) \in Nat /\ DOMAIN q = 1..Len(q)
         /\ \A i \in 1..Len(q) : q[i] \in Elements(q)
         /\ q = <<>> <=> Len(q) = 0
BY LenProperties, EmptySeq DEF IsList, Elements

LEMMA ListIn ==
  ASSUME NEW S, NEW q \in Seq(S)
  PROVE  IsList(q)
<1>1. q \in [1..Len(q) -> S] /\ Len(q) \in Nat
  BY LenProperties
<1>2. q \in [1..Len(q) -> Elements(q)]
  BY <1>1 DEF Elements
<1> QED
  BY <1>1, <1>2, SeqDef DEF IsList

LEMMA EmptyList == IsList(<<>>) /\ Elements(<<>>) = {}
<1>1. IsList(<<>>)
  BY EmptySeq, ListIn
<1> QED
  BY <1>1, ListFacts DEF Elements

\* Adding one at the end.
LEMMA ListAppend ==
  ASSUME NEW q, IsList(q), NEW e
  PROVE  /\ IsList(Append(q, e))
         /\ Len(q) \in Nat /\ DOMAIN q = 1..Len(q)
         /\ Len(Append(q, e)) = Len(q) + 1
         /\ DOMAIN Append(q, e) = 1..(Len(q) + 1)
         /\ \A i \in 1..Len(q) : Append(q, e)[i] = q[i]
         /\ Append(q, e)[Len(q) + 1] = e
<1>1. q \in Seq(Elements(q) \cup {e})
  BY SeqMonotonic DEF IsList
<1>2. /\ Append(q, e) \in Seq(Elements(q) \cup {e})
      /\ Len(Append(q, e)) = Len(q) + 1
      /\ \A i \in 1..Len(q) : Append(q, e)[i] = q[i]
      /\ Append(q, e)[Len(q) + 1] = e
  BY <1>1, AppendProperties
<1> QED
  BY <1>2, ListIn, ListFacts

\* All but the last.
LEMMA ListFront ==
  ASSUME NEW q, IsList(q), q # <<>>
  PROVE  /\ Len(q) \in Nat \ {0} /\ DOMAIN q = 1..Len(q)
         /\ IsList(SubSeq(q, 1, Len(q) - 1))
         /\ Len(SubSeq(q, 1, Len(q) - 1)) = Len(q) - 1
         /\ DOMAIN SubSeq(q, 1, Len(q) - 1) = 1..(Len(q) - 1)
         /\ \A i \in 1..(Len(q) - 1) : SubSeq(q, 1, Len(q) - 1)[i] = q[i]
<1>1. Len(q) \in Nat \ {0} /\ q \in [1..Len(q) -> Elements(q)]
  BY EmptySeq, LenProperties DEF IsList
<1>2. /\ SubSeq(q, 1, Len(q) - 1) \in Seq(Elements(q))
      /\ Len(SubSeq(q, 1, Len(q) - 1)) = Len(q) - 1
      /\ \A i \in 1..(Len(q) - 1) : SubSeq(q, 1, Len(q) - 1)[i] = q[i]
  BY <1>1 DEF IsList
<1> QED
  BY <1>1, <1>2, ListIn, ListFacts

\* Replacing one.
LEMMA ListReplace ==
  ASSUME NEW q, IsList(q), NEW k \in DOMAIN q, NEW e
  PROVE  /\ IsList([q EXCEPT ![k] = e])
         /\ DOMAIN [q EXCEPT ![k] = e] = DOMAIN q
         /\ Len([q EXCEPT ![k] = e]) = Len(q)
         /\ [q EXCEPT ![k] = e][k] = e
         /\ \A i \in DOMAIN q : i # k => [q EXCEPT ![k] = e][i] = q[i]
<1>1. Len(q) \in Nat /\ DOMAIN q = 1..Len(q) /\ q \in [1..Len(q) -> Elements(q)]
  BY ListFacts, LenProperties DEF IsList
<1>2. [q EXCEPT ![k] = e] \in [1..Len(q) -> Elements(q) \cup {e}]
  BY <1>1
<1>3. [q EXCEPT ![k] = e] \in Seq(Elements(q) \cup {e})
  BY <1>1, <1>2, SeqDef
<1>4. Len([q EXCEPT ![k] = e]) = Len(q)
  BY <1>1, <1>2, <1>3, LenProperties
<1> QED
  BY <1>1, <1>2, <1>3, <1>4, ListIn

\* One after the other.
LEMMA ListConcat ==
  ASSUME NEW p, IsList(p), NEW q, IsList(q)
  PROVE  /\ IsList(p \o q)
         /\ Elements(p \o q) = Elements(p) \cup Elements(q)
<1> DEFINE S == Elements(p) \cup Elements(q)
<1>1. p \in Seq(S) /\ q \in Seq(S)
  BY SeqMonotonic DEF IsList
<1>2. Len(p) \in Nat /\ Len(q) \in Nat /\ DOMAIN p = 1..Len(p) /\ DOMAIN q = 1..Len(q)
  BY ListFacts
<1> HIDE DEF S
<1>3. /\ p \o q \in Seq(S)
      /\ Len(p \o q) = Len(p) + Len(q)
      /\ \A i \in 1..(Len(p) + Len(q)) :
           (p \o q)[i] = IF i <= Len(p) THEN p[i] ELSE q[i - Len(p)]
  BY <1>1, ConcatProperties
<1>4. DOMAIN (p \o q) = 1..(Len(p) + Len(q))
  BY <1>3, LenProperties
<1>5. ASSUME NEW x \in Elements(p \o q) PROVE x \in Elements(p) \cup Elements(q)
  <2>1. PICK i \in 1..(Len(p) + Len(q)) : x = (p \o q)[i]
    BY <1>4 DEF Elements
  <2>2. CASE i <= Len(p)
    BY <1>2, <1>3, <2>1, <2>2 DEF Elements
  <2>3. CASE ~(i <= Len(p))
    <3>1. i - Len(p) \in 1..Len(q)
      BY <1>2, <2>3
    <3> QED
      BY <1>2, <1>3, <2>1, <2>3, <3>1 DEF Elements
  <2> QED
    BY <2>2, <2>3
<1>6. ASSUME NEW x \in Elements(p) PROVE x \in Elements(p \o q)
  <2>1. PICK i \in 1..Len(p) : x = p[i]
    BY <1>2 DEF Elements
  <2>2. i \in 1..(Len(p) + Len(q)) /\ i <= Len(p)
    BY <1>2
  <2> QED
    BY <1>3, <1>4, <2>1, <2>2 DEF Elements
<1>7. ASSUME NEW x \in Elements(q) PROVE x \in Elements(p \o q)
  <2>1. PICK i \in 1..Len(q) : x = q[i]
    BY <1>2 DEF Elements
  <2>2. /\ i + Len(p) \in 1..(Len(p) + Len(q)) /\ ~(i + Len(p) <= Len(p))
        /\ (i + Len(p)) - Len(p) = i
    BY <1>2
  <2> QED
    BY <1>3, <1>4, <2>1, <2>2 DEF Elements
<1> QED
  BY <1>3, <1>5, <1>6, <1>7, ListIn

\* One made of each.
LEMMA ListImage ==
  ASSUME NEW q, IsList(q), NEW f, f = [i \in DOMAIN q |-> f[i]]
  PROVE  IsList(f)
<1>1. Len(q) \in Nat /\ DOMAIN q = 1..Len(q)
  BY ListFacts
<1>2. f \in [1..Len(q) -> Elements(f)]
  BY <1>1 DEF Elements
<1> QED
  BY <1>1, <1>2, SeqDef DEF IsList

-----------------------------------------------------------------------------
(* Valid topologies                                                        *)

\* Initial states are declared, and what a transition names is declared somewhere.
DeclaresStates(t) ==
  /\ \A sg \in Elements(t.signals) : sg.initial \in sg.states
  /\ \A tr \in Elements(t.transitions) :
       \E sg \in Elements(t.signals) : /\ sg.id = tr.signal
                                       /\ tr.from \in sg.states \cup {Any}
                                       /\ tr.to \in sg.states

\* Valid but for signals that are declared twice: so is what a reaction names.
Sound(t) ==
  /\ DeclaresStates(t)
  /\ \A r \in Elements(t.reactions) :
       \A s \in {r.fromSignal, r.toSignal} : \E sg \in Elements(t.signals) : sg.id = s

Distinct(signals) == \A i, j \in DOMAIN signals : signals[i].id = signals[j].id => i = j

\* Where signals are pairwise different, the declaration of one is it.
LEMMA DeclarationOfOne ==
  ASSUME NEW t, NEW i \in DOMAIN t.signals,
         \A j \in 1..(i - 1) : t.signals[j].id # t.signals[i].id,
         \A j \in DOMAIN t.signals :
           (\A k \in 1..(j - 1) : t.signals[k].id # t.signals[j].id)
             /\ t.signals[j].id = t.signals[i].id => j = i
  PROVE  Declaration(t, t.signals[i].id) = t.signals[i]
<1> DEFINE s == t.signals[i].id
           IsFirst(k) == /\ t.signals[k].id = s
                         /\ \A j \in 1..(k - 1) : t.signals[j].id # s
           first == CHOOSE k \in DOMAIN t.signals : IsFirst(k)
<1>1. IsFirst(i)
  OBVIOUS
<1>2. first \in DOMAIN t.signals /\ IsFirst(first)
  BY <1>1
<1>3. Declaration(t, s) = t.signals[first]
  BY DEF Declaration
<1>4. first = i
  <2> HIDE DEF first
  <2> QED
    BY <1>2
<1> QED
  BY <1>3, <1>4

LEMMA ValidIsSound ==
  ASSUME NEW t, Valid(t), IsList(t.signals)
  PROVE  Sound(t)
<1>0. DOMAIN t.signals = 1..Len(t.signals) /\ Len(t.signals) \in Nat
  BY ListFacts
<1>1. ASSUME NEW i \in DOMAIN t.signals
      PROVE  Declaration(t, t.signals[i].id) = t.signals[i]
  <2>1. ASSUME NEW j \in DOMAIN t.signals, t.signals[j].id = t.signals[i].id
        PROVE  j = i
    <3>1. ~(j < i)
      <4>1. j < i => j \in 1..(i - 1)
        BY <1>0
      <4> QED
        BY <2>1, <4>1 DEF Valid, SignalsOk
    <3>2. ~(i < j)
      <4>1. i < j => i \in 1..(j - 1)
        BY <1>0
      <4> QED
        BY <2>1, <4>1 DEF Valid, SignalsOk
    <3> QED
      BY <1>0, <3>1, <3>2
  <2>2. \A j \in 1..(i - 1) : t.signals[j].id # t.signals[i].id
    BY DEF Valid, SignalsOk
  <2> QED
    BY <2>1, <2>2, DeclarationOfOne
<1>2. ASSUME NEW s \in SignalIds(t)
      PROVE  \E sg \in Elements(t.signals) : sg.id = s /\ StatesOf(t, s) = sg.states
  BY <1>1 DEF SignalIds, StatesOf, Elements
<1>3. \A sg \in Elements(t.signals) : sg.initial \in sg.states
  BY DEF Valid, SignalsOk, Elements
<1>4. ASSUME NEW tr \in Elements(t.transitions)
      PROVE  \E sg \in Elements(t.signals) : /\ sg.id = tr.signal
                                             /\ tr.from \in sg.states \cup {Any}
                                             /\ tr.to \in sg.states
  <2>1. /\ tr.signal \in SignalIds(t)
        /\ tr.from \in StatesOf(t, tr.signal) \cup {Any}
        /\ tr.to \in StatesOf(t, tr.signal)
    BY DEF Valid, TransitionsOk, Elements
  <2> QED
    BY <1>2, <2>1
<1>5. ASSUME NEW r \in Elements(t.reactions), NEW s \in {r.fromSignal, r.toSignal}
      PROVE  \E sg \in Elements(t.signals) : sg.id = s
  <2>1. r.fromSignal \in SignalIds(t) /\ r.toSignal \in SignalIds(t)
    BY DEF Valid, ReactionsOk, Elements
  <2> QED
    BY <1>2, <2>1
<1> QED
  BY <1>3, <1>4, <1>5 DEF Sound, DeclaresStates

\* Where signals are pairwise different, what is declared somewhere is declared.
LEMMA DeclaredOnce ==
  ASSUME NEW t, DeclaresStates(t), IsList(t.signals), Distinct(t.signals)
  PROVE  /\ SignalsOk(t) /\ TransitionsOk(t)
         /\ \A sg \in Elements(t.signals) : sg.id \in SignalIds(t)
<1>0. DOMAIN t.signals = 1..Len(t.signals) /\ Len(t.signals) \in Nat
  BY ListFacts
<1>1. ASSUME NEW i \in DOMAIN t.signals
      PROVE  /\ \A j \in 1..(i - 1) : t.signals[j].id # t.signals[i].id
             /\ Declaration(t, t.signals[i].id) = t.signals[i]
  <2>1. \A j \in 1..(i - 1) : t.signals[j].id # t.signals[i].id
    <3> SUFFICES ASSUME NEW j \in 1..(i - 1) PROVE t.signals[j].id # t.signals[i].id
      OBVIOUS
    <3>1. j \in DOMAIN t.signals /\ j # i
      BY <1>0
    <3> QED
      BY <3>1 DEF Distinct
  <2> QED
    BY <2>1, DeclarationOfOne DEF Distinct
<1>2. SignalsOk(t)
  BY <1>1 DEF SignalsOk, DeclaresStates, Elements
<1>3. ASSUME NEW sg \in Elements(t.signals)
      PROVE  sg.id \in SignalIds(t) /\ StatesOf(t, sg.id) = sg.states
  BY <1>1 DEF SignalIds, StatesOf, Elements
<1>4. TransitionsOk(t)
  <2> SUFFICES ASSUME NEW tr \in Elements(t.transitions)
               PROVE  /\ tr.signal \in SignalIds(t)
                      /\ tr.from \in StatesOf(t, tr.signal) \cup {Any}
                      /\ tr.to \in StatesOf(t, tr.signal)
    BY DEF TransitionsOk, Elements
  <2>1. PICK sg \in Elements(t.signals) : /\ sg.id = tr.signal
                                          /\ tr.from \in sg.states \cup {Any}
                                          /\ tr.to \in sg.states
    BY DEF DeclaresStates
  <2> QED
    BY <1>3, <2>1
<1> QED
  BY <1>2, <1>3, <1>4

LEMMA SoundIsValid ==
  ASSUME NEW t, Sound(t), IsList(t.signals), Distinct(t.signals)
  PROVE  Valid(t)
<1>1. /\ SignalsOk(t) /\ TransitionsOk(t)
      /\ \A sg \in Elements(t.signals) : sg.id \in SignalIds(t)
  BY DeclaredOnce DEF Sound
<1>2. ReactionsOk(t)
  <2> SUFFICES ASSUME NEW r \in Elements(t.reactions)
               PROVE  r.fromSignal \in SignalIds(t) /\ r.toSignal \in SignalIds(t)
    BY DEF ReactionsOk, Elements
  <2>1. /\ \E sg \in Elements(t.signals) : sg.id = r.fromSignal
        /\ \E sg \in Elements(t.signals) : sg.id = r.toSignal
    BY DEF Sound
  <2> QED
    BY <1>1, <2>1
<1> QED
  BY <1>1, <1>2 DEF Valid

\* enforce_unique_signal_ids: as many ids as declarations.
LEMMA CountedOnce ==
  ASSUME NEW signals, IsList(signals), Cardinality(Ids(signals)) = Len(signals)
  PROVE  Distinct(signals)
<1> DEFINE n == Len(signals)
           f == [i \in 1..n |-> signals[i].id]
<1>1. n \in Nat /\ DOMAIN signals = 1..n
  BY ListFacts
<1>2. f \in Surjection(1..n, Ids(signals))
  BY <1>1, Zenon DEF Surjection, Ids
<1>3. IsFiniteSet(1..n) /\ Cardinality(1..n) = n
  <2> HIDE DEF n
  <2>1. IsFiniteSet(1..n) /\ Cardinality(1..n) = IF 1 > n THEN 0 ELSE n - 1 + 1
    BY <1>1, FS_Interval
  <2> QED
    BY <1>1, <2>1
<1>4. f \in Injection(1..n, Ids(signals))
  <2> HIDE DEF f
  <2> QED
    BY <1>2, <1>3, FS_SurjSameCardinalityImpliesInj
<1> QED
  BY <1>1, <1>4 DEF Injection, IsInjective, Distinct

-----------------------------------------------------------------------------
(* What an instance adds                                                   *)

\* The definitions of component c in an instance with these bindings and wires.
Piece(c, bound, conns) ==
  [signals     |-> [i \in DOMAIN c.signals |-> ExpandSignal(c.signals[i], c, bound, conns)],
   transitions |-> [i \in DOMAIN c.transitions |->
                      ExpandTransition(c.transitions[i], c, bound, conns)],
   reactions   |-> [i \in DOMAIN c.reactions |->
                      ExpandReaction(c.reactions[i], c, bound, conns)]]

\* Its members, one for each of the component's.
PieceMembers(p, c, bound, conns) ==
  /\ \A x : x \in Elements(p.signals) <=>
       \E sg \in Elements(c.signals) : x = ExpandSignal(sg, c, bound, conns)
  /\ \A x : x \in Elements(p.transitions) <=>
       \E tr \in Elements(c.transitions) : x = ExpandTransition(tr, c, bound, conns)
  /\ \A x : x \in Elements(p.reactions) <=>
       \E r \in Elements(c.reactions) : x = ExpandReaction(r, c, bound, conns)

Lists(t) == IsList(t.signals) /\ IsList(t.transitions) /\ IsList(t.reactions)

LEMMA PieceOf ==
  ASSUME NEW c, Lists(c), NEW bound, NEW conns
  PROVE  /\ Lists(Piece(c, bound, conns))
         /\ PieceMembers(Piece(c, bound, conns), c, bound, conns)
<1> DEFINE p == Piece(c, bound, conns)
<1>1. /\ p.signals = [i \in DOMAIN c.signals |-> ExpandSignal(c.signals[i], c, bound, conns)]
      /\ p.transitions = [i \in DOMAIN c.transitions |->
                            ExpandTransition(c.transitions[i], c, bound, conns)]
      /\ p.reactions = [i \in DOMAIN c.reactions |->
                          ExpandReaction(c.reactions[i], c, bound, conns)]
  BY DEF Piece
<1> HIDE DEF p
<1>2. /\ p.signals = [i \in DOMAIN c.signals |-> p.signals[i]]
      /\ p.transitions = [i \in DOMAIN c.transitions |-> p.transitions[i]]
      /\ p.reactions = [i \in DOMAIN c.reactions |-> p.reactions[i]]
  BY <1>1
<1>3. Lists(p)
  BY <1>2, ListImage DEF Lists
<1>4. ASSUME NEW x
      PROVE  x \in Elements(p.signals) <=>
               \E sg \in Elements(c.signals) : x = ExpandSignal(sg, c, bound, conns)
  <2> DEFINE q == p.signals
  <2>1. /\ DOMAIN q = DOMAIN c.signals
        /\ \A i \in DOMAIN q : q[i] = ExpandSignal(c.signals[i], c, bound, conns)
    BY <1>1
  <2> HIDE DEF q
  <2>2. x \in Elements(q) <=> \E i \in DOMAIN q : x = q[i]
    BY DEF Elements
  <2>3. x \in Elements(q) <=>
          \E i \in DOMAIN c.signals : x = ExpandSignal(c.signals[i], c, bound, conns)
    BY <2>1, <2>2
  <2> QED
    BY <2>3 DEF Elements, q
<1>5. ASSUME NEW x
      PROVE  x \in Elements(p.transitions) <=>
               \E tr \in Elements(c.transitions) : x = ExpandTransition(tr, c, bound, conns)
  <2> DEFINE q == p.transitions
  <2>1. /\ DOMAIN q = DOMAIN c.transitions
        /\ \A i \in DOMAIN q : q[i] = ExpandTransition(c.transitions[i], c, bound, conns)
    BY <1>1
  <2> HIDE DEF q
  <2>2. x \in Elements(q) <=> \E i \in DOMAIN q : x = q[i]
    BY DEF Elements
  <2>3. x \in Elements(q) <=>
          \E i \in DOMAIN c.transitions : x = ExpandTransition(c.transitions[i], c, bound, conns)
    BY <2>1, <2>2
  <2> QED
    BY <2>3 DEF Elements, q
<1>6. ASSUME NEW x
      PROVE  x \in Elements(p.reactions) <=>
               \E r \in Elements(c.reactions) : x = ExpandReaction(r, c, bound, conns)
  <2> DEFINE q == p.reactions
  <2>1. /\ DOMAIN q = DOMAIN c.reactions
        /\ \A i \in DOMAIN q : q[i] = ExpandReaction(c.reactions[i], c, bound, conns)
    BY <1>1
  <2> HIDE DEF q
  <2>2. x \in Elements(q) <=> \E i \in DOMAIN q : x = q[i]
    BY DEF Elements
  <2>3. x \in Elements(q) <=>
          \E i \in DOMAIN c.reactions : x = ExpandReaction(c.reactions[i], c, bound, conns)
    BY <2>1, <2>2
  <2> QED
    BY <2>3 DEF Elements, q
<1>7. PieceMembers(p, c, bound, conns)
  BY <1>4, <1>5, <1>6 DEF PieceMembers
<1> QED
  BY <1>3, <1>7 DEF p

\* The fields of an expanded reaction: what expand changes, and what it copies.
LEMMA ReactionFields ==
  ASSUME NEW c, IsComponent(c), NEW bound, NEW conns, NEW r \in Elements(c.reactions)
  PROVE  LET e == ExpandReaction(r, c, bound, conns)
         IN  /\ e.fromSignal = Renamed(r.fromSignal, c, bound, conns)
             /\ e.fromState = Subst(r.fromState, bound)
             /\ e.toSignal = Renamed(r.toSignal, c, bound, conns)
             /\ e.event = Subst(r.event, bound)
             /\ e.guard = r.guard /\ e.group = r.group
             /\ e.requires = r.requires /\ e.onFail = r.onFail
<1>1. {"fromSignal", "fromState", "toSignal", "event", "guard", "group", "requires", "onFail"}
        \subseteq DOMAIN r
  BY DEF IsComponent
<1> QED
  BY <1>1 DEF ExpandReaction

\* Signals are renamed where they are declared and where they are named in the
\* same way, and states likewise: what is declared in the component still is,
LEMMA PieceDeclaresStates ==
  ASSUME NEW c, Lists(c), DeclaresStates(c), NEW bound, NEW conns
  PROVE  DeclaresStates(Piece(c, bound, conns))
<1> DEFINE p == Piece(c, bound, conns)
<1>1. PieceMembers(p, c, bound, conns)
  BY PieceOf
<1>2. ASSUME NEW sg
      PROVE  /\ ExpandSignal(sg, c, bound, conns).id = Renamed(sg.id, c, bound, conns)
             /\ ExpandSignal(sg, c, bound, conns).initial = Subst(sg.initial, bound)
             /\ ExpandSignal(sg, c, bound, conns).states = {Subst(x, bound) : x \in sg.states}
  BY DEF ExpandSignal
<1> HIDE DEF p
<1>3. \A sg \in Elements(p.signals) : sg.initial \in sg.states
  BY <1>1, <1>2 DEF DeclaresStates, PieceMembers
<1>4. ASSUME NEW e \in Elements(p.transitions)
      PROVE  \E sg \in Elements(p.signals) : /\ sg.id = e.signal
                                             /\ e.from \in sg.states \cup {Any}
                                             /\ e.to \in sg.states
  <2>1. PICK tr \in Elements(c.transitions) : e = ExpandTransition(tr, c, bound, conns)
    BY <1>1 DEF PieceMembers
  <2>2. PICK sg \in Elements(c.signals) : /\ sg.id = tr.signal
                                          /\ tr.from \in sg.states \cup {Any}
                                          /\ tr.to \in sg.states
    BY DEF DeclaresStates
  <2>3. /\ e.signal = Renamed(tr.signal, c, bound, conns)
        /\ e.from = Subst(tr.from, bound)
        /\ e.to = Subst(tr.to, bound)
    BY <2>1 DEF ExpandTransition
  <2>4. Subst(Any, bound) = Any
    BY AnyAssumption DEF Subst
  <2>5. ExpandSignal(sg, c, bound, conns) \in Elements(p.signals)
    BY <1>1 DEF PieceMembers
  <2> QED
    BY <1>2, <2>2, <2>3, <2>4, <2>5
<1> QED
  BY <1>3, <1>4 DEF DeclaresStates, p

\* and what is a topology by itself still is one.
LEMMA PieceIsSound ==
  ASSUME NEW c, IsComponent(c), Closed(c), NEW bound, NEW conns
  PROVE  Sound(Piece(c, bound, conns))
<1> DEFINE p == Piece(c, bound, conns)
           own == [signals |-> c.signals, transitions |-> c.transitions,
                   reactions |-> c.reactions]
<1>0. /\ own.signals = c.signals /\ own.transitions = c.transitions
      /\ own.reactions = c.reactions
  OBVIOUS
<1>1. Sound(own)
  BY <1>0, ValidIsSound DEF Closed, IsComponent
<1>2. PieceMembers(p, c, bound, conns)
  BY PieceOf DEF IsComponent, Lists
<1>3. DeclaresStates(c)
  BY <1>0, <1>1 DEF Sound, DeclaresStates
<1>4. DeclaresStates(p)
  BY <1>3, PieceDeclaresStates DEF IsComponent, Lists
<1> HIDE DEF p, own
<1>5. ASSUME NEW sg
      PROVE  ExpandSignal(sg, c, bound, conns).id = Renamed(sg.id, c, bound, conns)
  BY DEF ExpandSignal
<1>6. ASSUME NEW e \in Elements(p.reactions), NEW s \in {e.fromSignal, e.toSignal}
      PROVE  \E sg \in Elements(p.signals) : sg.id = s
  <2>1. PICK r \in Elements(c.reactions) : e = ExpandReaction(r, c, bound, conns)
    BY <1>2 DEF PieceMembers
  <2>2. /\ e.fromSignal = Renamed(r.fromSignal, c, bound, conns)
        /\ e.toSignal = Renamed(r.toSignal, c, bound, conns)
    BY <2>1, ReactionFields
  <2>3. /\ \E sg \in Elements(c.signals) : sg.id = r.fromSignal
        /\ \E sg \in Elements(c.signals) : sg.id = r.toSignal
    BY <1>0, <1>1 DEF Sound
  <2> QED
    BY <1>2, <1>5, <2>2, <2>3 DEF PieceMembers
<1> QED
  BY <1>4, <1>6 DEF Sound, p

\* A topology with some more definitions.
Joined(t, a, b) ==
  /\ t.signals = a.signals \o b.signals
  /\ t.transitions = a.transitions \o b.transitions
  /\ t.reactions = a.reactions \o b.reactions

LEMMA JoinedElements ==
  ASSUME NEW t, NEW a, NEW b, Joined(t, a, b), Lists(a), Lists(b)
  PROVE  /\ Lists(t)
         /\ Elements(t.signals) = Elements(a.signals) \cup Elements(b.signals)
         /\ Elements(t.transitions) = Elements(a.transitions) \cup Elements(b.transitions)
         /\ Elements(t.reactions) = Elements(a.reactions) \cup Elements(b.reactions)
BY ListConcat DEF Joined, Lists

LEMMA JoinedDeclaresStates ==
  ASSUME NEW t, NEW a, NEW b, Joined(t, a, b), Lists(a), Lists(b),
         DeclaresStates(a), DeclaresStates(b)
  PROVE  DeclaresStates(t)
<1>1. /\ Elements(t.signals) = Elements(a.signals) \cup Elements(b.signals)
      /\ Elements(t.transitions) = Elements(a.transitions) \cup Elements(b.transitions)
  BY JoinedElements
<1>2. \A sg \in Elements(t.signals) : sg.initial \in sg.states
  BY <1>1 DEF DeclaresStates
<1>3. \A tr \in Elements(t.transitions) :
        \E sg \in Elements(t.signals) : /\ sg.id = tr.signal
                                        /\ tr.from \in sg.states \cup {Any}
                                        /\ tr.to \in sg.states
  BY <1>1 DEF DeclaresStates
<1> QED
  BY <1>2, <1>3 DEF DeclaresStates

LEMMA JoinedIsSound ==
  ASSUME NEW t, NEW a, NEW b, Joined(t, a, b), Lists(a), Lists(b), Sound(a), Sound(b)
  PROVE  Sound(t)
<1>1. /\ Elements(t.signals) = Elements(a.signals) \cup Elements(b.signals)
      /\ Elements(t.reactions) = Elements(a.reactions) \cup Elements(b.reactions)
  BY JoinedElements
<1>2. DeclaresStates(t)
  BY JoinedDeclaresStates DEF Sound
<1>3. \A r \in Elements(t.reactions) : \A s \in {r.fromSignal, r.toSignal} :
        \E sg \in Elements(t.signals) : sg.id = s
  BY <1>1 DEF Sound
<1> QED
  BY <1>2, <1>3 DEF Sound

-----------------------------------------------------------------------------
(* Placeholders                                                            *)

HookTexts(tr) == Elements(tr.on_exit \o tr.on_transition \o tr.on_enter)

InSignal(x, sg) == x \in {sg.id, sg.initial} \cup sg.states
InTransition(x, tr) ==
  x \in {tr.signal, tr.event, tr.from, tr.to} \cup ({tr.guard} \ {NoGuard}) \cup HookTexts(tr)
InReaction(x, r) == x \in {r.fromSignal, r.fromState, r.toSignal, r.event}

\* A text is somewhere.
LEMMA TextSomewhere ==
  ASSUME NEW t, NEW x
  PROVE  x \in Texts(t) <=> \/ \E sg \in Elements(t.signals) : InSignal(x, sg)
                            \/ \E tr \in Elements(t.transitions) : InTransition(x, tr)
                            \/ \E r \in Elements(t.reactions) : InReaction(x, r)
<1> DEFINE A == {{sg.id, sg.initial} \cup sg.states : sg \in Elements(t.signals)}
           B == {{tr.signal, tr.event, tr.from, tr.to} \cup ({tr.guard} \ {NoGuard})
                   \cup HookTexts(tr) : tr \in Elements(t.transitions)}
           C == {{r.fromSignal, r.fromState, r.toSignal, r.event} : r \in Elements(t.reactions)}
<1>1. x \in Texts(t) <=> x \in UNION (A \cup B \cup C)
  BY DEF Texts, HookTexts
<1>2. x \in UNION A <=> \E sg \in Elements(t.signals) : InSignal(x, sg)
  BY DEF InSignal
<1>3. x \in UNION B <=> \E tr \in Elements(t.transitions) : InTransition(x, tr)
  BY DEF InTransition
<1>4. x \in UNION C <=> \E r \in Elements(t.reactions) : InReaction(x, r)
  BY DEF InReaction
<1> HIDE DEF A, B, C
<1>5. x \in UNION (A \cup B \cup C) <=> x \in UNION A \/ x \in UNION B \/ x \in UNION C
  OBVIOUS
<1> QED
  BY <1>1, <1>2, <1>3, <1>4, <1>5

LEMMA JoinedTexts ==
  ASSUME NEW t, NEW a, NEW b, Joined(t, a, b), Lists(a), Lists(b), NEW x \in Texts(t)
  PROVE  x \in Texts(a) \/ x \in Texts(b)
<1>1. /\ Elements(t.signals) = Elements(a.signals) \cup Elements(b.signals)
      /\ Elements(t.transitions) = Elements(a.transitions) \cup Elements(b.transitions)
      /\ Elements(t.reactions) = Elements(a.reactions) \cup Elements(b.reactions)
  BY JoinedElements
<1> QED
  BY <1>1, TextSomewhere

LEMMA SubstList ==
  ASSUME NEW q, IsList(q), NEW bound
  PROVE  /\ IsList(SubstAll(q, bound))
         /\ \A x \in Elements(SubstAll(q, bound)) : \E y \in Elements(q) : x = Subst(y, bound)
<1> DEFINE f == SubstAll(q, bound)
<1>1. DOMAIN f = DOMAIN q /\ \A i \in DOMAIN q : f[i] = Subst(q[i], bound)
  BY DEF SubstAll
<1>2. f = [i \in DOMAIN q |-> f[i]]
  BY DEF SubstAll
<1> HIDE DEF f
<1>3. IsList(f)
  BY <1>2, ListImage
<1>4. \A x \in Elements(f) : \E y \in Elements(q) : x = Subst(y, bound)
  BY <1>1 DEF Elements
<1> QED
  BY <1>3, <1>4 DEF f

LEMMA ThreeLists ==
  ASSUME NEW p, NEW q, NEW r, IsList(p), IsList(q), IsList(r)
  PROVE  Elements(p \o q \o r) = Elements(p) \cup Elements(q) \cup Elements(r)
<1>1. IsList(p \o q) /\ Elements(p \o q) = Elements(p) \cup Elements(q)
  BY ListConcat
<1>2. Elements((p \o q) \o r) = Elements(p \o q) \cup Elements(r)
  BY <1>1, ListConcat
<1> QED
  BY <1>1, <1>2

\* What an instance adds is made of the component's texts.
LEMMA PieceTexts ==
  ASSUME NEW c, IsComponent(c), NEW bound, NEW conns, NEW x \in Texts(Piece(c, bound, conns))
  PROVE  \E y \in Texts(c) : x \in {Subst(y, bound), Renamed(y, c, bound, conns)}
<1> DEFINE p == Piece(c, bound, conns)
<1>1. PieceMembers(p, c, bound, conns)
  BY PieceOf DEF IsComponent, Lists
<1>2. \/ \E e \in Elements(p.signals) : InSignal(x, e)
      \/ \E e \in Elements(p.transitions) : InTransition(x, e)
      \/ \E e \in Elements(p.reactions) : InReaction(x, e)
  BY TextSomewhere
<1> HIDE DEF p
<1>3. CASE \E e \in Elements(p.signals) : InSignal(x, e)
  <2>1. PICK sg \in Elements(c.signals) : InSignal(x, ExpandSignal(sg, c, bound, conns))
    BY <1>1, <1>3 DEF PieceMembers
  <2>2. \E y : InSignal(y, sg) /\ x \in {Subst(y, bound), Renamed(y, c, bound, conns)}
    BY <2>1 DEF InSignal, ExpandSignal
  <2> QED
    BY <2>2, TextSomewhere
<1>4. CASE \E e \in Elements(p.transitions) : InTransition(x, e)
  <2>1. PICK tr \in Elements(c.transitions) :
          InTransition(x, ExpandTransition(tr, c, bound, conns))
    BY <1>1, <1>4 DEF PieceMembers
  <2> DEFINE e == ExpandTransition(tr, c, bound, conns)
  <2>2. IsList(tr.on_exit) /\ IsList(tr.on_transition) /\ IsList(tr.on_enter)
    BY DEF IsComponent
  <2>3. /\ e.signal = Renamed(tr.signal, c, bound, conns)
        /\ e.event = Subst(tr.event, bound)
        /\ e.from = Subst(tr.from, bound)
        /\ e.to = Subst(tr.to, bound)
        /\ e.guard = IF tr.guard = NoGuard THEN NoGuard ELSE Subst(tr.guard, bound)
        /\ e.on_exit = SubstAll(tr.on_exit, bound)
        /\ e.on_transition = SubstAll(tr.on_transition, bound)
        /\ e.on_enter = SubstAll(tr.on_enter, bound)
    BY DEF ExpandTransition
  <2> HIDE DEF e
  <2>4. HookTexts(e) = Elements(e.on_exit) \cup Elements(e.on_transition) \cup Elements(e.on_enter)
    BY <2>2, <2>3, SubstList, ThreeLists DEF HookTexts
  <2>5. HookTexts(tr) = Elements(tr.on_exit) \cup Elements(tr.on_transition) \cup Elements(tr.on_enter)
    BY <2>2, ThreeLists DEF HookTexts
  <2>6. CASE x \in HookTexts(e)
    <3>1. \E y \in HookTexts(tr) : x = Subst(y, bound)
      BY <2>2, <2>3, <2>4, <2>5, <2>6, SubstList
    <3>2. \E y : InTransition(y, tr) /\ x = Subst(y, bound)
      BY <3>1 DEF InTransition
    <3> QED
      BY <3>2, TextSomewhere
  <2>7. CASE x \notin HookTexts(e)
    <3>1. \E y : InTransition(y, tr) /\ x \in {Subst(y, bound), Renamed(y, c, bound, conns)}
      BY <2>1, <2>3, <2>7 DEF InTransition, e
    <3> QED
      BY <3>1, TextSomewhere
  <2> QED
    BY <2>6, <2>7
<1>5. CASE \E e \in Elements(p.reactions) : InReaction(x, e)
  <2>1. PICK r \in Elements(c.reactions) : InReaction(x, ExpandReaction(r, c, bound, conns))
    BY <1>1, <1>5 DEF PieceMembers
  <2>2. \E y : InReaction(y, r) /\ x \in {Subst(y, bound), Renamed(y, c, bound, conns)}
    BY <2>1, ReactionFields DEF InReaction
  <2> QED
    BY <2>2, TextSomewhere
<1> QED
  BY <1>2, <1>3, <1>4, <1>5

\* A placeholder in it that is none of the component's parameters was there
\* before: expand refuses it.  Any other comes from a binding or from a wire.
LEMMA PlaceholdersComeFromOutside ==
  ASSUME NEW c, IsComponent(c), NEW bound, NEW conns, IsList(conns),
         DOMAIN bound = c.params, ~InvalidRef(c, bound),
         NEW x \in Texts(Piece(c, bound, conns)), x[1] = "ref"
  PROVE  \/ \E p \in c.params : x = bound[p]
         \/ \E k \in DOMAIN conns : x = conns[k].target
<1>1. PICK y \in Texts(c) : x \in {Subst(y, bound), Renamed(y, c, bound, conns)}
  BY PieceTexts
<1>2. CASE x = Subst(y, bound)
  <2>1. CASE y[1] = "ref" /\ y[2] \in DOMAIN bound
    BY <1>2, <2>1 DEF Subst
  <2>2. CASE ~(y[1] = "ref" /\ y[2] \in DOMAIN bound)
    <3>1. x = y /\ Subst(y, bound) = y /\ y[2] \notin c.params
      BY <1>2, <2>2 DEF Subst
    <3> QED
      BY <3>1 DEF InvalidRef
  <2> QED
    BY <2>1, <2>2
<1>3. CASE x # Subst(y, bound)
  <2> DEFINE wires == {k \in DOMAIN conns : WiredSignal(c, bound, conns[k]) = Subst(y, bound)}
  <2>1. x = Renamed(y, c, bound, conns)
    BY <1>1, <1>3
  <2>2. wires # {} /\ x = Subst(conns[First(wires)].target, bound)
    BY <1>3, <2>1 DEF Renamed
  <2>3. First(wires) \in DOMAIN conns
    <3>1. wires \subseteq DOMAIN conns /\ DOMAIN conns \subseteq Nat
      BY ListFacts
    <3> HIDE DEF wires
    <3> QED
      BY <2>2, <3>1, FirstExists
  <2> HIDE DEF wires
  <2> QED
    BY <2>2, <2>3 DEF Subst
<1> QED
  BY <1>2, <1>3

\* The strings of a reaction that are copied.
InCopied(x, r) == x \in ({r.guard, r.group, r.onFail} \ {NoGuard, NoGroup, NoHook}) \cup r.requires

LEMMA CopiedSomewhere ==
  ASSUME NEW t, NEW x
  PROVE  x \in Copied(t) <=> \E r \in Elements(t.reactions) : InCopied(x, r)
BY DEF Copied, InCopied

LEMMA JoinedCopied ==
  ASSUME NEW t, NEW a, NEW b, Joined(t, a, b), Lists(a), Lists(b), NEW x \in Copied(t)
  PROVE  x \in Copied(a) \/ x \in Copied(b)
<1>1. Elements(t.reactions) = Elements(a.reactions) \cup Elements(b.reactions)
  BY JoinedElements
<1> QED
  BY <1>1, CopiedSomewhere

\* What an instance adds has them from its component.
LEMMA PieceCopied ==
  ASSUME NEW c, IsComponent(c), NEW bound, NEW conns, NEW x \in Copied(Piece(c, bound, conns))
  PROVE  x \in Copied(c)
<1> DEFINE p == Piece(c, bound, conns)
<1>1. PieceMembers(p, c, bound, conns)
  BY PieceOf DEF IsComponent, Lists
<1>2. PICK e \in Elements(p.reactions) : InCopied(x, e)
  BY CopiedSomewhere
<1> HIDE DEF p
<1>3. PICK r \in Elements(c.reactions) : InCopied(x, ExpandReaction(r, c, bound, conns))
  BY <1>1, <1>2 DEF PieceMembers
<1>4. InCopied(x, r)
  BY <1>3, ReactionFields DEF InCopied
<1> QED
  BY <1>4, CopiedSomewhere

-----------------------------------------------------------------------------
(* The shape of the state                                                  *)

\* A topology being put together.
IsMerged(t) ==
  /\ t = [signals |-> t.signals, transitions |-> t.transitions,
          reactions |-> t.reactions, components |-> t.components]
  /\ Lists(t)
  /\ \A n \in DOMAIN t.components : IsComponent(t.components[n])

\* An open file of those in s, on the disk d.
IsFrame(fr, d, s) ==
  /\ fr = [file |-> fr.file, merged |-> fr.merged, next |-> fr.next]
  /\ fr.file \in s
  /\ fr.next \in 1..(Len(d[fr.file].includes) + 1)
  /\ IsMerged(fr.merged)

\* Each open file is the include of the one below that is being followed.
Chained(st, d) ==
  \A i \in 1..(Len(st) - 1) : /\ st[i].next \in DOMAIN d[st[i].file].includes
                              /\ st[i + 1].file = d[st[i].file].includes[st[i].next]

ComposeShape ==
  /\ disk \in Disks /\ seen \subseteq Files
  /\ \A f \in seen : disk[f] # Unreadable
  /\ IsList(stack)
  /\ \A i \in DOMAIN stack : IsFrame(stack[i], disk, seen)
  /\ stack # <<>> => stack[1].file = Root
  /\ Chained(stack, disk)
  /\ IsMerged(loaded) /\ IsMerged(flat)
  /\ at \in Nat \ {0}
  /\ at = 1 => flat = loaded
  /\ outcome = "loading" => at = 1
  /\ outcome = "expanding" => stack = <<>> /\ at <= Len(Instances) + 1
  /\ WasLoaded => Root \in seen
  /\ outcome \in {"loading", "expanding", "ok", "ValidationError"} \cup LoadErrors \cup ExpandErrors

LEMMA ReadFile ==
  ASSUME ComposeShape, NEW f \in Files, disk[f] # Unreadable
  PROVE  IsSchema(disk[f])
BY DisksAssumption DEF ComposeShape

LEMMA EmptyIsMerged == IsMerged(Empty)
<1>1. DOMAIN <<>> = {}
  BY EmptyList, ListFacts
<1> QED
  BY <1>1, EmptyList DEF IsMerged, Lists, Empty

LEMMA OwnIsMerged ==
  ASSUME NEW f, IsSchema(disk[f])
  PROVE  IsMerged(Own(f))
BY DEF IsMerged, Lists, Own, IsSchema

LEMMA MergedIsJoined ==
  ASSUME NEW a, IsMerged(a), NEW b, IsMerged(b)
  PROVE  IsMerged(Merged(a, b)) /\ Joined(Merged(a, b), a, b)
<1> DEFINE t == Merged(a, b)
<1>1. Joined(t, a, b)
  BY DEF Joined, Merged
<1>2. Lists(t)
  BY <1>1, JoinedElements DEF IsMerged
<1>3. \A n \in DOMAIN t.components : IsComponent(t.components[n])
  <2>1. t.components = [n \in DOMAIN a.components \cup DOMAIN b.components |->
                          IF n \in DOMAIN b.components
                          THEN b.components[n] ELSE a.components[n]]
    BY DEF Merged
  <2> QED
    BY <2>1 DEF IsMerged
<1>4. t = [signals |-> t.signals, transitions |-> t.transitions,
           reactions |-> t.reactions, components |-> t.components]
  BY DEF Merged
<1> QED
  BY <1>1, <1>2, <1>3, <1>4 DEF IsMerged

\* The file on top of the stack and what is wanted of it.
LEMMA TopFacts ==
  ASSUME ComposeShape, stack # <<>>
  PROVE  /\ Len(stack) \in Nat \ {0} /\ Len(stack) \in DOMAIN stack
         /\ IsFrame(Top, disk, seen) /\ IsSchema(disk[Top.file])
         /\ \A f \in Wanted : /\ f \in Files
                              /\ Top.next \in DOMAIN disk[Top.file].includes
                              /\ f = disk[Top.file].includes[Top.next]
         /\ Wanted = {} => Top.next = Len(disk[Top.file].includes) + 1
<1>1. Len(stack) \in Nat \ {0} /\ Len(stack) \in DOMAIN stack
  BY ListFacts DEF ComposeShape
<1>2. IsFrame(Top, disk, seen)
  BY <1>1 DEF ComposeShape, Top
<1>3. IsSchema(disk[Top.file])
  BY <1>2, ReadFile DEF IsFrame, ComposeShape
<1> DEFINE q == disk[Top.file].includes
<1>4. Len(q) \in Nat /\ DOMAIN q = 1..Len(q) /\ \A i \in DOMAIN q : q[i] \in Files
  BY <1>3, ListFacts DEF IsSchema
<1>5. Top.next \in 1..(Len(q) + 1)
  BY <1>2 DEF IsFrame
<1>6. Wanted = {q[i] : i \in {Top.next} \cap DOMAIN q}
  BY DEF Wanted
<1> HIDE DEF q
<1>7. ASSUME NEW f \in Wanted
      PROVE  f \in Files /\ Top.next \in DOMAIN q /\ f = q[Top.next]
  BY <1>4, <1>6
<1>8. ASSUME Wanted = {} PROVE Top.next = Len(q) + 1
  <2>1. Top.next \notin DOMAIN q
    BY <1>6, <1>8
  <2> QED
    BY <1>4, <1>5, <2>1
<1> QED
  BY <1>1, <1>2, <1>3, <1>7, <1>8 DEF q

LEMMA WantedIsFile ==
  ASSUME ComposeShape, NEW f \in Wanted
  PROVE  f \in Files
<1>1. CASE stack = <<>>
  BY <1>1, DisksAssumption DEF Wanted
<1>2. CASE stack # <<>>
  BY <1>2, TopFacts
<1> QED
  BY <1>1, <1>2

\* The errors of expand.
LEMMA FaultKinds ==
  ASSUME NEW components, NEW instance
  PROVE  InstanceFault(components, instance) \in ExpandErrors \cup {"none"}
<1>1. ASSUME NEW c, NEW bound, NEW conns, NEW k
      PROVE  ConnectionFault(c, bound, conns, k) \in ExpandErrors \cup {"none"}
  BY DEF ConnectionFault, ExpandErrors
<1> QED
  BY <1>1 DEF InstanceFault, ExpandErrors

\* What an instance without fault is.
LEMMA FaultlessInstance ==
  ASSUME NEW components, NEW instance, IsList(instance.connections),
         InstanceFault(components, instance) = "none"
  PROVE  LET c == components[instance.component]
         IN  /\ instance.component \in DOMAIN components
             /\ c.params \subseteq DOMAIN instance.bindings
             /\ ~InvalidRef(c, Bound(c, instance))
<1> DEFINE c == components[instance.component]
           bound == Bound(c, instance)
           conns == instance.connections
           faulty == {k \in DOMAIN conns : ConnectionFault(c, bound, conns, k) # "none"}
<1>1. instance.component \in DOMAIN components
  BY DEF InstanceFault
<1>2. "none" = CASE ~(c.params \subseteq DOMAIN instance.bindings) -> "MissingBinding"
                 [] faulty # {} -> ConnectionFault(c, bound, conns, First(faulty))
                 [] InvalidRef(c, bound) -> "InvalidParamRef"
                 [] OTHER -> "none"
  BY <1>1 DEF InstanceFault
<1>3. faulty # {} => ConnectionFault(c, bound, conns, First(faulty)) # "none"
  <2>1. faulty \subseteq DOMAIN conns /\ DOMAIN conns \subseteq Nat
    BY ListFacts
  <2>2. \A k \in faulty : ConnectionFault(c, bound, conns, k) # "none"
    OBVIOUS
  <2> HIDE DEF faulty
  <2> QED
    BY <2>1, <2>2, FirstExists
<1> HIDE DEF c, bound, conns, faulty
<1>4. c.params \subseteq DOMAIN instance.bindings /\ ~InvalidRef(c, bound)
  BY <1>2, <1>3
<1> QED
  BY <1>1, <1>4 DEF c, bound

\* What ExpandInstance does to the topology.
LEMMA InstanceJoins ==
  ASSUME ComposeShape, ExpandInstance
  PROVE  LET instance == Instances[at]
             c == flat.components[instance.component]
             bound == Bound(c, instance)
         IN  /\ Joined(flat', flat, Piece(c, bound, instance.connections))
             /\ flat' = [signals |-> flat'.signals, transitions |-> flat'.transitions,
                         reactions |-> flat'.reactions, components |-> flat.components]
             /\ IsComponent(c)
             /\ IsList(instance.connections)
             /\ instance.component \in DOMAIN flat.components
             /\ c.params \subseteq DOMAIN instance.bindings
             /\ ~InvalidRef(c, bound)
             /\ Instances' = Instances
<1> DEFINE instance == Instances[at]
           c == flat.components[instance.component]
           bound == Bound(c, instance)
           conns == instance.connections
           p == Piece(c, bound, conns)
<1>1. IsSchema(disk[Root]) /\ Root \in Files
  BY DisksAssumption, ReadFile DEF ExpandInstance, ComposeShape, WasLoaded, LoadErrors
<1>2. IsList(conns)
  BY <1>1, Zenon DEF IsSchema, ExpandInstance, Instances
<1>3. /\ instance.component \in DOMAIN flat.components
      /\ c.params \subseteq DOMAIN instance.bindings
      /\ ~InvalidRef(c, bound)
  <2>1. InstanceFault(flat.components, instance) = "none"
    BY DEF ExpandInstance
  <2> QED
    BY <1>2, <2>1, FaultlessInstance
<1>4. IsComponent(c)
  BY <1>3 DEF ComposeShape, IsMerged
<1>5. flat' = [flat EXCEPT !.signals = @ \o p.signals,
                           !.transitions = @ \o p.transitions,
                           !.reactions = @ \o p.reactions]
  BY DEF ExpandInstance, Piece
<1>6. Instances' = Instances
  BY Zenon DEF Instances, ExpandInstance
<1> HIDE DEF p
<1>7. flat = [signals |-> flat.signals, transitions |-> flat.transitions,
              reactions |-> flat.reactions, components |-> flat.components]
  BY DEF ComposeShape, IsMerged
<1>8. flat' = [signals |-> flat.signals \o p.signals,
               transitions |-> flat.transitions \o p.transitions,
               reactions |-> flat.reactions \o p.reactions,
               components |-> flat.components]
  BY <1>5, <1>7
<1>9. Joined(flat', flat, p)
  BY <1>8 DEF Joined
<1>10. flat' = [signals |-> flat'.signals, transitions |-> flat'.transitions,
                reactions |-> flat'.reactions, components |-> flat.components]
  BY <1>8
<1> QED
  BY <1>2, <1>3, <1>4, <1>6, <1>9, <1>10 DEF p

LEMMA ShapeAtFirst ==
  ASSUME Init
  PROVE  ComposeShape
<1>1. Len(<<>>) = 0 /\ DOMAIN <<>> = {}
  BY EmptyList, ListFacts
<1> QED
  BY <1>1, EmptyList, EmptyIsMerged, DisksAssumption
  DEF Init, ComposeShape, WasLoaded, Chained

LEMMA OpenKeepsShape ==
  ASSUME ComposeShape, NEW f \in Files, Open(f)
  PROVE  ComposeShape'
<1> DEFINE fr == [file |-> f, merged |-> Own(f), next |-> 1]
<1>1. /\ outcome = "loading" /\ f \in Wanted /\ disk[f] # Unreadable
      /\ seen' = seen \cup {f} /\ stack' = Append(stack, fr)
      /\ UNCHANGED <<disk, loaded, flat, at, outcome>>
  BY DEF Open, Insert
<1>2. IsSchema(disk[f])
  BY <1>1, ReadFile
<1>3. IsFrame(fr, disk, seen')
  <2>1. IsMerged(Own(f))
    BY <1>2, OwnIsMerged
  <2>2. Len(disk[f].includes) \in Nat
    BY <1>2, ListFacts DEF IsSchema
  <2> QED
    BY <1>1, <2>1, <2>2 DEF IsFrame
<1> HIDE DEF fr
<1>4. /\ IsList(stack') /\ Len(stack) \in Nat /\ DOMAIN stack = 1..Len(stack)
      /\ DOMAIN stack' = 1..(Len(stack) + 1)
      /\ \A i \in 1..Len(stack) : stack'[i] = stack[i]
      /\ stack'[Len(stack) + 1] = fr
  BY <1>1, ListAppend DEF ComposeShape
<1>5. \A i \in DOMAIN stack' : IsFrame(stack'[i], disk', seen')
  <2> SUFFICES ASSUME NEW i \in DOMAIN stack' PROVE IsFrame(stack'[i], disk', seen')
    OBVIOUS
  <2>1. CASE i \in 1..Len(stack)
    <3>1. IsFrame(stack[i], disk, seen)
      BY <1>4, <2>1 DEF ComposeShape
    <3> QED
      BY <1>1, <1>4, <2>1, <3>1 DEF IsFrame
  <2>2. CASE i \notin 1..Len(stack)
    <3>1. i = Len(stack) + 1
      BY <1>4, <2>2
    <3> QED
      BY <1>1, <1>3, <1>4, <3>1
  <2> QED
    BY <2>1, <2>2
<1>6. stack'[1].file = Root
  <2>1. CASE stack = <<>>
    <3>1. Len(stack) = 0 /\ f = Root
      BY <1>1, <2>1, ListFacts DEF ComposeShape, Wanted
    <3> QED
      BY <1>4, <3>1 DEF fr
  <2>2. CASE stack # <<>>
    <3>1. 1 \in 1..Len(stack)
      BY <1>4, <2>2, ListFacts DEF ComposeShape
    <3> QED
      BY <1>4, <2>2, <3>1 DEF ComposeShape
  <2> QED
    BY <2>1, <2>2
<1>7. Chained(stack', disk')
  <2> SUFFICES ASSUME NEW i \in 1..Len(stack)
               PROVE  /\ stack'[i].next \in DOMAIN disk[stack'[i].file].includes
                      /\ stack'[i + 1].file = disk[stack'[i].file].includes[stack'[i].next]
    BY <1>1, <1>4, ListFacts DEF Chained
  <2>1. CASE i = Len(stack)
    <3>1. stack # <<>> /\ stack'[i] = Top /\ stack'[i + 1] = fr
      BY <1>4, <2>1, EmptyList, ListFacts DEF Top
    <3> QED
      BY <1>1, <3>1, TopFacts DEF fr
  <2>2. CASE i # Len(stack)
    <3>1. Len(stack) \in Nat
      BY <1>4
    <3>2. i \in 1..(Len(stack) - 1) /\ i + 1 \in 1..Len(stack)
      BY <2>2, <3>1
    <3> QED
      BY <1>1, <1>4, <3>2 DEF ComposeShape, Chained
  <2> QED
    BY <2>1, <2>2
<1> QED
  BY <1>1, <1>4, <1>5, <1>6, <1>7 DEF ComposeShape, WasLoaded, LoadErrors

LEMMA RefuseKeepsShape ==
  ASSUME ComposeShape, NEW f \in Files, Refuse(f)
  PROVE  ComposeShape'
BY DEF Refuse, ComposeShape, WasLoaded, LoadErrors

LEMMA FrameExcept ==
  ASSUME NEW fr, fr = [file |-> fr.file, merged |-> fr.merged, next |-> fr.next],
         fr.next \in Nat, NEW other
  PROVE  [fr EXCEPT !.merged = other, !.next = @ + 1]
           = [file |-> fr.file, merged |-> other, next |-> fr.next + 1]
<1> DEFINE a == [fr EXCEPT !.merged = other]
           b == [a EXCEPT !.next = fr.next + 1]
<1>1. a = [file |-> fr.file, merged |-> other, next |-> fr.next]
  OBVIOUS
<1> HIDE DEF a
<1>2. b = [file |-> fr.file, merged |-> other, next |-> fr.next + 1]
  BY <1>1
<1>3. [fr EXCEPT !.merged = other, !.next = @ + 1] = b
  BY DEF a
<1> QED
  BY <1>2, <1>3

\* Merging the two files on top.
LEMMA MergeFacts ==
  ASSUME ComposeShape, Merge, stack' # stack
  PROVE  \E n \in Nat \ {0} :
           /\ Len(stack) = n + 1 /\ DOMAIN stack = 1..(n + 1)
           /\ IsList(stack') /\ Len(stack') = n /\ DOMAIN stack' = 1..n
           /\ \A i \in 1..(n - 1) : stack'[i] = stack[i]
           /\ stack'[n] = [file   |-> stack[n].file,
                           merged |-> Merged(stack[n].merged, stack[n + 1].merged),
                           next   |-> stack[n].next + 1]
           /\ Ids(stack[n].merged.signals) \cap Ids(stack[n + 1].merged.signals) = {}
           /\ Top = stack[n + 1]
           /\ UNCHANGED <<disk, seen, loaded, flat, at, outcome>>
<1>1. Len(stack) > 1 /\ IsList(stack)
  BY DEF Merge, ComposeShape
<1>2. stack # <<>> /\ Len(stack) \in Nat
  BY <1>1, EmptyList, ListFacts
<1>3. PICK n \in Nat \ {0} : n = Len(stack) - 1
  <2> DEFINE k == Len(stack)
  <2>1. k \in Nat /\ k > 1
    BY <1>1, <1>2
  <2> HIDE DEF k
  <2>2. k - 1 \in Nat \ {0}
    BY <2>1
  <2> QED
    BY <2>2 DEF k
<1>4. /\ IsList(Below) /\ Len(Below) = n /\ DOMAIN Below = 1..n
      /\ Len(stack) = n + 1 /\ DOMAIN stack = 1..(n + 1)
      /\ \A i \in 1..n : Below[i] = stack[i]
  BY <1>1, <1>2, <1>3, ListFront DEF Below
<1> DEFINE acc == stack[n]
           fr == [acc EXCEPT !.merged = Merged(acc.merged, Top.merged), !.next = @ + 1]
<1>5. /\ Ids(acc.merged.signals) \cap Ids(Top.merged.signals) = {}
      /\ stack' = [Below EXCEPT ![n] = fr]
      /\ UNCHANGED <<disk, seen, loaded, flat, at, outcome>>
  BY <1>3, <1>4 DEF Merge
<1>6. Top = stack[n + 1]
  BY <1>4 DEF Top
<1>7. IsFrame(acc, disk, seen)
  BY <1>4 DEF ComposeShape
<1>8. fr = [file |-> acc.file, merged |-> Merged(acc.merged, Top.merged), next |-> acc.next + 1]
  <2>1. acc = [file |-> acc.file, merged |-> acc.merged, next |-> acc.next]
    BY <1>7 DEF IsFrame
  <2>2. acc.next \in Nat
    <3>1. IsSchema(disk[acc.file])
      BY <1>7, ReadFile DEF IsFrame, ComposeShape
    <3>2. Len(disk[acc.file].includes) \in Nat
      BY <3>1, ListFacts DEF IsSchema
    <3> QED
      BY <1>7, <3>2 DEF IsFrame
  <2> DEFINE m == Merged(acc.merged, Top.merged)
  <2> HIDE DEF m, acc
  <2>3. [acc EXCEPT !.merged = m, !.next = @ + 1]
          = [file |-> acc.file, merged |-> m, next |-> acc.next + 1]
    BY <2>1, <2>2, FrameExcept
  <2> QED
    BY <2>3 DEF m
<1> HIDE DEF fr
<1>9. n \in DOMAIN Below
  BY <1>4
<1>10. /\ IsList(stack') /\ DOMAIN stack' = 1..n /\ Len(stack') = n
       /\ \A i \in DOMAIN Below : i # n => stack'[i] = Below[i]
       /\ stack'[n] = fr
  BY <1>4, <1>5, <1>9, ListReplace
<1>11. \A i \in 1..(n - 1) : stack'[i] = stack[i]
  BY <1>4, <1>10
<1> QED
  BY <1>4, <1>5, <1>6, <1>8, <1>10, <1>11

\* Finding that they cannot be merged.
LEMMA MergeStops ==
  ASSUME ComposeShape, Merge, stack' = stack
  PROVE  \E n \in Nat \ {0} :
           /\ Len(stack) = n + 1 /\ DOMAIN stack = 1..(n + 1)
           /\ outcome' = "DuplicateSignalAfterExpand" /\ stack # <<>>
           /\ Ids(stack[n].merged.signals) \cap Ids(stack[n + 1].merged.signals) # {}
           /\ UNCHANGED <<disk, seen, stack, loaded, flat, at>>
<1>1. Len(stack) > 1 /\ IsList(stack)
  BY DEF Merge, ComposeShape
<1>2. stack # <<>> /\ Len(stack) \in Nat /\ DOMAIN stack = 1..Len(stack)
  BY <1>1, EmptyList, ListFacts
<1>3. PICK n \in Nat \ {0} : n = Len(stack) - 1
  <2> DEFINE k == Len(stack)
  <2>1. k \in Nat /\ k > 1
    BY <1>1, <1>2
  <2> HIDE DEF k
  <2>2. k - 1 \in Nat \ {0}
    BY <2>1
  <2> QED
    BY <2>2 DEF k
<1>4. Len(Below) = n /\ IsList(Below) /\ DOMAIN Below = 1..n
  BY <1>1, <1>2, <1>3, ListFront DEF Below
<1>5. ASSUME NEW fr PROVE stack # [Below EXCEPT ![Len(Below)] = fr]
  <2>1. Len([Below EXCEPT ![Len(Below)] = fr]) = n
    BY <1>4, ListReplace
  <2> QED
    BY <1>3, <2>1
<1>6. Top = stack[n + 1] /\ Len(stack) = n + 1 /\ Len(stack) - 1 = n
  BY <1>2, <1>3 DEF Top
<1> QED
  BY <1>2, <1>5, <1>6 DEF Merge

LEMMA MergeKeepsShape ==
  ASSUME ComposeShape, Merge
  PROVE  ComposeShape'
<1>1. CASE stack' = stack
  <2>1. stack # <<>>
    BY <1>1, MergeStops
  <2> QED
    BY <1>1, <2>1, MergeStops DEF ComposeShape, WasLoaded, LoadErrors, ExpandErrors, Merge
<1>2. CASE stack' # stack
  <2>1. PICK n \in Nat \ {0} :
           /\ Len(stack) = n + 1 /\ DOMAIN stack = 1..(n + 1)
           /\ IsList(stack') /\ Len(stack') = n /\ DOMAIN stack' = 1..n
           /\ \A i \in 1..(n - 1) : stack'[i] = stack[i]
           /\ stack'[n] = [file   |-> stack[n].file,
                           merged |-> Merged(stack[n].merged, stack[n + 1].merged),
                           next   |-> stack[n].next + 1]
           /\ UNCHANGED <<disk, seen, loaded, flat, at, outcome>>
    BY <1>2, MergeFacts
  <2>2. IsFrame(stack[n], disk, seen) /\ IsFrame(stack[n + 1], disk, seen)
    BY <2>1 DEF ComposeShape
  <2>3. IsMerged(Merged(stack[n].merged, stack[n + 1].merged))
    BY <2>2, MergedIsJoined DEF IsFrame
  <2> DEFINE q == disk[stack[n].file].includes
  <2>4. stack[n].next \in DOMAIN q
    BY <2>1 DEF ComposeShape, Chained
  <2>5. Len(q) \in Nat /\ DOMAIN q = 1..Len(q)
    <3>1. IsSchema(disk[stack[n].file])
      BY <2>2, ReadFile DEF IsFrame, ComposeShape
    <3> QED
      BY <3>1, ListFacts DEF IsSchema
  <2>6. IsFrame(stack'[n], disk, seen)
    <3>1. stack[n].next + 1 \in 1..(Len(q) + 1)
      BY <2>4, <2>5
    <3> QED
      BY <2>1, <2>2, <2>3, <3>1 DEF IsFrame
  <2> HIDE DEF q
  <2>7. \A i \in DOMAIN stack' : IsFrame(stack'[i], disk, seen)
    <3> SUFFICES ASSUME NEW i \in 1..n PROVE IsFrame(stack'[i], disk, seen)
      BY <2>1
    <3>1. i = n \/ i \in 1..(n - 1)
      OBVIOUS
    <3> QED
      BY <2>1, <2>6, <3>1 DEF ComposeShape
  <2>8. stack'[1].file = Root
    <3>1. stack[1].file = Root
      BY <2>1, EmptyList, ListFacts DEF ComposeShape
    <3>2. 1 = n \/ 1 \in 1..(n - 1)
      OBVIOUS
    <3> QED
      BY <2>1, <3>1, <3>2
  <2>9. Chained(stack', disk)
    <3> SUFFICES ASSUME NEW i \in 1..(n - 1)
                 PROVE  /\ stack'[i].next \in DOMAIN disk[stack'[i].file].includes
                        /\ stack'[i + 1].file = disk[stack'[i].file].includes[stack'[i].next]
      BY <2>1 DEF Chained
    <3>1. /\ stack[i].next \in DOMAIN disk[stack[i].file].includes
          /\ stack[i + 1].file = disk[stack[i].file].includes[stack[i].next]
      BY <2>1 DEF ComposeShape, Chained
    <3>2. i + 1 = n \/ i + 1 \in 1..(n - 1)
      OBVIOUS
    <3> QED
      BY <2>1, <3>1, <3>2
  <2>10. outcome = "loading"
    BY DEF Merge
  <2> QED
    BY <2>1, <2>7, <2>8, <2>9, <2>10 DEF ComposeShape, WasLoaded
<1> QED
  BY <1>1, <1>2

LEMMA LoadedKeepsShape ==
  ASSUME ComposeShape, Loaded
  PROVE  ComposeShape'
<1>1. /\ outcome = "loading" /\ Len(stack) = 1 /\ flat' = Top.merged /\ loaded' = Top.merged
      /\ stack' = <<>> /\ outcome' = "expanding" /\ UNCHANGED <<disk, seen, at>>
  BY DEF Loaded
<1>2. stack # <<>>
  BY <1>1, EmptyList, ListFacts
<1>3. IsFrame(Top, disk, seen) /\ Top = stack[1] /\ stack[1].file = Root
  BY <1>1, <1>2, TopFacts DEF ComposeShape, Top
<1>4. Root \in seen /\ IsMerged(Top.merged)
  BY <1>3 DEF IsFrame
<1>5. Len(<<>>) = 0 /\ DOMAIN <<>> = {}
  BY EmptyList, ListFacts
<1>6. at' <= Len(Instances') + 1
  <2>1. IsSchema(disk[Root])
    BY <1>4, ReadFile DEF ComposeShape
  <2>2. Len(Instances) \in Nat /\ Instances' = Instances /\ at = 1
    BY <1>1, <2>1, ListFacts DEF IsSchema, Instances, ComposeShape
  <2> QED
    BY <1>1, <2>2
<1> QED
  BY <1>1, <1>4, <1>5, <1>6, EmptyList DEF ComposeShape, WasLoaded, Chained

LEMMA ExpandKeepsShape ==
  ASSUME ComposeShape, ExpandInstance
  PROVE  ComposeShape'
<1> DEFINE instance == Instances[at]
           c == flat.components[instance.component]
           p == Piece(c, Bound(c, instance), instance.connections)
<1>1. /\ Joined(flat', flat, p)
      /\ flat' = [signals |-> flat'.signals, transitions |-> flat'.transitions,
                  reactions |-> flat'.reactions, components |-> flat.components]
      /\ IsComponent(c)
      /\ Instances' = Instances
  BY InstanceJoins
<1>2. Lists(p)
  BY <1>1, PieceOf DEF IsComponent, Lists
<1> HIDE DEF p
<1>3. IsMerged(flat')
  <2>1. Lists(flat')
    BY <1>1, <1>2, JoinedElements DEF ComposeShape, IsMerged
  <2>2. flat'.components = flat.components
    BY <1>1
  <2> QED
    BY <1>1, <2>1, <2>2 DEF IsMerged, ComposeShape
<1>4. /\ outcome = "expanding" /\ at \in DOMAIN Instances /\ at' = at + 1
      /\ UNCHANGED <<disk, seen, stack, loaded, outcome>>
  BY DEF ExpandInstance
<1>5. Len(Instances) \in Nat /\ DOMAIN Instances = 1..Len(Instances)
  <2>1. IsSchema(disk[Root])
    BY <1>4, DisksAssumption, ReadFile DEF ComposeShape, WasLoaded, LoadErrors
  <2> QED
    BY <2>1, ListFacts DEF IsSchema, Instances
<1>6. at' \in Nat \ {0} /\ at' # 1 /\ at' <= Len(Instances') + 1
  BY <1>1, <1>4, <1>5
<1> QED
  BY <1>3, <1>4, <1>6 DEF ComposeShape, WasLoaded

LEMMA RejectKeepsShape ==
  ASSUME ComposeShape, RejectInstance
  PROVE  ComposeShape'
<1>1. outcome' \in ExpandErrors
  BY FaultKinds DEF RejectInstance
<1>2. outcome' \notin {"loading", "expanding"}
  BY <1>1 DEF ExpandErrors
<1> QED
  BY <1>1, <1>2 DEF RejectInstance, ComposeShape, WasLoaded, LoadErrors

LEMMA BuildKeepsShape ==
  ASSUME ComposeShape, Build
  PROVE  ComposeShape'
<1>1. outcome' \in {"DuplicateSignalAfterExpand", "ok", "ValidationError"}
  BY DEF Build
<1>2. outcome' \notin {"loading", "expanding"} /\ "DuplicateSignalAfterExpand" \in ExpandErrors
  BY <1>1 DEF ExpandErrors
<1> QED
  BY <1>1, <1>2 DEF Build, ComposeShape, WasLoaded, LoadErrors

LEMMA ShapeStays ==
  ASSUME ComposeShape, [Next]_composeVars
  PROVE  ComposeShape'
<1>1. CASE UNCHANGED composeVars
  BY <1>1 DEF composeVars, ComposeShape, WasLoaded, Instances
<1>2. CASE Next
  BY <1>2, OpenKeepsShape, RefuseKeepsShape, MergeKeepsShape, LoadedKeepsShape,
     ExpandKeepsShape, RejectKeepsShape, BuildKeepsShape DEF Next
<1> QED
  BY <1>1, <1>2

-----------------------------------------------------------------------------
(* Expansion                                                               *)

\* Instances of sound components leave a sound topology sound.
StaysSound ==
  Valid(loaded) /\ (\A k \in DOMAIN Instances : Closed(flat.components[Instances[k].component]))
    => Sound(flat)

\* The placeholders in it that were not there before are supplied ones, or stand
\* where a component has them in a field that is copied.
NewOnesAreSupplied ==
  /\ \A x \in Texts(flat) : x \in Texts(loaded) \/ (IsPlaceholder(x) => IsSupplied(x))
  /\ \A x \in Copied(flat) : x \in Copied(loaded) \/ IsCopied(x)

ExpansionInv == ComposeShape /\ StaysSound /\ NewOnesAreSupplied /\ InstancesStayValid

\* Where nothing was expanded.
LEMMA NothingExpanded ==
  ASSUME ComposeShape, flat = loaded
  PROVE  StaysSound /\ NewOnesAreSupplied
BY ValidIsSound DEF StaysSound, NewOnesAreSupplied, ComposeShape, IsMerged, Lists

LEMMA ExpandKeepsExpansion ==
  ASSUME ExpansionInv, ExpandInstance
  PROVE  StaysSound' /\ NewOnesAreSupplied'
<1> USE DEF ExpansionInv
<1> DEFINE instance == Instances[at]
           c == flat.components[instance.component]
           bound == Bound(c, instance)
           conns == instance.connections
           p == Piece(c, bound, conns)
<1>1. /\ Joined(flat', flat, p)
      /\ flat' = [signals |-> flat'.signals, transitions |-> flat'.transitions,
                  reactions |-> flat'.reactions, components |-> flat.components]
      /\ IsComponent(c) /\ IsList(conns)
      /\ c.params \subseteq DOMAIN instance.bindings
      /\ ~InvalidRef(c, bound)
      /\ Instances' = Instances
  BY InstanceJoins
<1>2. at \in DOMAIN Instances /\ loaded' = loaded
  BY DEF ExpandInstance
<1>3. Lists(p) /\ Lists(flat)
  <2>1. Lists(c)
    BY <1>1 DEF IsComponent, Lists
  <2>2. Lists(flat)
    BY DEF ComposeShape, IsMerged
  <2> QED
    BY <2>1, <2>2, PieceOf
<1>4. flat'.components = flat.components
  BY <1>1
<1>5. StaysSound'
  <2> SUFFICES ASSUME Valid(loaded),
                      \A k \in DOMAIN Instances :
                        Closed(flat.components[Instances[k].component])
               PROVE  Sound(flat')
    BY <1>1, <1>2, <1>4 DEF StaysSound
  <2>1. Sound(flat)
    BY DEF StaysSound
  <2>2. Sound(p)
    BY <1>1, <1>2, PieceIsSound
  <2> HIDE DEF p
  <2> QED
    BY <1>1, <1>3, <2>1, <2>2, JoinedIsSound
<1>6. ASSUME NEW x \in Texts(flat'), x \notin Texts(loaded), IsPlaceholder(x)
      PROVE  IsSupplied(x)
  <2>1. CASE x \in Texts(flat)
    BY <1>6, <2>1 DEF NewOnesAreSupplied
  <2>2. CASE x \in Texts(p)
    <3>1. DOMAIN bound = c.params /\ \A q \in c.params : bound[q] = instance.bindings[q]
      BY DEF Bound
    <3>2. \/ \E q \in c.params : x = bound[q]
          \/ \E k \in DOMAIN conns : x = conns[k].target
      <4>1. x[1] = "ref"
        BY <1>6 DEF IsPlaceholder
      <4> HIDE DEF bound, c
      <4> QED
        BY <1>1, <2>2, <3>1, <4>1, PlaceholdersComeFromOutside
    <3> QED
      BY <1>1, <1>2, <3>1, <3>2 DEF IsSupplied
  <2> HIDE DEF p
  <2>3. x \in Texts(flat) \/ x \in Texts(p)
    BY <1>1, <1>3, <1>6, JoinedTexts
  <2> QED
    BY <2>1, <2>2, <2>3
<1>7. ASSUME NEW x \in Copied(flat'), x \notin Copied(loaded)
      PROVE  IsCopied(x)
  <2>1. CASE x \in Copied(flat)
    BY <1>7, <2>1 DEF NewOnesAreSupplied
  <2>2. CASE x \in Copied(p)
    <3>1. x \in Copied(c) /\ instance.component \in DOMAIN flat.components
      BY <1>1, <2>2, PieceCopied, InstanceJoins
    <3> QED
      BY <1>2, <3>1 DEF IsCopied
  <2> HIDE DEF p
  <2>3. x \in Copied(flat) \/ x \in Copied(p)
    BY <1>1, <1>3, <1>7, JoinedCopied
  <2> QED
    BY <2>1, <2>2, <2>3
<1>8. NewOnesAreSupplied'
  BY <1>1, <1>2, <1>4, <1>6, <1>7 DEF NewOnesAreSupplied, IsSupplied, IsCopied
<1> QED
  BY <1>5, <1>8

\* A topology that is refused was not sound to begin with, or a component was
\* not: enforce_unique_signal_ids has seen to the rest.
LEMMA BuildKeepsExpansion ==
  ASSUME ExpansionInv, Build
  PROVE  InstancesStayValid'
<1> USE DEF ExpansionInv
<1> SUFFICES ASSUME outcome' = "ValidationError", Valid(loaded),
                    \A k \in DOMAIN Instances :
                      Closed(flat.components[Instances[k].component])
             PROVE  FALSE
  BY DEF Build, InstancesStayValid, Instances
<1>1. ~IdsCollide /\ ~Valid(flat)
  BY DEF Build
<1>2. Sound(flat) /\ IsList(flat.signals)
  BY DEF StaysSound, ComposeShape, IsMerged, Lists
<1>3. Instances # <<>>
  <2> SUFFICES ASSUME Instances = <<>> PROVE FALSE
    OBVIOUS
  <2>1. Len(Instances) = 0
    BY EmptyList, ListFacts
  <2>2. at <= Len(Instances) + 1 /\ at \in Nat \ {0}
    BY DEF Build, ComposeShape
  <2>3. flat = loaded
    BY <2>1, <2>2 DEF ComposeShape
  <2> QED
    BY <1>1, <2>3
<1>4. Distinct(flat.signals)
  BY <1>1, <1>2, <1>3, CountedOnce DEF IdsCollide
<1> QED
  BY <1>1, <1>2, <1>4, SoundIsValid

LEMMA ExpansionHolds == Spec => []ExpansionInv
<1>1. ASSUME Init PROVE ExpansionInv
  <2>1. ComposeShape /\ flat = loaded
    BY <1>1, ShapeAtFirst DEF Init
  <2> QED
    BY <1>1, <2>1, NothingExpanded DEF ExpansionInv, Init, InstancesStayValid
<1>2. ASSUME ExpansionInv, [Next]_composeVars PROVE ExpansionInv'
  <2> USE <1>2 DEF ExpansionInv
  <2>1. ComposeShape'
    BY ShapeStays
  <2>2. ASSUME UNCHANGED <<disk, loaded, flat>>
        PROVE  StaysSound' /\ NewOnesAreSupplied'
    BY <2>2 DEF StaysSound, NewOnesAreSupplied, Instances, IsSupplied, IsCopied
  <2>3. ASSUME UNCHANGED <<disk, loaded, flat>>, outcome' # "ValidationError" \/ outcome' = outcome
        PROVE  StaysSound' /\ NewOnesAreSupplied' /\ InstancesStayValid'
    BY <2>2, <2>3 DEF InstancesStayValid, Instances
  <2>4. CASE UNCHANGED composeVars
    BY <2>1, <2>3, <2>4 DEF composeVars
  <2>5. ASSUME NEW f \in Files, Open(f) \/ Refuse(f) PROVE ExpansionInv'
    BY <2>1, <2>3, <2>5 DEF Open, Refuse
  <2>6. CASE Merge
    BY <2>1, <2>3, <2>6 DEF Merge
  <2>7. CASE Loaded
    <3>1. flat' = loaded' /\ outcome' = "expanding"
      BY <2>7 DEF Loaded
    <3>2. StaysSound' /\ NewOnesAreSupplied'
      BY <2>1, <3>1, ValidIsSound
      DEF StaysSound, NewOnesAreSupplied, ComposeShape, IsMerged, Lists
    <3> QED
      BY <2>1, <3>1, <3>2 DEF InstancesStayValid
  <2>8. CASE ExpandInstance
    <3>1. outcome' = "expanding"
      BY <2>8 DEF ExpandInstance
    <3> QED
      BY <2>1, <2>8, <3>1, ExpandKeepsExpansion DEF InstancesStayValid
  <2>9. CASE RejectInstance
    <3>1. outcome' # "ValidationError" /\ UNCHANGED <<disk, loaded, flat>>
      BY <2>9, FaultKinds DEF RejectInstance, ExpandErrors
    <3> QED
      BY <2>1, <2>3, <3>1
  <2>10. CASE Build
    <3>1. UNCHANGED <<disk, loaded, flat>>
      BY <2>10 DEF Build
    <3> QED
      BY <2>1, <2>2, <2>10, <3>1, BuildKeepsExpansion
  <2> QED
    BY <1>2, <2>4, <2>5, <2>6, <2>7, <2>8, <2>9, <2>10 DEF Next
<1> QED
  BY <1>1, <1>2, PTL DEF Spec

-----------------------------------------------------------------------------
(* The tree of files                                                       *)

LEMMA TreeClosed ==
  /\ Root \in Files => Root \in Tree
  /\ \A f \in Tree : \A g \in Elements(Includes(f)) \cap Files : g \in Tree
  /\ \A S \in SUBSET Files : ClosedUnderIncludes(S) => Tree \subseteq S
BY DEF Tree, ClosedUnderIncludes

LEMMA PlaceOf ==
  /\ \A f \in Tree : \A i \in DOMAIN Includes(f) :
       <<f, i>> \in Places /\ Target(<<f, i>>) = Includes(f)[i]
  /\ \A p \in Places : /\ p[1] \in Tree /\ p[2] \in DOMAIN Includes(p[1])
                       /\ p = <<p[1], p[2]>>
<1>1. ASSUME NEW f \in Tree, NEW i \in DOMAIN Includes(f)
      PROVE  <<f, i>> \in Places /\ Target(<<f, i>>) = Includes(f)[i]
  BY DEF Places, Target
<1>2. ASSUME NEW p \in Places
      PROVE  /\ p[1] \in Tree /\ p[2] \in DOMAIN Includes(p[1])
             /\ p = <<p[1], p[2]>>
  <2>1. PICK f \in Tree : p \in {f} \X DOMAIN Includes(f)
    BY DEF Places
  <2> QED
    BY <2>1
<1> QED
  BY <1>1, <1>2

\* The i-th include of f was followed to its end, or is being followed.
Followed(f, i) ==
  /\ f \in seen
  /\ i \in DOMAIN Includes(f)
  /\ \A k \in DOMAIN stack :
       stack[k].file = f =>
         IF k = Len(stack) THEN i < stack[k].next ELSE i <= stack[k].next

\* Every file visited is one of the tree, none is open twice, and but for the
\* root each was reached by one include that was followed, and only by that.
Explored ==
  /\ seen \subseteq Tree
  /\ \A i, j \in DOMAIN stack : stack[i].file = stack[j].file => i = j
  /\ \A f, i : Followed(f, i) => Includes(f)[i] \in seen \ {Root}
  /\ \A f, i, g, j : Followed(f, i) /\ Followed(g, j) /\ Includes(f)[i] = Includes(g)[j]
                       => f = g /\ i = j
  /\ \A f \in seen \ {Root} : \E g, i : Followed(g, i) /\ Includes(g)[i] = f
  /\ outcome = "loading" /\ stack = <<>> => seen = {}

LEMMA OpenFollows ==
  ASSUME ComposeShape, Explored, NEW f \in Files, Open(f), NEW g, NEW i
  PROVE  Followed(g, i)' <=> Followed(g, i) \/ (stack # <<>> /\ g = Top.file /\ i = Top.next)
<1>0. PICK n \in Nat : n = Len(stack)
  BY ListFacts DEF ComposeShape
<1>1. /\ f \in Wanted /\ f \notin seen /\ disk' = disk /\ seen' = seen \cup {f}
      /\ stack' = Append(stack, [file |-> f, merged |-> Own(f), next |-> 1])
  BY DEF Open, Insert, Visited
<1>2. /\ n = Len(stack) /\ DOMAIN stack = 1..n
      /\ DOMAIN stack' = 1..(n + 1) /\ Len(stack') = n + 1
      /\ \A k \in 1..n : stack'[k] = stack[k]
      /\ stack'[n + 1].file = f /\ stack'[n + 1].next = 1
  BY <1>0, <1>1, ListAppend DEF ComposeShape
<1>3. \A k \in 1..n : stack[k].file \in seen
  BY <1>2 DEF ComposeShape, IsFrame
<1>4. Includes(g)' = Includes(g)
  BY <1>1 DEF Includes
<1>5. CASE g = f
  <2>1. ~Followed(g, i) /\ ~(stack # <<>> /\ g = Top.file)
    <3>1. stack # <<>> => Top.file \in seen
      BY TopFacts DEF IsFrame
    <3> QED
      BY <1>1, <1>5, <3>1 DEF Followed
  <2>2. Followed(g, i)' => FALSE
    <3> SUFFICES ASSUME Followed(g, i)' PROVE FALSE
      OBVIOUS
    <3>1. i \in DOMAIN Includes(f) /\ i < 1
      BY <1>2, <1>4, <1>5 DEF Followed
    <3>2. DOMAIN Includes(f) \subseteq Nat \ {0}
      <4>1. IsSchema(disk[f])
        BY <1>1, ReadFile DEF Open
      <4> QED
        BY <4>1, ListFacts DEF Includes, IsSchema, Open
    <3> QED
      BY <3>1, <3>2
  <2> QED
    BY <2>1, <2>2
<1>6. CASE g # f /\ stack = <<>>
  <2>1. n = 0
    BY <1>2, <1>6, EmptyList, ListFacts
  <2> QED
    BY <1>1, <1>2, <1>4, <1>6, <2>1 DEF Followed
<1>7. CASE g # f /\ stack # <<>>
  <2>1. n \in 1..n /\ Top = stack[n] /\ Top.next \in DOMAIN Includes(Top.file)
    BY <1>1, <1>2, <1>7, TopFacts DEF Top, Includes, IsFrame, ComposeShape
  <2>2. CASE g = Top.file
    <3>1. \A k \in 1..n : stack[k].file = g => k = n
      BY <1>2, <2>1, <2>2 DEF Explored
    <3>2. Followed(g, i) <=> i \in DOMAIN Includes(g) /\ i < Top.next
      BY <1>2, <1>3, <2>1, <2>2, <3>1 DEF Followed
    <3>3. \A k \in 1..(n + 1) : k = n + 1 \/ k \in 1..n
      OBVIOUS
    <3>4. \A k \in 1..(n + 1) : stack'[k].file = g => k = n
      BY <1>2, <1>7, <3>1, <3>3
    <3>5. n \in 1..(n + 1) /\ n # n + 1 /\ stack'[n] = Top
      BY <1>2, <2>1
    <3>8. g \in seen'
      BY <1>1, <1>3, <2>1, <2>2
    <3>9. Followed(g, i)' <=> i \in DOMAIN Includes(g) /\ i <= Top.next
      BY <1>2, <1>4, <2>2, <3>4, <3>5, <3>8 DEF Followed
    <3>6. DOMAIN Includes(g) \subseteq Nat
      <4>1. IsSchema(disk[g]) /\ g \in seen
        BY <1>7, <2>2, TopFacts DEF IsFrame
      <4> QED
        BY <4>1, ListFacts DEF Includes, IsSchema, ComposeShape
    <3>7. Top.next \in Nat
      BY <2>1, <2>2, <3>6
    <3> QED
      BY <1>7, <2>1, <2>2, <3>2, <3>6, <3>7, <3>9
  <2>3. CASE g # Top.file
    <3>1. \A k \in 1..n : stack[k].file = g => k # n
      BY <2>1, <2>3
    <3>5. \A k \in 1..(n + 1) : k = n + 1 \/ k \in 1..n
      OBVIOUS
    <3>2. \A k \in 1..(n + 1) : stack'[k].file = g => k \in 1..n /\ k # n
      BY <1>2, <1>7, <3>1, <3>5
    <3>3. Followed(g, i) <=>
            /\ g \in seen /\ i \in DOMAIN Includes(g)
            /\ \A k \in 1..n : stack[k].file = g => i <= stack[k].next
      BY <1>2, <3>1 DEF Followed
    <3>4. Followed(g, i)' <=>
            /\ g \in seen /\ i \in DOMAIN Includes(g)
            /\ \A k \in 1..n : stack[k].file = g => i <= stack[k].next
      <4>1. g \in seen' <=> g \in seen
        BY <1>1, <1>7
      <4>2. \A k \in 1..n : k # n + 1 /\ k \in 1..(n + 1) /\ stack'[k] = stack[k]
        BY <1>2
      <4> QED
        BY <1>2, <1>4, <3>2, <4>1, <4>2 DEF Followed
    <3> QED
      BY <2>3, <3>3, <3>4
  <2> QED
    BY <2>2, <2>3
<1> QED
  BY <1>5, <1>6, <1>7

\* The includes of a file that was visited are numbered from one.
LEMMA Numbered ==
  ASSUME ComposeShape, NEW f \in seen
  PROVE  /\ IsSchema(disk[f]) /\ Includes(f) = disk[f].includes
         /\ Len(Includes(f)) \in Nat /\ DOMAIN Includes(f) = 1..Len(Includes(f))
         /\ \A i \in DOMAIN Includes(f) : Includes(f)[i] \in Files \cap Elements(Includes(f))
<1>1. IsSchema(disk[f]) /\ Includes(f) = disk[f].includes
  BY ReadFile DEF ComposeShape, Includes
<1>2. IsList(Includes(f)) /\ Elements(Includes(f)) \subseteq Files
  BY <1>1 DEF IsSchema
<1> QED
  BY <1>1, <1>2, ListFacts

LEMMA MergeFollows ==
  ASSUME ComposeShape, Explored, Merge, stack' # stack, NEW g, NEW i
  PROVE  Followed(g, i)' <=> Followed(g, i)
<1>1. PICK n \in Nat \ {0} :
         /\ Len(stack) = n + 1 /\ DOMAIN stack = 1..(n + 1)
         /\ Len(stack') = n /\ DOMAIN stack' = 1..n
         /\ \A k \in 1..(n - 1) : stack'[k] = stack[k]
         /\ stack'[n] = [file   |-> stack[n].file,
                         merged |-> Merged(stack[n].merged, stack[n + 1].merged),
                         next   |-> stack[n].next + 1]
         /\ Top = stack[n + 1]
         /\ UNCHANGED <<disk, seen>>
  BY MergeFacts
<1>2. /\ n \in 1..(n + 1) /\ n + 1 \in 1..(n + 1) /\ n # n + 1
      /\ \A k \in 1..n : k \in 1..(n + 1) /\ k # n + 1 /\ (k = n \/ k \in 1..(n - 1))
      /\ \A k \in 1..(n + 1) : k = n + 1 \/ k \in 1..n
      /\ \A k \in 1..(n - 1) : k \in 1..n /\ k # n /\ k # n + 1
  OBVIOUS
<1>3. /\ \A k \in 1..n : stack'[k].file = stack[k].file
      /\ stack'[n].next = stack[n].next + 1
  BY <1>1, <1>2
<1>4. Includes(g)' = Includes(g) /\ seen' = seen
  BY <1>1 DEF Includes
<1>5. ASSUME g \in seen PROVE DOMAIN Includes(g) = 1..Len(Includes(g)) /\ Len(Includes(g)) \in Nat
  BY <1>5, Numbered
<1>6. CASE g = Top.file
  <2>1. /\ \A k \in 1..(n + 1) : stack[k].file = g => k = n + 1
        /\ \A k \in 1..n : stack'[k].file # g
    BY <1>1, <1>2, <1>3, <1>6 DEF Explored
  <2>2. g \in seen /\ Top.next = Len(Includes(g)) + 1
    <3>1. g \in seen
      BY <1>1, <1>2, <1>6 DEF ComposeShape, IsFrame
    <3>2. Wanted = {} /\ stack # <<>>
      BY <1>1, EmptyList, ListFacts DEF Merge, ComposeShape
    <3> QED
      BY <1>6, <3>1, <3>2, Numbered, TopFacts
  <2>3. Followed(g, i) <=> i \in DOMAIN Includes(g)
    <3>1. Followed(g, i) <=> i \in DOMAIN Includes(g) /\ i < Len(Includes(g)) + 1
      BY <1>1, <1>2, <1>6, <2>1, <2>2 DEF Followed
    <3> QED
      BY <1>5, <2>2, <3>1
  <2>4. Followed(g, i)' <=> i \in DOMAIN Includes(g)
    BY <1>1, <1>4, <2>1, <2>2 DEF Followed
  <2> QED
    BY <2>3, <2>4
<1>7. CASE g # Top.file
  <2> DEFINE before == \A k \in 1..(n - 1) : stack[k].file = g => i <= stack[k].next
             here == stack[n].file = g => i <= stack[n].next
  <2>1. Followed(g, i) <=> g \in seen /\ i \in DOMAIN Includes(g) /\ before /\ here
    <3>1. Followed(g, i) <=> /\ g \in seen /\ i \in DOMAIN Includes(g)
                             /\ \A k \in 1..n : stack[k].file = g => i <= stack[k].next
      BY <1>1, <1>2, <1>7 DEF Followed
    <3> QED
      BY <1>2, <3>1
  <2>2. Followed(g, i)' <=> /\ g \in seen /\ i \in DOMAIN Includes(g) /\ before
                            /\ stack[n].file = g => i < stack[n].next + 1
    <3>1. Followed(g, i)' <=>
            /\ g \in seen /\ i \in DOMAIN Includes(g)
            /\ \A k \in 1..n : stack[k].file = g =>
                 IF k = n THEN i < stack'[n].next ELSE i <= stack'[k].next
      BY <1>1, <1>3, <1>4 DEF Followed
    <3>2. \A k \in 1..(n - 1) : stack'[k].next = stack[k].next
      BY <1>1
    <3> QED
      BY <1>2, <1>3, <3>1, <3>2
  <2>3. ASSUME g \in seen, i \in DOMAIN Includes(g), stack[n].file = g
        PROVE  i <= stack[n].next <=> i < stack[n].next + 1
    <3>1. IsFrame(stack[n], disk, seen)
      BY <1>1, <1>2 DEF ComposeShape
    <3>2. stack[n].next \in Nat /\ i \in Nat
      BY <1>5, <2>3, <3>1, Numbered DEF IsFrame
    <3> QED
      BY <3>2
  <2> QED
    BY <2>1, <2>2, <2>3
<1> QED
  BY <1>6, <1>7

LEMMA LoadedFollows ==
  ASSUME ComposeShape, Explored, Loaded, NEW g, NEW i
  PROVE  /\ Followed(g, i)' <=> Followed(g, i)
         /\ Followed(g, i)' <=> g \in seen /\ i \in DOMAIN Includes(g)
<1>1. /\ stack # <<>> /\ Len(stack) = 1 /\ DOMAIN stack = 1..1 /\ Wanted = {}
      /\ stack' = <<>> /\ UNCHANGED <<disk, seen>>
  BY EmptyList, ListFacts DEF Loaded, ComposeShape
<1>2. /\ Top.file \in seen /\ Top.next = Len(disk[Top.file].includes) + 1 /\ Top = stack[1]
  BY <1>1, TopFacts DEF IsFrame, Top
<1>3. DOMAIN stack' = {} /\ Includes(g)' = Includes(g)
  BY <1>1, EmptyList, ListFacts DEF Includes
<1>4. Followed(g, i)' <=> g \in seen /\ i \in DOMAIN Includes(g)
  BY <1>1, <1>3 DEF Followed
<1>5. Followed(g, i) <=> /\ g \in seen /\ i \in DOMAIN Includes(g)
                         /\ g = Top.file => i < Top.next
  <2>1. \A k \in 1..1 : k = 1
    OBVIOUS
  <2> QED
    BY <1>1, <1>2, <2>1 DEF Followed
<1>6. ASSUME g \in seen, i \in DOMAIN Includes(g), g = Top.file PROVE i < Top.next
  BY <1>2, <1>6, Numbered
<1> QED
  BY <1>4, <1>5, <1>6

LEMMA OpenExplores ==
  ASSUME ComposeShape, Explored, NEW f \in Files, Open(f)
  PROVE  Explored'
<1>1. /\ f \in Wanted /\ f \notin seen /\ disk' = disk /\ seen' = seen \cup {f}
      /\ outcome' = outcome
      /\ stack' = Append(stack, [file |-> f, merged |-> Own(f), next |-> 1])
  BY DEF Open, Insert, Visited
<1>2. PICK n \in Nat : n = Len(stack)
  BY ListFacts DEF ComposeShape
<1>3. /\ DOMAIN stack = 1..n /\ DOMAIN stack' = 1..(n + 1)
      /\ \A k \in 1..n : stack'[k] = stack[k] /\ stack[k].file \in seen
      /\ stack'[n + 1].file = f /\ stack' # <<>>
  <2>1. IsList(stack') /\ Len(stack') = n + 1
    BY <1>1, <1>2, ListAppend DEF ComposeShape
  <2>2. stack' # <<>>
    BY <2>1, ListFacts
  <2> QED
    BY <1>1, <1>2, <2>2, ListAppend DEF ComposeShape, IsFrame
<1>4. \A g : Includes(g)' = Includes(g)
  BY <1>1 DEF Includes
<1>5. \A g, i : Followed(g, i)' <=> Followed(g, i) \/ (stack # <<>> /\ g = Top.file /\ i = Top.next)
  BY OpenFollows
<1>6. stack # <<>> => /\ Top.file \in seen /\ Includes(Top.file)[Top.next] = f /\ Root \in seen
                      /\ Top.next \in DOMAIN Includes(Top.file)
  <2> SUFFICES ASSUME stack # <<>>
               PROVE  /\ Top.file \in seen /\ Includes(Top.file)[Top.next] = f /\ Root \in seen
                      /\ Top.next \in DOMAIN Includes(Top.file)
    OBVIOUS
  <2>1. Top.file \in seen
    BY TopFacts DEF IsFrame
  <2>2. 1 \in 1..n
    BY <1>2, ListFacts DEF ComposeShape
  <2>3. Root \in seen
    BY <1>3, <2>2 DEF ComposeShape
  <2> QED
    BY <1>1, <2>1, <2>3, Numbered, TopFacts
<1>7. stack = <<>> => f = Root
  BY <1>1 DEF Wanted
<1>8. f \in Tree
  <2>1. CASE stack = <<>>
    BY <1>7, <2>1, TreeClosed
  <2>2. CASE stack # <<>>
    <3>1. Top.file \in Tree /\ f \in Elements(Includes(Top.file))
      BY <1>6, <2>2, Numbered DEF Explored
    <3> QED
      BY <3>1, TreeClosed
  <2> QED
    BY <2>1, <2>2
<1>9. Tree' = Tree
  BY <1>4 DEF Tree, ClosedUnderIncludes
<1>10. (seen \subseteq Tree)'
  BY <1>1, <1>8, <1>9 DEF Explored
<1>11. \A i, j \in DOMAIN stack' : stack'[i].file = stack'[j].file => i = j
  <2>1. \A k \in 1..(n + 1) : k = n + 1 \/ k \in 1..n
    OBVIOUS
  <2> QED
    BY <1>1, <1>3, <2>1 DEF Explored
<1>12. \A g, i : Followed(g, i)' => Includes(g)[i] \in seen' \ {Root}
  BY <1>1, <1>5, <1>6 DEF Explored
<1>13. ASSUME NEW g, NEW i, NEW h, NEW j, Followed(g, i)', Followed(h, j)',
              Includes(g)[i] = Includes(h)[j]
       PROVE  g = h /\ i = j
  <2>1. ASSUME NEW x, NEW y, Followed(x, y) PROVE Includes(x)[y] # f
    BY <1>1, <2>1 DEF Explored
  <2> QED
    BY <1>5, <1>6, <1>13, <2>1 DEF Explored
<1>14. \A g \in seen' \ {Root} : \E h, j : Followed(h, j)' /\ Includes(h)[j] = g
  <2>1. ASSUME NEW g \in seen \ {Root} PROVE \E h, j : Followed(h, j)' /\ Includes(h)[j] = g
    BY <1>5 DEF Explored
  <2>2. f # Root => \E h, j : Followed(h, j)' /\ Includes(h)[j] = f
    BY <1>5, <1>6, <1>7
  <2> QED
    BY <1>1, <2>1, <2>2
<1>15. \A g, i, h, j : Followed(g, i)' /\ Followed(h, j)' /\ Includes(g)[i] = Includes(h)[j]
                         => g = h /\ i = j
  BY <1>13
<1> QED
  BY <1>3, <1>4, <1>10, <1>11, <1>12, <1>14, <1>15 DEF Explored

\* Where nothing more is visited, and nothing else was followed.
LEMMA StillExplored ==
  ASSUME Explored, seen' = seen, disk' = disk, \A g, i : Followed(g, i)' <=> Followed(g, i),
         \A i, j \in DOMAIN stack' : stack'[i].file = stack'[j].file => i = j,
         outcome' = "loading" /\ stack' = <<>> => seen = {}
  PROVE  Explored'
<1>1. (\A g : Includes(g)' = Includes(g)) /\ Tree' = Tree
  BY DEF Includes, Tree, ClosedUnderIncludes
<1> QED
  BY <1>1 DEF Explored

LEMMA MergeExplores ==
  ASSUME ComposeShape, Explored, Merge, stack' # stack
  PROVE  Explored'
<1>1. PICK n \in Nat \ {0} :
         /\ DOMAIN stack = 1..(n + 1) /\ DOMAIN stack' = 1..n /\ IsList(stack') /\ Len(stack') = n
         /\ \A k \in 1..(n - 1) : stack'[k] = stack[k]
         /\ stack'[n] = [file   |-> stack[n].file,
                         merged |-> Merged(stack[n].merged, stack[n + 1].merged),
                         next   |-> stack[n].next + 1]
         /\ UNCHANGED <<disk, seen>>
  BY MergeFacts
<1>2. \A k \in 1..n : k \in 1..(n + 1) /\ stack'[k].file = stack[k].file
  <2>1. \A k \in 1..n : k \in 1..(n + 1) /\ (k = n \/ k \in 1..(n - 1))
    OBVIOUS
  <2> QED
    BY <1>1, <2>1
<1>3. \A i, j \in DOMAIN stack' : stack'[i].file = stack'[j].file => i = j
  BY <1>1, <1>2 DEF Explored
<1>4. stack' # <<>>
  BY <1>1, ListFacts
<1> QED
  BY <1>1, <1>3, <1>4, MergeFollows, StillExplored

\* Once the root is complete every file of the tree was visited, and each is
\* included in one place.
LEMMA TreeWasExplored ==
  ASSUME ComposeShape, Explored, Root \in seen,
         \A g, i : Followed(g, i) <=> g \in seen /\ i \in DOMAIN Includes(g)
  PROVE  Tree = seen /\ ~AFileIsMissing /\ ~AFileIsIncludedAgain
<1>1. ClosedUnderIncludes(seen)
  <2> SUFFICES ASSUME NEW f \in seen, NEW g \in Elements(Includes(f)) PROVE g \in seen
    BY DEF ClosedUnderIncludes
  <2>1. PICK i \in DOMAIN Includes(f) : g = Includes(f)[i]
    BY DEF Elements
  <2> QED
    BY <2>1 DEF Explored
<1>2. Tree = seen
  BY <1>1, TreeClosed DEF ComposeShape, Explored
<1>3. ~AFileIsMissing
  BY <1>2 DEF AFileIsMissing, ComposeShape
<1>4. \A p \in Places : Followed(p[1], p[2]) /\ Target(p) = Includes(p[1])[p[2]] /\ p = <<p[1], p[2]>>
  BY <1>2, PlaceOf DEF Target
<1>5. ~AFileIsIncludedAgain
  <2>1. \A p \in Places : Target(p) # Root
    BY <1>4 DEF Explored
  <2>2. ASSUME NEW p \in Places, NEW q \in Places, Target(p) = Target(q) PROVE p = q
    <3>1. p[1] = q[1] /\ p[2] = q[2]
      BY <1>4, <2>2 DEF Explored
    <3> QED
      BY <1>4, <3>1
  <2> QED
    BY <2>1, <2>2 DEF AFileIsIncludedAgain
<1> QED
  BY <1>2, <1>3, <1>5

\* A file that is refused for being visited before is included in two places.
LEMMA RefusedIsIncludedAgain ==
  ASSUME ComposeShape, Explored, NEW f \in Wanted, f \in seen, outcome = "loading"
  PROVE  AFileIsIncludedAgain
<1>1. stack # <<>>
  BY DEF Explored
<1> DEFINE g == Top.file
           i == Top.next
<1>2. g \in seen /\ i \in DOMAIN Includes(g) /\ Includes(g)[i] = f
  <2>1. g \in seen
    BY <1>1, TopFacts DEF IsFrame
  <2> QED
    BY <1>1, <2>1, Numbered, TopFacts
<1>3. ~Followed(g, i)
  <2>1. Len(stack) \in DOMAIN stack /\ stack[Len(stack)] = Top
    BY <1>1, TopFacts DEF Top
  <2>2. i \in Nat
    BY <1>2, Numbered
  <2>3. ~(i < Top.next)
    BY <2>2
  <2> QED
    BY <2>1, <2>3 DEF Followed
<1> HIDE DEF g, i
<1>4. <<g, i>> \in Places /\ Target(<<g, i>>) = f
  BY <1>2, PlaceOf DEF Explored
<1>5. CASE f = Root
  BY <1>4, <1>5 DEF AFileIsIncludedAgain
<1>6. CASE f # Root
  <2>1. PICK h, j : Followed(h, j) /\ Includes(h)[j] = f
    BY <1>6 DEF Explored
  <2>2. <<h, j>> \in Places /\ Target(<<h, j>>) = f
    BY <2>1, PlaceOf DEF Explored, Followed
  <2>3. <<h, j>> # <<g, i>>
    BY <1>3, <2>1
  <2> QED
    BY <1>4, <2>2, <2>3 DEF AFileIsIncludedAgain
<1> QED
  BY <1>5, <1>6

\* Two files declare no signal of one id.
Apart(f, g, d) == Ids(d[f].signals) \cap Ids(d[g].signals) = {}

\* Every file visited was put into one of the open files; what an open file has
\* by now is the signals of the files put into it, and those repeat no id.
PartedInto(into, s, st, d) ==
  /\ \A f \in s : into[f] \in DOMAIN st
  /\ \A f, g \in s : f # g /\ into[f] = into[g] => Apart(f, g, d)
  /\ \A k \in DOMAIN st : \A x :
       x \in Ids(st[k].merged.signals) <=>
         \E f \in s : into[f] = k /\ x \in Ids(d[f].signals)
Parted == \E into : PartedInto(into, seen, stack, disk)

LEMMA IdsConcat ==
  ASSUME NEW p, IsList(p), NEW q, IsList(q)
  PROVE  Ids(p \o q) = Ids(p) \cup Ids(q)
<1>1. \A l, x : x \in Ids(l) <=> \E e \in Elements(l) : x = e.id
  BY DEF Ids, Elements
<1> QED
  BY <1>1, ListConcat

LEMMA OpenParts ==
  ASSUME ComposeShape, Parted, NEW f \in Files, Open(f)
  PROVE  Parted'
<1>1. /\ f \notin seen /\ disk' = disk /\ seen' = seen \cup {f}
      /\ stack' = Append(stack, [file |-> f, merged |-> Own(f), next |-> 1])
  BY DEF Open, Insert, Visited
<1>2. PICK n \in Nat : n = Len(stack)
  BY ListFacts DEF ComposeShape
<1>3. /\ DOMAIN stack = 1..n /\ DOMAIN stack' = 1..(n + 1)
      /\ \A k \in 1..n : stack'[k] = stack[k]
      /\ stack'[n + 1].merged.signals = disk[f].signals
  BY <1>1, <1>2, ListAppend DEF ComposeShape, Own
<1>4. PICK into : PartedInto(into, seen, stack, disk)
  BY DEF Parted
<1>5. /\ \A g \in seen : into[g] \in 1..n
      /\ \A g, h \in seen : g # h /\ into[g] = into[h] => Apart(g, h, disk)
      /\ \A k \in 1..n : \A x :
           x \in Ids(stack[k].merged.signals) <=>
             \E g \in seen : into[g] = k /\ x \in Ids(disk[g].signals)
  BY <1>3, <1>4 DEF PartedInto
<1>6. /\ n + 1 \in 1..(n + 1) /\ n + 1 \notin 1..n
      /\ \A k \in 1..(n + 1) : k = n + 1 \/ k \in 1..n
      /\ \A k \in 1..n : k \in 1..(n + 1)
  OBVIOUS
<1>7. PICK put : put = [g \in seen' |-> IF g = f THEN n + 1 ELSE into[g]]
  OBVIOUS
<1>8. /\ \A g \in seen' : put[g] \in 1..(n + 1)
      /\ put[f] = n + 1
      /\ \A g \in seen : put[g] = into[g] /\ into[g] \in 1..n
  BY <1>1, <1>5, <1>6, <1>7
<1>9. ASSUME NEW g \in seen', NEW h \in seen', g # h, put[g] = put[h]
      PROVE  Apart(g, h, disk')
  <2>1. g \in seen /\ h \in seen
    BY <1>1, <1>6, <1>8, <1>9
  <2>2. into[g] = into[h]
    BY <1>8, <1>9, <2>1
  <2>3. Apart(g, h, disk)
    BY <1>5, <1>9, <2>1, <2>2
  <2> QED
    BY <1>1, <2>3 DEF Apart
<1>10. ASSUME NEW k \in 1..(n + 1), NEW x
      PROVE  x \in Ids(stack'[k].merged.signals) <=>
               \E g \in seen' : put[g] = k /\ x \in Ids(disk[g].signals)
  <2>1. CASE k = n + 1
    <3>1. \A g \in seen' : put[g] = k <=> g = f
      BY <1>1, <1>6, <1>8, <2>1
    <3> QED
      BY <1>1, <1>3, <2>1, <3>1
  <2>2. CASE k \in 1..n
    <3>1. \A g \in seen' : put[g] = k <=> g \in seen /\ into[g] = k
      BY <1>1, <1>6, <1>8, <2>2
    <3>2. stack'[k] = stack[k]
      BY <1>3, <2>2
    <3>3. x \in Ids(stack[k].merged.signals) <=>
            \E g \in seen : into[g] = k /\ x \in Ids(disk[g].signals)
      BY <1>5, <2>2
    <3>4. seen \subseteq seen'
      BY <1>1
    <3> QED
      BY ONLY <3>1, <3>2, <3>3, <3>4
  <2>3. k = n + 1 \/ k \in 1..n
    BY <1>6
  <2> QED
    BY <2>1, <2>2, <2>3
<1>11. PartedInto(put, seen', stack', disk')
  <2>1. \A g \in seen' : put[g] \in DOMAIN stack'
    BY <1>3, <1>8
  <2>2. \A g, h \in seen' : g # h /\ put[g] = put[h] => Apart(g, h, disk')
    BY <1>9
  <2>3. \A k \in DOMAIN stack' : \A x :
          x \in Ids(stack'[k].merged.signals) <=>
            \E g \in seen' : put[g] = k /\ x \in Ids(disk'[g].signals)
    BY <1>1, <1>3, <1>10
  <2> QED
    BY <2>1, <2>2, <2>3 DEF PartedInto
<1> QED
  BY <1>11 DEF Parted

LEMMA MergeParts ==
  ASSUME ComposeShape, Parted, Merge, stack' # stack
  PROVE  Parted'
<1>1. PICK n \in Nat \ {0} :
         /\ DOMAIN stack = 1..(n + 1) /\ DOMAIN stack' = 1..n
         /\ \A k \in 1..(n - 1) : stack'[k] = stack[k]
         /\ stack'[n] = [file   |-> stack[n].file,
                         merged |-> Merged(stack[n].merged, stack[n + 1].merged),
                         next   |-> stack[n].next + 1]
         /\ Ids(stack[n].merged.signals) \cap Ids(stack[n + 1].merged.signals) = {}
         /\ UNCHANGED <<disk, seen>>
  BY MergeFacts
<1>2. PICK into : PartedInto(into, seen, stack, disk)
  BY DEF Parted
<1>3. /\ \A g \in seen : into[g] \in 1..(n + 1)
      /\ \A g, h \in seen : g # h /\ into[g] = into[h] => Apart(g, h, disk)
      /\ \A k \in 1..(n + 1) : \A x :
           x \in Ids(stack[k].merged.signals) <=>
             \E g \in seen : into[g] = k /\ x \in Ids(disk[g].signals)
  BY <1>1, <1>2 DEF PartedInto
<1>4. /\ n \in 1..(n + 1) /\ n + 1 \in 1..(n + 1) /\ n \in 1..n /\ n # n + 1 /\ n + 1 \notin 1..n
      /\ \A k \in 1..(n + 1) : k = n + 1 \/ k \in 1..n
      /\ \A k \in 1..n : k \in 1..(n + 1) /\ (k = n \/ k \in 1..(n - 1))
      /\ \A k \in 1..(n - 1) : k \in 1..(n + 1) /\ k # n
  OBVIOUS
<1>5. PICK put : put = [g \in seen |-> IF into[g] = n + 1 THEN n ELSE into[g]]
  OBVIOUS
<1>6. /\ \A g \in seen : put[g] \in 1..n
      /\ \A g \in seen : put[g] = n <=> into[g] \in {n, n + 1}
      /\ \A g \in seen : put[g] # n => into[g] = put[g]
      /\ \A g \in seen : into[g] \in 1..(n - 1) => put[g] = into[g]
  BY <1>3, <1>4, <1>5
<1>7. Ids(stack'[n].merged.signals)
        = Ids(stack[n].merged.signals) \cup Ids(stack[n + 1].merged.signals)
  <2>1. IsMerged(stack[n].merged) /\ IsMerged(stack[n + 1].merged)
    BY <1>1, <1>4 DEF ComposeShape, IsFrame
  <2>2. IsList(stack[n].merged.signals) /\ IsList(stack[n + 1].merged.signals)
    BY <2>1 DEF IsMerged, Lists
  <2>3. stack'[n].merged.signals = stack[n].merged.signals \o stack[n + 1].merged.signals
    <3>1. \A a, b : Merged(a, b).signals = a.signals \o b.signals
      BY DEF Merged
    <3>2. stack'[n].merged = Merged(stack[n].merged, stack[n + 1].merged)
      BY <1>1
    <3> QED
      BY <3>1, <3>2
  <2> QED
    BY <2>2, <2>3, IdsConcat
<1>8. ASSUME NEW g \in seen, NEW h \in seen, g # h, put[g] = put[h]
      PROVE  Apart(g, h, disk)
  <2>1. CASE into[g] = into[h]
    BY <1>3, <1>8, <2>1
  <2>2. CASE into[g] # into[h]
    <3>1. {into[g], into[h]} = {n, n + 1}
      BY <1>6, <1>8, <2>2
    <3>2. Ids(stack[into[g]].merged.signals) \cap Ids(stack[into[h]].merged.signals) = {}
      BY <1>1, <3>1, <2>2
    <3>3. /\ \A x \in Ids(disk[g].signals) : x \in Ids(stack[into[g]].merged.signals)
          /\ \A x \in Ids(disk[h].signals) : x \in Ids(stack[into[h]].merged.signals)
      BY <1>3
    <3> QED
      BY <3>2, <3>3 DEF Apart
  <2> QED
    BY <2>1, <2>2
<1>9. ASSUME NEW k \in 1..n, NEW x
      PROVE  x \in Ids(stack'[k].merged.signals) <=>
               \E g \in seen : put[g] = k /\ x \in Ids(disk[g].signals)
  <2>1. CASE k = n
    <3>1. \A g \in seen : put[g] = n <=> into[g] = n \/ into[g] = n + 1
      BY <1>6
    <3>2. x \in Ids(stack[n].merged.signals) <=>
            \E g \in seen : into[g] = n /\ x \in Ids(disk[g].signals)
      BY <1>3, <1>4
    <3>3. x \in Ids(stack[n + 1].merged.signals) <=>
            \E g \in seen : into[g] = n + 1 /\ x \in Ids(disk[g].signals)
      BY <1>3, <1>4
    <3>4. x \in Ids(stack'[n].merged.signals) <=>
            x \in Ids(stack[n].merged.signals) \/ x \in Ids(stack[n + 1].merged.signals)
      BY <1>7
    <3> QED
      BY <2>1, <3>1, <3>2, <3>3, <3>4
  <2>2. CASE k \in 1..(n - 1)
    <3>1. \A g \in seen : put[g] = k <=> into[g] = k
      BY <1>4, <1>6, <2>2
    <3>2. stack'[k] = stack[k] /\ k \in 1..(n + 1)
      BY <1>1, <1>4, <2>2
    <3>3. x \in Ids(stack[k].merged.signals) <=>
            \E g \in seen : into[g] = k /\ x \in Ids(disk[g].signals)
      BY <1>3, <3>2
    <3> QED
      BY <3>1, <3>2, <3>3
  <2> QED
    BY <1>4, <2>1, <2>2
<1>10. PartedInto(put, seen', stack', disk')
  <2>1. \A g \in seen' : put[g] \in DOMAIN stack'
    BY <1>1, <1>6
  <2>2. \A g, h \in seen' : g # h /\ put[g] = put[h] => Apart(g, h, disk')
    BY <1>1, <1>8
  <2>3. \A k \in DOMAIN stack' : \A x :
          x \in Ids(stack'[k].merged.signals) <=>
            \E g \in seen' : put[g] = k /\ x \in Ids(disk'[g].signals)
    BY <1>1, <1>9
  <2> QED
    BY <2>1, <2>2, <2>3 DEF PartedInto
<1> QED
  BY <1>10 DEF Parted

\* Two open files that cannot be merged have parts that declare one signal.
LEMMA StoppedForARepeat ==
  ASSUME ComposeShape, Explored, Parted, Merge, stack' = stack
  PROVE  ASignalIsDeclaredTwice
<1>1. PICK n \in Nat \ {0} :
         /\ DOMAIN stack = 1..(n + 1)
         /\ Ids(stack[n].merged.signals) \cap Ids(stack[n + 1].merged.signals) # {}
  BY MergeStops
<1>2. n \in 1..(n + 1) /\ n + 1 \in 1..(n + 1) /\ n # n + 1
  OBVIOUS
<1>3. PICK x : x \in Ids(stack[n].merged.signals) /\ x \in Ids(stack[n + 1].merged.signals)
  BY <1>1
<1>4. PICK into : PartedInto(into, seen, stack, disk)
  BY DEF Parted
<1>5. PICK f \in seen : into[f] = n /\ x \in Ids(disk[f].signals)
  BY <1>1, <1>2, <1>3, <1>4 DEF PartedInto
<1>6. PICK g \in seen : into[g] = n + 1 /\ x \in Ids(disk[g].signals)
  BY <1>1, <1>2, <1>3, <1>4 DEF PartedInto
<1> QED
  BY <1>2, <1>5, <1>6 DEF ASignalIsDeclaredTwice, ComposeShape, Explored

LEMMA CompleteIsApart ==
  ASSUME ComposeShape, Explored, Parted, Loaded
  PROVE  Root \in seen /\ ~AFileIsMissing /\ ~AFileIsIncludedAgain /\ ~ASignalIsDeclaredTwice
<1>1. Len(stack) = 1 /\ DOMAIN stack = 1..1 /\ stack # <<>>
  BY EmptyList, ListFacts DEF Loaded, ComposeShape
<1>2. Root \in seen
  <2>1. 1 \in 1..1
    OBVIOUS
  <2> QED
    BY <1>1, <2>1 DEF ComposeShape, IsFrame
<1>3. Tree = seen /\ ~AFileIsMissing /\ ~AFileIsIncludedAgain
  BY <1>2, LoadedFollows, TreeWasExplored
<1>4. \A f, g \in seen : f # g => Apart(f, g, disk)
  <2>1. \A k \in 1..1 : k = 1
    OBVIOUS
  <2> QED
    BY <1>1, <2>1 DEF Parted, PartedInto
<1>5. ~ASignalIsDeclaredTwice
  BY <1>3, <1>4 DEF ASignalIsDeclaredTwice, Apart
<1> QED
  BY <1>2, <1>3, <1>5

FailuresInv ==
  /\ ComposeShape
  /\ outcome = "loading" => Explored /\ Parted
  /\ FailuresHaveTheirCause

LEMMA CausesStay ==
  ASSUME disk' = disk
  PROVE  /\ AFileIsMissing' <=> AFileIsMissing
         /\ AFileIsIncludedAgain' <=> AFileIsIncludedAgain
         /\ ASignalIsDeclaredTwice' <=> ASignalIsDeclaredTwice
<1>1. \A f : Includes(f)' = Includes(f)
  BY DEF Includes
<1>2. Tree' = Tree
  BY <1>1 DEF Tree, ClosedUnderIncludes
<1>3. Places' = Places
  BY <1>1, <1>2 DEF Places
<1> QED
  BY <1>1, <1>2, <1>3 DEF AFileIsMissing, AFileIsIncludedAgain, ASignalIsDeclaredTwice, Target

\* A file that is refused is wanted, so it is one of the tree.
LEMMA RefusedForACause ==
  ASSUME ComposeShape, Explored, NEW f \in Files, Refuse(f)
  PROVE  /\ outcome' \in LoadErrors
         /\ outcome' = "IncludeNotFound" => AFileIsMissing
         /\ outcome' = "IncludeCycle" => AFileIsIncludedAgain
<1>1. CASE disk[f] = Unreadable /\ outcome' = "IncludeNotFound"
  <2>1. f \in Tree
    <3>1. CASE stack = <<>>
      BY <3>1, TreeClosed DEF Refuse, Wanted
    <3>2. CASE stack # <<>>
      <4>1. Top.file \in seen
        BY <3>2, TopFacts DEF IsFrame
      <4>2. Top.file \in Tree /\ f \in Elements(Includes(Top.file))
        BY <3>2, <4>1, Numbered, TopFacts DEF Refuse, Explored
      <4> QED
        BY <4>2, TreeClosed
    <3> QED
      BY <3>1, <3>2
  <2> QED
    BY <1>1, <2>1 DEF AFileIsMissing, LoadErrors
<1>2. CASE f \in seen /\ outcome' = "IncludeCycle"
  <2>1. AFileIsIncludedAgain
    BY <1>2, RefusedIsIncludedAgain DEF Refuse
  <2> QED
    BY <1>2, <2>1 DEF LoadErrors
<1> QED
  BY <1>1, <1>2 DEF Refuse, Visited

\* After loading the causes are settled: no step changes the files.
LEMMA SettledAfterLoading ==
  ASSUME FailuresInv, ComposeShape', outcome = "expanding", outcome' \notin {"loading"} \cup LoadErrors,
         UNCHANGED <<disk, stack>>
  PROVE  FailuresInv'
<1>1. WasLoaded /\ stack = <<>>
  BY DEF FailuresInv, ComposeShape, WasLoaded, LoadErrors
<1> QED
  BY <1>1, CausesStay DEF FailuresInv, FailuresHaveTheirCause, LoadErrors

LEMMA FailuresHold == Spec => []FailuresInv
<1>1. ASSUME Init PROVE FailuresInv
  <2>1. ComposeShape /\ outcome = "loading" /\ stack = <<>> /\ seen = {}
    BY <1>1, ShapeAtFirst DEF Init
  <2>2. DOMAIN stack = {}
    BY <2>1, EmptyList, ListFacts
  <2>3. Explored
    BY <2>1, <2>2 DEF Explored, Followed
  <2>4. Parted
    BY <2>1, <2>2 DEF Parted, PartedInto
  <2> QED
    BY <2>1, <2>3, <2>4 DEF FailuresInv, FailuresHaveTheirCause, WasLoaded, LoadErrors
<1>2. ASSUME FailuresInv, [Next]_composeVars PROVE FailuresInv'
  <2> USE <1>2
  <2>1. ComposeShape /\ ComposeShape'
    BY ShapeStays DEF FailuresInv
  <2>2. CASE UNCHANGED composeVars
    <3>1. UNCHANGED <<disk, seen, stack, outcome>>
      BY <2>2 DEF composeVars
    <3>2. Explored' <=> Explored
      BY <3>1 DEF Explored, Followed, Includes, Tree, ClosedUnderIncludes
    <3>3. Parted' <=> Parted
      BY <3>1 DEF Parted, PartedInto, Apart
    <3> QED
      BY <2>1, <3>1, <3>2, <3>3, CausesStay DEF FailuresInv, FailuresHaveTheirCause, WasLoaded
  <2>3. ASSUME NEW f \in Files, Open(f) PROVE FailuresInv'
    <3>1. outcome = "loading" /\ outcome' = "loading"
      BY <2>3 DEF Open
    <3>2. Explored' /\ Parted'
      BY <2>1, <2>3, <3>1, OpenExplores, OpenParts DEF FailuresInv
    <3> QED
      BY <2>1, <3>1, <3>2 DEF FailuresInv, FailuresHaveTheirCause, WasLoaded
  <2>4. ASSUME NEW f \in Files, Refuse(f) PROVE FailuresInv'
    <3>1. outcome = "loading" /\ disk' = disk
      BY <2>4 DEF Refuse
    <3>2. /\ outcome' \in LoadErrors
          /\ outcome' = "IncludeNotFound" => AFileIsMissing
          /\ outcome' = "IncludeCycle" => AFileIsIncludedAgain
      BY <2>1, <2>4, <3>1, RefusedForACause DEF FailuresInv
    <3> QED
      BY <2>1, <3>1, <3>2, CausesStay
      DEF FailuresInv, FailuresHaveTheirCause, WasLoaded, LoadErrors
  <2>5. CASE Merge
    <3>1. outcome = "loading" /\ disk' = disk
      BY <2>5 DEF Merge
    <3>2. CASE stack' = stack
      <4>1. outcome' = "DuplicateSignalAfterExpand" /\ stack # <<>>
        BY <2>1, <2>5, <3>2, MergeStops
      <4>2. ASignalIsDeclaredTwice
        BY <2>1, <2>5, <3>1, <3>2, StoppedForARepeat DEF FailuresInv
      <4> QED
        BY <2>1, <3>1, <3>2, <4>1, <4>2, CausesStay
        DEF FailuresInv, FailuresHaveTheirCause, WasLoaded
    <3>3. CASE stack' # stack
      <4>1. outcome' = "loading"
        BY <2>1, <2>5, <3>1, <3>3, MergeFacts
      <4>2. Explored' /\ Parted'
        BY <2>1, <2>5, <3>1, <3>3, MergeExplores, MergeParts DEF FailuresInv
      <4> QED
        BY <2>1, <4>1, <4>2 DEF FailuresInv, FailuresHaveTheirCause, WasLoaded
    <3> QED
      BY <3>2, <3>3
  <2>6. CASE Loaded
    <3>1. outcome = "loading" /\ disk' = disk /\ outcome' = "expanding"
      BY <2>6 DEF Loaded
    <3>2. ~AFileIsMissing /\ ~AFileIsIncludedAgain /\ ~ASignalIsDeclaredTwice
      BY <2>1, <2>6, <3>1, CompleteIsApart DEF FailuresInv
    <3> QED
      BY <2>1, <3>1, <3>2, CausesStay DEF FailuresInv, FailuresHaveTheirCause
  <2>7. CASE ExpandInstance
    <3>1. /\ outcome = "expanding" /\ UNCHANGED <<disk, stack>>
          /\ outcome' \notin {"loading"} \cup LoadErrors
      BY <2>7 DEF ExpandInstance, LoadErrors
    <3> QED
      BY <2>1, <3>1, SettledAfterLoading
  <2>8. CASE RejectInstance
    <3>1. outcome = "expanding" /\ outcome' \in ExpandErrors /\ UNCHANGED <<disk, stack>>
      BY <2>8, FaultKinds DEF RejectInstance
    <3>2. outcome' \notin {"loading"} \cup LoadErrors
      BY <3>1 DEF ExpandErrors, LoadErrors
    <3> QED
      BY <2>1, <3>1, <3>2, SettledAfterLoading
  <2>9. CASE Build
    <3>1. /\ outcome = "expanding" /\ UNCHANGED <<disk, stack>>
          /\ outcome' \in {"DuplicateSignalAfterExpand", "ok", "ValidationError"}
      BY <2>9 DEF Build
    <3>2. outcome' \notin {"loading"} \cup LoadErrors
      BY <3>1 DEF LoadErrors
    <3> QED
      BY <2>1, <3>1, <3>2, SettledAfterLoading
  <2> QED
    BY <2>2, <2>3, <2>4, <2>5, <2>6, <2>7, <2>8, <2>9 DEF Next
<1> QED
  BY <1>1, <1>2, PTL DEF Spec

-----------------------------------------------------------------------------
(* Lists put one after the other                                           *)

\* What FlattenSeq counts up.
Flattening(q, n, g) ==
  g = [i \in 1..n |-> IF i = 1 THEN q[i] ELSE g[i - 1] \o q[i]]

\* The function that FlattenSeq chooses exists, for any length,
LEMMA FlatteningExists ==
  ASSUME NEW q, NEW n \in Nat
  PROVE  \E g : Flattening(q, n, g)
<1> DEFINE S == {k \in Nat : \E g : Flattening(q, k, g)}
<1>1. 0 \in S
  <2>1. PICK g : g = [i \in 1..0 |-> q]
    OBVIOUS
  <2>2. Flattening(q, 0, g)
    BY <2>1 DEF Flattening
  <2> QED
    BY <2>2
<1>2. ASSUME NEW k \in Nat, k \in S PROVE k + 1 \in S
  <2>1. PICK g : Flattening(q, k, g)
    BY <1>2
  <2> DEFINE e == IF k = 0 THEN q[1] ELSE g[k] \o q[k + 1]
             h == [i \in 1..(k + 1) |-> IF i \in 1..k THEN g[i] ELSE e]
  <2>2. \A i \in 1..(k + 1) : /\ i \in 1..k \/ i = k + 1
                              /\ i \in 1..k => i = 1 \/ i - 1 \in 1..k
                              /\ i = k + 1 => i = 1 \/ i - 1 \in 1..k
                              /\ i = k + 1 => i \notin 1..k /\ i - 1 = k
    OBVIOUS
  <2>3. \A i \in 1..k : g[i] = IF i = 1 THEN q[i] ELSE g[i - 1] \o q[i]
    BY <2>1 DEF Flattening
  <2>4. \A i \in 1..(k + 1) : h[i] = IF i = 1 THEN q[i] ELSE h[i - 1] \o q[i]
    <3> SUFFICES ASSUME NEW i \in 1..(k + 1)
                 PROVE  h[i] = IF i = 1 THEN q[i] ELSE h[i - 1] \o q[i]
      OBVIOUS
    <3>1. CASE i \in 1..k
      BY <2>2, <2>3, <3>1
    <3>2. CASE i = k + 1
      BY <2>2, <3>2
    <3> QED
      BY <2>2, <3>1, <3>2
  <2>5. h = [i \in 1..(k + 1) |-> IF i = 1 THEN q[i] ELSE h[i - 1] \o q[i]]
    <3>1. DOMAIN h = 1..(k + 1) /\ h = [i \in 1..(k + 1) |-> h[i]]
      OBVIOUS
    <3> HIDE DEF h
    <3> QED
      BY <2>4, <3>1
  <2> HIDE DEF h
  <2>6. Flattening(q, k + 1, h)
    BY <2>5 DEF Flattening
  <2> QED
    BY <2>6
<1> HIDE DEF S
<1>3. n \in S
  BY <1>1, <1>2, AllNumbers
<1> QED
  BY <1>3 DEF S

LEMMA FlatteningAt ==
  ASSUME NEW q, NEW n \in Nat, NEW g, Flattening(q, n, g), NEW i \in 1..n
  PROVE  g[i] = IF i = 1 THEN q[i] ELSE g[i - 1] \o q[i]
<1> DEFINE step(j) == IF j = 1 THEN q[j] ELSE g[j - 1] \o q[j]
<1>1. g = [j \in 1..n |-> step(j)]
  BY DEF Flattening
<1> HIDE DEF step
<1>2. g[i] = step(i)
  BY <1>1
<1> QED
  BY <1>2 DEF step

\* is the same as far as two lists are the same,
LEMMA FlatteningUnique ==
  ASSUME NEW q, NEW r, NEW m \in Nat, NEW n \in Nat, m <= n,
         NEW g, Flattening(q, m, g), NEW h, Flattening(r, n, h),
         \A i \in 1..m : q[i] = r[i]
  PROVE  \A i \in 1..m : g[i] = h[i]
<1> DEFINE S == {k \in Nat : k \in 1..m => g[k] = h[k]}
<1>1. 0 \in S
  OBVIOUS
<1>2. ASSUME NEW k \in Nat, k \in S PROVE k + 1 \in S
  <2> SUFFICES ASSUME k + 1 \in 1..m PROVE g[k + 1] = h[k + 1]
    OBVIOUS
  <2>1. /\ k + 1 \in 1..n /\ (k + 1) - 1 = k
        /\ k + 1 = 1 \/ k \in 1..m
        /\ k + 1 # 1 => g[k] = h[k]
    BY <1>2
  <2>a. PICK i : i = k + 1
    OBVIOUS
  <2>2. g[i] = IF i = 1 THEN q[i] ELSE g[i - 1] \o q[i]
    BY <2>a, FlatteningAt
  <2>3. h[i] = IF i = 1 THEN r[i] ELSE h[i - 1] \o r[i]
    BY <2>1, <2>a, FlatteningAt
  <2>4. q[i] = r[i] /\ i - 1 = k
    BY <2>a
  <2> QED
    BY <2>1, <2>2, <2>3, <2>4, <2>a
<1> HIDE DEF S
<1>3. \A k \in Nat : k \in S
  BY <1>1, <1>2, AllNumbers
<1> QED
  BY <1>3 DEF S

\* and is what FlattenSeq reads its result from.
LEMMA FlattenIs ==
  ASSUME NEW q, Len(q) \in Nat \ {0}
  PROVE  \E g : Flattening(q, Len(q), g) /\ SeqX!FlattenSeq(q) = g[Len(q)]
<1>1. \E g : Flattening(q, Len(q), g)
  BY FlatteningExists
<1>2. \E g : g = [i \in 1..Len(q) |-> IF i = 1 THEN q[i] ELSE g[i - 1] \o q[i]]
  BY <1>1 DEF Flattening
<1> DEFINE g == CHOOSE g : g = [i \in 1..Len(q) |-> IF i = 1 THEN q[i] ELSE g[i - 1] \o q[i]]
<1>3. g = [i \in 1..Len(q) |-> IF i = 1 THEN q[i] ELSE g[i - 1] \o q[i]]
  BY <1>2
<1>4. SeqX!FlattenSeq(q) = g[Len(q)]
  BY DEF SeqX!FlattenSeq
<1> HIDE DEF g
<1> QED
  BY <1>3, <1>4, Zenon DEF Flattening

\* A list of lists.
IsLists(q) == IsList(q) /\ \A i \in DOMAIN q : IsList(q[i])
Front(q) == SubSeq(q, 1, Len(q) - 1)

LEMMA ConcatEmpty ==
  ASSUME NEW p, IsList(p)
  PROVE  <<>> \o p = p /\ p \o <<>> = p
BY ConcatEmptySeq DEF IsList

LEMMA ConcatAgain ==
  ASSUME NEW p, IsList(p), NEW q, IsList(q), NEW r, IsList(r)
  PROVE  (p \o q) \o r = p \o (q \o r)
<1> DEFINE S == Elements(p) \cup Elements(q) \cup Elements(r)
<1>1. p \in Seq(S) /\ q \in Seq(S) /\ r \in Seq(S)
  BY SeqMonotonic DEF IsList
<1> QED
  BY <1>1, ConcatAssociative

\* FlattenSeq from the end: nothing of nothing, and the last list after the rest.
LEMMA FlattenNothing == SeqX!FlattenSeq(<<>>) = <<>>
<1>1. Len(<<>>) = 0
  BY EmptyList, ListFacts
<1> QED
  BY <1>1 DEF SeqX!FlattenSeq

LEMMA FlattenLast ==
  ASSUME NEW q, IsLists(q), q # <<>>
  PROVE  SeqX!FlattenSeq(q) = SeqX!FlattenSeq(Front(q)) \o q[Len(q)]
<1>1. PICK n \in Nat : Len(q) = n + 1
  <2>1. Len(q) \in Nat \ {0}
    BY ListFront DEF IsLists
  <2>2. Len(q) - 1 \in Nat /\ Len(q) = (Len(q) - 1) + 1
    BY <2>1
  <2> QED
    BY <2>2
<1>2. /\ DOMAIN q = 1..(n + 1) /\ IsList(Front(q)) /\ Len(Front(q)) = n
      /\ \A i \in 1..n : Front(q)[i] = q[i]
  BY <1>1, ListFront DEF IsLists, Front
<1>3. PICK g : Flattening(q, n + 1, g) /\ SeqX!FlattenSeq(q) = g[n + 1]
  BY <1>1, FlattenIs
<1>4. n + 1 \in 1..(n + 1) /\ IsList(q[n + 1])
  BY <1>2 DEF IsLists
<1>5. CASE n = 0
  <2>1. Front(q) = <<>>
    BY <1>2, <1>5, ListFacts
  <2>2. g[n + 1] = q[n + 1]
    BY <1>3, <1>4, <1>5 DEF Flattening
  <2> QED
    BY <1>1, <1>3, <1>4, <2>1, <2>2, FlattenNothing, ConcatEmpty
<1>6. CASE n # 0
  <2>1. PICK h : Flattening(Front(q), n, h) /\ SeqX!FlattenSeq(Front(q)) = h[n]
    BY <1>2, <1>6, FlattenIs
  <2>2. n <= n + 1 /\ n \in 1..n /\ n + 1 # 1 /\ (n + 1) - 1 = n /\ n + 1 \in Nat
    BY <1>6
  <2>3. h[n] = g[n]
    BY <1>2, <1>3, <2>1, <2>2, FlatteningUnique
  <2>4. g[n + 1] = g[n] \o q[n + 1]
    BY <1>3, <1>4, <2>2 DEF Flattening
  <2> QED
    BY <1>1, <1>3, <2>1, <2>3, <2>4
<1> QED
  BY <1>5, <1>6

\* Flattening goes through a list of lists from the end.
LEMMA FrontOfLists ==
  ASSUME NEW q, IsLists(q), q # <<>>
  PROVE  /\ IsLists(Front(q)) /\ Len(Front(q)) + 1 = Len(q) /\ Len(Front(q)) \in Nat
         /\ DOMAIN Front(q) = 1..Len(Front(q)) /\ DOMAIN q = 1..(Len(Front(q)) + 1)
         /\ \A i \in DOMAIN Front(q) : Front(q)[i] = q[i] /\ i \in DOMAIN q
         /\ Len(q) \in DOMAIN q /\ IsList(q[Len(q)])
<1>1. /\ Len(q) \in Nat \ {0} /\ DOMAIN q = 1..Len(q)
      /\ IsList(Front(q)) /\ Len(Front(q)) = Len(q) - 1
      /\ DOMAIN Front(q) = 1..(Len(q) - 1)
      /\ \A i \in 1..(Len(q) - 1) : Front(q)[i] = q[i]
  BY ListFront DEF IsLists, Front
<1>2. PICK n \in Nat \ {0} : n = Len(q)
  BY <1>1
<1>3. n - 1 \in Nat /\ (n - 1) + 1 = n /\ n \in 1..n /\ \A i \in 1..(n - 1) : i \in 1..n
  BY <1>2
<1>4. \A i \in 1..(n - 1) : IsList(Front(q)[i])
  BY <1>1, <1>2, <1>3 DEF IsLists
<1> QED
  BY <1>1, <1>2, <1>3, <1>4 DEF IsLists

\* What is in a flattened list is what is in one of its lists.
LEMMA FlattenElements ==
  ASSUME NEW q, IsLists(q)
  PROVE  /\ IsList(SeqX!FlattenSeq(q))
         /\ \A x : x \in Elements(SeqX!FlattenSeq(q)) <=> \E i \in DOMAIN q : x \in Elements(q[i])
<1> DEFINE Holds(r) == /\ IsList(SeqX!FlattenSeq(r))
                       /\ \A x : x \in Elements(SeqX!FlattenSeq(r)) <=>
                                   \E i \in DOMAIN r : x \in Elements(r[i])
           S == {n \in Nat : \A r : IsLists(r) /\ Len(r) = n => Holds(r)}
<1>1. 0 \in S
  <2> SUFFICES ASSUME NEW r, IsLists(r), Len(r) = 0 PROVE Holds(r)
    OBVIOUS
  <2>1. r = <<>> /\ DOMAIN r = {}
    BY EmptyList, ListFacts DEF IsLists
  <2> QED
    BY <2>1, FlattenNothing, EmptyList
<1>2. ASSUME NEW n \in Nat, n \in S PROVE n + 1 \in S
  <2> SUFFICES ASSUME NEW r, IsLists(r), Len(r) = n + 1 PROVE Holds(r)
    OBVIOUS
  <2>1. r # <<>>
    BY EmptyList, ListFacts
  <2>2. /\ IsLists(Front(r)) /\ Len(Front(r)) = n /\ DOMAIN Front(r) = 1..n
        /\ DOMAIN r = 1..(n + 1)
        /\ \A i \in 1..n : Front(r)[i] = r[i]
        /\ IsList(r[n + 1])
    BY <2>1, FrontOfLists
  <2>3. Holds(Front(r))
    BY <1>2, <2>2
  <2>4. SeqX!FlattenSeq(r) = SeqX!FlattenSeq(Front(r)) \o r[n + 1]
    BY <2>1, FlattenLast
  <2>5. \A i : i \in 1..(n + 1) <=> i \in 1..n \/ i = n + 1
    OBVIOUS
  <2>6. /\ IsList(SeqX!FlattenSeq(r))
        /\ Elements(SeqX!FlattenSeq(r))
             = Elements(SeqX!FlattenSeq(Front(r))) \cup Elements(r[n + 1])
    BY <2>2, <2>3, <2>4, ListConcat
  <2>7. ASSUME NEW x
        PROVE  x \in Elements(SeqX!FlattenSeq(r)) <=> \E i \in DOMAIN r : x \in Elements(r[i])
    BY <2>2, <2>3, <2>5, <2>6
  <2> QED
    BY <2>6, <2>7
<1> HIDE DEF S
<1>3. Len(q) \in S
  <2>1. Len(q) \in Nat
    BY ListFacts DEF IsLists
  <2> QED
    BY <1>1, <1>2, <2>1, AllNumbers
<1> QED
  BY <1>3 DEF S

\* The list s is p and then q.
Follows(p, q, s) ==
  /\ IsList(s) /\ Len(p) \in Nat /\ Len(q) \in Nat /\ Len(s) = Len(p) + Len(q)
  /\ DOMAIN p = 1..Len(p) /\ DOMAIN q = 1..Len(q) /\ DOMAIN s = 1..(Len(p) + Len(q))
  /\ \A i \in 1..Len(p) : s[i] = p[i] /\ i \in DOMAIN s
  /\ \A i \in 1..Len(q) : s[Len(p) + i] = q[i] /\ Len(p) + i \in DOMAIN s
  /\ \A i \in DOMAIN s : i \in 1..Len(p) \/ \E j \in 1..Len(q) : i = Len(p) + j /\ i > Len(p)

LEMMA ConcatFollows ==
  ASSUME NEW p, IsList(p), NEW q, IsList(q)
  PROVE  Follows(p, q, p \o q)
<1> DEFINE S == Elements(p) \cup Elements(q)
<1>1. p \in Seq(S) /\ q \in Seq(S)
  BY SeqMonotonic DEF IsList
<1>2. PICK m \in Nat, n \in Nat : m = Len(p) /\ n = Len(q)
  BY ListFacts
<1>3. DOMAIN p = 1..m /\ DOMAIN q = 1..n
  BY <1>2, ListFacts
<1> HIDE DEF S
<1>4. /\ p \o q \in Seq(S)
      /\ Len(p \o q) = m + n
      /\ \A i \in 1..(m + n) : (p \o q)[i] = IF i <= m THEN p[i] ELSE q[i - m]
  BY <1>1, <1>2, ConcatProperties
<1>5. DOMAIN (p \o q) = 1..(m + n) /\ IsList(p \o q)
  BY <1>4, LenProperties, ListIn
<1>6. /\ \A i \in 1..m : i \in 1..(m + n) /\ i <= m
      /\ \A i \in 1..n : m + i \in 1..(m + n) /\ ~(m + i <= m) /\ (m + i) - m = i
      /\ \A i \in 1..(m + n) : i \in 1..m \/ (i > m /\ i - m \in 1..n /\ i = m + (i - m))
  OBVIOUS
<1> QED
  BY <1>2, <1>3, <1>4, <1>5, <1>6 DEF Follows

\* Lists of one length with the same in each place are one list.
LEMMA SameList ==
  ASSUME NEW p, IsList(p), NEW q, IsList(q), Len(p) = Len(q), \A i \in 1..Len(p) : p[i] = q[i]
  PROVE  p = q
<1> DEFINE S == Elements(p) \cup Elements(q)
<1>1. p \in Seq(S) /\ q \in Seq(S)
  BY SeqMonotonic DEF IsList
<1> QED
  BY <1>1, SeqEqual

LEMMA FrontOfConcat ==
  ASSUME NEW p, IsLists(p), NEW r, IsLists(r), r # <<>>
  PROVE  /\ IsLists(p \o r) /\ p \o r # <<>>
         /\ Front(p \o r) = p \o Front(r)
         /\ (p \o r)[Len(p \o r)] = r[Len(r)]
<1>1. PICK m \in Nat, n \in Nat : m = Len(p) /\ n = Len(Front(r))
  BY FrontOfLists, ListFacts DEF IsLists
<1>2. PICK pr, f, pf : pr = p \o r /\ f = Front(r) /\ pf = p \o f
  OBVIOUS
<1>3. /\ IsLists(f) /\ DOMAIN f = 1..n /\ Len(f) = n /\ DOMAIN r = 1..(n + 1) /\ Len(r) = n + 1
      /\ \A i \in 1..n : f[i] = r[i]
  BY <1>1, <1>2, FrontOfLists
<1>4. /\ IsList(pr) /\ Len(pr) = m + (n + 1) /\ DOMAIN pr = 1..(m + (n + 1))
      /\ DOMAIN p = 1..m
      /\ \A i \in 1..m : pr[i] = p[i]
      /\ \A i \in 1..(n + 1) : pr[m + i] = r[i]
      /\ \A i \in DOMAIN pr : i \in 1..m \/ \E j \in 1..(n + 1) : i = m + j
  <2>1. IsList(p) /\ IsList(r)
    BY DEF IsLists
  <2>2. Follows(p, r, pr)
    BY <1>2, <2>1, ConcatFollows
  <2> QED
    BY <1>1, <1>3, <2>2 DEF Follows
<1>5. /\ IsList(pf) /\ Len(pf) = m + n /\ DOMAIN pf = 1..(m + n)
      /\ \A i \in 1..m : pf[i] = p[i]
      /\ \A i \in 1..n : pf[m + i] = f[i]
      /\ \A i \in DOMAIN pf : i \in 1..m \/ \E j \in 1..n : i = m + j
  <2>1. IsList(p) /\ IsList(f)
    BY <1>3 DEF IsLists
  <2>2. Follows(p, f, pf)
    BY <1>2, <2>1, ConcatFollows
  <2> QED
    BY <1>1, <1>3, <2>2 DEF Follows
<1>6. \A i \in DOMAIN pr : IsList(pr[i])
  <2>1. (\A i \in 1..m : IsList(p[i])) /\ (\A i \in 1..(n + 1) : IsList(r[i]))
    BY <1>3, <1>4 DEF IsLists
  <2> QED
    BY <1>4, <2>1
<1>7. pr # <<>>
  BY <1>4, EmptyList, ListFacts
<1>8. IsList(Front(pr)) /\ Len(Front(pr)) = m + n /\ \A i \in 1..(m + n) : Front(pr)[i] = pr[i]
  <2>1. Len(pr) - 1 = m + n
    BY <1>4
  <2>2. /\ IsList(Front(pr)) /\ Len(Front(pr)) = Len(pr) - 1
        /\ \A i \in 1..(Len(pr) - 1) : Front(pr)[i] = pr[i]
    BY <1>4, <1>7, ListFront DEF Front
  <2> QED
    BY <2>1, <2>2
<1>9. ASSUME NEW i \in 1..(m + n) PROVE Front(pr)[i] = pf[i]
  <2>1. CASE i \in 1..m
    BY <1>4, <1>5, <1>8, <1>9, <2>1
  <2>2. CASE i \notin 1..m
    <3>1. PICK j \in 1..n : i = m + j
      BY <1>5, <1>9, <2>2
    <3>2. j \in 1..(n + 1)
      OBVIOUS
    <3> QED
      BY <1>3, <1>4, <1>5, <1>8, <3>1, <3>2
  <2> QED
    BY <2>1, <2>2
<1>10. Front(pr) = pf
  BY <1>5, <1>8, <1>9, SameList
<1>11. pr[Len(pr)] = r[Len(r)]
  <2>1. n + 1 \in 1..(n + 1)
    OBVIOUS
  <2> QED
    BY <1>3, <1>4, <2>1
<1> QED
  BY <1>2, <1>4, <1>6, <1>7, <1>10, <1>11 DEF IsLists

\* FlattenSeq of two lists of lists end to end is what it is of each, end to end.
LEMMA FlattenConcat ==
  ASSUME NEW p, IsLists(p), NEW q, IsLists(q)
  PROVE  SeqX!FlattenSeq(p \o q) = SeqX!FlattenSeq(p) \o SeqX!FlattenSeq(q)
<1> DEFINE S == {n \in Nat : \A r : IsLists(r) /\ Len(r) = n =>
                   SeqX!FlattenSeq(p \o r) = SeqX!FlattenSeq(p) \o SeqX!FlattenSeq(r)}
<1>1. 0 \in S
  <2> SUFFICES ASSUME NEW r, IsLists(r), Len(r) = 0
               PROVE  SeqX!FlattenSeq(p \o r) = SeqX!FlattenSeq(p) \o SeqX!FlattenSeq(r)
    OBVIOUS
  <2>1. r = <<>>
    BY ListFacts DEF IsLists
  <2>2. p \o r = p
    BY <2>1, ConcatEmpty DEF IsLists
  <2>3. SeqX!FlattenSeq(r) = <<>>
    BY <2>1, FlattenNothing
  <2>4. SeqX!FlattenSeq(p) \o <<>> = SeqX!FlattenSeq(p)
    BY FlattenElements, ConcatEmpty
  <2> QED
    BY <2>2, <2>3, <2>4
<1>2. ASSUME NEW n \in Nat, n \in S PROVE n + 1 \in S
  <2> SUFFICES ASSUME NEW r, IsLists(r), Len(r) = n + 1
               PROVE  SeqX!FlattenSeq(p \o r) = SeqX!FlattenSeq(p) \o SeqX!FlattenSeq(r)
    OBVIOUS
  <2>1. r # <<>>
    BY EmptyList, ListFacts
  <2>2. IsLists(Front(r)) /\ Len(Front(r)) = n /\ IsList(r[Len(r)])
    BY <2>1, FrontOfLists
  <2>3. /\ SeqX!FlattenSeq(p \o Front(r)) = SeqX!FlattenSeq(p) \o SeqX!FlattenSeq(Front(r))
        /\ SeqX!FlattenSeq(r) = SeqX!FlattenSeq(Front(r)) \o r[Len(r)]
    BY <1>2, <2>1, <2>2, FlattenLast
  <2>4. SeqX!FlattenSeq(p \o r) = SeqX!FlattenSeq(p \o Front(r)) \o r[Len(r)]
    <3> DEFINE pr == p \o r
    <3>1. /\ IsLists(pr) /\ pr # <<>>
          /\ Front(pr) = p \o Front(r)
          /\ pr[Len(pr)] = r[Len(r)]
      BY <2>1, FrontOfConcat
    <3> HIDE DEF pr
    <3>2. SeqX!FlattenSeq(pr) = SeqX!FlattenSeq(Front(pr)) \o pr[Len(pr)]
      BY <3>1, FlattenLast
    <3>3. SeqX!FlattenSeq(pr) = SeqX!FlattenSeq(p \o Front(r)) \o r[Len(r)]
      BY <3>1, <3>2
    <3> QED
      BY <3>3 DEF pr
  <2>5. IsList(SeqX!FlattenSeq(p)) /\ IsList(SeqX!FlattenSeq(Front(r)))
    BY <2>2, FlattenElements
  <2>6. (SeqX!FlattenSeq(p) \o SeqX!FlattenSeq(Front(r))) \o r[Len(r)]
          = SeqX!FlattenSeq(p) \o (SeqX!FlattenSeq(Front(r)) \o r[Len(r)])
    <3>1. PICK a, b, c : a = SeqX!FlattenSeq(p) /\ b = SeqX!FlattenSeq(Front(r)) /\ c = r[Len(r)]
      OBVIOUS
    <3>2. IsList(a) /\ IsList(b) /\ IsList(c)
      BY <2>2, <2>5, <3>1
    <3>3. (a \o b) \o c = a \o (b \o c)
      BY ONLY <3>2, ConcatAgain, SMTT(30)
    <3> QED
      BY <3>1, <3>3
  <2> QED
    BY <2>3, <2>4, <2>6, Zenon
<1> HIDE DEF S
<1>3. Len(q) \in S
  <2>1. Len(q) \in Nat
    BY ListFacts DEF IsLists
  <2> QED
    BY <1>1, <1>2, <2>1, AllNumbers
<1> QED
  BY <1>3 DEF S

LEMMA OneInList ==
  ASSUME NEW e
  PROVE  /\ IsList(<<e>>) /\ Len(<<e>>) = 1 /\ DOMAIN <<e>> = 1..1 /\ <<e>>[1] = e
         /\ Elements(<<e>>) = {e} /\ <<e>> # <<>>
<1>1. <<e>> \in Seq({e})
  OBVIOUS
<1>2. IsList(<<e>>)
  BY <1>1, ListIn
<1>3. Len(<<e>>) = 1 /\ <<e>>[1] = e
  OBVIOUS
<1>4. DOMAIN <<e>> = 1..1 /\ <<e>> # <<>>
  BY <1>2, <1>3, ListFacts
<1>5. \A i \in 1..1 : i = 1
  OBVIOUS
<1> QED
  BY <1>2, <1>3, <1>4, <1>5 DEF Elements

LEMMA FlattenOne ==
  ASSUME NEW q, IsList(q), Len(q) = 1, IsList(q[1])
  PROVE  SeqX!FlattenSeq(q) = q[1]
<1>1. Len(q) \in Nat \ {0}
  OBVIOUS
<1>2. PICK g : Flattening(q, Len(q), g) /\ SeqX!FlattenSeq(q) = g[Len(q)]
  BY <1>1, FlattenIs
<1>3. Flattening(q, 1, g) /\ SeqX!FlattenSeq(q) = g[1]
  BY <1>2
<1>4. 1 \in 1..1
  OBVIOUS
<1> QED
  BY <1>3, <1>4, Zenon DEF Flattening

Fields == {"signals", "transitions", "reactions"}

\* What the files of a list have in a field, one after the other.
Column(L, field, d) == [i \in DOMAIN L |-> d[L[i]][field]]
Gathered(L, field, d) == SeqX!FlattenSeq(Column(L, field, d))

LEMMA ColumnIsLists ==
  ASSUME NEW L, IsList(L), NEW field \in Fields, NEW d, \A f \in Elements(L) : IsSchema(d[f])
  PROVE  /\ IsLists(Column(L, field, d)) /\ DOMAIN Column(L, field, d) = DOMAIN L
         /\ \A i \in DOMAIN L : Column(L, field, d)[i] = d[L[i]][field]
<1>1. \A i \in DOMAIN L : IsSchema(d[L[i]])
  BY DEF Elements
<1>2. \A i \in DOMAIN L : IsList(d[L[i]][field])
  BY <1>1 DEF IsSchema, Fields
<1>3. IsList(Column(L, field, d))
  <2>1. Column(L, field, d) = [i \in DOMAIN L |-> Column(L, field, d)[i]]
    BY DEF Column
  <2> QED
    BY <2>1, ListImage
<1>4. /\ DOMAIN Column(L, field, d) = DOMAIN L
      /\ \A i \in DOMAIN L : Column(L, field, d)[i] = d[L[i]][field]
  BY DEF Column
<1> QED
  BY <1>2, <1>3, <1>4 DEF IsLists

LEMMA SameLen ==
  ASSUME NEW p, IsList(p), NEW q, IsList(q), DOMAIN p = DOMAIN q
  PROVE  Len(p) = Len(q)
<1>1. PICK m \in Nat, n \in Nat : m = Len(p) /\ n = Len(q)
  BY ListFacts
<1>2. 1..m = 1..n
  BY <1>1, ListFacts
<1>3. m = n
  <2>1. \A k \in Nat : k \in 1..m <=> k \in 1..n
    BY <1>2
  <2>2. m # 0 => m \in 1..n
    BY <2>1
  <2>3. n # 0 => n \in 1..m
    BY <2>1
  <2> QED
    BY <2>2, <2>3
<1> QED
  BY <1>1, <1>3

\* Files end to end have their fields end to end.
LEMMA GatheredConcat ==
  ASSUME NEW p, IsList(p), NEW q, IsList(q), NEW field \in Fields, NEW d,
         \A f \in Elements(p) \cup Elements(q) : IsSchema(d[f])
  PROVE  Gathered(p \o q, field, d) = Gathered(p, field, d) \o Gathered(q, field, d)
<1>1. PICK s, cp, cq, cs, cc :
        /\ s = p \o q /\ cp = Column(p, field, d) /\ cq = Column(q, field, d)
        /\ cs = Column(s, field, d) /\ cc = cp \o cq
  OBVIOUS
<1>2. Follows(p, q, s) /\ IsList(s) /\ \A f \in Elements(s) : IsSchema(d[f])
  BY <1>1, ConcatFollows, ListConcat
<1>a. (\A f \in Elements(p) : IsSchema(d[f])) /\ (\A f \in Elements(q) : IsSchema(d[f]))
  OBVIOUS
<1>b. IsLists(cp) /\ DOMAIN cp = DOMAIN p /\ \A i \in DOMAIN p : cp[i] = d[p[i]][field]
  BY <1>1, <1>a, ColumnIsLists
<1>c. IsLists(cq) /\ DOMAIN cq = DOMAIN q /\ \A i \in DOMAIN q : cq[i] = d[q[i]][field]
  BY <1>1, <1>a, ColumnIsLists
<1>d. IsLists(cs) /\ DOMAIN cs = DOMAIN s /\ \A i \in DOMAIN s : cs[i] = d[s[i]][field]
  <2>1. IsList(s) /\ \A f \in Elements(s) : IsSchema(d[f])
    BY <1>2
  <2>2. cs = Column(s, field, d)
    BY <1>1
  <2> QED
    BY <2>1, <2>2, ColumnIsLists
<1>3. /\ IsLists(cp) /\ DOMAIN cp = DOMAIN p /\ \A i \in DOMAIN p : cp[i] = d[p[i]][field]
      /\ IsLists(cq) /\ DOMAIN cq = DOMAIN q /\ \A i \in DOMAIN q : cq[i] = d[q[i]][field]
      /\ IsLists(cs) /\ DOMAIN cs = DOMAIN s /\ \A i \in DOMAIN s : cs[i] = d[s[i]][field]
  BY <1>b, <1>c, <1>d
<1>4. IsList(cp) /\ IsList(cq) /\ IsList(cs)
  BY <1>3 DEF IsLists
<1>5. Follows(cp, cq, cc) /\ IsList(cc)
  BY <1>1, <1>4, ConcatFollows, ListConcat
<1>6. Len(cp) = Len(p) /\ Len(cq) = Len(q) /\ Len(cs) = Len(s)
  BY <1>2, <1>3, <1>4, SameLen
<1>7. Len(cs) = Len(cc) /\ DOMAIN s = 1..Len(cs)
  BY <1>2, <1>5, <1>6 DEF Follows
<1>8. ASSUME NEW i \in DOMAIN s PROVE cs[i] = cc[i]
  <2>1. CASE i \in 1..Len(p)
    <3>1. i \in DOMAIN p /\ s[i] = p[i] /\ cc[i] = cp[i]
      BY <1>2, <1>5, <1>6, <2>1 DEF Follows
    <3> QED
      BY <1>3, <3>1
  <2>2. CASE i \notin 1..Len(p)
    <3>1. PICK j \in 1..Len(q) : i = Len(p) + j
      BY <1>2, <2>2 DEF Follows
    <3>2. j \in DOMAIN q /\ s[i] = q[j] /\ cc[i] = cq[j]
      BY <1>2, <1>5, <1>6, <3>1 DEF Follows
    <3> QED
      BY <1>3, <3>2
  <2> QED
    BY <2>1, <2>2
<1>9. cs = cc
  BY <1>4, <1>5, <1>7, <1>8, SameList
<1>10. SeqX!FlattenSeq(cc) = SeqX!FlattenSeq(cp) \o SeqX!FlattenSeq(cq)
  BY <1>1, <1>3, FlattenConcat
<1> QED
  BY <1>1, <1>9, <1>10 DEF Gathered

\* Of the files of L the i-th is the last that defines component n.
LastWith(i, n, L, d) ==
  /\ i \in DOMAIN L /\ n \in DOMAIN d[L[i]].components
  /\ \A j \in DOMAIN L : n \in DOMAIN d[L[j]].components => j <= i

\* The topology t is the files of the list L, put one after the other.
Describes(L, t, d) ==
  /\ IsList(L)
  /\ \A f \in Elements(L) : IsSchema(d[f])
  /\ \A field \in Fields : t[field] = Gathered(L, field, d)
  /\ \A i \in DOMAIN L : DOMAIN d[L[i]].components \subseteq DOMAIN t.components
  /\ \A n \in DOMAIN t.components :
       \E i : LastWith(i, n, L, d) /\ t.components[n] = d[L[i]].components[n]

\* A file alone is its own topology.
LEMMA OneDescribesOwn ==
  ASSUME NEW f, IsSchema(disk[f])
  PROVE  Describes(<<f>>, Own(f), disk)
<1>1. PICK L : L = <<f>>
  OBVIOUS
<1>2. IsList(L) /\ Len(L) = 1 /\ DOMAIN L = 1..1 /\ L[1] = f /\ Elements(L) = {f} /\ 1 \in 1..1
      /\ \A i \in 1..1 : i = 1
  BY <1>1, OneInList
<1>3. ASSUME NEW field \in Fields PROVE Own(f)[field] = Gathered(L, field, disk)
  <2>1. PICK c : c = Column(L, field, disk)
    OBVIOUS
  <2>2. IsLists(c) /\ DOMAIN c = DOMAIN L /\ c[1] = disk[f][field]
    BY <1>2, <2>1, ColumnIsLists
  <2>3. IsList(c) /\ IsList(c[1]) /\ Len(c) = 1
    BY <1>2, <2>2, SameLen DEF IsLists
  <2>4. SeqX!FlattenSeq(c) = c[1]
    BY <2>3, FlattenOne
  <2>5. Own(f)[field] = disk[f][field]
    BY DEF Own, Fields
  <2> QED
    BY <2>1, <2>2, <2>4, <2>5 DEF Gathered
<1>4. Own(f).components = disk[f].components
  BY DEF Own
<1>5. \A n \in DOMAIN Own(f).components :
        \E i : LastWith(i, n, L, disk) /\ Own(f).components[n] = disk[L[i]].components[n]
  BY <1>2, <1>4 DEF LastWith
<1> QED
  BY <1>1, <1>2, <1>3, <1>4, <1>5 DEF Describes

\* What the merge of two topologies (merge_in) is, if each is a list of files.
LEMMA DescribesMerged ==
  ASSUME NEW p, NEW a, NEW q, NEW b, NEW d, Describes(p, a, d), Describes(q, b, d)
  PROVE  Describes(p \o q, Merged(a, b), d)
<1>1. PICK s, t : s = p \o q /\ t = Merged(a, b)
  OBVIOUS
<1>2. IsList(p) /\ IsList(q)
  BY DEF Describes
<1>3. Follows(p, q, s) /\ IsList(s) /\ Elements(s) = Elements(p) \cup Elements(q)
  BY <1>1, <1>2, ConcatFollows, ListConcat
<1>4. \A f \in Elements(p) \cup Elements(q) : IsSchema(d[f])
  BY DEF Describes
<1>5. ASSUME NEW field \in Fields PROVE t[field] = Gathered(s, field, d)
  <2>1. /\ t.signals = a.signals \o b.signals
        /\ t.transitions = a.transitions \o b.transitions
        /\ t.reactions = a.reactions \o b.reactions
    BY <1>1 DEF Merged
  <2>4. t[field] = a[field] \o b[field]
    BY <2>1 DEF Fields
  <2>2. a[field] = Gathered(p, field, d) /\ b[field] = Gathered(q, field, d)
    BY DEF Describes
  <2> QED
    BY <1>1, <1>2, <1>4, <2>4, <2>2, GatheredConcat
<1>6. /\ DOMAIN t.components = DOMAIN a.components \cup DOMAIN b.components
      /\ \A n \in DOMAIN b.components : t.components[n] = b.components[n]
      /\ \A n \in DOMAIN a.components \ DOMAIN b.components : t.components[n] = a.components[n]
  BY <1>1 DEF Merged
<1>7. PICK m \in Nat, k \in Nat : m = Len(p) /\ k = Len(q)
  BY <1>2, ListFacts
<1>8. /\ DOMAIN p = 1..m /\ DOMAIN q = 1..k
      /\ \A i \in 1..m : s[i] = p[i] /\ i \in DOMAIN s
      /\ \A i \in 1..k : s[m + i] = q[i] /\ m + i \in DOMAIN s
      /\ \A i \in DOMAIN s : i \in 1..m \/ \E j \in 1..k : i = m + j /\ i > m
  BY <1>3, <1>7 DEF Follows
<1>9. /\ \A i \in 1..m : DOMAIN d[p[i]].components \subseteq DOMAIN a.components
      /\ \A i \in 1..k : DOMAIN d[q[i]].components \subseteq DOMAIN b.components
  BY <1>8 DEF Describes
<1>10. \A i \in DOMAIN s : DOMAIN d[s[i]].components \subseteq DOMAIN t.components
  BY <1>6, <1>8, <1>9
<1>11. ASSUME NEW n \in DOMAIN t.components
       PROVE  \E i : LastWith(i, n, s, d) /\ t.components[n] = d[s[i]].components[n]
  <2>1. CASE n \in DOMAIN b.components
    <3>1. PICK i : LastWith(i, n, q, d) /\ b.components[n] = d[q[i]].components[n]
      BY <2>1 DEF Describes
    <3>2. i \in 1..k /\ n \in DOMAIN d[q[i]].components
      BY <1>8, <3>1 DEF LastWith
    <3>3. \A j \in 1..k : n \in DOMAIN d[q[j]].components => j <= i
      BY <1>8, <3>1 DEF LastWith
    <3>4. /\ \A j \in 1..m : j <= m + i
          /\ \A j \in 1..k : j <= i => m + j <= m + i
      BY <3>2
    <3>5. m + i \in DOMAIN s /\ s[m + i] = q[i]
      BY <1>8, <3>2
    <3>6. ASSUME NEW j \in DOMAIN s, n \in DOMAIN d[s[j]].components PROVE j <= m + i
      <4>1. CASE j \in 1..m
        BY <3>4, <4>1
      <4>2. CASE \E l \in 1..k : j = m + l
        <5>1. PICK l \in 1..k : j = m + l
          BY <4>2
        <5>2. s[j] = q[l]
          BY <1>8, <5>1
        <5>3. l <= i
          BY <3>3, <3>6, <5>2
        <5> QED
          BY <3>4, <5>1, <5>3
      <4> QED
        BY <1>8, <4>1, <4>2
    <3>7. LastWith(m + i, n, s, d)
      BY <3>2, <3>5, <3>6 DEF LastWith
    <3> QED
      BY <1>6, <2>1, <3>1, <3>5, <3>7
  <2>2. CASE n \notin DOMAIN b.components
    <3>1. n \in DOMAIN a.components
      BY <1>6, <2>2
    <3>2. PICK i : LastWith(i, n, p, d) /\ a.components[n] = d[p[i]].components[n]
      BY <3>1 DEF Describes
    <3>3. i \in 1..m /\ n \in DOMAIN d[p[i]].components
      BY <1>8, <3>2 DEF LastWith
    <3>4. \A j \in 1..m : n \in DOMAIN d[p[j]].components => j <= i
      BY <1>8, <3>2 DEF LastWith
    <3>5. i \in DOMAIN s /\ s[i] = p[i]
      BY <1>8, <3>3
    <3>6. ASSUME NEW j \in DOMAIN s, n \in DOMAIN d[s[j]].components PROVE j <= i
      <4>1. CASE j \in 1..m
        BY <1>8, <3>4, <3>6, <4>1
      <4>2. CASE \E l \in 1..k : j = m + l
        BY <1>8, <1>9, <2>2, <3>6, <4>2
      <4> QED
        BY <1>8, <4>1, <4>2
    <3>7. LastWith(i, n, s, d)
      BY <3>3, <3>5, <3>6 DEF LastWith
    <3> QED
      BY <1>6, <2>2, <3>1, <3>2, <3>5, <3>7
  <2> QED
    BY <2>1, <2>2
<1>12. \A f \in Elements(s) : IsSchema(d[f])
  BY <1>3, <1>4
<1> QED
  BY <1>1, <1>3, <1>5, <1>10, <1>11, <1>12 DEF Describes

-----------------------------------------------------------------------------
(* The order of the files                                                  *)

\* The lists that o has for the first m includes of file f, and f before them.
Parts(f, o, m, d) == [i \in 1..m |-> o[d[f].includes[i]]]
Unrolled(f, o, m, d) == <<f>> \o SeqX!FlattenSeq(Parts(f, o, m, d))

\* They are lists if each is; with one more include its list comes at the end.
LEMMA PartsAreLists ==
  ASSUME NEW f, NEW o, NEW m \in Nat, NEW d, \A i \in 1..m : IsList(o[d[f].includes[i]])
  PROVE  /\ IsLists(Parts(f, o, m, d)) /\ Len(Parts(f, o, m, d)) = m
         /\ DOMAIN Parts(f, o, m, d) = 1..m
         /\ \A i \in 1..m : Parts(f, o, m, d)[i] = o[d[f].includes[i]]
<1> DEFINE q == Parts(f, o, m, d)
           S == {q[i] : i \in 1..m}
<1>1. DOMAIN q = 1..m /\ \A i \in 1..m : q[i] = o[d[f].includes[i]]
  BY DEF Parts
<1>2. q \in [1..m -> S]
  BY DEF Parts
<1>3. q \in Seq(S)
  BY <1>2, SeqDef
<1> HIDE DEF q, S
<1>4. IsList(q) /\ Len(q) = m
  BY <1>1, <1>3, ListIn, LenProperties
<1> QED
  BY <1>1, <1>4 DEF q, IsLists

LEMMA UnrolledNone ==
  ASSUME NEW f, NEW o, NEW d
  PROVE  Unrolled(f, o, 0, d) = <<f>>
<1>1. Len(Parts(f, o, 0, d)) = 0 /\ IsList(Parts(f, o, 0, d))
  <2>1. PICK z \in Nat : z = 0
    OBVIOUS
  <2>2. \A i \in 1..z : IsList(o[d[f].includes[i]])
    BY <2>1
  <2>3. IsLists(Parts(f, o, z, d)) /\ Len(Parts(f, o, z, d)) = z
    BY <2>2, PartsAreLists
  <2> QED
    BY <2>1, <2>3 DEF IsLists
<1>2. Parts(f, o, 0, d) = <<>>
  BY <1>1, ListFacts
<1> QED
  BY <1>2, FlattenNothing, ConcatEmpty, OneInList DEF Unrolled

LEMMA UnrolledNext ==
  ASSUME NEW f, NEW o, NEW m \in Nat, NEW d, \A i \in 1..(m + 1) : IsList(o[d[f].includes[i]])
  PROVE  /\ IsList(Unrolled(f, o, m, d))
         /\ Unrolled(f, o, m + 1, d) = Unrolled(f, o, m, d) \o o[d[f].includes[m + 1]]
<1>1. PICK p, q : p = Parts(f, o, m, d) /\ q = Parts(f, o, m + 1, d)
  OBVIOUS
<1>2. /\ m + 1 \in Nat /\ m + 1 # 0 /\ (m + 1) - 1 = m /\ m + 1 \in 1..(m + 1)
      /\ \A i \in 1..m : i \in 1..(m + 1)
  OBVIOUS
<1>3. IsLists(p) /\ Len(p) = m /\ \A i \in 1..m : p[i] = o[d[f].includes[i]]
  BY <1>1, <1>2, PartsAreLists
<1>4. IsLists(q) /\ Len(q) = m + 1 /\ \A i \in 1..(m + 1) : q[i] = o[d[f].includes[i]]
  BY <1>1, <1>2, PartsAreLists
<1>5. q # <<>> /\ IsList(q) /\ IsList(p)
  BY <1>2, <1>3, <1>4, ListFacts DEF IsLists
<1>6. Front(q) = p
  <2>1. IsList(Front(q)) /\ Len(Front(q)) = m /\ \A i \in 1..m : Front(q)[i] = q[i]
    BY <1>2, <1>4, <1>5, ListFront DEF Front
  <2>2. \A i \in 1..Len(p) : p[i] = Front(q)[i]
    BY <1>2, <1>3, <1>4, <2>1
  <2> QED
    BY <1>3, <1>5, <2>1, <2>2, SameList
<1>7. SeqX!FlattenSeq(q) = SeqX!FlattenSeq(p) \o q[m + 1]
  BY <1>4, <1>5, <1>6, FlattenLast
<1>8. IsList(SeqX!FlattenSeq(p)) /\ IsList(q[m + 1]) /\ IsList(<<f>>)
  BY <1>2, <1>3, <1>4, FlattenElements, OneInList DEF IsLists
<1>9. (<<f>> \o SeqX!FlattenSeq(p)) \o q[m + 1] = <<f>> \o (SeqX!FlattenSeq(p) \o q[m + 1])
  <2>1. PICK a, b, c : a = <<f>> /\ b = SeqX!FlattenSeq(p) /\ c = q[m + 1]
    OBVIOUS
  <2>2. IsList(a) /\ IsList(b) /\ IsList(c)
    BY <1>8, <2>1
  <2>3. (a \o b) \o c = a \o (b \o c)
    BY <2>2, ConcatAgain
  <2> QED
    BY <2>1, <2>3
<1>10. IsList(<<f>> \o SeqX!FlattenSeq(p))
  BY <1>8, ListConcat
<1>11. q[m + 1] = o[d[f].includes[m + 1]]
  BY <1>2, <1>4
<1> QED
  BY <1>1, <1>7, <1>9, <1>10, <1>11 DEF Unrolled

\* Only what o has for the includes matters.
LEMMA UnrolledSame ==
  ASSUME NEW f, NEW o, NEW h, NEW m, NEW d,
         \A i \in 1..m : h[d[f].includes[i]] = o[d[f].includes[i]]
  PROVE  Unrolled(f, h, m, d) = Unrolled(f, o, m, d)
<1>1. Parts(f, h, m, d) = Parts(f, o, m, d)
  BY DEF Parts
<1> QED
  BY <1>1 DEF Unrolled

LEMMA UnrolledIsList ==
  ASSUME NEW f, NEW o, NEW m \in Nat, NEW d, \A i \in 1..m : IsList(o[d[f].includes[i]])
  PROVE  IsList(Unrolled(f, o, m, d))
<1>1. IsLists(Parts(f, o, m, d))
  BY PartsAreLists
<1> QED
  BY <1>1, FlattenElements, ListConcat, OneInList DEF Unrolled

\* The files that are complete.
Done(s, st) == {f \in s : \A k \in DOMAIN st : st[k].file # f}

\* File f of the complete files D: o has its list, itself and then the lists of its
\* includes, which were complete before it.
ListedFile(f, o, r, D, d) ==
  /\ IsSchema(d[f]) /\ IsList(o[f])
  /\ r[f] \in Nat /\ r[f] < Cardinality(D)
  /\ \A i \in 1..Len(d[f].includes) :
       d[f].includes[i] \in D /\ r[d[f].includes[i]] < r[f]
  /\ o[f] = Unrolled(f, o, Len(d[f].includes), d)

\* An open file: what it has by now is itself and the lists of the includes that
\* were followed to the end.
ListedFrame(fr, o, D, d) ==
  /\ \A i \in 1..(fr.next - 1) : d[fr.file].includes[i] \in D
  /\ Describes(Unrolled(fr.file, o, fr.next - 1, d), fr.merged, d)

ListedBy(o, r, s, st, d) ==
  /\ \A f \in Done(s, st) : ListedFile(f, o, r, Done(s, st), d)
  /\ \A k \in DOMAIN st : ListedFrame(st[k], o, Done(s, st), d)

Listed == \E o, r : ListedBy(o, r, seen, stack, disk)

\* One more file can be complete, f, with the includes it has; and it is.
OneMore(f, o, r, D, d) ==
  /\ IsFiniteSet(D) /\ f \notin D
  /\ \A g \in D : ListedFile(g, o, r, D, d)
  /\ IsSchema(d[f])
  /\ \A i \in 1..Len(d[f].includes) : d[f].includes[i] \in D
WithOneMore(oo, rr, f, o, D, d) ==
  /\ \A g \in D \cup {f} : ListedFile(g, oo, rr, D \cup {f}, d)
  /\ \A g \in D : oo[g] = o[g]
  /\ oo[f] = Unrolled(f, o, Len(d[f].includes), d)

LEMMA ListedMore ==
  ASSUME NEW f, NEW o, NEW r, NEW D, NEW d, OneMore(f, o, r, D, d)
  PROVE  \E oo, rr : WithOneMore(oo, rr, f, o, D, d)
<1> USE DEF OneMore
<1>1. PICK E : E = D \cup {f}
  OBVIOUS
<1>2. PICK c \in Nat : c = Cardinality(D)
  BY FS_CardinalityType
<1>3. Cardinality(E) = c + 1
  BY <1>1, <1>2, FS_AddElement
<1>4. PICK oo, rr : /\ oo = [g \in E |-> IF g = f THEN Unrolled(f, o, Len(d[f].includes), d)
                                         ELSE o[g]]
                    /\ rr = [g \in E |-> IF g = f THEN c ELSE r[g]]
  OBVIOUS
<1>5. /\ \A g \in D : g \in E /\ g # f /\ oo[g] = o[g] /\ rr[g] = r[g]
      /\ f \in E /\ oo[f] = Unrolled(f, o, Len(d[f].includes), d) /\ rr[f] = c
      /\ \A g \in E : g = f \/ g \in D
  BY <1>1, <1>4
<1>6. ASSUME NEW g \in D PROVE ListedFile(g, oo, rr, E, d)
  <2>1. /\ IsSchema(d[g]) /\ IsList(o[g])
        /\ r[g] \in Nat /\ r[g] < c
        /\ \A i \in 1..Len(d[g].includes) : d[g].includes[i] \in D /\ r[d[g].includes[i]] < r[g]
        /\ o[g] = Unrolled(g, o, Len(d[g].includes), d)
    BY <1>2 DEF ListedFile
  <2>2. Unrolled(g, oo, Len(d[g].includes), d) = Unrolled(g, o, Len(d[g].includes), d)
    BY <1>5, <2>1, UnrolledSame
  <2>3. r[g] < c + 1
    BY <2>1
  <2> QED
    BY <1>3, <1>5, <2>1, <2>2, <2>3 DEF ListedFile
<1>7. ListedFile(f, oo, rr, E, d)
  <2>1. Unrolled(f, oo, Len(d[f].includes), d) = Unrolled(f, o, Len(d[f].includes), d)
    BY <1>5, UnrolledSame
  <2>2. IsList(oo[f])
    <3>1. Len(d[f].includes) \in Nat
      BY ListFacts DEF IsSchema
    <3>2. \A i \in 1..Len(d[f].includes) : IsList(o[d[f].includes[i]])
      BY DEF ListedFile
    <3> QED
      BY <1>5, <3>1, <3>2, UnrolledIsList
  <2>3. \A i \in 1..Len(d[f].includes) : d[f].includes[i] \in E /\ rr[d[f].includes[i]] < c
    BY <1>2, <1>5 DEF ListedFile
  <2>4. c < c + 1
    OBVIOUS
  <2> QED
    BY <1>3, <1>5, <2>1, <2>2, <2>3, <2>4 DEF ListedFile
<1>8. \A g \in E : ListedFile(g, oo, rr, E, d)
  BY <1>5, <1>6, <1>7
<1> QED
  BY <1>1, <1>5, <1>8 DEF WithOneMore

\* What is open stays as it is when another file is complete.
LEMMA ListedFrameSame ==
  ASSUME NEW o, NEW h, NEW D, NEW f, NEW d, NEW fr,
         \A g \in D : h[g] = o[g], ListedFrame(fr, o, D, d)
  PROVE  ListedFrame(fr, h, D \cup {f}, d)
<1>1. \A i \in 1..(fr.next - 1) : d[fr.file].includes[i] \in D
  BY DEF ListedFrame
<1>2. \A i \in 1..(fr.next - 1) : h[d[fr.file].includes[i]] = o[d[fr.file].includes[i]]
  BY <1>1
<1>3. Unrolled(fr.file, h, fr.next - 1, d) = Unrolled(fr.file, o, fr.next - 1, d)
  BY <1>2, UnrolledSame
<1> QED
  BY <1>1, <1>3 DEF ListedFrame

\* Opening a file completes none; the file is its own list by now.
LEMMA OpenLists ==
  ASSUME ComposeShape, Listed, NEW f \in Files, Open(f)
  PROVE  Listed'
<1>1. PICK fr : fr = [file |-> f, merged |-> Own(f), next |-> 1]
  OBVIOUS
<1>2. /\ f \notin seen /\ disk' = disk /\ seen' = seen \cup {f} /\ stack' = Append(stack, fr)
      /\ disk[f] # Unreadable
  BY <1>1 DEF Open, Insert, Visited
<1>3. PICK n \in Nat : n = Len(stack)
  BY ListFacts DEF ComposeShape
<1>4. /\ DOMAIN stack = 1..n /\ DOMAIN stack' = 1..(n + 1)
      /\ \A k \in 1..n : stack'[k] = stack[k]
      /\ stack'[n + 1] = fr
  BY <1>2, <1>3, ListAppend DEF ComposeShape
<1>5. n + 1 \in 1..(n + 1) /\ \A k \in 1..(n + 1) : k = n + 1 \/ k \in 1..n
  OBVIOUS
<1>6. PICK D : D = Done(seen, stack)
  OBVIOUS
<1>7. Done(seen', stack') = D
  <2>1. \A k \in 1..n : k \in 1..(n + 1) /\ stack[k].file \in seen
    BY <1>4 DEF ComposeShape, IsFrame
  <2>2. fr.file = f
    BY <1>1
  <2>3. ASSUME NEW g PROVE g \in Done(seen', stack') <=> g \in D
    <3>1. g \in Done(seen', stack') <=>
            g \in seen \cup {f} /\ \A k \in 1..(n + 1) : stack'[k].file # g
      BY <1>2, <1>4 DEF Done
    <3>2. g \in D <=> g \in seen /\ \A k \in 1..n : stack[k].file # g
      BY <1>4, <1>6 DEF Done
    <3> QED
      BY <1>2, <1>4, <1>5, <2>1, <2>2, <3>1, <3>2
  <2> QED
    BY <2>3
<1>8. PICK o, r : ListedBy(o, r, seen, stack, disk)
  BY DEF Listed
<1>9. /\ \A g \in D : ListedFile(g, o, r, D, disk)
      /\ \A k \in 1..n : ListedFrame(stack[k], o, D, disk)
  BY <1>4, <1>6, <1>8 DEF ListedBy
<1>10. ListedFrame(fr, o, D, disk)
  <2>1. fr.file = f /\ fr.merged = Own(f) /\ fr.next - 1 = 0
    BY <1>1
  <2>2. Describes(<<f>>, Own(f), disk)
    BY <1>2, ReadFile, OneDescribesOwn
  <2>3. \A i \in 1..0 : FALSE
    OBVIOUS
  <2> QED
    BY <2>1, <2>2, <2>3, UnrolledNone DEF ListedFrame
<1>11. \A k \in 1..(n + 1) : ListedFrame(stack'[k], o, D, disk)
  BY <1>4, <1>5, <1>9, <1>10
<1>12. ListedBy(o, r, seen', stack', disk')
  BY <1>2, <1>4, <1>7, <1>9, <1>11 DEF ListedBy
<1> QED
  BY <1>12 DEF Listed

\* The file on top, once its includes are followed: it can be the next complete one.
LEMMA TopIsListed ==
  ASSUME ComposeShape, Explored, Listed, stack # <<>>, Wanted = {},
         NEW S, S = Done(seen, stack) \cup {Top.file}
  PROVE  \E o, r :
           /\ \A g \in S : ListedFile(g, o, r, S, disk)
           /\ \A k \in 1..(Len(stack) - 1) : ListedFrame(stack[k], o, S, disk)
           /\ \A k \in 1..(Len(stack) - 1) : \A i \in 1..(stack[k].next - 1) :
                IsList(o[disk[stack[k].file].includes[i]])
           /\ Describes(o[Top.file], Top.merged, disk)
<1>1. PICK D, f : D = Done(seen, stack) /\ f = Top.file
  OBVIOUS
<1>2. PICK o, r : ListedBy(o, r, seen, stack, disk)
  BY DEF Listed
<1>3. PICK n \in Nat : n = Len(stack)
  BY TopFacts
<1>4. DOMAIN stack = 1..n /\ n \in 1..n /\ \A k \in 1..(n - 1) : k \in 1..n
  BY <1>3, TopFacts, ListFacts DEF ComposeShape
<1>5. Top = stack[n]
  BY <1>3 DEF Top
<1>6. /\ \A g \in D : ListedFile(g, o, r, D, disk)
      /\ \A k \in 1..n : ListedFrame(stack[k], o, D, disk)
  BY <1>1, <1>2, <1>4 DEF ListedBy
<1>7. IsFiniteSet(D)
  <2>1. D \subseteq Files
    BY <1>1 DEF ComposeShape, Done
  <2> QED
    BY <2>1, FS_Subset, DisksAssumption
<1>8. f \notin D
  BY <1>1, <1>4, <1>5 DEF Done
<1>9. IsSchema(disk[f]) /\ f \in seen
  BY <1>1, TopFacts DEF IsFrame
<1>10. PICK m \in Nat : m = Len(disk[f].includes)
  BY <1>9, ListFacts DEF IsSchema
<1>11. Top.next - 1 = m
  <2>1. Top.next = m + 1
    BY <1>1, <1>10, TopFacts
  <2> QED
    BY <2>1
<1>12. ListedFrame(Top, o, D, disk)
  BY <1>4, <1>5, <1>6
<1>13. \A i \in 1..m : disk[f].includes[i] \in D
  BY <1>1, <1>11, <1>12 DEF ListedFrame
<1>14. PICK oo, rr : /\ \A g \in D \cup {f} : ListedFile(g, oo, rr, D \cup {f}, disk)
                     /\ \A g \in D : oo[g] = o[g]
                     /\ oo[f] = Unrolled(f, o, m, disk)
  <2>1. PICK d : d = disk
    OBVIOUS
  <2>2. OneMore(f, o, r, D, d)
    BY <1>6, <1>7, <1>8, <1>9, <1>10, <1>13, <2>1 DEF OneMore
  <2>3. PICK oo, rr : WithOneMore(oo, rr, f, o, D, d)
    BY <2>2, ListedMore
  <2> QED
    BY <1>10, <2>1, <2>3 DEF WithOneMore
<1>15. \A g \in S : ListedFile(g, oo, rr, S, disk)
  BY <1>1, <1>14
<1>16. \A k \in 1..(n - 1) : ListedFrame(stack[k], oo, S, disk)
  <2> SUFFICES ASSUME NEW k \in 1..(n - 1) PROVE ListedFrame(stack[k], oo, S, disk)
    OBVIOUS
  <2>1. ListedFrame(stack[k], o, D, disk)
    BY <1>4, <1>6
  <2>2. ListedFrame(stack[k], oo, D \cup {f}, disk)
    BY <1>14, <2>1, ListedFrameSame
  <2> QED
    BY <1>1, <2>2
<1>17. ASSUME NEW k \in 1..(n - 1), NEW i \in 1..(stack[k].next - 1)
       PROVE  IsList(oo[disk[stack[k].file].includes[i]])
  <2>1. disk[stack[k].file].includes[i] \in S
    BY <1>16 DEF ListedFrame
  <2> QED
    BY <1>15, <2>1 DEF ListedFile
<1>18. Describes(oo[f], Top.merged, disk)
  BY <1>1, <1>11, <1>12, <1>14 DEF ListedFrame
<1>19. \A k \in 1..(n - 1) : \A i \in 1..(stack[k].next - 1) :
         IsList(oo[disk[stack[k].file].includes[i]])
  BY <1>17
<1> QED
  BY <1>1, <1>3, <1>15, <1>16, <1>18, <1>19

\* Merging completes the file on top, and the one below now has its list, too.
LEMMA MergeLists ==
  ASSUME ComposeShape, Explored, Listed, Merge, stack' # stack
  PROVE  Listed'
<1>1. PICK n \in Nat \ {0} :
         /\ Len(stack) = n + 1 /\ DOMAIN stack = 1..(n + 1) /\ DOMAIN stack' = 1..n
         /\ \A k \in 1..(n - 1) : stack'[k] = stack[k]
         /\ stack'[n] = [file   |-> stack[n].file,
                         merged |-> Merged(stack[n].merged, stack[n + 1].merged),
                         next   |-> stack[n].next + 1]
         /\ Top = stack[n + 1]
         /\ UNCHANGED <<disk, seen>>
  BY MergeFacts
<1>2. /\ n \in 1..(n + 1) /\ n + 1 \in 1..(n + 1) /\ n # n + 1 /\ n \in 1..n
      /\ (n + 1) - 1 = n
      /\ \A k \in 1..n : k \in 1..(n + 1) /\ k # n + 1 /\ (k = n \/ k \in 1..(n - 1))
      /\ \A k \in 1..(n + 1) : k = n + 1 \/ k \in 1..n
  OBVIOUS
<1>3. Wanted = {} /\ stack # <<>>
  BY <1>1, EmptyList, ListFacts DEF Merge, ComposeShape
<1>4. PICK f, S : f = Top.file /\ S = Done(seen, stack) \cup {f}
  OBVIOUS
<1>5. PICK o, r : /\ \A g \in S : ListedFile(g, o, r, S, disk)
                  /\ \A k \in 1..n : ListedFrame(stack[k], o, S, disk)
                  /\ \A k \in 1..n : \A i \in 1..(stack[k].next - 1) :
                       IsList(o[disk[stack[k].file].includes[i]])
                  /\ Describes(o[f], Top.merged, disk)
  <2>1. PICK m : m = Len(stack) - 1
    OBVIOUS
  <2>2. \E o, r : /\ \A g \in S : ListedFile(g, o, r, S, disk)
                  /\ \A k \in 1..m : ListedFrame(stack[k], o, S, disk)
                  /\ \A k \in 1..m : \A i \in 1..(stack[k].next - 1) :
                       IsList(o[disk[stack[k].file].includes[i]])
                  /\ Describes(o[Top.file], Top.merged, disk)
    BY <1>3, <1>4, <2>1, TopIsListed, Zenon
  <2>3. m = n
    BY <1>1, <2>1
  <2> QED
    BY <1>4, <2>2, <2>3, Zenon
<1>6. \A k \in 1..n : stack'[k].file = stack[k].file
  BY <1>1, <1>2
<1>7. f \in seen
  BY <1>3, <1>4, TopFacts DEF IsFrame
<1>8. Done(seen', stack') = S
  <2>1. \A k \in 1..n : stack[k].file # f
    BY <1>1, <1>2, <1>4 DEF Explored
  <2>2. ASSUME NEW g PROVE g \in Done(seen', stack') <=> g \in S
    <3>1. g \in Done(seen', stack') <=> g \in seen /\ \A k \in 1..n : stack[k].file # g
      BY <1>1, <1>6 DEF Done
    <3>2. g \in S <=> g = f \/ (g \in seen /\ \A k \in 1..(n + 1) : stack[k].file # g)
      BY <1>1, <1>4 DEF Done
    <3> QED
      BY <1>1, <1>2, <1>4, <1>7, <2>1, <3>1, <3>2
  <2> QED
    BY <2>2
<1>9. PICK p, m : p = stack[n].file /\ m = stack[n].next - 1
  OBVIOUS
<1>10. IsFrame(stack[n], disk, seen)
  BY <1>1, <1>2 DEF ComposeShape
<1>11. m \in Nat /\ stack[n].next = m + 1 /\ (m + 1) - 1 = m /\ ((m + 1) + 1) - 1 = m + 1
       /\ \A i \in 1..(m + 1) : i = m + 1 \/ i \in 1..m
  <2>1. stack[n].next \in Nat \ {0}
    <3>1. IsSchema(disk[p])
      BY <1>9, <1>10, ReadFile DEF IsFrame, ComposeShape
    <3>2. Len(disk[p].includes) \in Nat
      BY <3>1, ListFacts DEF IsSchema
    <3> QED
      BY <1>9, <1>10, <3>2 DEF IsFrame
  <2> QED
    BY <1>9, <2>1
<1>12. disk[p].includes[m + 1] = f
  <2>1. Chained(stack, disk)
    BY DEF ComposeShape
  <2>2. n \in 1..(Len(stack) - 1)
    BY <1>1, <1>2
  <2> QED
    BY <1>1, <1>4, <1>9, <1>11, <2>1, <2>2 DEF Chained
<1>13. ListedFrame(stack[n], o, S, disk)
  BY <1>2, <1>5
<1>14. \A i \in 1..(m + 1) : disk[p].includes[i] \in S
  <2>1. \A i \in 1..m : disk[p].includes[i] \in S
    BY <1>9, <1>13 DEF ListedFrame
  <2> QED
    BY <1>4, <1>11, <1>12, <2>1
<1>15. \A i \in 1..(m + 1) : IsList(o[disk[p].includes[i]])
  BY <1>5, <1>14 DEF ListedFile
<1>16. Unrolled(p, o, m + 1, disk) = Unrolled(p, o, m, disk) \o o[f]
  <2>1. Unrolled(p, o, m + 1, disk) = Unrolled(p, o, m, disk) \o o[disk[p].includes[m + 1]]
    <3>1. /\ m \in Nat
          /\ \A i \in 1..(m + 1) : IsList(o[disk[p].includes[i]])
      BY ONLY <1>11, <1>15
    <3> QED
      BY ONLY <3>1, UnrolledNext, Zenon
  <2> QED
    BY <1>12, <2>1
<1>17. Describes(Unrolled(p, o, m, disk), stack[n].merged, disk)
  BY <1>9, <1>13 DEF ListedFrame
<1>18. Describes(Unrolled(p, o, m + 1, disk), Merged(stack[n].merged, Top.merged), disk)
  BY <1>5, <1>16, <1>17, DescribesMerged
<1>19. ListedFrame(stack'[n], o, S, disk)
  <2>1. /\ stack'[n].file = p /\ stack'[n].merged = Merged(stack[n].merged, Top.merged)
        /\ stack'[n].next - 1 = m + 1
    BY <1>1, <1>9, <1>11
  <2> QED
    BY <1>14, <1>18, <2>1 DEF ListedFrame
<1>20. \A k \in 1..n : ListedFrame(stack'[k], o, S, disk)
  BY <1>1, <1>2, <1>5, <1>19
<1>21. ListedBy(o, r, seen', stack', disk')
  BY <1>1, <1>5, <1>8, <1>20 DEF ListedBy
<1> QED
  BY <1>21 DEF Listed

\* Every file that was visited has its list, and the root's is what was loaded.
LoadedInOrder ==
  \E o, r : /\ Root \in seen
            /\ \A g \in seen : ListedFile(g, o, r, seen, disk)
            /\ Describes(o[Root], loaded, disk)

\* The root is complete.
LEMMA LoadedLists ==
  ASSUME ComposeShape, Explored, Listed, Loaded
  PROVE  LoadedInOrder'
<1>1. /\ Len(stack) = 1 /\ Wanted = {} /\ loaded' = Top.merged /\ UNCHANGED <<disk, seen>>
      /\ stack # <<>>
  BY EmptyList, ListFacts DEF Loaded, ComposeShape
<1>2. DOMAIN stack = 1..1 /\ 1 \in 1..1 /\ Top = stack[1] /\ \A k \in 1..1 : k = 1
  BY <1>1, ListFacts DEF ComposeShape, Top
<1>3. Top.file = Root /\ Root \in seen
  BY <1>1, <1>2 DEF ComposeShape, IsFrame
<1>4. seen = Done(seen, stack) \cup {Top.file}
  BY <1>2, <1>3 DEF Done
<1>5. PICK o, r : /\ \A g \in seen : ListedFile(g, o, r, seen, disk)
                  /\ Describes(o[Root], Top.merged, disk)
  BY <1>1, <1>3, <1>4, TopIsListed
<1> QED
  BY <1>1, <1>3, <1>5 DEF LoadedInOrder

-----------------------------------------------------------------------------
(* The order that the property speaks of                                   *)

\* One level of Unfolded over the one below, h, and all levels to n.
Deepened(d, h) ==
  [f \in Files |->
     <<f>> \o IF d = 0 THEN <<>>
              ELSE SeqX!FlattenSeq([i \in DOMAIN Includes(f) |-> h[Includes(f)[i]]])]
Unfolding(n, g) == g = [d \in 0..n |-> Deepened(d, g[d - 1])]

LEMMA DeepenedFirst ==
  /\ \A h, k : Deepened(0, h) = Deepened(0, k)
  /\ \A h : \A f \in Files : Deepened(0, h)[f] = <<f>>
<1>1. ASSUME NEW h PROVE Deepened(0, h) = [f \in Files |-> <<f>> \o <<>>]
  BY DEF Deepened
<1>2. ASSUME NEW f PROVE <<f>> \o <<>> = <<f>>
  BY OneInList, ConcatEmpty
<1>3. ASSUME NEW h, NEW f \in Files PROVE Deepened(0, h)[f] = <<f>>
  BY <1>1, <1>2
<1> QED
  BY <1>1, <1>3

\* What h has for the includes of f.
Taken(f, h) == [i \in DOMAIN Includes(f) |-> h[Includes(f)[i]]]

LEMMA DeepenedNext ==
  ASSUME NEW d, d # 0, NEW h, NEW f \in Files
  PROVE  Deepened(d, h)[f] = <<f>> \o SeqX!FlattenSeq(Taken(f, h))
<1>1. Deepened(d, h) = [x \in Files |-> <<x>> \o SeqX!FlattenSeq(Taken(x, h))]
  BY DEF Deepened, Taken
<1> QED
  BY <1>1

\* The recursive function of Unfolded exists, and Unfolded reads it at the root.
LEMMA UnfoldingExists ==
  ASSUME NEW n \in Nat
  PROVE  \E g : Unfolding(n, g)
<1> DEFINE S == {k \in Nat : \E g : Unfolding(k, g)}
<1>1. 0 \in S
  <2>1. PICK g : g = [d \in 0..0 |-> Deepened(0, 0)]
    OBVIOUS
  <2>2. \A d \in 0..0 : d = 0
    OBVIOUS
  <2>3. \A d \in 0..0 : Deepened(0, 0) = Deepened(d, g[d - 1])
    BY <2>2, DeepenedFirst
  <2>4. g = [d \in 0..0 |-> Deepened(d, g[d - 1])]
    BY <2>1, <2>3
  <2> QED
    BY <2>4 DEF Unfolding
<1>2. ASSUME NEW k \in Nat, k \in S PROVE k + 1 \in S
  <2>1. PICK g : Unfolding(k, g)
    BY <1>2
  <2>2. PICK h : h = [d \in 0..(k + 1) |-> IF d \in 0..k THEN g[d] ELSE Deepened(k + 1, g[k])]
    OBVIOUS
  <2>3. \A d \in 0..k : g[d] = Deepened(d, g[d - 1])
    BY <2>1 DEF Unfolding
  <2>4. /\ \A d \in 0..(k + 1) : /\ d \in 0..k \/ d = k + 1
                                 /\ d \in 0..k => d = 0 \/ d - 1 \in 0..k
        /\ \A d \in 0..k : d \in 0..(k + 1)
        /\ k + 1 \notin 0..k /\ (k + 1) - 1 = k /\ k \in 0..k /\ k + 1 \in 0..(k + 1)
    OBVIOUS
  <2>5. (\A d \in 0..k : h[d] = g[d]) /\ h[k + 1] = Deepened(k + 1, g[k])
    BY <2>2, <2>4
  <2>6. ASSUME NEW d \in 0..(k + 1) PROVE h[d] = Deepened(d, h[d - 1])
    <3>1. CASE d = 0
      BY <2>3, <2>4, <2>5, <3>1, DeepenedFirst
    <3>2. CASE d \in 0..k /\ d # 0
      BY <2>3, <2>4, <2>5, <3>2
    <3>3. CASE d = k + 1
      BY <2>4, <2>5, <3>3
    <3> QED
      BY <2>4, <3>1, <3>2, <3>3
  <2>7. h = [d \in 0..(k + 1) |-> h[d]]
    BY <2>2
  <2>8. h = [d \in 0..(k + 1) |-> Deepened(d, h[d - 1])]
    BY <2>6, <2>7
  <2> QED
    BY <2>8 DEF Unfolding
<1> HIDE DEF S
<1>3. n \in S
  BY <1>1, <1>2, AllNumbers
<1> QED
  BY <1>3 DEF S

LEMMA UnfoldedIs ==
  \E g : Unfolding(Cardinality(Files), g) /\ Unfolded = g[Cardinality(Files)][Root]
<1>1. Cardinality(Files) \in Nat
  BY DisksAssumption, FS_CardinalityType
<1>2. \E g : Unfolding(Cardinality(Files), g)
  BY <1>1, UnfoldingExists
<1> DEFINE g == CHOOSE g : g = [d \in 0..Cardinality(Files) |-> Deepened(d, g[d - 1])]
<1>3. g = [d \in 0..Cardinality(Files) |-> Deepened(d, g[d - 1])]
  BY <1>2 DEF Unfolding
<1>4. Unfolded = g[Cardinality(Files)][Root]
  BY DEF Unfolded, Deepened
<1> HIDE DEF g
<1> QED
  BY <1>3, <1>4 DEF Unfolding

\* The lists of the files are what Unfolded has for them: a file that was the
\* r-th to be complete has its list at level r, since its includes were before it.
LEMMA UnfoldedInOrder ==
  ASSUME ComposeShape, NEW o, NEW r, Root \in seen,
         \A f \in seen : ListedFile(f, o, r, seen, disk)
  PROVE  Unfolded = o[Root]
<1>1. PICK c \in Nat : c = Cardinality(Files)
  BY DisksAssumption, FS_CardinalityType
<1>2. PICK g : Unfolding(c, g) /\ Unfolded = g[c][Root]
  BY <1>1, UnfoldedIs
<1>3. \A n \in 0..c : g[n] = Deepened(n, g[n - 1])
  BY <1>2 DEF Unfolding
<1>4. \A f \in seen :
        /\ f \in Files /\ Includes(f) = disk[f].includes
        /\ Len(Includes(f)) \in Nat /\ DOMAIN Includes(f) = 1..Len(Includes(f))
        /\ r[f] \in Nat
        /\ \A i \in 1..Len(Includes(f)) : Includes(f)[i] \in seen /\ r[Includes(f)[i]] < r[f]
        /\ o[f] = Unrolled(f, o, Len(Includes(f)), disk)
  BY Numbered DEF ListedFile, ComposeShape
<1> DEFINE S == {n \in Nat : n <= c => \A f \in seen : r[f] <= n => g[n][f] = o[f]}
<1>5. 0 \in S
  <2> SUFFICES ASSUME NEW f \in seen, r[f] <= 0 PROVE g[0][f] = o[f]
    OBVIOUS
  <2>1. g[0][f] = <<f>>
    BY <1>3, <1>4, DeepenedFirst
  <2>2. \A i \in 1..Len(Includes(f)) : FALSE
    <3> SUFFICES ASSUME NEW i \in 1..Len(Includes(f)) PROVE FALSE
      OBVIOUS
    <3>1. PICK a, b : a = r[f] /\ b = r[Includes(f)[i]]
      OBVIOUS
    <3>2. a \in Nat /\ b \in Nat /\ b < a /\ a <= 0
      BY <1>4, <3>1
    <3> QED
      BY <3>2
  <2>3. Len(Includes(f)) = 0
    <3>1. PICK l \in Nat : l = Len(Includes(f))
      BY <1>4
    <3>2. l # 0 => 1 \in 1..l
      OBVIOUS
    <3> QED
      BY <2>2, <3>1, <3>2
  <2>4. o[f] = <<f>>
    BY <1>4, <2>3, UnrolledNone
  <2> QED
    BY <2>1, <2>4
<1>6. ASSUME NEW n \in Nat, n \in S PROVE n + 1 \in S
  <2> SUFFICES ASSUME n + 1 <= c, NEW f \in seen, r[f] <= n + 1 PROVE g[n + 1][f] = o[f]
    OBVIOUS
  <2>1. n + 1 \in 0..c /\ n + 1 # 0 /\ (n + 1) - 1 = n /\ n <= c
    OBVIOUS
  <2>2. g[n + 1][f] = <<f>> \o SeqX!FlattenSeq(Taken(f, g[n]))
    <3>1. g[n + 1] = Deepened(n + 1, g[n]) /\ f \in Files
      BY <1>3, <1>4, <2>1
    <3>2. PICK k, w : k = n + 1 /\ w = g[n]
      OBVIOUS
    <3>3. k # 0 /\ f \in Files
      BY <2>1, <3>1, <3>2
    <3>4. Deepened(k, w)[f] = <<f>> \o SeqX!FlattenSeq(Taken(f, w))
      BY <3>3, DeepenedNext
    <3> QED
      BY <3>1, <3>2, <3>4
  <2>3. \A i \in 1..Len(Includes(f)) : g[n][Includes(f)[i]] = o[Includes(f)[i]]
    <3> SUFFICES ASSUME NEW i \in 1..Len(Includes(f)) PROVE g[n][Includes(f)[i]] = o[Includes(f)[i]]
      OBVIOUS
    <3>1. Includes(f)[i] \in seen
      BY <1>4
    <3>2. PICK a, b : a = r[f] /\ b = r[Includes(f)[i]]
      OBVIOUS
    <3>3. a \in Nat /\ b \in Nat /\ b < a /\ a <= n + 1
      BY <1>4, <3>1, <3>2
    <3>4. b <= n
      BY <3>3
    <3> QED
      BY <1>6, <2>1, <3>1, <3>2, <3>4
  <2>4. Taken(f, g[n]) = Parts(f, o, Len(Includes(f)), disk)
    BY <1>4, <2>3 DEF Parts, Taken
  <2> QED
    BY <1>4, <2>2, <2>4 DEF Unrolled
<1> HIDE DEF S
<1>7. c \in S
  BY <1>5, <1>6, AllNumbers
<1>8. r[Root] <= c
  <2>1. PICK a, b : a = r[Root] /\ b = Cardinality(seen)
    OBVIOUS
  <2>2. a \in Nat /\ a < b
    BY <2>1 DEF ListedFile
  <2>3. b \in Nat /\ b <= c
    BY <1>1, <2>1, DisksAssumption, FS_Subset, FS_CardinalityType DEF ComposeShape
  <2> QED
    BY <2>1, <2>2, <2>3
<1> QED
  BY <1>2, <1>7, <1>8 DEF S

-----------------------------------------------------------------------------
(* What is loaded, and what the instances add                              *)

\* The list t begins with the list s.
Continues(s, t) ==
  /\ IsList(s) /\ IsList(t) /\ Len(s) <= Len(t) /\ \A i \in 1..Len(s) : t[i] = s[i]

LEMMA ContinuesItself ==
  ASSUME NEW s, IsList(s)
  PROVE  Continues(s, s)
<1>1. PICK n \in Nat : n = Len(s)
  BY ListFacts
<1> QED
  BY <1>1 DEF Continues

LEMMA ContinuesMore ==
  ASSUME NEW s, NEW t, Continues(s, t), NEW u, IsList(u)
  PROVE  Continues(s, t \o u)
<1>1. PICK v : v = t \o u
  OBVIOUS
<1>2. IsList(v) /\ Follows(t, u, v) /\ IsList(s)
  BY <1>1, ConcatFollows, ListConcat DEF Continues
<1>3. PICK a \in Nat, b \in Nat, c \in Nat : a = Len(s) /\ b = Len(t) /\ c = Len(u)
  BY ListFacts DEF Continues
<1>4. a <= b /\ Len(v) = b + c /\ (\A i \in 1..a : t[i] = s[i]) /\ (\A i \in 1..b : v[i] = t[i])
  BY <1>2, <1>3 DEF Continues, Follows
<1>5. a <= b + c /\ \A i \in 1..a : i \in 1..b
  BY <1>4
<1>6. Continues(s, v)
  BY <1>2, <1>3, <1>4, <1>5 DEF Continues
<1> QED
  BY <1>1, <1>6

\* That is what IsPrefix says.
LEMMA ContinuesIsPrefix ==
  ASSUME NEW s, NEW t, Continues(s, t)
  PROVE  SeqX!IsPrefix(s, t)
<1>1. PICK a \in Nat, b \in Nat : a = Len(s) /\ b = Len(t) /\ a <= b
  BY ListFacts DEF Continues
<1>2. PICK S : S = Elements(s) \cup Elements(t)
  OBVIOUS
<1>3. /\ \A i \in 1..a : s[i] \in S /\ t[i] \in S /\ t[i] = s[i]
      /\ 1 \in Int /\ a \in Int
      /\ IF 1 <= a THEN a - 1 + 1 = a ELSE a = 0
      /\ a - 1 + 1 = a
  <2>1. \A i \in 1..a : i \in 1..b
    BY <1>1
  <2>2. \A i \in 1..a : s[i] \in S /\ t[i] \in S /\ t[i] = s[i]
    BY <1>1, <1>2, <2>1, ListFacts DEF Continues
  <2> QED
    BY <1>1, <2>2
<1>4. PICK p, q : p = SubSeq(s, 1, a) /\ q = SubSeq(t, 1, a)
  OBVIOUS
<1>5. /\ p \in Seq(S) /\ Len(p) = a /\ \A i \in 1..a : p[i] = s[1 + i - 1]
      /\ q \in Seq(S) /\ Len(q) = a /\ \A i \in 1..a : q[i] = t[1 + i - 1]
  BY <1>3, <1>4, SubSeqProperties
<1>6. \A i \in 1..a : 1 + i - 1 = i
  OBVIOUS
<1>7. p = q
  BY <1>3, <1>5, <1>6, SeqEqual
<1> QED
  BY <1>1, <1>4, <1>7 DEF SeqX!IsPrefix

\* The invariant, while the files are loaded and after.
OrderInv ==
  /\ FailuresInv
  /\ outcome = "loading" => Listed
  /\ WasLoaded => /\ LoadedInOrder
                  /\ flat.components = loaded.components
                  /\ \A field \in Fields : Continues(loaded[field], flat[field])

\* The invariant says what the property does.
LEMMA OrderIsKept ==
  ASSUME OrderInv
  PROVE  MergedInSourceOrder
<1> SUFFICES ASSUME WasLoaded
             PROVE  MergedInSourceOrder
  BY DEF MergedInSourceOrder
<1>1. PICK o, r : /\ Root \in seen
                  /\ \A g \in seen : ListedFile(g, o, r, seen, disk)
                  /\ Describes(o[Root], loaded, disk)
  BY DEF OrderInv, LoadedInOrder
<1>2. PICK L : L = Unfolded
  OBVIOUS
<1>3. Describes(L, loaded, disk)
  BY <1>1, <1>2, UnfoldedInOrder DEF OrderInv, FailuresInv
<1>4. ASSUME NEW field \in Fields
      PROVE  /\ loaded[field] = SeqX!FlattenSeq([i \in DOMAIN L |-> disk[L[i]][field]])
             /\ SeqX!IsPrefix(loaded[field], flat[field])
  <2>1. Continues(loaded[field], flat[field])
    BY DEF OrderInv
  <2>2. loaded[field] = Gathered(L, field, disk)
    BY <1>3 DEF Describes
  <2> QED
    BY <2>1, <2>2, ContinuesIsPrefix DEF Gathered, Column
<1>5. flat.components = loaded.components
  BY DEF OrderInv
<1>6. \A i \in DOMAIN L : DOMAIN disk[L[i]].components \subseteq DOMAIN flat.components
  BY <1>3, <1>5 DEF Describes
<1>7. ASSUME NEW n \in DOMAIN flat.components
      PROVE  \E i \in {i \in DOMAIN L : n \in DOMAIN disk[L[i]].components} :
               /\ \A j \in {j \in DOMAIN L : n \in DOMAIN disk[L[j]].components} : j <= i
               /\ flat.components[n] = disk[L[i]].components[n]
  <2>1. PICK i : LastWith(i, n, L, disk) /\ loaded.components[n] = disk[L[i]].components[n]
    BY <1>3, <1>5 DEF Describes
  <2> QED
    BY <1>5, <2>1 DEF LastWith
<1> QED
  BY <1>2, <1>4, <1>6, <1>7 DEF MergedInSourceOrder, Fields

\* What was loaded is not touched by the steps that follow.
LEMMA LoadedStays ==
  ASSUME OrderInv, ComposeShape', FailuresInv', outcome = "expanding",
         outcome' \notin {"loading"} \cup LoadErrors,
         UNCHANGED <<disk, seen, stack, loaded>>, flat'.components = flat.components,
         \A field \in Fields : Continues(loaded[field], flat[field])
                                 => Continues(loaded[field], flat'[field])
  PROVE  OrderInv'
<1>1. WasLoaded
  BY DEF OrderInv, FailuresInv, ComposeShape, WasLoaded, LoadErrors
<1>2. LoadedInOrder' <=> LoadedInOrder
  BY DEF LoadedInOrder
<1> QED
  BY <1>1, <1>2 DEF OrderInv

\* It is one.
LEMMA OrderHolds == Spec => []OrderInv
<1>1. ASSUME Init, FailuresInv PROVE OrderInv
  <2>1. stack = <<>> /\ seen = {} /\ outcome = "loading"
    BY <1>1 DEF Init
  <2>2. DOMAIN stack = {}
    BY <2>1, EmptyList, ListFacts
  <2>3. Listed
    BY <2>1, <2>2 DEF Listed, ListedBy, Done
  <2> QED
    BY <1>1, <2>1, <2>3 DEF OrderInv, WasLoaded
<1>2. ASSUME OrderInv, FailuresInv', [Next]_composeVars PROVE OrderInv'
  <2> USE <1>2
  <2>1. ComposeShape /\ ComposeShape'
    BY ShapeStays DEF OrderInv, FailuresInv
  <2>2. CASE UNCHANGED composeVars
    <3>1. UNCHANGED <<disk, seen, stack, loaded, flat, outcome>>
      BY <2>2 DEF composeVars
    <3>2. (Listed' <=> Listed) /\ (LoadedInOrder' <=> LoadedInOrder)
      BY <3>1 DEF Listed, LoadedInOrder
    <3> QED
      BY <3>1, <3>2 DEF OrderInv, WasLoaded
  <2>3. ASSUME NEW f \in Files, Open(f) PROVE OrderInv'
    <3>1. outcome = "loading" /\ outcome' = "loading"
      BY <2>3 DEF Open
    <3>2. Listed'
      BY <2>1, <2>3, <3>1, OpenLists DEF OrderInv
    <3> QED
      BY <3>1, <3>2 DEF OrderInv, WasLoaded
  <2>4. ASSUME NEW f \in Files, Refuse(f) PROVE OrderInv'
    <3>1. outcome' \in LoadErrors
      BY <2>4 DEF Refuse, LoadErrors
    <3> QED
      BY <3>1 DEF OrderInv, WasLoaded, LoadErrors
  <2>5. CASE Merge
    <3>1. outcome = "loading"
      BY <2>5 DEF Merge
    <3>2. CASE stack' = stack
      <4>1. outcome' = "DuplicateSignalAfterExpand" /\ stack # <<>>
        BY <2>1, <2>5, <3>2, MergeStops
      <4> QED
        BY <3>2, <4>1 DEF OrderInv, WasLoaded
    <3>3. CASE stack' # stack
      <4>1. outcome' = "loading"
        BY <2>1, <2>5, <3>1, <3>3, MergeFacts
      <4>2. Listed'
        BY <2>1, <2>5, <3>1, <3>3, MergeLists DEF OrderInv, FailuresInv
      <4> QED
        BY <4>1, <4>2 DEF OrderInv, WasLoaded
    <3> QED
      BY <3>2, <3>3
  <2>6. CASE Loaded
    <3>1. outcome = "loading" /\ outcome' = "expanding" /\ flat' = loaded'
      BY <2>6 DEF Loaded
    <3>2. LoadedInOrder'
      BY <2>1, <2>6, <3>1, LoadedLists DEF OrderInv, FailuresInv
    <3>3. \A field \in Fields : IsList(loaded'[field])
      BY <2>1 DEF ComposeShape, IsMerged, Lists, Fields
    <3>4. \A field \in Fields : Continues(loaded'[field], flat'[field])
      BY <3>1, <3>3, ContinuesItself
    <3> QED
      BY <3>1, <3>2, <3>4 DEF OrderInv
  <2>7. CASE ExpandInstance
    <3>1. /\ outcome = "expanding" /\ UNCHANGED <<disk, seen, stack, loaded>>
          /\ outcome' \notin {"loading"} \cup LoadErrors
      BY <2>7 DEF ExpandInstance, LoadErrors
    <3>2. PICK p : p = Piece(flat.components[Instances[at].component],
                             Bound(flat.components[Instances[at].component], Instances[at]),
                             Instances[at].connections)
      OBVIOUS
    <3>3. Joined(flat', flat, p) /\ flat'.components = flat.components
          /\ IsComponent(flat.components[Instances[at].component])
      BY <2>1, <2>7, <3>2, InstanceJoins
    <3>4. \A field \in Fields : flat'[field] = flat[field] \o p[field]
      BY <3>3 DEF Joined, Fields
    <3>5. Lists(p)
      BY <3>2, <3>3, PieceOf DEF IsComponent, Lists
    <3>6. \A field \in Fields : IsList(p[field])
      BY <3>5 DEF Lists, Fields
    <3>7. \A field \in Fields : Continues(loaded[field], flat[field])
                                  => Continues(loaded[field], flat'[field])
      BY <3>4, <3>6, ContinuesMore
    <3> QED
      BY <2>1, <3>1, <3>3, <3>7, LoadedStays
  <2>8. CASE RejectInstance
    <3>1. /\ outcome = "expanding" /\ outcome' \in ExpandErrors
          /\ UNCHANGED <<disk, seen, stack, loaded, flat>>
      BY <2>8, FaultKinds DEF RejectInstance
    <3>2. outcome' \notin {"loading"} \cup LoadErrors
      BY <3>1 DEF ExpandErrors, LoadErrors
    <3> QED
      BY <2>1, <3>1, <3>2, LoadedStays
  <2>9. CASE Build
    <3>1. /\ outcome = "expanding" /\ UNCHANGED <<disk, seen, stack, loaded, flat>>
          /\ outcome' \in {"DuplicateSignalAfterExpand", "ok", "ValidationError"}
      BY <2>9 DEF Build
    <3>2. outcome' \notin {"loading"} \cup LoadErrors
      BY <3>1 DEF LoadErrors
    <3> QED
      BY <2>1, <3>1, <3>2, LoadedStays
  <2> QED
    BY <2>2, <2>3, <2>4, <2>5, <2>6, <2>7, <2>8, <2>9 DEF Next
<1> QED
  BY <1>1, <1>2, FailuresHold, PTL DEF Spec

-----------------------------------------------------------------------------
(* What the runs check, for any files                                      *)

\* The files that are open are among those visited, each at one of its includes
\* or past the last, and a load ends in one of the documented ways.
THEOREM ComposeTypes == Spec => []ComposeTypeOK
<1>1. ComposeShape => ComposeTypeOK
  <2> SUFFICES ASSUME ComposeShape PROVE ComposeTypeOK
    OBVIOUS
  <2>1. DOMAIN disk = Files
    BY DisksAssumption DEF ComposeShape
  <2> QED
    BY <2>1 DEF ComposeShape, ComposeTypeOK, IsFrame
<1> QED
  BY <1>1, ExpansionHolds, PTL DEF ExpansionInv

\* Instances of components that are topologies by themselves, with any bindings
\* and any wires, are refused by expand or leave a valid topology valid.
THEOREM InstancesKeepValidity == Spec => []InstancesStayValid
BY ExpansionHolds, PTL DEF ExpansionInv

\* For any components, bindings and wires: a placeholder that expansion adds is
\* text that a binding or a wire supplied, but for the guards, groups, requirements
\* and hooks of reactions, where it is the component's own, not substituted.
THEOREM PlaceholdersAreAccountedFor == Spec => []PlaceholdersLeft
<1>1. ExpansionInv => PlaceholdersLeft
  BY DEF ExpansionInv, NewOnesAreSupplied, PlaceholdersLeft
<1> QED
  BY <1>1, ExpansionHolds, PTL

\* Loading fails only for what is wrong with the files, and succeeds only if
\* nothing is: none of the tree is missing, none is included in two places or
\* includes the root, and no two declare a signal of one id.
THEOREM FailuresAreEarned == Spec => []FailuresHaveTheirCause
BY FailuresHold, PTL DEF FailuresInv

\* For any files, what is loaded is the tree of them, each file before those it
\* includes and those in the order they are included: so the order in which
\* transitions and reactions fire is the order of the sources.  What the
\* instances add comes behind, and of the components of one name the last counts.
THEOREM FilesAreMergedInOrder == Spec => []MergedInSourceOrder
BY OrderHolds, OrderIsKept, PTL

=============================================================================
