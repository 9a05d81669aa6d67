--------------------------- MODULE CompilerProofs ---------------------------
(***************************************************************************)
(* Proofs about Compiler.tla, for any sources: what the parser has checked *)
(* of a signal still holds in the JSON, and what the checker says of a     *)
(* state is so.                                                            *)
(***************************************************************************)
EXTENDS Compiler, ComposeProofs

-----------------------------------------------------------------------------
(* Some of a list                                                          *)

\* What AtPlaces counts up.
Choosing(q, S, n, g) ==
  g = [k \in 0..n |-> IF k = 0 THEN <<>>
                      ELSE IF k \in S THEN Append(g[k - 1], q[k]) ELSE g[k - 1]]

LEMMA ChoosingExists ==
  ASSUME NEW q, NEW S, NEW n \in Nat
  PROVE  \E g : Choosing(q, S, n, g)
<1> DEFINE T == {m \in Nat : \E g : Choosing(q, S, m, g)}
<1>1. 0 \in T
  <2>1. PICK g : g = [k \in 0..0 |-> <<>>]
    OBVIOUS
  <2>2. \A k \in 0..0 : k = 0
    OBVIOUS
  <2>3. Choosing(q, S, 0, g)
    BY <2>1, <2>2 DEF Choosing
  <2> QED
    BY <2>3
<1>2. ASSUME NEW m \in Nat, m \in T PROVE m + 1 \in T
  <2>1. PICK g : Choosing(q, S, m, g)
    BY <1>2
  <2> DEFINE e == IF m + 1 \in S THEN Append(g[m], q[m + 1]) ELSE g[m]
             h == [k \in 0..(m + 1) |-> IF k \in 0..m THEN g[k] ELSE e]
             step(f, k) == IF k = 0 THEN <<>>
                           ELSE IF k \in S THEN Append(f[k - 1], q[k]) ELSE f[k - 1]
  <2>2. \A k \in 0..(m + 1) : /\ k \in 0..m \/ k = m + 1
                              /\ k = 0 \/ k - 1 \in 0..m
                              /\ k = m + 1 => k \notin 0..m /\ k - 1 = m /\ k # 0
                              /\ k - 1 \in 0..m => k - 1 \in 0..(m + 1)
    OBVIOUS
  <2>3. \A k \in 0..m : g[k] = step(g, k)
    BY <2>1 DEF Choosing
  <2>4. ASSUME NEW k \in 0..(m + 1) PROVE h[k] = step(h, k)
    <3>1. k = 0 \/ h[k - 1] = g[k - 1]
      BY <2>2
    <3>2. CASE k \in 0..m
      BY <2>3, <3>1, <3>2
    <3>3. CASE k = m + 1
      BY <2>2, <3>1, <3>3
    <3> QED
      BY <2>2, <3>2, <3>3
  <2>5. h = [k \in 0..(m + 1) |-> step(h, k)]
    <3>1. h = [k \in 0..(m + 1) |-> h[k]]
      OBVIOUS
    <3> HIDE DEF h, step
    <3> QED
      BY <2>4, <3>1
  <2> HIDE DEF h
  <2>6. Choosing(q, S, m + 1, h)
    BY <2>5 DEF Choosing
  <2> QED
    BY <2>6
<1> HIDE DEF T
<1>3. n \in T
  BY <1>1, <1>2, AllNumbers
<1> QED
  BY <1>3 DEF T

\* The list r has the first n entries of q that are at a place in S, in order:
\* entry i is from place at[i].
ChosenFrom(q, S, n, r, place) ==
  /\ IsList(r)
  /\ \A i \in DOMAIN r : place[i] \in S /\ place[i] \in 1..n /\ r[i] = q[place[i]]
  /\ \A i, j \in DOMAIN r : i < j => place[i] < place[j]
  /\ \A k \in S : k \in 1..n => \E i \in DOMAIN r : place[i] = k

LEMMA ChosenNext ==
  ASSUME NEW q, NEW S, NEW n \in Nat, NEW r, NEW place, ChosenFrom(q, S, n, r, place)
  PROVE  \E more : ChosenFrom(q, S, n + 1,
                     IF n + 1 \in S THEN Append(r, q[n + 1]) ELSE r, more)
<1>1. \A k \in 1..(n + 1) : k \in 1..n \/ k = n + 1
  OBVIOUS
<1>2. n + 1 \in 1..(n + 1) /\ \A k \in 1..n : k \in 1..(n + 1) /\ k < n + 1
  OBVIOUS
<1>3. CASE n + 1 \notin S
  <2>1. ChosenFrom(q, S, n + 1, r, place)
    BY <1>1, <1>2, <1>3 DEF ChosenFrom
  <2> QED
    BY <1>3, <2>1
<1>4. CASE n + 1 \in S
  <2>1. PICK s, m : s = Append(r, q[n + 1]) /\ m = Len(r)
    OBVIOUS
  <2>2. /\ IsList(s) /\ m \in Nat /\ DOMAIN r = 1..m /\ DOMAIN s = 1..(m + 1)
        /\ \A i \in 1..m : s[i] = r[i]
        /\ s[m + 1] = q[n + 1]
    BY <2>1, ListAppend DEF ChosenFrom
  <2>3. PICK more : more = [i \in 1..(m + 1) |-> IF i \in 1..m THEN place[i] ELSE n + 1]
    OBVIOUS
  <2>4. /\ \A i \in 1..(m + 1) : i \in 1..m \/ i = m + 1
        /\ m + 1 \in 1..(m + 1) /\ m + 1 \notin 1..m
        /\ \A i \in 1..m : i \in 1..(m + 1) /\ ~(m + 1 < i)
        /\ ~(m + 1 < m + 1)
    BY <2>2
  <2>5. more[m + 1] = n + 1 /\ \A i \in 1..m : more[i] = place[i]
    BY <2>3, <2>4
  <2>6. \A i \in DOMAIN s : more[i] \in S /\ more[i] \in 1..(n + 1) /\ s[i] = q[more[i]]
    BY <1>2, <1>4, <2>2, <2>4, <2>5 DEF ChosenFrom
  <2>7. \A i, j \in DOMAIN s : i < j => more[i] < more[j]
    <3> SUFFICES ASSUME NEW i \in DOMAIN s, NEW j \in DOMAIN s, i < j PROVE more[i] < more[j]
      OBVIOUS
    <3>1. i \in 1..m
      BY <2>2, <2>4
    <3> QED
      BY <1>2, <2>2, <2>4, <2>5, <3>1 DEF ChosenFrom
  <2>8. \A k \in S : k \in 1..(n + 1) => \E i \in DOMAIN s : more[i] = k
    BY <1>1, <2>2, <2>4, <2>5 DEF ChosenFrom
  <2>9. ChosenFrom(q, S, n + 1, s, more)
    BY <2>2, <2>6, <2>7, <2>8 DEF ChosenFrom
  <2> QED
    BY <1>4, <2>1, <2>9
<1> QED
  BY <1>3, <1>4

LEMMA ChoosingAt ==
  ASSUME NEW q, NEW S, NEW n \in Nat, NEW g, Choosing(q, S, n, g), NEW k \in 0..n
  PROVE  g[k] = IF k = 0 THEN <<>> ELSE IF k \in S THEN Append(g[k - 1], q[k]) ELSE g[k - 1]
<1> DEFINE step(j) == IF j = 0 THEN <<>>
                      ELSE IF j \in S THEN Append(g[j - 1], q[j]) ELSE g[j - 1]
<1>1. g = [j \in 0..n |-> step(j)]
  BY DEF Choosing
<1> HIDE DEF step
<1>2. g[k] = step(k)
  BY <1>1
<1> QED
  BY <1>2 DEF step

LEMMA AtPlacesIs ==
  ASSUME NEW q, IsList(q), NEW S
  PROVE  \E g : Choosing(q, S, Len(q), g) /\ AtPlaces(q, S) = g[Len(q)]
<1>1. Len(q) \in Nat
  BY ListFacts
<1> DEFINE g == CHOOSE g : g = [n \in 0..Len(q) |->
                  IF n = 0 THEN <<>> ELSE IF n \in S THEN Append(g[n - 1], q[n]) ELSE g[n - 1]]
<1>2. \E f : f = [n \in 0..Len(q) |->
                  IF n = 0 THEN <<>> ELSE IF n \in S THEN Append(f[n - 1], q[n]) ELSE f[n - 1]]
  <2>1. \E f : Choosing(q, S, Len(q), f)
    BY <1>1, ChoosingExists
  <2> QED
    BY ZenonT(20), <2>1 DEF Choosing
<1>3. g = [n \in 0..Len(q) |->
             IF n = 0 THEN <<>> ELSE IF n \in S THEN Append(g[n - 1], q[n]) ELSE g[n - 1]]
  BY <1>2
<1>4. AtPlaces(q, S) = g[Len(q)]
  BY DEF AtPlaces
<1> HIDE DEF g
<1> QED
  BY <1>3, <1>4 DEF Choosing

\* AtPlaces chooses.
LEMMA AtPlacesChooses ==
  ASSUME NEW q, IsList(q), NEW S
  PROVE  \E place : ChosenFrom(q, S, Len(q), AtPlaces(q, S), place)
<1>1. PICK n \in Nat : n = Len(q)
  BY ListFacts
<1>2. PICK g : Choosing(q, S, n, g) /\ AtPlaces(q, S) = g[n]
  BY <1>1, AtPlacesIs
<1> DEFINE T == {k \in Nat : k <= n => \E place : ChosenFrom(q, S, k, g[k], place)}
<1>3. 0 \in T
  <2>1. g[0] = <<>>
    <3>1. 0 \in 0..n
      BY <1>1
    <3>2. g = [k \in 0..n |-> IF k = 0 THEN <<>>
                      ELSE IF k \in S THEN Append(g[k - 1], q[k]) ELSE g[k - 1]]
      BY <1>2 DEF Choosing
    <3> QED
      BY <3>1, <3>2
  <2>2. PICK r, place : r = g[0] /\ place = <<>>
    OBVIOUS
  <2>3. IsList(r) /\ DOMAIN r = 1..0
    <3>1. r = <<>> /\ IsList(r)
      BY <2>1, <2>2, EmptyList
    <3>2. Len(r) = 0 /\ DOMAIN r = 1..Len(r)
      BY <3>1, ListFacts
    <3> QED
      BY <3>1, <3>2
  <2>4. ChosenFrom(q, S, 0, r, place)
    BY <2>3 DEF ChosenFrom
  <2> QED
    BY <2>2, <2>4
<1>4. ASSUME NEW k \in Nat, k \in T PROVE k + 1 \in T
  <2> SUFFICES ASSUME k + 1 <= n PROVE \E place : ChosenFrom(q, S, k + 1, g[k + 1], place)
    OBVIOUS
  <2>1. k <= n /\ k + 1 \in 0..n /\ k + 1 # 0 /\ (k + 1) - 1 = k
    OBVIOUS
  <2>2. PICK place : ChosenFrom(q, S, k, g[k], place)
    BY <1>4, <2>1
  <2>3. g[k + 1] = IF k + 1 \in S THEN Append(g[k], q[k + 1]) ELSE g[k]
    BY <1>1, <1>2, <2>1, ChoosingAt
  <2>4. \E more : ChosenFrom(q, S, k + 1, IF k + 1 \in S THEN Append(g[k], q[k + 1]) ELSE g[k], more)
    BY <2>2, ChosenNext
  <2> QED
    BY <2>3, <2>4
<1> HIDE DEF T
<1>5. n \in T
  BY <1>3, <1>4, AllNumbers
<1> QED
  BY <1>1, <1>2, <1>5 DEF T

\* The declarations of a kind are those declarations, each once.
LEMMA OfKindFacts ==
  ASSUME NEW ds, IsList(ds), NEW kind
  PROVE  /\ IsList(OfKind(kind, ds))
         /\ \A d : d \in Elements(OfKind(kind, ds)) <=>
                   \E k \in DOMAIN ds : ds[k].kind = kind /\ d = ds[k]
         /\ (\A j, k \in DOMAIN ds : ds[j].kind = kind /\ ds[k].kind = kind /\ ds[j].id = ds[k].id => j = k)
              => Distinct(OfKind(kind, ds))
<1>1. PICK n \in Nat : n = Len(ds) /\ DOMAIN ds = 1..n
  BY ListFacts
<1>2. PICK S : S = PlacesOf({kind}, ds)
  OBVIOUS
<1>3. \A k : k \in S <=> k \in 1..n /\ ds[k].kind = kind
  BY <1>1, <1>2 DEF PlacesOf
<1>4. PICK r, place : r = OfKind(kind, ds) /\ ChosenFrom(ds, S, n, r, place)
  BY <1>1, <1>2, AtPlacesChooses DEF OfKind
<1>5. IsList(r) /\ \A i \in DOMAIN r : place[i] \in 1..n /\ ds[place[i]].kind = kind /\ r[i] = ds[place[i]]
  BY <1>3, <1>4 DEF ChosenFrom
<1>6. \A d : d \in Elements(r) <=> \E k \in DOMAIN ds : ds[k].kind = kind /\ d = ds[k]
  BY <1>1, <1>3, <1>4, <1>5 DEF ChosenFrom, Elements
<1>7. ASSUME \A j, k \in DOMAIN ds : ds[j].kind = kind /\ ds[k].kind = kind /\ ds[j].id = ds[k].id => j = k
      PROVE  Distinct(r)
  <2> SUFFICES ASSUME NEW i \in DOMAIN r, NEW j \in DOMAIN r, r[i].id = r[j].id PROVE i = j
    BY DEF Distinct
  <2>1. place[i] = place[j]
    BY <1>1, <1>5, <1>7
  <2>2. i \in Nat /\ j \in Nat
    BY <1>5, ListFacts
  <2>3. place[i] \in Nat
    BY <1>5
  <2>4. ~(i < j) /\ ~(j < i)
    BY <1>4, <2>1, <2>3 DEF ChosenFrom
  <2> QED
    BY <2>2, <2>4
<1> QED
  BY <1>4, <1>5, <1>6, <1>7

-----------------------------------------------------------------------------
(* What the parser has checked                                             *)

\* A signal with the transitions it has so far.
SignalOK(d) ==
  /\ {"kind", "id", "states", "initial", "parts"} \subseteq DOMAIN d
  /\ IsList(d.states) /\ IsList(d.parts)
  /\ d.initial \in Elements(d.states) /\ "*" \notin Elements(d.states)
  /\ \A tr \in Elements(d.parts) : Declared(tr.from, tr.to, Elements(d.states))

\* No two declarations of the kind have one name.
OneOfEach(kind, ds) ==
  \A j, k \in DOMAIN ds : ds[j].kind = kind /\ ds[k].kind = kind /\ ds[j].id = ds[k].id => j = k

\* The declarations of a document or a component.
SignalsFit(ds) ==
  /\ IsList(ds)
  /\ \A d \in Elements(ds) : d.kind = "signal" => SignalOK(d)
  /\ OneOfEach("signal", ds)

DeclarationOK(d) ==
  /\ d.kind = "signal" => SignalOK(d)
  /\ d.kind = "component" => SignalsFit(d.parts)
  /\ d.kind \in {"fork", "join"} => IsList(d.parts)
  /\ d.kind = "instantiate" => IsList(d.connections)

\* The list has none of the kind with the name.
Fresh(kind, id, ds) == \A k \in DOMAIN ds : ds[k].kind = kind => ds[k].id # id

Named == {"signal", "component"}

BlockOK(b) ==
  /\ {"kind", "parts"} \subseteq DOMAIN b
  /\ b.kind \in Named => "id" \in DOMAIN b
  /\ b.kind \in {"signal", "fork", "join", "component"}
  /\ IsList(b.parts)
  /\ DeclarationOK(b)

\* Blocks inside each other, in a document of which ds is read: a signal may be
\* in a component, and their names are not yet taken.
OpenOK(open, ds) ==
  /\ IsList(open) /\ Len(open) <= 2
  /\ \A i \in DOMAIN open : BlockOK(open[i])
  /\ Len(open) # 0 /\ open[1].kind \in Named => Fresh(open[1].kind, open[1].id, ds)
  /\ Len(open) = 2 => /\ open[1].kind = "component"
                      /\ open[2].kind = "signal"
                      /\ Fresh("signal", open[2].id, open[1].parts)

DocumentOK(ds) ==
  SignalsFit(ds) /\ OneOfEach("component", ds) /\ \A d \in Elements(ds) : DeclarationOK(d)

ParserOK ==
  /\ IsList(src) /\ \A i \in DOMAIN src : src[i][1] = "ident" => src[i][2] # "*"
  /\ IsList(tokens) /\ Elements(tokens) \subseteq DOMAIN src
  /\ OpenOK(blocks, decls)
  /\ DocumentOK(decls)

\* One more declaration.
LEMMA OneMoreName ==
  ASSUME NEW ds, IsList(ds), NEW kind, OneOfEach(kind, ds),
         NEW d, d.kind = kind => Fresh(kind, d.id, ds)
  PROVE  /\ IsList(Append(ds, d)) /\ OneOfEach(kind, Append(ds, d))
         /\ Elements(Append(ds, d)) = Elements(ds) \cup {d}
<1>1. PICK more, n : more = Append(ds, d) /\ n = Len(ds)
  OBVIOUS
<1>2. /\ IsList(more) /\ n \in Nat /\ DOMAIN ds = 1..n /\ DOMAIN more = 1..(n + 1)
      /\ \A i \in 1..n : more[i] = ds[i]
      /\ more[n + 1] = d
  BY <1>1, ListAppend
<1>3. /\ \A i \in 1..(n + 1) : i \in 1..n \/ i = n + 1
      /\ n + 1 \in 1..(n + 1) /\ \A i \in 1..n : i \in 1..(n + 1)
  BY <1>2
<1>4. Elements(more) = Elements(ds) \cup {d}
  BY <1>2, <1>3 DEF Elements
<1>5. OneOfEach(kind, more)
  <2> SUFFICES ASSUME NEW j \in DOMAIN more, NEW k \in DOMAIN more, more[j].kind = kind,
                      more[k].kind = kind, more[j].id = more[k].id
               PROVE  j = k
    BY DEF OneOfEach
  <2>1. CASE j \in 1..n /\ k \in 1..n
    BY <1>2, <2>1 DEF OneOfEach
  <2>2. CASE j \in 1..n /\ k = n + 1
    BY <1>2, <2>2 DEF Fresh
  <2>3. CASE k \in 1..n /\ j = n + 1
    BY <1>2, <2>3 DEF Fresh
  <2> QED
    BY <1>2, <1>3, <2>1, <2>2, <2>3
<1> QED
  BY <1>1, <1>2, <1>4, <1>5

LEMMA OneMoreDeclaration ==
  ASSUME NEW ds, SignalsFit(ds), NEW d, d.kind = "signal" => SignalOK(d) /\ Fresh("signal", d.id, ds)
  PROVE  /\ SignalsFit(Append(ds, d))
         /\ Elements(Append(ds, d)) = Elements(ds) \cup {d}
<1>1. /\ IsList(Append(ds, d)) /\ OneOfEach("signal", Append(ds, d))
      /\ Elements(Append(ds, d)) = Elements(ds) \cup {d}
  BY OneMoreName DEF SignalsFit
<1> QED
  BY <1>1 DEF SignalsFit

\* What may be added to a block: signals where there is none of the name, to a
\* component only, and transitions between its states to a signal.
FitsInto(d, b) ==
  /\ b.kind = "signal" => Declared(d.from, d.to, Elements(b.states))
  /\ b.kind = "component" => (d.kind = "signal" => SignalOK(d) /\ Fresh("signal", d.id, b.parts))

LEMMA BlockGrows ==
  ASSUME NEW b, BlockOK(b), NEW d, FitsInto(d, b)
  PROVE  LET more == [b EXCEPT !.parts = Append(@, d)]
         IN  /\ BlockOK(more) /\ more.kind = b.kind
             /\ b.kind \in Named => more.id = b.id
<1>1. PICK more, ps : more = [b EXCEPT !.parts = ps] /\ ps = Append(b.parts, d)
  OBVIOUS
<1>2. /\ DOMAIN more = DOMAIN b
      /\ more.parts = ps
      /\ \A field \in DOMAIN b : field # "parts" => more[field] = b[field]
  BY <1>1 DEF BlockOK
<1>3. more.kind = b.kind /\ (b.kind \in Named => more.id = b.id)
  BY <1>2 DEF BlockOK
<1>4. IsList(ps) /\ Elements(ps) = Elements(b.parts) \cup {d}
  <2>1. /\ IsList(ps) /\ Len(b.parts) \in Nat /\ DOMAIN b.parts = 1..Len(b.parts)
        /\ DOMAIN ps = 1..(Len(b.parts) + 1)
        /\ \A i \in 1..Len(b.parts) : ps[i] = b.parts[i]
        /\ ps[Len(b.parts) + 1] = d
    BY <1>1, ListAppend DEF BlockOK
  <2>2. PICK n \in Nat : n = Len(b.parts)
    BY <2>1
  <2>3. /\ \A i \in 1..(n + 1) : i \in 1..n \/ i = n + 1
        /\ n + 1 \in 1..(n + 1) /\ \A i \in 1..n : i \in 1..(n + 1)
    BY <2>2
  <2> QED
    BY <2>1, <2>2, <2>3 DEF Elements
<1>5. CASE b.kind = "signal"
  <2>1. SignalOK(b) /\ Declared(d.from, d.to, Elements(b.states))
    BY <1>5 DEF BlockOK, DeclarationOK, FitsInto
  <2>2. more.states = b.states /\ more.initial = b.initial
    BY <1>2, <2>1 DEF SignalOK
  <2>3. SignalOK(more)
    BY <1>2, <1>4, <2>1, <2>2 DEF SignalOK
  <2> QED
    BY <1>1, <1>2, <1>3, <1>4, <1>5, <2>3 DEF BlockOK, DeclarationOK
<1>6. CASE b.kind = "component"
  <2>1. SignalsFit(ps)
    BY <1>1, <1>6, OneMoreDeclaration DEF BlockOK, DeclarationOK, FitsInto
  <2> QED
    BY <1>1, <1>2, <1>3, <1>4, <1>6, <2>1 DEF BlockOK, DeclarationOK
<1>7. CASE b.kind \in {"fork", "join"}
  BY <1>1, <1>2, <1>3, <1>4, <1>7 DEF BlockOK, DeclarationOK
<1> QED
  BY <1>5, <1>6, <1>7 DEF BlockOK

\* A list with another entry at k.
Replaced(q, k, e) == [q EXCEPT ![k] = e]

LEMMA ReplacedFacts ==
  ASSUME NEW q, IsList(q), NEW k \in DOMAIN q, NEW e, NEW r, r = Replaced(q, k, e)
  PROVE  /\ IsList(r) /\ r[k] = e /\ DOMAIN r = DOMAIN q /\ Len(r) = Len(q)
         /\ \A i \in DOMAIN q : i # k => r[i] = q[i]
<1>1. PICK s : s = [q EXCEPT ![k] = e]
  OBVIOUS
<1>2. r = s
  BY <1>1 DEF Replaced
<1>3. /\ IsList(s) /\ DOMAIN s = DOMAIN q /\ Len(s) = Len(q) /\ s[k] = e
      /\ \A i \in DOMAIN q : i # k => s[i] = q[i]
  BY <1>1, ListReplace, Zenon
<1> QED
  BY <1>2, <1>3, Zenon

\* A declaration ends.
LEMMA CompleteKeeps ==
  ASSUME ParserOK, NEW open, OpenOK(open, decls), NEW d, NEW end, DeclarationOK(d),
         open = <<>> => (d.kind \in Named => Fresh(d.kind, d.id, decls)),
         open # <<>> => FitsInto(d, open[Len(open)]),
         Complete(d, open, end)
  PROVE  ParserOK'
<1>1. src' = src /\ tokens' = tokens
  BY DEF Complete
<1>2. CASE open = <<>>
  <2>1. decls' = Append(decls, d) /\ blocks' = open
    BY <1>2 DEF Complete
  <2>2. SignalsFit(decls') /\ Elements(decls') = Elements(decls) \cup {d}
    BY <1>2, <2>1, OneMoreDeclaration DEF ParserOK, DocumentOK, DeclarationOK, Named
  <2>3. DocumentOK(decls')
    <3>1. IsList(decls) /\ OneOfEach("component", decls)
      BY DEF ParserOK, DocumentOK, SignalsFit
    <3>2. d.kind = "component" => Fresh("component", d.id, decls)
      BY <1>2 DEF Named
    <3>3. OneOfEach("component", decls')
      BY <2>1, <3>1, <3>2, OneMoreName
    <3> QED
      BY <2>2, <3>3 DEF DocumentOK, ParserOK
  <2>4. Len(open) = 0
    BY <1>2, ListFacts DEF OpenOK
  <2>5. OpenOK(blocks', decls')
    BY <2>1, <2>4 DEF OpenOK
  <2> QED
    BY <1>1, <2>3, <2>5 DEF ParserOK
<1>3. CASE open # <<>>
  <2>1. PICK n : n = Len(open)
    OBVIOUS
  <2>2. PICK more : more = [open[n] EXCEPT !.parts = Append(@, d)]
    OBVIOUS
  <2>3. blocks' = Replaced(open, n, more) /\ decls' = decls
    BY <1>3, <2>1, <2>2 DEF Complete, Replaced
  <2>4. /\ n \in {1, 2} /\ DOMAIN open = 1..n /\ n \in DOMAIN open /\ IsList(open)
    <3>1. n \in Nat /\ DOMAIN open = 1..n /\ n # 0 /\ n <= 2
      BY <1>3, <2>1, ListFacts DEF OpenOK
    <3> QED
      BY <3>1 DEF OpenOK
  <2>5. /\ BlockOK(more) /\ more.kind = open[n].kind
        /\ open[n].kind \in Named => more.id = open[n].id
    BY <1>3, <2>1, <2>2, <2>4, BlockGrows DEF OpenOK
  <2>6. /\ IsList(blocks') /\ DOMAIN blocks' = 1..n /\ Len(blocks') = n
        /\ blocks'[n] = more /\ \A i \in 1..n : i # n => blocks'[i] = open[i]
    <3>1. PICK r : r = Replaced(open, n, more)
      OBVIOUS
    <3>2. n \in DOMAIN open /\ IsList(open)
      BY <2>4
    <3>3. /\ IsList(r) /\ r[n] = more /\ DOMAIN r = DOMAIN open /\ Len(r) = Len(open)
          /\ \A i \in DOMAIN open : i # n => r[i] = open[i]
      BY ONLY <3>1, <3>2, ReplacedFacts
    <3> QED
      BY <2>1, <2>3, <2>4, <3>1, <3>3
  <2>7. \A i \in DOMAIN blocks' : BlockOK(blocks'[i])
    BY <2>4, <2>5, <2>6 DEF OpenOK
  <2>8. CASE n = 1
    <3>1. more.kind \in Named => Fresh(more.kind, more.id, decls)
      BY <2>1, <2>5, <2>8 DEF OpenOK
    <3>2. OpenOK(blocks', decls)
      BY <2>6, <2>7, <2>8, <3>1 DEF OpenOK
    <3> QED
      BY <1>1, <2>3, <3>2 DEF ParserOK
  <2>9. CASE n = 2
    <3>1. /\ open[1].kind = "component" /\ open[2].kind = "signal"
          /\ Fresh("signal", open[2].id, open[1].parts)
          /\ Fresh("component", open[1].id, decls)
      BY <2>1, <2>9 DEF OpenOK, Named
    <3>2. blocks'[1] = open[1] /\ blocks'[2] = more
      BY <2>6, <2>9
    <3>3. more.kind = "signal" /\ more.id = open[2].id
      BY <2>5, <2>9, <3>1 DEF Named
    <3>4. OpenOK(blocks', decls)
      BY <2>6, <2>7, <2>9, <3>1, <3>2, <3>3 DEF OpenOK
    <3> QED
      BY <1>1, <2>3, <3>4 DEF ParserOK
  <2> QED
    BY <2>4, <2>8, <2>9
<1> QED
  BY <1>2, <1>3

\* Where the parser is.
LEMMA Contexts ==
  ASSUME OpenOK(blocks, decls)
  PROVE  /\ Context = "document" => blocks = <<>> /\ Siblings = decls
         /\ Context # "document" => /\ blocks # <<>> /\ Len(blocks) \in DOMAIN blocks
                                    /\ Context = blocks[Len(blocks)].kind
                                    /\ Siblings = blocks[Len(blocks)].parts
         /\ Context = "component" => Len(blocks) = 1
<1>1. PICK n : n = Len(blocks)
  OBVIOUS
<1>2. n \in Nat /\ DOMAIN blocks = 1..n /\ n <= 2 /\ (blocks = <<>> <=> n = 0)
  BY <1>1, ListFacts DEF OpenOK
<1>3. CASE blocks = <<>>
  BY <1>3 DEF Context, Siblings
<1>4. CASE blocks # <<>>
  <2>1. n \in 1..n /\ n \in {1, 2}
    BY <1>2, <1>4
  <2>2. Context = blocks[n].kind /\ Siblings = blocks[n].parts
    BY <1>1, <1>4 DEF Context, Siblings
  <2>3. blocks[n].kind \in {"signal", "fork", "join", "component"}
    BY <1>2, <2>1 DEF OpenOK, BlockOK
  <2>4. n = 2 => blocks[n].kind = "signal"
    BY <1>1 DEF OpenOK
  <2> QED
    BY <1>1, <1>2, <1>4, <2>1, <2>2, <2>3, <2>4
<1> QED
  BY <1>3, <1>4

\* A block is opened.
LEMMA EnterKeeps ==
  ASSUME ParserOK, NEW d, NEW end, Enter(d, end), BlockOK(d),
         Context = "document" \/ (Context = "component" /\ d.kind = "signal"),
         d.kind \in Named => IsNew(d.kind, d.id)
  PROVE  ParserOK'
<1>1. /\ src' = src /\ tokens' = tokens /\ decls' = decls
      /\ blocks' = Append(blocks, d)
  BY DEF Enter
<1>2. PICK n : n = Len(blocks)
  OBVIOUS
<1>3. /\ IsList(blocks') /\ n \in Nat /\ DOMAIN blocks = 1..n /\ Len(blocks') = n + 1
      /\ DOMAIN blocks' = 1..(n + 1) /\ blocks'[n + 1] = d
      /\ \A i \in 1..n : blocks'[i] = blocks[i]
  BY <1>1, <1>2, ListAppend DEF ParserOK, OpenOK
<1>4. /\ \A i \in 1..(n + 1) : i \in 1..n \/ i = n + 1
  BY <1>3
<1>5. \A i \in DOMAIN blocks' : BlockOK(blocks'[i])
  BY <1>3, <1>4 DEF ParserOK, OpenOK
<1>6. d.kind \in Named => Fresh(d.kind, d.id, Siblings)
  BY DEF IsNew, Fresh
<1>7. CASE Context = "document"
  <2>1. n = 0 /\ Siblings = decls
    BY <1>2, <1>7, Contexts, ListFacts DEF ParserOK, OpenOK
  <2>2. OpenOK(blocks', decls')
    BY <1>1, <1>3, <1>5, <1>6, <2>1 DEF OpenOK
  <2> QED
    BY <1>1, <2>2 DEF ParserOK
<1>8. CASE Context = "component" /\ d.kind = "signal"
  <2>1. n = 1 /\ blocks[1].kind = "component" /\ Siblings = blocks[1].parts
    BY <1>2, <1>8, Contexts DEF ParserOK
  <2>2. blocks'[1] = blocks[1] /\ blocks'[2] = d /\ Len(blocks') = 2
    BY <1>3, <2>1
  <2>3. Fresh("component", blocks[1].id, decls) /\ Fresh("signal", d.id, blocks[1].parts)
    BY <1>2, <1>6, <1>8, <2>1 DEF ParserOK, OpenOK, Named
  <2>4. OpenOK(blocks', decls')
    BY <1>1, <1>3, <1>5, <1>8, <2>1, <2>2, <2>3 DEF OpenOK
  <2> QED
    BY <1>1, <2>4 DEF ParserOK
<1> QED
  BY <1>7, <1>8

\* A function on the numbers from 1 on.
LEMMA CountedList ==
  ASSUME NEW m \in Int, NEW f, f = [k \in 1..m |-> f[k]]
  PROVE  IsList(f)
<1>1. PICK n \in Nat : 1..m = 1..n
  <2>1. CASE m \in Nat
    BY <2>1
  <2>2. CASE m \notin Nat
    <3>1. 1..m = 1..0
      BY <2>2
    <3> QED
      BY <3>1
  <2> QED
    BY <2>1, <2>2
<1>2. f \in [1..n -> Elements(f)]
  BY <1>1 DEF Elements
<1> QED
  BY <1>2, SeqDef DEF IsList

LEMMA NamesAreListed ==
  ASSUME IsList(tokens), NEW i, NamesFit(i)
  PROVE  IsList(Names(i))
<1>1. PICK e : e = ListEnd(i, "]")
  OBVIOUS
<1>2. Kind(i) = "[" /\ Kind(e) = "]"
  BY <1>1 DEF NamesFit, ListFits
<1>3. i \in Int /\ e \in Int
  <2>1. i \in DOMAIN tokens /\ e \in DOMAIN tokens
    BY <1>2 DEF Kind
  <2> QED
    BY <2>1, ListFacts
<1>4. Len(<<"ident">>) + 1 = 2
  OBVIOUS
<1>5. PICK m : m = (e - i) \div 2
  OBVIOUS
<1>6. m \in Int
  BY <1>3, <1>5
<1>7. Names(i) = [k \in 1..m |-> Text(i + (k - 1) * 2 + 1)]
  BY <1>1, <1>4, <1>5 DEF Names, ListTexts
<1>8. Names(i) = [k \in 1..m |-> Names(i)[k]]
  BY <1>7
<1> QED
  BY <1>6, <1>8, CountedList

LEMMA PairsAreListed ==
  ASSUME IsList(tokens), NEW i, PairsFit(i)
  PROVE  IsList(Pairs(i))
<1>1. PICK e : e = ListEnd(i, "}")
  OBVIOUS
<1>2. Kind(i) = "{" /\ Kind(e) = "}"
  BY <1>1 DEF PairsFit, ListFits
<1>3. i \in Int /\ e \in Int
  <2>1. i \in DOMAIN tokens /\ e \in DOMAIN tokens
    BY <1>2 DEF Kind
  <2> QED
    BY <2>1, ListFacts
<1>4. Len(Pair) + 1 = 4
  BY DEF Pair
<1>5. PICK m : m = (e - i) \div 4
  OBVIOUS
<1>6. m \in Int
  BY <1>3, <1>5
<1>7. PICK left : left = ListTexts(i, Pair, "}", 1)
  OBVIOUS
<1>8. DOMAIN left = 1..m
  BY <1>1, <1>4, <1>5, <1>7 DEF ListTexts
<1>9. PICK q : q = Pairs(i)
  OBVIOUS
<1>10. DOMAIN q = 1..m /\ q = [k \in 1..m |-> q[k]]
  BY <1>7, <1>8, <1>9 DEF Pairs
<1> QED
  BY <1>6, <1>9, <1>10, CountedList

\* A declaration with no parts of its own.
LEMMA PlainKeeps ==
  ASSUME ParserOK, NEW d, NEW end, DeclarationOK(d), d.kind \notin Named,
         Context = "signal" => Declared(d.from, d.to, Elements(blocks[Len(blocks)].states)),
         Complete(d, blocks, end)
  PROVE  ParserOK'
<1>1. OpenOK(blocks, decls)
  BY DEF ParserOK
<1>2. blocks # <<>> => FitsInto(d, blocks[Len(blocks)])
  <2>1. blocks # <<>> => Context = blocks[Len(blocks)].kind
    BY DEF Context
  <2> QED
    BY <2>1 DEF FitsInto, Named
<1> QED
  BY <1>1, <1>2, CompleteKeeps

\* No name is the wildcard.
LEMMA NamesAreNoWildcard ==
  ASSUME ParserOK, NEW i
  PROVE  "*" \notin Elements(Names(i))
<1>1. ASSUME NEW j PROVE Text(j) # "*"
  <2>1. CASE Kind(j) = "ident"
    <3>1. j \in DOMAIN tokens /\ src[tokens[j]][1] = "ident"
      BY <2>1 DEF Kind
    <3>2. tokens[j] \in DOMAIN src
      BY <3>1 DEF ParserOK, Elements
    <3> QED
      BY <2>1, <3>1, <3>2 DEF Text, ParserOK
  <2>2. CASE Kind(j) # "ident"
    BY <2>2 DEF Text
  <2> QED
    BY <2>1, <2>2
<1> QED
  BY <1>1 DEF Names, ListTexts, Elements

LEMMA SignalKeeps ==
  ASSUME ParserOK, ReadSignal
  PROVE  ParserOK'
<1>1. PICK d : d = [kind |-> "signal", id |-> Text(pos + 1), states |-> Names(pos + 5),
                    initial |-> Text(InitialAt + 2), parts |-> <<>>]
  OBVIOUS
<1>2. Enter(d, InitialAt + 3) /\ SignalFits
  BY <1>1 DEF ReadSignal
<1>3. IsList(d.states) /\ d.initial \in Elements(d.states)
  BY <1>1, <1>2, NamesAreListed DEF SignalFits, ParserOK, Elements
<1>4. SignalOK(d)
  BY <1>1, <1>3, EmptyList, NamesAreNoWildcard DEF SignalOK
<1>5. BlockOK(d)
  BY <1>1, <1>4, EmptyList DEF BlockOK, DeclarationOK
<1>6. IsNew("signal", d.id) /\ Context \in {"document", "component"} /\ d.kind = "signal"
  BY <1>1, <1>2 DEF SignalFits
<1> QED
  BY <1>2, <1>5, <1>6, EnterKeeps

LEMMA TransitionKeeps ==
  ASSUME ParserOK, ReadTransition
  PROVE  ParserOK'
<1> DEFINE h == GuardEnd(pos + 6)
<1>1. PICK d : d = [kind |-> "transition", event |-> Text(pos + 1), from |-> SourceState,
                    to |-> Text(pos + 5), guard |-> GuardText(pos + 6),
                    on_exit |-> ActionsOf(h, "on_exit"),
                    on_transition |-> ActionsOf(h, "on_transition"),
                    on_enter |-> ActionsOf(h, "on_enter")]
  OBVIOUS
<1>2. Complete(d, blocks, HooksEnd(h)) /\ TransitionFits
  BY <1>1 DEF ReadTransition
<1>3. Declared(d.from, d.to, Elements(blocks[Len(blocks)].states))
  BY <1>1, <1>2 DEF TransitionFits, Elements
<1>4. d.kind = "transition"
  BY <1>1
<1> QED
  BY <1>2, <1>3, <1>4, PlainKeeps DEF DeclarationOK, Named

LEMMA OthersKeep ==
  ASSUME ParserOK, ReadReaction \/ ReadMember \/ ReadGuard \/ ReadPort \/ ReadInstantiate
  PROVE  ParserOK'
<1>1. ASSUME NEW d, NEW end, Complete(d, blocks, end), Context # "signal",
             d.kind \in {"reaction", "guard", "port"}
      PROVE  ParserOK'
  BY <1>1, PlainKeeps DEF DeclarationOK, Named
<1>2. \A i : Body(i).kind = "reaction"
  BY DEF Body
<1>3. CASE ReadReaction
  BY <1>1, <1>2, <1>3 DEF ReadReaction, ReactionFits
<1>4. CASE ReadMember
  BY <1>1, <1>2, <1>4 DEF ReadMember, MemberFits
<1>5. CASE ReadGuard
  BY <1>1, <1>5 DEF ReadGuard, GuardDeclFits
<1>6. CASE ReadPort
  BY <1>1, <1>6 DEF ReadPort, PortFits
<1>7. CASE ReadInstantiate
  <2> DEFINE connects == Kind(ConnectAt) = "connect"
             conns == IF connects THEN Pairs(ConnectAt + 1) ELSE <<>>
             end == IF connects THEN ListEnd(ConnectAt + 1, "}") + 1 ELSE ConnectAt
  <2>1. PICK d : d = [kind |-> "instantiate", component |-> Text(pos + 1),
                      bindings |-> Inserted(Pairs(pos + 5)), connections |-> conns]
    OBVIOUS
  <2>2. Complete(d, blocks, end) /\ InstantiateFits
    BY <1>7, <2>1 DEF ReadInstantiate
  <2>3. IsList(conns)
    BY <2>2, PairsAreListed, EmptyList DEF InstantiateFits, ParserOK
  <2>4. d.kind = "instantiate" /\ d.connections = conns
    BY <2>1
  <2>5. DeclarationOK(d)
    BY <2>3, <2>4 DEF DeclarationOK
  <2>6. Context = "document"
    BY <2>2 DEF InstantiateFits
  <2> HIDE DEF conns, end
  <2> QED
    BY <2>2, <2>4, <2>5, <2>6, PlainKeeps DEF Named
<1> QED
  BY <1>3, <1>4, <1>5, <1>6, <1>7

LEMMA OpenKeeps ==
  ASSUME ParserOK, OpenFork \/ OpenJoin \/ OpenComponent
  PROVE  ParserOK'
<1>1. ASSUME NEW d, NEW end, Enter(d, end), Context = "document", {"kind", "parts"} \subseteq DOMAIN d,
             d.kind \in {"fork", "join", "component"}, d.parts = <<>>,
             d.kind = "component" => "id" \in DOMAIN d /\ IsNew("component", d.id)
      PROVE  ParserOK'
  <2>1. IsList(d.parts) /\ Elements(d.parts) = {} /\ DOMAIN d.parts = {}
    BY <1>1, EmptyList
  <2>2. SignalsFit(d.parts)
    BY <2>1 DEF SignalsFit, OneOfEach
  <2>3. BlockOK(d)
    BY <1>1, <2>1, <2>2 DEF BlockOK, DeclarationOK, Named
  <2> QED
    BY <1>1, <2>3, EnterKeeps DEF Named
<1>2. CASE OpenFork
  <2>1. PICK d : d = [kind |-> "fork", parts |-> <<>>] /\ Enter(d, pos + 2) /\ ForkFits
    BY <1>2 DEF OpenFork
  <2>2. {"kind", "parts"} \subseteq DOMAIN d /\ d.kind = "fork" /\ d.parts = <<>>
    BY <2>1
  <2> QED
    BY <1>1, <2>1, <2>2 DEF ForkFits
<1>3. CASE OpenJoin
  <2>1. PICK d : /\ d = [kind |-> "join", group |-> Text(pos + 1), parts |-> <<>>]
                 /\ Enter(d, pos + 3) /\ JoinFits
    BY <1>3 DEF OpenJoin
  <2>2. {"kind", "parts"} \subseteq DOMAIN d /\ d.kind = "join" /\ d.parts = <<>>
    BY <2>1
  <2> QED
    BY <1>1, <2>1, <2>2 DEF JoinFits
<1>4. CASE OpenComponent
  <2>1. PICK d, end : /\ d = [kind |-> "component", id |-> Text(pos + 1),
                              params |-> IF ComponentHasParams THEN Names(pos + 5) ELSE <<>>,
                              parts |-> <<>>]
                      /\ Enter(d, end) /\ ComponentFits
    BY <1>4 DEF OpenComponent
  <2>2. /\ {"kind", "parts", "id"} \subseteq DOMAIN d /\ d.kind = "component" /\ d.parts = <<>>
        /\ d.id = Text(pos + 1)
    BY <2>1
  <2> QED
    BY <1>1, <2>1, <2>2 DEF ComponentFits
<1> QED
  BY <1>2, <1>3, <1>4

LEMMA CloseKeeps ==
  ASSUME ParserOK, CloseBlock
  PROVE  ParserOK'
<1>1. PICK open, n, d : /\ open = SubSeq(blocks, 1, Len(blocks) - 1)
                        /\ n = Len(blocks) /\ d = blocks[n]
  OBVIOUS
<1>2. Complete(d, open, pos + 1) /\ blocks # <<>>
  BY <1>1 DEF CloseBlock, BlockEnds
<1>3. /\ n \in {1, 2} /\ DOMAIN blocks = 1..n
      /\ IsList(open) /\ Len(open) = n - 1 /\ DOMAIN open = 1..(n - 1)
      /\ \A i \in 1..(n - 1) : open[i] = blocks[i]
  <2>1. IsList(blocks) /\ Len(blocks) <= 2
    BY DEF ParserOK, OpenOK
  <2> QED
    BY <1>1, <1>2, <2>1, ListFront
<1>4. BlockOK(d) /\ DeclarationOK(d)
  <2>1. n \in DOMAIN blocks
    BY <1>3
  <2> QED
    BY <1>1, <2>1 DEF ParserOK, OpenOK, BlockOK
<1>5. CASE n = 1
  <2>1. Len(open) = 0 /\ DOMAIN open = {}
    BY <1>3, <1>5
  <2>2. OpenOK(open, decls)
    BY <1>3, <2>1 DEF OpenOK
  <2>3. d.kind \in Named => Fresh(d.kind, d.id, decls)
    BY <1>1, <1>5 DEF ParserOK, OpenOK
  <2>4. open = <<>>
    BY <1>3, <2>1, ListFacts
  <2> QED
    BY <1>2, <1>4, <2>2, <2>3, <2>4, CompleteKeeps
<1>6. CASE n = 2
  <2>1. Len(open) = 1 /\ open[1] = blocks[1]
    BY <1>3, <1>6
  <2>2. /\ open[1].kind = "component" /\ d.kind = "signal" /\ Fresh("signal", d.id, open[1].parts)
        /\ Fresh("component", open[1].id, decls)
        /\ BlockOK(open[1])
    BY <1>1, <1>3, <1>6, <2>1 DEF ParserOK, OpenOK, Named
  <2>3. OpenOK(open, decls)
    <3>1. \A i \in DOMAIN open : i = 1
      BY <1>3, <1>6
    <3> QED
      BY <1>3, <2>1, <2>2, <3>1 DEF OpenOK
  <2>4. open # <<>>
    BY <1>3, <2>1, ListFacts
  <2>5. FitsInto(d, open[Len(open)])
    BY <1>4, <2>1, <2>2 DEF FitsInto, DeclarationOK
  <2> QED
    BY <1>2, <1>4, <2>3, <2>4, <2>5, CompleteKeeps
<1> QED
  BY <1>3, <1>5, <1>6

LEMMA ParserKeeps ==
  ASSUME ParserOK, DdlNext
  PROVE  ParserOK'
<1>1. CASE Tokenize
  <2>1. PICK q, S : q = [i \in DOMAIN src |-> i] /\ tokens' = AtPlaces(q, S)
    BY <1>1 DEF Tokenize
  <2>2. IsList(q)
    <3>1. Len(src) \in Nat /\ DOMAIN src = 1..Len(src)
      BY ListFacts DEF ParserOK
    <3>2. q = [k \in 1..Len(src) |-> q[k]]
      BY <2>1, <3>1
    <3> QED
      BY <3>1, <3>2, CountedList
  <2>3. IsList(tokens') /\ Elements(tokens') \subseteq DOMAIN src
    <3>1. PICK n, r : n = Len(q) /\ r = AtPlaces(q, S)
      OBVIOUS
    <3>2. PICK place : ChosenFrom(q, S, n, r, place)
      BY <2>2, <3>1, AtPlacesChooses
    <3>3. DOMAIN q = 1..n
      BY <2>2, <3>1, ListFacts
    <3>4. IsList(r) /\ \A i \in DOMAIN r : r[i] \in DOMAIN src
      BY <2>1, <3>2, <3>3 DEF ChosenFrom
    <3> QED
      BY <2>1, <3>1, <3>4 DEF Elements
  <2> QED
    BY <1>1, <2>3 DEF Tokenize, ParserOK
<1>2. CASE Finish \/ RefuseSource
  BY <1>2 DEF Finish, RefuseSource, ParserOK
<1> QED
  BY <1>1, <1>2, SignalKeeps, TransitionKeeps, OthersKeep, OpenKeeps, CloseKeeps DEF DdlNext

-----------------------------------------------------------------------------
(* Lowering                                                                *)

LEMMA FlattenImage ==
  ASSUME NEW q, IsList(q), NEW f, f = [i \in DOMAIN q |-> f[i]], \A i \in DOMAIN q : IsList(f[i])
  PROVE  /\ IsList(SeqX!FlattenSeq(f))
         /\ \A x : x \in Elements(SeqX!FlattenSeq(f)) <=> \E i \in DOMAIN q : x \in Elements(f[i])
<1>1. IsList(f)
  BY ListImage
<1>2. DOMAIN f = DOMAIN q
  OBVIOUS
<1>3. IsLists(f)
  BY <1>1, <1>2 DEF IsLists
<1> QED
  BY <1>2, <1>3, FlattenElements

LitStates(sg) == {Lit(x) : x \in Elements(sg.states)}

\* What a transition becomes.
LEMMA ArmsFit ==
  ASSUME NEW sg, IsList(sg.states), NEW tr, Declared(tr.from, tr.to, Elements(sg.states))
  PROVE  /\ IsList(Arms(sg, tr))
         /\ \A x \in Elements(Arms(sg, tr)) :
              x.signal = Lit(sg.id) /\ x.from \in LitStates(sg) /\ x.to \in LitStates(sg)
<1>1. ASSUME NEW from \in Elements(sg.states)
      PROVE  /\ Lowered(sg, tr, from).signal = Lit(sg.id)
             /\ Lowered(sg, tr, from).from \in LitStates(sg)
             /\ Lowered(sg, tr, from).to \in LitStates(sg)
  BY DEF Lowered, LitStates, Declared
<1>2. PICK q : q = Arms(sg, tr)
  OBVIOUS
<1>3. CASE tr.from = "*"
  <2>1. q = [i \in DOMAIN sg.states |-> q[i]] /\ DOMAIN q = DOMAIN sg.states
        /\ \A i \in DOMAIN q : q[i] = Lowered(sg, tr, sg.states[i])
    BY <1>2, <1>3 DEF Arms
  <2>2. IsList(q)
    BY <2>1, ListImage
  <2>3. \A i \in DOMAIN q : sg.states[i] \in Elements(sg.states)
    BY <2>1 DEF Elements
  <2>4. \A i \in DOMAIN q :
          q[i].signal = Lit(sg.id) /\ q[i].from \in LitStates(sg) /\ q[i].to \in LitStates(sg)
    BY <1>1, <2>1, <2>3
  <2> QED
    BY <1>2, <2>2, <2>4 DEF Elements
<1>4. CASE tr.from # "*"
  <2>1. tr.from \in Elements(sg.states)
    BY <1>4 DEF Declared
  <2>2. q = <<Lowered(sg, tr, tr.from)>>
    BY <1>2, <1>4 DEF Arms
  <2>3. IsList(q) /\ Elements(q) = {Lowered(sg, tr, tr.from)}
    BY <2>2, OneInList
  <2> QED
    BY <1>1, <1>2, <2>1, <2>3
<1> QED
  BY <1>3, <1>4

LEMMA ArmsOfSignalFit ==
  ASSUME NEW sg, SignalOK(sg)
  PROVE  /\ IsList(ArmsOfSignal(sg))
         /\ \A x \in Elements(ArmsOfSignal(sg)) :
              x.signal = Lit(sg.id) /\ x.from \in LitStates(sg) /\ x.to \in LitStates(sg)
<1>1. PICK f : f = [i \in DOMAIN sg.parts |-> Arms(sg, sg.parts[i])]
  OBVIOUS
<1>2. f = [i \in DOMAIN sg.parts |-> f[i]] /\ \A i \in DOMAIN sg.parts : f[i] = Arms(sg, sg.parts[i])
  BY <1>1
<1>3. \A i \in DOMAIN sg.parts : Declared(sg.parts[i].from, sg.parts[i].to, Elements(sg.states))
  BY DEF SignalOK, Elements
<1>4. IsList(sg.states) /\ IsList(sg.parts)
  BY DEF SignalOK
<1>5. \A i \in DOMAIN sg.parts :
        /\ IsList(f[i])
        /\ \A x \in Elements(f[i]) :
             x.signal = Lit(sg.id) /\ x.from \in LitStates(sg) /\ x.to \in LitStates(sg)
  BY <1>2, <1>3, <1>4, ArmsFit
<1>6. ArmsOfSignal(sg) = SeqX!FlattenSeq(f)
  BY <1>1 DEF ArmsOfSignal, Each
<1> QED
  BY <1>2, <1>4, <1>5, <1>6, FlattenImage

\* A topology with each signal once, whose transitions are between its states.
Consistent(t) ==
  /\ IsList(t.signals) /\ IsList(t.transitions)
  /\ DeclaresStates(t)
  /\ Distinct(t.signals)

LEMMA EmitFits ==
  ASSUME NEW ds, SignalsFit(ds)
  PROVE  Consistent(EmitSignals(ds))
<1>1. PICK L : L = OfKind("signal", ds)
  OBVIOUS
<1>2. IsList(L) /\ Distinct(L) /\ \A i \in DOMAIN L : SignalOK(L[i])
  <2>1. IsList(L) /\ \A d \in Elements(L) : d.kind = "signal" /\ d \in Elements(ds)
    BY <1>1, OfKindFacts DEF SignalsFit, Elements
  <2>2. Distinct(L)
    BY <1>1, OfKindFacts DEF SignalsFit, OneOfEach
  <2> QED
    BY <2>1, <2>2 DEF SignalsFit, Elements
<1>3. PICK t, f : t = EmitSignals(ds) /\ f = [i \in DOMAIN L |-> ArmsOfSignal(L[i])]
  OBVIOUS
<1>4. /\ t.signals = [i \in DOMAIN L |->
            [id |-> Lit(L[i].id), initial |-> Lit(L[i].initial),
             states |-> {Lit(L[i].states[j]) : j \in DOMAIN L[i].states}]]
      /\ t.transitions = SeqX!FlattenSeq(f)
  BY <1>1, <1>3 DEF EmitSignals, Each
<1>5. /\ DOMAIN t.signals = DOMAIN L /\ t.signals = [i \in DOMAIN L |-> t.signals[i]]
      /\ \A i \in DOMAIN L : /\ t.signals[i].id = Lit(L[i].id)
                              /\ t.signals[i].initial = Lit(L[i].initial)
                              /\ t.signals[i].states = LitStates(L[i])
  BY <1>4 DEF LitStates, Elements
<1>6. IsList(t.signals)
  BY <1>2, <1>5, ListImage
<1>7. /\ f = [i \in DOMAIN L |-> f[i]]
      /\ \A i \in DOMAIN L : /\ IsList(f[i])
                              /\ \A x \in Elements(f[i]) :
                                   /\ x.signal = Lit(L[i].id)
                                   /\ x.from \in LitStates(L[i])
                                   /\ x.to \in LitStates(L[i])
  <2>1. \A i \in DOMAIN L : f[i] = ArmsOfSignal(L[i])
    BY <1>3
  <2>2. f = [i \in DOMAIN L |-> f[i]]
    BY <1>3
  <2> QED
    BY <1>2, <2>1, <2>2, ArmsOfSignalFit
<1>8. /\ IsList(t.transitions)
      /\ \A x \in Elements(t.transitions) : \E i \in DOMAIN L : x \in Elements(f[i])
  BY <1>2, <1>4, <1>7, FlattenImage
<1>9. DeclaresStates(t)
  <2>1. ASSUME NEW i \in DOMAIN L PROVE t.signals[i].initial \in t.signals[i].states
    <3>1. L[i].initial \in Elements(L[i].states)
      BY <1>2 DEF SignalOK
    <3> QED
      BY <1>5, <3>1 DEF LitStates
  <2>2. \A sg \in Elements(t.signals) : sg.initial \in sg.states
    BY <1>5, <2>1 DEF Elements
  <2>3. ASSUME NEW x \in Elements(t.transitions)
        PROVE  \E sg \in Elements(t.signals) : /\ sg.id = x.signal
                                               /\ x.from \in sg.states \cup {Any}
                                               /\ x.to \in sg.states
    <3>1. PICK i \in DOMAIN L : x \in Elements(f[i])
      BY <1>8
    <3>2. t.signals[i] \in Elements(t.signals)
      BY <1>5 DEF Elements
    <3> QED
      BY <1>5, <1>7, <3>1, <3>2
  <2> QED
    BY <2>2, <2>3 DEF DeclaresStates
<1>10. Distinct(t.signals)
  BY <1>2, <1>5 DEF Distinct, Lit
<1> QED
  BY <1>3, <1>6, <1>8, <1>9, <1>10 DEF Consistent

\* What is expanded, and its components.
Expandable(t) == Lists(t) /\ DeclaresStates(t)

FlatOK(t) ==
  /\ t = [signals |-> t.signals, transitions |-> t.transitions,
          reactions |-> t.reactions, components |-> t.components]
  /\ Expandable(t)
  /\ \A n \in DOMAIN t.components : Expandable(t.components[n])

InstancesOK(q) == IsList(q) /\ \A i \in DOMAIN q : IsList(q[i].connections)

LEMMA EmittedReactions ==
  ASSUME DocumentOK(decls), NEW k \in DOMAIN decls
  PROVE  IsList(EmitReactions(k))
<1>1. PICK d : d = decls[k]
  OBVIOUS
<1>2. d.kind \in {"fork", "join"} => IsList(d.parts)
  BY <1>1 DEF DocumentOK, DeclarationOK, Elements
<1>3. ASSUME IsList(d.parts), NEW group, NEW requires
      PROVE  IsList([i \in DOMAIN d.parts |-> EmitReaction(d.parts[i], group, requires)])
  <2>1. PICK q : q = [i \in DOMAIN d.parts |-> EmitReaction(d.parts[i], group, requires)]
    OBVIOUS
  <2>2. q = [i \in DOMAIN d.parts |-> q[i]]
    BY <2>1
  <2>3. IsList(q)
    BY <1>3, <2>2, ListImage
  <2> QED
    BY <2>1, <2>3
<1>4. CASE d.kind = "reaction"
  BY <1>1, <1>4, OneInList DEF EmitReactions
<1>5. CASE d.kind = "fork"
  <2>1. EmitReactions(k) = [i \in DOMAIN d.parts |-> EmitReaction(d.parts[i], GroupOf(k), {})]
    BY <1>1, <1>5 DEF EmitReactions
  <2> QED
    BY <1>2, <1>3, <1>5, <2>1
<1>6. CASE d.kind = "join"
  <2>1. EmitReactions(k) = [i \in DOMAIN d.parts |-> EmitReaction(d.parts[i], NoGroup, {d.group})]
    BY <1>1, <1>6 DEF EmitReactions
  <2> QED
    BY <1>2, <1>3, <1>6, <2>1
<1>7. CASE d.kind \notin {"reaction", "fork", "join"}
  BY <1>1, <1>7, EmptyList DEF EmitReactions
<1> QED
  BY <1>4, <1>5, <1>6, <1>7

LEMMA EmittedComponent ==
  ASSUME NEW c, SignalsFit(c.parts)
  PROVE  Expandable(EmitComponent(c))
<1>1. PICK e, L : e = EmitComponent(c) /\ L = OfKind("reaction", c.parts)
  OBVIOUS
<1>2. /\ e.signals = EmitSignals(c.parts).signals
      /\ e.transitions = EmitSignals(c.parts).transitions
      /\ e.reactions = [i \in DOMAIN L |-> EmitReaction(L[i], NoGroup, {})]
  BY <1>1 DEF EmitComponent
<1>3. Consistent(EmitSignals(c.parts))
  BY EmitFits
<1>4. IsList(e.reactions)
  <2>1. IsList(L)
    BY <1>1, OfKindFacts DEF SignalsFit
  <2>2. e.reactions = [i \in DOMAIN L |-> e.reactions[i]]
    BY <1>2
  <2> QED
    BY <2>1, <2>2, ListImage
<1>5. DeclaresStates(e)
  BY <1>2, <1>3 DEF Consistent, DeclaresStates
<1> QED
  BY <1>1, <1>2, <1>3, <1>4, <1>5 DEF Expandable, Lists, Consistent

LEMMA EmittedInstances ==
  ASSUME DocumentOK(decls)
  PROVE  InstancesOK(Schema.instances)
<1>1. PICK L, q : L = OfKind("instantiate", decls) /\ q = [i \in DOMAIN L |-> EmitInstance(L[i])]
  OBVIOUS
<1>2. Schema.instances = q
  BY <1>1 DEF Schema
<1>3. IsList(L) /\ \A i \in DOMAIN L : IsList(L[i].connections)
  <2>1. IsList(L) /\ \A d \in Elements(L) : d.kind = "instantiate" /\ d \in Elements(decls)
    BY <1>1, OfKindFacts DEF DocumentOK, SignalsFit, Elements
  <2> QED
    BY <2>1 DEF DocumentOK, DeclarationOK, Elements
<1>4. q = [i \in DOMAIN L |-> q[i]] /\ DOMAIN q = DOMAIN L
  BY <1>1
<1>5. IsList(q)
  BY <1>3, <1>4, ListImage
<1>6. ASSUME NEW i \in DOMAIN L PROVE IsList(q[i].connections)
  <2>1. PICK d, conns : d = L[i] /\ conns = q[i].connections
    OBVIOUS
  <2>2. conns = [j \in DOMAIN d.connections |->
                   [port |-> Lit(d.connections[j][1]), target |-> Lit(d.connections[j][2])]]
    BY <1>1, <2>1 DEF EmitInstance
  <2>3. conns = [j \in DOMAIN d.connections |-> conns[j]]
    BY <2>2
  <2>4. IsList(conns)
    BY <1>3, <2>1, <2>3, ListImage
  <2> QED
    BY <2>1, <2>4
<1> QED
  BY <1>2, <1>4, <1>5, <1>6 DEF InstancesOK

LEMMA SchemaFits ==
  ASSUME DocumentOK(decls)
  PROVE  LET merged == [signals |-> Schema.signals, transitions |-> Schema.transitions,
                        reactions |-> Schema.reactions, components |-> Schema.components]
         IN  FlatOK(merged) /\ Distinct(merged.signals)
<1>1. PICK t, body : t = Schema /\ body = EmitSignals(decls)
  OBVIOUS
<1>2. PICK cs : cs = {decls[k] : k \in PlacesOf({"component"}, decls)}
  OBVIOUS
<1>3. PICK f : f = [k \in DOMAIN decls |-> EmitReactions(k)]
  OBVIOUS
<1>4. /\ t.signals = body.signals /\ t.transitions = body.transitions
      /\ t.reactions = SeqX!FlattenSeq(f)
      /\ t.components = [n \in {c.id : c \in cs} |-> EmitComponent(CHOOSE c \in cs : c.id = n)]
  BY <1>1, <1>2, <1>3 DEF Schema
<1>5. Consistent(body)
  BY <1>1, EmitFits DEF DocumentOK
<1>6. IsList(t.reactions)
  <2>1. f = [k \in DOMAIN decls |-> f[k]] /\ \A k \in DOMAIN decls : f[k] = EmitReactions(k)
    BY <1>3
  <2>2. IsList(decls)
    BY DEF DocumentOK, SignalsFit
  <2>3. \A k \in DOMAIN decls : IsList(f[k])
    BY <2>1, EmittedReactions
  <2> QED
    BY <1>4, <2>1, <2>2, <2>3, FlattenImage
<1>7. \A c \in cs : SignalsFit(c.parts)
  BY <1>2 DEF PlacesOf, DocumentOK, DeclarationOK, Elements
<1>8. ASSUME NEW n \in DOMAIN t.components PROVE Expandable(t.components[n])
  <2>1. n \in {c.id : c \in cs} /\ t.components[n] = EmitComponent(CHOOSE c \in cs : c.id = n)
    BY <1>4
  <2>2. PICK c : c = CHOOSE x \in cs : x.id = n
    OBVIOUS
  <2>3. c \in cs
    BY <2>1, <2>2
  <2>4. Expandable(EmitComponent(c))
    BY <1>7, <2>3, EmittedComponent
  <2> QED
    BY <2>1, <2>2, <2>4
<1>9. PICK m : m = [signals |-> Schema.signals, transitions |-> Schema.transitions,
                    reactions |-> Schema.reactions, components |-> Schema.components]
  OBVIOUS
<1>10. /\ m.signals = body.signals /\ m.transitions = body.transitions
       /\ m.reactions = t.reactions /\ m.components = t.components
       /\ m = [signals |-> m.signals, transitions |-> m.transitions,
               reactions |-> m.reactions, components |-> m.components]
  BY <1>1, <1>4, <1>9
<1>11. DeclaresStates(m)
  BY <1>5, <1>10 DEF DeclaresStates, Consistent
<1>12. Expandable(m)
  BY <1>5, <1>6, <1>10, <1>11 DEF Expandable, Lists, Consistent
<1>13. FlatOK(m)
  BY <1>8, <1>10, <1>12 DEF FlatOK
<1> QED
  BY <1>5, <1>9, <1>10, <1>13 DEF Consistent

-----------------------------------------------------------------------------
(* The first of a list                                                     *)

\* The first entry of q that is in M, if there is one.
FirstIn(q, M) ==
  LET places == {i \in DOMAIN q : q[i] \in M}
  IN  IF places = {} THEN {} ELSE {q[First(places)]}

IsFirstAt(q, M, i) == i \in DOMAIN q /\ q[i] \in M /\ \A j \in DOMAIN q : j < i => q[j] \notin M

LEMMA FirstInFacts ==
  ASSUME NEW q, IsList(q), NEW M
  PROVE  /\ \A i : IsFirstAt(q, M, i) => FirstIn(q, M) = {q[i]}
         /\ (\A i \in DOMAIN q : q[i] \notin M) => FirstIn(q, M) = {}
         /\ (\A i \in DOMAIN q : q[i] \notin M) \/ \E i : IsFirstAt(q, M, i)
<1>1. PICK S : S = {i \in DOMAIN q : q[i] \in M}
  OBVIOUS
<1>2. S \subseteq Nat /\ DOMAIN q \subseteq Nat
  BY <1>1, ListFacts
<1>3. FirstIn(q, M) = IF S = {} THEN {} ELSE {q[First(S)]}
  BY <1>1 DEF FirstIn
<1>4. S # {} => First(S) \in S /\ \A m \in S : First(S) <= m
  BY <1>2, LeastExists DEF First
<1>5. S # {} => \E i : IsFirstAt(q, M, i)
  <2> SUFFICES ASSUME S # {} PROVE IsFirstAt(q, M, First(S))
    OBVIOUS
  <2>1. PICK n \in Nat : n = First(S)
    BY <1>2, <1>4
  <2>2. \A j \in Nat : j < n => ~(n <= j)
    OBVIOUS
  <2> QED
    BY <1>1, <1>2, <1>4, <2>1, <2>2 DEF IsFirstAt
<1>6. ASSUME NEW i, IsFirstAt(q, M, i) PROVE FirstIn(q, M) = {q[i]}
  <2>1. i \in S
    BY <1>1, <1>6 DEF IsFirstAt
  <2>2. PICK n \in Nat, m \in Nat : n = First(S) /\ m = i
    BY <1>2, <1>4, <2>1
  <2>3. n <= m /\ ~(n < m)
    BY <1>1, <1>4, <1>6, <2>1, <2>2 DEF IsFirstAt
  <2>4. n = m
    BY <2>3
  <2> QED
    BY <1>3, <2>1, <2>2, <2>4
<1>7. (\A i \in DOMAIN q : q[i] \notin M) <=> S = {}
  BY <1>1
<1> QED
  BY <1>3, <1>5, <1>6, <1>7

\* Of two lists the first comes first.
LEMMA FirstInConcat ==
  ASSUME NEW p, IsList(p), NEW q, IsList(q), NEW M
  PROVE  FirstIn(p \o q, M) = IF FirstIn(p, M) # {} THEN FirstIn(p, M) ELSE FirstIn(q, M)
<1>1. PICK s, m, n : s = p \o q /\ m = Len(p) /\ n = Len(q)
  OBVIOUS
<1>2. /\ IsList(s) /\ m \in Nat /\ n \in Nat
      /\ DOMAIN p = 1..m /\ DOMAIN q = 1..n
      /\ \A i \in 1..m : s[i] = p[i] /\ i \in DOMAIN s
      /\ \A i \in 1..n : s[m + i] = q[i] /\ m + i \in DOMAIN s
      /\ \A i \in DOMAIN s : i \in 1..m \/ \E j \in 1..n : i = m + j /\ i > m
  <2>1. Follows(p, q, s)
    BY <1>1, ConcatFollows
  <2> QED
    BY <1>1, <2>1 DEF Follows
<1>3. CASE \E i : IsFirstAt(p, M, i)
  <2>1. PICK i \in 1..m : IsFirstAt(p, M, i)
    BY <1>2, <1>3 DEF IsFirstAt
  <2>2. \A j \in 1..n : ~(m + j < i)
    BY <1>2
  <2>3. IsFirstAt(s, M, i)
    BY <1>2, <2>1, <2>2 DEF IsFirstAt
  <2>4. FirstIn(p, M) = {p[i]} /\ FirstIn(s, M) = {s[i]}
    BY <1>2, <2>1, <2>3, FirstInFacts
  <2> QED
    BY <1>1, <1>2, <2>4
<1>4. CASE (\A i \in DOMAIN p : p[i] \notin M) /\ \E i : IsFirstAt(q, M, i)
  <2>1. PICK i \in 1..n : IsFirstAt(q, M, i)
    BY <1>2, <1>4 DEF IsFirstAt
  <2>2. \A j \in 1..n : m + j < m + i => j < i
    BY <1>2
  <2>3. IsFirstAt(s, M, m + i)
    <3>1. m + i \in DOMAIN s /\ s[m + i] \in M
      BY <1>2, <2>1 DEF IsFirstAt
    <3>2. ASSUME NEW j \in DOMAIN s, j < m + i PROVE s[j] \notin M
      <4>1. CASE j \in 1..m
        BY <1>2, <1>4, <4>1
      <4>2. CASE \E k \in 1..n : j = m + k
        <5>1. PICK k \in 1..n : j = m + k
          BY <4>2
        <5>2. q[k] \notin M
          BY <1>2, <2>1, <2>2, <3>2, <5>1 DEF IsFirstAt
        <5> QED
          BY <1>2, <5>1, <5>2
      <4> QED
        BY <1>2, <4>1, <4>2
    <3> QED
      BY <3>1, <3>2 DEF IsFirstAt
  <2>4. FirstIn(p, M) = {} /\ FirstIn(q, M) = {q[i]} /\ FirstIn(s, M) = {s[m + i]}
    BY <1>2, <1>4, <2>1, <2>3, FirstInFacts
  <2> QED
    BY <1>1, <1>2, <2>4
<1>5. CASE (\A i \in DOMAIN p : p[i] \notin M) /\ \A i \in DOMAIN q : q[i] \notin M
  <2>1. \A i \in DOMAIN s : s[i] \notin M
    BY <1>2, <1>5
  <2> QED
    BY <1>1, <1>2, <1>5, <2>1, FirstInFacts
<1> QED
  BY <1>3, <1>4, <1>5, FirstInFacts

\* Of a list of lists it is the first of the first that has one.
OfTheFirst(r, M) ==
  /\ \A k \in DOMAIN r :
       FirstIn(r[k], M) # {} /\ (\A j \in DOMAIN r : j < k => FirstIn(r[j], M) = {})
         => FirstIn(SeqX!FlattenSeq(r), M) = FirstIn(r[k], M)
  /\ (\A k \in DOMAIN r : FirstIn(r[k], M) = {}) => FirstIn(SeqX!FlattenSeq(r), M) = {}

LEMMA FirstInFlatten ==
  ASSUME NEW q, IsLists(q), NEW M
  PROVE  OfTheFirst(q, M)
<1> DEFINE S == {n \in Nat : \A r : IsLists(r) /\ Len(r) = n => OfTheFirst(r, M)}
<1>1. 0 \in S
  <2> SUFFICES ASSUME NEW r, IsLists(r), Len(r) = 0 PROVE OfTheFirst(r, M)
    OBVIOUS
  <2>1. r = <<>> /\ DOMAIN r = {}
    BY EmptyList, ListFacts DEF IsLists
  <2>2. PICK e : e = SeqX!FlattenSeq(r)
    OBVIOUS
  <2>3. IsList(e) /\ DOMAIN e = {}
    BY <2>1, <2>2, FlattenNothing, EmptyList, ListFacts
  <2>4. FirstIn(e, M) = {}
    BY <2>3, FirstInFacts
  <2> QED
    BY <2>1, <2>2, <2>4 DEF OfTheFirst
<1>2. ASSUME NEW n \in Nat, n \in S PROVE n + 1 \in S
  <2> SUFFICES ASSUME NEW r, IsLists(r), Len(r) = n + 1 PROVE OfTheFirst(r, M)
    OBVIOUS
  <2>1. r # <<>>
    BY EmptyList, ListFacts
  <2>2. /\ IsLists(Front(r)) /\ Len(Front(r)) = n /\ DOMAIN Front(r) = 1..n
        /\ DOMAIN r = 1..(n + 1)
        /\ \A i \in 1..n : Front(r)[i] = r[i]
        /\ IsList(r[n + 1])
    BY <2>1, FrontOfLists
  <2>3. PICK a, b, c : a = SeqX!FlattenSeq(Front(r)) /\ b = r[n + 1] /\ c = SeqX!FlattenSeq(r)
    OBVIOUS
  <2>4. OfTheFirst(Front(r), M)
    BY <1>2, <2>2
  <2>5. IsList(a) /\ c = a \o b
    BY <2>1, <2>2, <2>3, FlattenLast, FlattenElements
  <2>6. FirstIn(c, M) = IF FirstIn(a, M) # {} THEN FirstIn(a, M) ELSE FirstIn(b, M)
    BY <2>2, <2>3, <2>5, FirstInConcat
  <2>7. /\ \A i \in 1..(n + 1) : i \in 1..n \/ i = n + 1
        /\ \A i \in 1..n : i \in 1..(n + 1) /\ i < n + 1
        /\ n + 1 \in 1..(n + 1)
    OBVIOUS
  <2>8. (\A k \in 1..n : FirstIn(r[k], M) = {}) => FirstIn(a, M) = {}
    BY <2>2, <2>3, <2>4 DEF OfTheFirst
  <2>9. ASSUME NEW k \in 1..(n + 1), FirstIn(r[k], M) # {},
               \A j \in 1..(n + 1) : j < k => FirstIn(r[j], M) = {}
        PROVE  FirstIn(c, M) = FirstIn(r[k], M)
    <3>1. CASE k \in 1..n
      <4>1. FirstIn(a, M) = FirstIn(r[k], M)
        BY <2>2, <2>3, <2>4, <2>7, <2>9, <3>1 DEF OfTheFirst
      <4> QED
        BY <2>6, <2>9, <4>1
    <3>2. CASE k = n + 1
      BY <2>3, <2>6, <2>7, <2>8, <2>9, <3>2
    <3> QED
      BY <2>7, <3>1, <3>2
  <2>10. (\A k \in 1..(n + 1) : FirstIn(r[k], M) = {}) => FirstIn(c, M) = {}
    BY <2>3, <2>6, <2>7, <2>8
  <2> QED
    BY <2>2, <2>3, <2>9, <2>10 DEF OfTheFirst
<1> HIDE DEF S
<1>3. Len(q) \in S
  <2>1. Len(q) \in Nat
    BY ListFacts DEF IsLists
  <2> QED
    BY <1>1, <1>2, <2>1, AllNumbers
<1> QED
  BY <1>3 DEF S

-----------------------------------------------------------------------------
(* The first arm wins                                                      *)

\* In the lists that are looked at, M is what an event in a state looks for.
LooksFor(q, M, sg, event, from) ==
  \A x \in Elements(q) : x \in M <=> Matches(x, Lit(sg.id), Lit(event), Lit(from))

\* Of what one transition becomes.
LEMMA FirstOfArms ==
  ASSUME NEW sg, SignalOK(sg), NEW tr \in Elements(sg.parts), NEW event,
         NEW from \in Elements(sg.states),
         NEW M, LooksFor(Arms(sg, tr), M, sg, event, from)
  PROVE  FirstIn(Arms(sg, tr), M) =
           IF tr.event = event /\ tr.from \in {from, "*"} THEN {Lowered(sg, tr, from)} ELSE {}
<1>1. /\ "*" \notin Elements(sg.states) /\ IsList(sg.states)
      /\ Declared(tr.from, tr.to, Elements(sg.states))
  BY DEF SignalOK
<1>2. PICK q : q = Arms(sg, tr)
  OBVIOUS
<1>3. IsList(q)
  BY <1>1, <1>2, ArmsFit
<1>4. ASSUME NEW x \in Elements(sg.states), Lowered(sg, tr, x) \in Elements(q)
      PROVE  Lowered(sg, tr, x) \in M <=> tr.event = event /\ x = from
  <2>1. PICK y : y = Lowered(sg, tr, x)
    OBVIOUS
  <2>2. y.signal = Lit(sg.id) /\ y.event = Lit(tr.event) /\ y.from = Lit(x)
    BY <2>1 DEF Lowered
  <2>3. Lit(x) # Any
    BY <1>1, WildcardAssumption DEF Lit
  <2>4. (Lit(x) = Lit(from) <=> x = from) /\ (Lit(tr.event) = Lit(event) <=> tr.event = event)
    BY DEF Lit
  <2>5. y \in M <=> Matches(y, Lit(sg.id), Lit(event), Lit(from))
    BY <1>2, <1>4, <2>1 DEF LooksFor
  <2> QED
    BY <2>1, <2>2, <2>3, <2>4, <2>5 DEF Matches
<1>5. CASE tr.from = "*"
  <2>1. /\ DOMAIN q = DOMAIN sg.states
        /\ \A i \in DOMAIN q : q[i] = Lowered(sg, tr, sg.states[i])
    BY <1>2, <1>5 DEF Arms
  <2>2. \A i \in DOMAIN q : q[i] \in M <=> tr.event = event /\ sg.states[i] = from
    BY <1>4, <2>1 DEF Elements
  <2>3. PICK i \in DOMAIN q : sg.states[i] = from
    BY <2>1 DEF Elements
  <2>4. CASE tr.event = event
    <3>1. PICK k : IsFirstAt(q, M, k)
      BY <1>3, <2>2, <2>3, <2>4, FirstInFacts
    <3>2. FirstIn(q, M) = {q[k]} /\ k \in DOMAIN q /\ q[k] \in M
      BY <1>3, <3>1, FirstInFacts DEF IsFirstAt
    <3>3. q[k] = Lowered(sg, tr, from)
      BY <2>1, <2>2, <3>2
    <3> QED
      BY <1>2, <1>5, <2>4, <3>2, <3>3
  <2>5. CASE tr.event # event
    <3>1. FirstIn(q, M) = {}
      BY <1>3, <2>2, <2>5, FirstInFacts
    <3> QED
      BY <1>2, <2>5, <3>1
  <2> QED
    BY <2>4, <2>5
<1>6. CASE tr.from # "*"
  <2>1. tr.from \in Elements(sg.states)
    BY <1>1, <1>6 DEF Declared
  <2>2. q = <<Lowered(sg, tr, tr.from)>>
    BY <1>2, <1>6 DEF Arms
  <2>3. DOMAIN q = 1..1 /\ q[1] = Lowered(sg, tr, tr.from) /\ Elements(q) = {Lowered(sg, tr, tr.from)}
    BY <2>2, OneInList
  <2>4. q[1] \in M <=> tr.event = event /\ tr.from = from
    BY <1>4, <2>1, <2>3
  <2>5. 1 \in 1..1 /\ \A i \in 1..1 : i = 1
    OBVIOUS
  <2>6. CASE q[1] \in M
    <3>1. IsFirstAt(q, M, 1)
      BY <2>3, <2>5, <2>6 DEF IsFirstAt
    <3>2. FirstIn(q, M) = {q[1]}
      BY <1>3, <3>1, FirstInFacts
    <3> QED
      BY <1>2, <2>3, <2>4, <2>6, <3>2
  <2>7. CASE q[1] \notin M
    <3>1. FirstIn(q, M) = {}
      BY <1>3, <2>3, <2>5, <2>7, FirstInFacts
    <3> QED
      BY <1>2, <1>6, <2>4, <2>7, <3>1
  <2> QED
    BY <2>6, <2>7
<1> QED
  BY <1>5, <1>6

\* Of a signal's.
LEMMA FirstOfSignal ==
  ASSUME NEW sg, SignalOK(sg), NEW event, NEW from \in Elements(sg.states),
         NEW M, LooksFor(ArmsOfSignal(sg), M, sg, event, from)
  PROVE  FirstIn(ArmsOfSignal(sg), M) = FirstArm(sg, event, from)
<1>1. PICK f : f = [i \in DOMAIN sg.parts |-> Arms(sg, sg.parts[i])]
  OBVIOUS
<1>2. /\ f = [i \in DOMAIN sg.parts |-> f[i]] /\ DOMAIN f = DOMAIN sg.parts
      /\ \A i \in DOMAIN sg.parts : f[i] = Arms(sg, sg.parts[i]) /\ sg.parts[i] \in Elements(sg.parts)
  BY <1>1 DEF Elements
<1>3. IsList(sg.states) /\ IsList(sg.parts)
  BY DEF SignalOK
<1>4. \A i \in DOMAIN sg.parts : IsList(f[i])
  BY <1>2, <1>3, ArmsFit DEF SignalOK
<1>5. IsLists(f)
  BY <1>2, <1>3, <1>4, ListImage DEF IsLists
<1>6. ArmsOfSignal(sg) = SeqX!FlattenSeq(f)
  BY <1>1 DEF ArmsOfSignal, Each
<1>7. OfTheFirst(f, M)
  BY <1>5, FirstInFlatten
<1> DEFINE fits(k) == sg.parts[k].event = event /\ sg.parts[k].from \in {from, "*"}
<1>8. ASSUME NEW k \in DOMAIN sg.parts
      PROVE  FirstIn(f[k], M) = IF fits(k) THEN {Lowered(sg, sg.parts[k], from)} ELSE {}
  <2>1. \A x \in Elements(f[k]) : x \in Elements(ArmsOfSignal(sg))
    BY <1>2, <1>5, <1>6, FlattenElements
  <2>2. LooksFor(Arms(sg, sg.parts[k]), M, sg, event, from)
    BY <1>2, <2>1 DEF LooksFor
  <2> QED
    BY <1>2, <2>2, FirstOfArms
<1> HIDE DEF fits
<1>9. PICK fitting : fitting = {k \in DOMAIN sg.parts : fits(k)}
  OBVIOUS
<1>10. FirstArm(sg, event, from) =
         IF fitting = {} THEN {} ELSE {Lowered(sg, sg.parts[First(fitting)], from)}
  BY <1>9 DEF FirstArm, fits
<1>11. CASE fitting = {}
  <2>1. \A k \in DOMAIN f : FirstIn(f[k], M) = {}
    BY <1>2, <1>8, <1>9, <1>11
  <2> QED
    BY <1>6, <1>7, <1>10, <1>11, <2>1 DEF OfTheFirst
<1>12. CASE fitting # {}
  <2>1. DOMAIN sg.parts \subseteq Nat
    BY <1>3, ListFacts
  <2>2. PICK k : k = First(fitting)
    OBVIOUS
  <2>3. k \in fitting /\ \A j \in fitting : k <= j
    BY <1>9, <1>12, <2>1, <2>2, LeastExists DEF First
  <2>4. k \in DOMAIN sg.parts /\ fits(k)
    BY <1>9, <2>3
  <2>5. ASSUME NEW j \in DOMAIN sg.parts, j < k PROVE FirstIn(f[j], M) = {}
    <3>1. ~(k <= j)
      BY <2>1, <2>4, <2>5
    <3> QED
      BY <1>8, <1>9, <2>3, <3>1
  <2>6. FirstIn(f[k], M) = {Lowered(sg, sg.parts[k], from)}
    BY <1>8, <2>4
  <2>7. FirstIn(SeqX!FlattenSeq(f), M) = FirstIn(f[k], M)
    BY <1>2, <1>7, <2>4, <2>5, <2>6 DEF OfTheFirst
  <2> QED
    BY <1>6, <1>10, <1>12, <2>2, <2>6, <2>7
<1> QED
  BY <1>11, <1>12

\* What is taken is the first transition that matches.
LEMMA FirstTakenIs ==
  ASSUME NEW t, NEW M, NEW sg, NEW event, NEW from, LooksFor(t.transitions, M, sg, event, from)
  PROVE  FirstTaken(t, sg, event, from) = FirstIn(t.transitions, M)
<1>0. PICK q : q = t.transitions
  OBVIOUS
<1>1. PICK S : S = {i \in DOMAIN q : q[i] \in M}
  OBVIOUS
<1>2. MatchingTransitions(t, Lit(sg.id), Lit(event), Lit(from)) = S
  BY <1>0, <1>1 DEF MatchingTransitions, LooksFor, Elements
<1>3. FirstIn(q, M) = IF S = {} THEN {} ELSE {q[First(S)]}
  BY <1>1 DEF FirstIn
<1> QED
  BY <1>0, <1>2, <1>3 DEF FirstTaken

\* In a topology with what was emitted for ds.
LEMMA FirstOfTopology ==
  ASSUME NEW ds, SignalsFit(ds), NEW sg \in Elements(OfKind("signal", ds)),
         NEW t, t.transitions = EmitSignals(ds).transitions,
         NEW event, NEW from \in Elements(sg.states)
  PROVE  FirstTaken(t, sg, event, from) = FirstArm(sg, event, from)
<1>0. PICK L : L = OfKind("signal", ds)
  OBVIOUS
<1>1. PICK f : f = [i \in DOMAIN L |-> ArmsOfSignal(L[i])]
  OBVIOUS
<1>2. IsList(L) /\ Distinct(L) /\ \A i \in DOMAIN L : SignalOK(L[i])
  <2>1. IsList(L) /\ \A d \in Elements(L) : d.kind = "signal" /\ d \in Elements(ds)
    BY <1>0, OfKindFacts DEF SignalsFit, Elements
  <2>2. Distinct(L)
    BY <1>0, OfKindFacts DEF SignalsFit, OneOfEach
  <2> QED
    BY <2>1, <2>2 DEF SignalsFit, Elements
<1>3. PICK q : q = SeqX!FlattenSeq(f)
  OBVIOUS
<1>4. t.transitions = q
  BY <1>0, <1>1, <1>3 DEF EmitSignals, Each
<1>5. /\ f = [i \in DOMAIN L |-> f[i]] /\ DOMAIN f = DOMAIN L
      /\ \A i \in DOMAIN L : f[i] = ArmsOfSignal(L[i])
  BY <1>1
<1>6. /\ IsLists(f)
      /\ \A i \in DOMAIN L : \A x \in Elements(f[i]) : x.signal = Lit(L[i].id)
  BY <1>2, <1>5, ArmsOfSignalFit, ListImage DEF IsLists
<1>7. IsList(q) /\ \A i \in DOMAIN L : \A x \in Elements(f[i]) : x \in Elements(q)
  BY <1>3, <1>5, <1>6, FlattenElements
<1>9. PICK M : M = {x \in Elements(q) : Matches(x, Lit(sg.id), Lit(event), Lit(from))}
  OBVIOUS
<1>10. FirstTaken(t, sg, event, from) = FirstIn(q, M)
  <2>1. LooksFor(t.transitions, M, sg, event, from)
    BY <1>4, <1>9 DEF LooksFor
  <2>2. FirstTaken(t, sg, event, from) = FirstIn(t.transitions, M)
    BY <2>1, FirstTakenIs
  <2> QED
    BY <1>4, <2>2
<1>13. PICK k \in DOMAIN L : sg = L[k]
  BY <1>0 DEF Elements
<1>14. ASSUME NEW j \in DOMAIN L, j # k PROVE FirstIn(f[j], M) = {}
  <2>1. Lit(L[j].id) # Lit(sg.id)
    BY <1>2, <1>13, <1>14 DEF Distinct, Lit
  <2>2. \A i \in DOMAIN f[j] : f[j][i] \notin M
    BY <1>6, <1>9, <2>1 DEF Elements, Matches
  <2>3. IsList(f[j])
    BY <1>5, <1>6 DEF IsLists
  <2> QED
    BY <2>2, <2>3, FirstInFacts
<1>15. FirstIn(f[k], M) = FirstArm(sg, event, from)
  <2>1. LooksFor(f[k], M, sg, event, from)
    BY <1>7, <1>9 DEF LooksFor
  <2>2. SignalOK(sg) /\ f[k] = ArmsOfSignal(sg)
    BY <1>2, <1>5, <1>13
  <2> QED
    BY <2>1, <2>2, FirstOfSignal
<1>16. FirstIn(q, M) = FirstIn(f[k], M)
  <2>1. OfTheFirst(f, M)
    BY <1>6, FirstInFlatten
  <2>2. \A j \in DOMAIN L : j < k => j # k
    <3>1. k \in Nat
      BY <1>2, ListFacts
    <3> QED
      BY <3>1
  <2>3. CASE FirstIn(f[k], M) # {}
    BY <1>3, <1>5, <1>14, <2>1, <2>2, <2>3 DEF OfTheFirst
  <2>4. CASE FirstIn(f[k], M) = {}
    BY <1>3, <1>5, <1>14, <2>1, <2>4 DEF OfTheFirst
  <2> QED
    BY <2>3, <2>4
<1> QED
  BY <1>10, <1>15, <1>16

\* What is added for other signals comes after it.
LEMMA FirstTakenBefore ==
  ASSUME NEW t, NEW base, NEW rest, IsList(base.transitions), IsList(rest),
         t.transitions = base.transitions \o rest,
         NEW sg, \A x \in Elements(rest) : x.signal # Lit(sg.id), NEW event, NEW from
  PROVE  FirstTaken(t, sg, event, from) = FirstTaken(base, sg, event, from)
<1>1. PICK p, q : p = base.transitions /\ q = t.transitions
  OBVIOUS
<1>2. IsList(p) /\ q = p \o rest /\ Elements(q) = Elements(p) \cup Elements(rest)
  BY <1>1, ListConcat
<1>3. PICK M : M = {x \in Elements(q) : Matches(x, Lit(sg.id), Lit(event), Lit(from))}
  OBVIOUS
<1>4. /\ FirstTaken(t, sg, event, from) = FirstIn(q, M)
      /\ FirstTaken(base, sg, event, from) = FirstIn(p, M)
  <2>1. /\ LooksFor(t.transitions, M, sg, event, from)
        /\ LooksFor(base.transitions, M, sg, event, from)
    BY <1>1, <1>2, <1>3 DEF LooksFor
  <2>2. /\ FirstTaken(t, sg, event, from) = FirstIn(t.transitions, M)
        /\ FirstTaken(base, sg, event, from) = FirstIn(base.transitions, M)
    BY <2>1, FirstTakenIs
  <2> QED
    BY <1>1, <2>2
<1>5. FirstIn(rest, M) = {}
  <2>1. \A i \in DOMAIN rest : rest[i] \notin M
    BY <1>3 DEF Elements, Matches
  <2> QED
    BY <2>1, FirstInFacts
<1>6. FirstIn(q, M) = IF FirstIn(p, M) # {} THEN FirstIn(p, M) ELSE FirstIn(rest, M)
  BY <1>2, FirstInConcat
<1> QED
  BY <1>4, <1>5, <1>6

-----------------------------------------------------------------------------
(* From the parser to the JSON                                             *)

LEMMA InstanceAdds ==
  ASSUME FlatOK(flat), InstancesOK(Instances), ExpandInstance
  PROVE  /\ FlatOK(flat')
         /\ \E p : /\ Expandable(p) /\ flat'.components = flat.components
                   /\ flat'.signals = flat.signals \o p.signals
                   /\ flat'.transitions = flat.transitions \o p.transitions
                   /\ flat'.reactions = flat.reactions \o p.reactions
<1>1. PICK instance : instance = Instances[at]
  OBVIOUS
<1>2. PICK c : c = flat.components[instance.component]
  OBVIOUS
<1>3. PICK p : p = Piece(c, Bound(c, instance), instance.connections)
  OBVIOUS
<1>4. Expandable(c)
  <2>1. at \in DOMAIN Instances /\ InstanceFault(flat.components, instance) = "none"
    BY <1>1 DEF ExpandInstance
  <2>2. IsList(instance.connections)
    BY <1>1, <2>1 DEF InstancesOK
  <2>3. instance.component \in DOMAIN flat.components
    BY <2>1, <2>2, FaultlessInstance
  <2> QED
    BY <1>2, <2>3 DEF FlatOK
<1>5. Expandable(p)
  <2>1. Lists(p)
    BY <1>3, <1>4, PieceOf DEF Expandable
  <2>2. DeclaresStates(p)
    BY <1>3, <1>4, PieceDeclaresStates DEF Expandable
  <2> QED
    BY <2>1, <2>2 DEF Expandable
<1>6. flat' = [flat EXCEPT !.signals = @ \o p.signals,
                           !.transitions = @ \o p.transitions,
                           !.reactions = @ \o p.reactions]
  BY <1>1, <1>2, <1>3 DEF ExpandInstance, Piece
<1>7. flat = [signals |-> flat.signals, transitions |-> flat.transitions,
              reactions |-> flat.reactions, components |-> flat.components]
  BY DEF FlatOK
<1>8. flat' = [signals |-> flat.signals \o p.signals,
               transitions |-> flat.transitions \o p.transitions,
               reactions |-> flat.reactions \o p.reactions,
               components |-> flat.components]
  BY <1>6, <1>7
<1>9. PICK t : t = flat'
  OBVIOUS
<1>10. Joined(t, flat, p) /\ t.components = flat.components
       /\ t = [signals |-> t.signals, transitions |-> t.transitions,
               reactions |-> t.reactions, components |-> t.components]
  BY <1>8, <1>9 DEF Joined
<1>11. Lists(t) /\ DeclaresStates(t)
  BY <1>5, <1>10, JoinedElements, JoinedDeclaresStates DEF FlatOK, Expandable
<1>12. FlatOK(t)
  BY <1>10, <1>11 DEF FlatOK, Expandable
<1> QED
  BY <1>5, <1>9, <1>10, <1>12 DEF Joined

\* What is warned of as unreachable is not reached.
WarnedDead ==
  \A sg \in Elements(json.signals) : \A x :
    <<"unreachable-state", sg.id, x>> \in warnings => x \notin Reached(json, sg)

Finished == {"written", "ok", "ValidationError"}

CompilerInv ==
  /\ ParserOK
  /\ DOMAIN disk = Files
  /\ outcome \in {"expanding", "compiled"} =>
       /\ FlatOK(flat) /\ InstancesOK(Instances)
       /\ Instances = <<>> => Distinct(flat.signals)
  /\ outcome = "compiled" => Distinct(flat.signals)
  /\ IF outcome \in Finished THEN Consistent(json) /\ WarnedDead ELSE json = <<>>
  /\ outcome = "ValidationError" => ~Valid(json)

LEMMA CompilerStarts == CompilerInit => CompilerInv
<1> SUFFICES ASSUME CompilerInit PROVE CompilerInv
  OBVIOUS
<1>1. IsList(src) /\ \A i \in DOMAIN src : src[i][1] = "ident" => src[i][2] # "*"
  BY SourcesAssumption DEF CompilerInit
<1>2. /\ tokens = <<>> /\ blocks = <<>> /\ decls = <<>>
      /\ disk = [f \in Files |-> Unreadable]
      /\ outcome = "loading" /\ json = <<>>
  BY DEF CompilerInit, DdlInit
<1>3. PICK q : q = <<>>
  OBVIOUS
<1>4. IsList(q) /\ Elements(q) = {} /\ DOMAIN q = {} /\ Len(q) = 0
  BY <1>3, EmptyList, ListFacts
<1>5. OpenOK(q, q) /\ DocumentOK(q) /\ Elements(q) \subseteq DOMAIN src
  BY <1>4 DEF OpenOK, DocumentOK, SignalsFit, OneOfEach
<1>6. ParserOK
  BY <1>1, <1>2, <1>3, <1>4, <1>5 DEF ParserOK
<1> QED
  BY <1>2, <1>6 DEF CompilerInv, Finished

LEMMA EmitKeeps ==
  ASSUME CompilerInv, Emit
  PROVE  CompilerInv'
<1>1. PICK m : m = [signals |-> Schema.signals, transitions |-> Schema.transitions,
                    reactions |-> Schema.reactions, components |-> Schema.components]
  OBVIOUS
<1>2. FlatOK(m) /\ Distinct(m.signals) /\ InstancesOK(Schema.instances)
  BY <1>1, SchemaFits, EmittedInstances DEF CompilerInv, ParserOK
<1>3. /\ flat' = m /\ disk' = [disk EXCEPT ![Root] = Schema]
      /\ outcome' = "expanding" /\ outcome = "loading"
      /\ UNCHANGED <<src, tokens, pos, blocks, decls, verdict, json, warnings>>
  BY <1>1 DEF Emit, ddlVars
<1>4. DOMAIN disk' = Files /\ disk'[Root] = Schema
  BY <1>3, DisksAssumption DEF CompilerInv
<1>5. Instances' = Schema.instances
  BY <1>4 DEF Instances
<1>6. ParserOK' /\ json' = <<>>
  BY <1>3 DEF CompilerInv, ParserOK, Finished
<1> QED
  BY <1>2, <1>3, <1>4, <1>5, <1>6 DEF CompilerInv, Finished

LEMMA ExpandedKeeps ==
  ASSUME CompilerInv, Expanded
  PROVE  CompilerInv'
<1>1. /\ outcome = "expanding"
      /\ outcome' = IF IdsCollide THEN "DuplicateSignalAfterExpand" ELSE "compiled"
      /\ UNCHANGED <<src, tokens, pos, blocks, decls, verdict, disk, flat, json, warnings>>
  BY DEF Expanded, ddlVars
<1>2. ~IdsCollide => Distinct(flat.signals)
  BY <1>1, CountedOnce DEF CompilerInv, IdsCollide, FlatOK, Expandable, Lists
<1>3. ParserOK' /\ Instances' = Instances /\ json' = <<>>
  BY <1>1 DEF CompilerInv, ParserOK, Instances, Finished
<1> QED
  BY <1>1, <1>2, <1>3 DEF CompilerInv, Finished

LEMMA ExportKeeps ==
  ASSUME CompilerInv, Export
  PROVE  CompilerInv'
<1>1. /\ outcome = "compiled" /\ outcome' = "written"
      /\ UNCHANGED <<src, tokens, pos, blocks, decls, verdict, disk, flat>>
      /\ warnings' = SelfLoops(flat) \cup UnreachableStates(flat)
                        \cup UnusedTemplates \cup DuplicateGuards
  BY DEF Export, ddlVars
<1>2. PICK t : t = json'
  OBVIOUS
<1>3. t.signals = flat.signals /\ t.transitions = flat.transitions
  BY <1>2 DEF Export
<1>4. FlatOK(flat) /\ Distinct(flat.signals)
  BY <1>1 DEF CompilerInv
<1>5. Consistent(t)
  BY <1>3, <1>4 DEF Consistent, FlatOK, Expandable, Lists, DeclaresStates
<1>6. ASSUME NEW sg \in Elements(t.signals), NEW x,
             <<"unreachable-state", sg.id, x>> \in warnings'
      PROVE  x \notin Reached(t, sg)
  <2>1. \A w \in SelfLoops(flat) \cup UnusedTemplates \cup DuplicateGuards : w[1] # "unreachable-state"
    BY DEF SelfLoops, UnusedTemplates, DuplicateGuards
  <2>2. <<"unreachable-state", sg.id, x>> \in UnreachableStates(flat)
    BY <1>1, <1>6, <2>1
  <2>3. PICK g \in Elements(flat.signals) : g.id = sg.id /\ x \in g.states \ Reached(flat, g)
    BY <2>2 DEF UnreachableStates
  <2>4. g = sg
    BY <1>3, <1>4, <2>3 DEF Distinct, Elements
  <2>5. Reached(t, sg) = Reached(flat, sg)
    BY <1>3 DEF Reached
  <2> QED
    BY <2>3, <2>4, <2>5
<1>7. WarnedDead'
  BY <1>2, <1>6 DEF WarnedDead
<1>8. ParserOK'
  BY <1>1 DEF CompilerInv, ParserOK
<1> QED
  BY <1>1, <1>2, <1>5, <1>7, <1>8 DEF CompilerInv, Finished

LEMMA CompilerStays ==
  ASSUME CompilerInv, UNCHANGED compilerVars
  PROVE  CompilerInv'
<1>1. UNCHANGED <<src, tokens, pos, blocks, decls, verdict, disk, flat, outcome, json, warnings>>
  BY DEF compilerVars, ddlVars, composeVars
<1>2. ParserOK' /\ Instances' = Instances /\ WarnedDead' = WarnedDead
  BY <1>1 DEF CompilerInv, ParserOK, Instances, WarnedDead
<1> QED
  BY <1>1, <1>2 DEF CompilerInv

LEMMA CompilerSteps ==
  ASSUME CompilerInv, CompilerNext
  PROVE  CompilerInv'
<1>1. CASE Read
  <2>1. ParserOK'
    BY <1>1, ParserKeeps DEF Read, CompilerInv
  <2>2. UNCHANGED <<disk, flat, outcome, json, warnings>>
    BY <1>1 DEF Read, composeVars
  <2>3. Instances' = Instances /\ WarnedDead' = WarnedDead
    BY <2>2 DEF Instances, WarnedDead
  <2> QED
    BY <2>1, <2>2, <2>3 DEF CompilerInv
<1>2. CASE RefusePayload
  <2>1. /\ outcome = "loading" /\ outcome' = "ParseError"
        /\ UNCHANGED <<src, tokens, pos, blocks, decls, verdict, disk, flat, json, warnings>>
    BY <1>2 DEF RefusePayload, ddlVars
  <2>2. ParserOK' /\ json' = <<>>
    BY <2>1 DEF CompilerInv, ParserOK, Finished
  <2> QED
    BY <2>1, <2>2 DEF CompilerInv, Finished
<1>3. CASE Expand
  <2>1. UNCHANGED <<src, tokens, pos, blocks, decls, verdict, json, warnings, disk>>
    BY <1>3 DEF Expand, ddlVars, ExpandInstance, RejectInstance
  <2>2. ParserOK' /\ Instances' = Instances
    BY <2>1 DEF CompilerInv, ParserOK, Instances
  <2>3. outcome = "expanding"
    BY <1>3 DEF Expand, ExpandInstance, RejectInstance
  <2>4. json' = <<>> /\ DOMAIN disk' = Files
    BY <2>1, <2>3 DEF CompilerInv, Finished
  <2>5. CASE ExpandInstance
    <3>1. outcome' = outcome /\ at \in DOMAIN Instances
      BY <2>5 DEF ExpandInstance
    <3>2. FlatOK(flat')
      BY <2>3, <2>5, InstanceAdds DEF CompilerInv
    <3>3. Instances # <<>>
      BY <3>1, EmptyList DEF Elements
    <3> QED
      BY <2>2, <2>3, <2>4, <3>1, <3>2, <3>3 DEF CompilerInv, Finished
  <2>6. CASE RejectInstance
    <3>1. outcome' \in ExpandErrors
      BY <2>6, FaultKinds DEF RejectInstance
    <3>2. outcome' \notin {"expanding", "compiled"} \cup Finished
      BY <3>1 DEF ExpandErrors, Finished
    <3> QED
      BY <2>2, <2>4, <3>2 DEF CompilerInv, Finished
  <2> QED
    BY <1>3, <2>5, <2>6 DEF Expand
<1>4. CASE Load
  <2>1. /\ outcome = "written"
        /\ outcome' = IF Valid(json) THEN "ok" ELSE "ValidationError"
        /\ UNCHANGED <<src, tokens, pos, blocks, decls, verdict, disk, flat, json, warnings>>
    BY <1>4 DEF Load, ddlVars
  <2>2. ParserOK' /\ (WarnedDead' <=> WarnedDead)
    BY <2>1 DEF CompilerInv, ParserOK, WarnedDead
  <2> QED
    BY <2>1, <2>2 DEF CompilerInv, Finished
<1> QED
  BY <1>1, <1>2, <1>3, <1>4, EmitKeeps, ExpandedKeeps, ExportKeeps DEF CompilerNext

LEMMA CompilerHolds == CompilerSpec => []CompilerInv
BY CompilerStarts, CompilerSteps, CompilerStays, PTL DEF CompilerSpec

-----------------------------------------------------------------------------
(* The order of the arms                                                   *)

\* What comes after s: signals with their transitions.
Grown(t, s) ==
  \E p : /\ Expandable(p)
         /\ t.signals = s.signals \o p.signals
         /\ t.transitions = s.transitions \o p.transitions

\* Has the signals of ds and takes their arms in order.
FollowsDocument(t, ds) ==
  /\ IsList(t.signals) /\ IsList(t.transitions)
  /\ FollowsArms(t, ds)
  /\ \A sg \in Elements(OfKind("signal", ds)) : \E x \in Elements(t.signals) : x.id = Lit(sg.id)

ArmsInv ==
  /\ outcome # "loading" => verdict = "parsed"
  /\ outcome \in {"expanding", "compiled"} \cup Finished => FollowsDocument(disk[Root], decls)
  /\ outcome \in {"expanding", "compiled"} => Grown(flat, disk[Root])
  /\ outcome \in Finished => Grown(json, disk[Root])
  /\ outcome = "expanding" => \A c \in Elements(OfKind("component", decls)) :
                                FollowsArms(flat.components[c.id], c.parts)

LEMMA GrowsFromNothing ==
  ASSUME NEW t, NEW s, t.signals = s.signals, t.transitions = s.transitions,
         IsList(s.signals), IsList(s.transitions)
  PROVE  Grown(t, s)
<1>1. PICK p : p = [signals |-> <<>>, transitions |-> <<>>, reactions |-> <<>>]
  OBVIOUS
<1>2. p.signals = <<>> /\ p.transitions = <<>> /\ p.reactions = <<>>
  BY <1>1
<1>3. Expandable(p)
  BY <1>2, EmptyList DEF Expandable, Lists, DeclaresStates
<1>4. s.signals \o p.signals = s.signals /\ s.transitions \o p.transitions = s.transitions
  BY <1>2, ConcatEmpty
<1> QED
  BY <1>3, <1>4 DEF Grown

LEMMA GrowsMore ==
  ASSUME NEW t, NEW u, NEW s, Grown(t, s), IsList(s.signals), IsList(s.transitions),
         NEW p, Expandable(p), u.signals = t.signals \o p.signals,
         u.transitions = t.transitions \o p.transitions
  PROVE  Grown(u, s)
<1>1. PICK q : /\ Expandable(q)
               /\ t.signals = s.signals \o q.signals
               /\ t.transitions = s.transitions \o q.transitions
  BY DEF Grown
<1>2. PICK r : r = [signals |-> q.signals \o p.signals,
                    transitions |-> q.transitions \o p.transitions,
                    reactions |-> q.reactions \o p.reactions]
  OBVIOUS
<1>3. Joined(r, q, p)
  BY <1>2 DEF Joined
<1>4. Expandable(r)
  BY <1>1, <1>3, JoinedElements, JoinedDeclaresStates DEF Expandable
<1>5. u.signals = s.signals \o r.signals
  <2>1. IsList(q.signals) /\ IsList(p.signals)
    BY <1>1 DEF Expandable, Lists
  <2>2. PICK a, b, c : a = s.signals /\ b = q.signals /\ c = p.signals
    OBVIOUS
  <2>3. (a \o b) \o c = a \o (b \o c)
    <3>1. IsList(a) /\ IsList(b) /\ IsList(c)
      BY <2>1, <2>2
    <3> QED
      BY ONLY <3>1, ConcatAgain
  <2> QED
    BY <1>1, <1>2, <2>2, <2>3
<1>6. u.transitions = s.transitions \o r.transitions
  <2>1. IsList(q.transitions) /\ IsList(p.transitions)
    BY <1>1 DEF Expandable, Lists
  <2>2. PICK a, b, c : a = s.transitions /\ b = q.transitions /\ c = p.transitions
    OBVIOUS
  <2>3. (a \o b) \o c = a \o (b \o c)
    <3>1. IsList(a) /\ IsList(b) /\ IsList(c)
      BY <2>1, <2>2
    <3> QED
      BY ONLY <3>1, ConcatAgain
  <2> QED
    BY <1>1, <1>2, <2>2, <2>3
<1> QED
  BY <1>4, <1>5, <1>6 DEF Grown

\* Where no signal is declared twice, what comes after changes no arm.
LEMMA GrownFollows ==
  ASSUME NEW t, NEW s, Grown(t, s), IsList(t.signals), Distinct(t.signals),
         NEW ds, FollowsDocument(s, ds)
  PROVE  FollowsArms(t, ds)
<1>1. PICK p : /\ Expandable(p)
               /\ t.signals = s.signals \o p.signals
               /\ t.transitions = s.transitions \o p.transitions
  BY DEF Grown
<1>2. /\ IsList(p.signals) /\ IsList(p.transitions)
      /\ \A x \in Elements(p.transitions) : \E y \in Elements(p.signals) : y.id = x.signal
  BY <1>1 DEF Expandable, Lists, DeclaresStates
<1>3. ASSUME NEW x \in Elements(s.signals), NEW y \in Elements(p.signals)
      PROVE  x.id # y.id
  <2>1. PICK a, b, c : a = s.signals /\ b = p.signals /\ c = t.signals
    OBVIOUS
  <2>2. Follows(a, b, c) /\ Len(a) \in Nat /\ DOMAIN a = 1..Len(a) /\ DOMAIN b = 1..Len(b)
    BY <1>1, <1>2, <2>1, ConcatFollows, ListFacts DEF FollowsDocument
  <2>3. PICK m \in Nat : m = Len(a)
    BY <2>2
  <2>4. PICK i \in 1..m, j \in DOMAIN b : x = a[i] /\ y = b[j]
    BY <2>1, <2>2, <2>3 DEF Elements
  <2>5. c[i] = x /\ c[m + j] = y /\ i \in DOMAIN c /\ m + j \in DOMAIN c /\ i # m + j
    BY <2>2, <2>3, <2>4 DEF Follows
  <2> QED
    BY <2>1, <2>5 DEF Distinct
<1>5. IsList(s.transitions) /\ t.transitions = s.transitions \o p.transitions
  BY <1>1 DEF FollowsDocument
<1>4. ASSUME NEW sg \in Elements(OfKind("signal", ds)), NEW event, NEW from
      PROVE  FirstTaken(t, sg, event, from) = FirstTaken(s, sg, event, from)
  <2>1. PICK q : q = p.transitions
    OBVIOUS
  <2>2. /\ IsList(s.transitions) /\ IsList(q) /\ t.transitions = s.transitions \o q
        /\ \A x \in Elements(q) : x.signal # Lit(sg.id)
    BY <1>2, <1>3, <1>5, <2>1 DEF FollowsDocument
  <2> QED
    BY ONLY <2>2, FirstTakenBefore
<1> QED
  BY <1>4 DEF FollowsDocument, FollowsArms

\* As long as the declarations are the same, so are their arms.
LEMMA ArmsStay ==
  ASSUME decls' = decls, NEW t, NEW ds
  PROVE  FollowsArms(t, ds)' <=> FollowsArms(t, ds)
<1>1. ASSUME NEW g PROVE GuardOf(g)' = GuardOf(g)
  BY DEF GuardOf
<1>2. ASSUME NEW sg, NEW tr, NEW from PROVE Lowered(sg, tr, from)' = Lowered(sg, tr, from)
  BY <1>1 DEF Lowered
<1>3. ASSUME NEW sg, NEW event, NEW from PROVE FirstArm(sg, event, from)' = FirstArm(sg, event, from)
  BY <1>2 DEF FirstArm
<1> QED
  BY <1>3 DEF FollowsArms

\* A step that touches none of it.
TouchesNoArm ==
  /\ UNCHANGED <<decls, verdict, disk, flat, json>>
  /\ \/ outcome' = outcome
     \/ outcome \in Finished /\ outcome' \in Finished
     \/ outcome = "expanding" /\ outcome' = "compiled"
     \/ verdict = "parsed" /\ outcome' \notin {"expanding", "compiled"} \cup Finished

LEMMA ArmsInvStays ==
  ASSUME ArmsInv, TouchesNoArm
  PROVE  ArmsInv'
<1>0. UNCHANGED <<decls, verdict, disk, flat, json>>
  BY DEF TouchesNoArm
<1>1. PICK d, ds, f : d = disk[Root] /\ ds = decls /\ f = flat
  OBVIOUS
<1>2. FollowsDocument(disk[Root], decls)' <=> FollowsDocument(disk[Root], decls)
  <2>1. FollowsArms(d, ds)' <=> FollowsArms(d, ds)
    BY <1>0, ArmsStay
  <2>2. disk'[Root] = d /\ decls' = ds
    BY <1>0, <1>1
  <2> QED
    BY <1>1, <2>1, <2>2 DEF FollowsDocument
<1>3. \A c \in Elements(OfKind("component", ds)) :
        FollowsArms(f.components[c.id], c.parts)' <=> FollowsArms(f.components[c.id], c.parts)
  BY <1>0, ArmsStay
<1>4. flat' = f /\ decls' = ds /\ json' = json /\ disk'[Root] = disk[Root] /\ verdict' = verdict
  BY <1>0, <1>1
<1> QED
  BY <1>1, <1>2, <1>3, <1>4 DEF TouchesNoArm, ArmsInv, Finished

LEMMA ComponentsFollow ==
  ASSUME DocumentOK(decls), NEW c \in Elements(OfKind("component", decls))
  PROVE  FollowsArms(Schema.components[c.id], c.parts)
<1>1. PICK cs : cs = {decls[k] : k \in PlacesOf({"component"}, decls)}
  OBVIOUS
<1>2. Schema.components = [n \in {x.id : x \in cs} |-> EmitComponent(CHOOSE x \in cs : x.id = n)]
  BY <1>1 DEF Schema
<1>3. c \in cs
  <2>1. PICK k \in DOMAIN decls : decls[k].kind = "component" /\ c = decls[k]
    BY OfKindFacts DEF DocumentOK, SignalsFit
  <2> QED
    BY <1>1, <2>1 DEF PlacesOf
<1>4. \A x \in cs : x.id = c.id => x = c
  BY <1>1, <1>3 DEF PlacesOf, DocumentOK, OneOfEach
<1>5. PICK n, y : n = c.id /\ y = CHOOSE x \in cs : x.id = n
  OBVIOUS
<1>6. y = c
  BY <1>3, <1>4, <1>5
<1>7. Schema.components[n] = EmitComponent(y)
  <2>1. n \in {x.id : x \in cs}
    BY <1>3, <1>5
  <2> QED
    BY <1>2, <1>5, <2>1
<1>8. SignalsFit(c.parts)
  <2>1. c \in Elements(decls) /\ c.kind = "component"
    BY <1>1, <1>3 DEF PlacesOf, Elements
  <2>2. DeclarationOK(c)
    BY <2>1 DEF DocumentOK
  <2> QED
    BY <2>1, <2>2 DEF DeclarationOK
<1>9. EmitComponent(c).transitions = EmitSignals(c.parts).transitions
  BY DEF EmitComponent
<1>10. FollowsArms(EmitComponent(c), c.parts)
  BY <1>8, <1>9, FirstOfTopology DEF FollowsArms
<1> QED
  BY <1>5, <1>6, <1>7, <1>10

LEMMA SchemaFollows ==
  ASSUME DocumentOK(decls)
  PROVE  FollowsDocument(Schema, decls)
<1>1. PICK t, L : t = Schema /\ L = OfKind("signal", decls)
  OBVIOUS
<1>2. SignalsFit(decls)
  BY DEF DocumentOK
<1>3. t.signals = EmitSignals(decls).signals /\ t.transitions = EmitSignals(decls).transitions
  BY <1>1 DEF Schema
<1>4. IsList(t.signals) /\ IsList(t.transitions)
  BY <1>2, <1>3, EmitFits DEF Consistent
<1>5. FollowsArms(t, decls)
  BY <1>2, <1>3, FirstOfTopology DEF FollowsArms
<1>6. ASSUME NEW sg \in Elements(L) PROVE \E x \in Elements(t.signals) : x.id = Lit(sg.id)
  <2>1. PICK i \in DOMAIN L : sg = L[i]
    BY DEF Elements
  <2>2. t.signals = [j \in DOMAIN L |->
          [id |-> Lit(L[j].id), initial |-> Lit(L[j].initial),
           states |-> {Lit(L[j].states[k]) : k \in DOMAIN L[j].states}]]
    BY <1>1, <1>3 DEF EmitSignals
  <2>3. i \in DOMAIN t.signals /\ t.signals[i].id = Lit(sg.id)
    BY <2>1, <2>2
  <2> QED
    BY <2>3 DEF Elements
<1> QED
  BY <1>1, <1>4, <1>5, <1>6 DEF FollowsDocument

LEMMA ArmsStart == CompilerInit => ArmsInv
BY DEF CompilerInit, ArmsInv, Finished

LEMMA ArmsEmitted ==
  ASSUME CompilerInv, ArmsInv, Emit
  PROVE  ArmsInv'
<1>1. PICK s, m, ds : s = Schema /\ ds = decls
                   /\ m = [signals |-> Schema.signals, transitions |-> Schema.transitions,
                           reactions |-> Schema.reactions, components |-> Schema.components]
  OBVIOUS
<1>2. /\ flat' = m /\ disk' = [disk EXCEPT ![Root] = s]
      /\ outcome' = "expanding" /\ verdict = "parsed"
      /\ decls' = decls /\ verdict' = verdict
  BY <1>1 DEF Emit, ddlVars
<1>3. disk'[Root] = s
  BY <1>2, DisksAssumption DEF CompilerInv
<1>4. DocumentOK(decls)
  BY DEF CompilerInv, ParserOK
<1>5. FollowsDocument(s, ds)
  BY <1>1, <1>4, SchemaFollows
<1>6. FollowsDocument(disk[Root], decls)'
  <2>1. FollowsArms(s, ds)' <=> FollowsArms(s, ds)
    BY <1>2, ArmsStay
  <2> QED
    BY <1>1, <1>2, <1>3, <1>5, <2>1 DEF FollowsDocument
<1>7. Grown(m, s)
  <2>1. m.signals = s.signals /\ m.transitions = s.transitions
    BY <1>1
  <2> QED
    BY <1>5, <2>1, GrowsFromNothing DEF FollowsDocument
<1>8. \A c \in Elements(OfKind("component", ds)) : FollowsArms(m.components[c.id], c.parts)'
  <2>1. \A c \in Elements(OfKind("component", ds)) : FollowsArms(m.components[c.id], c.parts)
    BY <1>1, <1>4, ComponentsFollow
  <2> QED
    BY <1>2, <2>1, ArmsStay
<1> QED
  BY <1>1, <1>2, <1>3, <1>6, <1>7, <1>8 DEF ArmsInv, Finished

LEMMA ArmsExpanded ==
  ASSUME CompilerInv, ArmsInv, Expand
  PROVE  ArmsInv'
<1>1. /\ UNCHANGED <<decls, verdict, disk, json>> /\ outcome = "expanding"
  BY DEF Expand, ddlVars, ExpandInstance, RejectInstance
<1>2. CASE RejectInstance
  <2>1. outcome' \in ExpandErrors /\ flat' = flat
    BY <1>2, FaultKinds DEF RejectInstance
  <2>2. outcome' \notin {"expanding", "compiled"} \cup Finished
    BY <2>1 DEF ExpandErrors, Finished
  <2>3. verdict = "parsed"
    BY <1>1 DEF ArmsInv
  <2>4. TouchesNoArm
    BY <1>1, <2>1, <2>2, <2>3 DEF TouchesNoArm
  <2> QED
    BY <2>4, ArmsInvStays
<1>3. CASE ExpandInstance
  <2>1. FlatOK(flat) /\ InstancesOK(Instances) /\ outcome' = outcome
    BY <1>1, <1>3 DEF CompilerInv, ExpandInstance
  <2>2. PICK p : /\ Expandable(p) /\ flat'.components = flat.components
                 /\ flat'.signals = flat.signals \o p.signals
                 /\ flat'.transitions = flat.transitions \o p.transitions
    BY <1>3, <2>1, InstanceAdds
  <2>3. PICK f, g, s, ds : f = flat /\ g = flat' /\ s = disk[Root] /\ ds = decls
    OBVIOUS
  <2>4. Grown(f, s) /\ FollowsDocument(s, ds)
    BY <1>1, <2>3 DEF ArmsInv
  <2>5. Grown(g, s)
    BY <2>2, <2>3, <2>4, GrowsMore DEF FollowsDocument
  <2>6. FollowsDocument(disk[Root], decls)'
    <3>1. FollowsArms(s, ds)' <=> FollowsArms(s, ds)
      BY <1>1, ArmsStay
    <3> QED
      BY <1>1, <2>3, <2>4, <3>1 DEF FollowsDocument
  <2>7. \A c \in Elements(OfKind("component", ds)) : FollowsArms(f.components[c.id], c.parts)'
    <3>1. \A c \in Elements(OfKind("component", ds)) : FollowsArms(f.components[c.id], c.parts)
      BY <1>1, <2>3 DEF ArmsInv
    <3> QED
      BY <1>1, <3>1, ArmsStay
  <2>8. g.components = f.components
    BY <2>2, <2>3
  <2>9. verdict' = "parsed" /\ outcome' = "expanding" /\ disk'[Root] = s /\ decls' = ds
    BY <1>1, <2>1, <2>3 DEF ArmsInv
  <2>10. \A c \in Elements(OfKind("component", ds)) : FollowsArms(g.components[c.id], c.parts)'
    BY <2>7, <2>8
  <2> QED
    BY <2>3, <2>5, <2>6, <2>9, <2>10 DEF ArmsInv, Finished
<1> QED
  BY <1>2, <1>3 DEF Expand

LEMMA ArmsExported ==
  ASSUME CompilerInv, ArmsInv, Export
  PROVE  ArmsInv'
<1>1. /\ outcome = "compiled" /\ outcome' = "written"
      /\ UNCHANGED <<decls, verdict, disk, flat>>
      /\ json'.signals = flat.signals /\ json'.transitions = flat.transitions
  BY DEF Export, ddlVars
<1>2. PICK s, ds : s = disk[Root] /\ ds = decls
  OBVIOUS
<1>3. Grown(flat, s) /\ FollowsDocument(s, ds) /\ verdict = "parsed"
  BY <1>1, <1>2 DEF ArmsInv
<1>4. Grown(json', s)
  BY <1>1, <1>3 DEF Grown
<1>5. FollowsDocument(disk[Root], decls)'
  <2>1. FollowsArms(s, ds)' <=> FollowsArms(s, ds)
    BY <1>1, ArmsStay
  <2> QED
    BY <1>1, <1>2, <1>3, <2>1 DEF FollowsDocument
<1> QED
  BY <1>1, <1>2, <1>3, <1>4, <1>5 DEF ArmsInv, Finished

LEMMA ArmsRead ==
  ASSUME ArmsInv, Read
  PROVE  ArmsInv'
<1>1. verdict \in {"lexing", "parsing"}
  BY DEF Read, DdlNext, Tokenize, ReadSignal, ReadTransition, ReadReaction, ReadMember, ReadGuard,
         OpenFork, OpenJoin, OpenComponent, CloseBlock, ReadPort, ReadInstantiate, Finish,
         RefuseSource
<1>2. outcome = "loading" /\ outcome' = outcome
  BY <1>1 DEF ArmsInv, Read, composeVars
<1> QED
  BY <1>2 DEF ArmsInv, Finished

LEMMA ArmsStep ==
  ASSUME CompilerInv, ArmsInv, CompilerNext
  PROVE  ArmsInv'
<1>1. CASE RefusePayload
  <2>1. TouchesNoArm
    BY <1>1 DEF RefusePayload, ddlVars, Finished, TouchesNoArm
  <2> QED
    BY <2>1, ArmsInvStays
<1>2. CASE Expanded
  <2>1. /\ UNCHANGED <<decls, verdict, disk, flat, json>> /\ outcome = "expanding"
        /\ outcome' = "compiled" \/ outcome' \notin {"expanding", "compiled"} \cup Finished
    BY <1>2 DEF Expanded, ddlVars, Finished
  <2>2. verdict = "parsed"
    BY <2>1 DEF ArmsInv
  <2>3. TouchesNoArm
    BY <2>1, <2>2 DEF TouchesNoArm
  <2> QED
    BY <2>3, ArmsInvStays
<1>3. CASE Load
  <2>1. TouchesNoArm
    BY <1>3 DEF Load, ddlVars, Finished, TouchesNoArm
  <2> QED
    BY <2>1, ArmsInvStays
<1> QED
  BY <1>1, <1>2, <1>3, ArmsRead, ArmsEmitted, ArmsExpanded, ArmsExported DEF CompilerNext

LEMMA ArmsUnchanged ==
  ASSUME ArmsInv, UNCHANGED compilerVars
  PROVE  ArmsInv'
<1>1. TouchesNoArm
  BY DEF compilerVars, ddlVars, composeVars, TouchesNoArm
<1> QED
  BY <1>1, ArmsInvStays

LEMMA ArmsHold == CompilerSpec => []ArmsInv
BY ArmsStart, ArmsStep, ArmsUnchanged, CompilerHolds, PTL DEF CompilerSpec

LEMMA ArmsInOrder == CompilerInv /\ ArmsInv => FirstArmWins
<1> SUFFICES ASSUME CompilerInv, ArmsInv PROVE FirstArmWins
  OBVIOUS
<1>1. ASSUME json # <<>> PROVE FollowsArms(json, decls)
  <2>1. outcome \in Finished
    BY <1>1 DEF CompilerInv
  <2>2. Consistent(json) /\ Grown(json, disk[Root]) /\ FollowsDocument(disk[Root], decls)
    BY <2>1 DEF CompilerInv, ArmsInv
  <2> QED
    BY <2>2, GrownFollows DEF Consistent
<1> QED
  BY <1>1 DEF FirstArmWins, ArmsInv

-----------------------------------------------------------------------------
(* The workflow                                                            *)

\* Lists of lists of the same lengths, and what they are flattened to: at each
\* place the two have what was at one place of one list.
Alike(p, q) ==
  /\ IsLists(p) /\ IsLists(q) /\ DOMAIN p = DOMAIN q
  /\ \A k \in DOMAIN p : DOMAIN p[k] = DOMAIN q[k]

FromOnePlace(p, q, x, y) == \E k \in DOMAIN p : \E j \in DOMAIN p[k] : x = p[k][j] /\ y = q[k][j]

InStep(p, q, f, g) == DOMAIN f = DOMAIN g /\ \A i \in DOMAIN f : FromOnePlace(p, q, f[i], g[i])

LEMMA FlattenInStep ==
  ASSUME NEW p, NEW q, Alike(p, q)
  PROVE  InStep(p, q, SeqX!FlattenSeq(p), SeqX!FlattenSeq(q))
<1> DEFINE Holds(r, s) == InStep(r, s, SeqX!FlattenSeq(r), SeqX!FlattenSeq(s))
           S == {n \in Nat : \A r, s : Alike(r, s) /\ Len(r) = n => Holds(r, s)}
<1>1. 0 \in S
  <2> SUFFICES ASSUME NEW r, NEW s, Alike(r, s), Len(r) = 0 PROVE Holds(r, s)
    OBVIOUS
  <2>1. IsList(r) /\ IsList(s) /\ DOMAIN r = DOMAIN s
    BY DEF Alike, IsLists
  <2>2. Len(s) = 0
    BY <2>1, SameLen
  <2>3. r = <<>> /\ s = <<>>
    BY <2>1, <2>2, ListFacts
  <2>4. PICK e : e = <<>>
    OBVIOUS
  <2>5. DOMAIN e = {}
    BY <2>4, EmptyList, ListFacts
  <2>6. SeqX!FlattenSeq(r) = e /\ SeqX!FlattenSeq(s) = e
    BY <2>3, <2>4, FlattenNothing
  <2> QED
    BY <2>5, <2>6 DEF InStep
<1>2. ASSUME NEW n \in Nat, n \in S PROVE n + 1 \in S
  <2> SUFFICES ASSUME NEW r, NEW s, Alike(r, s), Len(r) = n + 1 PROVE Holds(r, s)
    OBVIOUS
  <2>1. /\ IsLists(r) /\ IsLists(s) /\ IsList(r) /\ IsList(s) /\ DOMAIN r = DOMAIN s
        /\ \A k \in DOMAIN r : DOMAIN r[k] = DOMAIN s[k]
    BY DEF Alike, IsLists
  <2>2. Len(s) = n + 1
    BY <2>1, SameLen
  <2>3. r # <<>> /\ s # <<>>
    BY <2>1, <2>2, ListFacts
  <2>4. PICK rr, ss : rr = Front(r) /\ ss = Front(s)
    OBVIOUS
  <2>5. /\ IsLists(rr) /\ Len(rr) = n /\ DOMAIN rr = 1..n /\ DOMAIN r = 1..(n + 1)
        /\ \A i \in 1..n : rr[i] = r[i]
        /\ IsList(r[n + 1])
    BY <2>1, <2>3, <2>4, FrontOfLists
  <2>6. /\ IsLists(ss) /\ Len(ss) = n /\ DOMAIN ss = 1..n /\ DOMAIN s = 1..(n + 1)
        /\ \A i \in 1..n : ss[i] = s[i]
        /\ IsList(s[n + 1])
    BY <2>1, <2>2, <2>3, <2>4, FrontOfLists
  <2>7. (\A i \in 1..n : i \in 1..(n + 1)) /\ n + 1 \in 1..(n + 1)
    OBVIOUS
  <2>8. Alike(rr, ss)
    BY <2>1, <2>5, <2>6, <2>7 DEF Alike
  <2>9. PICK a, b, c, d : /\ a = SeqX!FlattenSeq(rr) /\ b = r[n + 1]
                          /\ c = SeqX!FlattenSeq(ss) /\ d = s[n + 1]
    OBVIOUS
  <2>10. InStep(rr, ss, a, c)
    BY <1>2, <2>5, <2>8, <2>9
  <2>11. IsList(a) /\ IsList(b) /\ IsList(c) /\ IsList(d) /\ DOMAIN b = DOMAIN d /\ DOMAIN a = DOMAIN c
    BY <2>1, <2>5, <2>6, <2>7, <2>9, <2>10, FlattenElements DEF InStep
  <2>12. PICK f, g : f = a \o b /\ g = c \o d
    OBVIOUS
  <2>13. SeqX!FlattenSeq(r) = f /\ SeqX!FlattenSeq(s) = g
    BY <2>1, <2>3, <2>4, <2>5, <2>2, <2>9, <2>12, FlattenLast
  <2>14. Follows(a, b, f) /\ Follows(c, d, g) /\ Len(a) = Len(c) /\ Len(b) = Len(d)
    BY <2>11, <2>12, ConcatFollows, SameLen
  <2>15. DOMAIN f = DOMAIN g
    BY <2>14 DEF Follows
  <2>16. ASSUME NEW i \in DOMAIN f PROVE FromOnePlace(r, s, f[i], g[i])
    <3>1. CASE i \in 1..Len(a)
      <4>1. f[i] = a[i] /\ g[i] = c[i] /\ i \in DOMAIN a
        BY <2>14, <3>1 DEF Follows
      <4>2. FromOnePlace(rr, ss, a[i], c[i])
        BY <2>10, <4>1 DEF InStep
      <4>3. PICK k \in 1..n : \E j \in DOMAIN rr[k] : a[i] = rr[k][j] /\ c[i] = ss[k][j]
        BY <2>5, <4>2 DEF FromOnePlace
      <4>4. rr[k] = r[k] /\ ss[k] = s[k] /\ k \in DOMAIN r
        BY <2>5, <2>6, <2>7
      <4> QED
        BY <4>1, <4>3, <4>4 DEF FromOnePlace
    <3>2. CASE \E j \in 1..Len(b) : i = Len(a) + j
      <4>1. PICK j \in 1..Len(b) : i = Len(a) + j
        BY <3>2
      <4>2. f[i] = b[j] /\ g[i] = d[j] /\ j \in DOMAIN b
        BY <2>14, <4>1 DEF Follows
      <4> QED
        BY <2>5, <2>7, <2>9, <4>2 DEF FromOnePlace
    <3> QED
      BY <2>14, <3>1, <3>2 DEF Follows
  <2> QED
    BY <2>13, <2>15, <2>16 DEF InStep
<1> HIDE DEF S
<1>3. PICK m \in Nat : m = Len(p)
  BY ListFacts DEF Alike, IsLists
<1>4. m \in S
  BY <1>1, <1>2, AllNumbers
<1> QED
  BY <1>3, <1>4 DEF S

\* A reaction that declaration decls[k] stands for.
AsBlock(r, k) ==
  /\ {"group", "requires"} \subseteq DOMAIN r
  /\ r.group = IF decls[k].kind = "fork" THEN GroupOf(k) ELSE NoGroup
  /\ r.requires = IF decls[k].kind = "join" THEN {decls[k].group} ELSE {}

\* The list begins with the reactions of the declarations, in order.
FollowsBlocks(rs) ==
  /\ IsList(rs)
  /\ \A i \in DOMAIN BlocksOf(decls) :
       /\ i \in DOMAIN rs /\ BlocksOf(decls)[i] \in DOMAIN decls
       /\ AsBlock(rs[i], BlocksOf(decls)[i])

FlowInv ==
  /\ verdict = "parsed" => JoinsFit
  /\ outcome \in {"expanding", "compiled"} => FollowsBlocks(flat.reactions)
  /\ outcome \in Finished => FollowsBlocks(json.reactions)

LEMMA BlocksStay ==
  ASSUME decls' = decls
  PROVE  /\ JoinsFit' <=> JoinsFit
         /\ \A rs : FollowsBlocks(rs)' <=> FollowsBlocks(rs)
<1>1. \A k : GroupOf(k)' = GroupOf(k)
  BY DEF GroupOf
<1>2. JoinsFit' <=> JoinsFit
  BY <1>1 DEF JoinsFit
<1>3. ASSUME NEW r, NEW k PROVE AsBlock(r, k)' <=> AsBlock(r, k)
  BY <1>1 DEF AsBlock
<1>4. ASSUME NEW rs PROVE FollowsBlocks(rs)' <=> FollowsBlocks(rs)
  BY <1>3 DEF FollowsBlocks
<1> QED
  BY <1>2, <1>4

LEMMA BlockEmits ==
  ASSUME DocumentOK(decls), NEW k \in DOMAIN decls
  PROVE  /\ IsList(EmitReactions(k)) /\ DOMAIN EmitReactions(k) = 1..SizeOf(decls[k])
         /\ \A i \in DOMAIN EmitReactions(k) : AsBlock(EmitReactions(k)[i], k)
<1>1. PICK d, e, n : d = decls[k] /\ e = EmitReactions(k) /\ n = SizeOf(decls[k])
  OBVIOUS
<1>2. IsList(e)
  BY <1>1, EmittedReactions
<1>3. d.kind \in {"fork", "join"} => IsList(d.parts) /\ DOMAIN d.parts = 1..n
  <2>1. d.kind \in {"fork", "join"} => IsList(d.parts)
    BY <1>1 DEF DocumentOK, DeclarationOK, Elements
  <2> QED
    BY <1>1, <2>1, ListFacts DEF SizeOf
<1>4. ASSUME NEW r, NEW group, NEW requires
      PROVE  LET x == EmitReaction(r, group, requires)
             IN  {"group", "requires"} \subseteq DOMAIN x /\ x.group = group /\ x.requires = requires
  BY DEF EmitReaction
<1>5. CASE d.kind = "reaction"
  <2>1. PICK x : x = EmitReaction(d, NoGroup, {})
    OBVIOUS
  <2>2. e = <<x>> /\ n = 1
    BY <1>1, <1>5, <2>1 DEF EmitReactions, SizeOf
  <2>3. DOMAIN e = 1..1 /\ e[1] = x
    BY <2>2
  <2>4. \A i \in DOMAIN e : e[i] = x
    BY <2>3
  <2>5. AsBlock(x, k)
    BY <1>1, <1>4, <1>5, <2>1 DEF AsBlock
  <2> QED
    BY <1>1, <1>2, <2>2, <2>3, <2>4, <2>5
<1>6. CASE d.kind = "fork"
  <2>1. e = [i \in DOMAIN d.parts |-> EmitReaction(d.parts[i], GroupOf(k), {})]
    BY <1>1, <1>6 DEF EmitReactions
  <2>2. DOMAIN e = 1..n /\ \A i \in DOMAIN e : e[i] = EmitReaction(d.parts[i], GroupOf(k), {})
    BY <1>3, <1>6, <2>1
  <2>3. \A i \in DOMAIN e : AsBlock(e[i], k)
    BY <1>1, <1>4, <1>6, <2>2 DEF AsBlock
  <2> QED
    BY <1>1, <1>2, <2>2, <2>3
<1>7. CASE d.kind = "join"
  <2>1. e = [i \in DOMAIN d.parts |-> EmitReaction(d.parts[i], NoGroup, {d.group})]
    BY <1>1, <1>7 DEF EmitReactions
  <2>2. DOMAIN e = 1..n /\ \A i \in DOMAIN e : e[i] = EmitReaction(d.parts[i], NoGroup, {d.group})
    BY <1>3, <1>7, <2>1
  <2>3. \A i \in DOMAIN e : AsBlock(e[i], k)
    BY <1>1, <1>4, <1>7, <2>2 DEF AsBlock
  <2> QED
    BY <1>1, <1>2, <2>2, <2>3
<1>8. CASE d.kind \notin {"reaction", "fork", "join"}
  <2>1. e = <<>> /\ n = 0
    BY <1>1, <1>8 DEF EmitReactions, SizeOf
  <2>2. Len(e) = 0 /\ DOMAIN e = 1..Len(e)
    BY <2>1, EmptyList, ListFacts
  <2>3. DOMAIN e = 1..n
    BY <2>1, <2>2
  <2>4. \A i \in DOMAIN e : FALSE
    BY <2>1, <2>3
  <2> QED
    BY <1>1, <1>2, <2>3, <2>4
<1> QED
  BY <1>5, <1>6, <1>7, <1>8

\* The places of the declarations: a number, as often as it has reactions.
LEMMA BlocksAreList ==
  ASSUME NEW ds, IsList(ds), NEW p, p = [k \in DOMAIN ds |-> [i \in 1..SizeOf(ds[k]) |-> k]],
         \A k \in DOMAIN ds : SizeOf(ds[k]) \in Nat
  PROVE  IsLists(p) /\ IsList(BlocksOf(ds)) /\ BlocksOf(ds) = SeqX!FlattenSeq(p)
<1>1. /\ DOMAIN p = DOMAIN ds /\ p = [k \in DOMAIN ds |-> p[k]]
      /\ \A k \in DOMAIN ds : p[k] = [i \in 1..SizeOf(ds[k]) |-> p[k][i]]
  OBVIOUS
<1>2. IsList(p)
  BY <1>1, ListImage
<1>3. ASSUME NEW k \in DOMAIN ds PROVE IsList(p[k])
  <2>1. PICK n, r : n = SizeOf(ds[k]) /\ n \in Nat /\ r = p[k]
    OBVIOUS
  <2>2. r = [i \in 1..n |-> r[i]]
    BY <1>1, <2>1
  <2>3. IsList(r)
    BY <2>1, <2>2, CountedList
  <2> QED
    BY <2>1, <2>3
<1>4. IsLists(p)
  BY <1>1, <1>2, <1>3 DEF IsLists
<1>5. BlocksOf(ds) = SeqX!FlattenSeq(p)
  BY DEF BlocksOf
<1> QED
  BY <1>4, <1>5, FlattenElements

LEMMA SizesAreNumbers ==
  ASSUME DocumentOK(decls), NEW k \in DOMAIN decls
  PROVE  SizeOf(decls[k]) \in Nat
<1>1. decls[k].kind \in {"fork", "join"} => IsList(decls[k].parts)
  BY DEF DocumentOK, DeclarationOK, Elements
<1> QED
  BY <1>1, ListFacts DEF SizeOf

LEMMA SchemaFlows ==
  ASSUME DocumentOK(decls)
  PROVE  FollowsBlocks(Schema.reactions)
<1>1. PICK p, q : /\ p = [k \in DOMAIN decls |-> [i \in 1..SizeOf(decls[k]) |-> k]]
                  /\ q = [k \in DOMAIN decls |-> EmitReactions(k)]
  OBVIOUS
<1>2. PICK f, g : f = SeqX!FlattenSeq(p) /\ g = SeqX!FlattenSeq(q)
  OBVIOUS
<1>3. BlocksOf(decls) = f /\ Schema.reactions = g
  BY <1>1, <1>2 DEF BlocksOf, Schema
<1>4. /\ DOMAIN p = DOMAIN decls /\ DOMAIN q = DOMAIN decls
      /\ \A k \in DOMAIN decls : /\ DOMAIN p[k] = 1..SizeOf(decls[k])
                                 /\ \A i \in 1..SizeOf(decls[k]) : p[k][i] = k
                                 /\ q[k] = EmitReactions(k)
  BY <1>1
<1>5. /\ p = [k \in DOMAIN decls |-> p[k]] /\ q = [k \in DOMAIN decls |-> q[k]]
      /\ \A k \in DOMAIN decls : p[k] = [i \in 1..SizeOf(decls[k]) |-> p[k][i]]
  BY <1>1
<1>6. IsList(decls)
  BY DEF DocumentOK, SignalsFit
<1>7. IsList(p) /\ IsList(q)
  BY <1>5, <1>6, ListImage
<1>8. \A k \in DOMAIN decls : /\ IsList(q[k]) /\ DOMAIN q[k] = 1..SizeOf(decls[k])
                              /\ \A i \in DOMAIN q[k] : AsBlock(q[k][i], k)
  BY <1>4, BlockEmits
<1>9. IsLists(p)
  BY <1>1, <1>6, BlocksAreList, SizesAreNumbers
<1>10. Alike(p, q)
  BY <1>4, <1>7, <1>8, <1>9 DEF Alike, IsLists
<1>11. InStep(p, q, f, g)
  BY <1>2, <1>10, FlattenInStep
<1>12. IsList(g)
  BY <1>2, <1>10, FlattenElements DEF Alike
<1>13. ASSUME NEW i \in DOMAIN f PROVE i \in DOMAIN g /\ f[i] \in DOMAIN decls /\ AsBlock(g[i], f[i])
  <2>1. i \in DOMAIN g /\ FromOnePlace(p, q, f[i], g[i])
    BY <1>11 DEF InStep
  <2>2. PICK k \in DOMAIN decls : \E j \in DOMAIN p[k] : f[i] = p[k][j] /\ g[i] = q[k][j]
    BY <1>4, <2>1 DEF FromOnePlace
  <2>3. PICK j \in DOMAIN p[k] : f[i] = p[k][j] /\ g[i] = q[k][j]
    BY <2>2
  <2>4. f[i] = k /\ j \in DOMAIN q[k]
    BY <1>4, <1>8, <2>3
  <2>5. AsBlock(q[k][j], k)
    BY <1>8, <2>4
  <2> QED
    BY <2>1, <2>3, <2>4, <2>5
<1> QED
  BY <1>3, <1>12, <1>13 DEF FollowsBlocks

\* What comes after does not matter.
LEMMA FlowsOn ==
  ASSUME NEW rs, FollowsBlocks(rs), NEW more, IsList(more)
  PROVE  FollowsBlocks(rs \o more)
<1>1. PICK all : all = rs \o more
  OBVIOUS
<1>2. IsList(rs) /\ Follows(rs, more, all)
  BY <1>1, ConcatFollows DEF FollowsBlocks
<1>3. IsList(all) /\ \A i \in DOMAIN rs : i \in DOMAIN all /\ all[i] = rs[i]
  BY <1>2 DEF Follows
<1>4. FollowsBlocks(all)
  BY <1>3 DEF FollowsBlocks
<1> QED
  BY <1>1, <1>4

\* Nor do the payloads.
LEMMA FlowsWithoutPayload ==
  ASSUME NEW rs, FollowsBlocks(rs),
         NEW out, out = [i \in DOMAIN rs |-> [rs[i] EXCEPT !.payload = <<"none">>]]
  PROVE  FollowsBlocks(out)
<1>1. IsList(rs)
  BY DEF FollowsBlocks
<1>2. out = [i \in DOMAIN rs |-> out[i]] /\ DOMAIN out = DOMAIN rs
  OBVIOUS
<1>3. IsList(out)
  BY <1>1, <1>2, ListImage
<1>4. ASSUME NEW i \in DOMAIN rs, NEW k, AsBlock(rs[i], k) PROVE AsBlock(out[i], k)
  <2>1. PICK r, x : r = rs[i] /\ x = out[i]
    OBVIOUS
  <2>2. x = [r EXCEPT !.payload = <<"none">>] /\ {"group", "requires"} \subseteq DOMAIN r
    BY <1>4, <2>1 DEF AsBlock
  <2>3. DOMAIN x = DOMAIN r /\ x.group = r.group /\ x.requires = r.requires
    BY <2>2
  <2> QED
    BY <1>4, <2>1, <2>3 DEF AsBlock
<1> QED
  BY <1>2, <1>3, <1>4 DEF FollowsBlocks

LEMMA FlowStarts == CompilerInit => FlowInv
BY DEF CompilerInit, DdlInit, FlowInv, Finished

LEMMA FlowRead ==
  ASSUME ArmsInv, FlowInv, Read
  PROVE  FlowInv'
<1>1. verdict \in {"lexing", "parsing"}
  BY DEF Read, DdlNext, Tokenize, ReadSignal, ReadTransition, ReadReaction, ReadMember, ReadGuard,
         OpenFork, OpenJoin, OpenComponent, CloseBlock, ReadPort, ReadInstantiate, Finish,
         RefuseSource
<1>2. outcome' = "loading"
  BY <1>1 DEF ArmsInv, Read, composeVars
<1>3. ASSUME verdict' = "parsed" PROVE Finish
  BY <1>1, <1>3 DEF Read, DdlNext, Tokenize, ReadSignal, ReadTransition, ReadReaction, ReadMember,
         ReadGuard, OpenFork, OpenJoin, OpenComponent, CloseBlock, ReadPort, ReadInstantiate,
         RefuseSource, Complete, Enter
<1>4. ASSUME verdict' = "parsed" PROVE JoinsFit'
  <2>1. decls' = decls /\ JoinsFit
    BY <1>3, <1>4 DEF Finish
  <2> QED
    BY <2>1, BlocksStay
<1> QED
  BY <1>2, <1>4 DEF FlowInv, Finished

LEMMA FlowStep ==
  ASSUME CompilerInv, ArmsInv, FlowInv, CompilerNext
  PROVE  FlowInv'
<1>1. CASE Emit
  <2>1. /\ outcome' = "expanding" /\ decls' = decls /\ verdict' = verdict
        /\ flat'.reactions = Schema.reactions
    BY <1>1 DEF Emit, ddlVars
  <2>2. PICK rs : rs = Schema.reactions
    OBVIOUS
  <2>3. FollowsBlocks(rs)
    BY <2>2, SchemaFlows DEF CompilerInv, ParserOK
  <2>4. (JoinsFit' <=> JoinsFit) /\ FollowsBlocks(rs)'
    BY <2>1, <2>3, BlocksStay
  <2> QED
    BY <2>1, <2>2, <2>4 DEF FlowInv, Finished
<1>2. CASE ExpandInstance /\ Expand
  <2>1. /\ UNCHANGED <<decls, verdict, outcome, json>> /\ outcome = "expanding"
        /\ FlatOK(flat) /\ InstancesOK(Instances)
    BY <1>2 DEF Expand, ExpandInstance, ddlVars, CompilerInv
  <2>2. PICK p : Expandable(p) /\ flat'.reactions = flat.reactions \o p.reactions
    BY <1>2, <2>1, InstanceAdds
  <2>3. PICK rs, more, all : rs = flat.reactions /\ more = p.reactions /\ all = flat'.reactions
    OBVIOUS
  <2>4. FollowsBlocks(rs) /\ IsList(more) /\ all = rs \o more
    BY <2>1, <2>2, <2>3 DEF FlowInv, Expandable, Lists
  <2>5. FollowsBlocks(all)
    BY <2>4, FlowsOn
  <2>6. (JoinsFit' <=> JoinsFit) /\ FollowsBlocks(all)'
    BY <2>1, <2>5, BlocksStay
  <2> QED
    BY <2>1, <2>3, <2>6 DEF FlowInv, Finished
<1>3. CASE RejectInstance /\ Expand
  <2>1. /\ UNCHANGED <<decls, verdict>> /\ outcome' \in ExpandErrors
    BY <1>3, FaultKinds DEF Expand, RejectInstance, ddlVars
  <2>2. outcome' \notin {"expanding", "compiled"} \cup Finished
    BY <2>1 DEF ExpandErrors, Finished
  <2>3. JoinsFit' <=> JoinsFit
    BY <2>1, BlocksStay
  <2> QED
    BY <2>1, <2>2, <2>3 DEF FlowInv
<1>4. CASE Export
  <2>1. /\ outcome = "compiled" /\ outcome' = "written" /\ UNCHANGED <<decls, verdict>>
        /\ json'.reactions = [i \in DOMAIN flat.reactions |->
                                [flat.reactions[i] EXCEPT !.payload = <<"none">>]]
    BY <1>4 DEF Export, ddlVars
  <2>2. PICK rs, out : rs = flat.reactions /\ out = json'.reactions
    OBVIOUS
  <2>3. FollowsBlocks(rs)
    BY <2>1, <2>2 DEF FlowInv
  <2>4. FollowsBlocks(out)
    BY <2>1, <2>2, <2>3, FlowsWithoutPayload
  <2>5. (JoinsFit' <=> JoinsFit) /\ FollowsBlocks(out)'
    BY <2>1, <2>4, BlocksStay
  <2> QED
    BY <2>1, <2>2, <2>5 DEF FlowInv, Finished
<1>5. CASE RefusePayload \/ Expanded \/ Load
  <2>1. /\ UNCHANGED <<decls, verdict, flat, json>>
        /\ outcome' \in {"expanding", "compiled"} => outcome = "expanding"
        /\ outcome' \in Finished => outcome \in Finished
    BY <1>5 DEF RefusePayload, Expanded, Load, ddlVars, Finished
  <2>2. PICK f, j : f = flat.reactions /\ j = json.reactions
    OBVIOUS
  <2>3. /\ JoinsFit' <=> JoinsFit
        /\ FollowsBlocks(f)' <=> FollowsBlocks(f)
        /\ FollowsBlocks(j)' <=> FollowsBlocks(j)
    BY <2>1, BlocksStay
  <2> QED
    BY <2>1, <2>2, <2>3 DEF FlowInv
<1> QED
  BY <1>1, <1>2, <1>3, <1>4, <1>5, FlowRead DEF CompilerNext, Expand

LEMMA FlowUnchanged ==
  ASSUME FlowInv, UNCHANGED compilerVars
  PROVE  FlowInv'
<1>1. UNCHANGED <<decls, verdict, outcome, flat, json>>
  BY DEF compilerVars, ddlVars, composeVars
<1>2. PICK f, j : f = flat.reactions /\ j = json.reactions
  OBVIOUS
<1>3. /\ JoinsFit' <=> JoinsFit
      /\ FollowsBlocks(f)' <=> FollowsBlocks(f)
      /\ FollowsBlocks(j)' <=> FollowsBlocks(j)
  BY <1>1, BlocksStay
<1> QED
  BY <1>1, <1>2, <1>3 DEF FlowInv

LEMMA FlowHolds == CompilerSpec => []FlowInv
BY FlowStarts, FlowStep, FlowUnchanged, CompilerHolds, ArmsHold, PTL DEF CompilerSpec

\* There are no more fork blocks than names for them.
FewForks == Cardinality(PlacesOf({"fork"}, decls)) <= 4

LEMMA ForkHasName ==
  ASSUME IsList(decls), FewForks, NEW k \in DOMAIN decls, decls[k].kind = "fork"
  PROVE  GroupOf(k) # NoGroup
<1>1. PICK n \in Nat : n = Len(decls) /\ DOMAIN decls = 1..n
  BY ListFacts
<1>2. PICK q : q = SubSeq(decls, 1, k)
  OBVIOUS
<1>3. DOMAIN q = 1..k /\ \A i \in 1..k : q[i] = decls[i] /\ i \in DOMAIN decls
  <2>1. decls \in Seq(Elements(decls)) /\ k \in 1..n
    BY <1>1 DEF IsList
  <2>2. 1 \in 1..(n + 1) /\ k \in 0..n
    BY <2>1
  <2>3. q \in Seq(Elements(decls)) /\ Len(q) = k /\ \A i \in 1..k : q[i] = decls[i]
    BY <1>1, <1>2, <2>1
  <2>4. DOMAIN q = 1..k
    BY <2>3, LenProperties
  <2> QED
    BY <1>1, <2>1, <2>3, <2>4
<1>4. PICK A, B : A = PlacesOf({"fork"}, q) /\ B = PlacesOf({"fork"}, decls)
  OBVIOUS
<1>5. A \subseteq B /\ k \in A /\ B \subseteq 1..n
  <2>1. k \in 1..k
    BY <1>1
  <2> QED
    BY <1>1, <1>3, <1>4, <2>1 DEF PlacesOf
<1>6. IsFiniteSet(B)
  <2>1. IsFiniteSet(1..n)
    BY <1>1, FS_Interval
  <2> QED
    BY <1>5, <2>1, FS_Subset
<1>7. IsFiniteSet(A) /\ Cardinality(A) <= Cardinality(B)
  BY <1>5, <1>6, FS_Subset
<1>8. Cardinality(A) \in Nat /\ Cardinality(B) \in Nat /\ Cardinality(A) # 0
  BY <1>5, <1>6, <1>7, FS_CardinalityType, FS_EmptySet
<1>9. PICK a \in Nat, b \in Nat : a = Cardinality(A) /\ b = Cardinality(B)
  BY <1>8
<1>10. a \in 1..4
  BY <1>4, <1>7, <1>8, <1>9 DEF FewForks
<1>11. GroupOf(k) = ForkName(a)
  BY <1>2, <1>4, <1>9 DEF GroupOf
<1> QED
  BY <1>10, <1>11, NamesAssumption

\* The blocks of a name, for the documentation and for the parser.
LEMMA ForksOfName ==
  ASSUME NEW g, NEW k
  PROVE  k \in ForkNamed(g, decls) <=> k \in DOMAIN decls /\ decls[k].kind = "fork" /\ g = GroupOf(k)
<1>1. PICK q : q = SubSeq(decls, 1, k)
  OBVIOUS
<1>2. Kinds("fork", q) = PlacesOf({"fork"}, q)
  BY DEF Kinds, PlacesOf
<1>3. k \in ForkNamed(g, decls) <=>
        k \in Kinds("fork", decls) /\ g = <<"fork0", "fork1", "fork2", "fork3">>[Cardinality(Kinds("fork", q))]
  BY <1>1 DEF ForkNamed
<1>4. GroupOf(k) = <<"fork0", "fork1", "fork2", "fork3">>[Cardinality(PlacesOf({"fork"}, q))]
  BY <1>1 DEF GroupOf, ForkName
<1> QED
  BY <1>2, <1>3, <1>4 DEF Kinds

LEMMA FlowsAsWritten ==
  ASSUME CompilerInv, ArmsInv, FlowInv, FewForks
  PROVE  WorkflowAsWritten
<1> SUFFICES ASSUME json # <<>> PROVE WorkflowAsWritten
  BY DEF WorkflowAsWritten
<1>1. PICK block, rs : block = BlocksOf(decls) /\ rs = json.reactions
  OBVIOUS
<1>2. outcome \in Finished
  BY DEF CompilerInv
<1>3. FollowsBlocks(rs) /\ JoinsFit /\ IsList(decls)
  BY <1>1, <1>2 DEF ArmsInv, FlowInv, Finished, CompilerInv, ParserOK, DocumentOK, SignalsFit
<1>4. \A k \in DOMAIN decls : decls[k].kind = "fork" => GroupOf(k) # NoGroup
  BY <1>3, ForkHasName
<1>5. \A k \in DOMAIN decls : decls[k].kind = "join" =>
         \E j \in DOMAIN decls : decls[j].kind = "fork" /\ decls[k].group = GroupOf(j)
  BY <1>3 DEF JoinsFit, PlacesOf
<1>6. IsList(rs) /\ IsList(block)
  <2>1. IsList(rs)
    BY <1>3 DEF FollowsBlocks
  <2>2. IsList(block)
    <3>1. \A k \in DOMAIN decls : SizeOf(decls[k]) \in Nat
      BY SizesAreNumbers DEF CompilerInv, ParserOK
    <3>2. PICK p : p = [k \in DOMAIN decls |-> [i \in 1..SizeOf(decls[k]) |-> k]]
      OBVIOUS
    <3>3. IsList(BlocksOf(decls))
      BY <1>3, <3>1, <3>2, BlocksAreList
    <3> QED
      BY <1>1, <3>3
  <2> QED
    BY <2>1, <2>2
<1>7. \A i \in DOMAIN block : i \in DOMAIN rs /\ block[i] \in DOMAIN decls /\ AsBlock(rs[i], block[i])
  BY <1>1, <1>3 DEF FollowsBlocks
<1>8. Len(block) <= Len(rs)
  <2>1. PICK m \in Nat, n \in Nat : m = Len(block) /\ n = Len(rs) /\ DOMAIN block = 1..m /\ DOMAIN rs = 1..n
    BY <1>6, ListFacts
  <2>2. m # 0 => m \in 1..n
    BY <1>7, <2>1
  <2> QED
    BY <2>1, <2>2
<1>9. ASSUME NEW i \in DOMAIN block, NEW j \in DOMAIN block
      PROVE  (rs[j].group \in rs[i].requires) <=> block[j] \in JoinedBlocks(block[i], decls)
  <2>1. PICK a, b : a = block[i] /\ b = block[j]
    OBVIOUS
  <2>2. /\ a \in DOMAIN decls /\ b \in DOMAIN decls
        /\ rs[j].group = IF decls[b].kind = "fork" THEN GroupOf(b) ELSE NoGroup
        /\ rs[i].requires = IF decls[a].kind = "join" THEN {decls[a].group} ELSE {}
    BY <1>7, <2>1 DEF AsBlock
  <2>3. CASE decls[a].kind # "join"
    <3>1. JoinedBlocks(a, decls) = {} /\ rs[i].requires = {}
      BY <2>2, <2>3 DEF JoinedBlocks
    <3> QED
      BY <2>1, <3>1
  <2>4. CASE decls[a].kind = "join"
    <3>1. PICK g : g = decls[a].group
      OBVIOUS
    <3>2. JoinedBlocks(a, decls) = ForkNamed(g, decls) /\ rs[i].requires = {g}
      BY <2>2, <2>4, <3>1 DEF JoinedBlocks
    <3>3. g # NoGroup
      BY <1>4, <1>5, <2>2, <2>4, <3>1
    <3>4. b \in ForkNamed(g, decls) <=> decls[b].kind = "fork" /\ g = GroupOf(b)
      BY <2>2, ForksOfName
    <3> QED
      BY <2>1, <2>2, <3>2, <3>3, <3>4
  <2> QED
    BY <2>3, <2>4
<1>10. ASSUME NEW i \in DOMAIN block
       PROVE  /\ rs[i].group = NoGroup <=> decls[block[i]].kind # "fork"
              /\ rs[i].requires = {} <=> JoinedBlocks(block[i], decls) = {}
  <2>1. PICK a : a = block[i]
    OBVIOUS
  <2>2. /\ a \in DOMAIN decls
        /\ rs[i].group = IF decls[a].kind = "fork" THEN GroupOf(a) ELSE NoGroup
        /\ rs[i].requires = IF decls[a].kind = "join" THEN {decls[a].group} ELSE {}
    BY <1>7, <2>1 DEF AsBlock
  <2>3. rs[i].group = NoGroup <=> decls[a].kind # "fork"
    BY <1>4, <2>2
  <2>4. CASE decls[a].kind # "join"
    BY <2>1, <2>2, <2>3, <2>4 DEF JoinedBlocks
  <2>5. CASE decls[a].kind = "join"
    <3>1. PICK c \in DOMAIN decls : decls[c].kind = "fork" /\ decls[a].group = GroupOf(c)
      BY <1>5, <2>2, <2>5
    <3>2. c \in ForkNamed(decls[a].group, decls)
      BY <3>1, ForksOfName
    <3>3. JoinedBlocks(a, decls) # {} /\ rs[i].requires # {}
      BY <2>2, <2>5, <3>2 DEF JoinedBlocks
    <3> QED
      BY <2>1, <2>3, <3>3
  <2> QED
    BY <2>4, <2>5
<1> QED
  BY <1>1, <1>8, <1>9, <1>10 DEF WorkflowAsWritten

LEMMA ReactionsOnly == CompilerInv => OnlyReactionsFailValidation
<1> SUFFICES ASSUME CompilerInv, outcome = "ValidationError" PROVE ~ReactionsOk(json)
  BY DEF OnlyReactionsFailValidation
<1>1. Consistent(json) /\ ~Valid(json)
  BY DEF CompilerInv, Finished
<1>2. SignalsOk(json) /\ TransitionsOk(json)
  BY <1>1, DeclaredOnce DEF Consistent
<1> QED
  BY <1>1, <1>2 DEF Valid

\* What counts as reached has, with a state, what a transition leads to from it.
LEMMA ReachedIsClosed ==
  ASSUME NEW t, Consistent(t), NEW sg \in Elements(t.signals)
  PROVE  ClosedUnderTransitions(t, sg, Reached(t, sg) \cap sg.states)
<1>1. sg.initial \in Reached(t, sg) \cap sg.states
  BY DEF Reached, Consistent, DeclaresStates
<1>2. ASSUME NEW tr \in Elements(t.transitions), tr.signal = sg.id,
             tr.from \in Reached(t, sg) \cap sg.states
      PROVE  tr.to \in Reached(t, sg) \cap sg.states
  <2>1. CASE tr.from = tr.to
    BY <1>2, <2>1
  <2>2. CASE tr.from # tr.to
    <3>1. tr.to \in Reached(t, sg)
      BY <1>2, <2>2 DEF Reached
    <3>2. PICK g \in Elements(t.signals) : g.id = tr.signal /\ tr.to \in g.states
      BY DEF Consistent, DeclaresStates
    <3>3. g = sg
      BY <1>2, <3>2 DEF Consistent, Distinct, Elements
    <3> QED
      BY <3>1, <3>2, <3>3
  <2> QED
    BY <2>1, <2>2
<1> QED
  BY <1>1, <1>2 DEF ClosedUnderTransitions

LEMMA DeadAreDead == CompilerInv => DeadStatesAreNeverEntered
<1> SUFFICES ASSUME CompilerInv, json # <<>>, NEW sg \in Elements(json.signals),
                    NEW x \in Occupied(json, sg)
             PROVE  <<"unreachable-state", sg.id, x>> \notin warnings
  BY DEF DeadStatesAreNeverEntered
<1>1. Consistent(json) /\ WarnedDead
  BY DEF CompilerInv
<1>2. PICK S : S = Reached(json, sg) \cap sg.states
  OBVIOUS
<1>3. S \in SUBSET sg.states /\ ClosedUnderTransitions(json, sg, S)
  BY <1>1, <1>2, ReachedIsClosed
<1>4. x \in S
  BY <1>3 DEF Occupied
<1> QED
  BY <1>1, <1>2, <1>4 DEF WarnedDead

-----------------------------------------------------------------------------
(* Theorems                                                                *)

\* Whatever source is compiled, accepted, expanded and written: if the engine
\* refuses the JSON, it is for a reaction of a signal that is not declared.  The
\* signals have different names, their initial states are theirs, and so are the
\* states that their transitions name, which the parser checked before `from *`
\* was spread out and instances were renamed.
THEOREM OnlyReactionsFail == CompilerSpec => []OnlyReactionsFailValidation
BY CompilerHolds, ReactionsOnly, PTL

\* A state that stc warns of cannot be reached by any sequence of transitions,
\* although check_schema asks only whether one transition leads there.
THEOREM DeadStatesAreDead == CompilerSpec => []DeadStatesAreNeverEntered
BY CompilerHolds, DeadAreDead, PTL

\* Whatever document is compiled, with whatever instances: in the JSON, and in
\* each component, the first transition for an event in a state of a signal is the
\* first arm that was written for it, or none if none was.  No arm overtakes
\* another when `from *` is spread out, and none of an instance's comes between.
THEOREM FirstArmIsTaken == CompilerSpec => []FirstArmWins
BY CompilerHolds, ArmsHold, ArmsInOrder, PTL

\* Whatever document is compiled that has no more fork blocks than there are names
\* for in the model: in the JSON the reactions of a join require those of the fork
\* block that the join names, wherever the two are, and no others require anything.
THEOREM JoinsWaitForTheirForks == CompilerSpec => [](FewForks => WorkflowAsWritten)
BY CompilerHolds, ArmsHold, FlowHolds, FlowsAsWritten, PTL

=============================================================================
