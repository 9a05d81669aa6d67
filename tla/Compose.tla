------------------------------ MODULE Compose ------------------------------
(***************************************************************************)
(* From files to an engine (compose.rs, then from_schema in engine.rs):    *)
(* load_topology reads a file, merges in what it includes, to any depth,   *)
(* and expands the instances of components; from_schema validates what     *)
(* comes out.                                                              *)
(*                                                                         *)
(* load_topology_inner calls itself for each include: the stack holds one  *)
(* frame per open file.  A file is its canonical path and its content.     *)
(*                                                                         *)
(* A file's schema is a topology (Topology.tla) with                       *)
(*   components  a function from names to [params, ports, signals,         *)
(*               transitions, reactions]; a port is [signal, state, alias] *)
(*   instances   a sequence of [component, bindings, connections]; a       *)
(*               connection is [port, target]                              *)
(*   includes    a sequence of files                                       *)
(* A string is a literal, <<"lit", x>>, or a placeholder, <<"ref", p>> for *)
(* "${p}".                                                                 *)
(***************************************************************************)
EXTENDS Topology

SeqX == INSTANCE SequencesExt

CONSTANTS
  Files,        \* canonical paths
  Root,         \* the file to load
  Disks,        \* what may be on disk: functions from Files to schemas
  Unreadable,   \* a file that is missing or does not parse
  NoAlias       \* alias = None

\* A ComponentDef, as far as it is read.
IsComponent(c) ==
  /\ IsList(c.signals) /\ IsList(c.transitions) /\ IsList(c.reactions)
  /\ \A tr \in Elements(c.transitions) :
       IsList(tr.on_exit) /\ IsList(tr.on_transition) /\ IsList(tr.on_enter)
  /\ \A r \in Elements(c.reactions) :
       {"fromSignal", "fromState", "toSignal", "event", "guard", "group", "requires", "onFail"}
         \subseteq DOMAIN r

\* A TopologySchema whose includes are canonical paths.
IsSchema(f) ==
  /\ IsList(f.signals) /\ IsList(f.transitions) /\ IsList(f.reactions)
  /\ IsList(f.includes) /\ Elements(f.includes) \subseteq Files
  /\ IsList(f.instances)
  /\ \A i \in DOMAIN f.instances : IsList(f.instances[i].connections)
  /\ \A n \in DOMAIN f.components : IsComponent(f.components[n])

ASSUME DisksAssumption ==
  /\ IsFiniteSet(Files) /\ Root \in Files
  /\ \A d \in Disks : /\ DOMAIN d = Files
                      /\ \A f \in Files : d[f] = Unreadable \/ IsSchema(d[f])

\* "*" holds no placeholder.
ASSUME AnyAssumption == Any[1] # "ref"

VARIABLES
  disk,      \* the files
  seen,      \* the files visited so far
  stack,     \* the files being loaded: [file, merged, next]
  loaded,    \* what load_topology_inner returned for the root (`merged`)
  flat,      \* the topology being expanded, with `components`
  at,        \* the instance to expand next
  outcome    \* "loading", "expanding", "ok" or an error

composeVars == <<disk, seen, stack, loaded, flat, at, outcome>>

LoadErrors == {"IncludeNotFound", "IncludeCycle"}
ExpandErrors ==
  {"ComponentNotFound", "MissingBinding", "UnknownPort", "PortUnknownSignal",
   "PortUnknownState", "ConflictingPortConnection", "InvalidParamRef",
   "DuplicateSignalAfterExpand"}

Top == stack[Len(stack)]
Below == SubSeq(stack, 1, Len(stack) - 1)

-----------------------------------------------------------------------------
(* Includes                                                                *)

\* A file without its includes and instances.
Own(f) ==
  [signals |-> disk[f].signals, transitions |-> disk[f].transitions,
   reactions |-> disk[f].reactions, components |-> disk[f].components]

\* Before the files are read.
Empty == [signals |-> <<>>, transitions |-> <<>>, reactions |-> <<>>, components |-> <<>>]

Init ==
  /\ disk \in Disks
  /\ seen = {}
  /\ stack = <<>>
  /\ loaded = Empty /\ flat = Empty
  /\ at = 1
  /\ outcome = "loading"

\* The file load_topology_inner is called for next: the root, or an include.
Wanted ==
  IF stack = <<>> THEN {Root}
  ELSE {disk[Top.file].includes[i] : i \in {Top.next} \cap DOMAIN disk[Top.file].includes}

\* Mutant: the set of visited files stays empty.
InsertNothing(f) == seen

\* seen.insert
Insert(f) == seen \cup {f}

\* Mutant: only the files that are open count as visited.
VisitedOnPath(f) == \E i \in DOMAIN stack : stack[i].file = f

Visited(f) == f \in seen

Open(f) ==
  /\ outcome = "loading"
  /\ f \in Wanted
  /\ disk[f] # Unreadable
  /\ ~Visited(f)
  /\ seen' = Insert(f)
  /\ stack' = Append(stack, [file |-> f, merged |-> Own(f), next |-> 1])
  /\ UNCHANGED <<disk, loaded, flat, at, outcome>>

\* A file cannot be read, or was visited before, wherever it was included.
Refuse(f) ==
  /\ outcome = "loading"
  /\ f \in Wanted
  /\ \/ disk[f] = Unreadable /\ outcome' = "IncludeNotFound"
     \/ disk[f] # Unreadable /\ Visited(f) /\ outcome' = "IncludeCycle"
  /\ UNCHANGED <<disk, seen, stack, loaded, flat, at>>

Ids(signals) == {signals[i].id : i \in DOMAIN signals}

\* Mutant: the includer's component wins.
MergedFirstWins(acc, sub) ==
  [signals     |-> acc.signals \o sub.signals,
   transitions |-> acc.transitions \o sub.transitions,
   reactions   |-> acc.reactions \o sub.reactions,
   components  |-> [n \in DOMAIN acc.components \cup DOMAIN sub.components |->
                      IF n \in DOMAIN acc.components
                      THEN acc.components[n] ELSE sub.components[n]]]

\* What the two have is put end to end; of two components of one name the
\* included one stays.
Merged(acc, sub) ==
  [signals     |-> acc.signals \o sub.signals,
   transitions |-> acc.transitions \o sub.transitions,
   reactions   |-> acc.reactions \o sub.reactions,
   components  |-> [n \in DOMAIN acc.components \cup DOMAIN sub.components |->
                      IF n \in DOMAIN sub.components
                      THEN sub.components[n] ELSE acc.components[n]]]

\* The includes of the top file are all merged: merge it into the file below.
Merge ==
  /\ outcome = "loading"
  /\ Len(stack) > 1
  /\ Wanted = {}
  /\ LET acc == stack[Len(stack) - 1]
     IN  \/ /\ Ids(acc.merged.signals) \cap Ids(Top.merged.signals) # {}
            /\ outcome' = "DuplicateSignalAfterExpand"
            /\ UNCHANGED stack
         \/ /\ Ids(acc.merged.signals) \cap Ids(Top.merged.signals) = {}
            /\ stack' = [Below EXCEPT ![Len(Below)] =
                           [acc EXCEPT !.merged = Merged(acc.merged, Top.merged),
                                       !.next = @ + 1]]
            /\ UNCHANGED outcome
  /\ UNCHANGED <<disk, seen, loaded, flat, at>>

\* The root is complete.
Loaded ==
  /\ outcome = "loading"
  /\ Len(stack) = 1
  /\ Wanted = {}
  /\ loaded' = Top.merged /\ flat' = Top.merged
  /\ stack' = <<>>
  /\ outcome' = "expanding"
  /\ UNCHANGED <<disk, seen, at>>

-----------------------------------------------------------------------------
(* Expansion: one instance of a component                                  *)

\* subst: a placeholder without a bound value stays as it is.
Subst(x, bound) ==
  IF x[1] = "ref" /\ x[2] \in DOMAIN bound THEN bound[x[2]] ELSE x

SubstAll(q, bound) == [i \in DOMAIN q |-> Subst(q[i], bound)]

Bound(c, instance) == [p \in c.params |-> instance.bindings[p]]

\* port_name
PortName(port, bound) ==
  IF port.alias # NoAlias THEN port.alias
  ELSE <<"port", Subst(port.signal, bound), Subst(port.state, bound)>>

PortsNamed(c, bound, name) ==
  {i \in DOMAIN c.ports : PortName(c.ports[i], bound) = name}

\* The internal signal and the state that a connection's port stands for.
WiredSignal(c, bound, conn) ==
  Subst(c.ports[First(PortsNamed(c, bound, conn.port))].signal, bound)
WiredState(c, bound, conn) ==
  Subst(c.ports[First(PortsNamed(c, bound, conn.port))].state, bound)

\* What is wrong with the k-th connection, if those before it are right.  Of
\* two signals with one id the later one counts.
ConnectionFault(c, bound, conns, k) ==
  IF PortsNamed(c, bound, conns[k].port) = {} THEN "UnknownPort"
  ELSE LET s == WiredSignal(c, bound, conns[k])
           declared == {i \in DOMAIN c.signals : Subst(c.signals[i].id, bound) = s}
           last == CHOOSE i \in declared : \A j \in declared : j <= i
       IN  CASE declared = {} -> "PortUnknownSignal"
             [] WiredState(c, bound, conns[k])
                  \notin {Subst(x, bound) : x \in c.signals[last].states}
                  -> "PortUnknownState"
             [] \E j \in 1..(k - 1) :
                  /\ PortsNamed(c, bound, conns[j].port) # {}
                  /\ WiredSignal(c, bound, conns[j]) = s
                  /\ Subst(conns[j].target, bound) # Subst(conns[k].target, bound)
                  -> "ConflictingPortConnection"
             [] OTHER -> "none"

\* The strings of a component that are substituted.
Texts(c) ==
  UNION ({{sg.id, sg.initial} \cup sg.states : sg \in Elements(c.signals)}
         \cup {{tr.signal, tr.event, tr.from, tr.to} \cup ({tr.guard} \ {NoGuard})
                 \cup Elements(tr.on_exit \o tr.on_transition \o tr.on_enter) :
                 tr \in Elements(c.transitions)}
         \cup {{r.fromSignal, r.fromState, r.toSignal, r.event} : r \in Elements(c.reactions)})

\* The other ones, which expand_reaction copies; payloads are JSON, not strings.
Copied(c) ==
  UNION {({r.guard, r.group, r.onFail} \ {NoGuard, NoGroup, NoHook}) \cup r.requires :
           r \in Elements(c.reactions)}

\* find_unresolved: a placeholder that is left and names none of the params.
InvalidRef(c, bound) ==
  \E x \in Texts(c) :
    LET y == Subst(x, bound) IN y[1] = "ref" /\ y[2] \notin c.params

\* What expand says of an instance: "none" if it can be expanded.
InstanceFault(components, instance) ==
  IF instance.component \notin DOMAIN components THEN "ComponentNotFound"
  ELSE LET c == components[instance.component]
           bound == Bound(c, instance)
           conns == instance.connections
           faulty == {k \in DOMAIN conns : ConnectionFault(c, bound, conns, k) # "none"}
       IN  CASE ~(c.params \subseteq DOMAIN instance.bindings) -> "MissingBinding"
             [] faulty # {} -> ConnectionFault(c, bound, conns, First(faulty))
             [] InvalidRef(c, bound) -> "InvalidParamRef"
             [] OTHER -> "none"

\* The name of signal s of the component in the instance: a wired signal has
\* the name of the parent's.
Renamed(s, c, bound, conns) ==
  LET wires == {k \in DOMAIN conns : WiredSignal(c, bound, conns[k]) = Subst(s, bound)}
  IN  IF wires = {} THEN Subst(s, bound) ELSE Subst(conns[First(wires)].target, bound)

ExpandSignal(sg, c, bound, conns) ==
  [id |-> Renamed(sg.id, c, bound, conns),
   states |-> {Subst(x, bound) : x \in sg.states},
   initial |-> Subst(sg.initial, bound)]

\* Mutant: the transitions of a wired signal keep their signal.
ExpandTransitionNotRenamed(tr, c, bound, conns) ==
  [tr EXCEPT !.signal = Subst(@, bound), !.event = Subst(@, bound),
             !.from = Subst(@, bound), !.to = Subst(@, bound)]

ExpandTransition(tr, c, bound, conns) ==
  [signal |-> Renamed(tr.signal, c, bound, conns),
   event |-> Subst(tr.event, bound),
   from |-> Subst(tr.from, bound),
   to |-> Subst(tr.to, bound),
   guard |-> IF tr.guard = NoGuard THEN NoGuard ELSE Subst(tr.guard, bound),
   on_exit |-> SubstAll(tr.on_exit, bound),
   on_transition |-> SubstAll(tr.on_transition, bound),
   on_enter |-> SubstAll(tr.on_enter, bound)]

\* Mutant: the event keeps its placeholder.
ExpandReactionEventKept(r, c, bound, conns) ==
  [r EXCEPT !.fromSignal = Renamed(@, c, bound, conns),
            !.fromState = Subst(@, bound),
            !.toSignal = Renamed(@, c, bound, conns)]

ExpandReaction(r, c, bound, conns) ==
  [r EXCEPT !.fromSignal = Renamed(@, c, bound, conns),
            !.fromState = Subst(@, bound),
            !.toSignal = Renamed(@, c, bound, conns),
            !.event = Subst(@, bound)]

\* The instances to expand are the root's: merge_in takes none from an include.
Instances == disk[Root].instances

ExpandInstance ==
  /\ outcome = "expanding"
  /\ at \in DOMAIN Instances
  /\ InstanceFault(flat.components, Instances[at]) = "none"
  /\ LET conns == Instances[at].connections
         c == flat.components[Instances[at].component]
         bound == Bound(c, Instances[at])
     IN  flat' = [flat EXCEPT
           !.signals = @ \o [i \in DOMAIN c.signals |->
                               ExpandSignal(c.signals[i], c, bound, conns)],
           !.transitions = @ \o [i \in DOMAIN c.transitions |->
                               ExpandTransition(c.transitions[i], c, bound, conns)],
           !.reactions = @ \o [i \in DOMAIN c.reactions |->
                               ExpandReaction(c.reactions[i], c, bound, conns)]]
  /\ at' = at + 1
  /\ UNCHANGED <<disk, seen, stack, loaded, outcome>>

RejectInstance ==
  /\ outcome = "expanding"
  /\ at \in DOMAIN Instances
  /\ InstanceFault(flat.components, Instances[at]) # "none"
  /\ outcome' = InstanceFault(flat.components, Instances[at])
  /\ UNCHANGED <<disk, seen, stack, loaded, flat, at>>

\* enforce_unique_signal_ids, which runs only where there are instances.
IdsCollide == Instances # <<>> /\ Cardinality(Ids(flat.signals)) # Len(flat.signals)

\* from_schema on what is expanded.
Build ==
  /\ outcome = "expanding"
  /\ at > Len(Instances)
  /\ outcome' = CASE IdsCollide -> "DuplicateSignalAfterExpand"
                  [] ~IdsCollide /\ Valid(flat) -> "ok"
                  [] OTHER -> "ValidationError"
  /\ UNCHANGED <<disk, seen, stack, loaded, flat, at>>

Next ==
  \/ \E f \in Files : Open(f) \/ Refuse(f)
  \/ Merge \/ Loaded
  \/ ExpandInstance \/ RejectInstance \/ Build

Spec == Init /\ [][Next]_composeVars

-----------------------------------------------------------------------------
(* Properties                                                              *)

ComposeTypeOK ==
  /\ DOMAIN disk = Files /\ seen \subseteq Files
  /\ \A i \in DOMAIN stack :
       stack[i].file \in seen /\ stack[i].next \in 1..(Len(disk[stack[i].file].includes) + 1)
  /\ outcome \in {"loading", "expanding", "ok", "ValidationError"} \cup LoadErrors \cup ExpandErrors

WasLoaded == stack = <<>> /\ outcome \notin {"loading"} \cup LoadErrors

Includes(f) == IF disk[f] = Unreadable THEN <<>> ELSE disk[f].includes

\* The root and all that it includes, directly or not: the least set of files
\* with the root that has, with a file, its includes.
ClosedUnderIncludes(S) == Root \in S /\ \A f \in S : Elements(Includes(f)) \subseteq S
Tree == {f \in Files : \A S \in SUBSET Files : ClosedUnderIncludes(S) => f \in S}

\* Where they include something, and what.
Places == UNION {{f} \X DOMAIN Includes(f) : f \in Tree}
Target(p) == Includes(p[1])[p[2]]

AFileIsMissing == \E f \in Tree : disk[f] = Unreadable

\* Twice by one file, along two ways, or in a ring.
AFileIsIncludedAgain ==
  \/ \E p \in Places : Target(p) = Root
  \/ \E p, q \in Places : p # q /\ Target(p) = Target(q)

ASignalIsDeclaredTwice ==
  \E f, g \in Tree : /\ f # g /\ Unreadable \notin {disk[f], disk[g]}
                     /\ Ids(disk[f].signals) \cap Ids(disk[g].signals) # {}

\* A load fails for a file that is missing only if one is, for a file included
\* again only if one is, and for a repeated signal only if two files declare it;
\* and it succeeds only if none of that is so.
FailuresHaveTheirCause ==
  /\ outcome = "IncludeNotFound" => AFileIsMissing
  /\ outcome = "IncludeCycle" => AFileIsIncludedAgain
  /\ outcome = "DuplicateSignalAfterExpand" /\ stack # <<>> => ASignalIsDeclaredTwice
  /\ WasLoaded => ~AFileIsMissing /\ ~AFileIsIncludedAgain /\ ~ASignalIsDeclaredTwice

\* The root and, to depth d, all it includes, a file before its includes.
Unfolded ==
  LET order[d \in 0..Cardinality(Files)] ==
        [f \in Files |->
           <<f>> \o IF d = 0 THEN <<>>
                    ELSE SeqX!FlattenSeq([i \in DOMAIN Includes(f) |-> order[d - 1][Includes(f)[i]]])]
  IN  order[Cardinality(Files)][Root]

\* What was loaded is the files one after the other, each before the files it
\* includes, and comes before what the instances add; of the components of one
\* name it is the last one in that order.  The places of transitions and reactions
\* decide which of them fires first (engine.rs:295-298, 582-592), so the order of
\* the files does.
MergedInSourceOrder ==
  WasLoaded =>
    LET order == Unfolded
        InSources(Of(_)) == SeqX!FlattenSeq([i \in DOMAIN order |-> Of(disk[order[i]])])
        Defining(n) == {i \in DOMAIN order : n \in DOMAIN disk[order[i]].components}
    IN  /\ \A field \in {"signals", "transitions", "reactions"} :
             /\ loaded[field] = InSources(LAMBDA f : f[field])
             /\ SeqX!IsPrefix(loaded[field], flat[field])
        /\ \A i \in DOMAIN order : DOMAIN disk[order[i]].components \subseteq DOMAIN flat.components
        /\ \A n \in DOMAIN flat.components :
             \E i \in Defining(n) :
               /\ \A j \in Defining(n) : j <= i
               /\ flat.components[n] = disk[order[i]].components[n]

\* A component that is a topology by itself.
Closed(c) == Valid([signals |-> c.signals, transitions |-> c.transitions,
                    reactions |-> c.reactions])

\* An instance of a component that is a topology by itself, in a topology that
\* is valid without it, is refused by expand or gives a valid topology: the
\* bindings and wires rename everywhere or nowhere (compose.rs:49-72).
InstancesStayValid ==
  outcome = "ValidationError" =>
    \/ ~Valid(loaded)
    \/ \E k \in DOMAIN Instances : ~Closed(flat.components[Instances[k].component])

IsPlaceholder(x) == x[1] = "ref"

\* The text that the instances bring in is given, not scanned again.
IsSupplied(x) ==
  \E k \in DOMAIN Instances :
    \/ \E p \in DOMAIN Instances[k].bindings : x = Instances[k].bindings[p]
    \/ \E j \in DOMAIN Instances[k].connections : x = Instances[k].connections[j].target

\* It stands in a field that is copied, in the component of an instance.
IsCopied(x) ==
  \E k \in DOMAIN Instances :
    /\ Instances[k].component \in DOMAIN flat.components
    /\ x \in Copied(flat.components[Instances[k].component])

\* Expansion adds a placeholder to signals, transitions, and the signals, states
\* and events of reactions only as text that a binding or a wire supplied
\* (compose.rs:341-347).  The guards, groups, requirements and hooks of reactions
\* keep the placeholders of the component, and get no others (compose.rs:333-337).
PlaceholdersLeft ==
  WasLoaded =>
    /\ \A x \in Texts(flat) \ Texts(loaded) : IsPlaceholder(x) => IsSupplied(x)
    /\ \A x \in Copied(flat) \ Copied(loaded) : IsPlaceholder(x) => IsCopied(x)

\* "Every string field may contain `${param}` placeholders that are substituted
\* when an instance supplies bindings" (schema.rs:35-36): an engine is built only
\* from a topology where expansion left no placeholder but supplied text.
EveryFieldSubstituted ==
  outcome = "ok" =>
    \A x \in (Texts(flat) \cup Copied(flat)) \ (Texts(loaded) \cup Copied(loaded)) :
      IsPlaceholder(x) => IsSupplied(x)

=============================================================================
