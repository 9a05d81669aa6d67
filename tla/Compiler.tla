------------------------------ MODULE Compiler ------------------------------
(***************************************************************************)
(* From a DDL source to an engine: compile_full (ddl/mod.rs) parses, lowers*)
(* (codegen.rs) and expands (compose.rs); stc checks the result (check.rs) *)
(* and writes it as JSON (stc.rs), which the engine validates.             *)
(*                                                                         *)
(* The parser is Ddl.tla and the expansion Compose.tla, on the schema as   *)
(* the content of a file without includes.  An identifier x of the source  *)
(* is the string <<"lit", x>> (the lexer knows no `$`), a guard's text is  *)
(* <<"text", its lexemes>>.  The states of a signal are a set; in which    *)
(* order they are listed counts only in the lowering of `from *`.          *)
(***************************************************************************)
EXTENDS Ddl, Compose, DdlGrammar

CONSTANTS
  Documents,     \* the documents that are written down
  Damaged(_),    \* what may become of a document's text
  JsonTexts      \* the payload texts that serde_json accepts

\* A literal string.
Lit(x) == <<"lit", x>>

\* A source is a sequence, whatever it holds, and an identifier is no wildcard
\* (lexer.rs).
ASSUME SourcesAssumption ==
  \A document \in Documents : \A text \in {TextOf(document)} \cup Damaged(document) :
    IsList(text) /\ \A i \in DOMAIN text : text[i][1] = "ident" => text[i][2] # "*"

ASSUME WildcardAssumption == Any = Lit("*")

\* A group's name is a name.
ASSUME NamesAssumption == \A n \in 1..4 : ForkName(n) # NoGroup

VARIABLES
  written,    \* the document the source was written from
  json,       \* the topology in the file stc wrote
  warnings    \* what stc --check warns of

compilerVars == <<ddlVars, composeVars, written, json, warnings>>

Lits(q) == [i \in DOMAIN q |-> Lit(q[i])]
Each(Of(_), q) == SeqX!FlattenSeq([i \in DOMAIN q |-> Of(q[i])])

-----------------------------------------------------------------------------
(* codegen.rs: emit                                                        *)

GuardOf(g) ==
  CASE g[1] = "none" -> NoGuard
    [] g[1] = "text" -> g
    [] g[1] = "ref" ->
         <<"text", (CHOOSE d \in {decls[k] : k \in DOMAIN decls} : d.kind = "guard" /\ d.id = g[2]).expr>>

Lowered(sg, tr, from) ==
  [signal |-> Lit(sg.id), event |-> Lit(tr.event), from |-> Lit(from), to |-> Lit(tr.to),
   guard |-> GuardOf(tr.guard), on_exit |-> Lits(tr.on_exit),
   on_transition |-> Lits(tr.on_transition), on_enter |-> Lits(tr.on_enter)]

\* emit_transition: `from *` becomes one transition for each state.
Arms(sg, tr) ==
  IF tr.from = "*" THEN [i \in DOMAIN sg.states |-> Lowered(sg, tr, sg.states[i])]
  ELSE <<Lowered(sg, tr, tr.from)>>

\* Mutant: what `from *` becomes comes after the transitions that name a state.
ArmsOfSignalWildcardsLast(sg) ==
  LET wild == {k \in DOMAIN sg.parts : sg.parts[k].from = "*"}
  IN  Each(LAMBDA tr : Arms(sg, tr), AtPlaces(sg.parts, DOMAIN sg.parts \ wild) \o AtPlaces(sg.parts, wild))

ArmsOfSignal(sg) == Each(LAMBDA tr : Arms(sg, tr), sg.parts)

\* emit_signals
EmitSignals(ds) ==
  LET signals == OfKind("signal", ds)
  IN  [signals |-> [i \in DOMAIN signals |->
                      [id |-> Lit(signals[i].id), initial |-> Lit(signals[i].initial),
                       states |-> {Lit(signals[i].states[j]) : j \in DOMAIN signals[i].states}]],
       transitions |-> Each(ArmsOfSignal, signals)]

\* emit_reaction, for a reaction of the group that waits for the required ones.
EmitReaction(r, group, requires) ==
  [fromSignal |-> Lit(r.fromSignal), fromState |-> Lit(r.fromState),
   toSignal |-> Lit(r.toSignal), event |-> Lit(r.event), payload |-> r.payload,
   guard |-> GuardOf(r.guard), group |-> group, requires |-> requires,
   onFail |-> IF r.onFail[1] = "hook" THEN Lit(r.onFail[2]) ELSE NoHook]

\* The reactions that declaration decls[k] stands for.
EmitReactions(k) ==
  LET d == decls[k]
      Of(group, requires) == [i \in DOMAIN d.parts |-> EmitReaction(d.parts[i], group, requires)]
  IN  CASE d.kind = "reaction" -> <<EmitReaction(d, NoGroup, {})>>
        [] d.kind = "fork" -> Of(GroupOf(k), {})
        [] d.kind = "join" -> Of(NoGroup, {d.group})
        [] OTHER -> <<>>

EmitPort(p) ==
  [signal |-> Lit(p.signal), state |-> Lit(p.state),
   alias |-> IF p.alias[1] = "alias" THEN Lit(p.alias[2]) ELSE NoAlias]

EmitComponent(c) ==
  LET ports == OfKind("port", c.parts)
      reactions == OfKind("reaction", c.parts)
      body == EmitSignals(c.parts)
  IN  [params |-> {c.params[i] : i \in DOMAIN c.params},
       ports |-> [i \in DOMAIN ports |-> EmitPort(ports[i])],
       signals |-> body.signals, transitions |-> body.transitions,
       reactions |-> [i \in DOMAIN reactions |-> EmitReaction(reactions[i], NoGroup, {})]]

EmitInstance(d) ==
  [component |-> d.component,
   bindings |-> [p \in DOMAIN d.bindings |-> Lit(d.bindings[p])],
   connections |-> [i \in DOMAIN d.connections |->
      [port |-> Lit(d.connections[i][1]), target |-> Lit(d.connections[i][2])]]]

Schema ==
  LET body == EmitSignals(decls)
      components == {decls[k] : k \in PlacesOf({"component"}, decls)}
      instances == OfKind("instantiate", decls)
  IN  [signals |-> body.signals, transitions |-> body.transitions,
       reactions |-> SeqX!FlattenSeq([k \in DOMAIN decls |-> EmitReactions(k)]),
       components |-> [n \in {c.id : c \in components} |->
                         EmitComponent(CHOOSE c \in components : c.id = n)],
       instances |-> [i \in DOMAIN instances |-> EmitInstance(instances[i])],
       includes |-> <<>>]

PayloadsFit == \A r \in ReactionsIn(decls) : r.payload[1] = "json" => r.payload[2] \in JsonTexts

-----------------------------------------------------------------------------
(* check.rs                                                                *)

SelfLoops(t) == {<<"self-loop", tr.signal, tr.to>> : tr \in {x \in Elements(t.transitions) : x.from = x.to}}

\* Mutant: only what the initial state leads to counts as reached.
ReachedFromInitial(t, sg) ==
  {sg.initial} \cup {tr.to : tr \in {x \in Elements(t.transitions) : x.signal = sg.id /\ x.from = sg.initial}}

\* The states that check_schema takes for reachable.
Reached(t, sg) ==
  {sg.initial} \cup {tr.to : tr \in {x \in Elements(t.transitions) : x.signal = sg.id /\ x.from # x.to}}

UnreachableStates(t) ==
  {<<"unreachable-state", p[1].id, p[2]>> :
     p \in UNION {{sg} \X (sg.states \ Reached(t, sg)) : sg \in Elements(t.signals)}}

\* check_ddl; it looks at the reactions of the document, not of its components.
UnusedTemplates ==
  LET used == {r.guard : r \in ReactionsIn(AtPlaces(decls, DOMAIN decls \ PlacesOf({"component"}, decls)))}
  IN  {<<"unused-guard-template", g.id>> :
         g \in {d \in Elements(OfKind("guard", decls)) : <<"ref", d.id>> \notin used}}

DuplicateGuards ==
  LET guards == Elements(OfKind("guard", decls))
      Alike(g) == {h.id : h \in {h \in guards : h.expr = g.expr}}
  IN  {<<"duplicate-guard-condition", Alike(g)>> : g \in {g \in guards : Alike(g) # {g.id}}}

-----------------------------------------------------------------------------
(* The compiler                                                            *)

CompilerInit ==
  /\ written \in Documents
  /\ src \in {TextOf(written)} \cup Damaged(written)
  /\ DdlInit
  /\ disk = [f \in Files |-> Unreadable] /\ seen = {} /\ stack = <<>>
  /\ loaded = Empty /\ flat = Empty
  /\ at = 1 /\ outcome = "loading"
  /\ json = <<>> /\ warnings = {}

Read == DdlNext /\ UNCHANGED <<composeVars, written, json, warnings>>

Emit ==
  /\ verdict = "parsed" /\ outcome = "loading" /\ PayloadsFit
  /\ LET schema == Schema
         merged == [signals |-> schema.signals, transitions |-> schema.transitions,
                    reactions |-> schema.reactions, components |-> schema.components]
     IN  /\ disk' = [disk EXCEPT ![Root] = schema]
         /\ loaded' = merged /\ flat' = merged
  /\ outcome' = "expanding"
  /\ UNCHANGED <<ddlVars, seen, stack, at, written, json, warnings>>

RefusePayload ==
  /\ verdict = "parsed" /\ outcome = "loading" /\ ~PayloadsFit
  /\ outcome' = "ParseError"
  /\ UNCHANGED <<ddlVars, disk, seen, stack, loaded, flat, at, written, json, warnings>>

Expand ==
  /\ ExpandInstance \/ RejectInstance
  /\ UNCHANGED <<ddlVars, written, json, warnings>>

Expanded ==
  /\ outcome = "expanding" /\ at > Len(Instances)
  /\ outcome' = IF IdsCollide THEN "DuplicateSignalAfterExpand" ELSE "compiled"
  /\ UNCHANGED <<ddlVars, disk, seen, stack, loaded, flat, at, written, json, warnings>>

\* stc --check: the warnings, then schema_to_value, which knows no payload.
Export ==
  /\ outcome = "compiled"
  /\ warnings' = SelfLoops(flat) \cup UnreachableStates(flat) \cup UnusedTemplates \cup DuplicateGuards
  /\ json' = [signals |-> flat.signals, transitions |-> flat.transitions,
              reactions |-> [i \in DOMAIN flat.reactions |->
                               [flat.reactions[i] EXCEPT !.payload = <<"none">>]]]
  /\ outcome' = "written"
  /\ UNCHANGED <<ddlVars, disk, seen, stack, loaded, flat, at, written>>

\* An engine is built from the file.
Load ==
  /\ outcome = "written"
  /\ outcome' = IF Valid(json) THEN "ok" ELSE "ValidationError"
  /\ UNCHANGED <<ddlVars, disk, seen, stack, loaded, flat, at, written, json, warnings>>

CompilerNext == Read \/ Emit \/ RefusePayload \/ Expand \/ Expanded \/ Export \/ Load

CompilerSpec == CompilerInit /\ [][CompilerNext]_compilerVars

-----------------------------------------------------------------------------
(* Properties                                                              *)

AsWritten == src = TextOf(written)

\* The parser accepts exactly the legal documents, and understands each as it
\* was meant: reactions one after the other in a fork, guards that end at their
\* clause, references in any order (ddl.md:23-104).  So it is for a document
\* whose every guard ends at a brace, `with` or `on_fail`.
AcceptedAsWritten ==
  AsWritten /\ Delimited(written) =>
    /\ verdict = "parsed" => LegalDocument(written) /\ Means(written, decls)
    /\ verdict = "ParseError" => ~LegalDocument(written)

\* A `when` guard does not swallow "the next reaction in `fork`/`join` blocks"
\* (parser.rs:657-661, ddl.md:104-107), nor the next `on` of a signal: what is
\* legal is understood as it was meant, whatever follows a guard.
GuardsEndWithTheirClause == AsWritten /\ verdict = "parsed" => Means(written, decls)

\* What a source is made of besides punctuation.
Significant(q) ==
  AtPlaces(q, {i \in DOMAIN q : q[i][1] \notin {",", ":", "{", "}", "[", "]", "params", "connect", "comment"}})

\* The lexemes that are no comment, and where an instance is among them.
Lexemes == AtPlaces(src, {i \in DOMAIN src : src[i][1] # "comment"})
InstancePlaces ==
  {i \in DOMAIN Lexemes : i + 4 <= Len(Lexemes) /\ Lexemes[i][1] = "instantiate"
                             /\ Lexemes[i + 3][1] = "ident" /\ Lexemes[i + 4][1] = "with"}

\* An instance with the name and the bindings that the source has at i.
WithWords(d, i) ==
  LET closing == CHOOSE j \in i..Len(Lexemes) :
                   Lexemes[j][1] = "}" /\ \A k \in i..(j - 1) : Lexemes[k][1] # "}"
  IN  [kind |-> d.kind, component |-> d.component, id |-> Lexemes[i + 3][2],
       bindings |-> [n \in 1..((closing - i - 5) \div 4) |->
                       <<Lexemes[i + 2 + 4 * n][2], Lexemes[i + 4 + 4 * n][2]>>],
       connections |-> d.connections]

\* The documents that differ from decls only in what an instance means nothing by.
Readings ==
  LET instances == PlacesOf({"instantiate"}, decls)
  IN  {[k \in DOMAIN decls |-> IF k \in instances THEN WithWords(decls[k], place[k]) ELSE decls[k]] :
         place \in [instances -> InstancePlaces]}

\* Damaged or not, every word of a source that is accepted is somewhere in the
\* declarations, in order, with two exceptions: the name of an instance, and a
\* binding of a parameter that the same instance binds again (parser.rs:931, 969).
\* Nothing else is skipped on the way to an accepted document: the source has the
\* words of a document that means what was read.
NothingIsLost ==
  verdict = "parsed" =>
    \E document \in Readings :
      Means(document, decls) /\ Significant(src) = Significant(TextOf(document))

\* The transition an engine takes is the first arm of the signal that names its
\* event and its state, or any state: lowering an arm `from *` to one transition
\* per state leaves it where it was among the others (codegen.rs:117-146), at
\* the top and in components.
FirstArm(sg, event, from) ==
  LET fitting == {k \in DOMAIN sg.parts : sg.parts[k].event = event /\ sg.parts[k].from \in {from, "*"}}
  IN  IF fitting = {} THEN {}
      ELSE {Lowered(sg, sg.parts[First(fitting)], from)}

FirstTaken(t, sg, event, from) ==
  LET matching == MatchingTransitions(t, Lit(sg.id), Lit(event), Lit(from))
  IN  IF matching = {} THEN {} ELSE {t.transitions[First(matching)]}

FollowsArms(t, ds) ==
  \A sg \in Elements(OfKind("signal", ds)) :
    \A event \in {tr.event : tr \in Elements(sg.parts)}, from \in Elements(sg.states) :
      FirstTaken(t, sg, event, from) = FirstArm(sg, event, from)

FirstArmWins ==
  /\ json # <<>> => FollowsArms(json, decls)
  /\ outcome = "expanding" => \A c \in Elements(OfKind("component", decls)) :
                                FollowsArms(flat.components[c.id], c.parts)

\* The reactions that a declaration stands for, and of each the place of its
\* declaration.
SizeOf(d) == IF d.kind = "reaction" THEN 1
             ELSE IF d.kind \in {"fork", "join"} THEN Len(d.parts) ELSE 0
BlocksOf(ds) == SeqX!FlattenSeq([k \in DOMAIN ds |-> [i \in 1..SizeOf(ds[k]) |-> k]])
JoinedBlocks(k, ds) == IF ds[k].kind = "join" THEN ForkNamed(ds[k].group, ds) ELSE {}

\* A join in the JSON requires the reactions of the fork block that it names and
\* no others, whatever blocks there are before, between and after them
\* (ddl.md:409-420).
WorkflowAsWritten ==
  LET block == BlocksOf(decls)
      Joined(k) == JoinedBlocks(k, decls)
  IN  json # <<>> =>
        /\ Len(block) <= Len(json.reactions)
        /\ \A i, j \in DOMAIN block :
             /\ (json.reactions[j].group \in json.reactions[i].requires) <=> block[j] \in Joined(block[i])
             /\ json.reactions[i].group = NoGroup <=> decls[block[i]].kind # "fork"
        /\ \A i \in DOMAIN block : json.reactions[i].requires = {} <=> Joined(block[i]) = {}

\* What the compiler writes fails validation only for a reaction of a signal that
\* is not declared: what the parser checked holds after lowering, instances and
\* wires (the parser checks no signal of a reaction).
OnlyReactionsFailValidation == outcome = "ValidationError" => ~ReactionsOk(json)

\* The states that a signal can be in: the least set with the initial state that
\* has, with a state, what a transition leads to from it.
ClosedUnderTransitions(t, sg, S) ==
  /\ sg.initial \in S
  /\ \A tr \in Elements(t.transitions) : tr.signal = sg.id /\ tr.from \in S => tr.to \in S
Occupied(t, sg) ==
  {x \in sg.states : \A S \in SUBSET sg.states : ClosedUnderTransitions(t, sg, S) => x \in S}

\* "Such a state is dead -- the engine can never occupy it" (check.rs:49): no
\* sequence of transitions leads from the initial state to one that is warned of.
DeadStatesAreNeverEntered ==
  \A sg \in IF json = <<>> THEN {} ELSE Elements(json.signals) :
    \A x \in Occupied(json, sg) : <<"unreachable-state", sg.id, x>> \notin warnings

=============================================================================
