--------------------------------- MODULE Ddl ---------------------------------
(***************************************************************************)
(* The parser of the DDL (ddl/parser.rs): from a source to its             *)
(* declarations.                                                           *)
(*                                                                         *)
(* A source is a sequence of lexemes, <<kind>> or <<kind, text>>; the      *)
(* tokens are the places of those that are no comment.  A declaration is a *)
(* record with a field kind; signal, fork, join and component have `parts`,*)
(* the declarations inside them.  The recursive descent is a stack of the  *)
(* blocks that are open; a step reads one declaration, or a block's head,  *)
(* or its end.  The parser's lists of signals, reactions, guards,          *)
(* components and instances are the parts of `decls` of a kind.            *)
(***************************************************************************)
EXTENDS Integers, Sequences, FiniteSets

VARIABLES
  src,      \* the source
  tokens,   \* the places in src of the tokens read by the lexer
  pos,      \* the next token
  blocks,   \* the declarations that are open, outermost first
  decls,    \* the declarations read, in source order
  verdict   \* "lexing", "parsing", "parsed" or "ParseError"

ddlVars == <<src, tokens, pos, blocks, decls, verdict>>

\* The entries of q at the places in S, in order.
AtPlaces(q, S) ==
  LET upTo[n \in 0..Len(q)] ==
        IF n = 0 THEN <<>>
        ELSE IF n \in S THEN Append(upTo[n - 1], q[n]) ELSE upTo[n - 1]
  IN  upTo[Len(q)]

\* What no token begins with; words and symbols have their own kinds.
Unknown == "unknown"
Hooks == {"on_exit", "on_transition", "on_enter"}

Kind(i) == IF i \in DOMAIN tokens THEN src[tokens[i]][1] ELSE "eof"
Text(i) == IF Kind(i) = "ident" THEN src[tokens[i]][2] ELSE ""
Reads(i, kinds) == \A k \in DOMAIN kinds : Kind(i + k - 1) = kinds[k]

\* The text from token i to token j, as it is in the source.
Verbatim(i, j) == IF i <= j THEN SubSeq(src, tokens[i], tokens[j]) ELSE <<>>

\* The first token from i on of one of the kinds, or the end.
NextOf(i, kinds) ==
  CHOOSE j \in i..(Len(tokens) + 1) :
    /\ Kind(j) \in kinds \cup {"eof"}
    /\ \A k \in i..(j - 1) : Kind(k) \notin kinds

Context == IF blocks = <<>> THEN "document" ELSE blocks[Len(blocks)].kind

Siblings == IF blocks = <<>> THEN decls ELSE blocks[Len(blocks)].parts

\* The name is not that of another declaration of the kind here.
IsNew(kind, id) == \A k \in DOMAIN Siblings : Siblings[k].kind = kind => Siblings[k].id # id

-----------------------------------------------------------------------------
(* Lists, guards and bodies: where they end, whether they are in order     *)

\* The list that opens at i, with entries of the given kinds, in order up to
\* its closing token; a comma may follow the last entry.
ListEnd(i, closing) == NextOf(i + 1, {closing})
ListFits(i, entry, closing) ==
  LET e == ListEnd(i, closing)
      cycle == Append(entry, ",")
  IN  /\ Kind(e) = closing
      /\ \A j \in (i + 1)..(e - 1) : Kind(j) = cycle[((j - i - 1) % Len(cycle)) + 1]
      /\ (e - i) % Len(cycle) \in {0, 1}

\* The texts of the entries, at the given place in each of them.
ListTexts(i, entry, closing, at) ==
  LET n == Len(entry) + 1
  IN  [k \in 1..((ListEnd(i, closing) - i) \div n) |-> Text(i + (k - 1) * n + at)]

Names(i) == ListTexts(i, <<"ident">>, "]", 1)
NamesFit(i) == Kind(i) = "[" /\ ListFits(i, <<"ident">>, "]")

Pair == <<"ident", "->", "ident">>
PairsFit(i) == Kind(i) = "{" /\ ListFits(i, Pair, "}")
Pairs(i) == LET left == ListTexts(i, Pair, "}", 1)
                right == ListTexts(i, Pair, "}", 3)
            IN  [k \in DOMAIN left |-> <<left[k], right[k]>>]

\* parse_binding_map inserts the pairs one by one into a map: what a key had
\* before is gone.
Inserted(pairs) ==
  LET Last(key) == CHOOSE i \in DOMAIN pairs :
        /\ pairs[i][1] = key
        /\ \A j \in DOMAIN pairs : pairs[j][1] = key => j <= i
  IN  [key \in {pairs[i][1] : i \in DOMAIN pairs} |-> pairs[Last(key)][2]]

\* What ends a guard, wherever it is.
Terminators == {"{", "}", "with", "on_fail"}

\* A guard that begins with the `when` at i, if there is one.
GuardFits(i) == Kind(i) = "when" => Kind(i + 1) \notin Terminators \cup {"eof"}
GuardEnd(i) == IF Kind(i) = "when" THEN NextOf(i + 1, Terminators) ELSE i

\* parse_guard: none, or its text.
GuardText(i) == IF Kind(i) # "when" THEN <<"none">>
                ELSE <<"text", Verbatim(i + 1, GuardEnd(i) - 1)>>

\* parse_guard_spec: a single name refers to a guard declaration.
GuardSpec(i) ==
  IF Kind(i) = "when" /\ GuardEnd(i) = i + 2 /\ Kind(i + 1) = "ident"
  THEN <<"ref", Text(i + 1)>> ELSE GuardText(i)

\* The brace that closes the one at i.
BlockEnd(i) ==
  LET Depth(j) == Cardinality({k \in i..j : Kind(k) = "{"})
                    - Cardinality({k \in i..j : Kind(k) = "}"})
  IN  CHOOSE j \in i..(Len(tokens) + 1) :
        /\ j <= Len(tokens) => Depth(j) = 0
        /\ \A k \in i..(j - 1) : Depth(k) > 0
RawBlockFits(i) == Kind(i) = "{" /\ BlockEnd(i) <= Len(tokens)

\* parse_lifecycle_actions: phases with their action ids, each phase once.
HookPairs ==
  {<<"ident", ",">>, <<",", "ident">>, <<":", "ident">>, <<"{", "}">>, <<"ident", "}">>}
    \cup {<<h, ":">> : h \in Hooks} \cup {<<k, h>> : k \in {"{", "ident"}, h \in Hooks}
HooksEnd(i) == IF Kind(i) = "{" THEN NextOf(i + 1, {"}"}) + 1 ELSE i
HooksFit(i) ==
  Kind(i) = "{" =>
    LET e == NextOf(i + 1, {"}"})
    IN  /\ \A j \in i..(e - 1) : <<Kind(j), Kind(j + 1)>> \in HookPairs
        /\ \A j, k \in i..e : Kind(j) = Kind(k) /\ Kind(j) \in Hooks => j = k
\* Mutant: of the ids after a phase only the first is kept.
ActionsOfFirst(i, hook) ==
  LET places == {j \in i..HooksEnd(i) : Kind(i) = "{" /\ Kind(j) = hook}
  IN  IF places = {} THEN <<>> ELSE <<Text((CHOOSE j \in places : TRUE) + 2)>>

ActionsOf(i, hook) ==
  LET places == {j \in i..HooksEnd(i) : Kind(i) = "{" /\ Kind(j) = hook}
  IN  IF places = {} THEN <<>>
      ELSE LET j == CHOOSE j \in places : TRUE
               e == NextOf(j + 1, Hooks \cup {"}"})
           IN  [k \in 1..((e - j) \div 2) |-> Text(j + 2 * k)]

\* Mutant: a `when` after a reaction is always its guard.
AtReactionHeadNever(i) == FALSE

\* at_reaction_head
AtReactionHead(i) == Reads(i, <<"when", "ident", "enters">>)

\* parse_reaction_body: the places where its optional clauses end.
BodyFixed == <<"when", "ident", "enters", "ident", "->", "ident", "ident">>
BodyGuarded(i) == Kind(i + 7) = "when" /\ ~AtReactionHead(i + 7)
BodyGuardEnd(i) == IF BodyGuarded(i) THEN GuardEnd(i + 7) ELSE i + 7
BodyPayloadEnd(i) ==
  LET g == BodyGuardEnd(i)
  IN  CASE Kind(g) = "with" -> BlockEnd(g + 1) + 1
        [] Kind(g) = "{" -> g + 2
        [] OTHER -> g
BodyEnd(i) ==
  LET p == BodyPayloadEnd(i) IN IF Kind(p) = "on_fail" THEN p + 3 ELSE p

BodyFits(i) ==
  /\ Reads(i, BodyFixed)
  /\ BodyGuarded(i) => GuardFits(i + 7)
  /\ LET g == BodyGuardEnd(i)
     IN  /\ Kind(g) = "with" => RawBlockFits(g + 1)
         /\ Kind(g) = "{" => Kind(g + 1) = "}"
  /\ LET p == BodyPayloadEnd(i)
     IN  Kind(p) = "on_fail" => Reads(p, <<"on_fail", ":", "ident">>)

Body(i) ==
  LET g == BodyGuardEnd(i)
      p == BodyPayloadEnd(i)
  IN  [kind |-> "reaction", fromSignal |-> Text(i + 1), fromState |-> Text(i + 3),
       toSignal |-> Text(i + 5), event |-> Text(i + 6),
       guard |-> IF BodyGuarded(i) THEN GuardSpec(i + 7) ELSE <<"none">>,
       payload |-> IF Kind(g) = "with" THEN <<"json", Verbatim(g + 1, p - 1)>> ELSE <<"none">>,
       onFail |-> IF Kind(p) = "on_fail" THEN <<"hook", Text(p + 2)>> ELSE <<"none">>]

-----------------------------------------------------------------------------
(* Steps.  What fits and where it ends are operators, so that        *)
(* RefuseSource is what is left when nothing fits.                         *)

DdlInit ==
  /\ tokens = <<>> /\ pos = 1
  /\ blocks = <<>> /\ decls = <<>>
  /\ verdict = "lexing"

\* tokenize: comments are skipped; what no token begins with is an error.
Tokenize ==
  /\ verdict = "lexing"
  /\ tokens' = AtPlaces([i \in DOMAIN src |-> i], {i \in DOMAIN src : src[i][1] # "comment"})
  /\ verdict' = IF \E i \in DOMAIN src : src[i][1] = Unknown THEN "ParseError" ELSE "parsing"
  /\ UNCHANGED <<src, pos, blocks, decls>>

\* Declaration d, which ends before token `end`, belongs to the open block.
Complete(d, open, end) ==
  /\ IF open = <<>>
     THEN decls' = Append(decls, d) /\ blocks' = open
     ELSE /\ blocks' = [open EXCEPT ![Len(open)].parts = Append(@, d)]
          /\ UNCHANGED decls
  /\ pos' = end
  /\ UNCHANGED <<src, tokens, verdict>>

\* The head of block d ends before token `end`.
Enter(d, end) ==
  /\ blocks' = Append(blocks, d)
  /\ pos' = end
  /\ UNCHANGED <<src, tokens, decls, verdict>>

\* parse_signal up to its transitions.
SignalFixed == <<"signal", "ident", "{", "states", ":">>
InitialAt == ListEnd(pos + 5, "]") + 1
SignalFits ==
  /\ Context \in {"document", "component"}
  /\ Reads(pos, SignalFixed) /\ IsNew("signal", Text(pos + 1))
  /\ NamesFit(pos + 5)
  /\ Reads(InitialAt, <<"initial", ":", "ident">>)
  /\ \E k \in DOMAIN Names(pos + 5) : Names(pos + 5)[k] = Text(InitialAt + 2)

ReadSignal ==
  /\ verdict = "parsing" /\ SignalFits
  /\ Enter([kind |-> "signal", id |-> Text(pos + 1), states |-> Names(pos + 5),
            initial |-> Text(InitialAt + 2), parts |-> <<>>], InitialAt + 3)

\* Mutant: the target state is not looked up.
DeclaredFromOnly(from, to, states) == from \in states \cup {"*"}

\* The states of a transition are among those of its signal.
Declared(from, to, states) == from \in states \cup {"*"} /\ to \in states

\* parse_transition
SourceState == IF Kind(pos + 3) = "*" THEN "*" ELSE Text(pos + 3)
TransitionFits ==
  /\ Context = "signal"
  /\ Reads(pos, <<"on", "ident", "from">>) /\ Kind(pos + 3) \in {"ident", "*"}
  /\ Reads(pos + 4, <<"->", "ident">>)
  /\ LET states == blocks[Len(blocks)].states
     IN  Declared(SourceState, Text(pos + 5), {states[k] : k \in DOMAIN states})
  /\ GuardFits(pos + 6)
  /\ HooksFit(GuardEnd(pos + 6))

ReadTransition ==
  /\ verdict = "parsing" /\ TransitionFits
  /\ LET h == GuardEnd(pos + 6)
     IN  Complete([kind |-> "transition", event |-> Text(pos + 1), from |-> SourceState,
                   to |-> Text(pos + 5), guard |-> GuardText(pos + 6),
                   on_exit |-> ActionsOf(h, "on_exit"),
                   on_transition |-> ActionsOf(h, "on_transition"),
                   on_enter |-> ActionsOf(h, "on_enter")], blocks, HooksEnd(h))

\* parse_reaction_raw
ReactionFits ==
  /\ Context \in {"document", "component"}
  /\ Reads(pos, <<"reaction", "{">>) /\ BodyFits(pos + 2) /\ Kind(BodyEnd(pos + 2)) = "}"

ReadReaction ==
  /\ verdict = "parsing" /\ ReactionFits
  /\ Complete(Body(pos + 2), blocks, BodyEnd(pos + 2) + 1)

\* parse_fork_block and parse_join_block, their heads and one reaction of them.
ForkFits == Context = "document" /\ Reads(pos, <<"fork", "{">>)
OpenFork ==
  /\ verdict = "parsing" /\ ForkFits
  /\ Enter([kind |-> "fork", parts |-> <<>>], pos + 2)

JoinFits == Context = "document" /\ Reads(pos, <<"join", "ident", "{">>)
OpenJoin ==
  /\ verdict = "parsing" /\ JoinFits
  /\ Enter([kind |-> "join", group |-> Text(pos + 1), parts |-> <<>>], pos + 3)

MemberFits == Context \in {"fork", "join"} /\ BodyFits(pos)
ReadMember ==
  /\ verdict = "parsing" /\ MemberFits
  /\ Complete(Body(pos), blocks, BodyEnd(pos))

\* parse_guard_decl
GuardDeclFits ==
  /\ Context = "document"
  /\ Reads(pos, <<"guard", "ident">>) /\ IsNew("guard", Text(pos + 1))
  /\ RawBlockFits(pos + 2)
ReadGuard ==
  /\ verdict = "parsing" /\ GuardDeclFits
  /\ Complete([kind |-> "guard", id |-> Text(pos + 1),
               expr |-> SubSeq(src, tokens[pos + 2] + 1, tokens[BlockEnd(pos + 2)] - 1)],
              blocks, BlockEnd(pos + 2) + 1)

\* parse_component up to its body.
ComponentHasParams == Kind(pos + 3) = "params"
ComponentFits ==
  /\ Context = "document"
  /\ Reads(pos, <<"component", "ident", "{">>) /\ IsNew("component", Text(pos + 1))
  /\ ComponentHasParams => Kind(pos + 4) = ":" /\ NamesFit(pos + 5)
OpenComponent ==
  /\ verdict = "parsing" /\ ComponentFits
  /\ Enter([kind |-> "component", id |-> Text(pos + 1),
            params |-> IF ComponentHasParams THEN Names(pos + 5) ELSE <<>>, parts |-> <<>>],
           IF ComponentHasParams THEN ListEnd(pos + 5, "]") + 1 ELSE pos + 3)

\* parse_port; its direction has no effect.
PortFits ==
  /\ Context = "component"
  /\ Reads(pos, <<"port", "ident", "ident", ".", "ident">>)
  /\ Text(pos + 1) \in {"in", "out", "inout"}
  /\ Kind(pos + 5) = "as" => Kind(pos + 6) = "ident"
ReadPort ==
  /\ verdict = "parsing" /\ PortFits
  /\ Complete([kind |-> "port", direction |-> Text(pos + 1), signal |-> Text(pos + 2),
               state |-> Text(pos + 4),
               alias |-> IF Kind(pos + 5) = "as" THEN <<"alias", Text(pos + 6)>> ELSE <<"none">>],
              blocks, IF Kind(pos + 5) = "as" THEN pos + 7 ELSE pos + 5)

\* parse_instantiate; the name after `as` is read and dropped.
ConnectAt == ListEnd(pos + 5, "}") + 1
InstantiateFits ==
  /\ Context = "document"
  /\ Reads(pos, <<"instantiate", "ident", "as", "ident", "with">>) /\ PairsFit(pos + 5)
  /\ Kind(ConnectAt) = "connect" => PairsFit(ConnectAt + 1)
ReadInstantiate ==
  /\ verdict = "parsing" /\ InstantiateFits
  /\ LET connects == Kind(ConnectAt) = "connect"
     IN  Complete([kind |-> "instantiate", component |-> Text(pos + 1),
                   bindings |-> Inserted(Pairs(pos + 5)),
                   connections |-> IF connects THEN Pairs(ConnectAt + 1) ELSE <<>>],
                  blocks, IF connects THEN ListEnd(ConnectAt + 1, "}") + 1 ELSE ConnectAt)

BlockEnds == blocks # <<>> /\ Kind(pos) = "}"
CloseBlock ==
  /\ verdict = "parsing" /\ BlockEnds
  /\ Complete(blocks[Len(blocks)], SubSeq(blocks, 1, Len(blocks) - 1), pos + 1)

PlacesOf(kinds, ds) == {k \in DOMAIN ds : ds[k].kind \in kinds}
OfKind(kind, ds) == AtPlaces(ds, PlacesOf({kind}, ds))

ForkName(n) == <<"fork0", "fork1", "fork2", "fork3">>[n]

\* Mutant: the counter counts join blocks too.
GroupOfAllBlocks(k) == ForkName(Cardinality(PlacesOf({"fork", "join"}, SubSeq(decls, 1, k))))

\* The name given to the fork block decls[k]: fork0, fork1, ... in source order.
GroupOf(k) == ForkName(Cardinality(PlacesOf({"fork"}, SubSeq(decls, 1, k))))

\* Every join names a fork of the document, before or after it.
JoinsFit ==
  LET groups == {GroupOf(k) : k \in PlacesOf({"fork"}, decls)}
  IN  \A k \in PlacesOf({"join"}, decls) : decls[k].group \in groups

\* The reactions of a list of declarations, wherever they are in it.
ReactionsIn(ds) ==
  UNION {CASE ds[k].kind = "reaction" -> {ds[k]}
           [] ds[k].kind \in {"fork", "join", "component"} ->
                {p \in {ds[k].parts[j] : j \in DOMAIN ds[k].parts} : p.kind = "reaction"}
           [] OTHER -> {} : k \in DOMAIN ds}

\* Every reference to a guard has its declaration, before or after it.
GuardReferencesFit ==
  LET declared == {decls[k].id : k \in PlacesOf({"guard"}, decls)}
  IN  \A r \in ReactionsIn(decls) : r.guard[1] = "ref" => r.guard[2] \in declared

AtEnd == blocks = <<>> /\ Kind(pos) = "eof"

\* parse_doc after its loop.
Finish ==
  /\ verdict = "parsing" /\ AtEnd
  /\ verdict' = IF JoinsFit /\ GuardReferencesFit THEN "parsed" ELSE "ParseError"
  /\ UNCHANGED <<src, tokens, pos, blocks, decls>>

\* Nothing that may come here does.
RefuseSource ==
  /\ verdict = "parsing"
  /\ ~(\/ SignalFits \/ TransitionFits \/ ReactionFits \/ ForkFits \/ JoinFits \/ MemberFits
       \/ GuardDeclFits \/ ComponentFits \/ PortFits \/ InstantiateFits \/ BlockEnds \/ AtEnd)
  /\ verdict' = "ParseError"
  /\ UNCHANGED <<src, tokens, pos, blocks, decls>>

DdlNext ==
  \/ Tokenize
  \/ ReadSignal \/ ReadTransition \/ ReadReaction \/ ReadMember \/ ReadGuard
  \/ OpenFork \/ OpenJoin \/ OpenComponent \/ CloseBlock
  \/ ReadPort \/ ReadInstantiate
  \/ Finish \/ RefuseSource
==============================================================================
