----------------------------- MODULE DdlGrammar -----------------------------
(***************************************************************************)
(* The DDL as doc/ddl.md describes it, from the side of who writes it: how *)
(* a document is written down, what it means, and which documents are      *)
(* legal.  A document is a sequence of declarations as in Ddl.tla, but for *)
(* an instance, which has a name (id) and its bindings as a list of pairs. *)
(* It says nothing of how the parser works.                                *)
(***************************************************************************)
EXTENDS Sequences, Naturals, FiniteSets

LOCAL SeqX == INSTANCE SequencesExt

Word(w) == <<<<w>>>>
Name(x) == <<<<"ident", x>>>>

\* The texts of a list, with commas between them.
Enumerated(texts) ==
  SeqX!FlattenSeq([i \in DOMAIN texts |-> (IF i = 1 THEN <<>> ELSE Word(",")) \o texts[i]])
NameList(names) == Enumerated([i \in DOMAIN names |-> Name(names[i])])
PairList(pairs) ==
  Enumerated([i \in DOMAIN pairs |-> Name(pairs[i][1]) \o Word("->") \o Name(pairs[i][2])])

WhenClause(g) == CASE g[1] = "none" -> <<>>
                   [] g[1] = "ref" -> Word("when") \o Name(g[2])
                   [] g[1] = "text" -> Word("when") \o g[2]

HookClause(hook, ids) == IF ids = <<>> THEN <<>> ELSE Word(hook) \o Word(":") \o NameList(ids)

HookBlock(d) ==
  LET clauses == HookClause("on_exit", d.on_exit) \o HookClause("on_transition", d.on_transition)
                   \o HookClause("on_enter", d.on_enter)
  IN  IF clauses = <<>> THEN <<>> ELSE Word("{") \o clauses \o Word("}")

TransitionText(d) ==
  Word("on") \o Name(d.event) \o Word("from") \o (IF d.from = "*" THEN Word("*") ELSE Name(d.from))
    \o Word("->") \o Name(d.to) \o WhenClause(d.guard) \o HookBlock(d)

\* What the documentation calls reaction_body.
ReactionBody(d) ==
  Word("when") \o Name(d.fromSignal) \o Word("enters") \o Name(d.fromState)
    \o Word("->") \o Name(d.toSignal) \o Name(d.event) \o WhenClause(d.guard)
    \o (IF d.payload[1] = "json" THEN Word("with") \o d.payload[2] ELSE <<>>)
    \o (IF d.onFail[1] = "hook" THEN Word("on_fail") \o Word(":") \o Name(d.onFail[2]) ELSE <<>>)

PortText(d) ==
  Word("port") \o Name(d.direction) \o Name(d.signal) \o Word(".") \o Name(d.state)
    \o (IF d.alias[1] = "alias" THEN Word("as") \o Name(d.alias[2]) ELSE <<>>)

SignalText(d) ==
  Word("signal") \o Name(d.id) \o Word("{") \o Word("states") \o Word(":")
    \o Word("[") \o NameList(d.states) \o Word("]")
    \o Word("initial") \o Word(":") \o Name(d.initial)
    \o SeqX!FlattenSeq([k \in DOMAIN d.parts |-> TransitionText(d.parts[k])]) \o Word("}")

BodyText(d) == CASE d.kind = "signal" -> SignalText(d)
                 [] d.kind = "port" -> PortText(d)
                 [] d.kind = "reaction" -> Word("reaction") \o Word("{") \o ReactionBody(d) \o Word("}")

ComponentText(d) ==
  Word("component") \o Name(d.id) \o Word("{")
    \o (IF d.params = <<>> THEN <<>>
        ELSE Word("params") \o Word(":") \o Word("[") \o NameList(d.params) \o Word("]"))
    \o SeqX!FlattenSeq([k \in DOMAIN d.parts |-> BodyText(d.parts[k])]) \o Word("}")

InstantiateText(d) ==
  Word("instantiate") \o Name(d.component) \o Word("as") \o Name(d.id)
    \o Word("with") \o Word("{") \o PairList(d.bindings) \o Word("}")
    \o (IF d.connections = <<>> THEN <<>>
        ELSE Word("connect") \o Word("{") \o PairList(d.connections) \o Word("}"))

DeclarationText(d) ==
  LET Members == SeqX!FlattenSeq([k \in DOMAIN d.parts |-> ReactionBody(d.parts[k])])
  IN  CASE d.kind = "fork" -> Word("fork") \o Word("{") \o Members \o Word("}")
        [] d.kind = "join" -> Word("join") \o Name(d.group) \o Word("{") \o Members \o Word("}")
        [] d.kind = "guard" -> Word("guard") \o Name(d.id) \o Word("{") \o d.expr \o Word("}")
        [] d.kind = "component" -> ComponentText(d)
        [] d.kind = "instantiate" -> InstantiateText(d)
        [] OTHER -> BodyText(d)

\* A document as its author writes it down.
TextOf(document) == SeqX!FlattenSeq([k \in DOMAIN document |-> DeclarationText(document[k])])

-----------------------------------------------------------------------------
(* What a document means                                                   *)

\* An instance means a component, what its parameters are bound to, and wires
\* (doc/ddl.md:173); its name means nothing, nor does a binding of a parameter that
\* is bound again (the documentation does not say, the code takes the last).
InstanceMeans(d, meant) ==
  /\ DOMAIN meant = {"kind", "component", "bindings", "connections"}
  /\ \A field \in {"kind", "component", "connections"} : meant[field] = d[field]
  /\ DOMAIN meant.bindings = {d.bindings[i][1] : i \in DOMAIN d.bindings}
  /\ \A i \in DOMAIN d.bindings :
       \/ meant.bindings[d.bindings[i][1]] = d.bindings[i][2]
       \/ \E j \in DOMAIN d.bindings : i < j /\ d.bindings[i][1] = d.bindings[j][1]

\* Everything else in a document means what it says.
Means(document, meant) ==
  /\ DOMAIN meant = DOMAIN document
  /\ \A k \in DOMAIN document :
       IF document[k].kind = "instantiate" THEN InstanceMeans(document[k], meant[k])
       ELSE meant[k] = document[k]

-----------------------------------------------------------------------------
(* Legal documents                                                         *)

Kinds(kind, ds) == {k \in DOMAIN ds : ds[k].kind = kind}

UniqueIds(kind, ds) == \A j, k \in Kinds(kind, ds) : ds[j].id = ds[k].id => j = k

SignalLegal(d) ==
  LET states == {d.states[k] : k \in DOMAIN d.states}
  IN  /\ d.initial \in states
      /\ \A k \in DOMAIN d.parts :
           d.parts[k].from \in states \cup {"*"} /\ d.parts[k].to \in states

\* The fork block that a join on the group waits for: "the first `fork` block is
\* `fork0`, the second `fork1`, and so on" (doc/ddl.md:411-412).
ForkNamed(group, document) ==
  {k \in Kinds("fork", document) :
     group = <<"fork0", "fork1", "fork2", "fork3">>[Cardinality(Kinds("fork", SubSeq(document, 1, k)))]}

\* A reaction's guard is declared if it is a reference.
ReferenceLegal(r, document) ==
  r.guard[1] = "ref" => \E k \in Kinds("guard", document) : document[k].id = r.guard[2]

PartsLegal(ds, document) ==
  \A k \in DOMAIN ds : /\ ds[k].kind = "signal" => SignalLegal(ds[k])
                       /\ ds[k].kind = "reaction" => ReferenceLegal(ds[k], document)

LegalDocument(document) ==
  /\ \A kind \in {"signal", "guard", "component"} : UniqueIds(kind, document)
  /\ PartsLegal(document, document)
  /\ \A k \in Kinds("component", document) :
       UniqueIds("signal", document[k].parts) /\ PartsLegal(document[k].parts, document)
  /\ \A k \in Kinds("fork", document) : PartsLegal(document[k].parts, document)
  /\ \A k \in Kinds("join", document) :
       PartsLegal(document[k].parts, document) /\ ForkNamed(document[k].group, document) # {}

\* Every guard is followed by something that ends it in the parser's eyes: it
\* is the last in its block, or actions, a payload or a hook come after it.
Delimited(document) ==
  \A k \in DOMAIN document :
    document[k].kind \in {"signal", "fork", "join", "component"} =>
      LET parts == document[k].parts
          Open(p) == p.guard[1] # "none" /\
                     IF p.kind = "transition" THEN HookBlock(p) = <<>>
                     ELSE p.payload[1] = "none" /\ p.onFail[1] = "none"
          Ends(ps) == \A j \in 1..(Len(ps) - 1) : ps[j].kind \in {"transition", "reaction"} => ~Open(ps[j])
      IN  IF document[k].kind # "component" THEN Ends(parts)
          ELSE \A j \in Kinds("signal", parts) : Ends(parts[j].parts)
=============================================================================
