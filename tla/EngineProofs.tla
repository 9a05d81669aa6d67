---------------------------- MODULE EngineProofs ----------------------------
(***************************************************************************)
(* Proofs about Engine.tla, for any topologies, any callbacks and any      *)
(* sequence of calls.  First the engine's own state, then one call of      *)
(* send_event and the cascade it sets off: what it writes to the trace,    *)
(* what the caller may conclude from Ok or from its error, and that the    *)
(* dispatches that run inside one another are runs of Dispatch.tla.        *)
(***************************************************************************)
EXTENDS Engine, TopologyProofs, FunctionTheorems

-----------------------------------------------------------------------------
(* Stacks and traces as sequences                                          *)

\* Pushing a frame.
LEMMA Push ==
  ASSUME NEW S, NEW q \in Seq(S), NEW f \in S
  PROVE  /\ Append(q, f) \in Seq(S)
         /\ Len(Append(q, f)) = Len(q) + 1
         /\ \A i \in 1..Len(q) : Append(q, f)[i] = q[i]
         /\ Append(q, f)[Len(q) + 1] = f
BY AppendProperties

\* Popping one.
LEMMA PopTop ==
  ASSUME NEW S, NEW q \in Seq(S), q # <<>>
  PROVE  /\ Len(q) \in Nat \ {0}
         /\ q[Len(q)] \in S
         /\ SubSeq(q, 1, Len(q) - 1) \in Seq(S)
         /\ Len(SubSeq(q, 1, Len(q) - 1)) = Len(q) - 1
         /\ \A i \in 1..(Len(q) - 1) : SubSeq(q, 1, Len(q) - 1)[i] = q[i]
         /\ SubSeq(q, 1, Len(q) - 1) # <<>> <=> Len(q) # 1
<1>1. Len(q) \in Nat \ {0} /\ q \in [1..Len(q) -> S]
  BY EmptySeq, LenProperties
<1>2. /\ SubSeq(q, 1, Len(q) - 1) \in Seq(S)
      /\ Len(SubSeq(q, 1, Len(q) - 1)) = Len(q) - 1
      /\ \A i \in 1..(Len(q) - 1) : SubSeq(q, 1, Len(q) - 1)[i] = q[i]
  BY <1>1
<1> DEFINE below == SubSeq(q, 1, Len(q) - 1)
<1>3. below # <<>> => Len(below) # 0
  <2> HIDE DEF below
  <2> QED
    BY <1>2, EmptySeq DEF below
<1>4. below = <<>> => Len(below) = 0
  BY EmptySeq
<1> QED
  BY <1>1, <1>2, <1>3, <1>4

\* A trace is a sequence of entries of any kind.
IsSequence(q) == \E S : q \in Seq(S)

LEMMA AppendEntry ==
  ASSUME NEW log, IsSequence(log), NEW e
  PROVE  /\ IsSequence(Append(log, e))
         /\ Len(log) \in Nat
         /\ DOMAIN log = 1..Len(log)
         /\ DOMAIN Append(log, e) = 1..(Len(log) + 1)
         /\ Len(Append(log, e)) = Len(log) + 1
         /\ \A i \in 1..Len(log) : Append(log, e)[i] = log[i]
         /\ Append(log, e)[Len(log) + 1] = e
<1>1. PICK S : log \in Seq(S)
  BY DEF IsSequence
<1>2. log \in Seq(S \cup {e})
  BY <1>1, SeqMonotonic
<1>3. /\ Append(log, e) \in Seq(S \cup {e})
      /\ Len(Append(log, e)) = Len(log) + 1
      /\ \A i \in 1..Len(log) : Append(log, e)[i] = log[i]
      /\ Append(log, e)[Len(log) + 1] = e
  BY <1>2, Push
<1>4. Len(log) \in Nat /\ DOMAIN log = 1..Len(log)
  BY <1>1, LenProperties
<1>5. DOMAIN Append(log, e) = 1..(Len(log) + 1)
  BY <1>3, LenProperties
<1> QED
  BY <1>3, <1>4, <1>5 DEF IsSequence

\* The longer log adds entries of these kinds.
Adds(log, longer, kinds) ==
  /\ IsSequence(log) /\ IsSequence(longer)
  /\ Len(log) \in Nat /\ Len(longer) \in Nat
  /\ Len(log) <= Len(longer)
  /\ \A i \in 1..Len(log) : longer[i] = log[i]
  /\ \A i \in (Len(log) + 1)..Len(longer) : longer[i].kind \in kinds

LEMMA AddsNothing ==
  ASSUME NEW log, IsSequence(log), NEW kinds
  PROVE  Adds(log, log, kinds)
BY LenProperties DEF IsSequence, Adds

LEMMA AddsEntry ==
  ASSUME NEW log, IsSequence(log), NEW e, NEW kinds, e.kind \in kinds
  PROVE  Adds(log, Append(log, e), kinds)
<1>1. /\ IsSequence(Append(log, e))
      /\ Len(log) \in Nat
      /\ Len(Append(log, e)) = Len(log) + 1
      /\ \A i \in 1..Len(log) : Append(log, e)[i] = log[i]
      /\ Append(log, e)[Len(log) + 1] = e
  BY AppendEntry
<1>2. \A i \in (Len(log) + 1)..(Len(log) + 1) : i = Len(log) + 1
  BY <1>1
<1> QED
  BY <1>1, <1>2 DEF Adds

LEMMA AddsTransitive ==
  ASSUME NEW x, NEW y, NEW z, NEW K, NEW L, Adds(x, y, K), Adds(y, z, L)
  PROVE  Adds(x, z, K \cup L)
<1>1. ASSUME NEW i \in 1..Len(x) PROVE z[i] = x[i]
  BY DEF Adds
<1>2. ASSUME NEW i \in (Len(x) + 1)..Len(z) PROVE z[i].kind \in K \cup L
  <2>1. CASE i <= Len(y)
    <3>1. i \in 1..Len(y) /\ i \in (Len(x) + 1)..Len(y)
      BY <2>1 DEF Adds
    <3> QED
      BY <3>1 DEF Adds
  <2>2. CASE ~(i <= Len(y))
    <3>1. i \in (Len(y) + 1)..Len(z)
      BY <2>2 DEF Adds
    <3> QED
      BY <3>1 DEF Adds
  <2> QED
    BY <2>1, <2>2
<1> QED
  BY <1>1, <1>2 DEF Adds

\* Several entries at once.
LEMMA AddsEntries ==
  ASSUME NEW log, IsSequence(log), NEW more, IsSequence(more), NEW kinds,
         \A i \in 1..Len(more) : more[i].kind \in kinds
  PROVE  Adds(log, log \o more, kinds)
<1>1. PICK S, T : log \in Seq(S) /\ more \in Seq(T)
  BY DEF IsSequence
<1>2. log \in Seq(S \cup T) /\ more \in Seq(S \cup T)
  BY <1>1, SeqMonotonic
<1>3. Len(log) \in Nat /\ Len(more) \in Nat
  BY <1>2, LenProperties
<1>4. /\ log \o more \in Seq(S \cup T)
      /\ Len(log \o more) = Len(log) + Len(more)
      /\ \A i \in 1..(Len(log) + Len(more)) :
           (log \o more)[i] = IF i <= Len(log) THEN log[i] ELSE more[i - Len(log)]
  BY <1>2, ConcatProperties
<1>5. ASSUME NEW i \in (Len(log) + 1)..(Len(log) + Len(more))
      PROVE  (log \o more)[i].kind \in kinds
  <2>1. i - Len(log) \in 1..Len(more) /\ ~(i <= Len(log)) /\ i \in 1..(Len(log) + Len(more))
    BY <1>3
  <2> QED
    BY <1>4, <2>1
<1> QED
  BY <1>3, <1>4, <1>5 DEF Adds, IsSequence

ActionKinds == {"ActionStarted", "ActionSucceeded", "ActionFailed"}

\* What running an action writes, and the errors it may end with.
LEMMA ActionsAdd ==
  ASSUME NEW log, IsSequence(log), NEW s, NEW a, NEW run \in ActionRuns(s, a)
  PROVE  /\ Adds(log, log \o run.log, ActionKinds)
         /\ run.error \in {"none", "ActionNotFound", "ActionExecutionError"}
<1>1. /\ ActionStarted(s, a).kind \in ActionKinds
      /\ ActionSucceeded(s, a).kind \in ActionKinds
      /\ ActionFailed(s, a).kind \in ActionKinds
  BY DEF ActionStarted, ActionSucceeded, ActionFailed, ActionKinds
<1>2. ASSUME NEW x, x.kind \in ActionKinds
      PROVE  Adds(log, log \o <<x>>, ActionKinds)
  <2>1. <<x>> \in Seq({x}) /\ Len(<<x>>) = 1 /\ \A i \in 1..1 : <<x>>[i].kind \in ActionKinds
    BY <1>2
  <2> QED
    BY <2>1, AddsEntries DEF IsSequence
<1>3. ASSUME NEW x, x.kind \in ActionKinds, NEW y, y.kind \in ActionKinds
      PROVE  Adds(log, log \o <<x, y>>, ActionKinds)
  <2>1. <<x, y>> \in Seq({x, y}) /\ Len(<<x, y>>) = 2 /\ \A i \in 1..2 : <<x, y>>[i].kind \in ActionKinds
    BY <1>3
  <2> QED
    BY <2>1, AddsEntries DEF IsSequence
<1>4. CASE run = [log |-> <<ActionStarted(s, a)>>, error |-> "ActionNotFound"]
  BY <1>1, <1>2, <1>4
<1>5. CASE run = [log |-> <<ActionStarted(s, a), ActionSucceeded(s, a)>>, error |-> "none"]
  BY <1>1, <1>3, <1>5
<1>6. CASE run = [log |-> <<ActionStarted(s, a), ActionFailed(s, a)>>,
                  error |-> "ActionExecutionError"]
  BY <1>1, <1>3, <1>6
<1> QED
  BY <1>4, <1>5, <1>6 DEF ActionRuns

LEMMA GuardAdds ==
  ASSUME IsSequence(trace)
  PROVE  Adds(trace, trace \o GuardLog, {"ReactionGuardEvaluated"})
<1>1. CASE GuardLog = <<>>
  <2>1. IsSequence(<<>>) /\ Len(<<>>) = 0 /\ \A i \in 1..0 : FALSE
    BY EmptySeq DEF IsSequence
  <2>2. \A i \in 1..Len(<<>>) : <<>>[i].kind \in {"ReactionGuardEvaluated"}
    BY <2>1
  <2>3. Adds(trace, trace \o <<>>, {"ReactionGuardEvaluated"})
    BY <2>1, <2>2, AddsEntries
  <2> QED
    BY <1>1, <2>3
<1>2. CASE GuardLog = <<GuardEvaluated(Top.signal, Top.firing, Verdict)>>
  <2> DEFINE e == GuardEvaluated(Top.signal, Top.firing, Verdict)
  <2>1. e.kind = "ReactionGuardEvaluated"
    BY DEF GuardEvaluated
  <2> HIDE DEF e
  <2>2. <<e>> \in Seq({e}) /\ Len(<<e>>) = 1 /\ <<e>>[1] = e /\ \A i \in 1..1 : i = 1
    OBVIOUS
  <2>3. GuardLog = <<e>>
    BY <1>2 DEF e
  <2> QED
    BY <2>1, <2>2, <2>3, AddsEntries DEF IsSequence
<1> QED
  BY <1>1, <1>2 DEF GuardLog

\* The longer trace adds entries that do not speak of a changed state.
QuietExtension(log, longer) ==
  /\ IsSequence(longer)
  /\ Len(longer) \in Nat
  /\ Len(log) \in Nat
  /\ Len(log) <= Len(longer)
  /\ \A i \in 1..Len(log) : longer[i] = log[i]
  /\ \A i \in (Len(log) + 1)..Len(longer) : longer[i].kind # "StateChanged"

LEMMA AddsQuietly ==
  ASSUME NEW log, NEW longer, NEW kinds, Adds(log, longer, kinds), "StateChanged" \notin kinds
  PROVE  QuietExtension(log, longer)
BY DEF Adds, QuietExtension

LEMMA QuietNothing ==
  ASSUME NEW log, IsSequence(log)
  PROVE  QuietExtension(log, log)
BY LenProperties DEF IsSequence, QuietExtension

LEMMA QuietAppend ==
  ASSUME NEW log, IsSequence(log), NEW e, e.kind # "StateChanged"
  PROVE  QuietExtension(log, Append(log, e))
<1>1. /\ IsSequence(Append(log, e))
      /\ Len(log) \in Nat
      /\ Len(Append(log, e)) = Len(log) + 1
      /\ \A i \in 1..Len(log) : Append(log, e)[i] = log[i]
      /\ Append(log, e)[Len(log) + 1] = e
  BY AppendEntry
<1>2. \A i \in (Len(log) + 1)..(Len(log) + 1) : i = Len(log) + 1
  BY <1>1
<1> QED
  BY <1>1, <1>2 DEF QuietExtension

LEMMA QuietTransitive ==
  ASSUME NEW x, NEW y, NEW z, QuietExtension(x, y), QuietExtension(y, z)
  PROVE  QuietExtension(x, z)
<1>1. ASSUME NEW i \in 1..Len(x) PROVE z[i] = x[i]
  BY DEF QuietExtension
<1>2. ASSUME NEW i \in (Len(x) + 1)..Len(z) PROVE z[i].kind # "StateChanged"
  <2>1. CASE i <= Len(y)
    <3>1. i \in 1..Len(y) /\ i \in (Len(x) + 1)..Len(y)
      BY <2>1 DEF QuietExtension
    <3> QED
      BY <3>1 DEF QuietExtension
  <2>2. CASE ~(i <= Len(y))
    <3>1. i \in (Len(y) + 1)..Len(z)
      BY <2>2 DEF QuietExtension
    <3> QED
      BY <3>1 DEF QuietExtension
  <2> QED
    BY <2>1, <2>2
<1> QED
  BY <1>1, <1>2 DEF QuietExtension

-----------------------------------------------------------------------------
(* The inductive invariant                                                 *)

\* The frames an engine of this topology can have.
Frames ==
  LET reactions == DOMAIN topo.reactions
  IN  [signal     : SignalIds(topo) \cup StrangeIds,
       event      : Events \cup {topo.reactions[r].event : r \in reactions},
       payload    : Payloads,
       phase      : {"matching", "on_exit", "on_transition", "on_enter", "dispatch"},
       transition : DOMAIN topo.transitions \cup {0},
       source     : {Any} \cup UNION {StatesOf(topo, s) : s \in SignalIds(topo)},
       next       : Nat \ {0},
       matched    : SUBSET reactions,
       sched      : [ready : Seq(reactions), waiting : SUBSET reactions,
                     done : [Groups -> Nat], complete : SUBSET Groups],
       firing     : reactions \cup {0}]

\* The reactions of a dispatch that are neither to come nor in hand have fired.
Past(f) ==
  f.matched \ (Elements(f.sched.ready) \cup f.sched.waiting \cup {f.firing})

\* The transition of a frame is one that its event may take, from the state its
\* signal was in; the books of its dispatch are right.
FrameOK(f) ==
  /\ f.phase # "matching" => f.transition \in DOMAIN topo.transitions
  /\ f.phase \in {"on_exit", "on_transition", "on_enter"} =>
       /\ f.signal \in SignalIds(topo)
       /\ TransitionOf(f).signal = f.signal
       /\ TransitionOf(f).from \in {f.source, Any}
       /\ Evaluate(TransitionOf(f).guard, f.payload) = "true"
       /\ f.source \in StatesOf(topo, f.signal)
  /\ f.phase # "dispatch" => f.firing = 0
  /\ f.phase = "dispatch" =>
       /\ BooksRight(topo.reactions, f.matched, f.sched, Past(f))
       /\ f.firing # 0 => f.firing \in f.matched \ (Elements(f.sched.ready) \cup f.sched.waiting)

\* A frame that waits for the event its reaction has sent.
Calling(f) == f.phase = "dispatch" /\ f.firing # 0

StackOK ==
  /\ stack \in Seq(Frames)
  /\ \A k \in 1..Len(stack) : FrameOK(stack[k])
  /\ \A k \in 1..(Len(stack) - 1) : Calling(stack[k])
  /\ outcome \in Errors /\ stack # <<>> => Calling(Top)

\* Before the tentative commit the signal of the top frame is where the frame
\* found it, after it where the transition leads.
CurrentOK ==
  /\ current = [s \in SignalIds(topo) |-> current[s]]
  /\ \A s \in SignalIds(topo) : current[s] \in StatesOf(topo, s)
  /\ stack # <<>> =>
       /\ Top.phase = "on_exit" => current[Top.signal] = Top.source
       /\ Tentative => current[Top.signal] = TransitionOf(Top).to

SetupOK ==
  /\ topo \in Topologies /\ Valid(topo)
  /\ registered \subseteq MentionedIds
  /\ maxDepth \in Depths \cup {DefaultDepth}
  /\ outcome \in {"idle", "running", "ok"} \cup Errors
  /\ calls \in 0..MaxCalls

\* What the log, read up to its n-th entry, says signal s is in: x.
Tells(log, start, n, s, x) ==
  LET changes == {i \in 1..n : log[i].kind = "StateChanged" /\ log[i].signal = s}
  IN  \/ changes = {} /\ x = start[s]
      \/ \E i \in changes : (\A j \in changes : j <= i) /\ x = log[i].to

\* Every entry tells what the entries before it lead up to.
LogOK(log, start) ==
  \A i \in 1..Len(log) :
    log[i].kind = "StateChanged" => Tells(log, start, i - 1, log[i].signal, log[i].from)

TraceOK ==
  /\ IsSequence(trace)
  /\ began \in 0..Len(trace)
  /\ LogOK(trace, base)
  /\ \A s \in SignalIds(topo) : Tells(trace, base, Len(trace), s, Committed[s])

IInv == SetupOK /\ StackOK /\ CurrentOK /\ TraceOK

-----------------------------------------------------------------------------
(* What the moves of the stack preserve                                    *)

\* The top frame goes on.
LEMMA TopChanges ==
  ASSUME StackOK, UNCHANGED topo, stack # <<>>,
         NEW f \in Frames, FrameOK(f), stack' = Update(f),
         outcome' \in Errors => Calling(f)
  PROVE  StackOK' /\ stack' # <<>> /\ Top' = f
<1> DEFINE n == Len(stack)
<1>1. /\ n \in Nat \ {0}
      /\ Below \in Seq(Frames)
      /\ Len(Below) = n - 1
      /\ \A i \in 1..(n - 1) : Below[i] = stack[i]
  BY PopTop DEF StackOK, Below
<1>2. /\ stack' \in Seq(Frames)
      /\ Len(stack') = n
      /\ \A i \in 1..(n - 1) : stack'[i] = stack[i]
      /\ stack'[n] = f
  <2> HIDE DEF n
  <2>1. Append(Below, f) \in Seq(Frames) /\ Len(Append(Below, f)) = (n - 1) + 1
    BY <1>1, Push
  <2>2. \A i \in 1..(n - 1) : Append(Below, f)[i] = Below[i]
    BY <1>1, Push
  <2>3. Append(Below, f)[(n - 1) + 1] = f
    BY <1>1, Push
  <2>4. (n - 1) + 1 = n
    BY <1>1
  <2> QED
    BY <1>1, <2>1, <2>2, <2>3, <2>4 DEF Update
<1> HIDE DEF n
<1>3. Frames' = Frames /\ \A g : FrameOK(g)' <=> FrameOK(g)
  BY DEF Frames, FrameOK, TransitionOf
<1>4. stack' # <<>>
  BY <1>1, <1>2, EmptySeq
<1>5. Top' = f
  BY <1>2 DEF Top
<1>6. \A k \in 1..n : FrameOK(stack'[k])
  BY <1>1, <1>2 DEF StackOK, n
<1>7. \A k \in 1..(n - 1) : Calling(stack'[k])
  BY <1>1, <1>2 DEF StackOK, n
<1> QED
  BY <1>2, <1>3, <1>4, <1>5, <1>6, <1>7 DEF StackOK, Calling

\* The top frame returns or fails; below it are frames that wait for an answer.
LEMMA TopLeaves ==
  ASSUME StackOK, UNCHANGED topo, stack # <<>>, stack' = Below
  PROVE  StackOK' /\ (stack' # <<>> => Calling(Top'))
<1> DEFINE n == Len(stack)
<1>1. /\ n \in Nat \ {0}
      /\ stack' \in Seq(Frames)
      /\ Len(stack') = n - 1
      /\ \A i \in 1..(n - 1) : stack'[i] = stack[i]
      /\ stack' # <<>> <=> n # 1
  BY PopTop DEF StackOK, Below
<1> HIDE DEF n
<1>2. Frames' = Frames /\ \A g : FrameOK(g)' <=> FrameOK(g)
  BY DEF Frames, FrameOK, TransitionOf
<1>3. \A k \in 1..(n - 1) : FrameOK(stack'[k]) /\ Calling(stack'[k])
  BY <1>1 DEF StackOK, n
<1>4. stack' # <<>> => Calling(Top')
  BY <1>1, <1>3 DEF Top
<1> QED
  BY <1>1, <1>2, <1>3, <1>4 DEF StackOK, Calling

\* An event is begun, by the caller or by the reaction in hand.
LEMMA FrameEnters ==
  ASSUME StackOK, UNCHANGED topo, stack # <<>> => Calling(Top), outcome' \notin Errors,
         NEW f \in Frames, FrameOK(f), stack' = Append(stack, f)
  PROVE  StackOK' /\ stack' # <<>> /\ Top' = f
<1> DEFINE n == Len(stack)
<1>1. n \in Nat
  BY LenProperties DEF StackOK
<1>2. /\ stack' \in Seq(Frames)
      /\ Len(stack') = n + 1
      /\ \A i \in 1..n : stack'[i] = stack[i]
      /\ stack'[n + 1] = f
  BY Push DEF StackOK
<1>3. n # 0 => stack # <<>>
  BY EmptySeq
<1> HIDE DEF n
<1>4. Frames' = Frames /\ \A g : FrameOK(g)' <=> FrameOK(g)
  BY DEF Frames, FrameOK, TransitionOf
<1>5. stack' # <<>> /\ Top' = f
  BY <1>1, <1>2, EmptySeq DEF Top
<1>6. \A k \in 1..(n + 1) : FrameOK(stack'[k])
  BY <1>1, <1>2 DEF StackOK, n
<1>7. \A k \in 1..n : Calling(stack'[k])
  BY <1>1, <1>2, <1>3 DEF StackOK, Top, n
<1> QED
  BY <1>1, <1>2, <1>4, <1>5, <1>6, <1>7 DEF StackOK, Calling

\* The top frame returns to the frame below it, which goes on as f.
LEMMA TopReturns ==
  ASSUME StackOK, UNCHANGED topo, stack # <<>>, Below # <<>>, outcome' \notin Errors,
         NEW f \in Frames, FrameOK(f), stack' = [Below EXCEPT ![Len(Below)] = f]
  PROVE  StackOK' /\ stack' # <<>> /\ Top' = f
<1> DEFINE n == Len(Below)
<1>1. /\ n \in Nat \ {0}
      /\ Len(stack) = n + 1
      /\ Below \in Seq(Frames)
      /\ \A i \in 1..n : Below[i] = stack[i]
  BY PopTop DEF StackOK, Below
<1>2. /\ stack' \in Seq(Frames)
      /\ Len(stack') = n
      /\ \A i \in 1..n : stack'[i] = IF i = n THEN f ELSE Below[i]
  BY <1>1, ExceptSeq
<1> HIDE DEF n
<1>3. Frames' = Frames /\ \A g : FrameOK(g)' <=> FrameOK(g)
  BY DEF Frames, FrameOK, TransitionOf
<1>4. stack' # <<>> /\ Top' = f
  BY <1>1, <1>2, EmptySeq DEF Top
<1>5. \A k \in 1..n : FrameOK(stack'[k])
  BY <1>1, <1>2 DEF StackOK
<1>6. \A k \in 1..(n - 1) : Calling(stack'[k])
  BY <1>1, <1>2 DEF StackOK
<1> QED
  BY <1>1, <1>2, <1>3, <1>4, <1>5, <1>6 DEF StackOK, Calling

\* Frames that run their event's dispatch have no transition half made.
LEMMA NothingTentative ==
  ASSUME stack # <<>> => Top.phase \in {"matching", "on_exit", "dispatch"}
  PROVE  Committed = current
BY DEF Committed, Tentative

-----------------------------------------------------------------------------
(* What the trace tells                                                    *)

LEMMA TellsPrefix ==
  ASSUME NEW log, NEW longer, NEW start, NEW n, NEW s, NEW x,
         \A i \in 1..n : longer[i] = log[i],
         Tells(log, start, n, s, x)
  PROVE  Tells(longer, start, n, s, x)
<1> DEFINE changes == {i \in 1..n : log[i].kind = "StateChanged" /\ log[i].signal = s}
<1>1. changes = {i \in 1..n : longer[i].kind = "StateChanged" /\ longer[i].signal = s}
  OBVIOUS
<1>2. \A i \in changes : longer[i].to = log[i].to
  OBVIOUS
<1> QED
  BY <1>1, <1>2 DEF Tells

LEMMA TellsQuiet ==
  ASSUME NEW log, NEW longer, QuietExtension(log, longer), NEW start, NEW s, NEW x,
         Tells(log, start, Len(log), s, x)
  PROVE  Tells(longer, start, Len(longer), s, x)
<1> DEFINE changes == {i \in 1..Len(log) : log[i].kind = "StateChanged" /\ log[i].signal = s}
<1>1. changes = {i \in 1..Len(longer) : longer[i].kind = "StateChanged" /\ longer[i].signal = s}
  <2>1. ASSUME NEW i \in 1..Len(longer), longer[i].kind = "StateChanged"
        PROVE  i \in 1..Len(log)
    BY <2>1 DEF QuietExtension
  <2> QED
    BY <2>1 DEF QuietExtension
<1>2. \A i \in changes : longer[i].to = log[i].to
  BY DEF QuietExtension
<1> QED
  BY <1>1, <1>2 DEF Tells

LEMMA LogQuiet ==
  ASSUME NEW log, NEW longer, QuietExtension(log, longer), NEW start, LogOK(log, start)
  PROVE  LogOK(longer, start)
<1> SUFFICES ASSUME NEW i \in 1..Len(longer), longer[i].kind = "StateChanged"
             PROVE  Tells(longer, start, i - 1, longer[i].signal, longer[i].from)
  BY DEF LogOK
<1>1. /\ i \in 1..Len(log) /\ longer[i] = log[i]
      /\ \A j \in 1..(i - 1) : longer[j] = log[j]
  BY DEF QuietExtension
<1>2. Tells(log, start, i - 1, log[i].signal, log[i].from)
  BY <1>1 DEF LogOK
<1> QED
  BY <1>1, <1>2, TellsPrefix

\* A committed transition changes what the trace tells of its signal only.
LEMMA LogChange ==
  ASSUME NEW log, IsSequence(log), NEW start, LogOK(log, start),
         NEW s, NEW x, NEW y, Tells(log, start, Len(log), s, x)
  PROVE  LET longer == Append(log, StateChanged(s, x, y))
         IN  /\ LogOK(longer, start)
             /\ Tells(longer, start, Len(longer), s, y)
             /\ \A s2, z : s2 # s /\ Tells(log, start, Len(log), s2, z)
                             => Tells(longer, start, Len(longer), s2, z)
<1> DEFINE longer == Append(log, StateChanged(s, x, y))
           n == Len(log)
<1>1. /\ n \in Nat
      /\ Len(longer) = n + 1
      /\ \A i \in 1..n : longer[i] = log[i]
      /\ longer[n + 1] = StateChanged(s, x, y)
  BY AppendEntry
<1>2. /\ longer[n + 1].kind = "StateChanged"
      /\ longer[n + 1].signal = s
      /\ longer[n + 1].from = x
      /\ longer[n + 1].to = y
  BY <1>1 DEF StateChanged
<1> HIDE DEF longer
<1>3. LogOK(longer, start)
  <2> SUFFICES ASSUME NEW i \in 1..(n + 1), longer[i].kind = "StateChanged"
               PROVE  Tells(longer, start, i - 1, longer[i].signal, longer[i].from)
    BY <1>1 DEF LogOK
  <2>1. CASE i \in 1..n
    <3>1. Tells(log, start, i - 1, log[i].signal, log[i].from)
      BY <1>1, <2>1 DEF LogOK
    <3>2. longer[i] = log[i] /\ \A j \in 1..(i - 1) : longer[j] = log[j]
      BY <1>1, <2>1
    <3> QED
      BY <3>1, <3>2, TellsPrefix
  <2>2. CASE i = n + 1
    <3>1. Tells(longer, start, n, s, x)
      BY <1>1, TellsPrefix
    <3>2. i - 1 = n
      BY <1>1, <2>2
    <3> QED
      BY <1>2, <2>2, <3>1, <3>2
  <2> QED
    BY <1>1, <2>1, <2>2
<1>4. Tells(longer, start, n + 1, s, y)
  <2> DEFINE changes == {i \in 1..(n + 1) : longer[i].kind = "StateChanged" /\ longer[i].signal = s}
  <2>1. n + 1 \in changes /\ \A j \in changes : j <= n + 1
    BY <1>1, <1>2
  <2> QED
    BY <1>2, <2>1 DEF Tells
<1>5. ASSUME NEW s2, NEW z, s2 # s, Tells(log, start, n, s2, z)
      PROVE  Tells(longer, start, n + 1, s2, z)
  <2> DEFINE changes(m) == {i \in 1..m : longer[i].kind = "StateChanged" /\ longer[i].signal = s2}
  <2>1. Tells(longer, start, n, s2, z)
    BY <1>1, <1>5, TellsPrefix
  <2>2. changes(n + 1) = changes(n)
    BY <1>1, <1>2, <1>5
  <2> QED
    BY <2>1, <2>2 DEF Tells
<1> QED
  BY <1>1, <1>3, <1>4, <1>5 DEF longer

\* Steps that change no committed state and record none.
LEMMA QuietStep ==
  ASSUME TraceOK, UNCHANGED <<topo, base, began>>,
         QuietExtension(trace, trace'), Committed' = Committed
  PROVE  TraceOK'
<1>1. began' \in 0..Len(trace')
  BY DEF TraceOK, QuietExtension
<1>2. LogOK(trace', base')
  BY LogQuiet DEF TraceOK
<1>3. \A s \in SignalIds(topo') : Tells(trace', base', Len(trace'), s, Committed'[s])
  BY TellsQuiet DEF TraceOK
<1> QED
  BY <1>1, <1>2, <1>3 DEF TraceOK, QuietExtension

\* Steps that leave the states alone and no transition half made.
LEMMA CurrentKept ==
  ASSUME CurrentOK, UNCHANGED <<topo, current>>,
         stack' # <<>> => Top'.phase \in {"matching", "dispatch"}
  PROVE  CurrentOK' /\ Committed' = current
BY DEF CurrentOK, Tentative, Committed

-----------------------------------------------------------------------------
(* The caller                                                              *)

\* An engine that is new, whatever is registered with it.
LEMMA FreshEngine ==
  ASSUME topo \in {t \in Topologies : Valid(t)}, registered \subseteq MentionedIds,
         maxDepth = DefaultDepth, current = InitialStates(topo), trace = <<>>,
         base = current, began = 0, stack = <<>>, outcome = "idle", calls = 0
  PROVE  IInv
<1>1. /\ topo \in Topologies /\ Valid(topo)
      /\ stack = <<>> /\ outcome = "idle" /\ trace = <<>> /\ base = current
      /\ current = InitialStates(topo)
  OBVIOUS
<1>2. SetupOK
  BY DepthAssumption, CallsAssumption DEF SetupOK
<1>3. StackOK
  <2>1. <<>> \in Seq(Frames) /\ Len(<<>>) = 0
    BY EmptySeq
  <2> QED
    BY <1>1, <2>1 DEF StackOK
<1>4. CurrentOK
  <2>1. ASSUME NEW s \in SignalIds(topo)
        PROVE  Declaration(topo, s).initial \in StatesOf(topo, s)
    BY <1>1, <2>1, InitialIsDeclared
  <2> QED
    BY <1>1, <2>1 DEF CurrentOK, InitialStates
<1>5. TraceOK
  <2>1. /\ IsSequence(<<>>) /\ Len(<<>>) = 0
        /\ 1..0 = {}
    BY EmptySeq DEF IsSequence
  <2>2. Committed = current
    BY <1>1 DEF Committed
  <2>3. \A s \in SignalIds(topo) : Tells(trace, base, Len(trace), s, Committed[s])
    BY <1>1, <2>1, <2>2 DEF Tells
  <2>4. LogOK(trace, base)
    BY <1>1, <2>1 DEF LogOK
  <2> QED
    BY <1>1, <2>1, <2>3, <2>4 DEF TraceOK
<1> QED
  BY <1>2, <1>3, <1>4, <1>5 DEF IInv

LEMMA InitEstablishes == Init => IInv
BY FreshEngine DEF Init

\* Between events the caller may bind actions, set the depth and clear the trace.
LEMMA BetweenEvents ==
  ASSUME IInv,
         \/ \E a \in MentionedIds : RegisterAction(a)
         \/ \E d \in Depths : SetMaxCascadeDepth(d)
         \/ ClearTraces
  PROVE  IInv' /\ UNCHANGED <<topo, Committed>>
<1>1. /\ stack = <<>> /\ stack' = stack
      /\ UNCHANGED <<topo, current, calls>>
      /\ outcome' = "idle"
  BY DEF RegisterAction, SetMaxCascadeDepth, ClearTraces
<1>2. /\ registered' \subseteq MentionedIds
      /\ maxDepth' \in Depths \cup {DefaultDepth}
  BY DEF RegisterAction, SetMaxCascadeDepth, ClearTraces, IInv, SetupOK
<1>3. SetupOK'
  BY <1>1, <1>2 DEF IInv, SetupOK, MentionedIds
<1>4. StackOK'
  <2>1. stack \in Seq(Frames) /\ Len(stack) = 0
    BY <1>1, EmptySeq DEF IInv, StackOK
  <2>2. Frames' = Frames
    BY <1>1 DEF Frames
  <2> QED
    BY <1>1, <2>1, <2>2 DEF StackOK
<1>5. CurrentOK' /\ Committed' = current /\ Committed = current
  BY <1>1, CurrentKept DEF IInv, Committed
<1>6. TraceOK'
  <2>1. CASE UNCHANGED <<trace, base, began>>
    BY <1>1, <1>5, <2>1 DEF IInv, TraceOK
  <2>2. CASE ClearTraces
    <3>1. trace' = <<>> /\ base' = current /\ began' = 0
      BY <2>2 DEF ClearTraces
    <3>2. IsSequence(<<>>) /\ Len(<<>>) = 0 /\ 1..0 = {}
      BY EmptySeq DEF IsSequence
    <3>3. \A s : Tells(trace', base', Len(trace'), s, current[s])
      BY <3>1, <3>2 DEF Tells
    <3>4. LogOK(trace', base')
      BY <3>1, <3>2 DEF LogOK
    <3> QED
      BY <1>5, <3>1, <3>2, <3>3, <3>4 DEF TraceOK
  <2> QED
    BY <2>1, <2>2 DEF RegisterAction, SetMaxCascadeDepth
<1> QED
  BY <1>1, <1>3, <1>4, <1>5, <1>6 DEF IInv

\* A new frame looks for its transition.
LEMMA NewFrame ==
  ASSUME NEW s \in SignalIds(topo) \cup StrangeIds, NEW p \in Payloads,
         NEW e \in Events \cup {topo.reactions[r].event : r \in DOMAIN topo.reactions}
  PROVE  /\ Frame(s, e, p) \in Frames
         /\ FrameOK(Frame(s, e, p))
         /\ Frame(s, e, p).phase = "matching"
<1>1. EmptySchedule \in [ready : Seq(DOMAIN topo.reactions), waiting : SUBSET DOMAIN topo.reactions,
                         done : [Groups -> Nat], complete : SUBSET Groups]
  BY EmptySeq DEF EmptySchedule
<1>2. Frame(s, e, p) \in Frames
  BY <1>1 DEF Frame, Frames
<1> QED
  BY <1>2 DEF Frame, FrameOK

LEMMA SendEventPreserves ==
  ASSUME IInv, NEW s \in SignalIds(topo) \cup StrangeIds, NEW e \in Events,
         NEW p \in Payloads, SendEvent(s, e, p)
  PROVE  IInv' /\ UNCHANGED <<topo, Committed>>
<1> DEFINE f == Frame(s, e, p)
<1>1. /\ stack = <<>> /\ stack' = <<f>> /\ outcome' = "running"
      /\ UNCHANGED <<topo, registered, maxDepth, current, base>>
      /\ calls' = calls + 1 /\ calls < MaxCalls
      /\ began' = Len(trace)
      /\ trace' = Append(trace, EventReceived(s, e))
  BY DEF SendEvent
<1>2. f \in Frames /\ FrameOK(f) /\ f.phase = "matching"
  BY NewFrame
<1>3. SetupOK'
  BY <1>1, CallsAssumption DEF IInv, SetupOK, MentionedIds
<1>4. StackOK' /\ Top' = f
  <2> HIDE DEF f
  <2>1. stack' = Append(stack, f)
    BY <1>1
  <2> QED
    BY <1>1, <1>2, <2>1, FrameEnters DEF IInv, Errors
<1>5. CurrentOK' /\ Committed' = current /\ Committed = current
  <2> HIDE DEF f
  <2> QED
    BY <1>1, <1>2, <1>4, CurrentKept DEF IInv, Committed
<1>6. TraceOK'
  <2>1. QuietExtension(trace, trace') /\ IsSequence(trace)
    BY <1>1, QuietAppend DEF IInv, TraceOK, EventReceived
  <2>2. /\ LogOK(trace', base')
        /\ \A x \in SignalIds(topo') : Tells(trace', base', Len(trace'), x, Committed'[x])
    BY <1>1, <1>5, <2>1, LogQuiet, TellsQuiet DEF IInv, TraceOK
  <2>3. began' \in 0..Len(trace')
    BY <1>1, <2>1 DEF QuietExtension
  <2> QED
    BY <2>1, <2>2, <2>3 DEF TraceOK, QuietExtension
<1> QED
  BY <1>1, <1>3, <1>4, <1>5, <1>6 DEF IInv

-----------------------------------------------------------------------------
(* One event                                                               *)

LEMMA TopFrame ==
  ASSUME StackOK, stack # <<>>
  PROVE  Top \in Frames /\ FrameOK(Top)
<1>1. Len(stack) \in Nat \ {0} /\ stack[Len(stack)] \in Frames
  BY PopTop DEF StackOK
<1> QED
  BY <1>1 DEF Top, StackOK

LEMMA SetupKept ==
  ASSUME SetupOK, UNCHANGED setup, UNCHANGED topo,
         outcome' \in {"idle", "running", "ok"} \cup Errors
  PROVE  SetupOK'
BY DEF SetupOK, setup, MentionedIds

\* A step that takes the top frame away with nothing half made, and says nothing
\* of a changed state.
LEMMA LeaveQuietly ==
  ASSUME IInv, stack # <<>>, Top.phase \in {"matching", "on_exit", "dispatch"},
         stack' = Below, outcome' \in {"ok"} \cup Errors,
         UNCHANGED setup, UNCHANGED current, QuietExtension(trace, trace')
  PROVE  IInv' /\ UNCHANGED <<topo, Committed>>
<1>1. UNCHANGED <<topo, base, began>>
  BY DEF setup
<1>2. SetupOK'
  BY <1>1, SetupKept DEF IInv
<1>3. StackOK' /\ (stack' # <<>> => Calling(Top'))
  BY <1>1, TopLeaves DEF IInv
<1>4. CurrentOK' /\ Committed' = current
  BY <1>1, <1>3, CurrentKept DEF IInv, Calling
<1>5. Committed = current
  BY NothingTentative
<1>6. TraceOK'
  BY <1>1, <1>4, <1>5, QuietStep DEF IInv
<1> QED
  BY <1>1, <1>2, <1>3, <1>4, <1>5, <1>6 DEF IInv

LEMMA RejectPreserves == ASSUME IInv, Reject PROVE IInv' /\ UNCHANGED <<topo, Committed>>
<1>1. /\ stack # <<>> /\ Top.phase = "matching"
      /\ stack' = Below /\ outcome' \in Errors
      /\ UNCHANGED setup /\ UNCHANGED current /\ trace' = trace
  BY DEF Reject, Running, Fail, Errors
<1>2. QuietExtension(trace, trace')
  BY <1>1, QuietNothing DEF IInv, TraceOK
<1> QED
  BY <1>1, <1>2, LeaveQuietly

\* The first of the matching transitions is one of them.
LEMMA FirstMatches ==
  ASSUME topo \in Topologies, Candidates # {}
  PROVE  First(Candidates) \in Candidates
<1>1. Candidates \subseteq Nat
  BY TopologiesAssumption DEF Candidates, MatchingTransitions
<1> HIDE DEF Candidates
<1> QED
  BY <1>1, FirstExists

\* The top frame goes on in a step that touches no signal.
LEMMA TopGoesOn ==
  ASSUME IInv, stack # <<>>, NEW f \in Frames, FrameOK(f), stack' = Update(f),
         outcome' = "running",
         UNCHANGED setup, UNCHANGED current, QuietExtension(trace, trace'),
         IF f.phase \in {"on_transition", "on_enter"}
         THEN /\ Tentative /\ f.signal = Top.signal /\ f.source = Top.source
              /\ f.transition = Top.transition
         ELSE /\ ~Tentative
              /\ f.phase = "on_exit" => current[f.signal] = f.source
  PROVE  IInv' /\ UNCHANGED <<topo, Committed>>
<1>1. UNCHANGED <<topo, base, began>>
  BY DEF setup
<1>2. SetupOK'
  BY <1>1, SetupKept DEF IInv
<1>3. StackOK' /\ stack' # <<>> /\ Top' = f
  BY <1>1, TopChanges DEF IInv, Errors
<1>4. CurrentOK' /\ Committed' = Committed
  <2>1. CASE f.phase \in {"on_transition", "on_enter"}
    <3>1. Tentative' /\ Tentative
      BY <1>3, <2>1 DEF Tentative
    <3>2. Committed' = Committed
      BY <1>3, <2>1, <3>1 DEF Committed
    <3>3. TransitionOf(Top)' = TransitionOf(Top)
      BY <1>1, <1>3, <2>1 DEF TransitionOf
    <3>4. Top'.phase # "on_exit"
      BY <1>3, <2>1
    <3> QED
      BY <1>1, <1>3, <2>1, <3>1, <3>2, <3>3, <3>4 DEF IInv, CurrentOK
  <2>2. CASE f.phase \notin {"on_transition", "on_enter"}
    <3>1. ~Tentative' /\ ~Tentative
      BY <1>3, <2>2 DEF Tentative
    <3>2. Committed' = Committed
      BY <1>3, <3>1 DEF Committed
    <3> QED
      BY <1>1, <1>3, <2>2, <3>1, <3>2 DEF IInv, CurrentOK
  <2> QED
    BY <2>1, <2>2
<1>5. TraceOK'
  BY <1>1, <1>4, QuietStep DEF IInv
<1> QED
  BY <1>1, <1>2, <1>3, <1>4, <1>5 DEF IInv

LEMMA MatchPreserves == ASSUME IInv, Match PROVE IInv' /\ UNCHANGED <<topo, Committed>>
<1> DEFINE i == First(Candidates)
           f == [Top EXCEPT !.phase = "on_exit", !.transition = i, !.source = current[Top.signal]]
<1>1. /\ stack # <<>> /\ Top.phase = "matching" /\ outcome = "running"
      /\ Top.signal \in SignalIds(topo) /\ Candidates # {}
      /\ Evaluate(topo.transitions[i].guard, Top.payload) = "true"
      /\ stack' = Update(f)
      /\ UNCHANGED setup /\ UNCHANGED current /\ trace' = trace /\ outcome' = outcome
  BY DEF Match, Running
<1>2. Top \in Frames /\ FrameOK(Top)
  BY <1>1, TopFrame DEF IInv
<1>3. i \in Candidates
  <2>1. topo \in Topologies
    BY DEF IInv, SetupOK
  <2> QED
    BY <1>1, <2>1, FirstMatches
<1> HIDE DEF i
<1>4. /\ i \in DOMAIN topo.transitions
      /\ topo.transitions[i].signal = Top.signal
      /\ topo.transitions[i].from \in {current[Top.signal], Any}
  BY <1>3 DEF Candidates, MatchingTransitions, Matches
<1>5. current[Top.signal] \in StatesOf(topo, Top.signal)
  <2>1. \A s \in SignalIds(topo) : current[s] \in StatesOf(topo, s)
    BY DEF IInv, CurrentOK
  <2> QED
    BY <1>1, <2>1
<1>6. f \in Frames
  <2>1. PICK x : x = current[Top.signal]
    OBVIOUS
  <2>2. x \in {Any} \cup UNION {StatesOf(topo, s) : s \in SignalIds(topo)}
    BY <1>1, <1>5, <2>1
  <2>3. f = [Top EXCEPT !.phase = "on_exit", !.transition = i, !.source = x]
    BY <2>1
  <2> HIDE DEF f
  <2> QED
    BY <1>2, <1>4, <2>2, <2>3 DEF Frames
<1>7. /\ f.phase = "on_exit" /\ f.transition = i /\ f.source = current[Top.signal]
      /\ f.signal = Top.signal /\ f.payload = Top.payload /\ f.firing = Top.firing
  BY <1>2 DEF Frames
<1> HIDE DEF f
<1>8. FrameOK(f)
  BY <1>1, <1>2, <1>4, <1>5, <1>7 DEF FrameOK, TransitionOf
<1>9. ~Tentative
  BY <1>1 DEF Tentative
<1>10. QuietExtension(trace, trace')
  BY <1>1, QuietNothing DEF IInv, TraceOK
<1> QED
  BY <1>1, <1>6, <1>7, <1>8, <1>9, <1>10, TopGoesOn

\* What an action writes is quiet, and it fails with one of the engine's errors.
LEMMA ActionsAreQuiet ==
  ASSUME NEW log, IsSequence(log), NEW s, NEW a, NEW run \in ActionRuns(s, a)
  PROVE  /\ QuietExtension(log, log \o run.log)
         /\ run.error \in {"none"} \cup Errors
<1>1. "StateChanged" \notin ActionKinds
  BY DEF ActionKinds
<1> QED
  BY <1>1, ActionsAdd, AddsQuietly DEF Errors

LEMMA RunActionPreserves ==
  ASSUME IInv, NEW phase \in {"on_exit", "on_transition", "on_enter"}, RunAction(phase)
  PROVE  IInv' /\ UNCHANGED <<topo, Committed>>
<1>1. /\ stack # <<>> /\ Top.phase = phase /\ outcome = "running"
      /\ UNCHANGED setup /\ UNCHANGED <<topo, base, began>>
  BY DEF RunAction, Running, setup
<1>2. Top \in Frames /\ FrameOK(Top) /\ IsSequence(trace)
  BY <1>1, TopFrame DEF IInv, TraceOK
<1>3. PICK run \in ActionRuns(Top.signal, PhaseActions[Top.next]) :
       \/ /\ run.error = "none"
          /\ stack' = Update([Top EXCEPT !.next = @ + 1])
          /\ trace' = trace \o run.log
          /\ UNCHANGED <<current, outcome>>
       \/ /\ run.error # "none"
          /\ ~Tentative
          /\ Fail(run.error)
          /\ trace' = trace \o run.log
          /\ UNCHANGED current
       \/ /\ run.error # "none"
          /\ Tentative
          /\ Fail(run.error)
          /\ current' = Rollback
          /\ trace' = Append(trace \o run.log,
                             Rollbacked(Top.signal, TransitionOf(Top).to, Top.source))
  BY DEF RunAction
<1>4. QuietExtension(trace, trace \o run.log) /\ run.error \in {"none"} \cup Errors
  BY <1>2, ActionsAreQuiet
<1>5. CASE /\ stack' = Update([Top EXCEPT !.next = @ + 1])
           /\ trace' = trace \o run.log
           /\ UNCHANGED <<current, outcome>>
  <2> DEFINE f == [Top EXCEPT !.next = @ + 1]
  <2>1. f \in Frames
    BY <1>2 DEF Frames
  <2>2. /\ f.phase = phase /\ f.transition = Top.transition /\ f.source = Top.source
        /\ f.signal = Top.signal /\ f.payload = Top.payload /\ f.firing = Top.firing
    BY <1>1, <1>2 DEF Frames
  <2>3. stack' = Update(f)
    BY <1>5
  <2> HIDE DEF f
  <2>4. FrameOK(f)
    BY <1>1, <1>2, <2>2 DEF FrameOK, TransitionOf
  <2>5. IF f.phase \in {"on_transition", "on_enter"}
        THEN Tentative
        ELSE ~Tentative /\ current[f.signal] = f.source
    BY <1>1, <2>2 DEF Tentative, IInv, CurrentOK
  <2> QED
    BY <1>1, <1>4, <1>5, <2>1, <2>2, <2>3, <2>4, <2>5, TopGoesOn
<1>6. CASE /\ run.error # "none"
           /\ ~Tentative
           /\ Fail(run.error)
           /\ trace' = trace \o run.log
           /\ UNCHANGED current
  <2>1. Top.phase = "on_exit"
    BY <1>1, <1>6 DEF Tentative
  <2> QED
    BY <1>1, <1>4, <1>6, <2>1, LeaveQuietly DEF Fail
<1>7. CASE /\ run.error # "none"
           /\ Tentative
           /\ Fail(run.error)
           /\ current' = Rollback
           /\ trace' = Append(trace \o run.log,
                              Rollbacked(Top.signal, TransitionOf(Top).to, Top.source))
  <2>1. outcome' \in Errors /\ stack' = Below
    BY <1>4, <1>7 DEF Fail
  <2>2. SetupOK'
    BY <1>1, <2>1, SetupKept DEF IInv
  <2>3. StackOK' /\ (stack' # <<>> => Calling(Top'))
    BY <1>1, <2>1, TopLeaves DEF IInv
  <2>4. current' = Committed
    BY <1>1, <1>7 DEF Committed, Rollback
  <2>5. /\ Top.signal \in SignalIds(topo)
        /\ Top.source \in StatesOf(topo, Top.signal)
    BY <1>1, <1>2 DEF FrameOK
  <2>6. CurrentOK'
    <3>1. /\ current' = [s \in SignalIds(topo) |-> current'[s]]
          /\ \A s \in SignalIds(topo) : current'[s] \in StatesOf(topo, s)
      BY <1>7, <2>5 DEF Rollback, IInv, CurrentOK
    <3> QED
      BY <1>1, <2>3, <3>1 DEF CurrentOK, Calling, Tentative
  <2>7. Committed' = Committed
    BY <2>3, <2>4 DEF Committed, Tentative, Calling
  <2>8. QuietExtension(trace, trace')
    <3>1. IsSequence(trace \o run.log)
      BY <1>4 DEF QuietExtension
    <3>2. Rollbacked(Top.signal, TransitionOf(Top).to, Top.source).kind # "StateChanged"
      BY DEF Rollbacked
    <3>3. QuietExtension(trace \o run.log, trace')
      BY <1>7, <3>1, <3>2, QuietAppend
    <3> QED
      BY <1>4, <3>3, QuietTransitive
  <2> QED
    BY <1>1, <2>2, <2>3, <2>6, <2>7, <2>8, QuietStep DEF IInv
<1> QED
  BY <1>3, <1>5, <1>6, <1>7

LEMMA LeaveSourcePreserves == ASSUME IInv, LeaveSource PROVE IInv' /\ UNCHANGED <<topo, Committed>>
<1> DEFINE f == [Top EXCEPT !.phase = "on_transition", !.next = 1]
<1>1. /\ stack # <<>> /\ Top.phase = "on_exit" /\ outcome = "running"
      /\ current' = [current EXCEPT ![Top.signal] = TransitionOf(Top).to]
      /\ stack' = Update(f)
      /\ UNCHANGED setup /\ UNCHANGED <<topo, base, began>>
      /\ trace' = trace /\ outcome' = outcome
  BY DEF LeaveSource, Running, setup
<1>2. Top \in Frames /\ FrameOK(Top) /\ IsSequence(trace)
  BY <1>1, TopFrame DEF IInv, TraceOK
<1>3. f \in Frames
  <2>1. 1 \in Nat \ {0}
    OBVIOUS
  <2> QED
    BY <1>2, <2>1 DEF Frames
<1>4. /\ f.phase = "on_transition" /\ f.transition = Top.transition /\ f.source = Top.source
      /\ f.signal = Top.signal /\ f.payload = Top.payload /\ f.firing = Top.firing
  BY <1>2 DEF Frames
<1> HIDE DEF f
<1>5. FrameOK(f)
  BY <1>1, <1>2, <1>4 DEF FrameOK, TransitionOf
<1>6. StackOK' /\ stack' # <<>> /\ Top' = f
  BY <1>1, <1>3, <1>5, TopChanges DEF IInv, Errors
<1>7. /\ Top.signal \in SignalIds(topo)
      /\ TransitionOf(Top).to \in StatesOf(topo, Top.signal)
      /\ current[Top.signal] = Top.source
  BY <1>1, <1>2 DEF FrameOK, TransitionOf, IInv, SetupOK, Valid, TransitionsOk, CurrentOK
<1>8. CurrentOK'
  <2>1. /\ current' = [s \in SignalIds(topo) |-> current'[s]]
        /\ \A s \in SignalIds(topo) : current'[s] \in StatesOf(topo, s)
        /\ current'[Top.signal] = TransitionOf(Top).to
    BY <1>1, <1>7 DEF IInv, CurrentOK
  <2>2. TransitionOf(Top)' = TransitionOf(Top)
    BY <1>1, <1>4, <1>6 DEF TransitionOf
  <2>3. Top'.signal = Top.signal /\ Top'.phase # "on_exit"
    BY <1>4, <1>6
  <2> QED
    BY <1>1, <2>1, <2>2, <2>3 DEF CurrentOK
<1>9. Committed' = Committed
  <2>1. Committed = current
    BY <1>1, NothingTentative
  <2>2. Committed' = [current' EXCEPT ![Top.signal] = Top.source]
    BY <1>4, <1>6 DEF Committed, Tentative
  <2>3. [current' EXCEPT ![Top.signal] = Top.source] = current
    BY <1>1, <1>7 DEF IInv, CurrentOK
  <2> QED
    BY <2>1, <2>2, <2>3
<1>10. SetupOK'
  BY <1>1, SetupKept DEF IInv, SetupOK
<1>11. QuietExtension(trace, trace')
  BY <1>1, <1>2, QuietNothing
<1> QED
  BY <1>1, <1>6, <1>8, <1>9, <1>10, <1>11, QuietStep DEF IInv

LEMMA BeginEnterPreserves == ASSUME IInv, BeginEnter PROVE IInv' /\ UNCHANGED <<topo, Committed>>
<1> DEFINE f == [Top EXCEPT !.phase = "on_enter", !.next = 1]
<1>1. /\ stack # <<>> /\ Top.phase = "on_transition" /\ outcome = "running"
      /\ stack' = Update(f)
      /\ UNCHANGED setup /\ UNCHANGED current /\ trace' = trace /\ outcome' = outcome
  BY DEF BeginEnter, Running
<1>2. Top \in Frames /\ FrameOK(Top) /\ IsSequence(trace)
  BY <1>1, TopFrame DEF IInv, TraceOK
<1>3. f \in Frames
  <2>1. 1 \in Nat \ {0}
    OBVIOUS
  <2> QED
    BY <1>2, <2>1 DEF Frames
<1>4. /\ f.phase = "on_enter" /\ f.transition = Top.transition /\ f.source = Top.source
      /\ f.signal = Top.signal /\ f.payload = Top.payload /\ f.firing = Top.firing
  BY <1>2 DEF Frames
<1> HIDE DEF f
<1>5. FrameOK(f)
  BY <1>1, <1>2, <1>4 DEF FrameOK, TransitionOf
<1>6. Tentative /\ QuietExtension(trace, trace')
  BY <1>1, <1>2, QuietNothing DEF Tentative
<1> QED
  BY <1>1, <1>3, <1>4, <1>5, <1>6, TopGoesOn

\* The one step that moves a signal for good: it goes along a declared transition,
\* from the state it is in, whose guard holds on the event's payload.
LEMMA CommitPreserves ==
  ASSUME IInv, Commit
  PROVE  IInv' /\ \E i \in DOMAIN topo.transitions : Abstract!Move(topo.transitions[i])
<1> DEFINE tr == TransitionOf(Top)
           R == MatchingReactions(topo, Top.signal, tr.to)
<1>1. /\ stack # <<>> /\ Top.phase = "on_enter" /\ outcome = "running"
      /\ trace' = Append(trace, StateChanged(Top.signal, Top.source, tr.to))
      /\ UNCHANGED setup /\ UNCHANGED <<topo, base, began, current, outcome>>
  BY DEF Commit, Running, setup
<1>2. PICK d \in NewSchedule(topo.reactions, R) :
        stack' = Update([Top EXCEPT !.phase = "dispatch", !.matched = R, !.sched = d])
  BY DEF Commit
<1> DEFINE f == [Top EXCEPT !.phase = "dispatch", !.matched = R, !.sched = d]
<1>3. Top \in Frames /\ FrameOK(Top) /\ IsSequence(trace)
  BY <1>1, TopFrame DEF IInv, TraceOK
<1>4. R \in SUBSET DOMAIN topo.reactions /\ R \subseteq Nat \ {0} /\ IsFiniteSet(R)
  <2>1. /\ DOMAIN topo.reactions \subseteq Nat \ {0}
        /\ IsFiniteSet(DOMAIN topo.reactions)
    BY TopologiesAssumption DEF IInv, SetupOK
  <2>2. R \in SUBSET DOMAIN topo.reactions
    BY DEF MatchingReactions
  <2> HIDE DEF R
  <2> QED
    BY <2>1, <2>2, FS_Subset
<1> HIDE DEF R
<1>5. BooksRight(topo.reactions, R, d, {}) /\ Elements(d.ready) \cup d.waiting = R
  BY <1>4, BooksOpened
<1>6. d \in [ready : Seq(DOMAIN topo.reactions), waiting : SUBSET DOMAIN topo.reactions,
             done : [Groups -> Nat], complete : SUBSET Groups]
  <2>1. d \in [ready : Seq(R), waiting : SUBSET R,
               done : [Groups -> Nat], complete : SUBSET Groups]
    BY <1>5 DEF BooksRight
  <2>2. d.ready \in Seq(DOMAIN topo.reactions)
    BY <1>4, <2>1, SeqMonotonic
  <2> QED
    BY <1>4, <2>1, <2>2
<1>7. f \in Frames
  BY <1>3, <1>4, <1>6 DEF Frames
<1>8. /\ f.phase = "dispatch" /\ f.matched = R /\ f.sched = d
      /\ f.transition = Top.transition /\ f.firing = Top.firing
  BY <1>3 DEF Frames
<1>9. stack' = Update(f)
  BY <1>2
<1> HIDE DEF f
<1>10. FrameOK(f)
  <2>1. f.firing = 0
    BY <1>1, <1>3, <1>8 DEF FrameOK
  <2>2. Past(f) = {}
    BY <1>5, <1>8 DEF Past
  <2> QED
    BY <1>1, <1>3, <1>5, <1>8, <2>1, <2>2 DEF FrameOK
<1>11. StackOK' /\ stack' # <<>> /\ Top' = f
  BY <1>1, <1>7, <1>9, <1>10, TopChanges DEF IInv, Errors
<1>12. CurrentOK' /\ Committed' = current
  BY <1>1, <1>8, <1>11, CurrentKept DEF IInv
<1>13. SetupOK'
  BY <1>1, SetupKept DEF IInv, SetupOK
<1>14. /\ Top.signal \in SignalIds(topo)
       /\ current[Top.signal] = tr.to
       /\ Committed = [current EXCEPT ![Top.signal] = Top.source]
       /\ Committed[Top.signal] = Top.source
       /\ \A s \in SignalIds(topo) : s # Top.signal => Committed[s] = current[s]
  <2>1. Tentative /\ Top.signal \in SignalIds(topo)
    BY <1>1, <1>3 DEF Tentative, FrameOK
  <2> QED
    BY <1>1, <2>1 DEF Committed, IInv, CurrentOK
<1>15. TraceOK'
  <2>1. /\ LogOK(trace, base)
        /\ \A s \in SignalIds(topo) : Tells(trace, base, Len(trace), s, Committed[s])
        /\ began \in 0..Len(trace)
    BY DEF IInv, TraceOK
  <2>2. Tells(trace, base, Len(trace), Top.signal, Top.source)
    BY <1>14, <2>1
  <2>3. /\ LogOK(trace', base)
        /\ Tells(trace', base, Len(trace'), Top.signal, tr.to)
        /\ \A s, x : s # Top.signal /\ Tells(trace, base, Len(trace), s, x)
                        => Tells(trace', base, Len(trace'), s, x)
    <3> HIDE DEF tr
    <3> QED
      BY <1>1, <1>3, <2>1, <2>2, LogChange
  <2>4. \A s \in SignalIds(topo) : Tells(trace', base, Len(trace'), s, current[s])
    <3> HIDE DEF tr
    <3> QED
      BY <1>14, <2>1, <2>3
  <2>5. IsSequence(trace') /\ Len(trace') = Len(trace) + 1 /\ Len(trace) \in Nat
    BY <1>1, <1>3, AppendEntry
  <2>6. began' \in 0..Len(trace')
    BY <1>1, <2>1, <2>5
  <2> QED
    BY <1>1, <1>12, <2>3, <2>4, <2>5, <2>6 DEF TraceOK
<1>16. Abstract!Move(topo.transitions[Top.transition]) /\ Top.transition \in DOMAIN topo.transitions
  <2>1. /\ tr.signal = Top.signal
        /\ tr.from \in {Top.source, Any}
        /\ Evaluate(tr.guard, Top.payload) = "true"
        /\ Top.payload \in Payloads
        /\ Top.transition \in DOMAIN topo.transitions
    BY <1>1, <1>3 DEF FrameOK, Frames
  <2>2. Committed' = [Committed EXCEPT ![tr.signal] = tr.to]
    <3>1. [[current EXCEPT ![Top.signal] = Top.source] EXCEPT ![Top.signal] = tr.to] = current
      <4> HIDE DEF tr
      <4> QED
        BY <1>14 DEF IInv, CurrentOK
    <3> HIDE DEF tr
    <3> QED
      BY <1>12, <1>14, <2>1, <3>1
  <2>3. tr = topo.transitions[Top.transition]
    BY DEF TransitionOf
  <2> HIDE DEF tr
  <2>4. Evaluate(tr.guard, Top.payload) = Abstract!Evaluate(tr.guard, Top.payload)
    BY DEF Evaluate, Abstract!Evaluate
  <2> QED
    BY <1>1, <1>14, <2>1, <2>2, <2>3, <2>4 DEF Abstract!Move
<1> QED
  BY <1>11, <1>12, <1>13, <1>15, <1>16 DEF IInv

-----------------------------------------------------------------------------
(* The cascade                                                             *)

\* A reaction that has fired leaves the hand; the frame's books stay right.
LEMMA SettledFrame ==
  ASSUME SetupOK, NEW f \in Frames, FrameOK(f), Calling(f), NEW g \in Settled(f)
  PROVE  /\ g \in Frames /\ FrameOK(g)
         /\ g.phase = "dispatch" /\ g.firing = 0 /\ g.matched = f.matched
         /\ g.sched \in AfterFiring(topo.reactions, f.matched, f.sched, f.firing)
         /\ f.sched.waiting \subseteq f.matched /\ f.firing \in f.matched
         /\ Past(g) = Past(f) \cup {f.firing}
<1> DEFINE R == f.matched
           r == f.firing
<1>1. PICK e \in AfterFiring(topo.reactions, R, f.sched, r) :
        g = [f EXCEPT !.sched = e, !.firing = 0]
  BY DEF Settled
<1>2. /\ R \in SUBSET DOMAIN topo.reactions
      /\ DOMAIN topo.reactions \subseteq Nat \ {0}
      /\ IsFiniteSet(DOMAIN topo.reactions)
      /\ \A x \in DOMAIN topo.reactions : topo.reactions[x].group \in Groups \cup {NoGroup}
  BY TopologiesAssumption DEF SetupOK, Frames
<1>3. R \subseteq Nat /\ IsFiniteSet(R)
  <2> HIDE DEF R
  <2> QED
    BY <1>2, FS_Subset
<1>4. /\ f.transition \in DOMAIN topo.transitions
      /\ BooksRight(topo.reactions, R, f.sched, Past(f))
      /\ r \in R /\ r \notin Elements(f.sched.ready) \cup f.sched.waiting
      /\ r \notin Past(f)
  BY DEF Calling, FrameOK, Past
<1>5. /\ BooksRight(topo.reactions, R, e, Past(f) \cup {r})
      /\ e.waiting \subseteq f.sched.waiting
      /\ Elements(e.ready) = Elements(f.sched.ready) \cup (f.sched.waiting \ e.waiting)
  <2>1. PICK rs, d, F : rs = topo.reactions /\ d = f.sched /\ F = Past(f)
    OBVIOUS
  <2>2. /\ rs[r].group \in Groups \cup {NoGroup} /\ r \in R /\ r \notin F
        /\ BooksRight(rs, R, d, F)
        /\ e \in AfterFiring(rs, R, d, r)
    BY <1>1, <1>2, <1>4, <2>1
  <2> HIDE DEF R, r
  <2>3. /\ BooksRight(rs, R, e, F \cup {r})
        /\ e.waiting \subseteq d.waiting
        /\ Elements(e.ready) = Elements(d.ready) \cup (d.waiting \ e.waiting)
    BY <1>3, <2>2, BooksKept
  <2> QED
    BY <2>1, <2>3
<1>6. e \in [ready : Seq(DOMAIN topo.reactions), waiting : SUBSET DOMAIN topo.reactions,
             done : [Groups -> Nat], complete : SUBSET Groups]
  <2>1. e \in [ready : Seq(R), waiting : SUBSET R,
               done : [Groups -> Nat], complete : SUBSET Groups]
    BY <1>5 DEF BooksRight
  <2>2. e.ready \in Seq(DOMAIN topo.reactions)
    <3> HIDE DEF R
    <3> QED
      BY <1>2, <2>1, SeqMonotonic
  <2> QED
    BY <1>2, <2>1, <2>2
<1>7. g \in Frames
  BY <1>1, <1>6 DEF Frames
<1>8. /\ g.phase = "dispatch" /\ g.firing = 0 /\ g.sched = e /\ g.matched = R
      /\ g.transition = f.transition
  BY <1>1 DEF Frames, Calling
<1>9. Past(g) = Past(f) \cup {r}
  BY <1>2, <1>4, <1>5, <1>8 DEF Past
<1>10. FrameOK(g)
  BY <1>4, <1>5, <1>8, <1>9 DEF FrameOK
<1>11. f.sched.waiting \subseteq R
  BY <1>4 DEF BooksRight
<1> QED
  BY <1>1, <1>4, <1>7, <1>8, <1>9, <1>10, <1>11

\* A frame whose dispatch moves is a frame.
Schedules == [ready : Seq(DOMAIN topo.reactions), waiting : SUBSET DOMAIN topo.reactions,
              done : [Groups -> Nat], complete : SUBSET Groups]
WithBooks(f, d, x) == [f EXCEPT !.sched = d, !.firing = x]

LEMMA FrameWithBooks ==
  ASSUME NEW f \in Frames, NEW d \in Schedules, NEW x \in DOMAIN topo.reactions \cup {0}
  PROVE  /\ WithBooks(f, d, x) \in Frames
         /\ WithBooks(f, d, x).sched = d /\ WithBooks(f, d, x).firing = x
         /\ WithBooks(f, d, x).phase = f.phase
         /\ WithBooks(f, d, x).matched = f.matched
         /\ WithBooks(f, d, x).transition = f.transition
BY DEF Frames, WithBooks, Schedules

\* A reaction taken from the queue is in the hand, and no other has moved.
LEMMA PoppedFrame ==
  ASSUME SetupOK, NEW f \in Frames, FrameOK(f),
         f.phase = "dispatch", f.firing = 0, f.sched.ready # <<>>,
         NEW g, g = [f EXCEPT !.sched = [f.sched EXCEPT !.ready = Tail(f.sched.ready)],
                              !.firing = Head(f.sched.ready)]
  PROVE  /\ g \in Frames /\ FrameOK(g)
         /\ g.phase = "dispatch" /\ g.matched = f.matched
         /\ g.firing = Head(f.sched.ready)
         /\ g.sched = [f.sched EXCEPT !.ready = Tail(f.sched.ready)]
         /\ Past(g) = Past(f)
<1> DEFINE q == f.sched.ready
<1>1. /\ f.matched \in SUBSET DOMAIN topo.reactions
      /\ f.transition \in DOMAIN topo.transitions
      /\ BooksRight(topo.reactions, f.matched, f.sched, Past(f))
      /\ DOMAIN topo.reactions \subseteq Nat \ {0}
  BY TopologiesAssumption DEF FrameOK, Frames, SetupOK
<1>2. q \in Seq(f.matched) /\ NoRepetition(q)
  BY <1>1 DEF BooksRight
<1>3. /\ Head(q) \in Elements(q)
      /\ Tail(q) \in Seq(f.matched)
      /\ Elements(Tail(q)) = Elements(q) \ {Head(q)}
      /\ NoRepetition(Tail(q))
  BY <1>2, PopFront
<1>4. Head(q) \in f.matched /\ Tail(q) \in Seq(DOMAIN topo.reactions)
  <2>1. Elements(q) \subseteq f.matched
    BY <1>2, LenProperties DEF Elements
  <2> HIDE DEF q
  <2> QED
    BY <1>1, <1>3, <2>1, SeqMonotonic
<1> HIDE DEF q
<1> DEFINE popped == [f.sched EXCEPT !.ready = Tail(q)]
<1>5. /\ f.sched \in [ready : Seq(f.matched), waiting : SUBSET f.matched,
                      done : [Groups -> Nat], complete : SUBSET Groups]
      /\ f.sched \in [ready : Seq(DOMAIN topo.reactions), waiting : SUBSET DOMAIN topo.reactions,
                      done : [Groups -> Nat], complete : SUBSET Groups]
  BY <1>1 DEF BooksRight, Frames
<1>6. /\ popped \in [ready : Seq(f.matched), waiting : SUBSET f.matched,
                     done : [Groups -> Nat], complete : SUBSET Groups]
      /\ popped \in [ready : Seq(DOMAIN topo.reactions), waiting : SUBSET DOMAIN topo.reactions,
                     done : [Groups -> Nat], complete : SUBSET Groups]
      /\ popped.ready = Tail(q) /\ popped.waiting = f.sched.waiting
      /\ popped.done = f.sched.done /\ popped.complete = f.sched.complete
  BY <1>3, <1>4, <1>5
<1>7. g = [f EXCEPT !.sched = popped, !.firing = Head(q)]
  BY DEF q
<1> HIDE DEF popped
<1>8. /\ g \in Frames
      /\ g.phase = "dispatch" /\ g.firing = Head(q) /\ g.matched = f.matched
      /\ g.sched = popped
      /\ g.transition = f.transition
  <2>1. PICK h : h = Head(q)
    OBVIOUS
  <2>2. h \in DOMAIN topo.reactions \cup {0}
    BY <1>1, <1>4, <2>1
  <2>3. popped \in Schedules
    BY <1>6 DEF Schedules
  <2>4. g = WithBooks(f, popped, h)
    BY <1>7, <2>1 DEF WithBooks
  <2>5. f \in Frames
    OBVIOUS
  <2>6. /\ g \in Frames /\ g.sched = popped /\ g.firing = h
        /\ g.phase = f.phase /\ g.matched = f.matched /\ g.transition = f.transition
    BY ONLY <2>2, <2>3, <2>4, <2>5, FrameWithBooks
  <2> QED
    BY <2>1, <2>6
<1>9. /\ g.sched.ready = Tail(q) /\ g.sched.waiting = f.sched.waiting
      /\ g.sched.done = f.sched.done /\ g.sched.complete = f.sched.complete
      /\ Head(q) # 0
  BY <1>1, <1>4, <1>6, <1>8
<1>10. Past(g) = Past(f)
  BY <1>1, <1>3, <1>8, <1>9 DEF Past, q
<1>11. FrameOK(g)
  <2>1. Elements(q) \cap f.sched.waiting = {}
    BY <1>1 DEF BooksRight, q
  <2>2. BooksRight(topo.reactions, g.matched, g.sched, Past(g))
    BY <1>1, <1>3, <1>6, <1>8, <1>9, <1>10, <2>1 DEF BooksRight
  <2> QED
    BY <1>1, <1>3, <1>4, <1>8, <1>9, <2>1, <2>2 DEF FrameOK
<1> QED
  BY <1>8, <1>10, <1>11 DEF q, popped

LEMMA PopReactionPreserves ==
  ASSUME IInv, PopReaction
  PROVE  IInv' /\ UNCHANGED <<topo, Committed>>
<1> DEFINE f == [Top EXCEPT !.sched.ready = Tail(@), !.firing = Head(Top.sched.ready)]
<1>1. /\ stack # <<>> /\ Top.phase = "dispatch" /\ outcome = "running"
      /\ Top.firing = 0 /\ Top.sched.ready # <<>>
      /\ stack' = Update(f)
      /\ UNCHANGED setup /\ UNCHANGED current /\ trace' = trace /\ outcome' = outcome
  BY DEF PopReaction, Running
<1>2. Top \in Frames /\ FrameOK(Top) /\ IsSequence(trace)
  BY <1>1, TopFrame DEF IInv, TraceOK
<1>3. f = [Top EXCEPT !.sched = [Top.sched EXCEPT !.ready = Tail(Top.sched.ready)],
                      !.firing = Head(Top.sched.ready)]
  BY <1>2 DEF Frames
<1>4. ~Tentative /\ QuietExtension(trace, trace')
  BY <1>1, <1>2, QuietNothing DEF Tentative
<1> HIDE DEF f
<1>5. f \in Frames /\ FrameOK(f) /\ f.phase = "dispatch"
  BY <1>1, <1>2, <1>3, PoppedFrame DEF IInv
<1> QED
  BY <1>1, <1>4, <1>5, TopGoesOn

\* A guard's verdict is quiet.
LEMMA GuardsAreQuiet ==
  ASSUME IsSequence(trace)
  PROVE  QuietExtension(trace, trace \o GuardLog)
BY GuardAdds, AddsQuietly

LEMMA SkipReactionPreserves ==
  ASSUME IInv, SkipReaction
  PROVE  IInv' /\ UNCHANGED <<topo, Committed>>
<1>1. /\ stack # <<>> /\ Calling(Top) /\ outcome = "running"
      /\ trace' = trace \o GuardLog
      /\ UNCHANGED setup /\ UNCHANGED current /\ outcome' = outcome
  BY DEF SkipReaction, Firing, Running, Calling
<1>2. PICK f \in Settled(Top) : stack' = Update(f)
  BY DEF SkipReaction
<1>3. f \in Frames /\ FrameOK(f) /\ f.phase = "dispatch"
  BY <1>1, TopFrame, SettledFrame DEF IInv
<1>4. ~Tentative /\ QuietExtension(trace, trace')
  BY <1>1, GuardsAreQuiet DEF Tentative, Calling, IInv, TraceOK
<1> QED
  BY <1>1, <1>2, <1>3, <1>4, TopGoesOn

LEMMA FireReactionPreserves ==
  ASSUME IInv, FireReaction
  PROVE  IInv' /\ UNCHANGED <<topo, Committed>>
<1>1. /\ stack # <<>> /\ Calling(Top) /\ outcome = "running"
      /\ UNCHANGED setup /\ UNCHANGED <<topo, base, began, current>>
  BY DEF FireReaction, Firing, Running, Calling, setup
<1>2. Top \in Frames /\ FrameOK(Top) /\ IsSequence(trace)
  BY <1>1, TopFrame DEF IInv, TraceOK
<1>3. QuietExtension(trace, trace \o GuardLog)
  BY <1>2, GuardsAreQuiet
<1>4. Committed = current
  BY <1>1, NothingTentative DEF Calling
<1>5. CASE /\ outcome' = "CascadeDepthExceeded"
           /\ trace' = trace \o GuardLog
           /\ UNCHANGED stack
  <2>1. SetupOK'
    BY <1>1, <1>5, SetupKept DEF IInv, Errors
  <2>2. StackOK' /\ Top' = Top
    <3>1. Frames' = Frames /\ \A g : FrameOK(g)' <=> FrameOK(g)
      BY <1>1 DEF Frames, FrameOK, TransitionOf
    <3>2. Top' = Top
      BY <1>5 DEF Top
    <3> QED
      BY <1>1, <1>5, <3>1, <3>2 DEF IInv, StackOK, Calling
  <2>3. CurrentOK' /\ Committed' = current
    BY <1>1, <2>2, CurrentKept DEF IInv, Calling
  <2> QED
    BY <1>1, <1>3, <1>4, <1>5, <2>1, <2>2, <2>3, QuietStep DEF IInv
<1>6. CASE /\ stack' = Append(stack, Frame(InHand.toSignal, InHand.event, InHand.payload))
           /\ trace' = Append(trace \o GuardLog, EventReceived(InHand.toSignal, InHand.event))
           /\ UNCHANGED outcome
  <2> DEFINE f == Frame(InHand.toSignal, InHand.event, InHand.payload)
  <2>1. Top.firing \in DOMAIN topo.reactions
    BY <1>1, <1>2 DEF Calling, Frames
  <2>2. /\ InHand.toSignal \in SignalIds(topo)
        /\ InHand.payload \in Payloads
        /\ InHand.event \in {topo.reactions[r].event : r \in DOMAIN topo.reactions}
    BY <2>1, TopologiesAssumption DEF InHand, IInv, SetupOK, Valid, ReactionsOk
  <2>3. f \in Frames /\ FrameOK(f) /\ f.phase = "matching"
    BY <2>2, NewFrame
  <2> HIDE DEF f
  <2>4. stack' = Append(stack, f)
    BY <1>6 DEF f
  <2>5. StackOK' /\ stack' # <<>> /\ Top' = f
    BY <1>1, <1>6, <2>3, <2>4, FrameEnters DEF IInv, Errors
  <2>6. SetupOK'
    BY <1>1, <1>6, SetupKept DEF IInv, SetupOK
  <2>7. CurrentOK' /\ Committed' = current
    BY <1>1, <2>3, <2>5, CurrentKept DEF IInv
  <2>8. QuietExtension(trace, trace')
    <3>1. IsSequence(trace \o GuardLog)
      BY <1>3 DEF QuietExtension
    <3>2. EventReceived(InHand.toSignal, InHand.event).kind # "StateChanged"
      BY DEF EventReceived
    <3>3. QuietExtension(trace \o GuardLog, trace')
      BY <1>6, <3>1, <3>2, QuietAppend
    <3> QED
      BY <1>3, <3>3, QuietTransitive
  <2> QED
    BY <1>1, <1>4, <2>5, <2>6, <2>7, <2>8, QuietStep DEF IInv
<1> QED
  BY <1>5, <1>6 DEF FireReaction

LEMMA ReturnToReactionPreserves ==
  ASSUME IInv, ReturnToReaction
  PROVE  IInv' /\ UNCHANGED <<topo, Committed>>
<1>1. /\ stack # <<>> /\ Top.phase = "dispatch" /\ outcome = "running"
      /\ Below # <<>>
      /\ UNCHANGED setup /\ UNCHANGED <<topo, base, began, current>>
      /\ trace' = trace /\ outcome' = outcome
  BY DEF ReturnToReaction, DispatchDone, Running, setup
<1> DEFINE caller == Below[Len(Below)]
<1>2. PICK f \in Settled(caller) : stack' = [Below EXCEPT ![Len(Below)] = f]
  BY DEF ReturnToReaction
<1>3. caller \in Frames /\ FrameOK(caller) /\ Calling(caller)
  <2> DEFINE n == Len(stack)
  <2>1. /\ n \in Nat \ {0} /\ n # 1
        /\ Len(Below) = n - 1
        /\ \A i \in 1..(n - 1) : Below[i] = stack[i]
        /\ Below \in Seq(Frames)
    BY <1>1, PopTop DEF IInv, StackOK, Below
  <2>2. caller = stack[n - 1] /\ caller \in Frames
    BY <2>1, ElementOfSeq
  <2>3. n - 1 \in 1..Len(stack) /\ n - 1 \in 1..(Len(stack) - 1)
    BY <2>1
  <2> HIDE DEF caller, n
  <2> QED
    BY <2>2, <2>3 DEF IInv, StackOK
<1> HIDE DEF caller
<1>4. f \in Frames /\ FrameOK(f) /\ f.phase = "dispatch"
  BY <1>3, SettledFrame DEF IInv
<1>5. StackOK' /\ stack' # <<>> /\ Top' = f
  BY <1>1, <1>2, <1>4, TopReturns DEF IInv, Errors
<1>6. CurrentOK' /\ Committed' = current /\ Committed = current
  BY <1>1, <1>4, <1>5, CurrentKept, NothingTentative DEF IInv
<1>7. SetupOK'
  BY <1>1, SetupKept DEF IInv, SetupOK
<1>8. QuietExtension(trace, trace')
  BY <1>1, QuietNothing DEF IInv, TraceOK
<1> QED
  BY <1>1, <1>5, <1>6, <1>7, <1>8, QuietStep DEF IInv

LEMMA ReturnToCallerPreserves ==
  ASSUME IInv, ReturnToCaller
  PROVE  IInv' /\ UNCHANGED <<topo, Committed>>
<1>1. /\ stack # <<>> /\ Top.phase = "dispatch"
      /\ stack' = Below /\ outcome' = "ok"
      /\ UNCHANGED setup /\ UNCHANGED current /\ trace' = trace
  BY DEF ReturnToCaller, DispatchDone, Running
<1>2. QuietExtension(trace, trace')
  BY <1>1, QuietNothing DEF IInv, TraceOK
<1> QED
  BY <1>1, <1>2, LeaveQuietly

LEMMA UnwindingPreserves ==
  ASSUME IInv, Compensate \/ Propagate
  PROVE  IInv' /\ UNCHANGED <<topo, Committed>>
<1>1. /\ stack # <<>> /\ outcome \in Errors
      /\ stack' = Below /\ outcome' = outcome
      /\ UNCHANGED setup /\ UNCHANGED current
  BY DEF Compensate, Propagate, Unwinding
<1>2. Top.phase = "dispatch" /\ IsSequence(trace)
  BY <1>1 DEF IInv, StackOK, Calling, TraceOK
<1>3. QuietExtension(trace, trace')
  <2>1. CASE Propagate
    BY <1>2, <2>1, QuietNothing DEF Propagate
  <2>2. CASE Compensate
    <3>1. PICK run \in ActionRuns(InHand.toSignal, InHand.onFail) :
            trace' = Append(trace \o run.log, Compensated(Top.signal, Top.firing, outcome))
      BY <2>2 DEF Compensate
    <3>2. QuietExtension(trace, trace \o run.log)
      BY <1>2, ActionsAreQuiet
    <3>3. IsSequence(trace \o run.log)
      BY <3>2 DEF QuietExtension
    <3>4. Compensated(Top.signal, Top.firing, outcome).kind # "StateChanged"
      BY DEF Compensated
    <3>5. QuietExtension(trace \o run.log, trace')
      BY <3>1, <3>3, <3>4, QuietAppend
    <3> QED
      BY <3>2, <3>5, QuietTransitive
  <2> QED
    BY <2>1, <2>2
<1> QED
  BY <1>1, <1>2, <1>3, LeaveQuietly

LEMMA StutterPreserves ==
  ASSUME IInv, UNCHANGED vars
  PROVE  IInv' /\ UNCHANGED <<topo, Committed>>
<1> USE DEF vars
<1>1. Top' = Top /\ Committed' = Committed /\ (Tentative' <=> Tentative)
  BY DEF Top, Committed, Tentative
<1>2. SetupOK'
  BY DEF IInv, SetupOK, MentionedIds
<1>3. StackOK'
  <2>1. Frames' = Frames /\ \A g : FrameOK(g)' <=> FrameOK(g)
    BY DEF Frames, FrameOK, TransitionOf
  <2> QED
    BY <1>1, <2>1 DEF IInv, StackOK, Calling
<1>4. CurrentOK'
  BY <1>1 DEF IInv, CurrentOK, TransitionOf
<1>5. TraceOK'
  BY <1>1 DEF IInv, TraceOK
<1> QED
  BY <1>1, <1>2, <1>3, <1>4, <1>5 DEF IInv

\* Every step keeps the invariant, and is a step of the abstract machine or leaves
\* its variables alone.
LEMMA StepPreserves == IInv /\ [Next]_vars => IInv' /\ [Abstract!Next]_(Abstract!vars)
<1> SUFFICES ASSUME IInv, [Next]_vars
             PROVE  IInv' /\ [Abstract!Next]_(Abstract!vars)
  OBVIOUS
<1>1. CASE Commit
  <2>1. IInv' /\ \E i \in DOMAIN topo.transitions : Abstract!Move(topo.transitions[i])
    BY <1>1, CommitPreserves
  <2> QED
    BY <2>1 DEF Abstract!Next
<1>2. CASE Caller
  <2>1. ASSUME NEW s \in SignalIds(topo) \cup StrangeIds, NEW e \in Events,
               NEW p \in Payloads, SendEvent(s, e, p)
        PROVE  IInv' /\ UNCHANGED <<topo, Committed>>
    BY <2>1, SendEventPreserves
  <2>2. IInv' /\ UNCHANGED <<topo, Committed>>
    BY <1>2, <2>1, BetweenEvents DEF Caller
  <2> QED
    BY <2>2 DEF Abstract!vars
<1>3. CASE Event /\ ~Commit
  <2>1. IInv' /\ UNCHANGED <<topo, Committed>>
    BY <1>3, RejectPreserves, MatchPreserves, RunActionPreserves, LeaveSourcePreserves,
       BeginEnterPreserves DEF Event
  <2> QED
    BY <2>1 DEF Abstract!vars
<1>4. CASE Cascade \/ Compensate \/ Propagate \/ UNCHANGED vars
  <2>1. IInv' /\ UNCHANGED <<topo, Committed>>
    BY <1>4, PopReactionPreserves, SkipReactionPreserves, FireReactionPreserves,
       ReturnToReactionPreserves, ReturnToCallerPreserves, UnwindingPreserves,
       StutterPreserves DEF Cascade
  <2> QED
    BY <2>1 DEF Abstract!vars
<1> QED
  BY <1>1, <1>2, <1>3, <1>4 DEF Next, Engine

\* The invariant holds whatever is sent, bound and set, and however callbacks fail.
THEOREM Invariance == Spec => []IInv
<1>1. IInv /\ [Next]_vars => IInv'
  BY StepPreserves
<1> QED
  BY <1>1, InitEstablishes, PTL DEF Spec

-----------------------------------------------------------------------------
(* The properties                                                          *)

LEMMA InvariantTypes == ASSUME IInv PROVE TypeOK
<1>1. Len(stack) \in Nat /\ DOMAIN stack = 1..Len(stack) /\ \A k \in DOMAIN stack : stack[k] \in Frames
  BY LenProperties, ElementOfSeq DEF IInv, StackOK
<1>2. ASSUME NEW k \in DOMAIN stack
      PROVE  /\ stack[k].phase = "matching" \/ stack[k].transition \in DOMAIN topo.transitions
             /\ stack[k].phase # "dispatch" => k = Len(stack)
             /\ k < Len(stack) => stack[k].firing # 0
             /\ stack[k].firing # 0 => stack[k].firing \in stack[k].matched
  <2>1. FrameOK(stack[k])
    BY <1>1 DEF IInv, StackOK
  <2>2. k # Len(stack) => Calling(stack[k])
    BY <1>1 DEF IInv, StackOK
  <2> QED
    BY <1>1, <2>1, <2>2 DEF FrameOK, Calling
<1>3. DOMAIN current = SignalIds(topo)
  BY DEF IInv, CurrentOK
<1> QED
  BY <1>1, <1>2, <1>3 DEF IInv, SetupOK, CurrentOK, TraceOK, TypeOK

\* Frames are well formed and every signal is in one of its own states.
THEOREM TypeCorrectness == Spec => []TypeOK
BY InvariantTypes, Invariance, PTL

\* What the trace tells is what replaying it gives.
LEMMA ReplayTells ==
  ASSUME NEW n \in Nat, NEW s, NEW x, Tells(trace, base, n, s, x)
  PROVE  Replayed(n, s) = x
<1> DEFINE changes == {i \in 1..n : trace[i].kind = "StateChanged" /\ trace[i].signal = s}
<1>1. CASE changes = {}
  <2>1. x = base[s]
    BY <1>1 DEF Tells
  <2> QED
    BY <1>1, <2>1 DEF Replayed
<1>2. CASE changes # {}
  <2>1. PICK i \in changes : (\A j \in changes : j <= i) /\ x = trace[i].to
    BY <1>2 DEF Tells
  <2> DEFINE last == CHOOSE k \in changes : \A j \in changes : j <= k
  <2>2. last \in changes /\ \A j \in changes : j <= last
    BY <2>1
  <2>3. changes \subseteq Nat
    OBVIOUS
  <2>4. Replayed(n, s) = trace[last].to
    BY <1>2 DEF Replayed
  <2> HIDE DEF changes, last
  <2>5. last = i
    BY <2>1, <2>2, <2>3
  <2> QED
    BY <2>1, <2>4, <2>5
<1> QED
  BY <1>1, <1>2

LEMMA InvariantReplays == ASSUME IInv PROVE TraceTellsState
<1>1. Len(trace) \in Nat /\ DOMAIN trace = 1..Len(trace)
  BY LenProperties DEF IInv, TraceOK, IsSequence
<1>2. \A s \in SignalIds(topo) : Committed[s] = Replayed(Len(trace), s)
  BY <1>1, ReplayTells DEF IInv, TraceOK
<1>3. ASSUME NEW i \in DOMAIN trace, trace[i].kind = "StateChanged"
      PROVE  trace[i].from = Replayed(i - 1, trace[i].signal)
  <2>1. Tells(trace, base, i - 1, trace[i].signal, trace[i].from)
    BY <1>1, <1>3 DEF IInv, TraceOK, LogOK
  <2>2. i - 1 \in Nat
    BY <1>1
  <2> QED
    BY <2>1, <2>2, ReplayTells
<1> QED
  BY <1>2, <1>3 DEF TraceTellsState

\* The trace is a faithful record of the states of all signals, through any
\* rollbacks, cascades, failures and compensations.
THEOREM TraceIsFaithful == Spec => []TraceTellsState
BY InvariantReplays, Invariance, PTL

\* Lifecycle actions, rollbacks, cascades and compensation implement the abstract
\* machine, whose signals only ever move forward along declared transitions.
THEOREM Refinement == Spec => ImplementsSignals
<1>1. Init => Abstract!Init
  BY DEF Init, Abstract!Init, Committed, InitialStates, Abstract!InitialStates,
         SignalIds, Abstract!SignalIds, Declaration, Abstract!Declaration
<1> QED
  BY <1>1, Invariance, StepPreserves, PTL DEF Spec, ImplementsSignals, Abstract!Spec

-----------------------------------------------------------------------------
(* The invariant of a call                                                 *)

\* The entries of a kind that were written after the first n.
Since(log, n, kind) == {i \in (n + 1)..Len(log) : log[i].kind = kind}

\* The frames of a call: the first is that of the event sent, which heads the
\* call's log, the others are for signals that exist.
CallShape ==
  /\ outcome \in {"idle", "ok"} => stack = <<>>
  /\ outcome = "running" => stack # <<>>
  /\ outcome # "idle" => began < Len(trace)
  /\ stack # <<>> => trace[began + 1].signal = stack[1].signal
  /\ \A k \in 2..Len(stack) : stack[k].signal \in SignalIds(topo)
  /\ outcome = "SignalNotFound" => trace[began + 1].signal \notin SignalIds(topo)

\* Nothing goes wrong before the call fails, and after it hooks hear of its error.
OneError ==
  /\ outcome \in {"running", "ok"} =>
       Since(trace, began, "Rollbacked") \cup Since(trace, began, "ReactionCompensated") = {}
  /\ outcome \in Errors =>
       \A i \in Since(trace, began, "ReactionCompensated") : trace[i].error = outcome

\* The events of the call that are received and not committed: that of the top
\* frame until it commits, and the one that failed.
Pending ==
  IF \/ outcome = "running" /\ Top.phase # "dispatch"
     \/ outcome \in Errors \ {"CascadeDepthExceeded"}
  THEN 1 ELSE 0

Counted ==
  outcome # "idle" =>
    Cardinality(Since(trace, began, "EventReceived"))
      = Cardinality(Since(trace, began, "StateChanged")) + Pending

CallOK == CallShape /\ OneError /\ Counted

-----------------------------------------------------------------------------

LEMMA SinceFinite ==
  ASSUME NEW log, Len(log) \in Nat, NEW n \in Nat, NEW kind
  PROVE  /\ IsFiniteSet(Since(log, n, kind))
         /\ Cardinality(Since(log, n, kind)) \in Nat
<1>1. IsFiniteSet((n + 1)..Len(log))
  BY FS_Interval
<1>2. Since(log, n, kind) \subseteq (n + 1)..Len(log)
  BY DEF Since
<1>3. IsFiniteSet(Since(log, n, kind))
  BY <1>1, <1>2, FS_Subset
<1> QED
  BY <1>3, FS_CardinalityType

\* Entries of other kinds do not count.
LEMMA SinceKept ==
  ASSUME NEW log, NEW longer, NEW kinds, Adds(log, longer, kinds),
         NEW n \in 0..Len(log), NEW kind, kind \notin kinds
  PROVE  Since(longer, n, kind) = Since(log, n, kind)
<1>1. ASSUME NEW i \in (n + 1)..Len(longer), longer[i].kind = kind
      PROVE  i \in (n + 1)..Len(log) /\ log[i].kind = kind
  <2>1. i \in 1..Len(log)
    BY <1>1 DEF Adds
  <2> QED
    BY <1>1, <2>1 DEF Adds
<1>2. ASSUME NEW i \in (n + 1)..Len(log), log[i].kind = kind
      PROVE  i \in (n + 1)..Len(longer) /\ longer[i].kind = kind
  BY <1>2 DEF Adds
<1> QED
  BY <1>1, <1>2 DEF Since

\* An entry of its own kind counts one.
LEMMA SinceGrows ==
  ASSUME NEW log, IsSequence(log), NEW e, NEW n \in 0..Len(log)
  PROVE  /\ Since(Append(log, e), n, e.kind) = Since(log, n, e.kind) \cup {Len(log) + 1}
         /\ Cardinality(Since(Append(log, e), n, e.kind)) = Cardinality(Since(log, n, e.kind)) + 1
<1>1. /\ Len(log) \in Nat
      /\ Len(Append(log, e)) = Len(log) + 1
      /\ \A i \in 1..Len(log) : Append(log, e)[i] = log[i]
      /\ Append(log, e)[Len(log) + 1] = e
  BY AppendEntry
<1>2. Since(Append(log, e), n, e.kind) = Since(log, n, e.kind) \cup {Len(log) + 1}
  <2> DEFINE longer == Append(log, e)
  <2> HIDE DEF longer
  <2>1. \A i \in (n + 1)..(Len(log) + 1) : i = Len(log) + 1 \/ (i \in (n + 1)..Len(log) /\ i \in 1..Len(log))
    BY <1>1
  <2>2. \A i \in (n + 1)..Len(log) : i \in (n + 1)..(Len(log) + 1) /\ i \in 1..Len(log)
    BY <1>1
  <2>3. Len(log) + 1 \in (n + 1)..(Len(log) + 1)
    BY <1>1
  <2> QED
    BY <1>1, <2>1, <2>2, <2>3 DEF Since, longer
<1>3. Len(log) + 1 \notin Since(log, n, e.kind)
  BY <1>1 DEF Since
<1>4. IsFiniteSet(Since(log, n, e.kind))
  BY <1>1, SinceFinite
<1> QED
  BY <1>2, <1>3, <1>4, FS_AddElement

\* The entry that heads the call's log stays where it is.
LEMMA HeadKept ==
  ASSUME IInv, CallShape, outcome # "idle", UNCHANGED began,
         NEW kinds, Adds(trace, trace', kinds)
  PROVE  /\ began \in 0..Len(trace) /\ began < Len(trace)
         /\ began' < Len(trace')
         /\ trace'[began' + 1] = trace[began + 1]
<1>1. began \in 0..Len(trace) /\ began < Len(trace)
  BY DEF IInv, TraceOK, CallShape
<1>2. began + 1 \in 1..Len(trace)
  BY <1>1 DEF Adds
<1> QED
  BY <1>1, <1>2 DEF Adds

\* The top frame goes on for the signal it is for.
LEMMA UpdateKeepsSignals ==
  ASSUME StackOK, CallShape, stack # <<>>, UNCHANGED topo,
         NEW f, f.signal = Top.signal, stack' = Update(f)
  PROVE  /\ stack' # <<>> /\ Top' = f
         /\ stack'[1].signal = stack[1].signal
         /\ \A k \in 2..Len(stack') : stack'[k].signal \in SignalIds(topo)
<1> DEFINE n == Len(stack)
           S == Frames \cup {f}
<1>1. stack \in Seq(S) /\ f \in S
  BY SeqMonotonic DEF StackOK
<1> HIDE DEF S
<1>2. /\ n \in Nat \ {0}
      /\ Below \in Seq(S)
      /\ Len(Below) = n - 1
      /\ \A i \in 1..(n - 1) : Below[i] = stack[i]
  BY <1>1, PopTop DEF Below
<1>3. /\ stack' \in Seq(S)
      /\ Len(stack') = (n - 1) + 1
      /\ \A i \in 1..(n - 1) : stack'[i] = Below[i]
      /\ stack'[(n - 1) + 1] = f
  <2> HIDE DEF n
  <2> QED
    BY <1>1, <1>2, Push DEF Update
<1>4. (n - 1) + 1 = n
  BY <1>2
<1> HIDE DEF n
<1>5. stack' # <<>> /\ Top' = f
  BY <1>2, <1>3, <1>4, EmptySeq DEF Top
<1>6. \A i \in 1..n : stack'[i].signal = stack[i].signal
  <2>1. stack'[n].signal = stack[n].signal
    BY <1>3, <1>4 DEF Top, n
  <2> QED
    BY <1>2, <1>3, <2>1
<1>7. 1 \in 1..n /\ \A k \in 2..Len(stack') : k \in 1..n /\ k \in 2..Len(stack)
  BY <1>2, <1>3, <1>4 DEF n
<1> QED
  BY <1>5, <1>6, <1>7 DEF CallShape

\* The frames below the top one are left as they are.
LEMMA BelowKeepsSignals ==
  ASSUME StackOK, CallShape, stack # <<>>
  PROVE  /\ Below # <<>> => Below[1].signal = stack[1].signal
         /\ \A k \in 2..Len(Below) : Below[k].signal \in SignalIds(topo)
<1>1. /\ Len(stack) \in Nat \ {0}
      /\ Len(Below) = Len(stack) - 1
      /\ \A i \in 1..(Len(stack) - 1) : Below[i] = stack[i]
      /\ Below # <<>> <=> Len(stack) # 1
  BY PopTop DEF StackOK, Below
<1> QED
  BY <1>1 DEF CallShape

\* The books of a step that writes of no event and of nothing gone wrong.
QuietKinds == ActionKinds \cup {"ReactionGuardEvaluated"}

LEMMA CallGoesOn ==
  ASSUME IInv, CallOK, outcome = "running", outcome' = "running",
         UNCHANGED <<topo, began>>, Adds(trace, trace', QuietKinds),
         stack' # <<>>, stack'[1].signal = stack[1].signal,
         \A k \in 2..Len(stack') : stack'[k].signal \in SignalIds(topo),
         Top.phase = "dispatch" <=> Top'.phase = "dispatch"
  PROVE  CallOK'
<1>1. /\ began \in 0..Len(trace) /\ began' < Len(trace')
      /\ trace'[began' + 1] = trace[began + 1]
  BY HeadKept DEF CallOK
<1>2. \A kind \in {"Rollbacked", "ReactionCompensated", "EventReceived", "StateChanged"} :
        Since(trace', began', kind) = Since(trace, began, kind)
  BY <1>1, SinceKept DEF QuietKinds, ActionKinds
<1>3. stack # <<>>
  BY DEF CallOK, CallShape
<1>4. CallShape'
  BY <1>1, <1>3 DEF CallOK, CallShape
<1>5. OneError'
  BY <1>2 DEF CallOK, OneError, Errors
<1>6. Counted'
  <2>1. Pending' = Pending
    BY DEF Pending
  <2> QED
    BY <1>2, <2>1 DEF CallOK, Counted
<1> QED
  BY <1>4, <1>5, <1>6 DEF CallOK

\* The event of the top frame fails before it is committed.
LEMMA CallFails ==
  ASSUME IInv, CallOK, outcome = "running", Top.phase # "dispatch",
         UNCHANGED <<topo, began>>, Adds(trace, trace', ActionKinds \cup {"Rollbacked"}),
         stack' = Below, outcome' \in Errors \ {"CascadeDepthExceeded"},
         outcome' = "SignalNotFound" => Top.signal \notin SignalIds(topo)
  PROVE  CallOK'
<1>1. /\ began \in 0..Len(trace) /\ began' < Len(trace')
      /\ trace'[began' + 1] = trace[began + 1]
  BY HeadKept DEF CallOK
<1>2. \A kind \in {"ReactionCompensated", "EventReceived", "StateChanged"} :
        Since(trace', began', kind) = Since(trace, began, kind)
  BY <1>1, SinceKept DEF ActionKinds
<1>3. stack # <<>> /\ StackOK
  BY DEF CallOK, CallShape, IInv
<1>4. CallShape'
  <2>1. /\ stack' # <<>> => stack'[1].signal = stack[1].signal
        /\ \A k \in 2..Len(stack') : stack'[k].signal \in SignalIds(topo)
    BY <1>3, BelowKeepsSignals DEF CallOK
  <2>2. outcome' = "SignalNotFound" => trace[began + 1].signal \notin SignalIds(topo)
    <3>1. CASE Len(stack) = 1
      BY <1>3, <3>1 DEF CallOK, CallShape, Top
    <3>2. CASE Len(stack) # 1
      <4>1. Len(stack) \in 2..Len(stack)
        BY <1>3, <3>2, PopTop DEF StackOK
      <4> QED
        BY <4>1 DEF CallOK, CallShape, Top
    <3> QED
      BY <3>1, <3>2
  <2> QED
    BY <1>1, <1>3, <2>1, <2>2 DEF CallOK, CallShape, Errors
<1>5. OneError'
  BY <1>2 DEF CallOK, OneError, Errors
<1>6. Counted'
  <2>1. Pending' = Pending
    BY DEF Pending, Errors
  <2> QED
    BY <1>2, <2>1 DEF CallOK, Counted
<1> QED
  BY <1>4, <1>5, <1>6 DEF CallOK

-----------------------------------------------------------------------------
(* The steps                                                               *)

LEMMA InitCallOK == Init => CallOK
<1> SUFFICES ASSUME Init PROVE CallOK
  OBVIOUS
<1>1. outcome = "idle" /\ stack = <<>> /\ Len(stack) = 0
  BY EmptySeq DEF Init
<1> QED
  BY <1>1 DEF CallOK, CallShape, OneError, Counted, Errors

LEMMA BetweenEventsCallOK ==
  ASSUME CallOK,
         \/ \E a \in MentionedIds : RegisterAction(a)
         \/ \E d \in Depths : SetMaxCascadeDepth(d)
         \/ ClearTraces
  PROVE  CallOK'
<1>1. outcome' = "idle" /\ stack' = <<>> /\ Len(stack') = 0
  BY EmptySeq DEF RegisterAction, SetMaxCascadeDepth, ClearTraces
<1> QED
  BY <1>1 DEF CallOK, CallShape, OneError, Counted, Errors

LEMMA SendEventCallOK ==
  ASSUME IInv, NEW s, NEW e, NEW p, SendEvent(s, e, p)
  PROVE  CallOK'
<1> DEFINE f == Frame(s, e, p)
           n == Len(trace)
<1>1. /\ stack' = <<f>> /\ outcome' = "running" /\ began' = n
      /\ trace' = Append(trace, EventReceived(s, e))
      /\ UNCHANGED topo
  BY DEF SendEvent
<1>2. /\ n \in Nat /\ Len(trace') = n + 1
      /\ trace'[n + 1] = EventReceived(s, e)
      /\ IsSequence(trace)
  BY <1>1, AppendEntry DEF IInv, TraceOK
<1>3. EventReceived(s, e).kind = "EventReceived" /\ EventReceived(s, e).signal = s
  BY DEF EventReceived
<1>4. f.phase = "matching" /\ f.signal = s
  BY DEF Frame
<1> HIDE DEF f, n
<1>5. stack' # <<>> /\ Len(stack') = 1 /\ stack'[1] = f
  BY <1>1
<1>6. Top' = f
  BY <1>5 DEF Top
<1>7. \A kind : kind # "EventReceived" => Since(trace', began', kind) = {}
  <2>1. \A i \in (n + 1)..(n + 1) : i = n + 1
    BY <1>2
  <2> QED
    BY <1>1, <1>2, <1>3, <2>1 DEF Since
<1>8. Since(trace', began', "EventReceived") = {n + 1}
  <2>1. (n + 1)..(n + 1) = {n + 1}
    BY <1>2
  <2> QED
    BY <1>1, <1>2, <1>3, <2>1 DEF Since
<1>9. CallShape'
  BY <1>1, <1>2, <1>3, <1>4, <1>5 DEF CallShape
<1>10. OneError'
  BY <1>1, <1>7 DEF OneError, Errors
<1>11. Counted'
  <2>1. Cardinality(Since(trace', began', "EventReceived")) = 1
    BY <1>8, FS_Singleton
  <2>2. Cardinality(Since(trace', began', "StateChanged")) = 0
    BY <1>7, FS_EmptySet
  <2>3. Pending' = 1
    BY <1>1, <1>4, <1>6 DEF Pending
  <2> QED
    BY <2>1, <2>2, <2>3 DEF Counted
<1> QED
  BY <1>9, <1>10, <1>11 DEF CallOK

LEMMA RejectCallOK == ASSUME IInv, CallOK, Reject PROVE CallOK'
<1>1. /\ outcome = "running" /\ Top.phase = "matching"
      /\ stack' = Below /\ UNCHANGED <<topo, began, trace>>
      /\ outcome' \in Errors \ {"CascadeDepthExceeded"}
      /\ outcome' = "SignalNotFound" => Top.signal \notin SignalIds(topo)
  BY DEF Reject, Running, Fail, setup, Errors
<1>2. Adds(trace, trace', ActionKinds \cup {"Rollbacked"})
  BY <1>1, AddsNothing DEF IInv, TraceOK
<1> QED
  BY <1>1, <1>2, CallFails

LEMMA RunActionCallOK ==
  ASSUME IInv, CallOK, NEW phase \in {"on_exit", "on_transition", "on_enter"}, RunAction(phase)
  PROVE  CallOK'
<1>1. /\ stack # <<>> /\ Top.phase = phase /\ outcome = "running"
      /\ UNCHANGED <<topo, began>>
  BY DEF RunAction, Running, setup
<1>2. Top \in Frames /\ IsSequence(trace) /\ StackOK
  BY <1>1, TopFrame DEF IInv, TraceOK
<1>3. PICK run \in ActionRuns(Top.signal, PhaseActions[Top.next]) :
       \/ /\ stack' = Update([Top EXCEPT !.next = @ + 1])
          /\ trace' = trace \o run.log
          /\ outcome' = outcome
       \/ /\ run.error # "none"
          /\ stack' = Below /\ outcome' = run.error
          /\ \/ trace' = trace \o run.log
             \/ trace' = Append(trace \o run.log,
                                Rollbacked(Top.signal, TransitionOf(Top).to, Top.source))
  BY DEF RunAction, Fail
<1>4. /\ Adds(trace, trace \o run.log, ActionKinds)
      /\ run.error \in {"none", "ActionNotFound", "ActionExecutionError"}
  BY <1>2, ActionsAdd
<1>5. CASE /\ stack' = Update([Top EXCEPT !.next = @ + 1])
           /\ trace' = trace \o run.log
           /\ outcome' = outcome
  <2> DEFINE f == [Top EXCEPT !.next = @ + 1]
  <2>1. f.signal = Top.signal /\ f.phase = Top.phase
    BY <1>2 DEF Frames
  <2>2. stack' = Update(f)
    BY <1>5
  <2> HIDE DEF f
  <2>3. /\ stack' # <<>> /\ Top' = f
        /\ stack'[1].signal = stack[1].signal
        /\ \A k \in 2..Len(stack') : stack'[k].signal \in SignalIds(topo)
    BY <1>1, <1>2, <2>1, <2>2, UpdateKeepsSignals DEF CallOK
  <2>4. Adds(trace, trace', QuietKinds)
    BY <1>4, <1>5 DEF Adds, QuietKinds
  <2> QED
    BY <1>1, <1>5, <2>1, <2>3, <2>4, CallGoesOn
<1>6. CASE /\ run.error # "none"
           /\ stack' = Below /\ outcome' = run.error
           /\ \/ trace' = trace \o run.log
              \/ trace' = Append(trace \o run.log,
                                 Rollbacked(Top.signal, TransitionOf(Top).to, Top.source))
  <2>1. Adds(trace, trace', ActionKinds \cup {"Rollbacked"})
    <3>1. CASE trace' = trace \o run.log
      BY <1>4, <3>1 DEF Adds
    <3>2. CASE trace' = Append(trace \o run.log,
                               Rollbacked(Top.signal, TransitionOf(Top).to, Top.source))
      <4>1. IsSequence(trace \o run.log)
        BY <1>4 DEF Adds
      <4>2. Rollbacked(Top.signal, TransitionOf(Top).to, Top.source).kind \in {"Rollbacked"}
        BY DEF Rollbacked
      <4>3. Adds(trace \o run.log, trace', {"Rollbacked"})
        BY <3>2, <4>1, <4>2, AddsEntry
      <4> QED
        BY <1>4, <4>3, AddsTransitive
    <3> QED
      BY <1>6, <3>1, <3>2
  <2>2. outcome' \in Errors \ {"CascadeDepthExceeded"} /\ outcome' # "SignalNotFound"
    BY <1>4, <1>6 DEF Errors
  <2> QED
    BY <1>1, <1>6, <2>1, <2>2, CallFails
<1> QED
  BY <1>3, <1>5, <1>6

\* The steps that move the top frame on, and write nothing.
LEMMA QuietStepsCallOK ==
  ASSUME IInv, CallOK, Match \/ LeaveSource \/ BeginEnter \/ PopReaction
  PROVE  CallOK'
<1>1. /\ stack # <<>> /\ outcome = "running"
      /\ UNCHANGED <<topo, began, trace, outcome>>
  BY DEF Match, LeaveSource, BeginEnter, PopReaction, Running, setup
<1>2. Top \in Frames /\ IsSequence(trace) /\ StackOK
  BY <1>1, TopFrame DEF IInv, TraceOK
<1>3. PICK f : /\ stack' = Update(f)
               /\ f.signal = Top.signal
               /\ f.phase = "dispatch" <=> Top.phase = "dispatch"
  <2>1. CASE Match
    <3> DEFINE g == [Top EXCEPT !.phase = "on_exit", !.transition = First(Candidates),
                                !.source = current[Top.signal]]
    <3>1. stack' = Update(g) /\ Top.phase = "matching"
      BY <2>1 DEF Match, Running
    <3>2. g.signal = Top.signal /\ g.phase = "on_exit"
      BY <1>2 DEF Frames
    <3> QED
      BY <3>1, <3>2
  <2>2. CASE LeaveSource
    <3> DEFINE g == [Top EXCEPT !.phase = "on_transition", !.next = 1]
    <3>1. stack' = Update(g) /\ Top.phase = "on_exit"
      BY <2>2 DEF LeaveSource, Running
    <3>2. g.signal = Top.signal /\ g.phase = "on_transition"
      BY <1>2 DEF Frames
    <3> QED
      BY <3>1, <3>2
  <2>3. CASE BeginEnter
    <3> DEFINE g == [Top EXCEPT !.phase = "on_enter", !.next = 1]
    <3>1. stack' = Update(g) /\ Top.phase = "on_transition"
      BY <2>3 DEF BeginEnter, Running
    <3>2. g.signal = Top.signal /\ g.phase = "on_enter"
      BY <1>2 DEF Frames
    <3> QED
      BY <3>1, <3>2
  <2>4. CASE PopReaction
    <3> DEFINE g == [Top EXCEPT !.sched.ready = Tail(@), !.firing = Head(Top.sched.ready)]
    <3>1. stack' = Update(g) /\ Top.phase = "dispatch"
      BY <2>4 DEF PopReaction, Running
    <3>2. g.signal = Top.signal /\ g.phase = Top.phase
      BY <1>2 DEF Frames
    <3> QED
      BY <3>1, <3>2
  <2> QED
    BY <2>1, <2>2, <2>3, <2>4
<1>4. /\ stack' # <<>> /\ Top' = f
      /\ stack'[1].signal = stack[1].signal
      /\ \A k \in 2..Len(stack') : stack'[k].signal \in SignalIds(topo)
  BY <1>1, <1>2, <1>3, UpdateKeepsSignals DEF CallOK
<1>5. Adds(trace, trace', QuietKinds)
  BY <1>1, <1>2, AddsNothing
<1> QED
  BY <1>1, <1>3, <1>4, <1>5, CallGoesOn

LEMMA SkipReactionCallOK == ASSUME IInv, CallOK, SkipReaction PROVE CallOK'
<1>1. /\ stack # <<>> /\ Calling(Top) /\ outcome = "running"
      /\ trace' = trace \o GuardLog
      /\ UNCHANGED <<topo, began, outcome>>
  BY DEF SkipReaction, Firing, Running, Calling, setup
<1>2. Top \in Frames /\ IsSequence(trace) /\ StackOK
  BY <1>1, TopFrame DEF IInv, TraceOK
<1>3. PICK f \in Settled(Top) : stack' = Update(f)
  BY DEF SkipReaction
<1>4. f.signal = Top.signal /\ f.phase = Top.phase
  BY <1>2 DEF Frames, Settled
<1>5. /\ stack' # <<>> /\ Top' = f
      /\ stack'[1].signal = stack[1].signal
      /\ \A k \in 2..Len(stack') : stack'[k].signal \in SignalIds(topo)
  BY <1>1, <1>2, <1>3, <1>4, UpdateKeepsSignals DEF CallOK
<1>6. Adds(trace, trace', QuietKinds)
  BY <1>1, <1>2, GuardAdds DEF Adds, QuietKinds
<1> QED
  BY <1>1, <1>4, <1>5, <1>6, CallGoesOn

LEMMA ReturnToReactionCallOK == ASSUME IInv, CallOK, ReturnToReaction PROVE CallOK'
<1> DEFINE n == Len(Below)
<1>1. /\ stack # <<>> /\ Top.phase = "dispatch" /\ outcome = "running"
      /\ Below # <<>>
      /\ UNCHANGED <<topo, began, trace, outcome>>
  BY DEF ReturnToReaction, DispatchDone, Running, setup
<1>2. PICK f \in Settled(Below[n]) : stack' = [Below EXCEPT ![n] = f]
  BY DEF ReturnToReaction
<1>3. /\ n \in Nat \ {0} /\ n < Len(stack)
      /\ Below \in Seq(Frames)
      /\ Below[n] = stack[n] /\ Below[n] \in Frames
  BY <1>1, PopTop DEF IInv, StackOK, Below
<1>4. Calling(Below[n])
  BY <1>3, PopTop DEF IInv, StackOK, Below
<1>5. f.signal = Below[n].signal /\ f.phase = "dispatch"
  BY <1>3, <1>4 DEF Frames, Settled, Calling
<1>6. /\ Len(stack') = n
      /\ \A i \in 1..n : stack'[i] = IF i = n THEN f ELSE Below[i]
  <2>1. Below \in Seq(Frames \cup {f})
    BY <1>3, SeqMonotonic
  <2> HIDE DEF n
  <2>2. n = Len(Below)
    BY DEF n
  <2> QED
    BY <1>2, <1>3, <2>1, <2>2, ExceptSeq
<1> HIDE DEF n
<1>7. stack' # <<>> /\ Top' = f
  BY <1>3, <1>6, EmptySeq DEF Top
<1>8. \A i \in 1..n : stack'[i].signal = Below[i].signal
  BY <1>5, <1>6
<1>9. /\ stack'[1].signal = stack[1].signal
      /\ \A k \in 2..Len(stack') : stack'[k].signal \in SignalIds(topo)
  <2>1. /\ Below[1].signal = stack[1].signal
        /\ \A k \in 2..n : Below[k].signal \in SignalIds(topo)
    BY <1>1, BelowKeepsSignals DEF CallOK, IInv, n
  <2> QED
    BY <1>3, <1>6, <1>8, <2>1
<1>10. Adds(trace, trace', QuietKinds)
  BY <1>1, AddsNothing DEF IInv, TraceOK
<1> QED
  BY <1>1, <1>5, <1>7, <1>9, <1>10, CallGoesOn

\* The event of the top frame is committed.
LEMMA CommitCallOK == ASSUME IInv, CallOK, Commit PROVE CallOK'
<1> DEFINE e == StateChanged(Top.signal, Top.source, TransitionOf(Top).to)
           R == MatchingReactions(topo, Top.signal, TransitionOf(Top).to)
<1>1. /\ stack # <<>> /\ Top.phase = "on_enter" /\ outcome = "running"
      /\ trace' = Append(trace, e)
      /\ UNCHANGED <<topo, began, outcome>>
  BY DEF Commit, Running, setup
<1>2. PICK d : stack' = Update([Top EXCEPT !.phase = "dispatch", !.matched = R, !.sched = d])
  BY DEF Commit
<1> DEFINE f == [Top EXCEPT !.phase = "dispatch", !.matched = R, !.sched = d]
<1>3. Top \in Frames /\ IsSequence(trace) /\ StackOK
  BY <1>1, TopFrame DEF IInv, TraceOK
<1>4. f.signal = Top.signal /\ f.phase = "dispatch"
  BY <1>3 DEF Frames
<1>5. stack' = Update(f)
  BY <1>2
<1>6. e.kind = "StateChanged"
  BY DEF StateChanged
<1> HIDE DEF f, e
<1>7. /\ stack' # <<>> /\ Top' = f
      /\ stack'[1].signal = stack[1].signal
      /\ \A k \in 2..Len(stack') : stack'[k].signal \in SignalIds(topo)
  BY <1>1, <1>3, <1>4, <1>5, UpdateKeepsSignals DEF CallOK
<1>8. Adds(trace, trace', {"StateChanged"})
  BY <1>1, <1>3, <1>6, AddsEntry
<1>9. /\ began \in 0..Len(trace) /\ began' < Len(trace')
      /\ trace'[began' + 1] = trace[began + 1]
  BY <1>1, <1>8, HeadKept DEF CallOK
<1>10. \A kind \in {"Rollbacked", "ReactionCompensated", "EventReceived"} :
         Since(trace', began', kind) = Since(trace, began, kind)
  BY <1>1, <1>8, <1>9, SinceKept
<1>11. Cardinality(Since(trace', began', "StateChanged"))
         = Cardinality(Since(trace, began, "StateChanged")) + 1
  BY <1>1, <1>3, <1>6, <1>9, SinceGrows
<1>12. CallShape'
  BY <1>1, <1>7, <1>9 DEF CallOK, CallShape
<1>13. OneError'
  BY <1>1, <1>10 DEF CallOK, OneError, Errors
<1>14. Counted'
  <2>1. Pending = 1 /\ Pending' = 0
    BY <1>1, <1>4, <1>7 DEF Pending, Errors
  <2>2. Cardinality(Since(trace, began, "StateChanged")) \in Nat
    BY <1>9, SinceFinite, LenProperties, <1>3 DEF IsSequence
  <2> QED
    BY <1>1, <1>10, <1>11, <2>1, <2>2 DEF CallOK, Counted
<1> QED
  BY <1>12, <1>13, <1>14 DEF CallOK

\* A derived event is received, or the cascade is cut at its limit.
LEMMA FireReactionCallOK == ASSUME IInv, CallOK, FireReaction PROVE CallOK'
<1>1. /\ stack # <<>> /\ Calling(Top) /\ outcome = "running"
      /\ UNCHANGED <<topo, began>>
  BY DEF FireReaction, Firing, Running, Calling, setup
<1>2. Top \in Frames /\ FrameOK(Top) /\ IsSequence(trace) /\ StackOK
  BY <1>1, TopFrame DEF IInv, TraceOK
<1>3. Adds(trace, trace \o GuardLog, {"ReactionGuardEvaluated"})
  BY <1>2, GuardAdds
<1>4. CASE /\ outcome' = "CascadeDepthExceeded"
           /\ trace' = trace \o GuardLog
           /\ UNCHANGED stack
  <2>1. /\ began \in 0..Len(trace) /\ began' < Len(trace')
        /\ trace'[began' + 1] = trace[began + 1]
    BY <1>1, <1>3, <1>4, HeadKept DEF CallOK
  <2>2. \A kind \in {"Rollbacked", "ReactionCompensated", "EventReceived", "StateChanged"} :
          Since(trace', began', kind) = Since(trace, began, kind)
    BY <1>1, <1>3, <1>4, <2>1, SinceKept
  <2>3. CallShape'
    BY <1>1, <1>4, <2>1 DEF CallOK, CallShape
  <2>4. OneError'
    BY <1>1, <1>4, <2>2 DEF CallOK, OneError, Errors
  <2>5. Counted'
    <3>1. Pending = 0 /\ Pending' = 0
      BY <1>1, <1>4 DEF Pending, Calling, Errors
    <3> QED
      BY <1>1, <1>4, <2>2, <3>1 DEF CallOK, Counted
  <2> QED
    BY <2>3, <2>4, <2>5 DEF CallOK
<1>5. CASE /\ stack' = Append(stack, Frame(InHand.toSignal, InHand.event, InHand.payload))
           /\ trace' = Append(trace \o GuardLog, EventReceived(InHand.toSignal, InHand.event))
           /\ UNCHANGED outcome
  <2> DEFINE f == Frame(InHand.toSignal, InHand.event, InHand.payload)
             e == EventReceived(InHand.toSignal, InHand.event)
             log == trace \o GuardLog
             n == Len(stack)
  <2>1. Top.firing \in DOMAIN topo.reactions
    BY <1>1, <1>2 DEF Calling, Frames
  <2>2. InHand.toSignal \in SignalIds(topo)
    BY <2>1 DEF InHand, IInv, SetupOK, Valid, ReactionsOk
  <2>3. f.signal \in SignalIds(topo) /\ f.phase = "matching"
    BY <2>2 DEF Frame
  <2>4. e.kind = "EventReceived"
    BY DEF EventReceived
  <2> HIDE DEF f, e
  <2>5. stack' = Append(stack, f) /\ trace' = Append(log, e)
    BY <1>5 DEF f, e
  <2>6. IsSequence(log) /\ Adds(trace, log, {"ReactionGuardEvaluated"})
    BY <1>3 DEF Adds
  <2> HIDE DEF log
  <2>7. Adds(trace, trace', {"ReactionGuardEvaluated", "EventReceived"})
    <3>1. Adds(log, trace', {"EventReceived"})
      BY <2>4, <2>5, <2>6, AddsEntry
    <3>2. {"ReactionGuardEvaluated", "EventReceived"}
            = {"ReactionGuardEvaluated"} \cup {"EventReceived"}
      OBVIOUS
    <3> QED
      BY <2>6, <3>1, <3>2, AddsTransitive
  <2>8. /\ began \in 0..Len(trace) /\ began' < Len(trace')
        /\ trace'[began' + 1] = trace[began + 1]
    BY <1>1, <2>7, HeadKept DEF CallOK
  <2>9. \A kind \in {"Rollbacked", "ReactionCompensated", "StateChanged"} :
          Since(trace', began', kind) = Since(trace, began, kind)
    BY <1>1, <2>7, <2>8, SinceKept
  <2>10. Cardinality(Since(trace', began', "EventReceived"))
           = Cardinality(Since(trace, began, "EventReceived")) + 1
    <3>1. began \in 0..Len(log)
      BY <2>6, <2>8 DEF Adds
    <3>2. Since(log, began, "EventReceived") = Since(trace, began, "EventReceived")
      BY <2>6, <2>8, SinceKept
    <3> QED
      BY <1>1, <2>4, <2>5, <2>6, <3>1, <3>2, SinceGrows
  <2>11. /\ n \in Nat
         /\ Len(stack') = n + 1
         /\ \A i \in 1..n : stack'[i] = stack[i]
         /\ stack'[n + 1] = f
         /\ n # 0
    <3>1. stack \in Seq(Frames \cup {f})
      BY <1>2, SeqMonotonic DEF StackOK
    <3>2. n \in Nat /\ n # 0
      BY <1>1, <1>2, PopTop DEF StackOK
    <3> QED
      BY <2>5, <3>1, <3>2, Push
  <2> HIDE DEF n
  <2>12. stack' # <<>> /\ Top' = f
    BY <2>11, EmptySeq DEF Top
  <2>13. CallShape'
    <3>1. stack'[1] = stack[1]
      BY <2>11
    <3>2. \A k \in 2..(n + 1) : stack'[k].signal \in SignalIds(topo)
      BY <2>3, <2>11 DEF CallOK, CallShape, n
    <3> QED
      BY <1>1, <1>5, <2>8, <2>11, <2>12, <3>1, <3>2 DEF CallOK, CallShape
  <2>14. OneError'
    BY <1>1, <1>5, <2>9 DEF CallOK, OneError, Errors
  <2>15. Counted'
    <3>1. Pending = 0 /\ Pending' = 1
      BY <1>1, <1>5, <2>3, <2>12 DEF Pending, Calling, Errors
    <3>2. Cardinality(Since(trace, began, "StateChanged")) \in Nat
      BY <2>8, SinceFinite, LenProperties, <1>2 DEF IsSequence
    <3> QED
      BY <1>1, <2>9, <2>10, <3>1, <3>2 DEF CallOK, Counted
  <2> QED
    BY <2>13, <2>14, <2>15 DEF CallOK
<1> QED
  BY <1>4, <1>5 DEF FireReaction

LEMMA ReturnToCallerCallOK == ASSUME IInv, CallOK, ReturnToCaller PROVE CallOK'
<1>1. /\ Top.phase = "dispatch" /\ outcome = "running"
      /\ stack' = <<>> /\ Len(stack') = 0 /\ outcome' = "ok"
      /\ UNCHANGED <<topo, began, trace>>
  BY EmptySeq DEF ReturnToCaller, DispatchDone, Running, setup
<1>2. Pending = 0 /\ Pending' = 0
  BY <1>1 DEF Pending, Errors
<1>3. CallShape' /\ OneError'
  BY <1>1 DEF CallOK, CallShape, OneError, Errors
<1>4. Counted'
  BY <1>1, <1>2 DEF CallOK, Counted
<1> QED
  BY <1>3, <1>4 DEF CallOK

\* A hook is told the error that is passed on.
LEMMA UnwindingCallOK == ASSUME IInv, CallOK, Compensate \/ Propagate PROVE CallOK'
<1>1. /\ outcome \in Errors /\ stack # <<>>
      /\ stack' = Below
      /\ UNCHANGED <<topo, began, outcome>>
  BY DEF Compensate, Propagate, Unwinding, setup
<1>2. IsSequence(trace) /\ StackOK
  BY DEF IInv, TraceOK
<1>3. /\ Adds(trace, trace', ActionKinds \cup {"ReactionCompensated"})
      /\ \A i \in (Len(trace) + 1)..Len(trace') :
           trace'[i].kind = "ReactionCompensated" => trace'[i].error = outcome
  <2>1. CASE Propagate
    <3>1. trace' = trace /\ \A i \in (Len(trace) + 1)..Len(trace') : FALSE
      BY <1>2, <2>1, LenProperties DEF Propagate, IsSequence
    <3> QED
      BY <1>2, <3>1, AddsNothing
  <2>2. CASE Compensate
    <3> DEFINE e == Compensated(Top.signal, Top.firing, outcome)
    <3>1. PICK run \in ActionRuns(InHand.toSignal, InHand.onFail) : trace' = Append(trace \o run.log, e)
      BY <2>2 DEF Compensate
    <3> DEFINE log == trace \o run.log
    <3>2. Adds(trace, log, ActionKinds) /\ IsSequence(log)
      BY <1>2, ActionsAdd DEF Adds
    <3>3. e.kind = "ReactionCompensated" /\ e.error = outcome
      BY DEF Compensated
    <3> HIDE DEF e, log
    <3>4. trace' = Append(log, e)
      BY <3>1 DEF log
    <3>5. Adds(log, trace', {"ReactionCompensated"})
      BY <3>2, <3>3, <3>4, AddsEntry
    <3>6. Adds(trace, trace', ActionKinds \cup {"ReactionCompensated"})
      BY <3>2, <3>5, AddsTransitive
    <3>7. ASSUME NEW i \in (Len(trace) + 1)..Len(trace'), trace'[i].kind = "ReactionCompensated"
          PROVE  trace'[i].error = outcome
      <4>1. /\ Len(log) \in Nat /\ Len(trace') = Len(log) + 1
            /\ \A j \in 1..Len(log) : trace'[j] = log[j]
            /\ trace'[Len(log) + 1] = e
        BY <3>2, <3>4, AppendEntry
      <4>2. CASE i = Len(log) + 1
        BY <3>3, <4>1, <4>2
      <4>3. CASE i # Len(log) + 1
        <5>1. i \in (Len(trace) + 1)..Len(log) /\ i \in 1..Len(log)
          BY <3>2, <4>1, <4>3 DEF Adds
        <5>2. trace'[i].kind \in ActionKinds
          BY <3>2, <4>1, <5>1 DEF Adds
        <5> QED
          BY <3>7, <5>2 DEF ActionKinds
      <4> QED
        BY <4>2, <4>3
    <3> QED
      BY <3>6, <3>7
  <2> QED
    BY <2>1, <2>2
<1>4. /\ began \in 0..Len(trace) /\ began' < Len(trace')
      /\ trace'[began' + 1] = trace[began + 1]
  BY <1>1, <1>3, HeadKept DEF CallOK, Errors
<1>5. \A kind \in {"EventReceived", "StateChanged"} :
        Since(trace', began', kind) = Since(trace, began, kind)
  BY <1>1, <1>3, <1>4, SinceKept DEF ActionKinds
<1>6. CallShape'
  <2>1. /\ stack' # <<>> => stack'[1].signal = stack[1].signal
        /\ \A k \in 2..Len(stack') : stack'[k].signal \in SignalIds(topo)
    BY <1>1, <1>2, BelowKeepsSignals DEF CallOK
  <2> QED
    BY <1>1, <1>4, <2>1 DEF CallOK, CallShape, Errors
<1>7. OneError'
  <2>1. ASSUME NEW i \in Since(trace', began', "ReactionCompensated")
        PROVE  trace'[i].error = outcome
    <3>1. CASE i <= Len(trace)
      <4>1. i \in 1..Len(trace) /\ i \in (began + 1)..Len(trace)
        BY <1>1, <1>4, <2>1, <3>1 DEF Since
      <4>2. i \in Since(trace, began, "ReactionCompensated") /\ trace'[i] = trace[i]
        BY <1>3, <2>1, <4>1 DEF Since, Adds
      <4> QED
        BY <1>1, <4>2 DEF CallOK, OneError
    <3>2. CASE ~(i <= Len(trace))
      BY <1>1, <1>3, <1>4, <2>1, <3>2 DEF Since, Adds
    <3> QED
      BY <3>1, <3>2
  <2> QED
    BY <1>1, <2>1 DEF OneError, Errors
<1>8. Counted'
  <2>1. Pending' = Pending
    BY <1>1 DEF Pending, Errors
  <2> QED
    BY <1>1, <1>5, <2>1 DEF CallOK, Counted
<1> QED
  BY <1>6, <1>7, <1>8 DEF CallOK

LEMMA CallSteps == IInv /\ CallOK /\ [Next]_vars => CallOK'
<1> SUFFICES ASSUME IInv, CallOK, [Next]_vars PROVE CallOK'
  OBVIOUS
<1>1. CASE Caller
  BY <1>1, BetweenEventsCallOK, SendEventCallOK DEF Caller
<1>2. CASE Event
  BY <1>2, RejectCallOK, RunActionCallOK, QuietStepsCallOK, CommitCallOK DEF Event
<1>3. CASE Cascade
  BY <1>3, QuietStepsCallOK, SkipReactionCallOK, FireReactionCallOK, ReturnToReactionCallOK,
     ReturnToCallerCallOK DEF Cascade
<1>4. CASE Compensate \/ Propagate
  BY <1>4, UnwindingCallOK
<1>5. CASE UNCHANGED vars
  BY <1>5 DEF vars, CallOK, CallShape, OneError, Counted, Pending, Top
<1> QED
  BY <1>1, <1>2, <1>3, <1>4, <1>5 DEF Next, Engine

LEMMA CallInvariance == Spec => [](IInv /\ CallOK)
<1>1. IInv /\ CallOK /\ [Next]_vars => IInv' /\ CallOK'
  BY StepPreserves, CallSteps
<1> QED
  BY <1>1, InitEstablishes, InitCallOK, PTL DEF Spec

-----------------------------------------------------------------------------
(* The properties of a call                                                *)

\* The call's log, entry by entry.
LEMMA CallLogEntries ==
  ASSUME IInv
  PROVE  /\ Len(trace) \in Nat /\ began \in 0..Len(trace)
         /\ DOMAIN CallLog = 1..(Len(trace) - began)
         /\ \A i \in 1..(Len(trace) - began) : CallLog[i] = trace[began + i]
<1>1. PICK S : trace \in Seq(S)
  BY DEF IInv, TraceOK, IsSequence
<1>2. Len(trace) \in Nat /\ trace \in [1..Len(trace) -> S] /\ began \in 0..Len(trace)
  BY <1>1, LenProperties DEF IInv, TraceOK
<1>3. /\ CallLog = [i \in 1..(Len(trace) - began) |-> trace[i + began]]
  BY <1>1, <1>2 DEF CallLog
<1> QED
  BY <1>2, <1>3

LEMMA LoggedSince ==
  ASSUME IInv, NEW kind
  PROVE  /\ \A i : i \in Logged(kind) <=> i \in Nat \ {0} /\ began + i \in Since(trace, began, kind)
         /\ \A i \in Logged(kind) : CallLog[i] = trace[began + i]
         /\ Cardinality(Logged(kind)) = Cardinality(Since(trace, began, kind))
<1>1. /\ Len(trace) \in Nat /\ began \in 0..Len(trace)
      /\ DOMAIN CallLog = 1..(Len(trace) - began)
      /\ \A i \in 1..(Len(trace) - began) : CallLog[i] = trace[began + i]
  BY CallLogEntries
<1>2. Logged(kind) = {i \in 1..(Len(trace) - began) : trace[began + i].kind = kind}
  BY <1>1 DEF Logged
<1>3. \A i : i \in Logged(kind) <=> i \in Nat \ {0} /\ began + i \in Since(trace, began, kind)
  BY <1>1, <1>2 DEF Since
<1>4. Cardinality(Logged(kind)) = Cardinality(Since(trace, began, kind))
  <2> DEFINE A == Logged(kind)
             B == Since(trace, began, kind)
             shift == [i \in A |-> began + i]
  <2>1. IsFiniteSet(B)
    <3>1. began \in Nat
      BY <1>1
    <3> QED
      BY <1>1, <3>1, SinceFinite
  <2>2. A \subseteq Nat /\ B \subseteq Nat /\ \A b \in B : b - began \in A
    BY <1>1, <1>2, <1>3 DEF Since
  <2>3. shift \in Bijection(A, B)
    <3>1. shift \in [A -> B]
      BY <1>3
    <3>2. \A a, b \in A : shift[a] = shift[b] => a = b
      BY <1>1, <2>2
    <3>3. \A b \in B : \E a \in A : shift[a] = b
      BY <1>1, <2>2
    <3> HIDE DEF A, B, shift
    <3> QED
      BY <3>1, <3>2, <3>3, Fun_IsBij
  <2>4. ExistsBijection(A, B)
    BY <2>3 DEF ExistsBijection
  <2> HIDE DEF A, B
  <2>5. ExistsBijection(B, A)
    BY <2>4, Fun_ExistsBijSymmetric
  <2>6. IsFiniteSet(A) /\ Cardinality(A) = Cardinality(B)
    BY <2>1, <2>5, FS_Bijection
  <2> QED
    BY <2>6 DEF A, B
<1> QED
  BY <1>1, <1>2, <1>3, <1>4

\* send_event returns Ok only if all the events it set off have committed, and
\* an error only if all but one have.
THEOREM OkIsEarned == Spec => []OkMeansAllCommitted
<1>1. IInv /\ CallOK => OkMeansAllCommitted
  <2> SUFFICES ASSUME IInv, CallOK, stack = <<>>, outcome # "idle"
               PROVE  /\ outcome = "ok" =>
                           /\ Cardinality(Logged("EventReceived")) = Cardinality(Logged("StateChanged"))
                           /\ Logged("Rollbacked") \cup Logged("ReactionCompensated") = {}
                      /\ outcome \in Errors =>
                           Cardinality(Logged("EventReceived"))
                             = Cardinality(Logged("StateChanged"))
                                 + (IF outcome = "CascadeDepthExceeded" THEN 0 ELSE 1)
    BY DEF OkMeansAllCommitted
  <2>1. /\ Cardinality(Logged("EventReceived")) = Cardinality(Since(trace, began, "EventReceived"))
        /\ Cardinality(Logged("StateChanged")) = Cardinality(Since(trace, began, "StateChanged"))
    BY LoggedSince
  <2>2. Cardinality(Since(trace, began, "StateChanged")) \in Nat
    BY SinceFinite, CallLogEntries
  <2>3. Cardinality(Logged("EventReceived")) = Cardinality(Logged("StateChanged")) + Pending
    BY <2>1 DEF CallOK, Counted
  <2>4. ASSUME outcome = "ok"
        PROVE  /\ Pending = 0
               /\ Logged("Rollbacked") \cup Logged("ReactionCompensated") = {}
    <3>1. Pending = 0
      BY <2>4 DEF Pending, Errors
    <3>2. Since(trace, began, "Rollbacked") = {} /\ Since(trace, began, "ReactionCompensated") = {}
      BY <2>4 DEF CallOK, OneError
    <3> QED
      BY <3>1, <3>2, LoggedSince
  <2>5. ASSUME outcome \in Errors
        PROVE  Pending = IF outcome = "CascadeDepthExceeded" THEN 0 ELSE 1
    BY <2>5 DEF Pending, Errors
  <2> QED
    BY <2>1, <2>2, <2>3, <2>4, <2>5
<1> QED
  BY <1>1, CallInvariance, PTL

\* The hooks that run while a call fails are all told the error it returns.
THEOREM OneErrorEach == Spec => []OneErrorPerCall
<1>1. IInv /\ CallOK => OneErrorPerCall
  <2> SUFFICES ASSUME IInv, CallOK, outcome # "idle", NEW i \in Logged("ReactionCompensated")
               PROVE  CallLog[i].error = outcome
    BY DEF OneErrorPerCall
  <2>1. /\ began + i \in Since(trace, began, "ReactionCompensated")
        /\ CallLog[i] = trace[began + i]
    BY LoggedSince
  <2>2. outcome \in Errors
    BY <2>1 DEF CallOK, OneError, IInv, SetupOK
  <2> QED
    BY <2>1, <2>2 DEF CallOK, OneError
<1> QED
  BY <1>1, CallInvariance, PTL

\* Only the caller can name a signal that does not exist.
THEOREM DerivedEventsFindTheirSignal == Spec => []CascadesFindTheirSignal
<1>1. IInv /\ CallOK => CascadesFindTheirSignal
  <2> SUFFICES ASSUME IInv, CallOK, outcome = "SignalNotFound"
               PROVE  CallLog[1].signal \notin SignalIds(topo)
    BY DEF CascadesFindTheirSignal
  <2>1. began < Len(trace) /\ trace[began + 1].signal \notin SignalIds(topo)
    BY DEF CallOK, CallShape
  <2>2. CallLog[1] = trace[began + 1]
    BY <2>1, CallLogEntries
  <2> QED
    BY <2>1, <2>2
<1> QED
  BY <1>1, CallInvariance, PTL

-----------------------------------------------------------------------------
(* The dispatches of a cascade                                             *)

\* A dispatch sees of the reactions only those it was given.
LEMMA SameBooks ==
  ASSUME NEW k, NEW f, f \in Frames, FrameOK(f), Calling(f),
         NEW rs, rs = [r \in f.matched |-> topo.reactions[r]]
  PROVE  FrameDispatch(k)!AfterFiring(rs, DOMAIN rs, f.sched, f.firing)
           = AfterFiring(topo.reactions, f.matched, f.sched, f.firing)
<1> DEFINE R == f.matched
           d == f.sched
           r == f.firing
           g == topo.reactions[r].group
<1>1. /\ r \in R /\ DOMAIN rs = R /\ d.waiting \subseteq R
      /\ \A x \in R : rs[x] = topo.reactions[x]
  BY DEF Calling, FrameOK, BooksRight
<1> HIDE DEF R, d, r
<1>2. Members(rs, R, g) = Members(topo.reactions, R, g)
  BY <1>1 DEF Members
<1>3. \A complete : Unblocked(rs, d.waiting, complete) = Unblocked(topo.reactions, d.waiting, complete)
  BY <1>1 DEF Unblocked
<1> DEFINE books(freed, waiting, done, complete) ==
             {[ready |-> d.ready \o q, waiting |-> waiting, done |-> done,
               complete |-> complete] : q \in InSourceOrder(freed)}
           done   == [d.done EXCEPT ![g] = @ + 1]
           groups == d.complete \cup {g}
           freed  == Unblocked(topo.reactions, d.waiting, groups)
           after  == IF g = NoGroup THEN {d}
                     ELSE IF done[g] # GroupTotal(topo.reactions, R, g)
                     THEN {[d EXCEPT !.done = done]}
                     ELSE books(freed, StillWaiting(d.waiting, freed), done, groups)
<1>4. AfterFiring(topo.reactions, R, d, r) = after
  BY DEF AfterFiring
<1>5. \A S : FrameDispatch(k)!Cardinality(S) = Cardinality(S)
  BY DEF Cardinality, FrameDispatch!Cardinality
<1>6. FrameDispatch(k)!AfterFiring(rs, R, d, r) = after
  <2>1. \A S : FrameDispatch(k)!InSourceOrder(S) = InSourceOrder(S)
    BY <1>5 DEF InSourceOrder, FrameDispatch!InSourceOrder
  <2>2. FrameDispatch(k)!GroupTotal(rs, R, g) = GroupTotal(topo.reactions, R, g)
    BY <1>2, <1>5 DEF GroupTotal, FrameDispatch!GroupTotal, Members, FrameDispatch!Members
  <2>3. FrameDispatch(k)!Unblocked(rs, d.waiting, groups) = freed
    BY <1>3 DEF Unblocked, FrameDispatch!Unblocked
  <2>4. \A x, y : FrameDispatch(k)!StillWaiting(x, y) = StillWaiting(x, y)
    BY DEF StillWaiting, FrameDispatch!StillWaiting
  <2>5. rs[r].group = g
    BY <1>1
  <2> HIDE DEF freed, g
  <2>6. CASE g = NoGroup
    BY <2>5, <2>6 DEF FrameDispatch!AfterFiring
  <2>7. CASE g # NoGroup /\ done[g] # GroupTotal(topo.reactions, R, g)
    BY <2>2, <2>5, <2>7 DEF FrameDispatch!AfterFiring
  <2>8. CASE g # NoGroup /\ done[g] = GroupTotal(topo.reactions, R, g)
    <3> DEFINE book(q) == [ready    |-> d.ready \o q,
                           waiting  |-> StillWaiting(d.waiting, freed),
                           done     |-> done,
                           complete |-> groups]
    <3>1. ASSUME NEW x
          PROVE  x \in FrameDispatch(k)!AfterFiring(rs, R, d, r)
                   <=> \E q \in InSourceOrder(freed) : x = book(q)
      <4> DEFINE groups2 == d.complete \cup {rs[r].group}
                 done2   == [d.done EXCEPT ![rs[r].group] = @ + 1]
                 freed2  == FrameDispatch(k)!Unblocked(rs, d.waiting, groups2)
                 held    == FrameDispatch(k)!StillWaiting(d.waiting, freed2)
                 queues  == FrameDispatch(k)!InSourceOrder(freed2)
      <4>1. x \in FrameDispatch(k)!AfterFiring(rs, R, d, r)
              <=> \E q \in queues : x = [ready |-> d.ready \o q, waiting |-> held,
                                         done |-> done2, complete |-> groups2]
        BY <2>2, <2>5, <2>8 DEF FrameDispatch!AfterFiring
      <4>2. groups2 = groups /\ done2 = done
        BY <2>5
      <4>3. freed2 = freed
        BY <2>3, <4>2
      <4> HIDE DEF done, groups, done2, groups2, freed2
      <4>4. held = StillWaiting(d.waiting, freed) /\ queues = InSourceOrder(freed)
        BY <2>1, <2>4, <4>3
      <4> HIDE DEF held, queues
      <4> QED
        BY <4>1, <4>2, <4>4
    <3>2. ASSUME NEW x
          PROVE  x \in after <=> \E q \in InSourceOrder(freed) : x = book(q)
      BY <2>8
    <3> QED
      BY <3>1, <3>2
  <2> QED
    BY <2>6, <2>7, <2>8
<1> QED
  BY <1>1, <1>4, <1>6, Zenon DEF R, d, r

\* A frame that does not move: its dispatch stutters, or ends because the call fails.
LEMMA FrameRests ==
  ASSUME NEW k, UNCHANGED <<topo, stack[k]>>,
         outcome' # outcome => /\ outcome = "running" /\ outcome' # "running"
                               /\ stack[k].firing # 0
  PROVE  [FrameDispatch(k)!Next]_(FrameDispatch(k)!vars)
<1>1. CASE outcome' = outcome
  BY <1>1 DEF FrameDispatch!vars
<1>2. CASE outcome' # outcome
  <2>1. FrameDispatch(k)!Abort
    BY <1>2 DEF FrameDispatch!Abort
  <2> QED
    BY <2>1 DEF FrameDispatch!Next
<1> QED
  BY <1>1, <1>2

\* The reaction in hand is settled.
LEMMA FrameSettles ==
  ASSUME IInv, NEW k, stack[k] \in Frames, FrameOK(stack[k]), Calling(stack[k]),
         stack'[k] \in Settled(stack[k]), UNCHANGED topo,
         outcome = "running", outcome' = "running"
  PROVE  FrameDispatch(k)!Next
<1> DEFINE f == stack[k]
           g == stack'[k]
           rs == [r \in f.matched |-> topo.reactions[r]]
<1>1. /\ g.firing = 0 /\ g.matched = f.matched
      /\ g.sched \in AfterFiring(topo.reactions, f.matched, f.sched, f.firing)
      /\ Past(g) = Past(f) \cup {f.firing}
  BY SettledFrame DEF IInv
<1>2. f.firing # 0
  BY DEF Calling
<1>3. g.sched \in FrameDispatch(k)!AfterFiring(rs, DOMAIN rs, f.sched, f.firing)
  <2> HIDE DEF f, g, rs
  <2>1. f \in Frames /\ FrameOK(f) /\ Calling(f)
    BY DEF f
  <2> QED
    BY <1>1, <2>1, SameBooks DEF rs
<1>4. FrameDispatch(k)!Settle
  BY <1>1, <1>2, <1>3 DEF FrameDispatch!Settle, FrameDispatch!Reactions, Past
<1> QED
  BY <1>4 DEF FrameDispatch!Next

\* A reaction is taken from the queue.
LEMMA FramePops ==
  ASSUME IInv, NEW k, stack[k] \in Frames, FrameOK(stack[k]),
         stack[k].phase = "dispatch", stack[k].firing = 0, stack[k].sched.ready # <<>>,
         stack'[k] = [stack[k] EXCEPT !.sched.ready = Tail(@),
                                      !.firing = Head(stack[k].sched.ready)],
         UNCHANGED topo, outcome = "running", outcome' = "running"
  PROVE  FrameDispatch(k)!Next
<1> DEFINE f == stack[k]
           g == stack'[k]
<1>1. g = [f EXCEPT !.sched = [f.sched EXCEPT !.ready = Tail(f.sched.ready)],
                    !.firing = Head(f.sched.ready)]
  BY DEF Frames
<1>2. /\ g.matched = f.matched
      /\ g.firing = Head(f.sched.ready)
      /\ g.sched = [f.sched EXCEPT !.ready = Tail(f.sched.ready)]
      /\ Past(g) = Past(f)
  BY <1>1, PoppedFrame DEF IInv
<1>3. FrameDispatch(k)!Pop
  <2>1. Past(g) = f.matched \ (Elements(g.sched.ready) \cup g.sched.waiting \cup {g.firing})
    BY <1>2 DEF Past
  <2>2. Past(f) = f.matched \ (Elements(f.sched.ready) \cup f.sched.waiting \cup {f.firing})
    BY DEF Past
  <2> HIDE DEF f, g
  <2> QED
    BY <1>2, <2>1, <2>2 DEF FrameDispatch!Pop, f, g
<1> QED
  BY <1>3 DEF FrameDispatch!Next

\* The frames below the top one, when it goes on, leaves, or is left by a new one.
LEMMA FramesInPlace ==
  ASSUME StackOK, stack # <<>>
  PROVE  /\ Len(stack) \in Nat \ {0} /\ DOMAIN stack = 1..Len(stack)
         /\ stack[Len(stack)] = Top
         /\ \A i \in DOMAIN stack : stack[i] \in Frames /\ FrameOK(stack[i])
         /\ \A i \in DOMAIN stack : i # Len(stack) => Calling(stack[i])
         /\ DOMAIN Below = 1..(Len(stack) - 1)
         /\ Len(Below) = Len(stack) - 1
         /\ \A i \in 1..(Len(stack) - 1) : Below[i] = stack[i]
         /\ \A f : /\ DOMAIN Update(f) = 1..Len(stack)
                  /\ Update(f)[Len(stack)] = f
                  /\ \A i \in 1..(Len(stack) - 1) : Update(f)[i] = stack[i]
         /\ \A f : /\ DOMAIN Append(stack, f) = 1..(Len(stack) + 1)
                  /\ \A i \in 1..Len(stack) : Append(stack, f)[i] = stack[i]
<1> DEFINE n == Len(stack)
<1>1. /\ n \in Nat \ {0} /\ DOMAIN stack = 1..n
      /\ Below \in Seq(Frames) /\ Len(Below) = n - 1
      /\ \A i \in 1..(n - 1) : Below[i] = stack[i]
  BY PopTop, LenProperties DEF StackOK, Below
<1>2. DOMAIN Below = 1..(n - 1)
  BY <1>1, LenProperties
<1>3. ASSUME NEW i \in 1..n
      PROVE  stack[i] \in Frames /\ FrameOK(stack[i]) /\ (i # n => Calling(stack[i]))
  <2>1. i # n => i \in 1..(n - 1)
    <3> HIDE DEF n
    <3> QED
      BY <1>1
  <2>2. stack[i] \in Frames
    BY ElementOfSeq DEF StackOK
  <2> QED
    BY <2>1, <2>2 DEF StackOK
<1>4. IsSequence(Below) /\ IsSequence(stack)
  <2> HIDE DEF n
  <2>1. stack \in Seq(Frames)
    BY Zenon DEF StackOK
  <2> QED
    BY <1>1, <2>1 DEF IsSequence
<1>5. ASSUME NEW f
      PROVE  /\ DOMAIN Update(f) = 1..n
             /\ Update(f)[n] = f
             /\ \A i \in 1..(n - 1) : Update(f)[i] = stack[i]
  <2>1. /\ DOMAIN Append(Below, f) = 1..((n - 1) + 1)
        /\ Append(Below, f)[(n - 1) + 1] = f
        /\ \A i \in 1..(n - 1) : Append(Below, f)[i] = Below[i]
    <3>1. /\ DOMAIN Append(Below, f) = 1..(Len(Below) + 1)
          /\ Append(Below, f)[Len(Below) + 1] = f
          /\ \A i \in 1..Len(Below) : Append(Below, f)[i] = Below[i]
      BY <1>4, AppendEntry
    <3> HIDE DEF n
    <3> QED
      BY <1>1, <3>1
  <2>2. (n - 1) + 1 = n
    BY <1>1
  <2> QED
    BY <1>1, <2>1, <2>2 DEF Update
<1>6. ASSUME NEW f
      PROVE  /\ DOMAIN Append(stack, f) = 1..(n + 1)
             /\ \A i \in 1..n : Append(stack, f)[i] = stack[i]
  BY <1>4, AppendEntry
<1> QED
  BY <1>1, <1>2, <1>3, <1>5, <1>6 DEF Top

\* A step of the engine moves the dispatch of each frame by a step of its own, and
\* takes a frame away only where its dispatch may return, or in an error.
LEMMA DispatchSteps ==
  ASSUME IInv, [Next]_vars, NEW k \in DOMAIN stack, stack[k].phase = "dispatch"
  PROVE  IF k \in DOMAIN stack'
         THEN [FrameDispatch(k)!Next]_(FrameDispatch(k)!vars)
         ELSE outcome = "running" => stack[k].firing = 0 /\ stack[k].sched.ready = <<>>
<1> DEFINE n == Len(stack)
<1>1. StackOK /\ stack # <<>>
  BY EmptySeq DEF IInv
<1>2. /\ n \in Nat \ {0} /\ k \in 1..n
      /\ stack[n] = Top
      /\ stack[k] \in Frames /\ FrameOK(stack[k])
      /\ k # n => k \in 1..(n - 1) /\ Calling(stack[k])
  <2>1. n \in Nat \ {0} /\ DOMAIN stack = 1..n /\ stack[n] = Top
    BY <1>1, FramesInPlace
  <2>2. \A i \in DOMAIN stack : /\ stack[i] \in Frames /\ FrameOK(stack[i])
                                /\ i # n => Calling(stack[i])
    BY <1>1, FramesInPlace, Zenon
  <2> HIDE DEF n
  <2> QED
    BY <2>1, <2>2
<1>3. /\ DOMAIN Below = 1..(n - 1) /\ Len(Below) = n - 1
      /\ \A i \in 1..(n - 1) : Below[i] = stack[i]
  BY <1>1, FramesInPlace
<1>4. \A f : /\ DOMAIN Update(f) = 1..n
            /\ Update(f)[n] = f
            /\ \A i \in 1..(n - 1) : Update(f)[i] = stack[i]
  BY <1>1, FramesInPlace
<1>5. \A f : /\ DOMAIN Append(stack, f) = 1..(n + 1)
            /\ \A i \in 1..n : Append(stack, f)[i] = stack[i]
  BY <1>1, FramesInPlace
<1>6. ASSUME k # n, UNCHANGED topo, stack' = Below \/ (\E f : stack' = Update(f)),
             outcome' = outcome \/ (outcome = "running" /\ outcome' # "running")
      PROVE  k \in DOMAIN stack' /\ [FrameDispatch(k)!Next]_(FrameDispatch(k)!vars)
  <2>1. k \in DOMAIN stack' /\ stack'[k] = stack[k]
    BY <1>2, <1>3, <1>4, <1>6
  <2>2. stack[k].firing # 0
    BY <1>2, <1>6 DEF Calling
  <2> QED
    BY <1>6, <2>1, <2>2, FrameRests
<1> HIDE DEF n
<1>7. CASE Event
  <2>1. /\ outcome = "running" /\ Top.phase # "dispatch" /\ UNCHANGED topo
    BY <1>7, Zenon DEF Event, Reject, Match, RunAction, LeaveSource, BeginEnter, Commit, Running,
                       setup
  <2>3. stack' = Below \/ \E f : stack' = Update(f)
    BY <1>7, Zenon DEF Event, Reject, Match, RunAction, LeaveSource, BeginEnter, Commit, Fail
  <2>2. k # n
    BY <1>2, <2>1
  <2>4. outcome' = outcome \/ (outcome = "running" /\ outcome' # "running")
    BY <2>1
  <2> QED
    BY <1>6, <2>1, <2>2, <2>3, <2>4, Zenon
<1>8. CASE PopReaction
  <2> DEFINE f == [Top EXCEPT !.sched.ready = Tail(@), !.firing = Head(Top.sched.ready)]
  <2>1. /\ outcome = "running" /\ outcome' = "running" /\ UNCHANGED topo
        /\ stack' = Update(f) /\ Top.firing = 0 /\ Top.sched.ready # <<>>
    BY <1>8 DEF PopReaction, Running, setup
  <2>2. CASE k = n
    <3>1. k \in DOMAIN stack' /\ stack[k] = Top /\ stack'[k] = f
      BY <1>2, <1>4, <2>1, <2>2
    <3>2. FrameDispatch(k)!Next
      BY <1>2, <2>1, <3>1, FramePops
    <3> QED
      BY <3>1, <3>2
  <2>3. CASE k # n
    BY <1>6, <2>1, <2>3
  <2> QED
    BY <2>2, <2>3
<1>9. CASE SkipReaction
  <2>1. /\ outcome = "running" /\ outcome' = "running" /\ UNCHANGED topo
        /\ Calling(Top)
    BY <1>9 DEF SkipReaction, Firing, Running, Calling, setup
  <2>2. PICK f \in Settled(Top) : stack' = Update(f)
    BY <1>9 DEF SkipReaction
  <2>3. CASE k = n
    <3>1. k \in DOMAIN stack' /\ stack[k] = Top /\ stack'[k] = f
      BY <1>2, <1>4, <2>2, <2>3
    <3>2. FrameDispatch(k)!Next
      BY <1>2, <2>1, <2>2, <3>1, FrameSettles
    <3> QED
      BY <3>1, <3>2
  <2>4. CASE k # n
    BY <1>6, <2>1, <2>2, <2>4
  <2> QED
    BY <2>3, <2>4
<1>10. CASE FireReaction
  <2>1. /\ outcome = "running" /\ UNCHANGED topo /\ Calling(Top)
        /\ outcome' = outcome \/ outcome' = "CascadeDepthExceeded"
        /\ stack' = stack \/ \E f : stack' = Append(stack, f)
    BY <1>10 DEF FireReaction, Firing, Running, Calling, setup
  <2>2. k \in DOMAIN stack' /\ stack'[k] = stack[k]
    BY <1>2, <1>5, <2>1
  <2>3. stack[k].firing # 0
    BY <1>2, <2>1 DEF Calling
  <2> QED
    BY <2>1, <2>2, <2>3, FrameRests
<1>11. CASE ReturnToReaction
  <2>1. /\ outcome = "running" /\ outcome' = "running" /\ UNCHANGED topo
        /\ Top.firing = 0 /\ Top.sched.ready = <<>>
    BY <1>11 DEF ReturnToReaction, DispatchDone, Running, setup
  <2>2. PICK f \in Settled(Below[n - 1]) : stack' = [Below EXCEPT ![n - 1] = f]
    BY <1>3, <1>11 DEF ReturnToReaction
  <2>3. /\ DOMAIN stack' = 1..(n - 1)
        /\ \A i \in 1..(n - 1) : stack'[i] = IF i = n - 1 THEN f ELSE stack[i]
    BY <1>2, <1>3, <2>2
  <2>4. CASE k = n
    <3>1. k \notin DOMAIN stack' /\ stack[k] = Top
      BY <1>2, <2>3, <2>4
    <3> QED
      BY <2>1, <3>1
  <2>5. CASE k = n - 1
    <3>1. k # n /\ k \in DOMAIN stack' /\ Calling(stack[k]) /\ stack'[k] \in Settled(stack[k])
      BY <1>2, <1>3, <2>2, <2>3, <2>5
    <3>2. FrameDispatch(k)!Next
      BY <1>2, <2>1, <3>1, FrameSettles
    <3> QED
      BY <3>1, <3>2
  <2>6. CASE k # n /\ k # n - 1
    <3>1. k \in DOMAIN stack' /\ stack'[k] = stack[k]
      BY <1>2, <2>3, <2>6
    <3> QED
      BY <2>1, <3>1, FrameRests
  <2> QED
    BY <2>4, <2>5, <2>6
<1>12. CASE ReturnToCaller
  <2>1. /\ Top.firing = 0 /\ Top.sched.ready = <<>>
        /\ stack' = <<>> /\ Below = <<>>
    BY <1>12 DEF ReturnToCaller, DispatchDone
  <2>2. n = 1
    BY <1>2, <1>3, <2>1, EmptySeq
  <2>3. k = n /\ stack[k] = Top
    BY <1>2, <2>2
  <2>4. k \notin DOMAIN stack'
    BY <2>1
  <2> QED
    BY <2>1, <2>3, <2>4
<1>13. CASE Compensate \/ Propagate
  <2>1. outcome \in Errors /\ outcome' = outcome /\ stack' = Below /\ UNCHANGED topo
    BY <1>13 DEF Compensate, Propagate, Unwinding, setup
  <2>2. CASE k = n
    <3>1. k \notin DOMAIN stack'
      BY <1>2, <1>3, <2>1, <2>2
    <3> QED
      BY <2>1, <3>1 DEF Errors
  <2>3. CASE k # n
    BY <1>6, <2>1, <2>3
  <2> QED
    BY <2>2, <2>3
<1>14. CASE Caller
  BY <1>1, <1>14 DEF Caller, RegisterAction, SetMaxCascadeDepth, ClearTraces, SendEvent
<1>15. CASE UNCHANGED vars
  <2>1. k \in DOMAIN stack' /\ UNCHANGED <<topo, stack[k]>> /\ outcome' = outcome
    BY <1>15 DEF vars
  <2> QED
    BY <2>1, FrameRests
<1> QED
  BY <1>7, <1>8, <1>9, <1>10, <1>11, <1>12, <1>13, <1>14, <1>15 DEF Next, Engine, Cascade

\* However many events run inside one another, each frame's dispatch is a run of
\* the fork/join dispatcher.
THEOREM FramesFollowTheDispatcher == Spec => FramesDispatch
<1>1. IInv /\ [Next]_vars =>
        [\A k \in {k \in DOMAIN stack : stack[k].phase = "dispatch"} :
           IF k \in DOMAIN stack'
           THEN [FrameDispatch(k)!Next]_(FrameDispatch(k)!vars)
           ELSE outcome = "running" => stack[k].firing = 0 /\ stack[k].sched.ready = <<>>]_vars
  BY DispatchSteps
<1> QED
  BY <1>1, Invariance, PTL DEF Spec, FramesDispatch

=============================================================================
