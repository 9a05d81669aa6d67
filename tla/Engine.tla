------------------------------- MODULE Engine -------------------------------
(***************************************************************************)
(* TopologyEngine (engine.rs): send_event and everything it runs.          *)
(*                                                                         *)
(* send_event_internal calls itself through dispatch_reactions and         *)
(* fire_one_reaction.  The recursion is a stack of frames, one per event   *)
(* being processed; the depth argument of a frame is its place in the      *)
(* stack less one.  A frame goes through the phases                        *)
(*   matching       find the transition, evaluate its guard                *)
(*   on_exit        run the on_exit actions; the state is the source       *)
(*   on_transition  the state is tentatively the target                    *)
(*   on_enter       the same                                               *)
(*   dispatch       the transition is committed, its reactions are fired   *)
(* An error pops frames one by one (the `?` operators), each running the   *)
(* on_fail hook of the reaction it was firing.                             *)
(*                                                                         *)
(* An action callback succeeds or fails as it likes.  It cannot reach the  *)
(* engine, which is mutably borrowed while it runs.                        *)
(***************************************************************************)
EXTENDS Topology

CONSTANTS
  Topologies,     \* the topologies an engine may be built from
  Events,         \* event names a caller may send
  StrangeIds,     \* signal ids a caller may send to, declared or not
  DefaultDepth,   \* max_cascade_depth of a new engine (8 in the code)
  Depths,         \* arguments of set_max_cascade_depth
  MaxCalls        \* bound of the model: how many events a caller sends

ASSUME DepthAssumption == DefaultDepth \in Nat /\ Depths \subseteq Nat
ASSUME CallsAssumption == MaxCalls \in Nat

\* Transitions, their actions and reactions are lists, and what a reaction names is
\* of the constants' making.
ASSUME TopologiesAssumption ==
  \A t \in Topologies :
    /\ DOMAIN t.transitions \subseteq Nat
    /\ \A i \in DOMAIN t.transitions : /\ IsList(t.transitions[i].on_exit)
                                       /\ IsList(t.transitions[i].on_transition)
                                       /\ IsList(t.transitions[i].on_enter)
    /\ DOMAIN t.reactions \subseteq Nat \ {0} /\ IsFiniteSet(DOMAIN t.reactions)
    /\ \A r \in DOMAIN t.reactions : /\ t.reactions[r].payload \in Payloads
                                     /\ t.reactions[r].group \in Groups \cup {NoGroup}
                                     /\ t.reactions[r].requires \subseteq Groups

VARIABLES
  topo,         \* signals, transitions, reactions (fixed while the engine lives)
  registered,   \* the action ids with a callback
  maxDepth,     \* max_cascade_depth
  current,      \* the current state of each signal
  trace,        \* the trace log
  base,         \* history: the state of each signal when the trace was last empty
  began,        \* history: the length of the trace when the last event was sent
  stack,        \* the frames of the running send_event, <<>> between calls
  outcome,      \* of send_event: "running", "ok" or the error; "idle" before
                \* the first call and after another operation
  calls         \* how many events were sent (bounded by MaxCalls)

vars == <<topo, registered, maxDepth, current, trace, base, began, stack, outcome, calls>>
setup == <<topo, registered, maxDepth, base, began, calls>>

Errors ==
  {"CascadeDepthExceeded", "SignalNotFound", "TransitionNotFound", "GuardBlocked",
   "GuardEvaluationError", "ActionNotFound", "ActionExecutionError"}

-----------------------------------------------------------------------------
(* Trace events                                                            *)

EventReceived(s, e)    == [kind |-> "EventReceived", signal |-> s, event |-> e]
ActionStarted(s, a)    == [kind |-> "ActionStarted", signal |-> s, action |-> a]
ActionSucceeded(s, a)  == [kind |-> "ActionSucceeded", signal |-> s, action |-> a]
ActionFailed(s, a)     == [kind |-> "ActionFailed", signal |-> s, action |-> a]
StateChanged(s, x, y)  == [kind |-> "StateChanged", signal |-> s, from |-> x, to |-> y]
Rollbacked(s, x, y)    == [kind |-> "Rollbacked", signal |-> s, from |-> x, to |-> y]
GuardEvaluated(s, r, v) ==
  [kind |-> "ReactionGuardEvaluated", signal |-> s, reaction |-> r, result |-> v]
Compensated(s, r, e) ==
  [kind |-> "ReactionCompensated", signal |-> s, reaction |-> r, error |-> e]

-----------------------------------------------------------------------------
(* The stack                                                               *)

EmptySchedule ==
  [ready |-> <<>>, waiting |-> {}, done |-> [g \in Groups |-> 0], complete |-> {}]

Frame(s, e, p) ==
  [signal |-> s, event |-> e, payload |-> p, phase |-> "matching",
   transition |-> 0, source |-> Any, next |-> 1,
   matched |-> {}, sched |-> EmptySchedule, firing |-> 0]

Top == stack[Len(stack)]
Below == SubSeq(stack, 1, Len(stack) - 1)
Update(f) == Append(Below, f)

Running(phase) == outcome = "running" /\ stack # <<>> /\ Top.phase = phase

TransitionOf(f) == topo.transitions[f.transition]

\* What run_action may do with action a on signal s: what it writes to the trace
\* and the error it returns ("none" for Ok).  An unregistered id fails after
\* ActionStarted, without ActionFailed.
ActionRuns(s, a) ==
  IF a \notin registered
  THEN {[log |-> <<ActionStarted(s, a)>>, error |-> "ActionNotFound"]}
  ELSE {[log |-> <<ActionStarted(s, a), ActionSucceeded(s, a)>>, error |-> "none"],
        [log |-> <<ActionStarted(s, a), ActionFailed(s, a)>>,
         error |-> "ActionExecutionError"]}

\* Mutant: a skipped or finished reaction does not count for its group.
SettledUncounted(f) == {[f EXCEPT !.firing = 0]}

\* A frame whose reaction in hand has fired.
Settled(f) ==
  {[f EXCEPT !.sched = d, !.firing = 0] :
     d \in AfterFiring(topo.reactions, f.matched, f.sched, f.firing)}

-----------------------------------------------------------------------------
(* The caller, between events                                              *)

Init ==
  /\ topo \in {t \in Topologies : Valid(t)}
  /\ registered = {}
  /\ maxDepth = DefaultDepth
  /\ current = InitialStates(topo)
  /\ trace = <<>>
  /\ base = current
  /\ began = 0
  /\ stack = <<>>
  /\ outcome = "idle"
  /\ calls = 0

\* A caller can bind any id its topology mentions, the on_fail hooks included.
RegisterAction(a) ==
  /\ stack = <<>>
  /\ registered' = registered \cup {a}
  /\ outcome' = "idle"
  /\ UNCHANGED <<topo, maxDepth, current, trace, base, began, stack, calls>>

SetMaxCascadeDepth(d) ==
  /\ stack = <<>>
  /\ maxDepth' = d
  /\ outcome' = "idle"
  /\ UNCHANGED <<topo, registered, current, trace, base, began, stack, calls>>

ClearTraces ==
  /\ stack = <<>>
  /\ trace' = <<>>
  /\ base' = current
  /\ began' = 0
  /\ outcome' = "idle"
  /\ UNCHANGED <<topo, registered, maxDepth, current, stack, calls>>

\* send_event and the head of send_event_internal at depth 0.
SendEvent(s, e, p) ==
  /\ stack = <<>>
  /\ calls < MaxCalls
  /\ calls' = calls + 1
  /\ began' = Len(trace)
  /\ stack' = <<Frame(s, e, p)>>
  /\ trace' = Append(trace, EventReceived(s, e))
  /\ outcome' = "running"
  /\ UNCHANGED <<topo, registered, maxDepth, current, base>>

-----------------------------------------------------------------------------
(* One event: matching and lifecycle                                       *)

\* The event's transition: the first that matches, if there is one.
Candidates == MatchingTransitions(topo, Top.signal, Top.event, current[Top.signal])

\* Leave the top frame with an error.
Fail(error) == stack' = Below /\ outcome' = error

\* Nothing has happened yet but EventReceived.
Reject ==
  /\ Running("matching")
  /\ \/ /\ Top.signal \notin SignalIds(topo)
        /\ Fail("SignalNotFound")
     \/ /\ Top.signal \in SignalIds(topo)
        /\ Candidates = {}
        /\ Fail("TransitionNotFound")
     \/ /\ Top.signal \in SignalIds(topo)
        /\ Candidates # {}
        /\ LET verdict == Evaluate(topo.transitions[First(Candidates)].guard, Top.payload)
           IN  \/ /\ verdict = "false"
                  /\ Fail("GuardBlocked")
               \/ /\ verdict = "error"
                  /\ Fail("GuardEvaluationError")
  /\ UNCHANGED <<setup, current, trace>>

Match ==
  /\ Running("matching")
  /\ Top.signal \in SignalIds(topo)
  /\ Candidates # {}
  /\ Evaluate(topo.transitions[First(Candidates)].guard, Top.payload) = "true"
  /\ stack' = Update([Top EXCEPT !.phase = "on_exit", !.transition = First(Candidates),
                                 !.source = current[Top.signal]])
  /\ UNCHANGED <<setup, current, trace, outcome>>

\* The actions of the phase the top frame is in, and whether all have run.
PhaseActions == TransitionOf(Top)[Top.phase]
PhaseDone == Top.next > Len(PhaseActions)
Tentative == Top.phase \in {"on_transition", "on_enter"}

\* Mutant: the abandoned state stays current.
RollbackKeepsTarget == current

\* signal.current = old_state
Rollback == [current EXCEPT ![Top.signal] = Top.source]

\* One lifecycle action.  A failure ends the event; in the tentative phases it
\* also restores the source state.
RunAction(phase) ==
  /\ Running(phase)
  /\ ~PhaseDone
  /\ \E run \in ActionRuns(Top.signal, PhaseActions[Top.next]) :
       \/ /\ run.error = "none"
          /\ stack' = Update([Top EXCEPT !.next = @ + 1])
          /\ trace' = trace \o run.log
          /\ UNCHANGED <<current, outcome>>
       \/ /\ run.error # "none"
          /\ ~Tentative
          /\ Fail(run.error)
          /\ trace' = trace \o run.log
          /\ UNCHANGED current
       \/ /\ run.error # "none"
          /\ Tentative
          /\ Fail(run.error)
          /\ current' = Rollback
          /\ trace' = Append(trace \o run.log,
                             Rollbacked(Top.signal, TransitionOf(Top).to, Top.source))
  /\ UNCHANGED setup

\* The tentative commit, after the last on_exit action.
LeaveSource ==
  /\ Running("on_exit")
  /\ PhaseDone
  /\ current' = [current EXCEPT ![Top.signal] = TransitionOf(Top).to]
  /\ stack' = Update([Top EXCEPT !.phase = "on_transition", !.next = 1])
  /\ UNCHANGED <<setup, trace, outcome>>

BeginEnter ==
  /\ Running("on_transition")
  /\ PhaseDone
  /\ stack' = Update([Top EXCEPT !.phase = "on_enter", !.next = 1])
  /\ UNCHANGED <<setup, current, trace, outcome>>

\* The transition is final; collect its reactions and start dispatching them.
Commit ==
  /\ Running("on_enter")
  /\ PhaseDone
  /\ trace' = Append(trace, StateChanged(Top.signal, Top.source, TransitionOf(Top).to))
  /\ LET matched == MatchingReactions(topo, Top.signal, TransitionOf(Top).to)
     IN  \E d \in NewSchedule(topo.reactions, matched) :
           stack' = Update([Top EXCEPT !.phase = "dispatch", !.matched = matched,
                                       !.sched = d])
  /\ UNCHANGED <<setup, current, outcome>>

-----------------------------------------------------------------------------
(* The cascade of an event                                                 *)

\* depth + 1 > max_cascade_depth, where depth is that of the top frame.
TooDeep == Len(stack) > maxDepth

\* ready.pop_front()
PopReaction ==
  /\ Running("dispatch")
  /\ Top.firing = 0
  /\ Top.sched.ready # <<>>
  /\ stack' = Update([Top EXCEPT !.sched.ready = Tail(@), !.firing = Head(Top.sched.ready)])
  /\ UNCHANGED <<setup, current, trace, outcome>>

\* The reaction in hand, and what its guard says of the payload of the event
\* that caused the transition.
Firing == Running("dispatch") /\ Top.firing # 0
InHand == topo.reactions[Top.firing]
Verdict == Evaluate(InHand.guard, Top.payload)
GuardLog ==
  IF InHand.guard = NoGuard THEN <<>>
  ELSE <<GuardEvaluated(Top.signal, Top.firing, Verdict)>>

\* A guard that is false, or cannot be evaluated, skips the reaction.
SkipReaction ==
  /\ Firing
  /\ Verdict # "true"
  /\ \E f \in Settled(Top) : stack' = Update(f)
  /\ trace' = trace \o GuardLog
  /\ UNCHANGED <<setup, current, outcome>>

\* The derived event: at the depth limit it fails before it is recorded.
FireReaction ==
  /\ Firing
  /\ Verdict = "true"
  /\ \/ /\ TooDeep
        /\ outcome' = "CascadeDepthExceeded"
        /\ trace' = trace \o GuardLog
        /\ UNCHANGED stack
     \/ /\ ~TooDeep
        /\ stack' = Append(stack, Frame(InHand.toSignal, InHand.event, InHand.payload))
        /\ trace' = Append(trace \o GuardLog, EventReceived(InHand.toSignal, InHand.event))
        /\ UNCHANGED outcome
  /\ UNCHANGED <<setup, current>>

\* Mutant: the dispatch does not end while joins are held.
DispatchDoneWaits ==
  /\ Running("dispatch")
  /\ Top.firing = 0
  /\ Top.sched.ready = <<>>
  /\ Top.sched.waiting = {}

\* The queue is empty; joins that are still held are dropped.
DispatchDone ==
  /\ Running("dispatch")
  /\ Top.firing = 0
  /\ Top.sched.ready = <<>>

\* A derived event returned Ok: the reaction that sent it has fired.
ReturnToReaction ==
  /\ DispatchDone
  /\ Below # <<>>
  /\ \E f \in Settled(Below[Len(Below)]) : stack' = [Below EXCEPT ![Len(Below)] = f]
  /\ UNCHANGED <<setup, current, trace, outcome>>

ReturnToCaller ==
  /\ DispatchDone
  /\ Below = <<>>
  /\ stack' = <<>>
  /\ outcome' = "ok"
  /\ UNCHANGED <<setup, current, trace>>

-----------------------------------------------------------------------------
(* Errors                                                                  *)

Unwinding == outcome \in Errors /\ stack # <<>>

\* Mutant: the hook's own failure takes the place of the error.
CompensateMasking ==
  /\ Unwinding
  /\ InHand.onFail # NoHook
  /\ \E run \in ActionRuns(InHand.toSignal, InHand.onFail) :
       /\ trace' = Append(trace \o run.log, Compensated(Top.signal, Top.firing, outcome))
       /\ outcome' = IF run.error = "none" THEN outcome ELSE run.error
  /\ stack' = Below
  /\ UNCHANGED <<setup, current>>

\* Mutant: a reaction whose hook ran is taken as fired.
CompensateSwallowing ==
  /\ Unwinding
  /\ InHand.onFail # NoHook
  /\ \E run \in ActionRuns(InHand.toSignal, InHand.onFail) :
       trace' = Append(trace \o run.log, Compensated(Top.signal, Top.firing, outcome))
  /\ \E f \in Settled(Top) : stack' = Update(f)
  /\ outcome' = "running"
  /\ UNCHANGED <<setup, current>>

\* The reaction has an on_fail hook: run it, whatever comes of it, record the
\* compensation, and pass the error on.
Compensate ==
  /\ Unwinding
  /\ InHand.onFail # NoHook
  /\ \E run \in ActionRuns(InHand.toSignal, InHand.onFail) :
       trace' = Append(trace \o run.log, Compensated(Top.signal, Top.firing, outcome))
  /\ stack' = Below
  /\ UNCHANGED <<setup, current, outcome>>

\* Without a hook the error passes on.
Propagate ==
  /\ Unwinding
  /\ InHand.onFail = NoHook
  /\ stack' = Below
  /\ UNCHANGED <<setup, current, trace, outcome>>

-----------------------------------------------------------------------------

\* Every id a topology mentions.
MentionedIds ==
  ActionIds(topo) \cup ({topo.reactions[r].onFail : r \in DOMAIN topo.reactions} \ {NoHook})

Caller ==
  \/ \E a \in MentionedIds : RegisterAction(a)
  \/ \E d \in Depths : SetMaxCascadeDepth(d)
  \/ ClearTraces
  \/ \E s \in SignalIds(topo) \cup StrangeIds, e \in Events, p \in Payloads :
       SendEvent(s, e, p)

Event ==
  \/ Reject \/ Match
  \/ \E phase \in {"on_exit", "on_transition", "on_enter"} : RunAction(phase)
  \/ LeaveSource \/ BeginEnter \/ Commit

Cascade ==
  PopReaction \/ SkipReaction \/ FireReaction \/ ReturnToReaction \/ ReturnToCaller

Engine == Event \/ Cascade \/ Compensate \/ Propagate

Next == Caller \/ Engine

\* send_event is sequential code: once called it runs on, provided the callbacks
\* return.
Fairness == WF_vars(Engine)

Spec == Init /\ [][Next]_vars /\ Fairness

-----------------------------------------------------------------------------

\* Every frame is well formed and every signal is in one of its own states.
\* (reload_topology, which can break the latter, is in Persistence.tla.)
TypeOK ==
  /\ topo \in Topologies /\ Valid(topo)
  /\ registered \subseteq MentionedIds
  /\ maxDepth \in Depths \cup {DefaultDepth}
  /\ DOMAIN current = SignalIds(topo)
  /\ \A s \in SignalIds(topo) : current[s] \in StatesOf(topo, s)
  /\ outcome \in {"idle", "running", "ok"} \cup Errors
  /\ began \in 0..Len(trace)
  /\ calls \in 0..MaxCalls
  /\ \A k \in DOMAIN stack :
       /\ stack[k].phase = "matching" \/ stack[k].transition \in DOMAIN topo.transitions
       /\ stack[k].phase # "dispatch" => k = Len(stack)
       /\ k < Len(stack) => stack[k].firing # 0
       /\ stack[k].firing # 0 => stack[k].firing \in stack[k].matched

\* The states with the one half-made transition taken back: what the caller
\* would see if it failed now.
Committed ==
  IF stack # <<>> /\ Tentative
  THEN [current EXCEPT ![Top.signal] = Top.source]
  ELSE current

\* What the trace, read up to its n-th event, says signal s is in.
Replayed(n, s) ==
  LET changes == {i \in 1..n : trace[i].kind = "StateChanged" /\ trace[i].signal = s}
  IN  IF changes = {} THEN base[s]
      ELSE trace[CHOOSE i \in changes : \A j \in changes : j <= i].to

\* The trace is a faithful record of the signals: replaying its StateChanged
\* events gives every signal's state, through rollbacks, failed cascades and
\* cascades that come back to a signal they started from, and each event starts
\* where the one before it ended.
TraceTellsState ==
  /\ \A s \in SignalIds(topo) : Committed[s] = Replayed(Len(trace), s)
  /\ \A i \in DOMAIN trace :
       trace[i].kind = "StateChanged" => trace[i].from = Replayed(i - 1, trace[i].signal)

\* Seen from outside, the engine moves one signal at a time along a declared
\* transition and never takes a move back: lifecycle actions, rollbacks and
\* failing cascades are steps of the abstract machine or stutters.
Abstract == INSTANCE Signals WITH committed <- Committed
ImplementsSignals == Abstract!Spec

\* The part of the trace written by the last event sent.
CallLog == SubSeq(trace, began + 1, Len(trace))
Logged(kind) == {i \in DOMAIN CallLog : CallLog[i].kind = kind}

\* send_event returns Ok only if everything the event set off went well: each
\* event received, the caller's and the derived ones, committed its transition,
\* and nothing was rolled back or compensated.  It returns an error only if
\* exactly one event of the cascade did not commit (none when the cascade was cut
\* at its depth limit); those that had committed by then stay committed.
OkMeansAllCommitted ==
  stack = <<>> /\ outcome # "idle" =>
    LET received  == Cardinality(Logged("EventReceived"))
        committed == Cardinality(Logged("StateChanged"))
    IN  /\ outcome = "ok" =>
             /\ received = committed
             /\ Logged("Rollbacked") \cup Logged("ReactionCompensated") = {}
        /\ outcome \in Errors =>
             received = committed + (IF outcome = "CascadeDepthExceeded" THEN 0 ELSE 1)

\* A call has one error.  Whatever the hooks of the failing reactions do, each is
\* told the error that started the unwinding and the caller is given that one.
OneErrorPerCall ==
  outcome # "idle" =>
    \A i \in Logged("ReactionCompensated") : CallLog[i].error = outcome

\* validate() makes derived events safe: only the caller can name a signal that
\* does not exist.
CascadesFindTheirSignal ==
  outcome = "SignalNotFound" => CallLog[1].signal \notin SignalIds(topo)

\* Each frame's dispatch is a run of Dispatch.tla, however many dispatches of
\* other frames run inside it, and a frame returns Ok only where that dispatch
\* may return.  (Dispatchable is a constant of the initial states only.)
FrameDispatch(k) ==
  INSTANCE Dispatch WITH
    Dispatchable <- {},
    matched <- [r \in stack[k].matched |-> topo.reactions[r]],
    sched   <- stack[k].sched,
    firing  <- stack[k].firing,
    fired   <- stack[k].matched
                 \ (Elements(stack[k].sched.ready) \cup stack[k].sched.waiting
                       \cup {stack[k].firing}),
    status  <- IF outcome = "running" THEN "scheduling" ELSE "aborted"

FramesDispatch ==
  [][\A k \in {k \in DOMAIN stack : stack[k].phase = "dispatch"} :
       IF k \in DOMAIN stack'
       THEN [FrameDispatch(k)!Next]_(FrameDispatch(k)!vars)
       ELSE outcome = "running" => stack[k].firing = 0 /\ stack[k].sched.ready = <<>>]_vars

\* Every call returns, with Ok or an error: cyclic reactions run into the depth
\* limit, joins that can never fire do not hold the dispatch up.
EventsReturn == outcome = "running" ~> stack = <<>>

=============================================================================
