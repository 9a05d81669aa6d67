---------------------------- MODULE RunnerProofs ----------------------------
(***************************************************************************)
(* Proofs about Runner.tla: the programs keep every invariant of the       *)
(* engine, and a replay fails the actions its events name and no others.   *)
(***************************************************************************)
EXTENDS Runner, EngineProofs

-----------------------------------------------------------------------------
(* What an engine step writes                                              *)

LogKinds ==
  ActionKinds \cup {"EventReceived", "StateChanged", "Rollbacked", "ReactionGuardEvaluated",
                    "ReactionCompensated"}

\* The engine only ever adds to the trace.
LEMMA EngineAdds ==
  ASSUME IInv, Engine
  PROVE  /\ Adds(trace, trace', LogKinds)
         /\ UNCHANGED <<topo, registered, began>>
         /\ outcome \in {"running"} \cup Errors /\ outcome' # "idle"
<1>1. IsSequence(trace)
  BY DEF IInv, TraceOK
<1>2. Adds(trace, trace, LogKinds)
  BY <1>1, AddsNothing
<1>3. ASSUME NEW log, Adds(trace, log, LogKinds), NEW e, e.kind \in LogKinds
      PROVE  Adds(trace, Append(log, e), LogKinds)
  <2>1. Adds(log, Append(log, e), LogKinds)
    BY <1>3, AddsEntry DEF Adds
  <2>2. Adds(trace, Append(log, e), LogKinds \cup LogKinds)
    BY <1>3, <2>1, AddsTransitive
  <2>3. LogKinds \cup LogKinds = LogKinds
    OBVIOUS
  <2> QED
    BY <2>2, <2>3
<1>4. ASSUME NEW s, NEW a, NEW run \in ActionRuns(s, a)
      PROVE  Adds(trace, trace \o run.log, LogKinds) /\ run.error \in {"none"} \cup Errors
  BY <1>1, ActionsAdd DEF Adds, LogKinds, Errors
<1>5. Adds(trace, trace \o GuardLog, LogKinds)
  BY <1>1, GuardAdds DEF Adds, LogKinds
<1>6. CASE \E phase \in {"on_exit", "on_transition", "on_enter"} : RunAction(phase)
  <2>1. PICK run \in ActionRuns(Top.signal, PhaseActions[Top.next]) :
          /\ \/ outcome' = outcome
             \/ run.error # "none" /\ outcome' = run.error
          /\ \/ trace' = trace \o run.log
             \/ trace' = Append(trace \o run.log,
                                Rollbacked(Top.signal, TransitionOf(Top).to, Top.source))
    BY <1>6 DEF RunAction, Fail
  <2>2. Rollbacked(Top.signal, TransitionOf(Top).to, Top.source).kind \in LogKinds
    BY DEF Rollbacked, LogKinds
  <2>3. Adds(trace, trace', LogKinds)
    BY <1>3, <1>4, <2>1, <2>2
  <2>4. outcome = "running" /\ UNCHANGED <<topo, registered, began>>
    BY <1>6 DEF RunAction, Running, setup
  <2> QED
    BY <1>4, <2>1, <2>3, <2>4 DEF Errors
<1>7. CASE Commit
  <2>1. /\ outcome = "running" /\ outcome' = outcome /\ UNCHANGED <<topo, registered, began>>
        /\ trace' = Append(trace, StateChanged(Top.signal, Top.source, TransitionOf(Top).to))
    BY <1>7 DEF Commit, Running, setup
  <2>2. StateChanged(Top.signal, Top.source, TransitionOf(Top).to).kind \in LogKinds
    BY DEF StateChanged, LogKinds
  <2> QED
    BY <1>2, <1>3, <2>1, <2>2
<1>8. CASE FireReaction
  <2>1. /\ outcome = "running" /\ outcome' \in {"running", "CascadeDepthExceeded"}
        /\ UNCHANGED <<topo, registered, began>>
        /\ \/ trace' = trace \o GuardLog
           \/ trace' = Append(trace \o GuardLog, EventReceived(InHand.toSignal, InHand.event))
    BY <1>8 DEF FireReaction, Firing, Running, setup
  <2>2. EventReceived(InHand.toSignal, InHand.event).kind \in LogKinds
    BY DEF EventReceived, LogKinds
  <2> QED
    BY <1>3, <1>5, <2>1, <2>2 DEF Errors
<1>9. CASE Compensate
  <2>1. /\ outcome \in Errors /\ outcome' = outcome /\ UNCHANGED <<topo, registered, began>>
        /\ \E run \in ActionRuns(InHand.toSignal, InHand.onFail) :
             trace' = Append(trace \o run.log, Compensated(Top.signal, Top.firing, outcome))
    BY <1>9 DEF Compensate, Unwinding, setup
  <2>2. Compensated(Top.signal, Top.firing, outcome).kind \in LogKinds
    BY DEF Compensated, LogKinds
  <2> QED
    BY <1>3, <1>4, <2>1, <2>2 DEF Errors
<1>10. CASE SkipReaction
  <2>1. /\ outcome = "running" /\ outcome' = outcome /\ UNCHANGED <<topo, registered, began>>
        /\ trace' = trace \o GuardLog
    BY <1>10 DEF SkipReaction, Firing, Running, setup
  <2> QED
    BY <1>5, <2>1
<1>11. CASE \/ Reject \/ Match \/ LeaveSource \/ BeginEnter
            \/ PopReaction \/ ReturnToReaction \/ ReturnToCaller \/ Propagate
  <2>1. /\ trace' = trace /\ UNCHANGED <<topo, registered, began>>
        /\ outcome \in {"running"} \cup Errors /\ outcome' # "idle"
    BY <1>11 DEF Reject, Match, LeaveSource, BeginEnter, PopReaction, ReturnToReaction,
                 ReturnToCaller, Propagate, DispatchDone, Running, Unwinding, Fail, setup, Errors
  <2> QED
    BY <1>2, <2>1
<1> QED
  BY <1>6, <1>7, <1>8, <1>9, <1>10, <1>11 DEF Engine, Event, Cascade

\* A lifecycle action is one of the topology's actions.
LEMMA LifecycleActionsAreDeclared ==
  ASSUME IInv, NEW phase \in {"on_exit", "on_transition", "on_enter"}, RunAction(phase)
  PROVE  PhaseActions[Top.next] \in ActionIds(topo)
<1>1. stack # <<>> /\ Top.phase = phase /\ ~PhaseDone
  BY DEF RunAction, Running
<1>2. Top \in Frames /\ FrameOK(Top)
  BY <1>1, TopFrame DEF IInv
<1> DEFINE i == Top.transition
<1>3. i \in DOMAIN topo.transitions /\ Top.next \in Nat \ {0}
  BY <1>1, <1>2 DEF FrameOK, Frames
<1>4. IsList(PhaseActions)
  BY <1>1, <1>3, TopologiesAssumption DEF PhaseActions, TransitionOf, IInv, SetupOK
<1>5. Top.next \in DOMAIN PhaseActions
  BY <1>1, <1>3, <1>4 DEF PhaseDone, IsList
<1>6. PhaseActions = topo.transitions[i][phase]
  BY <1>1 DEF PhaseActions, TransitionOf
<1> HIDE DEF i
<1>7. CASE phase = "on_exit"
  BY <1>3, <1>5, <1>6, <1>7 DEF ActionIds
<1>8. CASE phase = "on_transition"
  BY <1>3, <1>5, <1>6, <1>8 DEF ActionIds
<1>9. CASE phase = "on_enter"
  BY <1>3, <1>5, <1>6, <1>9 DEF ActionIds
<1> QED
  BY <1>7, <1>8, <1>9

-----------------------------------------------------------------------------
(* The invariant                                                           *)

\* In a replay the fail set is that of the event being replayed, and empty between
\* events.
FailSetScoped ==
  /\ mode \in {"batch", "shell"} /\ at \in Nat \ {0}
  /\ mode = "batch" => scenario \in Scenarios
  /\ mode = "batch" /\ outcome = "idle" => failSet = {}
  /\ Replaying /\ outcome # "idle" => failSet = Step.fails

\* What the replayed event has written of actions so far is as it names them.
EntriesAsInjected ==
  Replaying /\ outcome # "idle" =>
    /\ \A i \in Since(trace, began, "ActionFailed") : trace[i].action \in Step.fails
    /\ \A i \in Since(trace, began, "ActionSucceeded") : trace[i].action \notin Step.fails

RunnerInv ==
  /\ IInv
  /\ registered = ActionIds(topo)
  /\ outcome # "ActionNotFound"
  /\ FailSetScoped
  /\ EntriesAsInjected

LEMMA RunnerInitEstablishes == RunnerInit => RunnerInv
<1> SUFFICES ASSUME RunnerInit PROVE RunnerInv
  OBVIOUS
<1>1. IInv
  BY FreshEngine DEF RunnerInit, RegisteredAtStart, MentionedIds
<1>2. FailSetScoped /\ EntriesAsInjected
  BY DEF RunnerInit, FailSetScoped, EntriesAsInjected
<1> QED
  BY <1>1, <1>2 DEF RunnerInv, RunnerInit, RegisteredAtStart

LEMMA EngineStepPreserves == ASSUME RunnerInv, EngineStep PROVE RunnerInv'
<1>1. IInv /\ Engine /\ HandlersAnswer
      /\ UNCHANGED <<mode, scenario, at, failSet, errors>>
  BY DEF RunnerInv, EngineStep, session
<1>2. IInv'
  BY <1>1, StepPreserves DEF Next
<1>3. /\ Adds(trace, trace', LogKinds)
      /\ UNCHANGED <<topo, registered, began>>
      /\ outcome \in {"running"} \cup Errors /\ outcome' # "idle"
  BY <1>1, EngineAdds
<1>4. outcome' # "ActionNotFound"
  <2>1. CASE \E phase \in {"on_exit", "on_transition", "on_enter"} : RunAction(phase)
    <3>1. PICK phase \in {"on_exit", "on_transition", "on_enter"} : RunAction(phase)
      BY <2>1
    <3>2. PhaseActions[Top.next] \in registered
      BY <1>1, <3>1, LifecycleActionsAreDeclared DEF RunnerInv
    <3>3. PICK run \in ActionRuns(Top.signal, PhaseActions[Top.next]) :
            outcome' = outcome \/ outcome' = run.error
      BY <3>1 DEF RunAction, Fail
    <3>4. run.error # "ActionNotFound"
      BY <3>2 DEF ActionRuns
    <3> QED
      BY <3>3, <3>4 DEF RunnerInv
  <2>2. CASE ~\E phase \in {"on_exit", "on_transition", "on_enter"} : RunAction(phase)
    BY <1>1, <2>2 DEF Engine, Event, Cascade, Reject, Match, LeaveSource, BeginEnter, Commit,
         PopReaction, SkipReaction, FireReaction, ReturnToReaction, ReturnToCaller, Compensate,
         Propagate, Fail, RunnerInv
  <2> QED
    BY <2>1, <2>2
<1>5. FailSetScoped'
  BY <1>1, <1>3 DEF RunnerInv, FailSetScoped, Replaying, Step, Errors
<1>6. EntriesAsInjected'
  <2> SUFFICES ASSUME Replaying'
               PROVE  /\ \A i \in Since(trace, began, "ActionFailed")' : trace'[i].action \in Step'.fails
                      /\ \A i \in Since(trace, began, "ActionSucceeded")' : trace'[i].action \notin Step'.fails
    BY DEF EntriesAsInjected
  <2>1. Replaying /\ outcome # "idle" /\ failSet = Step.fails /\ Step' = Step
    BY <1>1, <1>3 DEF Replaying, Step, RunnerInv, FailSetScoped, Errors
  <2>2. ASSUME NEW kind, NEW i \in Since(trace, began, kind)'
        PROVE  \/ i \in Since(trace, began, kind) /\ trace'[i] = trace[i]
               \/ i \in (Len(trace) + 1)..Len(trace') /\ trace'[i].kind = kind
    <3>1. began \in 0..Len(trace) /\ began' = began
      BY <1>1, <1>3 DEF IInv, TraceOK
    <3>2. CASE i <= Len(trace)
      <4>1. i \in 1..Len(trace) /\ i \in (began + 1)..Len(trace)
        BY <1>3, <2>2, <3>1, <3>2 DEF Since, Adds
      <4> QED
        BY <1>3, <2>2, <4>1 DEF Since, Adds
    <3>3. CASE ~(i <= Len(trace))
      BY <1>3, <2>2, <3>1, <3>3 DEF Since, Adds
    <3> QED
      BY <3>2, <3>3
  <2> QED
    BY <1>1, <2>1, <2>2 DEF RunnerInv, EntriesAsInjected, HandlersAnswer
<1> QED
  BY <1>2, <1>3, <1>4, <1>5, <1>6 DEF RunnerInv

\* An event that is sent has written nothing of actions yet.
LEMMA SentEventWritesNoAction ==
  ASSUME IInv, NEW s, NEW e, NEW p, SendEvent(s, e, p)
  PROVE  \A kind \in ActionKinds : Since(trace, began, kind)' = {}
<1>1. /\ began' = Len(trace) /\ Len(trace) \in Nat /\ Len(trace') = Len(trace) + 1
      /\ trace'[Len(trace) + 1] = EventReceived(s, e)
  BY AppendEntry DEF SendEvent, IInv, TraceOK
<1>2. EventReceived(s, e).kind = "EventReceived"
  BY DEF EventReceived
<1>3. \A i \in (began' + 1)..Len(trace') : trace'[i].kind = "EventReceived"
  BY <1>1, <1>2
<1> QED
  BY <1>3 DEF Since, ActionKinds

LEMMA ReplayEventPreserves == ASSUME RunnerInv, ReplayEvent PROVE RunnerInv'
<1>1. /\ IInv /\ FailSetScoped
      /\ mode = "batch" /\ at <= Len(scenario) /\ outcome = "idle"
      /\ failSet' = failSet \cup Step.fails
      /\ SendEvent(Step.signal, Step.event, Step.payload)
      /\ UNCHANGED <<mode, scenario, at, errors>>
  BY DEF RunnerInv, ReplayEvent, Replaying
<1>2. /\ Step.signal \in SignalIds(topo) \cup StrangeIds
      /\ Step.event \in Events /\ Step.payload \in Payloads
  <2>1. scenario \in Scenarios /\ at \in Nat \ {0} /\ topo \in Topologies
    BY <1>1 DEF FailSetScoped, IInv, SetupOK
  <2>2. at \in DOMAIN scenario
    BY <1>1, <2>1, ScenariosAssumption DEF IsList
  <2> QED
    BY <2>1, <2>2, ScenariosAssumption DEF Step
<1>3. IInv'
  BY <1>1, <1>2, SendEventPreserves
<1>4. outcome' = "running" /\ UNCHANGED <<topo, registered>>
  BY <1>1 DEF SendEvent
<1>5. FailSetScoped'
  BY <1>1, <1>4 DEF FailSetScoped, Replaying, Step
<1>6. EntriesAsInjected'
  BY <1>1, SentEventWritesNoAction DEF EntriesAsInjected, ActionKinds
<1> QED
  BY <1>3, <1>4, <1>5, <1>6 DEF RunnerInv

LEMMA NextStepPreserves == ASSUME RunnerInv, Resolved, NextStep PROVE RunnerInv'
<1>1. /\ IInv /\ FailSetScoped
      /\ mode = "batch" /\ at <= Len(scenario) /\ stack = <<>> /\ outcome # "idle"
      /\ at' = at + 1 /\ failSet' = failSet \ Step.fails /\ outcome' = "idle"
      /\ UNCHANGED <<topo, registered, maxDepth, current, trace, base, began, stack, calls,
                     mode, scenario>>
  BY DEF RunnerInv, Resolved, Replaying, NextStep, Cleared
<1>2. IInv'
  <2>1. Committed' = Committed /\ Top' = Top
    BY <1>1 DEF Committed, Top
  <2>2. Frames' = Frames /\ \A g : FrameOK(g)' <=> FrameOK(g)
    BY <1>1 DEF Frames, FrameOK, TransitionOf
  <2>3. StackOK'
    BY <1>1, <2>2, EmptySeq DEF IInv, StackOK
  <2>4. SetupOK' /\ CurrentOK' /\ TraceOK'
    BY <1>1, <2>1 DEF IInv, SetupOK, MentionedIds, CurrentOK, TraceOK
  <2> QED
    BY <2>3, <2>4 DEF IInv
<1>3. FailSetScoped'
  BY <1>1 DEF FailSetScoped, Replaying
<1>4. EntriesAsInjected'
  BY <1>1 DEF EntriesAsInjected
<1> QED
  BY <1>1, <1>2, <1>3, <1>4 DEF RunnerInv

LEMMA ShellPreserves == ASSUME RunnerInv, Shell PROVE RunnerInv'
<1>1. ASSUME \/ \E a \in Typed : CmdFail(a)
             \/ CmdReset
      PROVE  RunnerInv'
  <2>1. UNCHANGED vars /\ mode = "shell" /\ UNCHANGED <<mode, scenario, at, errors>>
    BY <1>1 DEF CmdFail, CmdReset, AtPrompt
  <2>2. IInv' /\ outcome' = outcome /\ registered' = registered /\ topo' = topo
    BY <2>1, StutterPreserves DEF RunnerInv, vars
  <2>3. FailSetScoped' /\ EntriesAsInjected'
    BY <2>1, <2>2 DEF RunnerInv, FailSetScoped, EntriesAsInjected, Replaying
  <2> QED
    BY <2>2, <2>3 DEF RunnerInv
<1>2. ASSUME NEW s \in SignalIds(topo) \cup StrangeIds, NEW e \in Events, NEW p \in Payloads,
             CmdEvent(s, e, p)
      PROVE  RunnerInv'
  <2>1. SendEvent(s, e, p) /\ mode = "shell" /\ UNCHANGED <<mode, scenario, at, failSet, errors>>
    BY <1>2 DEF CmdEvent, AtPrompt, session
  <2>2. IInv'
    BY <2>1, SendEventPreserves DEF RunnerInv
  <2>3. outcome' = "running" /\ registered' = registered /\ topo' = topo
    BY <2>1 DEF SendEvent
  <2>4. FailSetScoped' /\ EntriesAsInjected'
    BY <2>1 DEF RunnerInv, FailSetScoped, EntriesAsInjected, Replaying
  <2> QED
    BY <2>2, <2>3, <2>4 DEF RunnerInv
<1> QED
  BY <1>1, <1>2 DEF Shell

LEMMA RunnerStutterPreserves == ASSUME RunnerInv, UNCHANGED runnerVars PROVE RunnerInv'
<1>1. UNCHANGED vars /\ UNCHANGED <<mode, scenario, at, failSet, errors>>
  BY DEF runnerVars, session
<1>2. IInv' /\ UNCHANGED <<topo, registered, trace, began, outcome>>
  BY <1>1, StutterPreserves DEF RunnerInv, vars
<1> QED
  BY <1>1, <1>2 DEF RunnerInv, FailSetScoped, EntriesAsInjected, Replaying, Step

\* Whatever is replayed or typed, the invariant of the engine holds, every action
\* has its handler, and the fail set is that of the event in hand.
THEOREM RunnerInvariance == RunnerSpec => []RunnerInv
<1>1. RunnerInv /\ [RunnerNext]_runnerVars => RunnerInv'
  BY EngineStepPreserves, ReplayEventPreserves, NextStepPreserves, ShellPreserves,
     RunnerStutterPreserves DEF RunnerNext, Batch, RecordError, Proceed
<1> QED
  BY <1>1, RunnerInitEstablishes, PTL DEF RunnerSpec

-----------------------------------------------------------------------------
(* The properties                                                          *)

\* Actions fail by injection alone, and an injection lasts for one event.
THEOREM InjectionIsScoped == RunnerSpec => []InjectionScopedPerEvent
<1>1. RunnerInv => InjectionScopedPerEvent
  <2> SUFFICES ASSUME RunnerInv
               PROVE  InjectionScopedPerEvent
    OBVIOUS
  <2>1. \A kind : \A i \in Logged(kind) : /\ began + i \in Since(trace, began, kind)
                                        /\ CallLog[i] = trace[began + i]
    BY LoggedSince DEF RunnerInv
  <2> QED
    BY <2>1 DEF RunnerInv, EntriesAsInjected, InjectionScopedPerEvent
<1> QED
  BY <1>1, RunnerInvariance, PTL

\* What holds of the engine holds of the programs around it: its states and frames
\* are well formed and its trace is a faithful record.
THEOREM ProgramsKeepTheEngine == RunnerSpec => [](TypeOK /\ TraceTellsState)
<1>1. RunnerInv => TypeOK /\ TraceTellsState
  BY InvariantTypes, InvariantReplays DEF RunnerInv
<1> QED
  BY <1>1, RunnerInvariance, PTL

=============================================================================
