------------------------------- MODULE Runner -------------------------------
(***************************************************************************)
(* The command-line programs around the engine (run.rs, bin/sts.rs,        *)
(* bin/stt.rs and the replay half of bin/stp.rs).  They register every     *)
(* action of the topology with a handler that fails exactly when the       *)
(* action's id is in a shared fail set, and then                           *)
(*   batch  replay a scenario, each of whose events names the actions that *)
(*          are to fail for that event alone, or                           *)
(*   shell  take commands: event, fail, reset.                             *)
(* They never touch the cascade limit, the trace or the registrations.     *)
(***************************************************************************)
EXTENDS Engine

CONSTANTS
  Scenarios,    \* sequences of [signal, event, payload, fails]
  Typed         \* action ids a user of the shell may type

\* A scenario is a list of events that a caller may send to any of the topologies.
ASSUME ScenariosAssumption ==
  \A q \in Scenarios :
    /\ IsList(q)
    /\ \A i \in DOMAIN q : /\ \A t \in Topologies : q[i].signal \in SignalIds(t) \cup StrangeIds
                          /\ q[i].event \in Events
                          /\ q[i].payload \in Payloads

VARIABLES
  mode,         \* "batch" or "shell"
  scenario,     \* the events of a batch replay
  at,           \* the place of the event being replayed
  failSet,      \* the action ids whose handlers fail
  errors        \* run_scenario's result, a sequence of [at, error, after]

session == <<mode, scenario, at, failSet, errors>>
runnerVars == <<vars, session>>

\* register_actions(collect_action_ids): hooks are not among the ids.
RegisteredAtStart == ActionIds(topo)

RunnerInit ==
  /\ topo \in {t \in Topologies : Valid(t)}
  /\ registered = RegisteredAtStart
  /\ maxDepth = DefaultDepth
  /\ current = InitialStates(topo)
  /\ trace = <<>>
  /\ base = current
  /\ began = 0
  /\ stack = <<>>
  /\ outcome = "idle"
  /\ calls = 0
  /\ mode \in {"batch", "shell"}
  /\ scenario \in IF mode = "batch" THEN Scenarios ELSE {<<>>}
  /\ at = 1
  /\ failSet = {}
  /\ errors = <<>>

\* The handlers decide how actions end: whatever an engine step writes to the
\* trace, an action failed if its id was in the fail set and succeeded if not.
HandlersAnswer ==
  \A i \in (Len(trace) + 1)..Len(trace') :
    /\ trace'[i].kind = "ActionFailed" => trace'[i].action \in failSet
    /\ trace'[i].kind = "ActionSucceeded" => trace'[i].action \notin failSet

EngineStep == Engine /\ HandlersAnswer /\ UNCHANGED session

-----------------------------------------------------------------------------
(* run_scenario                                                            *)

Replaying == mode = "batch" /\ at <= Len(scenario)
Step == scenario[at]

\* The fail set is filled for the event and the event is sent.
ReplayEvent ==
  /\ Replaying
  /\ outcome = "idle"
  /\ failSet' = failSet \cup Step.fails
  /\ SendEvent(Step.signal, Step.event, Step.payload)
  /\ UNCHANGED <<mode, scenario, at, errors>>

\* get_state(signal), the empty string when there is no such signal.
StateNow(s) == IF s \in SignalIds(topo) THEN current[s] ELSE ""

\* Mutant: what one event injected fails the next one too.
ClearedNever == failSet

\* fail_set.remove(...) for each name of the event
Cleared == failSet \ Step.fails

Resolved == Replaying /\ stack = <<>> /\ outcome # "idle"

NextStep ==
  /\ at' = at + 1
  /\ failSet' = Cleared
  /\ outcome' = "idle"
  /\ UNCHANGED <<topo, registered, maxDepth, current, trace, base, began, stack, calls,
                 mode, scenario>>

\* Mutant: an error ends the replay.
RecordErrorStops ==
  /\ Resolved
  /\ outcome \in Errors
  /\ errors' = Append(errors, [at |-> at, error |-> outcome,
                               after |-> StateNow(Step.signal)])
  /\ outcome' = "stopped"
  /\ UNCHANGED <<topo, registered, maxDepth, current, trace, base, began, stack, calls,
                 mode, scenario, at, failSet>>

\* An error is recorded with the state the signal is in, and the replay goes on.
RecordError ==
  /\ Resolved
  /\ outcome \in Errors
  /\ errors' = Append(errors, [at |-> at, error |-> outcome,
                               after |-> StateNow(Step.signal)])
  /\ NextStep

Proceed ==
  /\ Resolved
  /\ outcome = "ok"
  /\ NextStep
  /\ UNCHANGED errors

-----------------------------------------------------------------------------
(* The shell                                                               *)

AtPrompt == mode = "shell" /\ stack = <<>>

CmdFail(a) ==
  /\ AtPrompt
  /\ failSet' = failSet \cup {a}
  /\ UNCHANGED <<vars, mode, scenario, at, errors>>

CmdReset ==
  /\ AtPrompt
  /\ failSet' = {}
  /\ UNCHANGED <<vars, mode, scenario, at, errors>>

CmdEvent(s, e, p) ==
  /\ AtPrompt
  /\ SendEvent(s, e, p)
  /\ UNCHANGED session

Shell ==
  \/ \E a \in Typed : CmdFail(a)
  \/ CmdReset
  \/ \E s \in SignalIds(topo) \cup StrangeIds, e \in Events, p \in Payloads : CmdEvent(s, e, p)

Batch == ReplayEvent \/ RecordError \/ Proceed

RunnerNext == EngineStep \/ Batch \/ Shell

\* A program runs on by itself until the scenario is over; a user need not type.
RunnerSpec ==
  RunnerInit /\ [][RunnerNext]_runnerVars /\ WF_runnerVars(EngineStep) /\ WF_runnerVars(Batch)

-----------------------------------------------------------------------------

\* Actions fail by injection and by nothing else: each has a handler, in a replay
\* and in the shell, and in a replay it fails if and only if the event being
\* replayed names it, whatever earlier events named.  (on_fail hooks are another
\* matter: nothing registers them.)
InjectionScopedPerEvent ==
  /\ outcome # "ActionNotFound"
  /\ Replaying /\ outcome # "idle" =>
       /\ \A i \in Logged("ActionFailed") : CallLog[i].action \in Step.fails
       /\ \A i \in Logged("ActionSucceeded") : CallLog[i].action \notin Step.fails

\* A failed event does not end a replay.
ReplayEnds == mode = "batch" ~> at > Len(scenario)

=============================================================================
