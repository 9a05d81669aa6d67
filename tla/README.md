# A TLA+ model of sig_topo

sig_topo runs *topologies*: sets of signals (finite state machines) whose
transitions run user actions and whose reactions send derived events from one
signal to another. This directory holds a TLA+ model of the engine and of the
programs around it, the TLC configurations that check it on small instances, and
TLAPS proofs, for every value of the constants, of what the runs check of the
dispatcher, the engine, the scenario runner, persistence, composition, the
operators of guards, and of the compiler behind its parser.

Paths below are relative to the repository root (`src/engine.rs`, `doc/ddl.md`).

## The system

| Component | State | Operations | Modelled in |
|---|---|---|---|
| Topology data and validation (`schema.rs`, `engine.rs`) | signals, transitions, reactions | `validate`, first-match lookup, reaction lookup, `action_ids` | `Topology` |
| Fork/join dispatcher (`dispatch_reactions`) | ready queue, waiting list, group counters | pop, fire, release joins | `ForkGroups`, `Dispatch`, `ForkJoin` |
| Engine (`engine.rs`, `trace.rs`, `error.rs`) | current states, callbacks, depth limit, trace | `send_event`, `register_action`, `set_max_cascade_depth`, `clear_traces` | `Engine`, `Signals`, `EngineDocs` |
| Scenario runner, `stt`, `sts` (`run.rs`) | fail set, place in the scenario, errors | replay an event, `fail`, `reset`, `event` | `Runner` |
| Persistence, hot reload, `stp` (`persist.rs`) | the state file | `save_state`, `load_state`, `reload_topology`, `stp save`, `stp reload` | `Persistence` |
| Watch mode (`watch.rs`, `stc watch`) | last mtime, time of the last compile | poll, debounce, compile, replay | `Watch` |
| Composition (`compose.rs`) | set of visited files | `load_topology`, `expand`, port connections, `from_path` | `Compose` |
| Guard language (`guard/`) | none beyond a call | parse, evaluate | `Guard`, `GuardLanguage` |
| DDL compiler, `stc` (`ddl/`, `bin/stc.rs`) | token position, what was declared so far | parse, lower, expand, export | `Ddl`, `DdlGrammar`, `Compiler` |
| Static checks (`check.rs`) | none | self-loops, dead states, unused and repeated guards | `Compiler` |
| DOT and SVG export (`export/`, `stv`) | none | render | not modelled |
| C ABI and WASM (`ffi.rs`, `wasm-topology/`) | an opaque engine pointer | one engine call each | not modelled |

**How they interact.** `load_topology` resolves includes and instances and gives
the engine a flat schema, which `validate` accepts or rejects. A program registers
callbacks and sends events. One event takes one transition: `on_exit` actions, the
tentative change of state, `on_transition` and `on_enter` actions, then commit,
or rollback when an action failed after the change. After the commit the engine
collects the reactions whose trigger is the entered state and hands them to the
dispatcher, which sends their derived events: a recursive call per reaction, so
the cascade of the first is over before the second is fired. A failing cascade
runs the reaction's `on_fail` hook and goes on failing. Guards are parsed and
evaluated anew at each event. `stc` takes the other way in: it parses a DDL
document, lowers it to a schema, expands it as `load_topology` would, and writes
the JSON that an engine is later built from. The runner and the shell
sit on top with handlers that fail on request; `stp` puts a state file around the
engine; the watcher recompiles a DDL file and replays a scenario on each change.

**What is hard.** Nothing in the engine runs concurrently: callbacks cannot reach
the engine, which is mutably borrowed while they run. The hard part is
*re-entrance*: one signal may be changed by a cascade while its own reactions are
still being dispatched; *partial failure*: an event fails at one of many places
with some transitions committed and some not; and *scheduling*: groups complete by
counting, inside dispatches that nest. The compiler's difficulty is *agreement*:
the parser decides by one token of look-ahead where a clause ends, resolves names
only after the last declaration, and the checks it makes must still hold after
lowering, substitution and wiring, in another file's code. Around the engine there are a state file
that a crash can tear, and a file watcher that races with the editor.

**What makes each component correct.**

- Topology: a validated topology never sends the engine to an undeclared signal
  or state.
- Dispatcher: joins fire after their forks; nothing is lost, repeated or left
  although it could run; equals fire in source order; dispatches end.
- Engine: signals only move along declared transitions whose guard can hold; a
  failed transition leaves its source state, a committed one stays; trace, states
  and result tell the same story; a call has one error; every call returns.
- Runner: injected failures are scoped to their event; a failing event does not
  end the replay.
- Persistence: restored states are declared; what was saved loads; `stp reload`
  migrates the file or leaves it alone.
- Watch: changes are compiled although the file moves on during poll and compile.
- Composition: a set of files loads exactly if they form a tree of readable files
  without common signals, and then in source order; an instance of a component
  that is valid by itself is refused or valid; no placeholder appears that neither text nor component had.
- Guards: what is refused has no reading in the documented grammar and what is
  accepted has one, which is the expression; integers are exact or an error; the
  comparisons tell one story; an error anywhere in a guard is the guard's error.
- DDL compiler: legal documents are accepted and understood as written; of an
  accepted source nothing is lost that is not known to be; the JSON takes the transition that the first fitting
  arm describes, and its joins wait for the blocks they name; what was parsed
  validates; states called dead are.

## Modules

| Module | Role |
|---|---|
| `ForkGroups` | the bookkeeping of a dispatch as operators: `NewSchedule`, `AfterFiring`, and what they are made of |
| `Dispatch` | one call of `dispatch_reactions` as a state machine |
| `ForkJoin` | abstract specification: fire any enabled reaction, return when none is |
| `DispatchProofs` | theorems about the three above |
| `Topology` | the flat schema, `validate`, matching |
| `TopologyProofs` | lemmas about `Topology` and `ForkGroups`, and induction over numbers, for the modules below |
| `Engine` | `TopologyEngine` with its recursion as a stack of frames |
| `Signals` | abstract specification of the engine: state machines that move one at a time |
| `EngineProofs` | theorems about `Engine`: its state and trace, refinement of `Signals`, one call of `send_event` and its cascade, the dispatches inside it |
| `EngineDocs` | a documented sentence about the engine that its code does not keep |
| `Runner`, `RunnerProofs` | `run_scenario` and the shell; extends `Engine`; theorems about it |
| `Persistence` | the state file, `load`, `save`, `reload`, kills |
| `PersistenceProofs` | theorems about `Persistence` |
| `Watch` | the poll loop and the file system |
| `Compose` | from files to a validated engine: includes, then instances |
| `ComposeProofs` | theorems about `Compose` |
| `Guard` | one call of `eval_guard`, the values of guards and what the operators make of them |
| `GuardLanguage` | the parser of guards and the evaluation of an expression, which `Guard` uses |
| `GuardProofs` | theorems about `Guard` |
| `Ddl` | the DDL parser, one declaration a step |
| `DdlGrammar` | the DDL as its documentation has it: how a document is written down, which are legal; used by properties only |
| `Compiler` | extends `Ddl` and `Compose`: from a source through the parser, `codegen`, `expand`, `check` and `stc` to a validated engine |
| `CompilerProofs` | theorems about `Compiler` |
| `MC*` | small instances for TLC |

### Dispatch

A schedule is the record of `dispatch_reactions`' local variables: `ready` (the
`VecDeque`), `waiting`, `done` (`group_done_count`), `complete` (`groups_done`).
`Pop` is `pop_front`, `Settle` what happens after `fire_one_reaction` returned
`Ok`, `Abort` its `?`, `Return` the end of the loop. `fired` is a history
variable. What a firing does inside is left to `Engine`; here it succeeds or
fails. Reactions are named by their place in the source list, so source order is
the order of numbers and a vector that is only ever filtered is the set of its
members. `matched` is any sequence of reactions with a group and a set of
required groups, so the model covers joins of empty groups, of their own group,
and of each other.

### Engine

`send_event_internal` calls itself through `dispatch_reactions` and
`fire_one_reaction`. Its activations are the elements of `stack`; the `depth`
argument is the length of the stack less one. A frame holds the locals: signal,
event, payload, transition, old state, the next action, the schedule. The phases
are the blocks of the function:

| Phase | Code | Actions |
|---|---|---|
| `matching` | lookup of signal, transition, guard | `Reject`, `Match` |
| `on_exit` | `on_exit` loop, tentative change | `RunAction`, `LeaveSource` |
| `on_transition`, `on_enter` | the two other loops, rollback | `RunAction`, `BeginEnter`, `Commit` |
| `dispatch` | `dispatch_reactions`, `fire_one_reaction` | `PopReaction`, `SkipReaction`, `FireReaction`, `ReturnToReaction`, `ReturnToCaller` |
| any, while an error is on its way | the `?` operators and `on_fail` | `Compensate`, `Propagate` |

Each lifecycle action is a step of its own that may succeed, fail, or find no
callback. Trace events carry what the properties read: kind, signal, states,
action, reaction, error. Guards are opaque: `GuardResult` gives each guard's
answer on each payload, `error` included. `base` and `began` are history
variables: where the trace starts from, and where the last call's part begins.
Between calls the caller registers actions, sets the depth limit, clears the
trace.

### Runner

`Runner` extends `Engine` and does not repeat it: an engine step is allowed if its
new trace entries agree with the fail set (`HandlersAnswer`). In a batch the fail
set is filled for an event and emptied after it; the shell's `fail` and `reset`
change it between events. The result of a replay records for each failed event the
error and the state reported as `state_after`.

### Persistence

One process at a time with one engine: `stp save`, `stp reload`, or a library user
who calls the three operations in any order. An event is a step of `Signals`.
`fs::write` is two steps, truncation and content, with a kill (`Exit`) or a write
error possible between them; `Torn` is any file so produced. Files written by
hand, or under other topologies, are in the initial states. The order in which
`load_state` meets a bad entry is that of a `HashMap`, so it may return either
error when a snapshot has both kinds of bad entry.

### Watch

The loop's steps are those where the file system or the clock can intervene: the
poll, the read, the report, the sleep. An edit's number stands for its mtime and
its content. `since` is `last_compile.elapsed()`, cut off at the debounce window.
Time passes in any state of the loop, so a compile may take any time.

### Compose

`load_topology_inner` calls itself for each include, so its activations are a
stack of open files, each with the schema merged so far and the include that is
next. `Open` is a call up to its loop, `Refuse` its three early errors, `Merge` the
return into the loop of the file below, which merges or finds a common signal.
Then `expand` takes the root's instances in turn (`merge_in` takes no instances
from an included file, so those are dropped): `InstanceFault` is the first error
among missing component, missing binding, connections in order, and placeholders
left over; otherwise the component's definitions are appended, substituted and
renamed. `Build` is the last check for repeated signals and the validation in
`from_schema`, whose own call of `expand` has nothing left to expand. `loaded` keeps
what `load_topology_inner` returned for the root, before `expand`. A string is
a literal or a single placeholder; text around a placeholder is left out. Ports
without an alias are addressed by the pair of their substituted signal and state.

### Guard

A behaviour is one call of `eval_guard` with one payload. The call and the
operators are `Guard`; what is recursive, the parser and the walk over an
expression, is `GuardLanguage`. `Guard` has them as its constants `Parse` and
`Eval`, to which the configuration gives `ParseTokens` and `EvalExpr`, so that what
is proved of `Guard` needs no induction over expressions. The grammar's five
levels of binary operators are one operator, `ParseLevel`, over a table of
operators; comparison is the level that does not repeat. Tokens are given: the
lexer, which works on characters, is left out. An integer has a small width
(`MinInt..MaxInt`); a float is what the constants `FloatArith` and `AsFloat` make
of it, so a conversion rounds and a result may be infinite or not a number. The
negation of the minimum is the one operation that the code does not check: it
panics in a debug build and wraps in a release build, so `build` is chosen at the
start.

`Engine` leaves guards opaque. Nothing is lost by that: `eval_guard` reads its
guard and its payload and no state, and ends in one of the three answers that
`Engine` takes from `GuardResult` (or in the panic).

### Ddl and Compiler

A source is a sequence of lexemes, comments among them, because guards and
payloads are copied verbatim from the source, from one token to another. The
parser descends into blocks (`signal`, `fork`, `join`, `component`), so its
activations are the stack `blocks`; every other declaration is one step. An
operator `...Fits` says whether the parser's tests pass where it stands and
another where what it reads ends, so `RefuseSource`, the parser's error, is
exactly the case that nothing fits. A declaration keeps what the parser's structure
keeps: of an instance neither its name nor a binding that is replaced, and its
bindings are a map (`Inserted`). `Finish` is the end of `parse_doc`, where
joins and guard references are resolved.

`Compiler` goes on with the document as `compile_full` does: `Emit` is
`codegen::emit`, `Expand` and `Expanded` are `compose::expand`, the same actions
as in `Compose`, on a schema without includes. `Export` is what `stc --check` does
with the result: the warnings and the JSON. `Load` is an engine made from that
JSON: `Valid` of `Topology`. A payload is JSON or not (`JsonTexts`); serde_json is
external. Positions, line numbers and the wording of errors are left out.

## Runs

| Run | States | What it asks |
|---|---|---|
| `dispatch` (`MCDispatch`) | 125 k | every dispatch of up to four reactions over two groups |
| `engine` (`MCEngine`) | 64 k | two events in each of five topologies, all action outcomes, depth limits 0, 1, 2 |
| `runner` (`MCRunner`) | 103 k | all scenarios of up to three events; shell sessions of up to three events |
| `persistence` (`MCPersistence`) | 75 k | all sequences of programs over four topology versions and three foreign files |
| `watch` (`MCWatch`) | 14 k | up to four edits and any removals at four poll intervals |
| `compose` (`MCCompose`) | 46 k | every include graph of out-degree two over three files; some 5600 ways to instantiate a component |
| `guard` (`MCGuard`) | 136 k | every sequence of up to five tokens of three alphabets; every operator on every two values, nested in another |
| `ddl` (`MCCompiler`) | 84 k | some 4700 documents in five families, and 2000 damaged sources |
| `held_joins`, `saved_loads`, `swallowed_guard`, `reaction_guards` | | one documented sentence each, which the code does not keep |

**Properties of `dispatch`.** `JoinAfterForks`, `EachReactionInOnePlace`,
`NothingRunnableLeft`, `EqualsFireInSourceOrder` and `FiresTheLeastClosedSet` (what
fires is the least set closed under the requirements, whatever the schedule);
`ImplementsForkJoin` and `DispatchEnds`. *Bounds:* two groups make chains (a join
that is a member of the next fork) and mutual waiting; four reactions fill both
groups twice, or one group and two joins. The proofs remove both bounds for all but
`DispatchEnds`.

**Properties of `engine`.** `TraceTellsState`: replaying the trace gives every
signal's state at every step. `ImplementsSignals`: rollbacks and failing cascades
are invisible from outside. `OkMeansAllCommitted`: exactly one event of a failing
call did not commit. `OneErrorPerCall`: hooks, whatever they do, are told the
original error and the caller gets it. `CascadesFindTheirSignal`, and
`EventsReturn`, whatever cycles the reactions make. `FramesDispatch`: every frame's dispatch is a run of `Dispatch`
although other dispatches run inside it, so what is proved of `Dispatch` holds of
the engine's. All but `EventsReturn` are also proved. *Bounds:* two calls, so that the states a failing call leaves behind
are where the next one starts; the topologies are the smallest in which the
following happen: all three phases, a wildcard that hides a later transition; a
chain with hooks on two levels; a fork, a join and a signal reached twice; an
endless cycle; a join on another trigger than its fork. Four invalid topologies
check what `validate` turns away.

**Properties of `runner`.** `InjectionScopedPerEvent` (a failure in a replay is one
that its event asked for; nothing else fails an action), also proved, and `ReplayEnds`.
*Bounds:* three events are an injection, a failure and a retry.

**Properties of `persistence`.** `RestoredStatesAreDeclared`, `SavedStateLoads`,
`ReloadMigratesTheFile`. No bound but the constants: the states are finite.
The four versions drop a signal, add one, drop a state in use, change an initial
state, and are invalid.

**Properties of `watch`.** `LaterChangeNotLost` and `EditsCompiledWhenPollsAreFar`.
*Bounds:* the unit is 100 ms; the intervals lie below, at, and above the debounce
window of 200 ms, and one is below the minimum; four edits are one compiled, two
inside its debounce window, and one after.

**Properties of `compose`.**
`FailuresHaveTheirCause` compares each outcome with the files that the root
includes, directly or not (`Tree`, the least set closed under includes), and with
the places where they do (`Places`); `MergedInSourceOrder` compares what was merged
with the preorder of the tree that the includes unfold to (`Unfolded`).
`InstancesStayValid`: substitution and renaming never make a closed component
invalid. `PlaceholdersLeft`: a placeholder that expansion adds to a field it resolves
(`Texts`) was supplied as text, and one in a field it copies (`Copied`: a reaction's
guard, group, requirements and hook) stands there in the component. That the second
kind is left at all is what `reaction_guards` shows.
*Bounds:* three files and two includes each make rings, a file included twice by
one file, diamonds, chains and trees with a missing leaf, and a third file may
repeat the second one's signal; the component has two parameters in every kind of
field, ports with and without alias and two bad ones; each instance binds to
names of its own, of the other signal, and to text that looks like a placeholder,
with at most two wires, and a second instance is absent, bare, or wired. The proofs
remove all of these bounds.

**Properties of `guard`.** `DecidedByTheGrammar` compares the parser with a grammar
written the other way round: the set of expressions that a sequence of tokens can
mean, by trying every place to split it. `ComparisonsAgree`: of two ordered values
exactly one of `<`, `==`, `>` holds, and so on, and that null equals itself only and is ordered with
nothing; only objects and arrays are left out. `IntegersExactOrRefused`: an integer
anywhere in a guard is what unbounded arithmetic gives. `ErrorsSurface`: an answer
means that every part of the guard has a value. *Bounds:* five tokens are two
binary operators, or one with parentheses, or three signs; three operators follow
from two, as a level repeats. The proof removes the bounds
for `ComparisonsAgree`. Four bits have every boundary of 64 once: the
minimum without a negative, quotients and products outside, integers that no float
is (floats above 4 are even).

**Properties of `ddl`.** `AcceptedAsWritten` and `NothingIsLost` look at the parser
from its two sides: a document, written down by `DdlGrammar`, is accepted exactly
if it is legal and then read as it was; and any source that is accepted, damaged
ones included, has all its words in what was read. Two kinds of words are lost on
the way, and `NothingIsLost` names them: the name of an instance (`instantiate c as n`),
which `parse_instantiate` discards, and a binding of a parameter that the same
instance binds again, which the map that `parse_binding_map` fills replaces
(`Inserted`). So the property asks for a document that means the declarations read
(`Means`) and has the words of the source. `FirstArmWins` and
`WorkflowAsWritten` compare the JSON with the declarations. `OnlyReactionsFailValidation`:
after wiring and renaming too, the engine finds no fault in signals and
transitions. `DeadStatesAreNeverEntered` compares the warnings with reachability.
*Bounds:* three arms of a signal decide every order of wildcard and named arms;
four workflow blocks put one block before, between and after a fork and its join;
two reactions side by side are what one clause can do to the next; two guards, two
wires, two instances are the least that can collide. The three documents that are
damaged hold every construct; damage is one lexeme dropped, doubled, inserted (six
strays, at every place) or swapped with the next.

**Divergences found**, each shown by its run:

- `held_joins`: a join triggered inside the cascade of its own fork is dropped
  when that inner dispatch ends; `doc/ddl.md` says it is held until the group
  completes. The group's members are only looked for among the reactions of the
  same trigger.
- `saved_loads`: a snapshot saved after `reload_topology` may be refused by
  `load_state` under the same topology; `src/persist.rs` says it can be restored.
- `swallowed_guard`: a guard runs up to a brace, `with` or `on_fail`. A guarded
  reaction of a fork that is followed by another one takes it into the text of its
  guard, and so does a guarded transition without actions that another `on`
  follows; `src/ddl/parser.rs` and `doc/ddl.md` say that the next clause is told
  apart. `AcceptedAsWritten` is about the documents where every guard is ended by
  one of these tokens (`Delimited`).
- `reaction_guards`: the guard, group, requirements and hook of a component's reaction
  are copied with their placeholders (`compose.rs:333-337`); `src/schema.rs`,
  `src/compose.rs` and `doc/composition.md` say that every string field is substituted.

Met while reading, without a run of their own:

- `ReactionCompensated` is recorded also when the hook has no callback
  (`engine.rs:537`); `src/trace.rs:77-79` says the hook has been run.
- The JSON of `stc` has no payload for a reaction that was given one
  (`stc.rs:154`); `doc/ddl.md:166` lists it among its fields. `Export` models it.
- `!=` holds between null and a value (`guard/eval.rs:90`); `doc/guards.md:73`
  says comparisons with null are false, but for `null == null`.
- An event whose cascade failed leaves its own transition committed; `run.rs:118-119`
  calls the state reported for it the one rolled back to.
- An action without a callback is rolled back without an `ActionFailed`
  (`engine.rs:221`); `src/trace.rs:47-48` says that `Rollbacked` only appears after
  one, and `doc/transaction.md:23` that every failure has one.
- An instance that binds a parameter twice is accepted with the later value
  (`parser.rs:969`); the documentation does not say what that means.
- With a poll interval below the debounce window, the last of some quick edits is
  never compiled (`watch.rs:199`); `doc/ddl.md:614-615` says every change of mtime is.
- The warning of an unused guard does not look at the reactions of components
  (`check.rs:165`); its documentation speaks of any reaction (`check.rs:51-54`).
- `doc/ddl.md`'s grammar has `instantiate` without the `with` that the parser needs,
  fork and join inside components, where the parser refuses them, and an empty `{ }`
  after a `with` block, where the parser takes one or the other.
- The DDL's lexer knows no `$`, so the parameters that a component declares cannot
  be used in it; and a port without an alias cannot be wired, as its name has a dot.
- A comment inside a guard is part of the guard's text, and a double-quoted string
  in a guard passes the DDL's lexer; the guard lexer refuses both, at the first event.
- `doc/tracing.md` says a failing `on_transition` or `on_enter` action leaves a
  `StateChanged` that is not rolled back, and `src/schema.rs` that `on_enter` runs
  after the commit, where the code logs `StateChanged` last and rolls back.
- `src/schema.rs` says a reaction's guard reads the reaction's static payload, where
  the code evaluates it on the payload of the causing event.
- `src/error.rs` calls `IncludeCycle` a cycle, where the code also reports a file
  included twice.

## Fairness

`send_event` is sequential code: once called, it takes its next step unless a
callback never returns, which is the caller's affair. So `Engine`'s fairness is
weak fairness of the engine's own steps, and none of the caller's. `Dispatch`
assumes the same of its loop; that a firing returns is `EventsReturn` in `Engine`,
which does not assume it. The runner is fair to the engine and to its replay loop,
not to the user at the prompt. The watcher assumes that its loop runs and that
time passes; nobody has to edit, remove or stop. `Persistence`,
`Compose`, `Guard` and `Compiler` state no liveness.

## Proofs

`DispatchProofs` proves for any set of groups and any lists of reactions, of any
length:

- `TypeCorrectness`, `JoinsFireAfterTheirForks`, `NoReactionLostOrRepeated`,
  `ReturnLeavesNothingRunnable`;
- `SourceOrderDecides`: of two reactions with the same requirements the earlier one
  in the source fires first;
- `FiredIsLeastClosed`: what a dispatch that returns `Ok` has fired is the least set
  that contains, with all members of the groups a reaction requires, that reaction;
- `Refinement`: `Dispatch` implements `ForkJoin`.

The assumptions are `NoGroupAssumption` (the name for "no group" is not a group)
and `DispatchableAssumption` (a dispatch is given a sequence of reactions).

`JoinAfterForks` is not inductive: the code does not look at which reactions have
fired but at a counter, a total, and a set of completed groups. The invariant
`IInv` says what these mean: `GroupsCounted` (the counter is the number of fired
members, and a group is in `groups_done` exactly if it has members and all have
fired), `RequirementsDecideThePlace` (what is queued or in hand has its
requirements completed, what waits lacks one), `EachReactionInOnePlace` (without
which a member could be counted twice), and `ReturnedEmptyHanded`. The step that
matters is `Settle`. `TopologyProofs` proves it about the operators
(`BooksKept`: one more member in the past keeps the books right) from facts about
queues without repetition and about cardinalities: the counter reaches the total
exactly when the set of fired members is the set of members, as one is a finite
subset of the other. `Refinement` follows: the reaction in hand is one that
`ForkJoin` enables, and when the queue is empty every unfired reaction waits and
so lacks a group.

Two more invariants stand on `IInv`. `OrderKept`: the queue holds reactions with the
same requirements in source order. An earlier equal of the queue's front is then
not behind it, and not waiting, since what they both require is completed; so it
has fired. `FiresNoMore`: what is fired lies in every closed set, as `Pop` takes only
what has its requirements completed, and those members are in the set already. With
`ReturnLeavesNothingRunnable`, by which `fired` is itself closed, it is the least.
The least closed set is stated as the intersection of all (`Fireable`), without
recursion, which is what puts it in the prover's reach.

`EngineProofs` proves for any topologies, any callbacks and any sequence of calls:

- `TypeCorrectness`;
- `TraceIsFaithful`: replaying the trace gives the state of every signal;
- `Refinement`: `Engine` implements `Signals`, that is, seen from outside a signal
  moves along a declared transition whose guard holds, or not at all.

The assumptions are `NoGroupAssumption`, `DepthAssumption`, `CallsAssumption` and
`TopologiesAssumption`; the last says that transitions and reactions are numbered
and reactions finite in number, and that they name known groups and payloads,
which the Rust types give. That a topology is valid is not assumed: the first
action checks it, as `from_schema` does.

None of the three is inductive. Between the tentative commit and its `StateChanged`
a signal is ahead of the trace, and a rollback has to find the state it left; the
properties do not say which frame that can be, nor what it knows of its signal.
`IInv` has four parts. `SetupOK` are the parameters of the run. `StackOK` says
what each frame may rely on: its transition is one of its signal's, its guard said
yes, its dispatch has its books right (`BooksRight`, from `TopologyProofs`), and
every frame but the top one is waiting for the event its reaction sent, so that at
most the top frame is tentative. `CurrentOK` says where the top frame's signal is:
at the frame's source before the tentative commit, at the target of its transition
after it. `TraceOK` says it of the log: every `StateChanged` starts where the
entries before it end, and after the last entry the log tells the committed states
(`Tells`, the last change of a signal or its initial state, a form without
recursion). A step that logs other entries keeps `TraceOK` (`QuietExtension`); the
one step that logs a change is the one that ends the tentative part of the top
frame.

It also proves of every call, from the same assumptions:

- `OkIsEarned`: a call that returns `Ok` has committed every event it received and
  rolled back nothing; one that fails had exactly one event that did not commit, or
  none when it was cut at the depth limit;
- `OneErrorEach`: every `on_fail` hook is told the error that the caller gets;
- `DerivedEventsFindTheirSignal`: only the event that the caller sends can name an
  unknown signal;
- `FramesFollowTheDispatcher`: `FramesDispatch`, each step of the engine is for each
  frame a step of `Dispatch` or leaves its schedule alone.

The first three follow from `CallOK`, which is inductive together with `IInv`.
`CallShape`: the log of a call starts with the event sent, whose frame is the lowest,
and all other frames are for declared signals, because `validate` looked at the
targets of reactions. `OneError`: before a call fails it has no entry of a rollback
or a hook, and afterwards every hook's entry carries its outcome, which no step
changes while the error is on its way. `Counted`: the events received are as many as
the changes committed, and one more while the top frame has not committed or the
call failed elsewhere than at the depth limit. Both sides are cardinalities of sets
of places in the trace, of which each step adds at most one. `FramesFollowTheDispatcher`
goes through the actions: of one that pushes, pops or works on the top frame, the
frames below see nothing, and the top one takes `Dispatch`'s step, for which `IInv`'s
`BooksRight` supplies that `fired`, which the engine does not keep, is what is
neither queued, nor waiting, nor in hand.

`RunnerProofs` proves for any scenarios and any session:

- `ProgramsKeepTheEngine`: what is proved of the engine's variables and its trace
  holds in the programs too;
- `InjectionIsScoped`: an action fails in a replay only where the event being sent
  asks for it, and none is without a handler.

To `Engine`'s assumptions it adds `ScenariosAssumption`: a scenario is a list of
events, its payloads are known ones, and its signals are declared ones or
`StrangeIds`, names that no topology knows. The runner's engine steps are the engine's
with a condition on what they log, so `IInv` carries over, with a lemma for the
runner's own steps. `RunnerInv` adds that all actions of the topology are registered,
so that `ActionNotFound` never comes up, `FailSetScoped` (in a replay the fail set is
that of the event being sent while it runs, and empty between events) and
`EntriesAsInjected` (the entries that the event has written of actions so far are as
it names them). `EngineAdds` says what an engine step may write: it only adds to the
trace.

`ComposeProofs` proves for any files that include each other in any way, and any
instances of any components:

- `ComposeTypes`;
- `FailuresAreEarned`: a load fails for a missing file, an include met again or a
  repeated signal only if there is one, and succeeds only if there is none;
- `FilesAreMergedInOrder`: what is loaded is the preorder of the includes, and what
  instances add comes behind it;
- `InstancesKeepValidity`: instances of components that are topologies by
  themselves, with whatever bindings and wires, are refused or keep a valid topology
  valid;
- `PlaceholdersAreAccountedFor`: a placeholder that is left was supplied as text, or
  stands in the component in a field that expansion copies.

The assumptions are `DisksAssumption` (finitely many files, each unreadable or a
schema whose fields are lists) and `AnyAssumption` (the wildcard `"*"` is not a
placeholder). `ComposeShape` is the type of the open files. The rest is three
arguments, each an invariant of its own:

- `ExpansionInv`, for the instances. A topology is `Sound` if it is valid up to
  repeated ids. What an instance adds is a `Piece`, the component's definitions under
  a substitution; the piece of a sound component is sound, whatever names it is
  given, since a transition and its signal are renamed alike; and two sound
  topologies put together (`Joined`) are sound.
- `FailuresInv`, for the errors. `Explored`: visited files are in the tree, open files
  are distinct, and each visited file but the root was reached by exactly one include
  that was `Followed`. So an include of a visited file is a second place for it, and
  when the stack is empty every place in the tree was followed, once. `Parted`: each
  visited file has gone into the schema of one open file, and those that went into
  the same one have no signal in common. A repeated signal between two files is
  thus found when they meet, and not before.
- `OrderInv`, for the order. `Listed`: each complete file has its list (itself, then
  the lists of its includes) and a rank, below that of the file that includes it; and
  the schema of each open file `Describes` itself followed by the lists of the
  includes already merged. `UnfoldedInOrder` shows that `Unfolded`, a recursive
  function of a depth, has that list at every depth from the file's rank on; a rank
  is less than the number of files, the depth at which `Unfolded` is taken. `Continues`: what
  instances add comes behind what was there.

The last needs induction over numbers, for which the library's theorem takes an
operator as its parameter. `TopologyProofs` has it with a set in its place
(`AllNumbers`: a set with 0 and all its successors has all numbers, from the least
element of a set of numbers). The facts about concatenation and flattening of lists
and about recursive functions are proved with it.

`PersistenceProofs` proves for any topologies, any files and any sequence of
programs, kills and write errors, from no assumption at all:

- `TypeCorrectness`, `LoadChecksStates`, `SaveThenLoad`;
- `ReloadMigration`: what `stp reload` leaves in the file is the migrated snapshot,
  what was there before, or a torn write, and it reports which.

Only `ReloadProgress` had to be added to make these inductive: for each step of
`stp reload` what the engine and the file hold, from the restored snapshot over the
carried-over states to the written file. `ReloadMigrates` is the reason why the
code's two steps (restore, carry over) are the one migration of the property.
`TopologyProofs` supplies that the initial states of a valid topology are declared
(`InitialIsDeclared`).

`GuardProofs` proves for integers of any width, any floats and any rounding to
them, any strings, any parser and any evaluation of expressions:

- `CallsAreTyped`;
- `ComparisonsTellOneStory`: `ComparisonsAgree` for any two values in the payload,
  null included.

Of its assumptions, `NumbersAssumption` says that integers round to floats that are
numbers and NaN is none, `StringsAssumption` that strings have one order, and
`PayloadsAssumption` that the fields of a payload are values or structures, as JSON
has them. An order compares two values by their ranks (`Ranks`), and two values are
equal exactly if their ranks are: `RanksAre` shows it across the types, the mixed
comparison of an integer and a float among them; the story is then that of two
integers.

`CompilerProofs` proves for any documents and any sources, damaged in any way:

- `OnlyReactionsFail`: the engine refuses what the compiler writes only for a
  reaction of a signal that is not declared;
- `DeadStatesAreDead`: no sequence of transitions leads to a state that is warned of;
- `FirstArmIsTaken`: the first fitting transition of the output is the one that the
  first fitting arm of the signal describes;
- `JoinsWaitForTheirForks`: a join requires exactly the reactions of the fork it
  names, for sources with at most four fork blocks (`FewForks`), as the model's table
  `ForkName` has four names; the code's counter has no limit.

The assumptions are `SourcesAssumption` (a source is a sequence, and no identifier is
`*`, which the lexer reads as a symbol), `WildcardAssumption` (the wildcard of a
topology is what `*` becomes) and `NamesAssumption` (a group's name is a name).

None of the four says anything of the steps before the last, so three invariants
lead to them:

- `CompilerInv`, for validity. While parsing, what was read and what is open is in
  order (`DocumentOK`, `OpenOK`): ids are new in their block, and initial states and
  the states of transitions are those of their signal. `PieceDeclaresStates` and
  `JoinedDeclaresStates` of `ComposeProofs` carry it through the instances, so that
  the JSON is `Consistent`. Then a state that is warned of is outside `Reached`
  (`WarnedDead`), which is closed under the transitions, and what the engine can
  reach is in every closed set.
- `ArmsInv`, for the order of transitions. The schema that is emitted
  `FollowsDocument`: the first of its transitions that fits is among those of the
  signal's own list, and lowering keeps a list's first fit (`FirstOfTopology`).
  Instances only append (`Grown`), and a signal declared in the document has its
  transitions before theirs; if an instance repeated its id, the compiler would stop
  before it writes.
- `FlowInv`, for forks and joins. Each reaction of the output stands for the block
  that `BlocksOf` gives its place, with that block's group or requirement
  (`FollowsBlocks`), and joins name forks (`JoinsFit`). Two fork blocks have
  different names because the counts of fork blocks up to them differ.

Checked by TLC only:

- liveness, which is beyond the prover: `DispatchEnds`, `EventsReturn`, `ReplayEnds`,
  and both promises of `Watch`;
- `AcceptedAsWritten` and `NothingIsLost`, about the parser of the DDL: both relate a
  source of any length to declarations of any depth, word by word, and the second is
  about sources that have the lifecycle phases of a transition in the order in which
  the grammar writes them, as all that are checked have;
- the parser of guards and the evaluation of expressions: `DecidedByTheGrammar`,
  `IntegersExactOrRefused` and `ErrorsSurface` are about `GuardLanguage`, which is
  recursive over expressions.

## Not modelled, and why

- Callbacks that panic, and reads of an engine after one did: the repository gives
  them no meaning.
- Queries (`get_state`, snapshots, `why`, trace export), DOT and SVG export and
  `stv`: they change no state and make text.
- The C ABI and the WASM binding: one engine call for one call; their own concerns
  are pointers and strings.
- The characters of a token (`ddl/lexer.rs`, `guard/lexer.rs`), and JSON parsing.
- Timestamps in the trace, positions and wording of errors: no property is about
  them.
- `reload_topology` on a schema with instances or includes, which it leaves
  unexpanded: `Persistence` works on flat topologies.

## Plan

Done, with proofs: `ForkGroups`, `ForkJoin`, `Dispatch`; `Topology`, `Engine`,
`Signals`; `Runner`; `Persistence`; `Compose`; `Guard`; `Compiler`. Done,
model-checked: `Watch`; `GuardLanguage`; `Ddl` and `DdlGrammar`.

Left, in this order:

1. A type invariant for `Watch`, and of its promises what is safety.
2. `Compose` with reload.
3. The runner's session as an implementation of `Signals`.
