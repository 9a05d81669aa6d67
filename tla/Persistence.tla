---------------------------- MODULE Persistence ----------------------------
(***************************************************************************)
(* save_state, load_state (persist.rs), reload_topology (engine.rs) and    *)
(* the two commands of stp built from them, around one state file.         *)
(*                                                                         *)
(* One process runs at a time and has one engine; what happens inside an   *)
(* event is Engine.tla's matter, here it moves a signal along a            *)
(* transition (Signals.tla) or, failing, changes nothing.  fs::write first *)
(* truncates the file and then fills it, and the process may be killed or  *)
(* the disk may fail anywhere: a file caught in between does not parse,    *)
(* since no proper prefix of a JSON object does.                           *)
(***************************************************************************)
EXTENDS Topology

CONSTANTS
  Topologies,   \* the topology files
  HandWritten,  \* state files a user may bring along: functions from signal ids
  NoFile,       \* there is no state file
  Torn,         \* a truncated or half-written state file
  NoTopology    \* no process, no engine

VARIABLES
  job,        \* the program running: "save", "reload", "library" or "none"
  step,       \* what it has done: "started", "loaded", "reloaded", "writing", "over"
  topo,       \* its engine's topology
  current,    \* its engine's states
  target,     \* the new topology stp reload was given
  file,       \* the state file: a function from signal ids to states, NoFile or Torn
  result,     \* "ok" or the error of the last operation
  \* history
  before,     \* the file when the program started
  began,      \* the topology the program started with
  migrated,   \* whether the engine's topology was ever replaced
  writer      \* [topology, migrated] of the engine that wrote the file

engine == <<topo, current>>
history == <<before, began, migrated, writer>>
persistenceVars == <<job, step, topo, current, target, file, result, history>>

Move == INSTANCE Signals WITH committed <- current

NoWriter == [topology |-> NoTopology, migrated |-> FALSE]

Init ==
  /\ job = "none"
  /\ step = "over"
  /\ topo = NoTopology
  /\ current = <<>>
  /\ target = NoTopology
  /\ file \in HandWritten \cup {NoFile}
  /\ result = "ok"
  /\ before = file
  /\ began = NoTopology
  /\ migrated = FALSE
  /\ writer = NoWriter

Alive == job # "none"
Idle == Alive /\ step # "writing" /\ step # "over"

\* from_schema: an invalid topology ends the program before it does anything.
Start(kind, t, t2) ==
  /\ ~Alive
  /\ Valid(t)
  /\ job' = kind
  /\ step' = "started"
  /\ topo' = t
  /\ current' = InitialStates(t)
  /\ target' = t2
  /\ before' = file
  /\ began' = t
  /\ migrated' = FALSE
  /\ result' = "ok"
  /\ UNCHANGED <<file, writer>>

SendEvent ==
  /\ Idle
  /\ job # "reload"
  /\ Move!Next
  /\ UNCHANGED <<job, step, target, file, result, history>>

\* The program ends with an error (process::exit), or the library call returns it.
FailWith(error) ==
  /\ result' = error
  /\ step' = IF job = "library" THEN step ELSE "over"

-----------------------------------------------------------------------------
(* load_state                                                              *)

Parses == file \notin {NoFile, Torn}

KnownSignals(snapshot, t) == DOMAIN snapshot \subseteq SignalIds(t)

\* Mutant: the state is not looked up.
KnownStatesAny(snapshot, t) == TRUE

KnownStates(snapshot, t) == \A s \in DOMAIN snapshot : snapshot[s] \in StatesOf(t, s)

\* Which of several errors is returned depends on the order of a HashMap.
LoadErrors ==
  IF ~Parses THEN {"PersistenceError"}
  ELSE (IF KnownSignals(file, topo) THEN {} ELSE {"PersistenceError"})
         \cup (IF \E s \in DOMAIN file \cap SignalIds(topo) : file[s] \notin StatesOf(topo, s)
               THEN {"StateNotFound"} ELSE {})

\* Signals the snapshot does not name keep their state.
Restored(snapshot, states) ==
  [s \in DOMAIN states |-> IF s \in DOMAIN snapshot THEN snapshot[s] ELSE states[s]]

LoadState ==
  /\ Idle
  /\ job = "library" \/ (job = "reload" /\ step = "started")
  /\ \/ /\ Parses
        /\ KnownSignals(file, topo)
        /\ KnownStates(file, topo)
        /\ current' = Restored(file, current)
        /\ result' = "ok"
        /\ step' = IF job = "library" THEN step ELSE "loaded"
     \/ /\ \E error \in LoadErrors : FailWith(error)
        /\ UNCHANGED current
  /\ UNCHANGED <<job, topo, target, file, history>>

-----------------------------------------------------------------------------
(* reload_topology                                                         *)

\* Mutant: every signal starts anew.
CarriedOverNothing(states, t) == InitialStates(t)

\* Mutant: the new signals are added to the old ones.
CarriedOverAll(states, t) ==
  [s \in SignalIds(t) \cup DOMAIN states |->
     IF s \in DOMAIN states THEN states[s] ELSE Declaration(t, s).initial]

\* Signals that stay keep their state, whether or not it is still one of theirs.
CarriedOver(states, t) ==
  [s \in SignalIds(t) |->
     IF s \in DOMAIN states THEN states[s] ELSE Declaration(t, s).initial]

ReloadTopology(t) ==
  /\ Idle
  /\ job = "library" \/ (job = "reload" /\ step = "loaded" /\ t = target)
  /\ \/ /\ Valid(t)
        /\ topo' = t
        /\ current' = CarriedOver(current, t)
        /\ migrated' = TRUE
        /\ result' = "ok"
        /\ step' = IF job = "library" THEN step ELSE "reloaded"
     \/ /\ ~Valid(t)
        /\ FailWith("ReloadError")
        /\ UNCHANGED <<engine, migrated>>
  /\ UNCHANGED <<job, target, file, before, began, writer>>

-----------------------------------------------------------------------------
(* save_state                                                              *)

MaySave ==
  /\ Idle
  /\ \/ job \in {"library", "save"}
     \/ job = "reload" /\ step = "reloaded"

\* The file is opened and truncated.
BeginWrite ==
  /\ MaySave
  /\ step' = "writing"
  /\ file' = Torn
  /\ UNCHANGED <<job, engine, target, result, history>>

\* The file cannot be opened.
OpenFails ==
  /\ MaySave
  /\ FailWith("PersistenceError")
  /\ UNCHANGED <<job, engine, target, file, history>>

AfterWrite == step' = IF job = "library" THEN "started" ELSE "over"

\* Mutant: only signals that have left their initial state are written.
SnapshotOfMoved ==
  [s \in {s \in DOMAIN current : current[s] # Declaration(topo, s).initial} |-> current[s]]

Snapshot == current

EndWrite ==
  /\ step = "writing"
  /\ file' = Snapshot
  /\ writer' = [topology |-> topo, migrated |-> migrated]
  /\ result' = "ok"
  /\ AfterWrite
  /\ UNCHANGED <<job, engine, target, before, began, migrated>>

\* The disk is full: the file stays as it is.
WriteFails ==
  /\ step = "writing"
  /\ result' = "PersistenceError"
  /\ AfterWrite
  /\ UNCHANGED <<job, engine, target, file, history>>

\* The program ends, is killed, or the machine stops.
Exit ==
  /\ Alive
  /\ step' = "over"
  /\ job' = "none"
  /\ topo' = NoTopology
  /\ current' = <<>>
  /\ target' = NoTopology
  /\ UNCHANGED <<file, result, history>>

Next ==
  \/ \E t, t2 \in Topologies : Start("reload", t, t2)
  \/ \E kind \in {"save", "library"}, t \in Topologies : Start(kind, t, NoTopology)
  \/ SendEvent
  \/ LoadState
  \/ \E t \in Topologies : ReloadTopology(t)
  \/ BeginWrite \/ OpenFails \/ EndWrite \/ WriteFails
  \/ Exit

Spec == Init /\ [][Next]_persistenceVars

-----------------------------------------------------------------------------

\* An engine has a state for exactly its topology's signals.
PersistenceTypeOK ==
  /\ job \in {"none", "save", "reload", "library"}
  /\ step \in {"started", "loaded", "reloaded", "writing", "over"}
  /\ Alive =>
       /\ topo \in Topologies /\ Valid(topo)
       /\ DOMAIN current = SignalIds(topo)
  /\ step # "over" => Alive
  /\ result \in {"ok", "PersistenceError", "StateNotFound", "ReloadError"}

\* A restored state is a declared one.  Whatever the file holds (another
\* topology's states, a hand-written part, what a migrated engine saved), an
\* engine whose own topology was never replaced only has states it declares.
RestoredStatesAreDeclared ==
  Alive /\ ~migrated => \A s \in SignalIds(topo) : current[s] \in StatesOf(topo, s)

\* A save can be undone by a load: what an engine whose topology was never
\* replaced wrote restores, in a new engine of that topology, every signal.
SavedStateLoads ==
  LET t == writer.topology
  IN  Parses /\ t # NoTopology /\ ~writer.migrated =>
        /\ DOMAIN file = SignalIds(t)
        /\ KnownStates(file, t)

\* What `stp reload` promises of the state file: signals of the file keep their
\* states, signals it did not name get the initial state of the topology that
\* declared them first, dropped signals go.  When the program fails before it
\* writes, the file is as it was.
Migrated(snapshot, t, t2) ==
  [s \in SignalIds(t2) |->
     IF s \in DOMAIN snapshot THEN snapshot[s]
     ELSE IF s \in SignalIds(t) THEN Declaration(t, s).initial
     ELSE Declaration(t2, s).initial]

ReloadMigratesTheFile ==
  job = "reload" =>
    CASE step = "over" /\ result = "ok" -> file = Migrated(before, began, target)
      [] step = "over" /\ result # "ok" -> file \in {before, Torn}
      [] step = "writing"               -> file = Torn
      [] OTHER                          -> file = before

\* src/persist.rs:23-24: the file save_state writes "can be restored with
\* `load_state`".  Not when the engine's topology was replaced by one that no
\* longer declares a state some signal was in.
SavedStateAlwaysLoads ==
  Parses /\ writer # NoWriter => KnownStates(file, writer.topology)

=============================================================================
