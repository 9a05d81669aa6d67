-------------------------- MODULE PersistenceProofs --------------------------
(***************************************************************************)
(* Proofs about Persistence.tla, for any topologies, any state files and   *)
(* any sequence of programs.                                               *)
(***************************************************************************)
EXTENDS Persistence, TopologyProofs

\* What reload_topology makes of the states that a snapshot left in a new engine
\* is what stp reload promises, if the snapshot names only signals of that engine.
LEMMA ReloadMigrates ==
  ASSUME NEW snapshot, NEW t, NEW t2, DOMAIN snapshot \subseteq SignalIds(t)
  PROVE  CarriedOver(Restored(snapshot, InitialStates(t)), t2) = Migrated(snapshot, t, t2)
<1> DEFINE states == Restored(snapshot, InitialStates(t))
<1>1. /\ DOMAIN states = SignalIds(t)
      /\ \A s \in SignalIds(t) :
           states[s] = IF s \in DOMAIN snapshot THEN snapshot[s] ELSE Declaration(t, s).initial
  BY DEF Restored, InitialStates
<1> HIDE DEF states
<1>2. \A s \in SignalIds(t2) :
        (IF s \in DOMAIN states THEN states[s] ELSE Declaration(t2, s).initial)
          = (IF s \in DOMAIN snapshot THEN snapshot[s]
             ELSE IF s \in SignalIds(t) THEN Declaration(t, s).initial
             ELSE Declaration(t2, s).initial)
  BY <1>1
<1> QED
  BY <1>2 DEF states, CarriedOver, Migrated

-----------------------------------------------------------------------------
(* The inductive invariant                                                 *)

\* How far stp reload has come, and what its engine holds at each step: the
\* file's states over the old topology's initial ones, then what the new
\* topology keeps of those.
ReloadProgress ==
  job = "reload" =>
    /\ step \in {"started", "loaded"} => topo = began /\ file = before
    /\ step = "started" => current = InitialStates(began)
    /\ step \in {"loaded", "reloaded", "writing"} => DOMAIN before \subseteq SignalIds(began)
    /\ step = "loaded" => current = Restored(before, InitialStates(began))
    /\ step \in {"reloaded", "writing"} => current = Migrated(before, began, target)
    /\ step = "reloaded" => file = before
    /\ step = "writing" => file = Torn
    /\ step = "over" =>
         IF result = "ok" THEN file = Migrated(before, began, target) ELSE file \in {before, Torn}

IInv ==
  PersistenceTypeOK /\ RestoredStatesAreDeclared /\ SavedStateLoads /\ ReloadProgress

LEMMA InitEstablishes == Init => IInv
BY DEF Init, IInv, PersistenceTypeOK, RestoredStatesAreDeclared, SavedStateLoads,
       ReloadProgress, Alive, NoWriter

LEMMA StartPreserves ==
  ASSUME IInv, NEW kind \in {"save", "reload", "library"}, NEW t \in Topologies, NEW t2,
         Start(kind, t, t2)
  PROVE  IInv'
<1> USE DEF Start
<1>1. PersistenceTypeOK'
  BY DEF PersistenceTypeOK, Alive, InitialStates
<1>2. RestoredStatesAreDeclared'
  BY InitialIsDeclared DEF RestoredStatesAreDeclared, InitialStates
<1>3. SavedStateLoads'
  BY DEF IInv, SavedStateLoads, Parses, KnownStates
<1>4. ReloadProgress'
  BY DEF ReloadProgress
<1> QED
  BY <1>1, <1>2, <1>3, <1>4 DEF IInv

LEMMA SendEventPreserves == ASSUME IInv, SendEvent PROVE IInv'
<1>1. PICK i \in DOMAIN topo.transitions :
        /\ current' = [current EXCEPT ![topo.transitions[i].signal] = topo.transitions[i].to]
        /\ topo' = topo
  BY DEF SendEvent, Move!Next, Move!Move
<1>2. /\ Alive /\ job # "reload"
      /\ UNCHANGED <<job, step, target, file, result, before, began, migrated, writer>>
  BY DEF SendEvent, Idle, history
<1>3. DOMAIN current' = DOMAIN current
  BY <1>1
<1>4. PersistenceTypeOK'
  BY <1>1, <1>2, <1>3 DEF IInv, PersistenceTypeOK, Alive
<1>5. RestoredStatesAreDeclared'
  <2> SUFFICES ASSUME ~migrated, NEW s \in SignalIds(topo)
               PROVE  current'[s] \in StatesOf(topo, s)
    BY <1>1, <1>2 DEF RestoredStatesAreDeclared
  <2>1. current[s] \in StatesOf(topo, s) /\ DOMAIN current = SignalIds(topo)
    BY <1>2 DEF IInv, RestoredStatesAreDeclared, PersistenceTypeOK
  <2>2. topo.transitions[i].to \in StatesOf(topo, topo.transitions[i].signal)
    BY <1>2 DEF IInv, PersistenceTypeOK, Valid, TransitionsOk
  <2> QED
    BY <1>1, <2>1, <2>2
<1>6. SavedStateLoads'
  BY <1>2 DEF IInv, SavedStateLoads, Parses, KnownStates
<1>7. ReloadProgress'
  BY <1>2 DEF ReloadProgress
<1> QED
  BY <1>4, <1>5, <1>6, <1>7 DEF IInv

LEMMA LoadStatePreserves == ASSUME IInv, LoadState PROVE IInv'
<1>1. /\ Alive /\ step \in {"started", "loaded", "reloaded"}
      /\ job = "library" \/ (job = "reload" /\ step = "started")
      /\ UNCHANGED <<job, topo, target, file, before, began, migrated, writer>>
  BY DEF LoadState, Idle, history, IInv, PersistenceTypeOK
<1>2. SavedStateLoads'
  BY <1>1 DEF IInv, SavedStateLoads, Parses, KnownStates
<1>3. CASE /\ KnownSignals(file, topo) /\ KnownStates(file, topo)
           /\ current' = Restored(file, current)
           /\ result' = "ok"
           /\ step' = IF job = "library" THEN step ELSE "loaded"
  <2>1. DOMAIN current' = DOMAIN current
    BY <1>3 DEF Restored
  <2>2. PersistenceTypeOK'
    BY <1>1, <1>3, <2>1 DEF IInv, PersistenceTypeOK, Alive
  <2>3. RestoredStatesAreDeclared'
    <3> SUFFICES ASSUME ~migrated, NEW s \in SignalIds(topo)
                 PROVE  current'[s] \in StatesOf(topo, s)
      BY <1>1 DEF RestoredStatesAreDeclared
    <3>1. current[s] \in StatesOf(topo, s) /\ s \in DOMAIN current
      BY <1>1 DEF IInv, RestoredStatesAreDeclared, PersistenceTypeOK
    <3> QED
      BY <1>3, <3>1 DEF Restored, KnownStates
  <2>4. ReloadProgress'
    BY <1>1, <1>3 DEF IInv, ReloadProgress, KnownSignals
  <2> QED
    BY <1>2, <2>2, <2>3, <2>4 DEF IInv
<1>4. CASE /\ \E error \in LoadErrors : FailWith(error)
           /\ UNCHANGED current
  <2>1. /\ result' \in {"PersistenceError", "StateNotFound"}
        /\ step' = IF job = "library" THEN step ELSE "over"
    BY <1>4 DEF LoadErrors, FailWith
  <2>2. PersistenceTypeOK'
    BY <1>1, <1>4, <2>1 DEF IInv, PersistenceTypeOK, Alive
  <2>3. RestoredStatesAreDeclared'
    BY <1>1, <1>4 DEF IInv, RestoredStatesAreDeclared, Alive
  <2>4. ReloadProgress'
    BY <1>1, <2>1 DEF IInv, ReloadProgress
  <2> QED
    BY <1>2, <2>2, <2>3, <2>4 DEF IInv
<1> QED
  BY <1>3, <1>4 DEF LoadState

LEMMA ReloadTopologyPreserves ==
  ASSUME IInv, NEW t \in Topologies, ReloadTopology(t)
  PROVE  IInv'
<1>1. /\ Alive /\ step \in {"started", "loaded", "reloaded"}
      /\ job = "library" \/ (job = "reload" /\ step = "loaded" /\ t = target)
      /\ UNCHANGED <<job, target, file, before, began, writer>>
  BY DEF ReloadTopology, Idle, IInv, PersistenceTypeOK
<1>2. SavedStateLoads'
  BY <1>1 DEF IInv, SavedStateLoads, Parses, KnownStates
<1>3. CASE /\ Valid(t)
           /\ topo' = t
           /\ current' = CarriedOver(current, t)
           /\ migrated' = TRUE
           /\ result' = "ok"
           /\ step' = IF job = "library" THEN step ELSE "reloaded"
  <2>1. PersistenceTypeOK'
    BY <1>1, <1>3 DEF IInv, PersistenceTypeOK, Alive, CarriedOver
  <2>2. RestoredStatesAreDeclared'
    BY <1>3 DEF RestoredStatesAreDeclared
  <2>3. ReloadProgress'
    <3> SUFFICES ASSUME job = "reload"
                 PROVE  /\ current' = Migrated(before, began, target)
                        /\ DOMAIN before \subseteq SignalIds(began)
                        /\ file = before
      BY <1>1, <1>3 DEF ReloadProgress
    <3>1. /\ current = Restored(before, InitialStates(began))
          /\ DOMAIN before \subseteq SignalIds(began)
          /\ file = before
      BY <1>1 DEF IInv, ReloadProgress
    <3> QED
      BY <1>1, <1>3, <3>1, ReloadMigrates
  <2> QED
    BY <1>2, <2>1, <2>2, <2>3 DEF IInv
<1>4. CASE /\ FailWith("ReloadError")
           /\ UNCHANGED <<topo, current, migrated>>
  <2>1. PersistenceTypeOK'
    BY <1>1, <1>4 DEF IInv, PersistenceTypeOK, Alive, FailWith
  <2>2. RestoredStatesAreDeclared'
    BY <1>1, <1>4 DEF IInv, RestoredStatesAreDeclared, Alive
  <2>3. ReloadProgress'
    BY <1>1, <1>4 DEF IInv, ReloadProgress, FailWith
  <2> QED
    BY <1>2, <2>1, <2>2, <2>3 DEF IInv
<1> QED
  BY <1>3, <1>4 DEF ReloadTopology, engine

LEMMA BeginWritePreserves == ASSUME IInv, BeginWrite PROVE IInv'
<1>1. /\ Alive
      /\ job = "reload" => step = "reloaded"
      /\ step' = "writing" /\ file' = Torn
      /\ UNCHANGED <<job, topo, current, target, result, before, began, migrated, writer>>
  BY DEF BeginWrite, MaySave, Idle, engine, history
<1>2. PersistenceTypeOK'
  BY <1>1 DEF IInv, PersistenceTypeOK, Alive
<1>3. RestoredStatesAreDeclared'
  BY <1>1 DEF IInv, RestoredStatesAreDeclared, Alive
<1>4. SavedStateLoads'
  BY <1>1 DEF SavedStateLoads, Parses
<1>5. ReloadProgress'
  BY <1>1 DEF IInv, ReloadProgress
<1> QED
  BY <1>2, <1>3, <1>4, <1>5 DEF IInv

LEMMA OpenFailsPreserves == ASSUME IInv, OpenFails PROVE IInv'
<1>1. /\ Alive /\ step \in {"started", "loaded", "reloaded"}
      /\ job = "reload" => step = "reloaded"
      /\ result' = "PersistenceError"
      /\ step' = IF job = "library" THEN step ELSE "over"
      /\ UNCHANGED <<job, topo, current, target, file, before, began, migrated, writer>>
  BY DEF OpenFails, MaySave, Idle, FailWith, engine, history, IInv, PersistenceTypeOK
<1>2. PersistenceTypeOK'
  BY <1>1 DEF IInv, PersistenceTypeOK, Alive
<1>3. RestoredStatesAreDeclared'
  BY <1>1 DEF IInv, RestoredStatesAreDeclared, Alive
<1>4. SavedStateLoads'
  BY <1>1 DEF IInv, SavedStateLoads, Parses, KnownStates
<1>5. ReloadProgress'
  BY <1>1 DEF IInv, ReloadProgress
<1> QED
  BY <1>2, <1>3, <1>4, <1>5 DEF IInv

\* A program that writes the file is one that was started: Exit ends the write.
LEMMA EndWritePreserves == ASSUME IInv, Alive, EndWrite PROVE IInv'
<1>1. /\ step = "writing"
      /\ file' = current
      /\ writer' = [topology |-> topo, migrated |-> migrated]
      /\ result' = "ok"
      /\ step' = IF job = "library" THEN "started" ELSE "over"
      /\ UNCHANGED <<job, topo, current, target, before, began, migrated>>
  BY DEF EndWrite, AfterWrite, Snapshot, engine
<1>2. PersistenceTypeOK'
  BY <1>1 DEF IInv, PersistenceTypeOK, Alive
<1>3. RestoredStatesAreDeclared'
  BY <1>1 DEF IInv, RestoredStatesAreDeclared, Alive
<1>4. SavedStateLoads'
  BY <1>1 DEF IInv, RestoredStatesAreDeclared, PersistenceTypeOK, SavedStateLoads, KnownStates
<1>5. ReloadProgress'
  BY <1>1 DEF IInv, ReloadProgress
<1> QED
  BY <1>2, <1>3, <1>4, <1>5 DEF IInv

LEMMA WriteFailsPreserves == ASSUME IInv, Alive, WriteFails PROVE IInv'
<1>1. /\ step = "writing"
      /\ result' = "PersistenceError"
      /\ step' = IF job = "library" THEN "started" ELSE "over"
      /\ UNCHANGED <<job, topo, current, target, file, before, began, migrated, writer>>
  BY DEF WriteFails, AfterWrite, engine, history
<1>2. PersistenceTypeOK'
  BY <1>1 DEF IInv, PersistenceTypeOK, Alive
<1>3. RestoredStatesAreDeclared'
  BY <1>1 DEF IInv, RestoredStatesAreDeclared, Alive
<1>4. SavedStateLoads'
  BY <1>1 DEF IInv, SavedStateLoads, Parses, KnownStates
<1>5. ReloadProgress'
  BY <1>1 DEF IInv, ReloadProgress
<1> QED
  BY <1>2, <1>3, <1>4, <1>5 DEF IInv

LEMMA ExitPreserves == ASSUME IInv, Exit PROVE IInv'
<1>1. /\ job' = "none" /\ step' = "over"
      /\ UNCHANGED <<file, result, writer>>
  BY DEF Exit, history
<1>2. PersistenceTypeOK'
  BY <1>1 DEF IInv, PersistenceTypeOK, Alive
<1>3. SavedStateLoads'
  BY <1>1 DEF IInv, SavedStateLoads, Parses, KnownStates
<1> QED
  BY <1>1, <1>2, <1>3 DEF IInv, RestoredStatesAreDeclared, ReloadProgress, Alive

LEMMA StutterPreserves == ASSUME IInv, UNCHANGED persistenceVars PROVE IInv'
<1>1. /\ UNCHANGED <<job, step, topo, current, target, file, result>>
      /\ UNCHANGED <<before, began, migrated, writer>>
  BY DEF persistenceVars, history
<1>2. PersistenceTypeOK'
  BY <1>1 DEF IInv, PersistenceTypeOK, Alive
<1>3. RestoredStatesAreDeclared'
  BY <1>1 DEF IInv, RestoredStatesAreDeclared, Alive
<1>4. SavedStateLoads'
  BY <1>1 DEF IInv, SavedStateLoads, Parses, KnownStates
<1>5. ReloadProgress'
  BY <1>1 DEF IInv, ReloadProgress
<1> QED
  BY <1>2, <1>3, <1>4, <1>5 DEF IInv

\* The invariant holds whatever programs run on the file and wherever they end.
THEOREM Invariance == Spec => []IInv
<1>1. ASSUME IInv, [Next]_persistenceVars PROVE IInv'
  <2>1. ASSUME NEW t \in Topologies, NEW t2 \in Topologies, Start("reload", t, t2)
        PROVE  IInv'
    BY <1>1, <2>1, StartPreserves
  <2>2. ASSUME NEW kind \in {"save", "library"}, NEW t \in Topologies,
               Start(kind, t, NoTopology)
        PROVE  IInv'
    BY <1>1, <2>2, StartPreserves
  <2>3. CASE EndWrite \/ WriteFails
    <3>1. Alive
      BY <1>1, <2>3 DEF EndWrite, WriteFails, IInv, PersistenceTypeOK
    <3> QED
      BY <1>1, <2>3, <3>1, EndWritePreserves, WriteFailsPreserves
  <2>4. CASE SendEvent \/ LoadState \/ (\E t \in Topologies : ReloadTopology(t))
    BY <1>1, <2>4, SendEventPreserves, LoadStatePreserves, ReloadTopologyPreserves
  <2>5. CASE BeginWrite \/ OpenFails \/ Exit \/ UNCHANGED persistenceVars
    BY <1>1, <2>5, BeginWritePreserves, OpenFailsPreserves, ExitPreserves, StutterPreserves
  <2> QED
    BY <1>1, <2>1, <2>2, <2>3, <2>4, <2>5 DEF Next
<1> QED
  BY <1>1, InitEstablishes, PTL DEF Spec

-----------------------------------------------------------------------------
(* The properties                                                          *)

\* An engine has a state for exactly the signals of a valid topology, whatever
\* was loaded into it and however often its topology was replaced.
THEOREM TypeCorrectness == Spec => []PersistenceTypeOK
<1>1. IInv => PersistenceTypeOK
  BY DEF IInv
<1> QED
  BY <1>1, Invariance, PTL

\* load_state lets nothing into an engine that its topology does not declare,
\* whatever the file holds and whoever wrote it.
THEOREM LoadChecksStates == Spec => []RestoredStatesAreDeclared
<1>1. IInv => RestoredStatesAreDeclared
  BY DEF IInv
<1> QED
  BY <1>1, Invariance, PTL

\* What save_state wrote, load_state takes back completely, as long as the saving
\* engine's topology was not replaced.
THEOREM SaveThenLoad == Spec => []SavedStateLoads
<1>1. IInv => SavedStateLoads
  BY DEF IInv
<1> QED
  BY <1>1, Invariance, PTL

\* stp reload leaves the file as it was, torn or fully migrated.
THEOREM ReloadMigration == Spec => []ReloadMigratesTheFile
<1>1. IInv => ReloadMigratesTheFile
  BY DEF IInv, PersistenceTypeOK, ReloadProgress, ReloadMigratesTheFile
<1> QED
  BY <1>1, Invariance, PTL

==============================================================================
