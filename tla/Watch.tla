------------------------------- MODULE Watch -------------------------------
(***************************************************************************)
(* stc watch (watch_file in watch.rs): a loop that polls a file's mtime,   *)
(* recompiles the file when the mtime has changed, and skips changes seen  *)
(* too soon after the last compile.  The file is edited and removed by     *)
(* others at any moment, between the poll and the read of a compile too.   *)
(*                                                                         *)
(* A version of the file is the number of the edit that made it, and       *)
(* stands for its mtime: distinct edits have distinct mtimes.  Time is     *)
(* counted in units of the shortest poll interval.                         *)
(***************************************************************************)
EXTENDS Naturals

CONSTANTS
  Intervals,    \* values of --interval
  MinInterval,  \* MIN_INTERVAL_MS
  Debounce,     \* DEBOUNCE_MS
  MaxEdits      \* bound of the model: how often the file is written

ASSUME TimesAssumption ==
  /\ Intervals \subseteq Nat
  /\ MinInterval \in Nat \ {0}
  /\ Debounce \in Nat \ {0}
  /\ MaxEdits \in Nat

VARIABLES
  interval,   \* the time between polls
  running,    \* the stop flag
  pc,         \* "poll", "compile", "report" or "fail", "sleep", "stopped"
  sleep,      \* the time left to sleep
  lastMtime,  \* last_mtime, 0 for None
  since,      \* last_compile.elapsed(), up to Debounce (Debounce before the first)
  compiled,   \* the version the last compile read, 0 if there was none
  report,     \* the last WatchEvent: "none", "ok", "error" or "scenario"
  \* the file system
  exists,     \* whether the file is there
  version     \* how often the file was written; its mtime while it is there

fileVars == <<exists, version>>
watchVars == <<interval, running, pc, sleep, lastMtime, since, compiled, report, fileVars>>

\* interval_ms.max(MIN_INTERVAL_MS)
Clamped(i) == IF i < MinInterval THEN MinInterval ELSE i

Init ==
  /\ interval \in {Clamped(i) : i \in Intervals}
  /\ running = TRUE
  /\ pc = "poll"
  /\ sleep = 0
  /\ lastMtime = 0
  /\ since = Debounce
  /\ compiled = 0
  /\ report = "none"
  /\ exists \in BOOLEAN
  /\ version = IF exists THEN 1 ELSE 0

\* current_mtime: 0 when the file cannot be read.
Mtime == IF exists THEN version ELSE 0

\* A file that went away and came back with the same mtime has not changed.
MtimeChanged == Mtime # 0 /\ Mtime # lastMtime

GoToSleep == pc' = "sleep" /\ sleep' = interval

Unchanged ==
  /\ pc = "poll" /\ running
  /\ ~MtimeChanged
  /\ GoToSleep
  /\ UNCHANGED <<interval, running, lastMtime, since, compiled, report, fileVars>>

\* A change within the debounce window: its mtime is recorded, nothing else.
Debounced ==
  /\ pc = "poll" /\ running
  /\ MtimeChanged
  /\ since < Debounce
  /\ lastMtime' = Mtime
  /\ GoToSleep
  /\ UNCHANGED <<interval, running, since, compiled, report, fileVars>>

StartCompile ==
  /\ pc = "poll" /\ running
  /\ MtimeChanged
  /\ since >= Debounce
  /\ lastMtime' = Mtime
  /\ since' = 0
  /\ pc' = "compile"
  /\ UNCHANGED <<interval, running, sleep, compiled, report, fileVars>>

\* recompile reads the file as it is now, if it is there.
Read ==
  /\ pc = "compile"
  /\ IF exists
     THEN compiled' = version /\ pc' = "report"
     ELSE UNCHANGED compiled /\ pc' = "fail"
  /\ UNCHANGED <<interval, running, sleep, lastMtime, since, report, fileVars>>

\* Mutant: the mtime is recorded when the compile is over.
ReportRecordsMtime ==
  /\ pc \in {"report", "fail"}
  /\ report' \in IF pc = "fail" THEN {"error"} ELSE {"ok", "error", "scenario"}
  /\ lastMtime' = Mtime
  /\ GoToSleep
  /\ UNCHANGED <<interval, running, since, compiled, fileVars>>

\* The source compiles or not; if it does, a scenario may be replayed, or be
\* unreadable.
Report ==
  /\ pc \in {"report", "fail"}
  /\ report' \in IF pc = "fail" THEN {"error"} ELSE {"ok", "error", "scenario"}
  /\ GoToSleep
  /\ UNCHANGED <<interval, running, lastMtime, since, compiled, fileVars>>

Wake ==
  /\ pc = "sleep"
  /\ sleep = 0
  /\ pc' = "poll"
  /\ UNCHANGED <<interval, running, sleep, lastMtime, since, compiled, report, fileVars>>

Leave ==
  /\ pc = "poll" /\ ~running
  /\ pc' = "stopped"
  /\ UNCHANGED <<interval, running, sleep, lastMtime, since, compiled, report, fileVars>>

Loop == Unchanged \/ Debounced \/ StartCompile \/ Read \/ Report \/ Wake \/ Leave

\* A unit of time passes, wherever the loop is.
Tick ==
  /\ pc # "stopped"
  /\ since < Debounce \/ sleep > 0
  /\ since' = IF since < Debounce THEN since + 1 ELSE since
  /\ sleep' = IF sleep > 0 THEN sleep - 1 ELSE 0
  /\ UNCHANGED <<interval, running, pc, lastMtime, compiled, report, fileVars>>

Edit ==
  /\ version < MaxEdits
  /\ version' = version + 1
  /\ exists' = TRUE
  /\ UNCHANGED <<interval, running, pc, sleep, lastMtime, since, compiled, report>>

Remove ==
  /\ exists
  /\ exists' = FALSE
  /\ UNCHANGED <<interval, running, pc, sleep, lastMtime, since, compiled, report, version>>

Stop ==
  /\ running
  /\ running' = FALSE
  /\ UNCHANGED <<interval, pc, sleep, lastMtime, since, compiled, report, fileVars>>

Next == Loop \/ Tick \/ Edit \/ Remove \/ Stop

\* Time passes and the loop runs; nobody has to edit, remove or stop.
Spec == Init /\ [][Next]_watchVars /\ WF_watchVars(Loop) /\ WF_watchVars(Tick)

-----------------------------------------------------------------------------

\* The content of version v was compiled, a later one was, or there is nothing to
\* compile or nobody to do it.
Answered(v) == compiled >= v \/ ~exists \/ ~running

\* "a later distinct change is not lost" (doc/ddl.md:629): a change that no poll
\* has seen by the end of the debounce window is compiled, however many
\* changes before it were skipped.
LaterChangeNotLost ==
  \A v \in 1..MaxEdits :
    (exists /\ version = v /\ lastMtime # v /\ since >= Debounce) ~> Answered(v)

\* When polls are at least a debounce window apart (the default is), no change is
\* ever skipped for good: every edit is compiled, or a later one is.
EditsCompiledWhenPollsAreFar ==
  \A v \in 1..MaxEdits :
    (interval >= Debounce /\ exists /\ version = v) ~> Answered(v)

=============================================================================
