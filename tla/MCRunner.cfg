\* Batch: every scenario of up to three events, so that an injection, a failure
\* and a retry can follow one another.  Shell: two events with fail and reset
\* typed anywhere between them.
SPECIFICATION RunnerSpec
CONSTANTS
  Groups = {"fork0"}
  NoGroup = NoGroup
  Any = "*"
  NoGuard = NoGuard
  NoHook = NoHook
  Payloads = {"none", "p1", "p2"}
  GuardResult <- MCGuardResult
  Topologies <- MCPrograms
  Events = {"go", "off"}
  StrangeIds = {"C", "X"}
  DefaultDepth = 2
  Depths = {}
  MaxCalls = 3
  MaxEvents = 3
  Scenarios <- MCScenarios
  Typed = {"act"}
INVARIANTS
  InjectionScopedPerEvent
PROPERTIES
  ReplayEnds
CHECK_DEADLOCK FALSE
