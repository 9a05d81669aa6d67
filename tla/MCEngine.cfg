\* Two events per run reach every state of the topologies twice over: the first
\* call's partial failure is the second call's starting point.
SPECIFICATION Spec
CONSTANTS
  Groups = {"fork0"}
  NoGroup = NoGroup
  Any = "*"
  NoGuard = NoGuard
  NoHook = NoHook
  Payloads = {"none", "p1", "p2"}
  GuardResult <- MCGuardResult
  Topologies <- MCTopologies
  Events = {"go", "off"}
  StrangeIds = {"X"}
  DefaultDepth = 2
  Depths = {0, 1}
  MaxCalls = 2
INVARIANTS
  TypeOK
  TraceTellsState
  OkMeansAllCommitted
  OneErrorPerCall
  CascadesFindTheirSignal
PROPERTIES
  ImplementsSignals
  FramesDispatch
  EventsReturn
CHECK_DEADLOCK FALSE
