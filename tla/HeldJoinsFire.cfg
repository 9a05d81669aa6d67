SPECIFICATION Spec
CONSTANTS
  Groups = {"fork0"}
  NoGroup = NoGroup
  Any = "*"
  NoGuard = NoGuard
  NoHook = NoHook
  Payloads = {"none", "p1", "p2"}
  GuardResult <- MCGuardResult
  Topologies <- MCTopologies
  Events = {"go", "off"}
  StrangeIds = {"X"}
  DefaultDepth = 2
  Depths = {0, 1}
  MaxCalls = 2
INVARIANT
  HeldJoinsFire
CHECK_DEADLOCK FALSE
