SPECIFICATION Spec
CONSTANTS
  Groups = {}
  NoGroup = NoGroup
  Any = "*"
  NoGuard = NoGuard
  NoHook = NoHook
  Payloads = {"none"}
  GuardResult <- MCGuardResult
  Topologies <- MCTopologies
  HandWritten <- MCHandWritten
  NoFile = NoFile
  Torn = Torn
  NoTopology = NoTopology
INVARIANT
  SavedStateAlwaysLoads
