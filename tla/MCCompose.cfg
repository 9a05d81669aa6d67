SPECIFICATION Spec
CONSTANTS
  Groups = {}
  NoGroup = NoGroup
  Any <- MCAny
  NoGuard = NoGuard
  NoHook = NoHook
  Payloads = {"none"}
  GuardResult <- MCGuardResult
  Files = {"f1", "f2", "f3"}
  Root = "f1"
  Disks <- MCDisks
  Unreadable = Unreadable
  NoAlias = NoAlias
INVARIANTS
  ComposeTypeOK
  FailuresHaveTheirCause
  MergedInSourceOrder
  InstancesStayValid
  PlaceholdersLeft
CHECK_DEADLOCK FALSE
