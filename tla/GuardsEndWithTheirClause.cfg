SPECIFICATION CompilerSpec
CONSTANTS
  Groups = {}
  NoGroup = NoGroup
  Any <- MCAny
  NoGuard = NoGuard
  NoHook = NoHook
  Payloads = {"none"}
  GuardResult <- MCGuardResult
  Files = {"source"}
  Root = "source"
  Disks = {}
  Unreadable = Unreadable
  NoAlias = NoAlias
  Documents <- MCDocumentsAll
  Damaged <- MCDamaged
  JsonTexts <- MCJsonTexts
INVARIANT GuardsEndWithTheirClause
CHECK_DEADLOCK FALSE
