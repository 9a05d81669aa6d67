SPECIFICATION Spec
CONSTANTS
  MinInt <- MCMinInt
  MaxInt = 7
  NaN = NaN
  AsFloat <- MCAsFloat
  FloatArith <- MCFloatArith
  StringOrder <- MCStrings
  NoPayload = NoPayload
  Parse <- ParseTokens
  Eval <- EvalExpr
  Sources <- MCSources
  PayloadsOf <- MCPayloadsOf
INVARIANTS
  GuardTypeOK
  DecidedByTheGrammar
  
  IntegersExactOrRefused
  ErrorsSurface
CHECK_DEADLOCK FALSE
