SPECIFICATION ReportSpec
CONSTANTS
  None = None
  NoCoverage = NoCoverage
  NLeft = 3
  NRight = 3
  MaxParts = 4
  Inputs <- InputsDef
INVARIANTS
  IInv
  VerdictsStand
  ReferenceExhausted
  ReportIsTrue
PROPERTY
  ImplementsVerdicts
CHECK_DEADLOCK FALSE
