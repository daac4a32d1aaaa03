SPECIFICATION ReportSpec
CONSTANTS
  None = None
  NoCoverage = NoCoverage
  NLeft = 3
  NRight = 3
  MaxParts = 4
  Inputs <- RefundedDef
INVARIANT
  KnownCausesExplain
CHECK_DEADLOCK FALSE
