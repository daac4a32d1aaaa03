SPECIFICATION FairSpec
CONSTANTS
  None = None
  r1 = r1
  r2 = r2
  r3 = r3
  r4 = r4
  k1 = k1
  k2 = k2
  e1 = e1
  e2 = e2
  p1 = p1
  p2 = p2
  t1 = t1
  Requests = {r1, r2, r3, r4}
  Emails = {e1, e2}
  Tokens = {k1, k2}
  Passwords = {p1, p2}
  Roots = {t1}
  Scenarios <- ScenariosDef
INVARIANTS
  OwnerAndTenant
  OwnPassword
PROPERTY
  EveryRequestEnds
CHECK_DEADLOCK FALSE
