SPECIFICATION FairSpec
CONSTANTS
  None = None
  r1 = r1
  r2 = r2
  r3 = r3
  o1 = o1
  o2 = o2
  c1 = c1
  c2 = c2
  n1 = n1
  n2 = n2
  n3 = n3
  Requests = {r1, r2, r3}
  Sweeper = Sweeper
  Old = {o1, o2}
  Contents = {c1, c2}
  Names = {n1, n2, n3}
  Scenarios <- ScenariosDef
  Chunks = 2
  LayoutsKept = 1
  PoolSize = 2
  MaxFailures = 1
INVARIANTS
  OneCopy
  AnswersAreTrue
  LayoutsBounded
PROPERTY
  ExpiredGoes
CHECK_DEADLOCK FALSE
