SPECIFICATION DeskSpec
CONSTANTS
  None = None
  o = o
  c = c
  ot = ot
  ct = ct
  k1 = k1
  k2 = k2
  m1 = m1
  m2 = m2
  t1 = t1
  c1 = c1
  Tokens = {k1, k2}
  Scenarios <- ScenariosDef
  Logins <- LoginsDef
  Operators = {o}
  SessionTTL = 5
  UnlockFor = 2
  Responses <- ResponsesDef
  MaxRounds = 1
  MaxTurns = 3
  Plans = {"free"}
  Idle = 3
  Touch = 1
  RunsKept = 1
  SupportKept = 2
  ImportKept = 1
  LayoutsKept = 1
INVARIANTS
  OpenedByACode
  IdleIsAccurate
  AnsweredIsKept
  CorrespondenceIsTrue
CHECK_DEADLOCK FALSE
