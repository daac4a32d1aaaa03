SPECIFICATION Spec
CONSTANTS
  None = None
  p = p
  m = m
  o = o
  s = s
  kp = kp
  km = km
  ko = ko
  ks = ks
  Requests = {1, 2, 3}
  Scenarios <- ScenariosDef
  Tree <- TreeDef
  Keys <- KeysDef
  MaxDepth = 2
  Plans = {"free", "pro", "enterprise"}
  Limit <- LimitDef
  Idle = 1
  Touch = 0
  RunsKept = 1
  SupportKept = 1
  ImportKept = 1
  LayoutsKept = 1
INVARIANTS
  BoundaryIsExact
  HeldToThePayer
  OverrunIsInFlight
CHECK_DEADLOCK FALSE
