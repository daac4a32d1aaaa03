SPECIFICATION MachinesSpec
CONSTANTS
  None = None
  o1 = o1
  Runs = {1, 2, 3, 4, 5}
  RunsKept = 2
  PoolSize = 3
  Orders = {o1}
  Rails <- RailsDef
  GroupRails = {"square"}
  Totals <- TotalsDef
  Payments <- PaymentsDef
  Currency = "USD"
  Tolerance = 100
  ResultRows <- ResultRowsDef
  Results <- ResultsDef
  Statuses = {"matched"}
  Limits = {0, 1, 3}
  MaxRows = 2
  Members = 4
  Amounts <- AmountsDef
  Targets <- TargetsDef
  SumTolerance = 1
  MaxMembers = 3
  Starts <- StartsDef
  Reach <- ReachDef
  Offsets <- OffsetsDef
  a = a
  b = b
  t1 = t1
  t2 = t2
  s1 = s1
  s2 = s2
  Callers = {a, b}
  Unit = 3
  Burst = 2
  MaxAttempts = 2
  Backoff <- BackoffDef
  RetryAfter = {2}
  MaxRequests = 2
  Rules <- RulesDef
  Listed = {"address", "ip"}
  Longest = 3
  Requests <- RequestsDef
  MaxKeys = 2
  MaxAllowed = 4
  Queries = {1, 2, 3}
  Tenants = {t1, t2}
  Specs = {s1, s2}
  Jobs <- JobsDef
  Ttl = 1
  MaxEntries = 2
  MaxClock = 2
  MaxSaves = 1
INVARIANTS
  HistoryInv
  OverrunIsBounded
  OutcomesAreTrue
  FindsEnough
  CountIsBankDays
  PagesAreOneResult
  TwiceTheRateAtMost
  LimitsHoldAndLift
  ReuseIsSound
PROPERTY
  EveryRequestEnds
CHECK_DEADLOCK FALSE
