SPECIFICATION Spec
CONSTANTS
  None = None
  r1 = r1
  c1 = c1
  t3 = t3
  k1 = k1
  k2 = k2
  s1 = s1
  s2 = s2
  TenantIds = {r1, c1, t3}
  Roots = {r1}
  Children = {c1}
  KeyIds = {k1, k2}
  Fields = {"secret"}
  Values = {"old", "new"}
  Tokens = {s1, s2}
  Emails = {"a", "b"}
  Passwords = {"p", "q"}
  Customers = {"cus1", "cus2"}
  Statuses = {"active", "canceled"}
  RunIds = {1, 2, 3}
  Names = {"n1", "n2"}
  Items = {11, 12}
  Hashes = {"h1", "h2"}
  RowNumbers = {1}
  Groups = {"keys", "usage", "billing", "logins", "sessions", "runs", "support", "tickets", "files", "layouts"}
  Plans = {"free", "pro"}
  Idle = 2
  Touch = 0
  RunsKept = 1
  SupportKept = 1
  ImportKept = 1
  LayoutsKept = 1
  SessionTTL = 3
  SignupTTL = 1
  MaxClock <- MCMaxClock
  MaxRequests = 1
INVARIANTS
  SameAnswers
  SameReads
CHECK_DEADLOCK FALSE
