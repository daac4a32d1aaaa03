------------------------------ MODULE MCAccounts ------------------------------
(***************************************************************************)
(* Accounts with the requests that meet: two verifications of one address  *)
(* beside the operator's commands, and sign-ins beside a reset.            *)
(***************************************************************************)
EXTENDS Accounts

CONSTANTS r1, r2, r3, r4, k1, k2, e1, e2, p1, p2, t1

Job(kind, email, token, password, tenant) ==
  [kind |-> kind, email |-> email, token |-> token, password |-> password, tenant |-> tenant]

Verifies(token, password) == Job("verify", None, token, password, None)
SignsUp(token, password)  == Job("signup", e1, token, password, None)
SignsIn(password)         == Job("signin", e1, None, password, None)
Resets(password)          == Job("reset", e1, None, password, None)
Adds(email, password)     == Job("add", email, None, password, t1)
Deletes(tenant)           == Job("delete", None, None, None, tenant)

Jobs(a, b, c, d) == [r \in Requests |-> CASE r = r1 -> a [] r = r2 -> b [] r = r3 -> c [] r = r4 -> d]

Signup1 == [email |-> e1, password |-> p1, live |-> TRUE]
Signup2 == [email |-> e1, password |-> p2, live |-> TRUE]
BothPending == [k \in Tokens |-> IF k = k1 THEN Signup1 ELSE Signup2]
OnePending  == [k \in Tokens |-> IF k = k1 THEN Signup1 ELSE None]
NonePending == [k \in Tokens |-> None]

NoAccounts == [e \in Emails |-> None]
OneAccount == [e \in Emails |-> IF e = e1 THEN [tenant |-> t1, password |-> p1] ELSE None]

Scenario(jobs, pending, accounts0) ==
  [job |-> jobs, signups |-> pending, tenants |-> {t1}, accounts |-> accounts0]

VerifyScenarios == {
  Scenario(Jobs(Verifies(k1, p1), Verifies(k2, p2), Verifies(k1, p1), Deletes(r1)),
           BothPending, NoAccounts),
  Scenario(Jobs(Verifies(k1, p1), SignsUp(k2, p2), Verifies(k2, p2), Adds(e1, p2)),
           OnePending, NoAccounts),
  Scenario(Jobs(Verifies(k1, p1), Verifies(k2, p2), Adds(e1, p1), Deletes(t1)),
           BothPending, NoAccounts)}

SessionScenarios == {
  Scenario(Jobs(SignsIn(p1), SignsIn(p2), Resets(p2), Deletes(t1)), NonePending, OneAccount),
  Scenario(Jobs(Adds(e1, p1), Adds(e2, p2), Resets(p2), SignsIn(p1)), NonePending, NoAccounts),
  Scenario(Jobs(Verifies(k1, p1), SignsIn(p1), Resets(p2), Deletes(r1)), OnePending, NoAccounts)}

ScenariosDef == VerifyScenarios \cup SessionScenarios
=============================================================================
