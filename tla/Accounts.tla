------------------------------- MODULE Accounts -------------------------------
(***************************************************************************)
(* Self-serve accounts (apps/api/okwan_api/signup.py over                  *)
(* packages/vault/okwan_vault/postgres.py): an emailed token becomes a     *)
(* root tenant and its login, a login becomes sessions, and the operator   *)
(* adds logins, resets passwords and deletes tenants meanwhile.            *)
(*                                                                         *)
(* A request is a handler or an operator command.  It runs statement by    *)
(* statement; the statements of different requests interleave.  Postgres   *)
(* is read committed: a statement sees what was committed before it, and   *)
(* waits for a row another open transaction has written.                   *)
(***************************************************************************)
EXTENDS Naturals, FiniteSets

CONSTANTS
  Requests,   \* the requests of a behaviour
  Emails,     \* addresses, already normalised
  Tokens,     \* the emailed tokens (their hashes)
  Passwords,
  Roots,      \* root tenants the operator created
  Scenarios,  \* what the requests ask for, and what the database holds first
  None

Tenants == Roots \cup Requests   \* a tenant a verification creates has its name
Kinds   == {"signup", "verify", "signin", "reset", "add", "delete"}

SignupRow == [email: Emails, password: Passwords, live: BOOLEAN]
LoginRow  == [tenant: Tenants, password: Passwords]
JobType   == [kind: Kinds, email: Emails \cup {None}, token: Tokens \cup {None},
              password: Passwords \cup {None}, tenant: Tenants \cup {None}]

\* What a request may open a session with: the resets committed when it read.
Opening == [tenant: Tenants, password: Passwords, read: SUBSET Requests]

\* A request states what its handler or command takes.
Complete(j) ==
  /\ j.kind \in {"signup", "signin", "reset", "add"} => j.email \in Emails
  /\ j.kind \in {"signup", "verify"} => j.token \in Tokens
  /\ j.kind # "delete" => j.password \in Passwords
  /\ j.kind \in {"add", "delete"} => j.tenant \in Tenants

ASSUME ScenarioAssumption ==
  /\ Roots \cap Requests = {}
  /\ None \notin Emails \cup Tenants \cup SignupRow \cup LoginRow \cup Opening
  /\ \A s \in Scenarios :
       /\ s.job \in [Requests -> JobType]
       /\ \A r \in Requests : Complete(s.job[r])
       /\ s.signups \in [Tokens -> SignupRow \cup {None}]
       /\ s.tenants \subseteq Roots
       /\ s.accounts \in [Emails -> LoginRow \cup {None}]
       /\ \A e \in Emails : s.accounts[e] # None => s.accounts[e].tenant \in s.tenants
       /\ \A e, f \in Emails :
            s.accounts[e] # None /\ s.accounts[f] # None
            /\ s.accounts[e].tenant = s.accounts[f].tenant => e = f
       \* secrets.token_urlsafe: a signup mints a token nobody has.
       /\ \A r \in Requests : s.job[r].kind = "signup" =>
            /\ s.signups[s.job[r].token] = None
            /\ \A q \in Requests : s.job[q].kind = "signup" /\ s.job[q].token = s.job[r].token
                                  => q = r

VARIABLES
  job,       \* what each request asks for
  signups,   \* the signups table, by token
  tenants,   \* the tenants table
  accounts,  \* the accounts table, by address
  sessions,  \* the sessions table
  drops,     \* the resets that have deleted sessions
  resets,    \* the resets that have committed
  pc,        \* the statement each request runs next
  tx,        \* what each open transaction holds and has written
  login      \* what a request may open a session with, None before it may

tables == <<signups, tenants, accounts, sessions>>
clock  == <<drops, resets>>
vars   == <<job, tables, clock, pc, tx, login>>

\* An open transaction: the address it read and whether it holds its advisory
\* lock, the signup row it was returned and the rows it deleted, the account
\* row it wrote, the tenant row it holds, the sessions it deleted.
NoTx == [addr |-> None, locked |-> FALSE, row |-> None, taken |-> {}, writes |-> None,
         holds |-> None, dropped |-> {}]

FirstStep(kind) ==
  CASE kind = "signup" -> "exists"     [] kind = "verify" -> "check"
    [] kind = "signin" -> "read"       [] kind = "reset"  -> "update"
    [] kind = "add"    -> "lockTenant" [] kind = "delete" -> "readTenant"

Init ==
  /\ \E s \in Scenarios :
       /\ job = s.job
       /\ signups = s.signups
       /\ tenants = s.tenants
       /\ accounts = s.accounts
  /\ sessions = {}
  /\ drops = {}
  /\ resets = {}
  /\ pc = [r \in Requests |-> FirstStep(job[r].kind)]
  /\ tx = [r \in Requests |-> NoTx]
  /\ login = [r \in Requests |-> None]

-----------------------------------------------------------------------------
At(r, step) == pc[r] = step
Goto(r, step) == pc' = [pc EXCEPT ![r] = step]

\* The transaction ends here without a write, or rolls back.
End(r) == Goto(r, "done") /\ tx' = [tx EXCEPT ![r] = NoTx]

\* A row another open transaction has written makes the statement wait.
FreeToken(r, k)   == \A q \in Requests \ {r} : k \notin tx[q].taken
FreeAccount(r, e) == \A q \in Requests \ {r} : tx[q].writes # e
FreeTenant(r, t)  == \A q \in Requests \ {r} : tx[q].holds # t

Pending(e) == {k \in Tokens : signups[k] # None /\ signups[k].email = e}
AddressOf(t) == {e \in Emails : accounts[e] # None /\ accounts[e].tenant = t}
Without(S) == [k \in Tokens |-> IF k \in S THEN None ELSE signups[k]]

-----------------------------------------------------------------------------
(* POST /v1/signup: the existence check, then the insert.                    *)

SignupExists(r) ==
  /\ At(r, "exists")
  /\ Goto(r, IF accounts[job[r].email] # None THEN "done" ELSE "store")
  /\ UNCHANGED <<job, tables, clock, tx, login>>

AddSignup(r) ==
  /\ At(r, "store")
  /\ signups' = [signups EXCEPT ![job[r].token] =
       [email |-> job[r].email, password |-> job[r].password, live |-> TRUE]]
  /\ Goto(r, "done")
  /\ UNCHANGED <<job, tenants, accounts, sessions, clock, tx, login>>

-----------------------------------------------------------------------------
(* POST /v1/signup/verify: the password is checked against the signup that   *)
(* minted the token, then complete_signup, then a session.                   *)

CheckToken(r) ==
  /\ At(r, "check")
  /\ LET row == signups[job[r].token]
     IN  Goto(r, IF row # None /\ row.live /\ row.password = job[r].password
                 THEN "find" ELSE "done")
  /\ UNCHANGED <<job, tables, clock, tx, login>>

FindAddress(r) ==
  /\ At(r, "find")
  /\ IF signups[job[r].token] = None
     THEN End(r)
     ELSE /\ tx' = [tx EXCEPT ![r].addr = signups[job[r].token].email]
          /\ Goto(r, "lock")
  /\ UNCHANGED <<job, tables, clock, login>>

\* Mutant: no advisory lock on the address.
LockAddressNot(r) ==
  /\ At(r, "lock")
  /\ Goto(r, "take")
  /\ UNCHANGED <<job, tables, clock, tx, login>>

\* pg_advisory_xact_lock, before any row is touched.
LockAddress(r) ==
  /\ At(r, "lock")
  /\ \A q \in Requests \ {r} : ~(tx[q].locked /\ tx[q].addr = tx[r].addr)
  /\ tx' = [tx EXCEPT ![r].locked = TRUE]
  /\ Goto(r, "take")
  /\ UNCHANGED <<job, tables, clock, login>>

\* Mutant: the token is deleted without asking whether it was still there.
TakeTokenUnasked(r) ==
  /\ At(r, "take")
  /\ FreeToken(r, job[r].token)
  /\ tx' = [tx EXCEPT ![r].taken = {job[r].token}, ![r].row =
       [email |-> tx[r].addr, password |-> job[r].password, live |-> TRUE]]
  /\ Goto(r, "owned")
  /\ UNCHANGED <<job, tables, clock, login>>

\* DELETE FROM signups ... RETURNING.
TakeToken(r) ==
  /\ At(r, "take")
  /\ FreeToken(r, job[r].token)
  /\ LET row == signups[job[r].token]
     IN  IF row = None \/ ~row.live
         THEN End(r)
         ELSE /\ tx' = [tx EXCEPT ![r].taken = {job[r].token}, ![r].row = row]
              /\ Goto(r, "owned")
  /\ UNCHANGED <<job, tables, clock, login>>

\* An address that has an account: None, and the transaction commits.
FindAccount(r) ==
  /\ At(r, "owned")
  /\ IF accounts[tx[r].addr] # None
     THEN End(r) /\ signups' = Without(tx[r].taken)
     ELSE Goto(r, "insert") /\ UNCHANGED <<tx, signups>>
  /\ UNCHANGED <<job, tenants, accounts, sessions, clock, login>>

\* The tenant and its login; a unique violation rolls both back (_Lost).
InsertAccount(r) ==
  /\ At(r, "insert")
  /\ FreeAccount(r, tx[r].addr)
  /\ IF accounts[tx[r].addr] # None
     THEN End(r)
     ELSE tx' = [tx EXCEPT ![r].writes = tx[r].addr] /\ Goto(r, "sweep")
  /\ UNCHANGED <<job, tables, clock, login>>

\* The address's other signups go with it.
Sweep(r) ==
  /\ At(r, "sweep")
  /\ \A k \in Pending(tx[r].addr) : FreeToken(r, k)
  /\ tx' = [tx EXCEPT ![r].taken = @ \cup Pending(tx[r].addr)]
  /\ Goto(r, "commit")
  /\ UNCHANGED <<job, tables, clock, login>>

CommitSignup(r) ==
  /\ At(r, "commit") /\ job[r].kind = "verify"
  /\ signups' = Without(tx[r].taken)
  /\ tenants' = tenants \cup {r}
  /\ accounts' = [accounts EXCEPT ![tx[r].addr] = [tenant |-> r, password |-> tx[r].row.password]]
  /\ login' = [login EXCEPT ![r] =
       [tenant |-> r, password |-> tx[r].row.password, read |-> resets]]
  /\ tx' = [tx EXCEPT ![r] = NoTx]
  /\ Goto(r, "session")
  /\ UNCHANGED <<job, sessions, clock>>

-----------------------------------------------------------------------------
(* POST /v1/sessions: the stored hash is read, checked off the event loop,   *)
(* and only then is the session inserted.                                    *)

ReadLogin(r) ==
  /\ At(r, "read")
  /\ LET row == accounts[job[r].email]
     IN  IF row # None /\ row.password = job[r].password
         THEN /\ login' = [login EXCEPT ![r] =
                   [tenant |-> row.tenant, password |-> row.password, read |-> resets]]
              /\ Goto(r, "session")
         ELSE Goto(r, "done") /\ UNCHANGED login
  /\ UNCHANGED <<job, tables, clock, tx>>

\* create_session: the foreign key waits for the tenant row and refuses a
\* tenant that is gone.
CreateSession(r) ==
  /\ At(r, "session")
  /\ FreeTenant(r, login[r].tenant)
  /\ sessions' = IF login[r].tenant \notin tenants THEN sessions
                 ELSE sessions \cup {[by |-> r, tenant |-> login[r].tenant,
                                      password |-> login[r].password,
                                      read |-> login[r].read, opened |-> drops]}
  /\ Goto(r, "done")
  /\ UNCHANGED <<job, signups, tenants, accounts, clock, tx, login>>

-----------------------------------------------------------------------------
(* reset_password: the hash, then the sessions, in one transaction.          *)

UpdatePassword(r) ==
  /\ At(r, "update")
  /\ FreeAccount(r, job[r].email)
  /\ IF accounts[job[r].email] = None
     THEN End(r)
     ELSE tx' = [tx EXCEPT ![r].writes = job[r].email] /\ Goto(r, "drop")
  /\ UNCHANGED <<job, tables, clock, login>>

\* Mutant: the sessions are left alone.
DropSessionsNot(r) ==
  /\ At(r, "drop")
  /\ drops' = drops \cup {r}
  /\ Goto(r, "commit")
  /\ UNCHANGED <<job, tables, resets, tx, login>>

\* The statement deletes the sessions committed before it.
DropSessions(r) ==
  /\ At(r, "drop")
  /\ tx' = [tx EXCEPT ![r].dropped =
       {s \in sessions : s.tenant = accounts[job[r].email].tenant}]
  /\ drops' = drops \cup {r}
  /\ Goto(r, "commit")
  /\ UNCHANGED <<job, tables, resets, login>>

CommitReset(r) ==
  /\ At(r, "commit") /\ job[r].kind = "reset"
  /\ accounts' = [accounts EXCEPT ![job[r].email].password = job[r].password]
  /\ sessions' = sessions \ tx[r].dropped
  /\ resets' = resets \cup {r}
  /\ End(r)
  /\ UNCHANGED <<job, signups, tenants, drops, login>>

-----------------------------------------------------------------------------
(* add_account: a login for a root tenant that has none.                     *)

\* SELECT ... FOR UPDATE, and the check for a login.
LockTenant(r) ==
  /\ At(r, "lockTenant")
  /\ FreeTenant(r, job[r].tenant)
  /\ IF job[r].tenant \notin tenants \/ AddressOf(job[r].tenant) # {}
     THEN End(r)
     ELSE tx' = [tx EXCEPT ![r].holds = job[r].tenant] /\ Goto(r, "insertLogin")
  /\ UNCHANGED <<job, tables, clock, login>>

InsertLogin(r) ==
  /\ At(r, "insertLogin")
  /\ FreeAccount(r, job[r].email)
  /\ IF accounts[job[r].email] # None \/ AddressOf(job[r].tenant) # {}
     THEN End(r)
     ELSE tx' = [tx EXCEPT ![r].writes = job[r].email] /\ Goto(r, "commit")
  /\ UNCHANGED <<job, tables, clock, login>>

CommitLogin(r) ==
  /\ At(r, "commit") /\ job[r].kind = "add"
  /\ accounts' = [accounts EXCEPT ![job[r].email] =
       [tenant |-> job[r].tenant, password |-> job[r].password]]
  /\ End(r)
  /\ UNCHANGED <<job, signups, tenants, sessions, clock, login>>

-----------------------------------------------------------------------------
(* delete_tenant: the address's signups, then the tenant and all it holds.   *)

\* The tenant, and the address of its login.
ReadTenant(r) ==
  /\ At(r, "readTenant")
  /\ IF job[r].tenant \notin tenants
     THEN End(r)
     ELSE /\ tx' = [tx EXCEPT ![r].addr =
               IF AddressOf(job[r].tenant) = {} THEN None
               ELSE CHOOSE e \in AddressOf(job[r].tenant) : TRUE]
          /\ Goto(r, "deleteSignups")
  /\ UNCHANGED <<job, tables, clock, login>>

DeleteSignups(r) ==
  /\ At(r, "deleteSignups")
  /\ \A k \in Pending(tx[r].addr) : FreeToken(r, k)
  /\ tx' = [tx EXCEPT ![r].taken = Pending(tx[r].addr)]
  /\ Goto(r, "deleteTenant")
  /\ UNCHANGED <<job, tables, clock, login>>

\* DELETE FROM tenants cascades to the login and the sessions.
DeleteTenant(r) ==
  /\ At(r, "deleteTenant")
  /\ FreeTenant(r, job[r].tenant)
  /\ \A e \in AddressOf(job[r].tenant) : FreeAccount(r, e)
  /\ \E e \in IF AddressOf(job[r].tenant) = {} THEN {None} ELSE AddressOf(job[r].tenant) :
       tx' = [tx EXCEPT ![r].holds = job[r].tenant, ![r].writes = e]
  /\ Goto(r, "commit")
  /\ UNCHANGED <<job, tables, clock, login>>

CommitDelete(r) ==
  /\ At(r, "commit") /\ job[r].kind = "delete"
  /\ signups' = Without(tx[r].taken)
  /\ tenants' = tenants \ {job[r].tenant}
  /\ accounts' = [e \in Emails |-> IF e \in AddressOf(job[r].tenant) THEN None ELSE accounts[e]]
  /\ sessions' = {s \in sessions : s.tenant # job[r].tenant}
  /\ End(r)
  /\ UNCHANGED <<job, clock, login>>

-----------------------------------------------------------------------------
\* A signup's 24 hours pass.
Expire(k) ==
  /\ signups[k] # None /\ signups[k].live
  /\ signups' = [signups EXCEPT ![k].live = FALSE]
  /\ UNCHANGED <<job, tenants, accounts, sessions, clock, pc, tx, login>>

\* The process dies: its open transaction rolls back.
Crash(r) ==
  /\ pc[r] # "done"
  /\ End(r)
  /\ UNCHANGED <<job, tables, clock, login>>

Verify(r) ==
  \/ CheckToken(r) \/ FindAddress(r) \/ LockAddress(r) \/ TakeToken(r)
  \/ FindAccount(r) \/ InsertAccount(r) \/ Sweep(r) \/ CommitSignup(r)
Signup(r) == SignupExists(r) \/ AddSignup(r)
Reset(r)  == UpdatePassword(r) \/ DropSessions(r) \/ CommitReset(r)
Add(r)    == LockTenant(r) \/ InsertLogin(r) \/ CommitLogin(r)
Delete(r) == ReadTenant(r) \/ DeleteSignups(r) \/ DeleteTenant(r) \/ CommitDelete(r)

Step(r) ==
  Signup(r) \/ Verify(r) \/ ReadLogin(r) \/ CreateSession(r) \/ Reset(r) \/ Add(r) \/ Delete(r)

Next ==
  \/ \E r \in Requests : Step(r) \/ Crash(r)
  \/ \E k \in Tokens : Expire(k)

Spec == Init /\ [][Next]_vars

\* A request is a coroutine or a command: it runs whenever it does not wait.
FairSpec == Spec /\ \A r \in Requests : WF_vars(Step(r))

-----------------------------------------------------------------------------
\* "There is never a tenant without an owner or an owner without a tenant":
\* every tenant a verification created has a login, every login a tenant, and
\* no two logins the same one; whatever races the verification, and wherever
\* it dies.  And one token creates one tenant, however often it is posted and
\* even if the tenant it created is gone.
OwnerAndTenant ==
  /\ \A r \in Requests \cap tenants : AddressOf(r) # {}
  /\ \A e, f \in Emails : accounts[e] # None =>
       /\ accounts[e].tenant \in tenants
       /\ accounts[f] # None /\ accounts[f].tenant = accounts[e].tenant => e = f
  /\ \A q, r \in Requests :
       /\ job[q].kind = "verify" /\ job[r].kind = "verify" /\ job[q].token = job[r].token
       /\ login[q] # None /\ login[r] # None
       => q = r

\* A session holds the password of its tenant's login.
Current(s) ==
  \A e \in AddressOf(s.tenant) : s.password = accounts[e].password

\* The password travels with the signup: a verification makes the login of the
\* password it was posted with, whoever else signed up for the address.  From
\* then on a session stands for the password of its login: a reset ends those it
\* can see, and one that outlives it read the old password before that reset of
\* its address committed and was opened after it deleted.
OwnPassword ==
  /\ \A r \in Requests :
       job[r].kind = "verify" /\ login[r] # None => login[r].password = job[r].password
  /\ \A s \in sessions :
       \/ Current(s)
       \/ \E r \in (resets \cap s.opened) \ s.read : job[r].email \in AddressOf(s.tenant)

\* No request waits for ever on the rows of others.
EveryRequestEnds == \A r \in Requests : <>(pc[r] = "done")
=============================================================================
