---------------------------- MODULE AccountsProofs ----------------------------
(***************************************************************************)
(* For every set of requests, addresses and tokens, and every interleaving *)
(* of their statements: no owner without a tenant nor tenant without an    *)
(* owner, and no session under a password its login no longer has but one  *)
(* that was being opened across the reset.                                 *)
(***************************************************************************)
EXTENDS Accounts, TLAPS

-----------------------------------------------------------------------------
(* The values the variables take, and the statements each request runs.      *)

\* A session, with the ghosts its life in the model adds.
SessionRow == [by: Requests, tenant: Tenants, password: Passwords,
               read: SUBSET Requests, opened: SUBSET Requests]

\* The statements of complete_signup after it took the token.
Owned == {"owned", "insert", "sweep", "commit"}

\* Every statement a request can be at.
Statements ==
  {"exists", "store", "check", "find", "lock", "take", "read", "update", "drop", "lockTenant",
   "insertLogin", "readTenant", "deleteSignups", "deleteTenant", "session", "done"} \cup Owned

\* The statements of each endpoint.
StepsOf(kind) ==
  CASE kind = "signup" -> {"exists", "store", "done"}
    [] kind = "verify" -> {"check", "find", "lock", "take", "session", "done"} \cup Owned
    [] kind = "signin" -> {"read", "session", "done"}
    [] kind = "reset"  -> {"update", "drop", "commit", "done"}
    [] kind = "add"    -> {"lockTenant", "insertLogin", "commit", "done"}
    [] kind = "delete" -> {"readTenant", "deleteSignups", "deleteTenant", "commit", "done"}

\* No two sign-ups are given the same token (secrets.token_urlsafe).
Jobs ==
  /\ job \in [Requests -> JobType]
  /\ \A r \in Requests : Complete(job[r])
  /\ \A q, r \in Requests :
       job[q].kind = "signup" /\ job[r].kind = "signup" /\ job[q].token = job[r].token => q = r

\* A transaction: what it has read, deleted, written and locked.
TxRow == [addr: Emails \cup {None}, locked: BOOLEAN, row: SignupRow \cup {None},
          taken: SUBSET Tokens, writes: Emails \cup {None}, holds: Tenants \cup {None},
          dropped: SUBSET SessionRow]

TablesTyped ==
  /\ signups \in [Tokens -> SignupRow \cup {None}]
  /\ tenants \subseteq Tenants
  /\ accounts \in [Emails -> LoginRow \cup {None}]
  /\ sessions \subseteq SessionRow
  /\ drops \subseteq Requests

StepsTyped ==
  /\ pc \in [Requests -> Statements]
  /\ \A r \in Requests : pc[r] \in StepsOf(job[r].kind)

TxTyped == tx \in [Requests -> TxRow]

LoginTyped == login \in [Requests -> Opening \cup {None}]

Typed == Jobs /\ TablesTyped /\ StepsTyped /\ TxTyped /\ LoginTyped

-----------------------------------------------------------------------------
(* Tokens: what is known of the signup row behind each of them.              *)

\* A token its signup has not stored yet was shown to nobody.
Unsent ==
  \A q, r \in Requests : \A k \in Tokens :
    pc[q] \in {"exists", "store"} /\ job[q].token = k =>
      /\ signups[k] = None
      /\ k \notin tx[r].taken
      /\ job[r].kind = "verify" /\ job[r].token = k =>
           pc[r] \in {"check", "done"} /\ login[r] = None

\* A row a transaction deleted is still there for the others, and its own.
TakenIsThere ==
  \A r \in Requests : \A k \in tx[r].taken :
    signups[k] # None /\ \A q \in Requests \ {r} : k \notin tx[q].taken

\* What a verification has established at each of its statements.
Checked ==
  \A r \in Requests : \A k \in Tokens : job[r].kind = "verify" /\ job[r].token = k =>
    /\ pc[r] \in {"find", "lock", "take"} =>
         signups[k] = None \/ signups[k].password = job[r].password
    /\ pc[r] \in {"lock", "take"} \cup Owned => tx[r].addr \in Emails
    /\ pc[r] \in Owned => /\ k \in tx[r].taken
                          /\ tx[r].row \in SignupRow
                          /\ tx[r].row.password = job[r].password
    /\ login[r] # None => /\ pc[r] \in {"session", "done"}
                          /\ signups[k] = None
                          /\ login[r].password = job[r].password

\* One token creates one tenant.
OneEach ==
  \A q, r \in Requests :
    /\ job[q].kind = "verify" /\ job[r].kind = "verify" /\ job[q].token = job[r].token
    /\ login[q] # None /\ login[r] # None
    => q = r

TokensHold == Unsent /\ TakenIsThere /\ Checked /\ OneEach

-----------------------------------------------------------------------------
(* Rows: who may write which account, and who holds which tenant.            *)

\* The tenant is the operator's, or its verification has committed.
Born(t) == t \in Roots \/ (t \in Requests /\ pc[t] \in {"session", "done"})

\* Row locks: one writer of an account, one holder of a tenant.
Exclusive ==
  \A q, r \in Requests : q # r =>
    /\ tx[q].writes # None => tx[q].writes # tx[r].writes
    /\ tx[q].holds # None => tx[q].holds # tx[r].holds

\* The account a request is about to write, as it found it.
Written ==
  \A r \in Requests : \A e \in Emails :
    /\ job[r].kind = "verify" /\ pc[r] \in {"sweep", "commit"} /\ tx[r].addr = e =>
         tx[r].writes = e /\ accounts[e] = None
    /\ job[r].kind = "add" /\ pc[r] = "commit" /\ job[r].email = e =>
         tx[r].writes = e /\ accounts[e] = None
    /\ job[r].kind = "reset" /\ pc[r] \in {"drop", "commit"} /\ job[r].email = e =>
         tx[r].writes = e /\ accounts[e] # None

\* The tenant a request holds, and the login it has.
Held ==
  \A r \in Requests : \A t \in Tenants : job[r].tenant = t =>
    /\ job[r].kind = "add" /\ pc[r] \in {"insertLogin", "commit"} =>
         /\ tx[r].holds = t
         /\ t \in tenants
         /\ \A e \in Emails : accounts[e] # None => accounts[e].tenant # t
    /\ job[r].kind = "delete" /\ pc[r] \in {"deleteSignups", "deleteTenant", "commit"} => Born(t)
    /\ job[r].kind = "delete" /\ pc[r] = "commit" =>
         /\ tx[r].holds = t
         /\ \A e \in Emails : accounts[e] # None /\ accounts[e].tenant = t => tx[r].writes = e

\* Every tenant a verification created has a login, and every login one tenant.
Owners ==
  /\ \A r \in Requests \cap tenants :
       /\ pc[r] \in {"session", "done"}
       /\ \E e \in Emails : accounts[e] # None /\ accounts[e].tenant = r
  /\ \A e, f \in Emails : accounts[e] # None =>
       /\ accounts[e].tenant \in tenants
       /\ accounts[f] # None /\ accounts[f].tenant = accounts[e].tenant => e = f

RowsHold == Exclusive /\ Written /\ Held /\ Owners

-----------------------------------------------------------------------------
(* Sessions: the password each was opened under.                             *)

\* What was read of a login is still true, or a reset that committed since
\* changed it; of a tenant that is gone nothing is left to compare with.
Stands(l, since) ==
  /\ l.read \subseteq resets
  /\ Born(l.tenant)
  /\ l.tenant \in tenants => \E e \in Emails : accounts[e] # None /\ accounts[e].tenant = l.tenant
  /\ \A e \in Emails : accounts[e] # None /\ accounts[e].tenant = l.tenant =>
       l.password = accounts[e].password \/ \E r \in since \ l.read : job[r].email = e

\* The resets that have deleted, and those that have committed.
ResetsInOrder ==
  /\ resets \subseteq drops
  /\ \A r \in drops : job[r].kind = "reset" /\ pc[r] \in {"commit", "done"}
  /\ \A r \in resets : pc[r] = "done"
  /\ \A r \in Requests : job[r].kind = "reset" /\ pc[r] = "commit" => r \in drops

\* A session about to be inserted, and the login it was read from.
LoginsStand ==
  \A r \in Requests : pc[r] = "session" => login[r] \in Opening /\ Stands(login[r], resets)

\* A session that is there, and the resets it was opened across.
SessionsStand ==
  \A s \in sessions : s.tenant \in tenants /\ Stands(s, resets \cap s.opened)

\* A reset about to commit leaves only sessions opened after it deleted.
DropsSeen ==
  \A r \in Requests : job[r].kind = "reset" /\ pc[r] = "commit" =>
    \A s \in sessions : s.tenant = accounts[job[r].email].tenant =>
      s \in tx[r].dropped \/ r \in s.opened

SessionsHold == ResetsInOrder /\ LoginsStand /\ SessionsStand /\ DropsSeen

\* The inductive invariant.
AInv == Typed /\ TokensHold /\ RowsHold /\ SessionsHold

\* The statement a request is at tells the endpoint it serves.
LEMMA StepOf ==
  ASSUME Typed, NEW r \in Requests
  PROVE  /\ pc[r] \in {"exists", "store"} => job[r].kind = "signup"
         /\ pc[r] \in {"check", "find", "lock", "take", "owned", "insert", "sweep"} =>
              job[r].kind = "verify"
         /\ pc[r] = "read" => job[r].kind = "signin"
         /\ pc[r] \in {"update", "drop"} => job[r].kind = "reset"
         /\ pc[r] \in {"lockTenant", "insertLogin"} => job[r].kind = "add"
         /\ pc[r] \in {"readTenant", "deleteSignups", "deleteTenant"} => job[r].kind = "delete"
         /\ pc[r] = "commit" => job[r].kind \in {"verify", "reset", "add", "delete"}
         /\ pc[r] = "session" => job[r].kind \in {"verify", "signin"}
BY DEF Typed, Jobs, JobType, Kinds, StepsTyped, StepsOf, Owned

\* A request that moves to a statement of its endpoint stays on it.
LEMMA GoesTo ==
  ASSUME Jobs, StepsTyped, NEW r \in Requests, NEW step \in StepsOf(job[r].kind),
         Goto(r, step), job' = job
  PROVE  StepsTyped'
<1>1. job[r].kind \in Kinds
  BY DEF Jobs, JobType
<1>2. \A k \in Kinds : StepsOf(k) \subseteq Statements
  BY DEF Kinds, StepsOf, Owned, Statements
<1>3. step \in Statements
  BY <1>1, <1>2
<1> QED BY <1>3 DEF StepsTyped, Goto

\* Ending is a statement of every endpoint, and leaves no transaction.
LEMMA Ends ==
  ASSUME Jobs, StepsTyped, TxTyped, NEW r \in Requests, End(r), job' = job
  PROVE  StepsTyped' /\ TxTyped'
<1>1. "done" \in StepsOf(job[r].kind)
  BY DEF Jobs, JobType, Kinds, StepsOf
<1>2. NoTx \in TxRow
  BY DEF NoTx, TxRow
<1> QED BY <1>1, <1>2, GoesTo DEF End, TxTyped

\* The fields a request of each kind carries (Complete).
LEMMA Fields ==
  ASSUME Typed, NEW r \in Requests
  PROVE  /\ job[r].kind \in Kinds
         /\ job[r].kind \in {"signup", "signin", "reset", "add"} => job[r].email \in Emails
         /\ job[r].kind \in {"signup", "verify"} => job[r].token \in Tokens
         /\ job[r].kind # "delete" => job[r].password \in Passwords
         /\ job[r].kind \in {"add", "delete"} => job[r].tenant \in Tenants
BY DEF Typed, Jobs, Complete, JobType

\* A row that is there has the columns of its table.
LEMMA RowsOf ==
  ASSUME Typed
  PROVE  /\ \A k \in Tokens : signups[k] # None =>
              /\ signups[k] \in SignupRow
              /\ signups[k].email \in Emails
              /\ signups[k].password \in Passwords
         /\ \A e \in Emails : accounts[e] # None =>
              /\ accounts[e] \in LoginRow
              /\ accounts[e].tenant \in Tenants
              /\ accounts[e].password \in Passwords
BY DEF Typed, TablesTyped, SignupRow, LoginRow

\* The empty transaction is one.
LEMMA NothingHeld == NoTx \in TxRow
BY DEF NoTx, TxRow

\* The fields of a transaction.
LEMMA TxOf ==
  ASSUME Typed
  PROVE  /\ tx \in [Requests -> TxRow]
         /\ \A r \in Requests :
              /\ tx[r].addr \in Emails \cup {None} /\ tx[r].locked \in BOOLEAN
              /\ tx[r].row \in SignupRow \cup {None} /\ tx[r].taken \in SUBSET Tokens
              /\ tx[r].writes \in Emails \cup {None} /\ tx[r].holds \in Tenants \cup {None}
              /\ tx[r].dropped \in SUBSET SessionRow
BY DEF Typed, TxTyped, TxRow

\* A transaction that changes one of its fields.
LEMMA Notes ==
  ASSUME TxTyped, NEW r \in Requests
  PROVE  /\ \A v \in Emails \cup {None} : [tx EXCEPT ![r].addr = v] \in [Requests -> TxRow]
         /\ [tx EXCEPT ![r].locked = TRUE] \in [Requests -> TxRow]
         /\ \A v \in SUBSET Tokens : [tx EXCEPT ![r].taken = v] \in [Requests -> TxRow]
         /\ \A v \in SUBSET Tokens, w \in SignupRow :
              [tx EXCEPT ![r].taken = v, ![r].row = w] \in [Requests -> TxRow]
         /\ \A v \in Emails \cup {None} : [tx EXCEPT ![r].writes = v] \in [Requests -> TxRow]
         /\ \A v \in Tenants \cup {None} : [tx EXCEPT ![r].holds = v] \in [Requests -> TxRow]
         /\ \A v \in Tenants \cup {None}, w \in Emails \cup {None} :
              [tx EXCEPT ![r].holds = v, ![r].writes = w] \in [Requests -> TxRow]
         /\ \A v \in SUBSET SessionRow : [tx EXCEPT ![r].dropped = v] \in [Requests -> TxRow]
         /\ [tx EXCEPT ![r] = NoTx] \in [Requests -> TxRow]
BY NothingHeld DEF TxTyped, TxRow

\* None is apart, and a tenant is the operator's or a verification's.
LEMMA Apart ==
  /\ None \notin Emails /\ None \notin Tenants
  /\ \A t \in Tenants : t \in Requests <=> t \notin Roots
  /\ Requests \subseteq Tenants
BY ScenarioAssumption DEF Tenants

\* The invariant, part by part.
LEMMA Parts ==
  ASSUME AInv
  PROVE  /\ Typed /\ Jobs /\ TablesTyped /\ StepsTyped /\ TxTyped /\ LoginTyped
         /\ Unsent /\ TakenIsThere /\ Checked /\ OneEach
         /\ Exclusive /\ Written /\ Held /\ Owners
         /\ ResetsInOrder /\ LoginsStand /\ SessionsStand /\ DropsSeen
BY DEF AInv, Typed, TokensHold, RowsHold, SessionsHold

-----------------------------------------------------------------------------
(* What a statement changes, field by field.                                 *)

\* Nobody but r moves, which was at this statement.
Moves(r, from) ==
  /\ pc[r] = from
  /\ job' = job
  /\ \A q \in Requests \ {r} : pc'[q] = pc[q] /\ login'[q] = login[q]

\* The transaction of r afterwards; those of others stay.
Becomes(r, addr, row, taken, writes, holds, dropped) ==
  /\ tx'[r].addr = addr
  /\ tx'[r].row = row
  /\ tx'[r].taken = taken
  /\ tx'[r].writes = writes
  /\ tx'[r].holds = holds
  /\ tx'[r].dropped = dropped
  /\ \A q \in Requests \ {r} : tx'[q] = tx[q]

\* The transaction of r is as it was, up to its lock on an address.
Same(r) == Becomes(r, tx[r].addr, tx[r].row, tx[r].taken, tx[r].writes, tx[r].holds, tx[r].dropped)

\* No table, ghost or login changes.
Still == UNCHANGED <<tables, clock, login>>

\* The request is over and holds nothing.
Ended(r) == pc'[r] = "done" /\ Becomes(r, None, None, {}, None, None, {})

\* End leaves the request done, and moves no other.
LEMMA EndEnds ==
  ASSUME Typed, NEW r \in Requests, End(r)
  PROVE  Ended(r) /\ \A q \in Requests \ {r} : pc'[q] = pc[q]
BY DEF End, Goto, NoTx, Ended, Becomes, Typed, StepsTyped, TxTyped

\* Goto moves one request.
LEMMA GotoGoes ==
  ASSUME Typed, NEW r \in Requests, NEW step, Goto(r, step)
  PROVE  pc'[r] = step /\ \A q \in Requests \ {r} : pc'[q] = pc[q]
BY DEF Goto, Typed, StepsTyped

\* A statement that leaves tx alone leaves every transaction.
LEMMA TxStays == ASSUME NEW r \in Requests, tx' = tx PROVE Same(r)
BY DEF Same, Becomes

\* What each update of a field of tx leaves of the others.
LEMMA TxNotes ==
  ASSUME Typed, NEW r \in Requests, NEW v, NEW w
  PROVE  /\ tx' = [tx EXCEPT ![r].addr = v] =>
              Becomes(r, v, tx[r].row, tx[r].taken, tx[r].writes, tx[r].holds, tx[r].dropped)
         /\ tx' = [tx EXCEPT ![r].locked = v] => Same(r)
         /\ tx' = [tx EXCEPT ![r].taken = v, ![r].row = w] =>
              Becomes(r, tx[r].addr, w, v, tx[r].writes, tx[r].holds, tx[r].dropped)
         /\ tx' = [tx EXCEPT ![r].taken = v] =>
              Becomes(r, tx[r].addr, tx[r].row, v, tx[r].writes, tx[r].holds, tx[r].dropped)
         /\ tx' = [tx EXCEPT ![r].writes = v] =>
              Becomes(r, tx[r].addr, tx[r].row, tx[r].taken, v, tx[r].holds, tx[r].dropped)
         /\ tx' = [tx EXCEPT ![r].holds = v] =>
              Becomes(r, tx[r].addr, tx[r].row, tx[r].taken, tx[r].writes, v, tx[r].dropped)
         /\ tx' = [tx EXCEPT ![r].holds = v, ![r].writes = w] =>
              Becomes(r, tx[r].addr, tx[r].row, tx[r].taken, w, v, tx[r].dropped)
         /\ tx' = [tx EXCEPT ![r].dropped = v] =>
              Becomes(r, tx[r].addr, tx[r].row, tx[r].taken, tx[r].writes, tx[r].holds, v)
<1> USE DEF Becomes, Same, Typed, TxTyped, TxRow
<1>1. tx' = [tx EXCEPT ![r].addr = v] =>
        Becomes(r, v, tx[r].row, tx[r].taken, tx[r].writes, tx[r].holds, tx[r].dropped)
  OBVIOUS
<1>2. tx' = [tx EXCEPT ![r].locked = v] => Same(r)
  OBVIOUS
<1>3. tx' = [tx EXCEPT ![r].taken = v, ![r].row = w] =>
        Becomes(r, tx[r].addr, w, v, tx[r].writes, tx[r].holds, tx[r].dropped)
  OBVIOUS
<1>4. tx' = [tx EXCEPT ![r].taken = v] =>
        Becomes(r, tx[r].addr, tx[r].row, v, tx[r].writes, tx[r].holds, tx[r].dropped)
  OBVIOUS
<1>5. tx' = [tx EXCEPT ![r].writes = v] =>
        Becomes(r, tx[r].addr, tx[r].row, tx[r].taken, v, tx[r].holds, tx[r].dropped)
  OBVIOUS
<1>6. tx' = [tx EXCEPT ![r].holds = v] =>
        Becomes(r, tx[r].addr, tx[r].row, tx[r].taken, tx[r].writes, v, tx[r].dropped)
  OBVIOUS
<1>7. tx' = [tx EXCEPT ![r].holds = v, ![r].writes = w] =>
        Becomes(r, tx[r].addr, tx[r].row, tx[r].taken, w, v, tx[r].dropped)
  OBVIOUS
<1>8. tx' = [tx EXCEPT ![r].dropped = v] =>
        Becomes(r, tx[r].addr, tx[r].row, tx[r].taken, tx[r].writes, tx[r].holds, v)
  OBVIOUS
<1> QED BY <1>1, <1>2, <1>3, <1>4, <1>5, <1>6, <1>7, <1>8

\* signup_exists reads, and the request goes on or ends.
LEMMA SignupExistsDoes ==
  ASSUME Typed, NEW r \in Requests, SignupExists(r)
  PROVE  Moves(r, "exists") /\ Still /\ Same(r) /\ pc'[r] \in {"done", "store"}
BY EndEnds, GotoGoes, TxStays, TxNotes DEF SignupExists, At, Moves, Still, clock, tables

\* add_signup writes the signups table only.
LEMMA AddSignupDoes ==
  ASSUME Typed, NEW r \in Requests, AddSignup(r)
  PROVE  /\ Moves(r, "store") /\ Same(r) /\ pc'[r] = "done"
         /\ UNCHANGED <<tenants, accounts, sessions, clock, login>>
BY EndEnds, GotoGoes, TxStays, TxNotes DEF AddSignup, At, Moves, Still, clock, tables

\* verify goes on only with a row whose password is the one given.
LEMMA CheckTokenDoes ==
  ASSUME Typed, NEW r \in Requests, CheckToken(r)
  PROVE  /\ Moves(r, "check") /\ Still /\ Same(r)
         /\ \/ pc'[r] = "done"
            \/ /\ pc'[r] = "find"
               /\ signups[job[r].token] # None /\ signups[job[r].token].password = job[r].password
BY EndEnds, GotoGoes, TxStays, TxNotes DEF CheckToken, At, Moves, Still, clock, tables

\* complete_signup reads the address behind the token.
LEMMA FindAddressDoes ==
  ASSUME Typed, NEW r \in Requests, FindAddress(r)
  PROVE  /\ Moves(r, "find") /\ Still
         /\ \/ Ended(r)
            \/ /\ signups[job[r].token] # None
               /\ pc'[r] = "lock"
               /\ Becomes(r, signups[job[r].token].email, tx[r].row, tx[r].taken, tx[r].writes,
                          tx[r].holds, tx[r].dropped)
BY EndEnds, GotoGoes, TxStays, TxNotes DEF FindAddress, At, Moves, Still, clock, tables

\* The advisory lock of complete_signup writes nothing.
LEMMA LockAddressDoes ==
  ASSUME Typed, NEW r \in Requests, LockAddress(r)
  PROVE  Moves(r, "lock") /\ Still /\ Same(r) /\ pc'[r] = "take"
BY EndEnds, GotoGoes, TxStays, TxNotes DEF LockAddress, At, Moves, Still, clock, tables

\* DELETE ... RETURNING takes the row the token names, once.
LEMMA TakeTokenDoes ==
  ASSUME Typed, NEW r \in Requests, TakeToken(r)
  PROVE  /\ Moves(r, "take") /\ Still
         /\ \/ Ended(r)
            \/ /\ FreeToken(r, job[r].token)
               /\ signups[job[r].token] # None
               /\ pc'[r] = "owned"
               /\ Becomes(r, tx[r].addr, signups[job[r].token], {job[r].token}, tx[r].writes,
                          tx[r].holds, tx[r].dropped)
BY EndEnds, GotoGoes, TxStays, TxNotes DEF TakeToken, At, Moves, Still, clock, tables

\* complete_signup goes on only if no account has the address.
LEMMA FindAccountDoes ==
  ASSUME Typed, NEW r \in Requests, FindAccount(r)
  PROVE  /\ Moves(r, "owned")
         /\ UNCHANGED <<tenants, accounts, sessions, clock, login>>
         /\ \/ Ended(r) /\ signups' = Without(tx[r].taken)
            \/ Same(r) /\ pc'[r] = "insert" /\ signups' = signups
BY EndEnds, GotoGoes, TxStays, TxNotes DEF FindAccount, At, Moves, Still, clock, tables

\* The insert of the account needs its row free and absent.
LEMMA InsertAccountDoes ==
  ASSUME Typed, NEW r \in Requests, InsertAccount(r)
  PROVE  /\ Moves(r, "insert") /\ Still
         /\ \/ Ended(r)
            \/ /\ FreeAccount(r, tx[r].addr)
               /\ accounts[tx[r].addr] = None
               /\ pc'[r] = "sweep"
               /\ Becomes(r, tx[r].addr, tx[r].row, tx[r].taken, tx[r].addr, tx[r].holds,
                          tx[r].dropped)
BY EndEnds, GotoGoes, TxStays, TxNotes DEF InsertAccount, At, Moves, Still, clock, tables

\* The other signups of the address go with the one taken.
LEMMA SweepDoes ==
  ASSUME Typed, NEW r \in Requests, Sweep(r)
  PROVE  /\ Moves(r, "sweep") /\ Still
         /\ \A k \in Pending(tx[r].addr) : FreeToken(r, k)
         /\ pc'[r] = "commit"
         /\ Becomes(r, tx[r].addr, tx[r].row, tx[r].taken \cup Pending(tx[r].addr), tx[r].writes,
                    tx[r].holds, tx[r].dropped)
BY EndEnds, GotoGoes, TxStays, TxNotes DEF Sweep, At, Moves, Still, clock, tables

\* The commit of complete_signup makes the tenant and its account.
LEMMA CommitSignupDoes ==
  ASSUME Typed, NEW r \in Requests, CommitSignup(r)
  PROVE  /\ Moves(r, "commit") /\ job[r].kind = "verify"
         /\ UNCHANGED <<sessions, clock>>
         /\ tenants' = tenants \cup {r}
         /\ pc'[r] = "session"
         /\ Becomes(r, None, None, {}, None, None, {})
BY GotoGoes DEF CommitSignup, At, Moves, Still, clock, tables, Becomes, NoTx, Typed, TxTyped,
   LoginTyped

\* Reading a login writes nothing.
LEMMA ReadLoginDoes ==
  ASSUME Typed, NEW r \in Requests, ReadLogin(r)
  PROVE  /\ Moves(r, "read") /\ UNCHANGED <<tables, clock>> /\ Same(r)
BY GotoGoes, TxStays DEF ReadLogin, At, Moves, Still, clock, tables, Typed, LoginTyped

\* create_session inserts what the request read, if the tenant is there.
LEMMA CreateSessionDoes ==
  ASSUME Typed, NEW r \in Requests, CreateSession(r)
  PROVE  /\ Moves(r, "session") /\ Same(r) /\ pc'[r] = "done"
         /\ UNCHANGED <<signups, tenants, accounts, clock, login>>
         /\ \A s \in sessions' \ sessions :
              /\ login[r].tenant \in tenants
              /\ s.tenant = login[r].tenant /\ s.password = login[r].password
              /\ s.read = login[r].read /\ s.opened = drops
BY EndEnds, GotoGoes, TxStays, TxNotes DEF CreateSession, At, Moves, Still, clock, tables

\* The update of a password needs the account there and free.
LEMMA UpdatePasswordDoes ==
  ASSUME Typed, NEW r \in Requests, UpdatePassword(r)
  PROVE  /\ Moves(r, "update") /\ Still
         /\ \/ Ended(r)
            \/ /\ FreeAccount(r, job[r].email)
               /\ accounts[job[r].email] # None
               /\ pc'[r] = "drop"
               /\ Becomes(r, tx[r].addr, tx[r].row, tx[r].taken, job[r].email,
                          tx[r].holds, tx[r].dropped)
BY EndEnds, GotoGoes, TxStays, TxNotes DEF UpdatePassword, At, Moves, Still, clock, tables

\* A reset deletes the sessions it sees.
LEMMA DropSessionsDoes ==
  ASSUME Typed, NEW r \in Requests, DropSessions(r)
  PROVE  /\ Moves(r, "drop") /\ UNCHANGED <<tables, resets, login>>
         /\ drops' = drops \cup {r}
         /\ pc'[r] = "commit"
         /\ Becomes(r, tx[r].addr, tx[r].row, tx[r].taken, tx[r].writes, tx[r].holds,
                    {s \in sessions : s.tenant = accounts[job[r].email].tenant})
BY EndEnds, GotoGoes, TxStays, TxNotes DEF DropSessions, At, Moves, Still, clock, tables

\* The commit of a reset changes one account and drops the sessions seen.
LEMMA CommitResetDoes ==
  ASSUME Typed, NEW r \in Requests, CommitReset(r)
  PROVE  /\ Moves(r, "commit") /\ job[r].kind = "reset" /\ Ended(r)
         /\ UNCHANGED <<signups, tenants, drops, login>>
         /\ sessions' = sessions \ tx[r].dropped
         /\ resets' = resets \cup {r}
BY EndEnds, GotoGoes, TxStays, TxNotes DEF CommitReset, At, Moves, Still, clock, tables

\* add_account goes on only with a tenant that is there and has no login.
LEMMA LockTenantDoes ==
  ASSUME Typed, NEW r \in Requests, LockTenant(r)
  PROVE  /\ Moves(r, "lockTenant") /\ Still
         /\ \/ Ended(r)
            \/ /\ FreeTenant(r, job[r].tenant)
               /\ job[r].tenant \in tenants /\ AddressOf(job[r].tenant) = {}
               /\ pc'[r] = "insertLogin"
               /\ Becomes(r, tx[r].addr, tx[r].row, tx[r].taken, tx[r].writes,
                          job[r].tenant, tx[r].dropped)
BY EndEnds, GotoGoes, TxStays, TxNotes DEF LockTenant, At, Moves, Still, clock, tables

\* The insert of a login needs its row free and absent.
LEMMA InsertLoginDoes ==
  ASSUME Typed, NEW r \in Requests, InsertLogin(r)
  PROVE  /\ Moves(r, "insertLogin") /\ Still
         /\ \/ Ended(r)
            \/ /\ FreeAccount(r, job[r].email)
               /\ accounts[job[r].email] = None
               /\ pc'[r] = "commit"
               /\ Becomes(r, tx[r].addr, tx[r].row, tx[r].taken, job[r].email,
                          tx[r].holds, tx[r].dropped)
BY EndEnds, GotoGoes, TxStays, TxNotes DEF InsertLogin, At, Moves, Still, clock, tables

\* The commit of add_account writes one account.
LEMMA CommitLoginDoes ==
  ASSUME Typed, NEW r \in Requests, CommitLogin(r)
  PROVE  /\ Moves(r, "commit") /\ job[r].kind = "add" /\ Ended(r)
         /\ UNCHANGED <<signups, tenants, sessions, clock, login>>
BY EndEnds, GotoGoes, TxStays, TxNotes DEF CommitLogin, At, Moves, Still, clock, tables

\* delete_tenant goes on only with a tenant that is there.
LEMMA ReadTenantDoes ==
  ASSUME Typed, NEW r \in Requests, ReadTenant(r)
  PROVE  /\ Moves(r, "readTenant") /\ Still
         /\ \/ Ended(r)
            \/ /\ job[r].tenant \in tenants
               /\ pc'[r] = "deleteSignups"
               /\ \E a : Becomes(r, a, tx[r].row, tx[r].taken, tx[r].writes, tx[r].holds,
                                 tx[r].dropped)
BY EndEnds, GotoGoes, TxStays, TxNotes DEF ReadTenant, At, Moves, Still, clock, tables

\* delete_tenant takes the signups of the login it read.
LEMMA DeleteSignupsDoes ==
  ASSUME Typed, NEW r \in Requests, DeleteSignups(r)
  PROVE  /\ Moves(r, "deleteSignups") /\ Still
         /\ \A k \in Pending(tx[r].addr) : FreeToken(r, k)
         /\ pc'[r] = "deleteTenant"
         /\ Becomes(r, tx[r].addr, tx[r].row, Pending(tx[r].addr), tx[r].writes, tx[r].holds,
                    tx[r].dropped)
BY EndEnds, GotoGoes, TxStays, TxNotes DEF DeleteSignups, At, Moves, Still, clock, tables

\* The delete of a tenant holds it and the account that falls with it.
LEMMA DeleteTenantDoes ==
  ASSUME Typed, NEW r \in Requests, DeleteTenant(r)
  PROVE  /\ Moves(r, "deleteTenant") /\ Still
         /\ FreeTenant(r, job[r].tenant)
         /\ \A e \in AddressOf(job[r].tenant) : FreeAccount(r, e)
         /\ pc'[r] = "commit"
         /\ \E e : /\ e \in IF AddressOf(job[r].tenant) = {} THEN {None}
                          ELSE AddressOf(job[r].tenant)
                   /\ Becomes(r, tx[r].addr, tx[r].row, tx[r].taken, e, job[r].tenant,
                              tx[r].dropped)
BY EndEnds, GotoGoes, TxStays, TxNotes DEF DeleteTenant, At, Moves, Still, clock, tables

\* The commit of delete_tenant removes the tenant and its sessions.
LEMMA CommitDeleteDoes ==
  ASSUME Typed, NEW r \in Requests, CommitDelete(r)
  PROVE  /\ Moves(r, "commit") /\ job[r].kind = "delete" /\ Ended(r)
         /\ UNCHANGED <<clock, login>>
         /\ tenants' = tenants \ {job[r].tenant}
         /\ sessions' = {s \in sessions : s.tenant # job[r].tenant}
BY EndEnds, GotoGoes, TxStays, TxNotes DEF CommitDelete, At, Moves, Still, clock, tables

\* A crash ends one request and rolls its transaction back.
LEMMA CrashDoes ==
  ASSUME Typed, NEW r \in Requests, Crash(r)
  PROVE  Moves(r, pc[r]) /\ Still /\ Ended(r)
BY EndEnds, GotoGoes, TxStays, TxNotes DEF Crash, At, Moves, Still, clock, tables

-----------------------------------------------------------------------------
(* What a commit changes in the tables, row by row.                          *)

\* The account at e afterwards, and every other as it was.
AccountBecomes(e, tenant, password) ==
  /\ accounts'[e] # None
  /\ accounts'[e].tenant = tenant
  /\ accounts'[e].password = password
  /\ \A f \in Emails \ {e} : accounts'[f] = accounts[f]

\* The login r holds afterwards, read now.
LoginBecomes(r, tenant, password) ==
  /\ login'[r] # None
  /\ login'[r] \in Opening
  /\ login'[r].tenant = tenant
  /\ login'[r].password = password
  /\ login'[r].read = resets

\* The signups afterwards: these gone, the others as they were.
SignupsWithout(K) ==
  \A k \in Tokens : signups'[k] = IF k \in K THEN None ELSE signups[k]

\* add_signup stores the row of its own token.
LEMMA AddSignupWrites ==
  ASSUME AInv, NEW r \in Requests, AddSignup(r)
  PROVE  /\ signups'[job[r].token] # None
         /\ signups'[job[r].token].email = job[r].email
         /\ signups'[job[r].token].password = job[r].password
         /\ \A k \in Tokens \ {job[r].token} : signups'[k] = signups[k]
<1> DEFINE row == [email |-> job[r].email, password |-> job[r].password, live |-> TRUE]
<1>1. job[r].token \in Tokens /\ row \in SignupRow
  BY AddSignupDoes, StepOf, Fields DEF AInv, Moves, SignupRow
<1>2. row # None /\ row.email = job[r].email /\ row.password = job[r].password
  BY <1>1, ScenarioAssumption
<1>3. signups' = [signups EXCEPT ![job[r].token] = row]
  BY DEF AddSignup
<1> HIDE DEF row
<1>4. signups'[job[r].token] = row /\ \A k \in Tokens \ {job[r].token} : signups'[k] = signups[k]
  BY <1>1, <1>3 DEF AInv, Typed, TablesTyped
<1> QED BY <1>2, <1>4

\* A signup that expires keeps its address and password.
LEMMA ExpireWrites ==
  ASSUME AInv, NEW k \in Tokens, Expire(k)
  PROVE  \A x \in Tokens :
           /\ signups'[x] = None <=> signups[x] = None
           /\ signups[x] # None => /\ signups'[x].email = signups[x].email
                                   /\ signups'[x].password = signups[x].password
<1> DEFINE row == [signups[k] EXCEPT !.live = FALSE]
<1>1. signups[k] # None /\ signups[k] \in SignupRow
  BY RowsOf DEF Expire, AInv
<1>2. row \in SignupRow /\ row.email = signups[k].email /\ row.password = signups[k].password
  BY <1>1 DEF SignupRow
<1>3. signups' = [signups EXCEPT ![k] = row]
  BY DEF Expire
<1> HIDE DEF row
<1>4. signups'[k] = row /\ \A x \in Tokens \ {k} : signups'[x] = signups[x]
  BY <1>3 DEF AInv, Typed, TablesTyped
<1>5. row # None
  BY <1>2, ScenarioAssumption
<1> QED BY <1>1, <1>2, <1>4, <1>5

\* Without removes the rows named, and no other.
LEMMA WithoutWrites ==
  ASSUME NEW K, signups' = Without(K)
  PROVE  SignupsWithout(K)
BY DEF Without, SignupsWithout

\* An account written has the columns of the row written.
LEMMA AccountWritten ==
  ASSUME Typed, NEW e \in Emails, NEW row \in LoginRow, accounts' = [accounts EXCEPT ![e] = row]
  PROVE  AccountBecomes(e, row.tenant, row.password)
<1>1. accounts'[e] = row /\ \A f \in Emails \ {e} : accounts'[f] = accounts[f]
  BY DEF Typed, TablesTyped
<1> QED BY <1>1, ScenarioAssumption DEF AccountBecomes

\* complete_signup writes one new login, of the new tenant.
LEMMA CommitSignupWrites ==
  ASSUME AInv, NEW r \in Requests, CommitSignup(r)
  PROVE  /\ tx[r].addr \in Emails
         /\ AccountBecomes(tx[r].addr, r, job[r].password)
         /\ LoginBecomes(r, r, job[r].password)
         /\ SignupsWithout(tx[r].taken)
<1>1. tx[r].addr \in Emails /\ tx[r].row \in SignupRow /\ tx[r].row.password = job[r].password
  BY CommitSignupDoes, Fields DEF AInv, TokensHold, Checked, Moves, Owned
<1> DEFINE row == [tenant |-> r, password |-> tx[r].row.password]
           open == [tenant |-> r, password |-> tx[r].row.password, read |-> resets]
<1>2. row \in LoginRow /\ row.tenant = r /\ row.password = job[r].password
  BY <1>1 DEF LoginRow, SignupRow, Tenants
<1>3. open \in Opening /\ open.tenant = r /\ open.password = job[r].password /\ open.read = resets
  BY <1>1 DEF Opening, SignupRow, Tenants, AInv, Typed, TablesTyped, SessionsHold, ResetsInOrder
<1>4. accounts' = [accounts EXCEPT ![tx[r].addr] = row] /\ login'[r] = open
  BY DEF CommitSignup, AInv, Typed, LoginTyped
<1>5. SignupsWithout(tx[r].taken)
  BY WithoutWrites DEF CommitSignup
<1> HIDE DEF row, open
<1>6. AccountBecomes(tx[r].addr, r, job[r].password)
  BY <1>1, <1>2, <1>4, AccountWritten DEF AInv
<1>7. LoginBecomes(r, r, job[r].password)
  BY <1>3, <1>4, ScenarioAssumption DEF LoginBecomes
<1> QED BY <1>1, <1>5, <1>6, <1>7

\* A sign-in that goes on has read the login of its address.
LEMMA ReadLoginWrites ==
  ASSUME AInv, NEW r \in Requests, ReadLogin(r)
  PROVE  \/ pc'[r] = "done" /\ login' = login
         \/ /\ job[r].email \in Emails /\ accounts[job[r].email] # None
            /\ pc'[r] = "session"
            /\ LoginBecomes(r, accounts[job[r].email].tenant,
                            accounts[job[r].email].password)
<1> SUFFICES ASSUME ~(pc'[r] = "done" /\ login' = login)
             PROVE  /\ job[r].email \in Emails /\ accounts[job[r].email] # None
                    /\ pc'[r] = "session"
                    /\ LoginBecomes(r, accounts[job[r].email].tenant,
                                    accounts[job[r].email].password)
  OBVIOUS
<1> DEFINE row == accounts[job[r].email]
           open == [tenant |-> row.tenant, password |-> row.password, read |-> resets]
<1>1. job[r].email \in Emails
  BY StepOf, Fields DEF ReadLogin, At, AInv
<1>2. row # None /\ pc'[r] = "session" /\ login'[r] = open
  BY DEF ReadLogin, Goto, AInv, Typed, StepsTyped, LoginTyped
<1>3. row.tenant \in Tenants /\ row.password \in Passwords
  BY <1>1, <1>2, RowsOf DEF AInv
<1>4. /\ open \in Opening /\ open.tenant = row.tenant
      /\ open.password = row.password /\ open.read = resets
  BY <1>3 DEF Opening, AInv, Typed, TablesTyped, SessionsHold, ResetsInOrder
<1> HIDE DEF open
<1>5. LoginBecomes(r, row.tenant, row.password)
  BY <1>2, <1>4, ScenarioAssumption DEF LoginBecomes
<1> QED BY <1>1, <1>2, <1>5

\* A reset writes the password of a login that exists.
LEMMA CommitResetWrites ==
  ASSUME AInv, NEW r \in Requests, CommitReset(r)
  PROVE  /\ job[r].email \in Emails /\ accounts[job[r].email] # None
         /\ AccountBecomes(job[r].email, accounts[job[r].email].tenant, job[r].password)
<1>1. job[r].email \in Emails /\ job[r].password \in Passwords
  BY CommitResetDoes, Fields DEF AInv, Kinds
<1>2. accounts[job[r].email] # None /\ accounts[job[r].email] \in LoginRow
  BY <1>1, CommitResetDoes, RowsOf DEF AInv, RowsHold, Written, Moves
<1> DEFINE row == [accounts[job[r].email] EXCEPT !.password = job[r].password]
<1>3. /\ row \in LoginRow /\ row.tenant = accounts[job[r].email].tenant
      /\ row.password = job[r].password
  BY <1>1, <1>2 DEF LoginRow
<1>4. accounts' = [accounts EXCEPT ![job[r].email] = row]
  BY DEF CommitReset
<1> HIDE DEF row
<1>5. AccountBecomes(job[r].email, row.tenant, row.password)
  BY <1>1, <1>3, <1>4, AccountWritten DEF AInv
<1> QED BY <1>1, <1>2, <1>3, <1>5

\* add_account writes the login of its address and tenant.
LEMMA CommitLoginWrites ==
  ASSUME AInv, NEW r \in Requests, CommitLogin(r)
  PROVE  /\ job[r].email \in Emails
         /\ AccountBecomes(job[r].email, job[r].tenant, job[r].password)
<1>1. job[r].email \in Emails /\ job[r].password \in Passwords /\ job[r].tenant \in Tenants
  BY CommitLoginDoes, Fields DEF AInv, Kinds
<1> DEFINE row == [tenant |-> job[r].tenant, password |-> job[r].password]
<1>2. row \in LoginRow /\ row.tenant = job[r].tenant /\ row.password = job[r].password
  BY <1>1 DEF LoginRow
<1>3. accounts' = [accounts EXCEPT ![job[r].email] = row]
  BY DEF CommitLogin
<1> HIDE DEF row
<1> QED BY <1>1, <1>2, <1>3, AccountWritten DEF AInv

\* delete_tenant leaves the tenant no login, and others theirs.
LEMMA CommitDeleteWrites ==
  ASSUME AInv, NEW r \in Requests, CommitDelete(r)
  PROVE  /\ SignupsWithout(tx[r].taken)
         /\ \A e \in Emails :
              accounts'[e] = IF accounts[e] # None /\ accounts[e].tenant = job[r].tenant
                             THEN None ELSE accounts[e]
<1>1. SignupsWithout(tx[r].taken)
  BY WithoutWrites DEF CommitDelete
<1> QED BY <1>1 DEF CommitDelete, AddressOf

\* Requests keep their kind, and no two sign-ups are given one token.
LEMMA JobsKept == ASSUME AInv, [Next]_vars PROVE Jobs'
<1>1. ASSUME NEW r \in Requests, SignupExists(r) PROVE Jobs'
  BY <1>1, SignupExistsDoes, Parts DEF Moves, Still, Jobs
<1>2. ASSUME NEW r \in Requests, AddSignup(r) PROVE Jobs'
  BY <1>2, AddSignupDoes, Parts DEF Moves, Still, Jobs
<1>3. ASSUME NEW r \in Requests, CheckToken(r) PROVE Jobs'
  BY <1>3, CheckTokenDoes, Parts DEF Moves, Still, Jobs
<1>4. ASSUME NEW r \in Requests, FindAddress(r) PROVE Jobs'
  BY <1>4, FindAddressDoes, Parts DEF Moves, Still, Jobs
<1>5. ASSUME NEW r \in Requests, LockAddress(r) PROVE Jobs'
  BY <1>5, LockAddressDoes, Parts DEF Moves, Still, Jobs
<1>6. ASSUME NEW r \in Requests, TakeToken(r) PROVE Jobs'
  BY <1>6, TakeTokenDoes, Parts DEF Moves, Still, Becomes, FreeToken, Jobs
<1>7. ASSUME NEW r \in Requests, FindAccount(r) PROVE Jobs'
  BY <1>7, FindAccountDoes, Parts DEF Moves, Still, Jobs, SignupsWithout
<1>8. ASSUME NEW r \in Requests, InsertAccount(r) PROVE Jobs'
  BY <1>8, InsertAccountDoes, Parts DEF Moves, Still, FreeAccount, Jobs
<1>9. ASSUME NEW r \in Requests, Sweep(r) PROVE Jobs'
  BY <1>9, SweepDoes, Parts DEF Moves, Still, Becomes, FreeToken, Pending, Jobs
<1>10. ASSUME NEW r \in Requests, CommitSignup(r) PROVE Jobs'
  BY <1>10, CommitSignupDoes, Parts DEF Moves, Still, Jobs, AccountBecomes, LoginBecomes,
     SignupsWithout
<1>11. ASSUME NEW r \in Requests, ReadLogin(r) PROVE Jobs'
  BY <1>11, ReadLoginDoes, Parts DEF Moves, Still, Jobs, LoginBecomes
<1>12. ASSUME NEW r \in Requests, CreateSession(r) PROVE Jobs'
  BY <1>12, CreateSessionDoes, Parts DEF Moves, Still, Jobs
<1>13. ASSUME NEW r \in Requests, UpdatePassword(r) PROVE Jobs'
  BY <1>13, UpdatePasswordDoes, Parts DEF Moves, Still, FreeAccount, Jobs
<1>14. ASSUME NEW r \in Requests, DropSessions(r) PROVE Jobs'
  BY <1>14, DropSessionsDoes, Parts DEF Moves, Still, Becomes, Jobs
<1>15. ASSUME NEW r \in Requests, CommitReset(r) PROVE Jobs'
  BY <1>15, CommitResetDoes, Parts DEF Moves, Still, Jobs, AccountBecomes
<1>16. ASSUME NEW r \in Requests, LockTenant(r) PROVE Jobs'
  BY <1>16, LockTenantDoes, Parts DEF Moves, Still, FreeTenant, AddressOf, Jobs
<1>17. ASSUME NEW r \in Requests, InsertLogin(r) PROVE Jobs'
  BY <1>17, InsertLoginDoes, Parts DEF Moves, Still, FreeAccount, AddressOf, Jobs
<1>18. ASSUME NEW r \in Requests, CommitLogin(r) PROVE Jobs'
  BY <1>18, CommitLoginDoes, Parts DEF Moves, Still, Jobs, AccountBecomes
<1>19. ASSUME NEW r \in Requests, ReadTenant(r) PROVE Jobs'
  BY <1>19, ReadTenantDoes, Parts DEF Moves, Still, Jobs
<1>20. ASSUME NEW r \in Requests, DeleteSignups(r) PROVE Jobs'
  BY <1>20, DeleteSignupsDoes, Parts DEF Moves, Still, Becomes, FreeToken, Pending, Jobs
<1>21. ASSUME NEW r \in Requests, DeleteTenant(r) PROVE Jobs'
  BY <1>21, DeleteTenantDoes, Parts DEF Moves, Still, FreeTenant, FreeAccount, AddressOf, Jobs
<1>22. ASSUME NEW r \in Requests, CommitDelete(r) PROVE Jobs'
  BY <1>22, CommitDeleteDoes, Parts DEF Moves, Still, Jobs, SignupsWithout
<1>23. ASSUME NEW r \in Requests, Crash(r) PROVE Jobs'
  BY <1>23, CrashDoes, Parts DEF Moves, Still, Jobs
<1>24. ASSUME NEW k \in Tokens, Expire(k) PROVE Jobs'
  BY <1>24, Parts, ExpireWrites DEF Expire, Jobs
<1>25. CASE UNCHANGED vars
  BY <1>25, Parts DEF vars, Jobs
<1> QED BY <1>1, <1>2, <1>3, <1>4, <1>5, <1>6, <1>7, <1>8, <1>9, <1>10, <1>11, <1>12, <1>13,
   <1>14, <1>15, <1>16, <1>17, <1>18, <1>19, <1>20, <1>21, <1>22, <1>23, <1>24, <1>25 DEF Next,
   Step, Signup, Verify, Reset, Add, Delete

\* Each request stays on the statements of its own endpoint.
LEMMA StepsTypedKept == ASSUME AInv, [Next]_vars PROVE StepsTyped'
<1>1. ASSUME NEW r \in Requests, SignupExists(r) PROVE StepsTyped'
  BY <1>1, Parts, StepOf, Fields, GoesTo, Ends DEF SignupExists, At, Goto, tables, clock, StepsOf,
     Owned, Kinds, StepsTyped
<1>2. ASSUME NEW r \in Requests, AddSignup(r) PROVE StepsTyped'
  BY <1>2, Parts, StepOf, Fields, GoesTo, Ends DEF AddSignup, At, Goto, tables, clock, StepsOf,
     Owned, Kinds, StepsTyped
<1>3. ASSUME NEW r \in Requests, CheckToken(r) PROVE StepsTyped'
  BY <1>3, Parts, StepOf, Fields, GoesTo, Ends DEF CheckToken, At, Goto, tables, clock, StepsOf,
     Owned, Kinds, StepsTyped
<1>4. ASSUME NEW r \in Requests, FindAddress(r) PROVE StepsTyped'
  BY <1>4, Parts, Fields, GoesTo DEF FindAddress, At, Goto, End, NoTx, StepsOf, Owned, Kinds,
     StepsTyped
<1>5. ASSUME NEW r \in Requests, LockAddress(r) PROVE StepsTyped'
  BY <1>5, Parts, StepOf, Fields, GoesTo, Ends DEF LockAddress, At, Goto, tables, clock, StepsOf,
     Owned, Kinds, StepsTyped
<1>6. ASSUME NEW r \in Requests, TakeToken(r) PROVE StepsTyped'
  BY <1>6, Parts, Fields, GoesTo DEF TakeToken, At, Goto, End, NoTx, StepsOf, Owned, Kinds,
     StepsTyped
<1>7. ASSUME NEW r \in Requests, FindAccount(r) PROVE StepsTyped'
  BY <1>7, Parts, Fields, GoesTo DEF FindAccount, At, Goto, End, NoTx, Without, StepsOf, Owned,
     Kinds, StepsTyped
<1>8. ASSUME NEW r \in Requests, InsertAccount(r) PROVE StepsTyped'
  BY <1>8, Parts, Fields, GoesTo DEF InsertAccount, At, Goto, End, NoTx, StepsOf, Owned, Kinds,
     StepsTyped
<1>9. ASSUME NEW r \in Requests, Sweep(r) PROVE StepsTyped'
  BY <1>9, Parts, StepOf, Fields, GoesTo, Ends DEF Sweep, At, Goto, tables, clock, Pending,
     StepsOf, Owned, Kinds, StepsTyped
<1>10. ASSUME NEW r \in Requests, CommitSignup(r) PROVE StepsTyped'
  BY <1>10, Parts, StepOf, Fields, GoesTo, Ends DEF CommitSignup, At, Goto, tables, clock,
     Without, StepsOf, Owned, Kinds, StepsTyped
<1>11. ASSUME NEW r \in Requests, ReadLogin(r) PROVE StepsTyped'
  BY <1>11, Parts, Fields, GoesTo DEF ReadLogin, At, Goto, StepsOf, Owned, Kinds, StepsTyped
<1>12. ASSUME NEW r \in Requests, CreateSession(r) PROVE StepsTyped'
  BY <1>12, Parts, StepOf, Fields, GoesTo, Ends DEF CreateSession, At, Goto, tables, clock,
     StepsOf, Owned, Kinds, StepsTyped
<1>13. ASSUME NEW r \in Requests, UpdatePassword(r) PROVE StepsTyped'
  BY <1>13, Parts, Fields, GoesTo DEF UpdatePassword, At, Goto, End, NoTx, StepsOf, Owned, Kinds,
     StepsTyped
<1>14. ASSUME NEW r \in Requests, DropSessions(r) PROVE StepsTyped'
  BY <1>14, Parts, StepOf, Fields, GoesTo, Ends DEF DropSessions, At, Goto, tables, clock,
     StepsOf, Owned, Kinds, StepsTyped
<1>15. ASSUME NEW r \in Requests, CommitReset(r) PROVE StepsTyped'
  BY <1>15, Parts, StepOf, Fields, GoesTo, Ends DEF CommitReset, At, Goto, tables, clock, End,
     NoTx, StepsOf, Owned, Kinds, StepsTyped
<1>16. ASSUME NEW r \in Requests, LockTenant(r) PROVE StepsTyped'
  BY <1>16, Parts, Fields, GoesTo DEF LockTenant, At, Goto, End, NoTx, AddressOf, StepsOf, Owned,
     Kinds, StepsTyped
<1>17. ASSUME NEW r \in Requests, InsertLogin(r) PROVE StepsTyped'
  BY <1>17, Parts, Fields, GoesTo DEF InsertLogin, At, Goto, End, NoTx, AddressOf, StepsOf, Owned,
     Kinds, StepsTyped
<1>18. ASSUME NEW r \in Requests, CommitLogin(r) PROVE StepsTyped'
  BY <1>18, Parts, StepOf, Fields, GoesTo, Ends DEF CommitLogin, At, Goto, tables, clock, End,
     NoTx, StepsOf, Owned, Kinds, StepsTyped
<1>19. ASSUME NEW r \in Requests, ReadTenant(r) PROVE StepsTyped'
  BY <1>19, Parts, Fields, GoesTo DEF ReadTenant, At, Goto, End, NoTx, AddressOf, StepsOf, Owned,
     Kinds, StepsTyped
<1>20. ASSUME NEW r \in Requests, DeleteSignups(r) PROVE StepsTyped'
  BY <1>20, Parts, StepOf, Fields, GoesTo, Ends DEF DeleteSignups, At, Goto, tables, clock,
     Pending, StepsOf, Owned, Kinds, StepsTyped
<1>21. ASSUME NEW r \in Requests, DeleteTenant(r) PROVE StepsTyped'
  BY <1>21, Parts, StepOf, Fields, GoesTo, Ends DEF DeleteTenant, At, Goto, tables, clock,
     AddressOf, StepsOf, Owned, Kinds, StepsTyped
<1>22. ASSUME NEW r \in Requests, CommitDelete(r) PROVE StepsTyped'
  BY <1>22, Parts, StepOf, Fields, GoesTo, Ends DEF CommitDelete, At, Goto, tables, clock, End,
     NoTx, Without, AddressOf, StepsOf, Owned, Kinds, StepsTyped
<1>23. ASSUME NEW r \in Requests, Crash(r) PROVE StepsTyped'
  BY <1>23, Parts, StepOf, Fields, GoesTo, Ends DEF Crash, At, Goto, tables, clock, End, NoTx,
     StepsOf, Owned, Kinds, StepsTyped
<1>24. ASSUME NEW k \in Tokens, Expire(k) PROVE StepsTyped'
  BY <1>24, Parts DEF Expire, clock, StepsOf, Owned, Kinds, StepsTyped
<1>25. CASE UNCHANGED vars
  BY <1>25, Parts DEF vars, tables, clock, StepsOf, Owned, Kinds, StepsTyped
<1> QED BY <1>1, <1>2, <1>3, <1>4, <1>5, <1>6, <1>7, <1>8, <1>9, <1>10, <1>11, <1>12, <1>13,
   <1>14, <1>15, <1>16, <1>17, <1>18, <1>19, <1>20, <1>21, <1>22, <1>23, <1>24, <1>25 DEF Next,
   Step, Signup, Verify, Reset, Add, Delete

\* A transaction holds rows, addresses and sessions of the tables.
LEMMA TxTypedKept == ASSUME AInv, [Next]_vars PROVE TxTyped'
<1>1. ASSUME NEW r \in Requests, SignupExists(r) PROVE TxTyped'
  BY <1>1, Parts DEF SignupExists, At, Goto, TxTyped
<1>2. ASSUME NEW r \in Requests, AddSignup(r) PROVE TxTyped'
  BY <1>2, Parts DEF AddSignup, At, Goto, TxTyped
<1>3. ASSUME NEW r \in Requests, CheckToken(r) PROVE TxTyped'
  BY <1>3, Parts DEF CheckToken, At, Goto, TxTyped
<1>4. ASSUME NEW r \in Requests, FindAddress(r) PROVE TxTyped'
<2>1. CASE signups[job[r].token] = None
  BY <1>4, <2>1, Ends DEF FindAddress, AInv, Typed
<2>2. CASE signups[job[r].token] # None
  <3> DEFINE e == signups[job[r].token].email
  <3>1. e \in Emails
    BY <1>4, <2>2, StepOf, Fields, RowsOf DEF FindAddress, At, AInv
  <3>2. tx' = [tx EXCEPT ![r].addr = e]
    BY <1>4, <2>2 DEF FindAddress
  <3> HIDE DEF e
  <3> QED BY <3>1, <3>2, Notes DEF AInv, Typed, TxTyped
<2> QED BY <2>1, <2>2
<1>5. ASSUME NEW r \in Requests, LockAddress(r) PROVE TxTyped'
  BY <1>5, Parts, StepOf, Fields, Ends, Notes DEF LockAddress, At, Goto, tables, clock, TxTyped
<1>6. ASSUME NEW r \in Requests, TakeToken(r) PROVE TxTyped'
  BY <1>6, Parts, StepOf, Fields, Ends, TxOf DEF TakeToken, At, Goto, End, NoTx, TxTyped, TxRow,
     TablesTyped
<1>7. ASSUME NEW r \in Requests, FindAccount(r) PROVE TxTyped'
  BY <1>7, Parts, Ends DEF FindAccount, At, Goto, End, NoTx, Without, TxTyped
<1>8. ASSUME NEW r \in Requests, InsertAccount(r) PROVE TxTyped'
  BY <1>8, Parts, Ends DEF InsertAccount, At, Goto, End, NoTx, TxTyped, TxRow, TablesTyped
<1>9. ASSUME NEW r \in Requests, Sweep(r) PROVE TxTyped'
  BY <1>9, Parts, Fields DEF Sweep, At, Goto, Pending, TxTyped, TxRow, TablesTyped
<1>10. ASSUME NEW r \in Requests, CommitSignup(r) PROVE TxTyped'
  BY <1>10, Parts, StepOf, Fields, Ends, Notes DEF CommitSignup, At, Goto, tables, clock, Without,
     TxTyped
<1>11. ASSUME NEW r \in Requests, ReadLogin(r) PROVE TxTyped'
  BY <1>11, Parts DEF ReadLogin, At, Goto, TxTyped
<1>12. ASSUME NEW r \in Requests, CreateSession(r) PROVE TxTyped'
  BY <1>12, Parts DEF CreateSession, At, Goto, TxTyped
<1>13. ASSUME NEW r \in Requests, UpdatePassword(r) PROVE TxTyped'
  BY <1>13, Parts, StepOf, Fields, Ends, TxOf DEF UpdatePassword, At, Goto, End, NoTx, TxTyped,
     TxRow, TablesTyped
<1>14. ASSUME NEW r \in Requests, DropSessions(r) PROVE TxTyped'
  BY <1>14, Parts, Fields DEF DropSessions, At, Goto, TxTyped, TxRow, TablesTyped
<1>15. ASSUME NEW r \in Requests, CommitReset(r) PROVE TxTyped'
  BY <1>15, Parts, StepOf, Fields, Ends DEF CommitReset, At, Goto, tables, clock, End, NoTx,
     TxTyped
<1>16. ASSUME NEW r \in Requests, LockTenant(r) PROVE TxTyped'
  BY <1>16, Parts, Ends DEF LockTenant, At, Goto, End, NoTx, AddressOf, TxTyped, TxRow,
     TablesTyped
<1>17. ASSUME NEW r \in Requests, InsertLogin(r) PROVE TxTyped'
<2>1. CASE End(r)
  BY <1>17, <2>1, Ends DEF InsertLogin, AInv, Typed
<2>2. CASE tx' = [tx EXCEPT ![r].writes = job[r].email]
  <3>1. job[r].email \in Emails
    BY <1>17, StepOf, Fields DEF InsertLogin, At, AInv
  <3> QED BY <2>2, <3>1, Notes DEF AInv, Typed, TxTyped
<2> QED BY <1>17, <2>1, <2>2 DEF InsertLogin
<1>18. ASSUME NEW r \in Requests, CommitLogin(r) PROVE TxTyped'
  BY <1>18, Parts, StepOf, Fields, Ends DEF CommitLogin, At, Goto, tables, clock, End, NoTx,
     TxTyped
<1>19. ASSUME NEW r \in Requests, ReadTenant(r) PROVE TxTyped'
<2>1. CASE End(r)
  BY <1>19, <2>1, Ends DEF ReadTenant, AInv, Typed
<2>2. CASE ~End(r)
  <3>1. PICK e : /\ tx' = [tx EXCEPT ![r].addr = e]
                 /\ e = IF AddressOf(job[r].tenant) = {} THEN None
                       ELSE CHOOSE x \in AddressOf(job[r].tenant) : TRUE
    BY <1>19, <2>2 DEF ReadTenant
  <3>2. AddressOf(job[r].tenant) \subseteq Emails
    BY DEF AddressOf
  <3>3. e \in Emails \cup {None}
    BY <3>1, <3>2
  <3> QED BY <3>1, <3>3, Notes DEF AInv, Typed, TxTyped
<2> QED BY <2>1, <2>2
<1>20. ASSUME NEW r \in Requests, DeleteSignups(r) PROVE TxTyped'
  BY <1>20, Parts DEF DeleteSignups, At, Goto, Pending, TxTyped, TxRow, TablesTyped
<1>21. ASSUME NEW r \in Requests, DeleteTenant(r) PROVE TxTyped'
<2>1. AddressOf(job[r].tenant) \subseteq Emails /\ job[r].tenant \in Tenants
  BY <1>21, StepOf, Fields DEF DeleteTenant, At, AInv, AddressOf
<2>2. PICK e \in Emails \cup {None} : tx' = [tx EXCEPT ![r].holds = job[r].tenant, ![r].writes = e]
  BY <1>21, <2>1 DEF DeleteTenant
<2> QED BY <2>1, <2>2, Notes DEF AInv, Typed, TxTyped
<1>22. ASSUME NEW r \in Requests, CommitDelete(r) PROVE TxTyped'
  BY <1>22, Parts, StepOf, Fields, Ends DEF CommitDelete, At, Goto, tables, clock, End, NoTx,
     Without, AddressOf, TxTyped
<1>23. ASSUME NEW r \in Requests, Crash(r) PROVE TxTyped'
  BY <1>23, Parts, StepOf, Fields, Ends DEF Crash, At, Goto, tables, clock, End, NoTx, TxTyped
<1>24. ASSUME NEW k \in Tokens, Expire(k) PROVE TxTyped'
  BY <1>24, Parts DEF Expire, TxTyped
<1>25. CASE UNCHANGED vars
  BY <1>25, Parts DEF vars, TxTyped
<1> QED BY <1>1, <1>2, <1>3, <1>4, <1>5, <1>6, <1>7, <1>8, <1>9, <1>10, <1>11, <1>12, <1>13,
   <1>14, <1>15, <1>16, <1>17, <1>18, <1>19, <1>20, <1>21, <1>22, <1>23, <1>24, <1>25 DEF Next,
   Step, Signup, Verify, Reset, Add, Delete

\* Every commit leaves rows of the right shape in the tables.
LEMMA TablesTypedKept == ASSUME AInv, [Next]_vars PROVE TablesTyped'
<1>1. ASSUME NEW r \in Requests, SignupExists(r) PROVE TablesTyped'
  BY <1>1, Parts DEF SignupExists, At, Goto, tables, clock, TablesTyped
<1>2. ASSUME NEW r \in Requests, AddSignup(r) PROVE TablesTyped'
  BY <1>2, Parts, StepOf, Fields DEF AddSignup, At, Goto, clock, TablesTyped, SignupRow, LoginRow
<1>3. ASSUME NEW r \in Requests, CheckToken(r) PROVE TablesTyped'
  BY <1>3, Parts DEF CheckToken, At, Goto, tables, clock, TablesTyped
<1>4. ASSUME NEW r \in Requests, FindAddress(r) PROVE TablesTyped'
  BY <1>4, Parts DEF FindAddress, At, Goto, tables, clock, End, NoTx, TablesTyped
<1>5. ASSUME NEW r \in Requests, LockAddress(r) PROVE TablesTyped'
  BY <1>5, Parts DEF LockAddress, At, Goto, tables, clock, TablesTyped
<1>6. ASSUME NEW r \in Requests, TakeToken(r) PROVE TablesTyped'
  BY <1>6, Parts DEF TakeToken, At, Goto, tables, clock, End, NoTx, TablesTyped
<1>7. ASSUME NEW r \in Requests, FindAccount(r) PROVE TablesTyped'
  BY <1>7, Parts DEF FindAccount, At, Goto, clock, End, NoTx, Without, TablesTyped
<1>8. ASSUME NEW r \in Requests, InsertAccount(r) PROVE TablesTyped'
  BY <1>8, Parts DEF InsertAccount, At, Goto, tables, clock, End, NoTx, TablesTyped
<1>9. ASSUME NEW r \in Requests, Sweep(r) PROVE TablesTyped'
  BY <1>9, Parts DEF Sweep, At, Goto, tables, clock, Pending, TablesTyped
<1>10. ASSUME NEW r \in Requests, CommitSignup(r) PROVE TablesTyped'
  BY <1>10, Parts, Fields DEF CommitSignup, At, Goto, clock, Without, TablesTyped, SignupRow,
     LoginRow, Checked, Owned, Tenants
<1>11. ASSUME NEW r \in Requests, ReadLogin(r) PROVE TablesTyped'
  BY <1>11, Parts DEF ReadLogin, At, Goto, tables, clock, TablesTyped
<1>12. ASSUME NEW r \in Requests, CreateSession(r) PROVE TablesTyped'
<2>1. login[r].tenant \in tenants =>
        [by |-> r, tenant |-> login[r].tenant, password |-> login[r].password,
         read |-> login[r].read, opened |-> drops] \in SessionRow
  BY <1>12, Parts DEF CreateSession, At, TablesTyped, LoginsStand, Opening, SessionRow
<2> QED BY <1>12, <2>1 DEF CreateSession, AInv, Typed, TablesTyped, clock
<1>13. ASSUME NEW r \in Requests, UpdatePassword(r) PROVE TablesTyped'
  BY <1>13, Parts DEF UpdatePassword, At, Goto, tables, clock, End, NoTx, TablesTyped
<1>14. ASSUME NEW r \in Requests, DropSessions(r) PROVE TablesTyped'
  BY <1>14, Parts DEF DropSessions, At, Goto, tables, TablesTyped
<1>15. ASSUME NEW r \in Requests, CommitReset(r) PROVE TablesTyped'
<2>1. job[r].email \in Emails /\ job[r].password \in Passwords
  BY <1>15, Fields, Parts DEF CommitReset, Kinds
<2>2. accounts[job[r].email] \in LoginRow
  BY <1>15, <2>1, RowsOf, Parts DEF CommitReset, At, Written
<2>3. [accounts[job[r].email] EXCEPT !.password = job[r].password] \in LoginRow
  BY <2>1, <2>2 DEF LoginRow
<2>4. accounts' \in [Emails -> LoginRow \cup {None}]
  BY <1>15, <2>1, <2>3 DEF CommitReset, AInv, Typed, TablesTyped
<2> QED BY <1>15, <2>4 DEF CommitReset, AInv, Typed, TablesTyped
<1>16. ASSUME NEW r \in Requests, LockTenant(r) PROVE TablesTyped'
  BY <1>16, Parts DEF LockTenant, At, Goto, tables, clock, End, NoTx, AddressOf, TablesTyped
<1>17. ASSUME NEW r \in Requests, InsertLogin(r) PROVE TablesTyped'
  BY <1>17, Parts DEF InsertLogin, At, Goto, tables, clock, End, NoTx, AddressOf, TablesTyped
<1>18. ASSUME NEW r \in Requests, CommitLogin(r) PROVE TablesTyped'
  BY <1>18, Parts, Fields DEF CommitLogin, At, Goto, clock, End, NoTx, TablesTyped, SignupRow,
     LoginRow
<1>19. ASSUME NEW r \in Requests, ReadTenant(r) PROVE TablesTyped'
  BY <1>19, Parts DEF ReadTenant, At, Goto, tables, clock, End, NoTx, AddressOf, TablesTyped
<1>20. ASSUME NEW r \in Requests, DeleteSignups(r) PROVE TablesTyped'
  BY <1>20, Parts DEF DeleteSignups, At, Goto, tables, clock, Pending, TablesTyped
<1>21. ASSUME NEW r \in Requests, DeleteTenant(r) PROVE TablesTyped'
  BY <1>21, Parts DEF DeleteTenant, At, Goto, tables, clock, AddressOf, TablesTyped
<1>22. ASSUME NEW r \in Requests, CommitDelete(r) PROVE TablesTyped'
  BY <1>22, Parts DEF CommitDelete, At, Goto, clock, End, NoTx, Without, AddressOf, TablesTyped
<1>23. ASSUME NEW r \in Requests, Crash(r) PROVE TablesTyped'
  BY <1>23, Parts DEF Crash, At, Goto, tables, clock, End, NoTx, TablesTyped
<1>24. ASSUME NEW k \in Tokens, Expire(k) PROVE TablesTyped'
<2> DEFINE row == [signups[k] EXCEPT !.live = FALSE]
<2>1. row \in SignupRow
  BY <1>24, RowsOf DEF Expire, AInv, SignupRow
<2>2. signups \in [Tokens -> SignupRow \cup {None}]
  BY DEF AInv, Typed, TablesTyped
<2>3. signups' = [signups EXCEPT ![k] = row]
  BY <1>24, <2>2 DEF Expire
<2> HIDE DEF row
<2>4. signups' \in [Tokens -> SignupRow \cup {None}]
  BY <2>1, <2>2, <2>3
<2> QED BY <1>24, <2>4 DEF Expire, AInv, Typed, TablesTyped, clock
<1>25. CASE UNCHANGED vars
  BY <1>25, Parts DEF vars, tables, clock, TablesTyped
<1> QED BY <1>1, <1>2, <1>3, <1>4, <1>5, <1>6, <1>7, <1>8, <1>9, <1>10, <1>11, <1>12, <1>13,
   <1>14, <1>15, <1>16, <1>17, <1>18, <1>19, <1>20, <1>21, <1>22, <1>23, <1>24, <1>25 DEF Next,
   Step, Signup, Verify, Reset, Add, Delete

\* What a request has read of a login is a login.
LEMMA LoginTypedKept == ASSUME AInv, [Next]_vars PROVE LoginTyped'
<1>1. ASSUME NEW r \in Requests, SignupExists(r) PROVE LoginTyped'
  BY <1>1, Parts DEF SignupExists, At, Goto, LoginTyped
<1>2. ASSUME NEW r \in Requests, AddSignup(r) PROVE LoginTyped'
  BY <1>2, Parts DEF AddSignup, At, Goto, LoginTyped
<1>3. ASSUME NEW r \in Requests, CheckToken(r) PROVE LoginTyped'
  BY <1>3, Parts DEF CheckToken, At, Goto, LoginTyped
<1>4. ASSUME NEW r \in Requests, FindAddress(r) PROVE LoginTyped'
  BY <1>4, Parts DEF FindAddress, At, Goto, End, NoTx, LoginTyped
<1>5. ASSUME NEW r \in Requests, LockAddress(r) PROVE LoginTyped'
  BY <1>5, Parts DEF LockAddress, At, Goto, LoginTyped
<1>6. ASSUME NEW r \in Requests, TakeToken(r) PROVE LoginTyped'
  BY <1>6, Parts DEF TakeToken, At, Goto, End, NoTx, LoginTyped
<1>7. ASSUME NEW r \in Requests, FindAccount(r) PROVE LoginTyped'
  BY <1>7, Parts DEF FindAccount, At, Goto, End, NoTx, Without, LoginTyped
<1>8. ASSUME NEW r \in Requests, InsertAccount(r) PROVE LoginTyped'
  BY <1>8, Parts DEF InsertAccount, At, Goto, End, NoTx, LoginTyped
<1>9. ASSUME NEW r \in Requests, Sweep(r) PROVE LoginTyped'
  BY <1>9, Parts DEF Sweep, At, Goto, Pending, LoginTyped
<1>10. ASSUME NEW r \in Requests, CommitSignup(r) PROVE LoginTyped'
<2>1. [tenant |-> r, password |-> tx[r].row.password, read |-> resets] \in Opening
  <3>1. tx[r].row \in SignupRow
    BY <1>10, Fields, Parts DEF CommitSignup, At, Checked, Owned
  <3>2. resets \subseteq Requests
    BY DEF AInv, Typed, TablesTyped, SessionsHold, ResetsInOrder
  <3> QED BY <3>1, <3>2 DEF SignupRow, Opening, Tenants
<2> QED BY <1>10, <2>1 DEF CommitSignup, AInv, Typed, LoginTyped
<1>11. ASSUME NEW r \in Requests, ReadLogin(r) PROVE LoginTyped'
<2>1. LET row == accounts[job[r].email]
      IN  row # None =>
            [tenant |-> row.tenant, password |-> row.password, read |-> resets] \in Opening
  BY <1>11, StepOf, Fields, RowsOf, Parts DEF ReadLogin, At, TablesTyped, Opening, ResetsInOrder
<2> QED BY <1>11, <2>1 DEF ReadLogin, AInv, Typed, LoginTyped
<1>12. ASSUME NEW r \in Requests, CreateSession(r) PROVE LoginTyped'
  BY <1>12, Parts DEF CreateSession, At, Goto, LoginTyped
<1>13. ASSUME NEW r \in Requests, UpdatePassword(r) PROVE LoginTyped'
  BY <1>13, Parts DEF UpdatePassword, At, Goto, End, NoTx, LoginTyped
<1>14. ASSUME NEW r \in Requests, DropSessions(r) PROVE LoginTyped'
  BY <1>14, Parts DEF DropSessions, At, Goto, LoginTyped
<1>15. ASSUME NEW r \in Requests, CommitReset(r) PROVE LoginTyped'
  BY <1>15, Parts DEF CommitReset, At, Goto, End, NoTx, LoginTyped
<1>16. ASSUME NEW r \in Requests, LockTenant(r) PROVE LoginTyped'
  BY <1>16, Parts DEF LockTenant, At, Goto, End, NoTx, AddressOf, LoginTyped
<1>17. ASSUME NEW r \in Requests, InsertLogin(r) PROVE LoginTyped'
  BY <1>17, Parts DEF InsertLogin, At, Goto, End, NoTx, AddressOf, LoginTyped
<1>18. ASSUME NEW r \in Requests, CommitLogin(r) PROVE LoginTyped'
  BY <1>18, Parts DEF CommitLogin, At, Goto, End, NoTx, LoginTyped
<1>19. ASSUME NEW r \in Requests, ReadTenant(r) PROVE LoginTyped'
  BY <1>19, Parts DEF ReadTenant, At, Goto, End, NoTx, AddressOf, LoginTyped
<1>20. ASSUME NEW r \in Requests, DeleteSignups(r) PROVE LoginTyped'
  BY <1>20, Parts DEF DeleteSignups, At, Goto, Pending, LoginTyped
<1>21. ASSUME NEW r \in Requests, DeleteTenant(r) PROVE LoginTyped'
  BY <1>21, Parts DEF DeleteTenant, At, Goto, AddressOf, LoginTyped
<1>22. ASSUME NEW r \in Requests, CommitDelete(r) PROVE LoginTyped'
  BY <1>22, Parts DEF CommitDelete, At, Goto, End, NoTx, Without, AddressOf, LoginTyped
<1>23. ASSUME NEW r \in Requests, Crash(r) PROVE LoginTyped'
  BY <1>23, Parts DEF Crash, At, Goto, End, NoTx, LoginTyped
<1>24. ASSUME NEW k \in Tokens, Expire(k) PROVE LoginTyped'
  BY <1>24, Parts DEF Expire, LoginTyped
<1>25. CASE UNCHANGED vars
  BY <1>25, Parts DEF vars, LoginTyped
<1> QED BY <1>1, <1>2, <1>3, <1>4, <1>5, <1>6, <1>7, <1>8, <1>9, <1>10, <1>11, <1>12, <1>13,
   <1>14, <1>15, <1>16, <1>17, <1>18, <1>19, <1>20, <1>21, <1>22, <1>23, <1>24, <1>25 DEF Next,
   Step, Signup, Verify, Reset, Add, Delete

\* Nobody verifies a token before AddSignup has stored and mailed it.
LEMMA UnsentKept == ASSUME AInv, [Next]_vars PROVE Unsent'
<1>1. ASSUME NEW r \in Requests, SignupExists(r) PROVE Unsent'
  BY <1>1, SignupExistsDoes, Parts DEF Moves, Still, Becomes, Same, tables, Unsent, Jobs
<1>2. ASSUME NEW r \in Requests, AddSignup(r) PROVE Unsent'
  BY <1>2, AddSignupDoes, Parts, StepOf, AddSignupWrites DEF Moves, Still, Becomes, Same, Unsent,
     Jobs
<1>3. ASSUME NEW r \in Requests, CheckToken(r) PROVE Unsent'
  BY <1>3, CheckTokenDoes, Parts DEF Moves, Still, Becomes, Same, tables, Unsent, Jobs
<1>4. ASSUME NEW r \in Requests, FindAddress(r) PROVE Unsent'
  BY <1>4, FindAddressDoes, Parts DEF Moves, Still, Becomes, Ended, tables, Unsent, Jobs
<1>5. ASSUME NEW r \in Requests, LockAddress(r) PROVE Unsent'
  BY <1>5, LockAddressDoes, Parts DEF Moves, Still, Becomes, Same, tables, Unsent, Jobs
<1>6. ASSUME NEW r \in Requests, TakeToken(r) PROVE Unsent'
  BY <1>6, TakeTokenDoes, Parts DEF Moves, Still, Becomes, Ended, tables, FreeToken, Unsent, Jobs
<1>7. ASSUME NEW r \in Requests, FindAccount(r) PROVE Unsent'
  BY <1>7, FindAccountDoes, Parts, WithoutWrites DEF Moves, Still, Becomes, Same, Ended, Unsent,
     Jobs, SignupsWithout
<1>8. ASSUME NEW r \in Requests, InsertAccount(r) PROVE Unsent'
  BY <1>8, InsertAccountDoes, Parts DEF Moves, Still, Becomes, Ended, tables, FreeAccount, Unsent,
     Jobs
<1>9. ASSUME NEW r \in Requests, Sweep(r) PROVE Unsent'
  BY <1>9, SweepDoes, Parts DEF Moves, Still, Becomes, tables, FreeToken, Pending, Unsent, Jobs
<1>10. ASSUME NEW r \in Requests, CommitSignup(r) PROVE Unsent'
  BY <1>10, CommitSignupDoes, Parts, CommitSignupWrites DEF Moves, Still, Becomes, Unsent, Jobs,
     AccountBecomes, LoginBecomes, SignupsWithout
<1>11. ASSUME NEW r \in Requests, ReadLogin(r) PROVE Unsent'
  BY <1>11, ReadLoginDoes, Parts, ReadLoginWrites DEF Moves, Still, Becomes, Same, tables, Unsent,
     Jobs, LoginBecomes
<1>12. ASSUME NEW r \in Requests, CreateSession(r) PROVE Unsent'
  BY <1>12, CreateSessionDoes, Parts DEF Moves, Still, Becomes, Same, Unsent, Jobs
<1>13. ASSUME NEW r \in Requests, UpdatePassword(r) PROVE Unsent'
  BY <1>13, UpdatePasswordDoes, Parts DEF Moves, Still, Becomes, Ended, tables, FreeAccount,
     Unsent, Jobs
<1>14. ASSUME NEW r \in Requests, DropSessions(r) PROVE Unsent'
  BY <1>14, DropSessionsDoes, Parts DEF Moves, Still, Becomes, tables, Unsent, Jobs
<1>15. ASSUME NEW r \in Requests, CommitReset(r) PROVE Unsent'
  BY <1>15, CommitResetDoes, Parts DEF Moves, Still, Becomes, Ended, Unsent, Jobs, AccountBecomes
<1>16. ASSUME NEW r \in Requests, LockTenant(r) PROVE Unsent'
  BY <1>16, LockTenantDoes, Parts DEF Moves, Still, Becomes, Ended, tables, FreeTenant, AddressOf,
     Unsent, Jobs
<1>17. ASSUME NEW r \in Requests, InsertLogin(r) PROVE Unsent'
  BY <1>17, InsertLoginDoes, Parts DEF Moves, Still, Becomes, Ended, tables, FreeAccount,
     AddressOf, Unsent, Jobs
<1>18. ASSUME NEW r \in Requests, CommitLogin(r) PROVE Unsent'
  BY <1>18, CommitLoginDoes, Parts DEF Moves, Still, Becomes, Ended, Unsent, Jobs, AccountBecomes
<1>19. ASSUME NEW r \in Requests, ReadTenant(r) PROVE Unsent'
  BY <1>19, ReadTenantDoes, Parts DEF Moves, Still, Becomes, Ended, tables, Unsent, Jobs
<1>20. ASSUME NEW r \in Requests, DeleteSignups(r) PROVE Unsent'
  BY <1>20, DeleteSignupsDoes, Parts DEF Moves, Still, Becomes, tables, FreeToken, Pending,
     Unsent, Jobs
<1>21. ASSUME NEW r \in Requests, DeleteTenant(r) PROVE Unsent'
  BY <1>21, DeleteTenantDoes, Parts DEF Moves, Still, Becomes, tables, FreeTenant, FreeAccount,
     AddressOf, Unsent, Jobs
<1>22. ASSUME NEW r \in Requests, CommitDelete(r) PROVE Unsent'
  BY <1>22, CommitDeleteDoes, Parts, CommitDeleteWrites DEF Moves, Still, Becomes, Ended, Unsent,
     Jobs, SignupsWithout
<1>23. ASSUME NEW r \in Requests, Crash(r) PROVE Unsent'
  BY <1>23, CrashDoes, Parts DEF Moves, Still, Becomes, Ended, tables, Unsent, Jobs
<1>24. ASSUME NEW k \in Tokens, Expire(k) PROVE Unsent'
  BY <1>24, Parts, ExpireWrites DEF Expire, Unsent, Jobs
<1>25. CASE UNCHANGED vars
  BY <1>25, Parts DEF vars, tables, Unsent, Jobs
<1> QED BY <1>1, <1>2, <1>3, <1>4, <1>5, <1>6, <1>7, <1>8, <1>9, <1>10, <1>11, <1>12, <1>13,
   <1>14, <1>15, <1>16, <1>17, <1>18, <1>19, <1>20, <1>21, <1>22, <1>23, <1>24, <1>25 DEF Next,
   Step, Signup, Verify, Reset, Add, Delete

\* Two transactions never delete one signup row (FreeToken), and none commits
\* the deletion of a row another has deleted.
LEMMA TakenIsThereKept == ASSUME AInv, [Next]_vars PROVE TakenIsThere'
<1>1. ASSUME NEW r \in Requests, SignupExists(r) PROVE TakenIsThere'
  BY <1>1, SignupExistsDoes, Parts DEF Moves, Still, Becomes, Same, tables, TakenIsThere, Unsent
<1>2. ASSUME NEW r \in Requests, AddSignup(r) PROVE TakenIsThere'
  BY <1>2, AddSignupDoes, Parts, TxOf, AddSignupWrites DEF Moves, Still, Becomes, Same,
     TakenIsThere, Unsent
<1>3. ASSUME NEW r \in Requests, CheckToken(r) PROVE TakenIsThere'
  BY <1>3, CheckTokenDoes, Parts DEF Moves, Still, Becomes, Same, tables, TakenIsThere, Unsent
<1>4. ASSUME NEW r \in Requests, FindAddress(r) PROVE TakenIsThere'
  BY <1>4, FindAddressDoes, Parts DEF Moves, Still, Becomes, Ended, tables, TakenIsThere, Unsent
<1>5. ASSUME NEW r \in Requests, LockAddress(r) PROVE TakenIsThere'
  BY <1>5, LockAddressDoes, Parts DEF Moves, Still, Becomes, Same, tables, TakenIsThere, Unsent
<1>6. ASSUME NEW r \in Requests, TakeToken(r) PROVE TakenIsThere'
  BY <1>6, TakeTokenDoes, Parts DEF Moves, Still, Becomes, Ended, tables, FreeToken, TakenIsThere,
     Unsent
<1>7. ASSUME NEW r \in Requests, FindAccount(r) PROVE TakenIsThere'
  BY <1>7, FindAccountDoes, Parts, TxOf, WithoutWrites DEF Moves, Still, Becomes, Same, Ended,
     TakenIsThere, Unsent, SignupsWithout
<1>8. ASSUME NEW r \in Requests, InsertAccount(r) PROVE TakenIsThere'
  BY <1>8, InsertAccountDoes, Parts DEF Moves, Still, Becomes, Ended, tables, FreeAccount,
     TakenIsThere, Unsent
<1>9. ASSUME NEW r \in Requests, Sweep(r) PROVE TakenIsThere'
  BY <1>9, SweepDoes, Parts DEF Moves, Still, Becomes, tables, FreeToken, Pending, TakenIsThere,
     Unsent
<1>10. ASSUME NEW r \in Requests, CommitSignup(r) PROVE TakenIsThere'
  BY <1>10, CommitSignupDoes, Parts, TxOf, CommitSignupWrites DEF Moves, Still, Becomes,
     TakenIsThere, Unsent, AccountBecomes, LoginBecomes, SignupsWithout
<1>11. ASSUME NEW r \in Requests, ReadLogin(r) PROVE TakenIsThere'
  BY <1>11, ReadLoginDoes, Parts DEF Moves, Still, Becomes, Same, tables, TakenIsThere, Unsent,
     LoginBecomes
<1>12. ASSUME NEW r \in Requests, CreateSession(r) PROVE TakenIsThere'
  BY <1>12, CreateSessionDoes, Parts DEF Moves, Still, Becomes, Same, TakenIsThere, Unsent
<1>13. ASSUME NEW r \in Requests, UpdatePassword(r) PROVE TakenIsThere'
  BY <1>13, UpdatePasswordDoes, Parts DEF Moves, Still, Becomes, Ended, tables, FreeAccount,
     TakenIsThere, Unsent
<1>14. ASSUME NEW r \in Requests, DropSessions(r) PROVE TakenIsThere'
  BY <1>14, DropSessionsDoes, Parts DEF Moves, Still, Becomes, tables, TakenIsThere, Unsent
<1>15. ASSUME NEW r \in Requests, CommitReset(r) PROVE TakenIsThere'
  BY <1>15, CommitResetDoes, Parts DEF Moves, Still, Becomes, Ended, TakenIsThere, Unsent,
     AccountBecomes
<1>16. ASSUME NEW r \in Requests, LockTenant(r) PROVE TakenIsThere'
  BY <1>16, LockTenantDoes, Parts DEF Moves, Still, Becomes, Ended, tables, FreeTenant, AddressOf,
     TakenIsThere, Unsent
<1>17. ASSUME NEW r \in Requests, InsertLogin(r) PROVE TakenIsThere'
  BY <1>17, InsertLoginDoes, Parts DEF Moves, Still, Becomes, Ended, tables, FreeAccount,
     AddressOf, TakenIsThere, Unsent
<1>18. ASSUME NEW r \in Requests, CommitLogin(r) PROVE TakenIsThere'
  BY <1>18, CommitLoginDoes, Parts DEF Moves, Still, Becomes, Ended, TakenIsThere, Unsent,
     AccountBecomes
<1>19. ASSUME NEW r \in Requests, ReadTenant(r) PROVE TakenIsThere'
  BY <1>19, ReadTenantDoes, Parts DEF Moves, Still, Becomes, Ended, tables, TakenIsThere, Unsent
<1>20. ASSUME NEW r \in Requests, DeleteSignups(r) PROVE TakenIsThere'
  BY <1>20, DeleteSignupsDoes, Parts DEF Moves, Still, Becomes, tables, FreeToken, Pending,
     TakenIsThere, Unsent
<1>21. ASSUME NEW r \in Requests, DeleteTenant(r) PROVE TakenIsThere'
  BY <1>21, DeleteTenantDoes, Parts DEF Moves, Still, Becomes, tables, FreeTenant, FreeAccount,
     AddressOf, TakenIsThere, Unsent
<1>22. ASSUME NEW r \in Requests, CommitDelete(r) PROVE TakenIsThere'
  BY <1>22, CommitDeleteDoes, Parts, TxOf, CommitDeleteWrites DEF Moves, Still, Becomes, Ended,
     TakenIsThere, Unsent, SignupsWithout
<1>23. ASSUME NEW r \in Requests, Crash(r) PROVE TakenIsThere'
  BY <1>23, CrashDoes, Parts DEF Moves, Still, Becomes, Ended, tables, TakenIsThere, Unsent
<1>24. ASSUME NEW k \in Tokens, Expire(k) PROVE TakenIsThere'
  BY <1>24, Parts, StepOf, Fields, TxOf, ExpireWrites DEF Expire, tables, clock, TakenIsThere,
     Unsent
<1>25. CASE UNCHANGED vars
  BY <1>25, Parts DEF vars, tables, TakenIsThere, Unsent
<1> QED BY <1>1, <1>2, <1>3, <1>4, <1>5, <1>6, <1>7, <1>8, <1>9, <1>10, <1>11, <1>12, <1>13,
   <1>14, <1>15, <1>16, <1>17, <1>18, <1>19, <1>20, <1>21, <1>22, <1>23, <1>24, <1>25 DEF Next,
   Step, Signup, Verify, Reset, Add, Delete

\* A verification carries the password of the row its token named, and once
\* it has a login that row is gone for good.
LEMMA CheckedKept == ASSUME AInv, [Next]_vars PROVE Checked'
<1>1. ASSUME NEW r \in Requests, SignupExists(r) PROVE Checked'
  BY <1>1, SignupExistsDoes, Parts DEF Moves, Still, Becomes, Same, tables, Checked, Unsent, Owned
<1>2. ASSUME NEW r \in Requests, AddSignup(r) PROVE Checked'
  BY <1>2, AddSignupDoes, Parts, AddSignupWrites DEF Moves, Still, Becomes, Same, Checked, Unsent,
     Owned
<1>3. ASSUME NEW r \in Requests, CheckToken(r) PROVE Checked'
  BY <1>3, CheckTokenDoes, Parts DEF Moves, Still, Becomes, Same, tables, Checked, Unsent, Owned
<1>4. ASSUME NEW r \in Requests, FindAddress(r) PROVE Checked'
  BY <1>4, FindAddressDoes, Parts, RowsOf DEF Moves, Still, Becomes, Ended, tables, Checked,
     Unsent, Owned
<1>5. ASSUME NEW r \in Requests, LockAddress(r) PROVE Checked'
  BY <1>5, LockAddressDoes, Parts DEF Moves, Still, Becomes, Same, tables, Checked, Unsent, Owned
<1>6. ASSUME NEW r \in Requests, TakeToken(r) PROVE Checked'
  BY <1>6, TakeTokenDoes, Parts, RowsOf DEF Moves, Still, Becomes, Ended, tables, FreeToken,
     Checked, Unsent, Owned
<1>7. ASSUME NEW r \in Requests, FindAccount(r) PROVE Checked'
  BY <1>7, FindAccountDoes, Parts, WithoutWrites DEF Moves, Still, Becomes, Same, Ended, Checked,
     Unsent, Owned, SignupsWithout
<1>8. ASSUME NEW r \in Requests, InsertAccount(r) PROVE Checked'
  BY <1>8, InsertAccountDoes, Parts DEF Moves, Still, Becomes, Ended, tables, FreeAccount,
     Checked, Unsent, Owned
<1>9. ASSUME NEW r \in Requests, Sweep(r) PROVE Checked'
  BY <1>9, SweepDoes, Parts DEF Moves, Still, Becomes, tables, FreeToken, Pending, Checked,
     Unsent, Owned
<1>10. ASSUME NEW r \in Requests, CommitSignup(r) PROVE Checked'
  BY <1>10, CommitSignupDoes, Parts, CommitSignupWrites DEF Moves, Still, Becomes, Checked,
     Unsent, Owned, AccountBecomes, LoginBecomes, SignupsWithout
<1>11. ASSUME NEW r \in Requests, ReadLogin(r) PROVE Checked'
  BY <1>11, ReadLoginDoes, Parts, StepOf DEF Moves, Still, Becomes, Same, tables, Checked, Unsent,
     Owned, LoginBecomes
<1>12. ASSUME NEW r \in Requests, CreateSession(r) PROVE Checked'
  BY <1>12, CreateSessionDoes, Parts DEF Moves, Still, Becomes, Same, Checked, Unsent, Owned
<1>13. ASSUME NEW r \in Requests, UpdatePassword(r) PROVE Checked'
  BY <1>13, UpdatePasswordDoes, Parts DEF Moves, Still, Becomes, Ended, tables, FreeAccount,
     Checked, Unsent, Owned
<1>14. ASSUME NEW r \in Requests, DropSessions(r) PROVE Checked'
  BY <1>14, DropSessionsDoes, Parts, StepOf DEF Moves, Still, Becomes, tables, Checked, Unsent,
     Owned
<1>15. ASSUME NEW r \in Requests, CommitReset(r) PROVE Checked'
  BY <1>15, CommitResetDoes, Parts DEF Moves, Still, Becomes, Ended, Checked, Unsent, Owned,
     AccountBecomes
<1>16. ASSUME NEW r \in Requests, LockTenant(r) PROVE Checked'
  BY <1>16, LockTenantDoes, Parts DEF Moves, Still, Becomes, Ended, tables, FreeTenant, AddressOf,
     Checked, Unsent, Owned
<1>17. ASSUME NEW r \in Requests, InsertLogin(r) PROVE Checked'
  BY <1>17, InsertLoginDoes, Parts, StepOf DEF Moves, Still, Becomes, Ended, tables, FreeAccount,
     AddressOf, Checked, Unsent, Owned
<1>18. ASSUME NEW r \in Requests, CommitLogin(r) PROVE Checked'
  BY <1>18, CommitLoginDoes, Parts DEF Moves, Still, Becomes, Ended, Checked, Unsent, Owned,
     AccountBecomes
<1>19. ASSUME NEW r \in Requests, ReadTenant(r) PROVE Checked'
  BY <1>19, ReadTenantDoes, Parts DEF Moves, Still, Becomes, Ended, tables, Checked, Unsent, Owned
<1>20. ASSUME NEW r \in Requests, DeleteSignups(r) PROVE Checked'
  BY <1>20, DeleteSignupsDoes, Parts DEF Moves, Still, Becomes, tables, FreeToken, Pending,
     Checked, Unsent, Owned
<1>21. ASSUME NEW r \in Requests, DeleteTenant(r) PROVE Checked'
  BY <1>21, DeleteTenantDoes, Parts, StepOf DEF Moves, Still, Becomes, tables, FreeTenant,
     FreeAccount, AddressOf, Checked, Unsent, Owned
<1>22. ASSUME NEW r \in Requests, CommitDelete(r) PROVE Checked'
  BY <1>22, CommitDeleteDoes, Parts, CommitDeleteWrites DEF Moves, Still, Becomes, Ended, Checked,
     Unsent, Owned, SignupsWithout
<1>23. ASSUME NEW r \in Requests, Crash(r) PROVE Checked'
  BY <1>23, CrashDoes, Parts DEF Moves, Still, Becomes, Ended, tables, Checked, Unsent, Owned
<1>24. ASSUME NEW k \in Tokens, Expire(k) PROVE Checked'
  BY <1>24, Parts, ExpireWrites DEF Expire, Checked, Unsent, Owned
<1>25. CASE UNCHANGED vars
  BY <1>25, Parts DEF vars, tables, Checked, Unsent, Owned
<1> QED BY <1>1, <1>2, <1>3, <1>4, <1>5, <1>6, <1>7, <1>8, <1>9, <1>10, <1>11, <1>12, <1>13,
   <1>14, <1>15, <1>16, <1>17, <1>18, <1>19, <1>20, <1>21, <1>22, <1>23, <1>24, <1>25 DEF Next,
   Step, Signup, Verify, Reset, Add, Delete

\* The transaction that takes the token is the only one to find its row.
LEMMA OneEachKept == ASSUME AInv, [Next]_vars PROVE OneEach'
<1>1. ASSUME NEW r \in Requests, SignupExists(r) PROVE OneEach'
  BY <1>1, SignupExistsDoes, Parts DEF Moves, Still, OneEach, Checked, TakenIsThere, Owned
<1>2. ASSUME NEW r \in Requests, AddSignup(r) PROVE OneEach'
  BY <1>2, AddSignupDoes, Parts DEF Moves, Still, OneEach, Checked, TakenIsThere, Owned
<1>3. ASSUME NEW r \in Requests, CheckToken(r) PROVE OneEach'
  BY <1>3, CheckTokenDoes, Parts DEF Moves, Still, OneEach, Checked, TakenIsThere, Owned
<1>4. ASSUME NEW r \in Requests, FindAddress(r) PROVE OneEach'
  BY <1>4, FindAddressDoes, Parts DEF Moves, Still, OneEach, Checked, TakenIsThere, Owned
<1>5. ASSUME NEW r \in Requests, LockAddress(r) PROVE OneEach'
  BY <1>5, LockAddressDoes, Parts DEF Moves, Still, OneEach, Checked, TakenIsThere, Owned
<1>6. ASSUME NEW r \in Requests, TakeToken(r) PROVE OneEach'
  BY <1>6, TakeTokenDoes, Parts DEF Moves, Still, Becomes, FreeToken, OneEach, Checked,
     TakenIsThere, Owned
<1>7. ASSUME NEW r \in Requests, FindAccount(r) PROVE OneEach'
  BY <1>7, FindAccountDoes, Parts DEF Moves, Still, OneEach, Checked, TakenIsThere, Owned,
     SignupsWithout
<1>8. ASSUME NEW r \in Requests, InsertAccount(r) PROVE OneEach'
  BY <1>8, InsertAccountDoes, Parts DEF Moves, Still, FreeAccount, OneEach, Checked, TakenIsThere,
     Owned
<1>9. ASSUME NEW r \in Requests, Sweep(r) PROVE OneEach'
  BY <1>9, SweepDoes, Parts DEF Moves, Still, Becomes, FreeToken, Pending, OneEach, Checked,
     TakenIsThere, Owned
<1>10. ASSUME NEW r \in Requests, CommitSignup(r) PROVE OneEach'
  BY <1>10, CommitSignupDoes, Parts, Fields DEF Moves, Still, OneEach, Checked, TakenIsThere,
     Owned, AccountBecomes, LoginBecomes, SignupsWithout
<1>11. ASSUME NEW r \in Requests, ReadLogin(r) PROVE OneEach'
  BY <1>11, ReadLoginDoes, Parts, StepOf DEF Moves, Still, OneEach, Checked, TakenIsThere, Owned,
     LoginBecomes
<1>12. ASSUME NEW r \in Requests, CreateSession(r) PROVE OneEach'
  BY <1>12, CreateSessionDoes, Parts DEF Moves, Still, OneEach, Checked, TakenIsThere, Owned
<1>13. ASSUME NEW r \in Requests, UpdatePassword(r) PROVE OneEach'
  BY <1>13, UpdatePasswordDoes, Parts DEF Moves, Still, FreeAccount, OneEach, Checked,
     TakenIsThere, Owned
<1>14. ASSUME NEW r \in Requests, DropSessions(r) PROVE OneEach'
  BY <1>14, DropSessionsDoes, Parts DEF Moves, Still, Becomes, OneEach, Checked, TakenIsThere,
     Owned
<1>15. ASSUME NEW r \in Requests, CommitReset(r) PROVE OneEach'
  BY <1>15, CommitResetDoes, Parts DEF Moves, Still, OneEach, Checked, TakenIsThere, Owned,
     AccountBecomes
<1>16. ASSUME NEW r \in Requests, LockTenant(r) PROVE OneEach'
  BY <1>16, LockTenantDoes, Parts DEF Moves, Still, FreeTenant, AddressOf, OneEach, Checked,
     TakenIsThere, Owned
<1>17. ASSUME NEW r \in Requests, InsertLogin(r) PROVE OneEach'
  BY <1>17, InsertLoginDoes, Parts DEF Moves, Still, FreeAccount, AddressOf, OneEach, Checked,
     TakenIsThere, Owned
<1>18. ASSUME NEW r \in Requests, CommitLogin(r) PROVE OneEach'
  BY <1>18, CommitLoginDoes, Parts DEF Moves, Still, OneEach, Checked, TakenIsThere, Owned,
     AccountBecomes
<1>19. ASSUME NEW r \in Requests, ReadTenant(r) PROVE OneEach'
  BY <1>19, ReadTenantDoes, Parts DEF Moves, Still, OneEach, Checked, TakenIsThere, Owned
<1>20. ASSUME NEW r \in Requests, DeleteSignups(r) PROVE OneEach'
  BY <1>20, DeleteSignupsDoes, Parts DEF Moves, Still, Becomes, FreeToken, Pending, OneEach,
     Checked, TakenIsThere, Owned
<1>21. ASSUME NEW r \in Requests, DeleteTenant(r) PROVE OneEach'
  BY <1>21, DeleteTenantDoes, Parts DEF Moves, Still, FreeTenant, FreeAccount, AddressOf, OneEach,
     Checked, TakenIsThere, Owned
<1>22. ASSUME NEW r \in Requests, CommitDelete(r) PROVE OneEach'
  BY <1>22, CommitDeleteDoes, Parts DEF Moves, Still, OneEach, Checked, TakenIsThere, Owned,
     SignupsWithout
<1>23. ASSUME NEW r \in Requests, Crash(r) PROVE OneEach'
  BY <1>23, CrashDoes, Parts DEF Moves, Still, OneEach, Checked, TakenIsThere, Owned
<1>24. ASSUME NEW k \in Tokens, Expire(k) PROVE OneEach'
  BY <1>24, Parts, ExpireWrites DEF Expire, OneEach, Checked, TakenIsThere, Owned
<1>25. CASE UNCHANGED vars
  BY <1>25, Parts DEF vars, OneEach, Checked, TakenIsThere, Owned
<1> QED BY <1>1, <1>2, <1>3, <1>4, <1>5, <1>6, <1>7, <1>8, <1>9, <1>10, <1>11, <1>12, <1>13,
   <1>14, <1>15, <1>16, <1>17, <1>18, <1>19, <1>20, <1>21, <1>22, <1>23, <1>24, <1>25 DEF Next,
   Step, Signup, Verify, Reset, Add, Delete

\* A row lock has one holder, of an account as of a tenant.
LEMMA ExclusiveKept == ASSUME AInv, [Next]_vars PROVE Exclusive'
<1>1. ASSUME NEW r \in Requests, SignupExists(r) PROVE Exclusive'
  BY <1>1, SignupExistsDoes, Parts DEF Moves, Still, Becomes, Same, Exclusive, Written, Held
<1>2. ASSUME NEW r \in Requests, AddSignup(r) PROVE Exclusive'
  BY <1>2, AddSignupDoes, Parts DEF Moves, Still, Becomes, Same, Exclusive, Written, Held
<1>3. ASSUME NEW r \in Requests, CheckToken(r) PROVE Exclusive'
  BY <1>3, CheckTokenDoes, Parts DEF Moves, Still, Becomes, Same, Exclusive, Written, Held
<1>4. ASSUME NEW r \in Requests, FindAddress(r) PROVE Exclusive'
  BY <1>4, FindAddressDoes, Parts DEF Moves, Still, Becomes, Ended, Exclusive, Written, Held
<1>5. ASSUME NEW r \in Requests, LockAddress(r) PROVE Exclusive'
  BY <1>5, LockAddressDoes, Parts DEF Moves, Still, Becomes, Same, Exclusive, Written, Held
<1>6. ASSUME NEW r \in Requests, TakeToken(r) PROVE Exclusive'
  BY <1>6, TakeTokenDoes, Parts DEF Moves, Still, Becomes, Ended, FreeToken, Exclusive, Written,
     Held
<1>7. ASSUME NEW r \in Requests, FindAccount(r) PROVE Exclusive'
  BY <1>7, FindAccountDoes, Parts DEF Moves, Still, Becomes, Same, Ended, Exclusive, Written,
     Held, SignupsWithout
<1>8. ASSUME NEW r \in Requests, InsertAccount(r) PROVE Exclusive'
  BY <1>8, InsertAccountDoes, Parts DEF Moves, Still, Becomes, Ended, FreeAccount, Exclusive,
     Written, Held
<1>9. ASSUME NEW r \in Requests, Sweep(r) PROVE Exclusive'
  BY <1>9, SweepDoes, Parts DEF Moves, Still, Becomes, FreeToken, Pending, Exclusive, Written,
     Held
<1>10. ASSUME NEW r \in Requests, CommitSignup(r) PROVE Exclusive'
  BY <1>10, CommitSignupDoes, Parts DEF Moves, Still, Becomes, Exclusive, Written, Held,
     AccountBecomes, LoginBecomes, SignupsWithout
<1>11. ASSUME NEW r \in Requests, ReadLogin(r) PROVE Exclusive'
  BY <1>11, ReadLoginDoes, Parts DEF Moves, Still, Becomes, Same, Exclusive, Written, Held,
     LoginBecomes
<1>12. ASSUME NEW r \in Requests, CreateSession(r) PROVE Exclusive'
  BY <1>12, CreateSessionDoes, Parts DEF Moves, Still, Becomes, Same, Exclusive, Written, Held
<1>13. ASSUME NEW r \in Requests, UpdatePassword(r) PROVE Exclusive'
  BY <1>13, UpdatePasswordDoes, Parts DEF Moves, Still, Becomes, Ended, FreeAccount, Exclusive,
     Written, Held
<1>14. ASSUME NEW r \in Requests, DropSessions(r) PROVE Exclusive'
  BY <1>14, DropSessionsDoes, Parts DEF Moves, Still, Becomes, Exclusive, Written, Held
<1>15. ASSUME NEW r \in Requests, CommitReset(r) PROVE Exclusive'
  BY <1>15, CommitResetDoes, Parts DEF Moves, Still, Becomes, Ended, Exclusive, Written, Held,
     AccountBecomes
<1>16. ASSUME NEW r \in Requests, LockTenant(r) PROVE Exclusive'
  BY <1>16, LockTenantDoes, Parts DEF Moves, Still, Becomes, Ended, FreeTenant, AddressOf,
     Exclusive, Written, Held
<1>17. ASSUME NEW r \in Requests, InsertLogin(r) PROVE Exclusive'
  BY <1>17, InsertLoginDoes, Parts DEF Moves, Still, Becomes, Ended, FreeAccount, AddressOf,
     Exclusive, Written, Held
<1>18. ASSUME NEW r \in Requests, CommitLogin(r) PROVE Exclusive'
  BY <1>18, CommitLoginDoes, Parts DEF Moves, Still, Becomes, Ended, Exclusive, Written, Held,
     AccountBecomes
<1>19. ASSUME NEW r \in Requests, ReadTenant(r) PROVE Exclusive'
  BY <1>19, ReadTenantDoes, Parts DEF Moves, Still, Becomes, Ended, Exclusive, Written, Held
<1>20. ASSUME NEW r \in Requests, DeleteSignups(r) PROVE Exclusive'
  BY <1>20, DeleteSignupsDoes, Parts DEF Moves, Still, Becomes, FreeToken, Pending, Exclusive,
     Written, Held
<1>21. ASSUME NEW r \in Requests, DeleteTenant(r) PROVE Exclusive'
  BY <1>21, DeleteTenantDoes, Parts DEF Moves, Still, Becomes, FreeTenant, FreeAccount, AddressOf,
     Exclusive, Written, Held
<1>22. ASSUME NEW r \in Requests, CommitDelete(r) PROVE Exclusive'
  BY <1>22, CommitDeleteDoes, Parts DEF Moves, Still, Becomes, Ended, Exclusive, Written, Held,
     SignupsWithout
<1>23. ASSUME NEW r \in Requests, Crash(r) PROVE Exclusive'
  BY <1>23, CrashDoes, Parts DEF Moves, Still, Becomes, Ended, Exclusive, Written, Held
<1>24. ASSUME NEW k \in Tokens, Expire(k) PROVE Exclusive'
  BY <1>24, Parts, ExpireWrites DEF Expire, Exclusive, Written, Held
<1>25. CASE UNCHANGED vars
  BY <1>25, Parts DEF vars, Exclusive, Written, Held
<1> QED BY <1>1, <1>2, <1>3, <1>4, <1>5, <1>6, <1>7, <1>8, <1>9, <1>10, <1>11, <1>12, <1>13,
   <1>14, <1>15, <1>16, <1>17, <1>18, <1>19, <1>20, <1>21, <1>22, <1>23, <1>24, <1>25 DEF Next,
   Step, Signup, Verify, Reset, Add, Delete

\* An account stays as its writer found it until the writer commits.
LEMMA WrittenKept == ASSUME AInv, [Next]_vars PROVE Written'
<1>1. ASSUME NEW r \in Requests, SignupExists(r) PROVE Written'
  BY <1>1, SignupExistsDoes, Parts DEF Moves, Still, Becomes, Same, tables, Written, Exclusive,
     Held, Checked, Owned
<1>2. ASSUME NEW r \in Requests, AddSignup(r) PROVE Written'
  BY <1>2, AddSignupDoes, Parts DEF Moves, Still, Becomes, Same, Written, Exclusive, Held,
     Checked, Owned
<1>3. ASSUME NEW r \in Requests, CheckToken(r) PROVE Written'
  BY <1>3, CheckTokenDoes, Parts DEF Moves, Still, Becomes, Same, tables, Written, Exclusive,
     Held, Checked, Owned
<1>4. ASSUME NEW r \in Requests, FindAddress(r) PROVE Written'
  BY <1>4, FindAddressDoes, Parts DEF Moves, Still, Becomes, Ended, tables, Written, Exclusive,
     Held, Checked, Owned
<1>5. ASSUME NEW r \in Requests, LockAddress(r) PROVE Written'
  BY <1>5, LockAddressDoes, Parts DEF Moves, Still, Becomes, Same, tables, Written, Exclusive,
     Held, Checked, Owned
<1>6. ASSUME NEW r \in Requests, TakeToken(r) PROVE Written'
  BY <1>6, TakeTokenDoes, Parts DEF Moves, Still, Becomes, Ended, tables, FreeToken, Written,
     Exclusive, Held, Checked, Owned
<1>7. ASSUME NEW r \in Requests, FindAccount(r) PROVE Written'
  BY <1>7, FindAccountDoes, Parts DEF Moves, Still, Becomes, Same, Ended, Written, Exclusive,
     Held, Checked, Owned, SignupsWithout
<1>8. ASSUME NEW r \in Requests, InsertAccount(r) PROVE Written'
  BY <1>8, InsertAccountDoes, Parts DEF Moves, Still, Becomes, Ended, tables, FreeAccount,
     Written, Exclusive, Held, Checked, Owned
<1>9. ASSUME NEW r \in Requests, Sweep(r) PROVE Written'
  BY <1>9, SweepDoes, Parts, StepOf DEF Moves, Still, Becomes, tables, FreeToken, Pending,
     Written, Exclusive, Held, Checked, Owned
<1>10. ASSUME NEW r \in Requests, CommitSignup(r) PROVE Written'
  BY <1>10, CommitSignupDoes, Parts, CommitSignupWrites, Apart DEF Moves, Still, Becomes, Written,
     Exclusive, Held, Checked, Owned, AccountBecomes, LoginBecomes, SignupsWithout
<1>11. ASSUME NEW r \in Requests, ReadLogin(r) PROVE Written'
  BY <1>11, ReadLoginDoes, Parts, ReadLoginWrites DEF Moves, Still, Becomes, Same, tables,
     Written, Exclusive, Held, Checked, Owned, LoginBecomes
<1>12. ASSUME NEW r \in Requests, CreateSession(r) PROVE Written'
  BY <1>12, CreateSessionDoes, Parts DEF Moves, Still, Becomes, Same, Written, Exclusive, Held,
     Checked, Owned
<1>13. ASSUME NEW r \in Requests, UpdatePassword(r) PROVE Written'
  BY <1>13, UpdatePasswordDoes, Parts DEF Moves, Still, Becomes, Ended, tables, FreeAccount,
     Written, Exclusive, Held, Checked, Owned
<1>14. ASSUME NEW r \in Requests, DropSessions(r) PROVE Written'
  BY <1>14, DropSessionsDoes, Parts, StepOf DEF Moves, Still, Becomes, tables, Written, Exclusive,
     Held, Checked, Owned
<1>15. ASSUME NEW r \in Requests, CommitReset(r) PROVE Written'
  BY <1>15, CommitResetDoes, Parts, CommitResetWrites DEF Moves, Still, Becomes, Ended, Written,
     Exclusive, Held, Checked, Owned, AccountBecomes
<1>16. ASSUME NEW r \in Requests, LockTenant(r) PROVE Written'
  BY <1>16, LockTenantDoes, Parts DEF Moves, Still, Becomes, Ended, tables, FreeTenant, AddressOf,
     Written, Exclusive, Held, Checked, Owned
<1>17. ASSUME NEW r \in Requests, InsertLogin(r) PROVE Written'
  BY <1>17, InsertLoginDoes, Parts, StepOf DEF Moves, Still, Becomes, Ended, tables, FreeAccount,
     AddressOf, Written, Exclusive, Held, Checked, Owned
<1>18. ASSUME NEW r \in Requests, CommitLogin(r) PROVE Written'
  BY <1>18, CommitLoginDoes, Parts, CommitLoginWrites, Apart DEF Moves, Still, Becomes, Ended,
     Written, Exclusive, Held, Checked, Owned, AccountBecomes
<1>19. ASSUME NEW r \in Requests, ReadTenant(r) PROVE Written'
  BY <1>19, ReadTenantDoes, Parts DEF Moves, Still, Becomes, Ended, tables, Written, Exclusive,
     Held, Checked, Owned
<1>20. ASSUME NEW r \in Requests, DeleteSignups(r) PROVE Written'
  BY <1>20, DeleteSignupsDoes, Parts DEF Moves, Still, Becomes, tables, FreeToken, Pending,
     Written, Exclusive, Held, Checked, Owned
<1>21. ASSUME NEW r \in Requests, DeleteTenant(r) PROVE Written'
  BY <1>21, DeleteTenantDoes, Parts, StepOf DEF Moves, Still, Becomes, tables, FreeTenant,
     FreeAccount, AddressOf, Written, Exclusive, Held, Checked, Owned
<1>22. ASSUME NEW r \in Requests, CommitDelete(r) PROVE Written'
  BY <1>22, CommitDeleteDoes, Parts, Fields, CommitDeleteWrites, Apart DEF Moves, Still, Becomes,
     Ended, Written, Exclusive, Held, Checked, Owned, SignupsWithout
<1>23. ASSUME NEW r \in Requests, Crash(r) PROVE Written'
  BY <1>23, CrashDoes, Parts DEF Moves, Still, Becomes, Ended, tables, Written, Exclusive, Held,
     Checked, Owned
<1>24. ASSUME NEW k \in Tokens, Expire(k) PROVE Written'
  BY <1>24, Parts, ExpireWrites DEF Expire, Written, Exclusive, Held, Checked, Owned
<1>25. CASE UNCHANGED vars
  BY <1>25, Parts DEF vars, tables, Written, Exclusive, Held, Checked, Owned
<1> QED BY <1>1, <1>2, <1>3, <1>4, <1>5, <1>6, <1>7, <1>8, <1>9, <1>10, <1>11, <1>12, <1>13,
   <1>14, <1>15, <1>16, <1>17, <1>18, <1>19, <1>20, <1>21, <1>22, <1>23, <1>24, <1>25 DEF Next,
   Step, Signup, Verify, Reset, Add, Delete

\* A tenant stays as its holder found it until the holder commits.
LEMMA HeldKept == ASSUME AInv, [Next]_vars PROVE Held'
<1>1. ASSUME NEW r \in Requests, SignupExists(r) PROVE Held'
  BY <1>1, SignupExistsDoes, Parts DEF Moves, Still, Becomes, Same, tables, Held, Exclusive,
     Written, Owners, Born
<1>2. ASSUME NEW r \in Requests, AddSignup(r) PROVE Held'
  BY <1>2, AddSignupDoes, Parts DEF Moves, Still, Becomes, Same, Held, Exclusive, Written, Owners,
     Born
<1>3. ASSUME NEW r \in Requests, CheckToken(r) PROVE Held'
  BY <1>3, CheckTokenDoes, Parts DEF Moves, Still, Becomes, Same, tables, Held, Exclusive,
     Written, Owners, Born
<1>4. ASSUME NEW r \in Requests, FindAddress(r) PROVE Held'
  BY <1>4, FindAddressDoes, Parts DEF Moves, Still, Becomes, Ended, tables, Held, Exclusive,
     Written, Owners, Born
<1>5. ASSUME NEW r \in Requests, LockAddress(r) PROVE Held'
  BY <1>5, LockAddressDoes, Parts DEF Moves, Still, Becomes, Same, tables, Held, Exclusive,
     Written, Owners, Born
<1>6. ASSUME NEW r \in Requests, TakeToken(r) PROVE Held'
  BY <1>6, TakeTokenDoes, Parts DEF Moves, Still, Becomes, Ended, tables, FreeToken, Held,
     Exclusive, Written, Owners, Born
<1>7. ASSUME NEW r \in Requests, FindAccount(r) PROVE Held'
  BY <1>7, FindAccountDoes, Parts DEF Moves, Still, Becomes, Same, Ended, Held, Exclusive,
     Written, Owners, Born, SignupsWithout
<1>8. ASSUME NEW r \in Requests, InsertAccount(r) PROVE Held'
  BY <1>8, InsertAccountDoes, Parts DEF Moves, Still, Becomes, Ended, tables, FreeAccount, Held,
     Exclusive, Written, Owners, Born
<1>9. ASSUME NEW r \in Requests, Sweep(r) PROVE Held'
  BY <1>9, SweepDoes, Parts, StepOf DEF Moves, Still, Becomes, tables, FreeToken, Pending, Held,
     Exclusive, Written, Owners, Born
<1>10. ASSUME NEW r \in Requests, CommitSignup(r) PROVE Held'
  BY <1>10, CommitSignupDoes, Parts, CommitSignupWrites, Apart DEF Moves, Still, Becomes, Held,
     Exclusive, Written, Owners, Born, AccountBecomes, LoginBecomes, SignupsWithout
<1>11. ASSUME NEW r \in Requests, ReadLogin(r) PROVE Held'
  BY <1>11, ReadLoginDoes, Parts, ReadLoginWrites DEF Moves, Still, Becomes, Same, tables, Held,
     Exclusive, Written, Owners, Born, LoginBecomes
<1>12. ASSUME NEW r \in Requests, CreateSession(r) PROVE Held'
  BY <1>12, CreateSessionDoes, Parts DEF Moves, Still, Becomes, Same, Held, Exclusive, Written,
     Owners, Born
<1>13. ASSUME NEW r \in Requests, UpdatePassword(r) PROVE Held'
  BY <1>13, UpdatePasswordDoes, Parts DEF Moves, Still, Becomes, Ended, tables, FreeAccount, Held,
     Exclusive, Written, Owners, Born
<1>14. ASSUME NEW r \in Requests, DropSessions(r) PROVE Held'
  BY <1>14, DropSessionsDoes, Parts, StepOf DEF Moves, Still, Becomes, tables, Held, Exclusive,
     Written, Owners, Born
<1>15. ASSUME NEW r \in Requests, CommitReset(r) PROVE Held'
  BY <1>15, CommitResetDoes, Parts, CommitResetWrites DEF Moves, Still, Becomes, Ended, Held,
     Exclusive, Written, Owners, Born, AccountBecomes
<1>16. ASSUME NEW r \in Requests, LockTenant(r) PROVE Held'
  BY <1>16, LockTenantDoes, Parts DEF Moves, Still, Becomes, Ended, tables, FreeTenant, AddressOf,
     Held, Exclusive, Written, Owners, Born
<1>17. ASSUME NEW r \in Requests, InsertLogin(r) PROVE Held'
  BY <1>17, InsertLoginDoes, Parts, StepOf DEF Moves, Still, Becomes, Ended, tables, FreeAccount,
     AddressOf, Held, Exclusive, Written, Owners, Born
<1>18. ASSUME NEW r \in Requests, CommitLogin(r) PROVE Held'
  BY <1>18, CommitLoginDoes, Parts, CommitLoginWrites, Apart DEF Moves, Still, Becomes, Ended,
     Held, Exclusive, Written, Owners, Born, AccountBecomes
<1>19. ASSUME NEW r \in Requests, ReadTenant(r) PROVE Held'
  BY <1>19, ReadTenantDoes, Parts, Apart DEF Moves, Still, Becomes, Ended, tables, Held,
     Exclusive, Written, Owners, Born
<1>20. ASSUME NEW r \in Requests, DeleteSignups(r) PROVE Held'
  BY <1>20, DeleteSignupsDoes, Parts DEF Moves, Still, Becomes, tables, FreeToken, Pending, Held,
     Exclusive, Written, Owners, Born
<1>21. ASSUME NEW r \in Requests, DeleteTenant(r) PROVE Held'
  BY <1>21, DeleteTenantDoes, Parts, StepOf DEF Moves, Still, Becomes, tables, FreeTenant,
     FreeAccount, AddressOf, Held, Exclusive, Written, Owners, Born
<1>22. ASSUME NEW r \in Requests, CommitDelete(r) PROVE Held'
  BY <1>22, CommitDeleteDoes, Parts, CommitDeleteWrites, Apart DEF Moves, Still, Becomes, Ended,
     Held, Exclusive, Written, Owners, Born, SignupsWithout
<1>23. ASSUME NEW r \in Requests, Crash(r) PROVE Held'
  BY <1>23, CrashDoes, Parts DEF Moves, Still, Becomes, Ended, tables, Held, Exclusive, Written,
     Owners, Born
<1>24. ASSUME NEW k \in Tokens, Expire(k) PROVE Held'
  BY <1>24, Parts, ExpireWrites DEF Expire, Held, Exclusive, Written, Owners, Born
<1>25. CASE UNCHANGED vars
  BY <1>25, Parts DEF vars, tables, Held, Exclusive, Written, Owners, Born
<1> QED BY <1>1, <1>2, <1>3, <1>4, <1>5, <1>6, <1>7, <1>8, <1>9, <1>10, <1>11, <1>12, <1>13,
   <1>14, <1>15, <1>16, <1>17, <1>18, <1>19, <1>20, <1>21, <1>22, <1>23, <1>24, <1>25 DEF Next,
   Step, Signup, Verify, Reset, Add, Delete

\* A commit that creates or deletes a tenant does as much to its login.
LEMMA OwnersKept == ASSUME AInv, [Next]_vars PROVE Owners'
<1>1. ASSUME NEW r \in Requests, SignupExists(r) PROVE Owners'
  BY <1>1, SignupExistsDoes, Parts DEF Moves, Still, tables, Owners, Held, Written
<1>2. ASSUME NEW r \in Requests, AddSignup(r) PROVE Owners'
  BY <1>2, AddSignupDoes, Parts DEF Moves, Still, Owners, Held, Written
<1>3. ASSUME NEW r \in Requests, CheckToken(r) PROVE Owners'
  BY <1>3, CheckTokenDoes, Parts DEF Moves, Still, tables, Owners, Held, Written
<1>4. ASSUME NEW r \in Requests, FindAddress(r) PROVE Owners'
  BY <1>4, FindAddressDoes, Parts DEF Moves, Still, tables, Owners, Held, Written
<1>5. ASSUME NEW r \in Requests, LockAddress(r) PROVE Owners'
  BY <1>5, LockAddressDoes, Parts DEF Moves, Still, tables, Owners, Held, Written
<1>6. ASSUME NEW r \in Requests, TakeToken(r) PROVE Owners'
  BY <1>6, TakeTokenDoes, Parts DEF Moves, Still, Becomes, tables, FreeToken, Owners, Held,
     Written
<1>7. ASSUME NEW r \in Requests, FindAccount(r) PROVE Owners'
  BY <1>7, FindAccountDoes, Parts DEF Moves, Still, Owners, Held, Written, SignupsWithout
<1>8. ASSUME NEW r \in Requests, InsertAccount(r) PROVE Owners'
  BY <1>8, InsertAccountDoes, Parts DEF Moves, Still, tables, FreeAccount, Owners, Held, Written
<1>9. ASSUME NEW r \in Requests, Sweep(r) PROVE Owners'
  BY <1>9, SweepDoes, Parts DEF Moves, Still, Becomes, tables, FreeToken, Pending, Owners, Held,
     Written
<1>10. ASSUME NEW r \in Requests, CommitSignup(r) PROVE Owners'
  BY <1>10, CommitSignupDoes, Parts, CommitSignupWrites DEF Moves, Still, Owners, Held, Written,
     AccountBecomes, LoginBecomes, SignupsWithout
<1>11. ASSUME NEW r \in Requests, ReadLogin(r) PROVE Owners'
  BY <1>11, ReadLoginDoes, Parts DEF Moves, Still, tables, Owners, Held, Written, LoginBecomes
<1>12. ASSUME NEW r \in Requests, CreateSession(r) PROVE Owners'
  BY <1>12, CreateSessionDoes, Parts DEF Moves, Still, Owners, Held, Written
<1>13. ASSUME NEW r \in Requests, UpdatePassword(r) PROVE Owners'
  BY <1>13, UpdatePasswordDoes, Parts DEF Moves, Still, tables, FreeAccount, Owners, Held, Written
<1>14. ASSUME NEW r \in Requests, DropSessions(r) PROVE Owners'
  BY <1>14, DropSessionsDoes, Parts DEF Moves, Still, Becomes, tables, Owners, Held, Written
<1>15. ASSUME NEW r \in Requests, CommitReset(r) PROVE Owners'
  BY <1>15, CommitResetDoes, Parts, CommitResetWrites DEF Moves, Still, Owners, Held, Written,
     AccountBecomes
<1>16. ASSUME NEW r \in Requests, LockTenant(r) PROVE Owners'
  BY <1>16, LockTenantDoes, Parts DEF Moves, Still, tables, FreeTenant, AddressOf, Owners, Held,
     Written
<1>17. ASSUME NEW r \in Requests, InsertLogin(r) PROVE Owners'
  BY <1>17, InsertLoginDoes, Parts DEF Moves, Still, tables, FreeAccount, AddressOf, Owners, Held,
     Written
<1>18. ASSUME NEW r \in Requests, CommitLogin(r) PROVE Owners'
  BY <1>18, CommitLoginDoes, Parts, Fields, CommitLoginWrites DEF Moves, Still, Owners, Held,
     Written, AccountBecomes
<1>19. ASSUME NEW r \in Requests, ReadTenant(r) PROVE Owners'
  BY <1>19, ReadTenantDoes, Parts DEF Moves, Still, tables, Owners, Held, Written
<1>20. ASSUME NEW r \in Requests, DeleteSignups(r) PROVE Owners'
  BY <1>20, DeleteSignupsDoes, Parts DEF Moves, Still, Becomes, tables, FreeToken, Pending,
     Owners, Held, Written
<1>21. ASSUME NEW r \in Requests, DeleteTenant(r) PROVE Owners'
  BY <1>21, DeleteTenantDoes, Parts DEF Moves, Still, tables, FreeTenant, FreeAccount, AddressOf,
     Owners, Held, Written
<1>22. ASSUME NEW r \in Requests, CommitDelete(r) PROVE Owners'
  BY <1>22, CommitDeleteDoes, Parts, CommitDeleteWrites DEF Moves, Still, Owners, Held, Written,
     SignupsWithout
<1>23. ASSUME NEW r \in Requests, Crash(r) PROVE Owners'
  BY <1>23, CrashDoes, Parts DEF Moves, Still, Ended, tables, Owners, Held, Written
<1>24. ASSUME NEW k \in Tokens, Expire(k) PROVE Owners'
  BY <1>24, Parts, ExpireWrites DEF Expire, Owners, Held, Written
<1>25. CASE UNCHANGED vars
  BY <1>25, Parts DEF vars, tables, Owners, Held, Written
<1> QED BY <1>1, <1>2, <1>3, <1>4, <1>5, <1>6, <1>7, <1>8, <1>9, <1>10, <1>11, <1>12, <1>13,
   <1>14, <1>15, <1>16, <1>17, <1>18, <1>19, <1>20, <1>21, <1>22, <1>23, <1>24, <1>25 DEF Next,
   Step, Signup, Verify, Reset, Add, Delete

\* A reset deletes the sessions (DropSessions) before it commits.
LEMMA ResetsInOrderKept == ASSUME AInv, [Next]_vars PROVE ResetsInOrder'
<1>1. ASSUME NEW r \in Requests, SignupExists(r) PROVE ResetsInOrder'
  BY <1>1, SignupExistsDoes, Parts DEF Moves, Still, clock, ResetsInOrder, TablesTyped
<1>2. ASSUME NEW r \in Requests, AddSignup(r) PROVE ResetsInOrder'
  BY <1>2, AddSignupDoes, Parts DEF Moves, Still, clock, ResetsInOrder, TablesTyped
<1>3. ASSUME NEW r \in Requests, CheckToken(r) PROVE ResetsInOrder'
  BY <1>3, CheckTokenDoes, Parts DEF Moves, Still, clock, ResetsInOrder, TablesTyped
<1>4. ASSUME NEW r \in Requests, FindAddress(r) PROVE ResetsInOrder'
  BY <1>4, FindAddressDoes, Parts DEF Moves, Still, Ended, clock, ResetsInOrder, TablesTyped
<1>5. ASSUME NEW r \in Requests, LockAddress(r) PROVE ResetsInOrder'
  BY <1>5, LockAddressDoes, Parts DEF Moves, Still, clock, ResetsInOrder, TablesTyped
<1>6. ASSUME NEW r \in Requests, TakeToken(r) PROVE ResetsInOrder'
  BY <1>6, TakeTokenDoes, Parts DEF Moves, Still, Becomes, Ended, clock, FreeToken, ResetsInOrder,
     TablesTyped
<1>7. ASSUME NEW r \in Requests, FindAccount(r) PROVE ResetsInOrder'
  BY <1>7, FindAccountDoes, Parts DEF Moves, Still, Ended, clock, ResetsInOrder, TablesTyped,
     SignupsWithout
<1>8. ASSUME NEW r \in Requests, InsertAccount(r) PROVE ResetsInOrder'
  BY <1>8, InsertAccountDoes, Parts DEF Moves, Still, Ended, clock, FreeAccount, ResetsInOrder,
     TablesTyped
<1>9. ASSUME NEW r \in Requests, Sweep(r) PROVE ResetsInOrder'
  BY <1>9, SweepDoes, Parts, StepOf DEF Moves, Still, Becomes, clock, FreeToken, Pending,
     ResetsInOrder, TablesTyped
<1>10. ASSUME NEW r \in Requests, CommitSignup(r) PROVE ResetsInOrder'
  BY <1>10, CommitSignupDoes, Parts DEF Moves, Still, clock, ResetsInOrder, TablesTyped,
     AccountBecomes, LoginBecomes, SignupsWithout
<1>11. ASSUME NEW r \in Requests, ReadLogin(r) PROVE ResetsInOrder'
  BY <1>11, ReadLoginDoes, Parts, ReadLoginWrites DEF Moves, Still, clock, ResetsInOrder,
     TablesTyped, LoginBecomes
<1>12. ASSUME NEW r \in Requests, CreateSession(r) PROVE ResetsInOrder'
  BY <1>12, CreateSessionDoes, Parts DEF Moves, Still, clock, ResetsInOrder, TablesTyped
<1>13. ASSUME NEW r \in Requests, UpdatePassword(r) PROVE ResetsInOrder'
  BY <1>13, UpdatePasswordDoes, Parts DEF Moves, Still, Ended, clock, FreeAccount, ResetsInOrder,
     TablesTyped
<1>14. ASSUME NEW r \in Requests, DropSessions(r) PROVE ResetsInOrder'
  BY <1>14, DropSessionsDoes, Parts, StepOf DEF Moves, Still, Becomes, ResetsInOrder, TablesTyped
<1>15. ASSUME NEW r \in Requests, CommitReset(r) PROVE ResetsInOrder'
  BY <1>15, CommitResetDoes, Parts DEF Moves, Still, Ended, ResetsInOrder, TablesTyped,
     AccountBecomes
<1>16. ASSUME NEW r \in Requests, LockTenant(r) PROVE ResetsInOrder'
  BY <1>16, LockTenantDoes, Parts DEF Moves, Still, Ended, clock, FreeTenant, AddressOf,
     ResetsInOrder, TablesTyped
<1>17. ASSUME NEW r \in Requests, InsertLogin(r) PROVE ResetsInOrder'
  BY <1>17, InsertLoginDoes, Parts, StepOf DEF Moves, Still, clock, FreeAccount, AddressOf,
     ResetsInOrder, TablesTyped
<1>18. ASSUME NEW r \in Requests, CommitLogin(r) PROVE ResetsInOrder'
  BY <1>18, CommitLoginDoes, Parts DEF Moves, Still, clock, ResetsInOrder, TablesTyped,
     AccountBecomes
<1>19. ASSUME NEW r \in Requests, ReadTenant(r) PROVE ResetsInOrder'
  BY <1>19, ReadTenantDoes, Parts DEF Moves, Still, Ended, clock, ResetsInOrder, TablesTyped
<1>20. ASSUME NEW r \in Requests, DeleteSignups(r) PROVE ResetsInOrder'
  BY <1>20, DeleteSignupsDoes, Parts DEF Moves, Still, Becomes, clock, FreeToken, Pending,
     ResetsInOrder, TablesTyped
<1>21. ASSUME NEW r \in Requests, DeleteTenant(r) PROVE ResetsInOrder'
  BY <1>21, DeleteTenantDoes, Parts, StepOf DEF Moves, Still, clock, FreeTenant, FreeAccount,
     AddressOf, ResetsInOrder, TablesTyped
<1>22. ASSUME NEW r \in Requests, CommitDelete(r) PROVE ResetsInOrder'
  BY <1>22, CommitDeleteDoes, Parts DEF Moves, Still, clock, ResetsInOrder, TablesTyped,
     SignupsWithout
<1>23. ASSUME NEW r \in Requests, Crash(r) PROVE ResetsInOrder'
  BY <1>23, CrashDoes, Parts DEF Moves, Still, Ended, clock, ResetsInOrder, TablesTyped
<1>24. ASSUME NEW k \in Tokens, Expire(k) PROVE ResetsInOrder'
  BY <1>24, Parts, ExpireWrites DEF Expire, clock, ResetsInOrder, TablesTyped
<1>25. CASE UNCHANGED vars
  BY <1>25, Parts DEF vars, clock, ResetsInOrder, TablesTyped
<1> QED BY <1>1, <1>2, <1>3, <1>4, <1>5, <1>6, <1>7, <1>8, <1>9, <1>10, <1>11, <1>12, <1>13,
   <1>14, <1>15, <1>16, <1>17, <1>18, <1>19, <1>20, <1>21, <1>22, <1>23, <1>24, <1>25 DEF Next,
   Step, Signup, Verify, Reset, Add, Delete

\* What a request is opening a session on stays true, or a reset committed
\* since it read.
LEMMA LoginsStandKept == ASSUME AInv, [Next]_vars PROVE LoginsStand'
<1>1. ASSUME NEW r \in Requests, SignupExists(r) PROVE LoginsStand'
  BY <1>1, SignupExistsDoes, Parts DEF Moves, Still, tables, clock, LoginsStand, Stands, Born,
     Owners, ResetsInOrder, Held, Written
<1>2. ASSUME NEW r \in Requests, AddSignup(r) PROVE LoginsStand'
  BY <1>2, AddSignupDoes, Parts DEF Moves, Still, clock, LoginsStand, Stands, Born, Owners,
     ResetsInOrder, Held, Written
<1>3. ASSUME NEW r \in Requests, CheckToken(r) PROVE LoginsStand'
  BY <1>3, CheckTokenDoes, Parts DEF Moves, Still, tables, clock, LoginsStand, Stands, Born,
     Owners, ResetsInOrder, Held, Written
<1>4. ASSUME NEW r \in Requests, FindAddress(r) PROVE LoginsStand'
  BY <1>4, FindAddressDoes, Parts DEF Moves, Still, Ended, tables, clock, LoginsStand, Stands,
     Born, Owners, ResetsInOrder, Held, Written
<1>5. ASSUME NEW r \in Requests, LockAddress(r) PROVE LoginsStand'
  BY <1>5, LockAddressDoes, Parts DEF Moves, Still, tables, clock, LoginsStand, Stands, Born,
     Owners, ResetsInOrder, Held, Written
<1>6. ASSUME NEW r \in Requests, TakeToken(r) PROVE LoginsStand'
  BY <1>6, TakeTokenDoes, Parts DEF Moves, Still, Becomes, Ended, tables, clock, FreeToken,
     LoginsStand, Stands, Born, Owners, ResetsInOrder, Held, Written
<1>7. ASSUME NEW r \in Requests, FindAccount(r) PROVE LoginsStand'
  BY <1>7, FindAccountDoes, Parts DEF Moves, Still, Ended, clock, LoginsStand, Stands, Born,
     Owners, ResetsInOrder, Held, Written, SignupsWithout
<1>8. ASSUME NEW r \in Requests, InsertAccount(r) PROVE LoginsStand'
  BY <1>8, InsertAccountDoes, Parts DEF Moves, Still, Ended, tables, clock, FreeAccount,
     LoginsStand, Stands, Born, Owners, ResetsInOrder, Held, Written
<1>9. ASSUME NEW r \in Requests, Sweep(r) PROVE LoginsStand'
  BY <1>9, SweepDoes, Parts DEF Moves, Still, Becomes, tables, clock, FreeToken, Pending,
     LoginsStand, Stands, Born, Owners, ResetsInOrder, Held, Written
<1>10. ASSUME NEW r \in Requests, CommitSignup(r) PROVE LoginsStand'
  BY <1>10, CommitSignupDoes, Parts, Apart, CommitSignupWrites DEF Moves, Still, clock,
     LoginsStand, Stands, Born, Owners, ResetsInOrder, Held, Written, AccountBecomes,
     LoginBecomes, SignupsWithout
<1>11. ASSUME NEW r \in Requests, ReadLogin(r) PROVE LoginsStand'
  BY <1>11, ReadLoginDoes, Parts, Apart, RowsOf, ReadLoginWrites DEF Moves, Still, tables, clock,
     LoginsStand, Stands, Born, Owners, ResetsInOrder, Held, Written, LoginBecomes
<1>12. ASSUME NEW r \in Requests, CreateSession(r) PROVE LoginsStand'
  BY <1>12, CreateSessionDoes, Parts DEF Moves, Still, clock, LoginsStand, Stands, Born, Owners,
     ResetsInOrder, Held, Written
<1>13. ASSUME NEW r \in Requests, UpdatePassword(r) PROVE LoginsStand'
  BY <1>13, UpdatePasswordDoes, Parts DEF Moves, Still, Ended, tables, clock, FreeAccount,
     LoginsStand, Stands, Born, Owners, ResetsInOrder, Held, Written
<1>14. ASSUME NEW r \in Requests, DropSessions(r) PROVE LoginsStand'
  BY <1>14, DropSessionsDoes, Parts DEF Moves, Still, Becomes, tables, LoginsStand, Stands, Born,
     Owners, ResetsInOrder, Held, Written
<1>15. ASSUME NEW r \in Requests, CommitReset(r) PROVE LoginsStand'
  BY <1>15, CommitResetDoes, Parts, CommitResetWrites DEF Moves, Still, Ended, LoginsStand,
     Stands, Born, Owners, ResetsInOrder, Held, Written, AccountBecomes
<1>16. ASSUME NEW r \in Requests, LockTenant(r) PROVE LoginsStand'
  BY <1>16, LockTenantDoes, Parts DEF Moves, Still, Ended, tables, clock, FreeTenant, AddressOf,
     LoginsStand, Stands, Born, Owners, ResetsInOrder, Held, Written
<1>17. ASSUME NEW r \in Requests, InsertLogin(r) PROVE LoginsStand'
  BY <1>17, InsertLoginDoes, Parts DEF Moves, Still, Ended, tables, clock, FreeAccount, AddressOf,
     LoginsStand, Stands, Born, Owners, ResetsInOrder, Held, Written
<1>18. ASSUME NEW r \in Requests, CommitLogin(r) PROVE LoginsStand'
  BY <1>18, CommitLoginDoes, Parts, Fields, CommitLoginWrites DEF Moves, Still, Ended, clock,
     LoginsStand, Stands, Born, Owners, ResetsInOrder, Held, Written, AccountBecomes
<1>19. ASSUME NEW r \in Requests, ReadTenant(r) PROVE LoginsStand'
  BY <1>19, ReadTenantDoes, Parts DEF Moves, Still, Ended, tables, clock, LoginsStand, Stands,
     Born, Owners, ResetsInOrder, Held, Written
<1>20. ASSUME NEW r \in Requests, DeleteSignups(r) PROVE LoginsStand'
  BY <1>20, DeleteSignupsDoes, Parts DEF Moves, Still, Becomes, tables, clock, FreeToken, Pending,
     LoginsStand, Stands, Born, Owners, ResetsInOrder, Held, Written
<1>21. ASSUME NEW r \in Requests, DeleteTenant(r) PROVE LoginsStand'
  BY <1>21, DeleteTenantDoes, Parts DEF Moves, Still, tables, clock, FreeTenant, FreeAccount,
     AddressOf, LoginsStand, Stands, Born, Owners, ResetsInOrder, Held, Written
<1>22. ASSUME NEW r \in Requests, CommitDelete(r) PROVE LoginsStand'
  BY <1>22, CommitDeleteDoes, Parts, CommitDeleteWrites DEF Moves, Still, Ended, clock,
     LoginsStand, Stands, Born, Owners, ResetsInOrder, Held, Written, SignupsWithout
<1>23. ASSUME NEW r \in Requests, Crash(r) PROVE LoginsStand'
  BY <1>23, CrashDoes, Parts DEF Moves, Still, Ended, tables, clock, LoginsStand, Stands, Born,
     Owners, ResetsInOrder, Held, Written
<1>24. ASSUME NEW k \in Tokens, Expire(k) PROVE LoginsStand'
  BY <1>24, Parts, ExpireWrites DEF Expire, clock, LoginsStand, Stands, Born, Owners,
     ResetsInOrder, Held, Written
<1>25. CASE UNCHANGED vars
  BY <1>25, Parts DEF vars, tables, clock, LoginsStand, Stands, Born, Owners, ResetsInOrder, Held,
     Written
<1> QED BY <1>1, <1>2, <1>3, <1>4, <1>5, <1>6, <1>7, <1>8, <1>9, <1>10, <1>11, <1>12, <1>13,
   <1>14, <1>15, <1>16, <1>17, <1>18, <1>19, <1>20, <1>21, <1>22, <1>23, <1>24, <1>25 DEF Next,
   Step, Signup, Verify, Reset, Add, Delete

\* A session stays true to its login, or a reset committed between the read
\* and the insert it was opened by.
LEMMA SessionsStandKept == ASSUME AInv, [Next]_vars PROVE SessionsStand'
<1>1. ASSUME NEW r \in Requests, SignupExists(r) PROVE SessionsStand'
  BY <1>1, SignupExistsDoes, Parts DEF Moves, Still, tables, clock, SessionsStand, LoginsStand,
     Stands, Born, Owners, Held, Written, ResetsInOrder, DropsSeen
<1>2. ASSUME NEW r \in Requests, AddSignup(r) PROVE SessionsStand'
  BY <1>2, AddSignupDoes, Parts DEF Moves, Still, clock, SessionsStand, LoginsStand, Stands, Born,
     Owners, Held, Written, ResetsInOrder, DropsSeen
<1>3. ASSUME NEW r \in Requests, CheckToken(r) PROVE SessionsStand'
  BY <1>3, CheckTokenDoes, Parts DEF Moves, Still, tables, clock, SessionsStand, LoginsStand,
     Stands, Born, Owners, Held, Written, ResetsInOrder, DropsSeen
<1>4. ASSUME NEW r \in Requests, FindAddress(r) PROVE SessionsStand'
  BY <1>4, FindAddressDoes, Parts DEF Moves, Still, tables, clock, SessionsStand, LoginsStand,
     Stands, Born, Owners, Held, Written, ResetsInOrder, DropsSeen
<1>5. ASSUME NEW r \in Requests, LockAddress(r) PROVE SessionsStand'
  BY <1>5, LockAddressDoes, Parts DEF Moves, Still, tables, clock, SessionsStand, LoginsStand,
     Stands, Born, Owners, Held, Written, ResetsInOrder, DropsSeen
<1>6. ASSUME NEW r \in Requests, TakeToken(r) PROVE SessionsStand'
  BY <1>6, TakeTokenDoes, Parts DEF Moves, Still, Becomes, tables, clock, FreeToken,
     SessionsStand, LoginsStand, Stands, Born, Owners, Held, Written, ResetsInOrder, DropsSeen
<1>7. ASSUME NEW r \in Requests, FindAccount(r) PROVE SessionsStand'
  BY <1>7, FindAccountDoes, Parts DEF Moves, Still, clock, SessionsStand, LoginsStand, Stands,
     Born, Owners, Held, Written, ResetsInOrder, DropsSeen, SignupsWithout
<1>8. ASSUME NEW r \in Requests, InsertAccount(r) PROVE SessionsStand'
  BY <1>8, InsertAccountDoes, Parts DEF Moves, Still, tables, clock, FreeAccount, SessionsStand,
     LoginsStand, Stands, Born, Owners, Held, Written, ResetsInOrder, DropsSeen
<1>9. ASSUME NEW r \in Requests, Sweep(r) PROVE SessionsStand'
  BY <1>9, SweepDoes, Parts DEF Moves, Still, Becomes, tables, clock, FreeToken, Pending,
     SessionsStand, LoginsStand, Stands, Born, Owners, Held, Written, ResetsInOrder, DropsSeen
<1>10. ASSUME NEW r \in Requests, CommitSignup(r) PROVE SessionsStand'
  BY <1>10, CommitSignupDoes, Parts, CommitSignupWrites DEF Moves, Still, clock, SessionsStand,
     LoginsStand, Stands, Born, Owners, Held, Written, ResetsInOrder, DropsSeen, AccountBecomes,
     LoginBecomes, SignupsWithout
<1>11. ASSUME NEW r \in Requests, ReadLogin(r) PROVE SessionsStand'
  BY <1>11, ReadLoginDoes, Parts DEF Moves, Still, tables, clock, SessionsStand, LoginsStand,
     Stands, Born, Owners, Held, Written, ResetsInOrder, DropsSeen, LoginBecomes
<1>12. ASSUME NEW r \in Requests, CreateSession(r) PROVE SessionsStand'
  BY <1>12, CreateSessionDoes, Parts DEF Moves, Still, clock, SessionsStand, LoginsStand, Stands,
     Born, Owners, Held, Written, ResetsInOrder, DropsSeen
<1>13. ASSUME NEW r \in Requests, UpdatePassword(r) PROVE SessionsStand'
  BY <1>13, UpdatePasswordDoes, Parts DEF Moves, Still, tables, clock, FreeAccount, SessionsStand,
     LoginsStand, Stands, Born, Owners, Held, Written, ResetsInOrder, DropsSeen
<1>14. ASSUME NEW r \in Requests, DropSessions(r) PROVE SessionsStand'
  BY <1>14, DropSessionsDoes, Parts DEF Moves, Still, Becomes, tables, SessionsStand, LoginsStand,
     Stands, Born, Owners, Held, Written, ResetsInOrder, DropsSeen
<1>15. ASSUME NEW r \in Requests, CommitReset(r) PROVE SessionsStand'
  BY <1>15, CommitResetDoes, Parts, CommitResetWrites DEF Moves, Still, SessionsStand,
     LoginsStand, Stands, Born, Owners, Held, Written, ResetsInOrder, DropsSeen, AccountBecomes
<1>16. ASSUME NEW r \in Requests, LockTenant(r) PROVE SessionsStand'
  BY <1>16, LockTenantDoes, Parts DEF Moves, Still, tables, clock, FreeTenant, AddressOf,
     SessionsStand, LoginsStand, Stands, Born, Owners, Held, Written, ResetsInOrder, DropsSeen
<1>17. ASSUME NEW r \in Requests, InsertLogin(r) PROVE SessionsStand'
  BY <1>17, InsertLoginDoes, Parts DEF Moves, Still, tables, clock, FreeAccount, AddressOf,
     SessionsStand, LoginsStand, Stands, Born, Owners, Held, Written, ResetsInOrder, DropsSeen
<1>18. ASSUME NEW r \in Requests, CommitLogin(r) PROVE SessionsStand'
  BY <1>18, CommitLoginDoes, Parts, RowsOf, CommitLoginWrites DEF Moves, Still, clock,
     SessionsStand, LoginsStand, Stands, Born, Owners, Held, Written, ResetsInOrder, DropsSeen,
     AccountBecomes
<1>19. ASSUME NEW r \in Requests, ReadTenant(r) PROVE SessionsStand'
  BY <1>19, ReadTenantDoes, Parts DEF Moves, Still, tables, clock, SessionsStand, LoginsStand,
     Stands, Born, Owners, Held, Written, ResetsInOrder, DropsSeen
<1>20. ASSUME NEW r \in Requests, DeleteSignups(r) PROVE SessionsStand'
  BY <1>20, DeleteSignupsDoes, Parts DEF Moves, Still, Becomes, tables, clock, FreeToken, Pending,
     SessionsStand, LoginsStand, Stands, Born, Owners, Held, Written, ResetsInOrder, DropsSeen
<1>21. ASSUME NEW r \in Requests, DeleteTenant(r) PROVE SessionsStand'
  BY <1>21, DeleteTenantDoes, Parts DEF Moves, Still, tables, clock, FreeTenant, FreeAccount,
     AddressOf, SessionsStand, LoginsStand, Stands, Born, Owners, Held, Written, ResetsInOrder,
     DropsSeen
<1>22. ASSUME NEW r \in Requests, CommitDelete(r) PROVE SessionsStand'
  BY <1>22, CommitDeleteDoes, Parts, CommitDeleteWrites DEF Moves, Still, clock, SessionsStand,
     LoginsStand, Stands, Born, Owners, Held, Written, ResetsInOrder, DropsSeen, SignupsWithout
<1>23. ASSUME NEW r \in Requests, Crash(r) PROVE SessionsStand'
  BY <1>23, CrashDoes, Parts DEF Moves, Still, Ended, tables, clock, SessionsStand, LoginsStand,
     Stands, Born, Owners, Held, Written, ResetsInOrder, DropsSeen
<1>24. ASSUME NEW k \in Tokens, Expire(k) PROVE SessionsStand'
  BY <1>24, Parts, ExpireWrites DEF Expire, clock, SessionsStand, LoginsStand, Stands, Born,
     Owners, Held, Written, ResetsInOrder, DropsSeen
<1>25. CASE UNCHANGED vars
  BY <1>25, Parts DEF vars, tables, clock, SessionsStand, LoginsStand, Stands, Born, Owners, Held,
     Written, ResetsInOrder, DropsSeen
<1> QED BY <1>1, <1>2, <1>3, <1>4, <1>5, <1>6, <1>7, <1>8, <1>9, <1>10, <1>11, <1>12, <1>13,
   <1>14, <1>15, <1>16, <1>17, <1>18, <1>19, <1>20, <1>21, <1>22, <1>23, <1>24, <1>25 DEF Next,
   Step, Signup, Verify, Reset, Add, Delete

\* A session a reset did not see was being opened when the reset deleted.
LEMMA DropsSeenKept == ASSUME AInv, [Next]_vars PROVE DropsSeen'
<1>1. ASSUME NEW r \in Requests, SignupExists(r) PROVE DropsSeen'
  BY <1>1, SignupExistsDoes, Parts DEF Moves, Still, Becomes, Same, tables, DropsSeen, Written,
     Held, Exclusive, ResetsInOrder
<1>2. ASSUME NEW r \in Requests, AddSignup(r) PROVE DropsSeen'
  BY <1>2, AddSignupDoes, Parts DEF Moves, Still, Becomes, Same, DropsSeen, Written, Held,
     Exclusive, ResetsInOrder
<1>3. ASSUME NEW r \in Requests, CheckToken(r) PROVE DropsSeen'
  BY <1>3, CheckTokenDoes, Parts DEF Moves, Still, Becomes, Same, tables, DropsSeen, Written,
     Held, Exclusive, ResetsInOrder
<1>4. ASSUME NEW r \in Requests, FindAddress(r) PROVE DropsSeen'
  BY <1>4, FindAddressDoes, Parts DEF Moves, Still, Becomes, Ended, tables, DropsSeen, Written,
     Held, Exclusive, ResetsInOrder
<1>5. ASSUME NEW r \in Requests, LockAddress(r) PROVE DropsSeen'
  BY <1>5, LockAddressDoes, Parts DEF Moves, Still, Becomes, Same, tables, DropsSeen, Written,
     Held, Exclusive, ResetsInOrder
<1>6. ASSUME NEW r \in Requests, TakeToken(r) PROVE DropsSeen'
  BY <1>6, TakeTokenDoes, Parts DEF Moves, Still, Becomes, Ended, tables, FreeToken, DropsSeen,
     Written, Held, Exclusive, ResetsInOrder
<1>7. ASSUME NEW r \in Requests, FindAccount(r) PROVE DropsSeen'
  BY <1>7, FindAccountDoes, Parts DEF Moves, Still, Becomes, Same, Ended, DropsSeen, Written,
     Held, Exclusive, ResetsInOrder, SignupsWithout
<1>8. ASSUME NEW r \in Requests, InsertAccount(r) PROVE DropsSeen'
  BY <1>8, InsertAccountDoes, Parts DEF Moves, Still, Becomes, Ended, tables, FreeAccount,
     DropsSeen, Written, Held, Exclusive, ResetsInOrder
<1>9. ASSUME NEW r \in Requests, Sweep(r) PROVE DropsSeen'
  BY <1>9, SweepDoes, Parts, StepOf DEF Moves, Still, Becomes, tables, FreeToken, Pending,
     DropsSeen, Written, Held, Exclusive, ResetsInOrder
<1>10. ASSUME NEW r \in Requests, CommitSignup(r) PROVE DropsSeen'
  BY <1>10, CommitSignupDoes, Parts, Fields, CommitSignupWrites DEF Moves, Still, Becomes,
     DropsSeen, Written, Held, Exclusive, ResetsInOrder, AccountBecomes, LoginBecomes,
     SignupsWithout
<1>11. ASSUME NEW r \in Requests, ReadLogin(r) PROVE DropsSeen'
  BY <1>11, ReadLoginDoes, Parts, ReadLoginWrites DEF Moves, Still, Becomes, Same, tables,
     DropsSeen, Written, Held, Exclusive, ResetsInOrder, LoginBecomes
<1>12. ASSUME NEW r \in Requests, CreateSession(r) PROVE DropsSeen'
  BY <1>12, CreateSessionDoes, Parts DEF Moves, Still, Becomes, Same, DropsSeen, Written, Held,
     Exclusive, ResetsInOrder
<1>13. ASSUME NEW r \in Requests, UpdatePassword(r) PROVE DropsSeen'
  BY <1>13, UpdatePasswordDoes, Parts DEF Moves, Still, Becomes, Ended, tables, FreeAccount,
     DropsSeen, Written, Held, Exclusive, ResetsInOrder
<1>14. ASSUME NEW r \in Requests, DropSessions(r) PROVE DropsSeen'
  BY <1>14, DropSessionsDoes, Parts DEF Moves, Still, Becomes, tables, DropsSeen, Written, Held,
     Exclusive, ResetsInOrder
<1>15. ASSUME NEW r \in Requests, CommitReset(r) PROVE DropsSeen'
  BY <1>15, CommitResetDoes, Parts, Fields, CommitResetWrites DEF Moves, Still, Becomes, Ended,
     DropsSeen, Written, Held, Exclusive, ResetsInOrder, AccountBecomes
<1>16. ASSUME NEW r \in Requests, LockTenant(r) PROVE DropsSeen'
  BY <1>16, LockTenantDoes, Parts DEF Moves, Still, Becomes, Ended, tables, FreeTenant, AddressOf,
     DropsSeen, Written, Held, Exclusive, ResetsInOrder
<1>17. ASSUME NEW r \in Requests, InsertLogin(r) PROVE DropsSeen'
  BY <1>17, InsertLoginDoes, Parts, StepOf DEF Moves, Still, Becomes, Ended, tables, FreeAccount,
     AddressOf, DropsSeen, Written, Held, Exclusive, ResetsInOrder
<1>18. ASSUME NEW r \in Requests, CommitLogin(r) PROVE DropsSeen'
  BY <1>18, CommitLoginDoes, Parts, Fields, CommitLoginWrites DEF Moves, Still, Becomes, Ended,
     DropsSeen, Written, Held, Exclusive, ResetsInOrder, AccountBecomes
<1>19. ASSUME NEW r \in Requests, ReadTenant(r) PROVE DropsSeen'
  BY <1>19, ReadTenantDoes, Parts DEF Moves, Still, Becomes, Ended, tables, DropsSeen, Written,
     Held, Exclusive, ResetsInOrder
<1>20. ASSUME NEW r \in Requests, DeleteSignups(r) PROVE DropsSeen'
  BY <1>20, DeleteSignupsDoes, Parts DEF Moves, Still, Becomes, tables, FreeToken, Pending,
     DropsSeen, Written, Held, Exclusive, ResetsInOrder
<1>21. ASSUME NEW r \in Requests, DeleteTenant(r) PROVE DropsSeen'
  BY <1>21, DeleteTenantDoes, Parts, StepOf DEF Moves, Still, Becomes, tables, FreeTenant,
     FreeAccount, AddressOf, DropsSeen, Written, Held, Exclusive, ResetsInOrder
<1>22. ASSUME NEW r \in Requests, CommitDelete(r) PROVE DropsSeen'
  BY <1>22, CommitDeleteDoes, Parts, Fields, Apart, CommitDeleteWrites DEF Moves, Still, Becomes,
     Ended, DropsSeen, Written, Held, Exclusive, ResetsInOrder, SignupsWithout
<1>23. ASSUME NEW r \in Requests, Crash(r) PROVE DropsSeen'
  BY <1>23, CrashDoes, Parts DEF Moves, Still, Becomes, Ended, tables, DropsSeen, Written, Held,
     Exclusive, ResetsInOrder
<1>24. ASSUME NEW k \in Tokens, Expire(k) PROVE DropsSeen'
  BY <1>24, Parts, ExpireWrites DEF Expire, DropsSeen, Written, Held, Exclusive, ResetsInOrder
<1>25. CASE UNCHANGED vars
  BY <1>25, Parts DEF vars, tables, DropsSeen, Written, Held, Exclusive, ResetsInOrder
<1> QED BY <1>1, <1>2, <1>3, <1>4, <1>5, <1>6, <1>7, <1>8, <1>9, <1>10, <1>11, <1>12, <1>13,
   <1>14, <1>15, <1>16, <1>17, <1>18, <1>19, <1>20, <1>21, <1>22, <1>23, <1>24, <1>25 DEF Next,
   Step, Signup, Verify, Reset, Add, Delete

-----------------------------------------------------------------------------
\* Before the first statement nothing is held, and no token was shown.
LEMMA InitHolds == Init => AInv
<1> SUFFICES ASSUME Init PROVE AInv
  OBVIOUS
<1>1. PICK s \in Scenarios :
        job = s.job /\ signups = s.signups /\ tenants = s.tenants /\ accounts = s.accounts
  BY DEF Init
<1>2. Jobs
  BY <1>1, ScenarioAssumption DEF Jobs
<1>3. \A r \in Requests : job[r].kind \in Kinds
  BY <1>2 DEF Jobs, JobType
<1>4. \A k \in Kinds : FirstStep(k) \in StepsOf(k) /\ StepsOf(k) \subseteq Statements
  BY DEF Kinds, FirstStep, StepsOf, Statements, Owned
<1>5. StepsTyped
  BY <1>3, <1>4 DEF Init, StepsTyped
<1>6. \A r \in Requests :
        pc[r] \in {"exists", "check", "read", "update", "lockTenant", "readTenant"}
  BY <1>3 DEF Init, Kinds, FirstStep
<1>7. \A r \in Requests :
        /\ pc[r] = "exists" => job[r].kind = "signup"
        /\ job[r].kind = "verify" => pc[r] = "check"
  BY <1>3 DEF Init, Kinds, FirstStep
<1>8. \A r \in Requests : tx[r] = NoTx /\ login[r] = None
  BY DEF Init
<1>9. Typed
  <2>1. TablesTyped
    BY <1>1, ScenarioAssumption DEF Init, TablesTyped, Tenants
  <2>2. TxTyped /\ LoginTyped
    BY NothingHeld DEF Init, TxTyped, LoginTyped
  <2> QED BY <1>2, <1>5, <2>1, <2>2 DEF Typed
<1>10. TokensHold
  <2>1. Unsent
    <3>1. \A r \in Requests : job[r].kind = "signup" => signups[job[r].token] = None
      BY <1>1, ScenarioAssumption
    <3> QED BY <1>6, <1>7, <1>8, <3>1 DEF Unsent, NoTx
  <2>2. TakenIsThere /\ Checked /\ OneEach
    BY <1>6, <1>8 DEF TakenIsThere, Checked, OneEach, NoTx, Owned
  <2> QED BY <2>1, <2>2 DEF TokensHold
<1>11. RowsHold
  <2>1. Exclusive /\ Written /\ Held
    BY <1>6, <1>8 DEF Exclusive, Written, Held, NoTx
  <2>2. Owners
    BY <1>1, ScenarioAssumption DEF Owners
  <2> QED BY <2>1, <2>2 DEF RowsHold
<1>12. SessionsHold
  BY <1>6 DEF SessionsHold, ResetsInOrder, LoginsStand, SessionsStand, DropsSeen, Init
<1> QED BY <1>9, <1>10, <1>11, <1>12 DEF AInv

\* Every statement keeps the invariant.
LEMMA NextKeeps == AInv /\ [Next]_vars => AInv'
<1> SUFFICES ASSUME AInv, [Next]_vars PROVE AInv'
  OBVIOUS
<1>1. Typed'
  BY JobsKept, TablesTypedKept, StepsTypedKept, TxTypedKept, LoginTypedKept, Parts DEF Typed
<1>2. TokensHold'
  BY UnsentKept, TakenIsThereKept, CheckedKept, OneEachKept DEF TokensHold
<1>3. RowsHold'
  BY ExclusiveKept, WrittenKept, HeldKept, OwnersKept DEF RowsHold
<1>4. SessionsHold'
  BY ResetsInOrderKept, LoginsStandKept, SessionsStandKept, DropsSeenKept DEF SessionsHold
<1> QED BY <1>1, <1>2, <1>3, <1>4 DEF AInv

\* The invariant holds of every behaviour.
LEMMA AlwaysAInv == Spec => []AInv
<1> QED BY InitHolds, NextKeeps, PTL DEF Spec

\* "There is never a tenant without an owner or an owner without a tenant", for
\* any number of requests, addresses and tokens: every tenant a verification
\* created has its one login, every login its tenant, and one token creates one
\* tenant, wherever the requests interleave and die (signup.py, complete_signup,
\* add_account and delete_tenant of postgres.py).
THEOREM OwnersHaveTenants == Spec => []OwnerAndTenant
<1>1. AInv => OwnerAndTenant
  BY DEF AInv, TokensHold, OneEach, RowsHold, Owners, OwnerAndTenant, AddressOf
<1> QED BY <1>1, AlwaysAInv, PTL

\* A verification makes the login of its own password, and a session under a
\* password its login no longer has read it before a reset of that address
\* committed and was opened after the reset deleted: the window reset_password
\* leaves, and no other, for any number of resets and sign-ins.
THEOREM PasswordsAreOwn == Spec => []OwnPassword
<1>1. AInv => OwnPassword
  <2> SUFFICES ASSUME AInv PROVE OwnPassword
    OBVIOUS
  <2>1. \A r \in Requests :
          job[r].kind = "verify" /\ login[r] # None => login[r].password = job[r].password
    BY Parts, Fields DEF Checked
  <2>2. ASSUME NEW s \in sessions
        PROVE  \/ Current(s)
               \/ \E r \in (resets \cap s.opened) \ s.read : job[r].email \in AddressOf(s.tenant)
    <3> SUFFICES ASSUME ~Current(s)
                 PROVE  \E r \in (resets \cap s.opened) \ s.read :
                          job[r].email \in AddressOf(s.tenant)
      OBVIOUS
    <3>1. PICK e \in AddressOf(s.tenant) : s.password # accounts[e].password
      BY DEF Current
    <3>2. e \in Emails /\ accounts[e] # None /\ accounts[e].tenant = s.tenant
      BY <3>1 DEF AddressOf
    <3>3. PICK r \in (resets \cap s.opened) \ s.read : job[r].email = e
      BY <3>1, <3>2, Parts DEF SessionsStand, Stands
    <3> QED BY <3>1, <3>3
  <2> QED BY <2>1, <2>2 DEF OwnPassword
<1> QED BY <1>1, AlwaysAInv, PTL
===============================================================================
