----------------------------- MODULE PostgresStore -----------------------------
(***************************************************************************)
(* PostgresStore (packages/vault/okwan_vault/postgres.py) over schema.sql: *)
(* what each method's transaction does to the tables and returns when it   *)
(* runs alone.  A row of a tenant's table carries its tenant_id, which the *)
(* foreign key checks on the way in and deletes with the tenant.  What     *)
(* concurrent transactions do to each other is in Accounts, RunHistory and *)
(* Imports.                                                                *)
(***************************************************************************)
EXTENDS StoreTables

\* Tables with tenant_id REFERENCES tenants ON DELETE CASCADE.
TenantTables ==
  {"keys", "creds", "usage", "plans", "accounts", "sessions", "billing", "runs",
   "conversations", "tickets", "replies", "imports", "importRows", "layouts"}
Tables == TenantTables \cup {"tenants", "signups", "log"}

NewDatabase == [n \in Tables |-> [x \in {} |-> None]]

Tenants(d) == DOMAIN d.tenants
Rows(f, S) == {k \in DOMAIN f : f[k].tenant \in S}
Where(d, n, S) == Rows(d[n], S)

\* The foreign key and the primary key of an INSERT; an upsert only has the first.
Insert(d, n, k, row) ==
  IF row.tenant \notin Tenants(d) \/ k \in DOMAIN d[n] THEN Raises(d)
  ELSE Returns([d EXCEPT ![n] = Put(@, k, row)], k)
Upsert(d, n, k, row) ==
  IF row.tenant \notin Tenants(d) THEN Raises(d)
  ELSE Returns([d EXCEPT ![n] = Put(@, k, row)], None)

\* WITH RECURSIVE: the least set that holds root's row and its rows' children.
Subtree(d, root) ==
  {t \in Tenants(d) :
     \A S \in SUBSET Tenants(d) :
       /\ root \in Tenants(d) => root \in S
       /\ \A c \in Tenants(d) : d.tenants[c] \in S => c \in S
       => t \in S /\ root \in Tenants(d)}

-----------------------------------------------------------------------------
(* Tenants, keys, credentials.                                               *)

CreateTenant(d, id, parent) ==
  IF parent # None /\ parent \notin Tenants(d) THEN Raises(d)
  ELSE Returns([d EXCEPT !.tenants = Put(@, id, parent)], id)

\* Mutant: a foreign key without ON DELETE CASCADE's rows.
CascadeSome(d, gone) ==
  [n \in Tables |->
     IF n = "tenants" THEN Without(d.tenants, gone)
     ELSE IF n \in TenantTables \ {"keys"} THEN Without(d[n], Rows(d[n], gone))
     ELSE d[n]]

\* The rows a tenant's row takes with it.
Cascade(d, gone) ==
  [n \in Tables |->
     IF n = "tenants" THEN Without(d.tenants, gone)
     ELSE IF n \in TenantTables THEN Without(d[n], Rows(d[n], gone))
     ELSE d[n]]

DeleteTenant(d, t) ==
  LET ids    == Subtree(d, t)
      emails == Where(d, "accounts", ids)
  IN  IF ids = {} THEN Returns(d, {})
      ELSE Returns([Cascade(d, ids) EXCEPT !.signups =
                      Without(@, {k \in DOMAIN @ : @[k].email \in emails})], ids)

IssueKey(d, t, id) == Insert(d, "keys", id, [tenant |-> t, active |-> TRUE])

\* WHERE id = $1 AND revoked_at IS NULL, and no row updated is an error.
RevokeKey(d, id) ==
  IF id \in DOMAIN d.keys /\ d.keys[id].active
  THEN Returns([d EXCEPT !.keys[id].active = FALSE], None) ELSE Raises(d)

TenantForKey(d, id) ==
  IF id \in DOMAIN d.keys /\ d.keys[id].active /\ d.keys[id].tenant \in Tenants(d)
  THEN d.keys[id].tenant ELSE None
KeyOwner(d, id) == IF id \in DOMAIN d.keys THEN d.keys[id].tenant ELSE None
KeysFor(d, t) == Where(d, "keys", {t})

PutCredential(d, t, field, value) ==
  Upsert(d, "creds", <<t, field>>, [tenant |-> t, value |-> value])
CredentialFor(d, t, field) ==
  IF <<t, field>> \in DOMAIN d.creds THEN d.creds[<<t, field>>].value ELSE None
ConnectorsConfigured(d, t) == {k[2] : k \in Where(d, "creds", {t})}

-----------------------------------------------------------------------------
(* Usage, plans and billing.                                                 *)

RecordRequest(d, t, hour) ==
  LET old == Get(d.usage, <<t, hour>>, [tenant |-> t, requests |-> 0])
  IN  Upsert(d, "usage", <<t, hour>>, [old EXCEPT !.requests = @ + 1])

UsageBuckets(d, root, since) ==
  {<<k[1], k[2], d.usage[k].requests>> :
     k \in {k \in Where(d, "usage", Subtree(d, root)) : k[2] >= since}}

GetPlan(d, t) == Get(d.plans, t, [tenant |-> t, name |-> "free"]).name

SetPlan(d, t, name) ==
  IF name \notin Plans \/ t \notin Tenants(d) THEN Raises(d)
  ELSE IF d.tenants[t] # None THEN Raises(d)
  ELSE Upsert(d, "plans", t, [tenant |-> t, name |-> name])

\* customer_id is UNIQUE; COALESCE keeps the one already known.
SaveBilling(d, t, customer, status) ==
  IF \E o \in DOMAIN d.billing \ {t} : customer # None /\ d.billing[o].customer = customer
  THEN Raises(d)
  ELSE Upsert(d, "billing", t,
         [tenant |-> t, status |-> status,
          customer |-> IF t \in DOMAIN d.billing THEN Known(customer, d.billing[t].customer)
                       ELSE customer])

BillingFor(d, t) ==
  IF t \in DOMAIN d.billing
  THEN [customer |-> d.billing[t].customer, status |-> d.billing[t].status]
  ELSE [customer |-> None, status |-> None]
TenantsForCustomer(d, c) == {t \in DOMAIN d.billing : d.billing[t].customer = c}

-----------------------------------------------------------------------------
(* Sign-ups, logins, sessions.                                               *)

AddSignup(d, token, email, password, expires) ==
  IF token \in DOMAIN d.signups THEN Raises(d)
  ELSE Returns([d EXCEPT !.signups = Put(@, token,
                  [email |-> email, password |-> password, expires |-> expires])], None)

LiveSignup(d, token, now) == token \in DOMAIN d.signups /\ d.signups[token].expires > now
SignupFor(d, token, now) ==
  IF LiveSignup(d, token, now)
  THEN <<d.signups[token].email, d.signups[token].password>> ELSE <<>>

\* The DELETE ... RETURNING takes live rows only; the rest is one transaction.
CompleteSignup(d, token, id, now) ==
  IF ~LiveSignup(d, token, now) THEN Returns(d, None)
  ELSE LET row == d.signups[token]
       IN  IF row.email \in DOMAIN d.accounts
           THEN Returns([d EXCEPT !.signups = Without(@, {token})], None)
           ELSE Returns(
                  [d EXCEPT
                     !.tenants = Put(@, id, None),
                     !.accounts = Put(@, row.email, [tenant |-> id, password |-> row.password]),
                     !.signups = Without(@, {k \in DOMAIN @ : @[k].email = row.email})], id)

AccountLogin(d, email) == Get(d.accounts, email, [tenant |-> None, password |-> None])

\* accounts has tenant_id UNIQUE.
AddAccount(d, t, email, password) ==
  IF \/ t \in Tenants(d) /\ d.tenants[t] # None
     \/ Where(d, "accounts", {t}) # {}
  THEN Raises(d)
  ELSE LET r == Insert(d, "accounts", email, [tenant |-> t, password |-> password])
       IN  IF r.says[1] = "raised" THEN r ELSE Returns(r.db, None)

\* Mutant: the password changes and the sessions stay.
ResetPasswordOnly(d, email, password) ==
  IF email \notin DOMAIN d.accounts THEN Raises(d)
  ELSE Returns([d EXCEPT !.accounts[email].password = password], d.accounts[email].tenant)

ResetPassword(d, email, password) ==
  IF email \notin DOMAIN d.accounts THEN Raises(d)
  ELSE LET t == d.accounts[email].tenant
       IN  Returns([d EXCEPT !.accounts[email].password = password,
                             !.sessions = Without(@, Rows(@, {t}))], t)

CreateSession(d, t, token, expires, now) ==
  LET r == Insert(d, "sessions", token,
             [tenant |-> t, expires |-> expires, seen |-> now, operator |-> None])
  IN  IF r.says[1] = "raised" THEN r ELSE Returns(r.db, None)

\* Mutant: the idle clock never moves.
TenantForSessionUntouched(d, token, now) ==
  LET live == /\ token \in DOMAIN d.sessions
              /\ d.sessions[token].tenant \in Tenants(d)
              /\ d.sessions[token].expires > now
              /\ d.sessions[token].seen + Idle > now
  IN  IF ~live THEN Returns(d, None)
      ELSE Returns(d, d.sessions[token].tenant)

\* One statement: live, touch when last seen long enough ago, and the tenant.
TenantForSession(d, token, now) ==
  LET live == /\ token \in DOMAIN d.sessions
              /\ d.sessions[token].tenant \in Tenants(d)
              /\ d.sessions[token].expires > now
              /\ d.sessions[token].seen + Idle > now
  IN  IF ~live THEN Returns(d, None)
      ELSE Returns(
             IF d.sessions[token].seen + Touch < now
             THEN [d EXCEPT !.sessions[token].seen = now] ELSE d,
             d.sessions[token].tenant)

DeleteSession(d, token) == Returns([d EXCEPT !.sessions = Without(@, {token})], None)

SetSessionOperator(d, token, until) ==
  IF token \in DOMAIN d.sessions
  THEN Returns([d EXCEPT !.sessions[token].operator = until], None)
  ELSE Returns(d, None)

SessionOperatorUntil(d, token, now) ==
  IF token \in DOMAIN d.sessions /\ d.sessions[token].expires > now
  THEN d.sessions[token].operator ELSE None

\* The nearest login on the way up: no login on a tenant strictly between.
AccountEmail(d, t) ==
  {e \in DOMAIN d.accounts :
     LET a == d.accounts[e].tenant
     IN  /\ t \in Subtree(d, a)
         /\ \A f \in DOMAIN d.accounts :
              LET b == d.accounts[f].tenant
              IN  t \in Subtree(d, b) => a \in Subtree(d, b)}

-----------------------------------------------------------------------------
(* Reconciliation runs.                                                      *)

AddRun(d, t, id, name, at) ==
  LET r == Insert(d, "runs", id, [tenant |-> t, name |-> name, at |-> at])
      same == {i \in Where(r.db, "runs", {t}) : r.db.runs[i].name = name}
      kept == Newest([i \in same |-> r.db.runs[i]], RunsKept)
  IN  IF r.says[1] = "raised" THEN r
      ELSE Returns([r.db EXCEPT !.runs = Without(@, same \ kept)], id)

ListRuns(d, t, n) == Newest([i \in Where(d, "runs", {t}) |-> d.runs[i]], n)

\* DISTINCT ON (tenant_id), newest first.
LatestRuns(d, ts, name) ==
  UNION {Newest([i \in {i \in Where(d, "runs", {t}) : d.runs[i].name = name} |-> d.runs[i]], 1) :
           t \in ts}

-----------------------------------------------------------------------------
(* Support.                                                                  *)

GetConversation(d, t, id) ==
  IF id \in Where(d, "conversations", {t}) THEN <<d.conversations[id].turns>> ELSE <<>>

\* ON CONFLICT (id) DO UPDATE only this tenant's row.
SaveConversation(d, t, id, turns, now) ==
  LET r == Upsert(d, "conversations", id, [tenant |-> t, turns |-> turns, updated |-> now])
  IN  IF \/ r.says[1] = "raised"
         \/ id \in DOMAIN d.conversations /\ d.conversations[id].tenant # t
      THEN Raises(d)
      ELSE Returns([r.db EXCEPT !.conversations =
                      Without(@, {c \in Rows(@, {t}) : @[c].updated + SupportKept < now})], id)

AddTicket(d, t, id, conversation) ==
  Insert(d, "tickets", id, [tenant |-> t, conversation |-> conversation, status |-> "open"])
GetTicket(d, id) == Get(d.tickets, id, [tenant |-> None, conversation |-> None, status |-> None])
ListTickets(d, status) == {i \in DOMAIN d.tickets : d.tickets[i].status = status}

SetTicketStatus(d, t, id, status) ==
  IF id \in Where(d, "tickets", {t})
  THEN Returns([d EXCEPT !.tickets[id].status = status], None) ELSE Raises(d)

AddReply(d, t, ticket, id, sent) ==
  Insert(d, "replies", id, [tenant |-> t, ticket |-> ticket, sent |-> sent])
RepliesFor(d, t, ticket) == {i \in Where(d, "replies", {t}) : d.replies[i].ticket = ticket}

\* operator_actions is append-only: its trigger refuses every other write.
LogOperator(d, id, action) == Returns([d EXCEPT !.log = Put(@, id, action)], None)
OperatorLog(d) == d.log

-----------------------------------------------------------------------------
(* Imported files and saved mappings.                                        *)

\* DELETE FROM import_files, and by cascade its rows.
TakeFiles(d, files) ==
  [d EXCEPT !.imports = Without(@, files),
            !.importRows = Without(@, {k \in DOMAIN @ : k[1] \in files})]

ExpiredFiles(d, now) == {f \in DOMAIN d.imports : d.imports[f].expires <= now}

\* A duplicate raises inside the transaction, so the prune is undone.
AddImport(d, t, id, sha, rows, now) ==
  LET left == TakeFiles(d, ExpiredFiles(d, now) \cap Where(d, "imports", {t}))
      r == Insert(left, "imports", id, [tenant |-> t, sha |-> sha, expires |-> now + ImportKept])
  IN  IF \/ r.says[1] = "raised"
         \/ \E f \in Where(left, "imports", {t}) : left.imports[f].sha = sha
      THEN Raises(d)
      ELSE Returns([r.db EXCEPT !.importRows =
                      [k \in DOMAIN @ \cup ({id} \X rows) |->
                         IF k[1] = id THEN [tenant |-> t] ELSE @[k]]], id)

LiveFiles(d, t, now) == Where(d, "imports", {t}) \ ExpiredFiles(d, now)
GetImport(d, t, id, now) == id \in LiveFiles(d, t, now)

DeleteImport(d, t, id) ==
  LET gone == {id} \cap Where(d, "imports", {t})
  IN  Returns(TakeFiles(d, gone), gone # {})

\* import_rows JOIN import_files.
ImportRows(d, t, now) == {k \in Where(d, "importRows", {t}) : k[1] \in LiveFiles(d, t, now)}

SaveLayout(d, t, name, mapping) ==
  IF Cardinality({k \in Where(d, "layouts", {t}) : k[2] # name}) >= LayoutsKept THEN Raises(d)
  ELSE LET r == Upsert(d, "layouts", <<t, name>>, [tenant |-> t, mapping |-> mapping])
       IN  IF r.says[1] = "raised" THEN r ELSE Returns(r.db, mapping)

ListLayouts(d, t) == {<<k[2], d.layouts[k].mapping>> : k \in Where(d, "layouts", {t})}

DeleteLayout(d, t, name) ==
  LET gone == {<<t, name>>} \cap Where(d, "layouts", {t})
  IN  Returns([d EXCEPT !.layouts = Without(@, gone)], gone # {})

SweepImports(d, now) ==
  Returns(TakeFiles(d, ExpiredFiles(d, now)), Cardinality(ExpiredFiles(d, now)))
================================================================================
