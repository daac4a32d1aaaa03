------------------------------ MODULE MemoryStore ------------------------------
(***************************************************************************)
(* MemoryStore (packages/vault/okwan_vault/store.py), "what tests and      *)
(* local development use".  Nothing in a method awaits anything that       *)
(* suspends, so a method is one step; its tables are dictionaries, and     *)
(* what a table holds about a tenant is what the code says and no more.    *)
(***************************************************************************)
EXTENDS StoreTables

Empty == [x \in {} |-> None]

\* Every dictionary of __init__.  `tenants` maps an id to its parent.
NewStore ==
  [tenants |-> Empty, keys |-> Empty, creds |-> Empty, usage |-> Empty, plans |-> Empty,
   signups |-> Empty, accounts |-> Empty, sessions |-> Empty, sessionSeen |-> Empty,
   billing |-> Empty, runs |-> Empty, conversations |-> Empty, tickets |-> Empty,
   replies |-> Empty, operatorUntil |-> Empty, log |-> Empty,
   imports |-> Empty, layouts |-> Empty]

Tenants(d) == DOMAIN d.tenants
IsRoot(d, t) == d.tenants[t] = None
Of(f, S) == {k \in DOMAIN f : f[k].tenant \in S}

\* The loop of _subtree: grow by one level until nothing changes.
Subtree(d, root) ==
  LET grown[n \in 0 .. Cardinality(Tenants(d))] ==
        IF n = 0 THEN {root}
        ELSE grown[n - 1] \cup {t \in Tenants(d) : d.tenants[t] \in grown[n - 1]}
  IN  grown[Cardinality(Tenants(d))]

-----------------------------------------------------------------------------
(* Tenants, keys, credentials.                                               *)

CreateTenant(d, id, parent) ==
  IF parent # None /\ parent \notin Tenants(d) THEN Raises(d)
  ELSE Returns([d EXCEPT !.tenants = Put(@, id, parent)], id)

DeleteTenant(d, t) ==
  IF t \notin Tenants(d) THEN Returns(d, {})
  ELSE LET gone   == Subtree(d, t)
           emails == Of(d.accounts, gone)
           Drop(f) == Without(f, Of(f, gone))
           DropBy(f, K(_)) == Without(f, {k \in DOMAIN f : K(k) \in gone})
       IN  Returns(
             [d EXCEPT !.tenants = Without(@, gone), !.keys = Drop(@),
                !.creds = DropBy(@, LAMBDA k : k[1]), !.usage = DropBy(@, LAMBDA k : k[1]),
                !.plans = Without(@, gone),
                !.signups = Without(@, {k \in DOMAIN @ : @[k].email \in emails}),
                !.accounts = Drop(@), !.sessions = Drop(@), !.runs = Drop(@),
                !.conversations = Drop(@), !.tickets = Drop(@), !.replies = Drop(@),
                !.billing = Without(@, gone), !.imports = Drop(@),
                !.layouts = DropBy(@, LAMBDA k : k[1])],
             gone)

IssueKey(d, t, id) ==
  IF t \notin Tenants(d) THEN Raises(d)
  ELSE Returns([d EXCEPT !.keys = Put(@, id, [tenant |-> t, active |-> TRUE])], id)

RevokeKey(d, id) ==
  IF id \notin DOMAIN d.keys THEN Raises(d)
  ELSE Returns([d EXCEPT !.keys[id].active = FALSE], None)

TenantForKey(d, id) ==
  IF id \in DOMAIN d.keys /\ d.keys[id].active /\ d.keys[id].tenant \in Tenants(d)
  THEN d.keys[id].tenant ELSE None

KeyOwner(d, id) == IF id \in DOMAIN d.keys THEN d.keys[id].tenant ELSE None
KeysFor(d, t) == Of(d.keys, {t})

PutCredential(d, t, field, value) ==
  IF t \notin Tenants(d) THEN Raises(d)
  ELSE Returns([d EXCEPT !.creds = Put(@, <<t, field>>, value)], None)

CredentialFor(d, t, field) == Get(d.creds, <<t, field>>, None)
ConnectorsConfigured(d, t) == {k[2] : k \in {k \in DOMAIN d.creds : k[1] = t}}

-----------------------------------------------------------------------------
(* Usage, plans and billing.                                                 *)

RecordRequest(d, t, hour) ==
  Returns([d EXCEPT !.usage = Put(@, <<t, hour>>, Get(@, <<t, hour>>, 0) + 1)], None)

UsageBuckets(d, root, since) ==
  {<<k[1], k[2], d.usage[k]>> :
     k \in {k \in DOMAIN d.usage : k[1] \in Subtree(d, root) /\ k[2] >= since}}

GetPlan(d, t) == Get(d.plans, t, "free")

SetPlan(d, t, name) ==
  IF name \notin Plans \/ t \notin Tenants(d) THEN Raises(d)
  ELSE IF ~IsRoot(d, t) THEN Raises(d)
  ELSE Returns([d EXCEPT !.plans = Put(@, t, name)], None)

\* An empty id keeps the one already known.
SaveBilling(d, t, customer, status) ==
  IF t \notin Tenants(d) THEN Raises(d)
  ELSE LET old == Get(d.billing, t, [customer |-> None, status |-> None])
       IN  Returns([d EXCEPT !.billing =
                      Put(@, t, [customer |-> Known(customer, old.customer),
                                 status |-> status])], None)

BillingFor(d, t) == Get(d.billing, t, [customer |-> None, status |-> None])
TenantsForCustomer(d, c) == {t \in DOMAIN d.billing : d.billing[t].customer = c}

-----------------------------------------------------------------------------
(* Sign-ups, logins, sessions.                                               *)

AddSignup(d, token, email, password, expires) ==
  Returns([d EXCEPT !.signups = Put(@, token,
             [email |-> email, password |-> password, expires |-> expires])], None)

SignupFor(d, token, now) ==
  IF token \in DOMAIN d.signups /\ d.signups[token].expires > now
  THEN <<d.signups[token].email, d.signups[token].password>> ELSE <<>>

CompleteSignup(d, token, id, now) ==
  LET found == SignupFor(d, token, now)
      popped == [d EXCEPT !.signups = Without(@, {token})]
  IN  IF found = <<>> \/ found[1] \in DOMAIN d.accounts
      THEN Returns(popped, None)
      ELSE Returns(
             [popped EXCEPT
                !.tenants = Put(@, id, None),
                !.accounts = Put(@, found[1], [tenant |-> id, password |-> found[2]]),
                !.signups = Without(@, {k \in DOMAIN @ : @[k].email = found[1]})],
             id)

AccountLogin(d, email) == Get(d.accounts, email, [tenant |-> None, password |-> None])

AddAccount(d, t, email, password) ==
  IF \/ t \notin Tenants(d) \/ ~IsRoot(d, t)
     \/ Of(d.accounts, {t}) # {} \/ email \in DOMAIN d.accounts
  THEN Raises(d)
  ELSE Returns([d EXCEPT !.accounts = Put(@, email, [tenant |-> t, password |-> password])],
               None)

ResetPassword(d, email, password) ==
  IF email \notin DOMAIN d.accounts THEN Raises(d)
  ELSE LET t == d.accounts[email].tenant
       IN  Returns([d EXCEPT !.accounts[email].password = password,
                             !.sessions = Without(@, Of(@, {t}))], t)

CreateSession(d, t, token, expires, now) ==
  Returns([d EXCEPT !.sessions = Put(@, token, [tenant |-> t, expires |-> expires]),
                    !.sessionSeen = Put(@, token, now)], None)

TenantForSession(d, token, now) ==
  LET seen == Get(d.sessionSeen, token, now)
  IN  IF \/ token \notin DOMAIN d.sessions
         \/ d.sessions[token].expires <= now \/ seen + Idle <= now
      THEN Returns(d, None)
      ELSE Returns(
             IF seen + Touch < now THEN [d EXCEPT !.sessionSeen = Put(@, token, now)] ELSE d,
             IF d.sessions[token].tenant \in Tenants(d) THEN d.sessions[token].tenant ELSE None)

DeleteSession(d, token) ==
  Returns([d EXCEPT !.sessions = Without(@, {token}), !.sessionSeen = Without(@, {token})], None)

SetSessionOperator(d, token, until) ==
  IF until = None THEN Returns([d EXCEPT !.operatorUntil = Without(@, {token})], None)
  ELSE IF token \in DOMAIN d.sessions
  THEN Returns([d EXCEPT !.operatorUntil = Put(@, token, until)], None)
  ELSE Returns(d, None)

SessionOperatorUntil(d, token, now) ==
  IF token \in DOMAIN d.sessions THEN Get(d.operatorUntil, token, None) ELSE None

\* Up the tree from t to the nearest login.
AccountEmail(d, t) ==
  LET up[n \in 0 .. Cardinality(Tenants(d))] ==
        IF n = 0 THEN IF t \in Tenants(d) THEN t ELSE None
        ELSE IF up[n - 1] = None \/ Of(d.accounts, {up[n - 1]}) # {} THEN up[n - 1]
        ELSE d.tenants[up[n - 1]]
  IN  Of(d.accounts, {up[Cardinality(Tenants(d))]})

-----------------------------------------------------------------------------
(* Reconciliation runs.                                                      *)

AddRun(d, t, id, name, at) ==
  IF t \notin Tenants(d) THEN Raises(d)
  ELSE LET added == Put(d.runs, id, [tenant |-> t, name |-> name, at |-> at])
           same  == {i \in DOMAIN added : added[i].tenant = t /\ added[i].name = name}
           kept  == Newest([i \in same |-> added[i]], RunsKept)
       IN  Returns([d EXCEPT !.runs = Without(added, same \ kept)], id)

ListRuns(d, t, n) == Newest([i \in Of(d.runs, {t}) |-> d.runs[i]], n)

LatestRuns(d, ts, name) ==
  {i \in Of(d.runs, ts) : d.runs[i].name = name /\
     \A j \in Of(d.runs, {d.runs[i].tenant}) :
       d.runs[j].name = name => ~Later(d.runs[j].at, j, d.runs[i].at, i)}

-----------------------------------------------------------------------------
(* Support.                                                                  *)

GetConversation(d, t, id) ==
  IF id \in Of(d.conversations, {t}) THEN <<d.conversations[id].turns>> ELSE <<>>

\* Insert or replace, then drop what the tenant left untouched.
SaveConversation(d, t, id, turns, now) ==
  IF \/ t \notin Tenants(d)
     \/ id \in DOMAIN d.conversations /\ d.conversations[id].tenant # t
  THEN Raises(d)
  ELSE LET saved == Put(d.conversations, id, [tenant |-> t, turns |-> turns, updated |-> now])
           stale == {c \in Of(saved, {t}) : saved[c].updated + SupportKept < now}
       IN  Returns([d EXCEPT !.conversations = Without(saved, stale)], id)

AddTicket(d, t, id, conversation) ==
  IF t \notin Tenants(d) THEN Raises(d)
  ELSE Returns([d EXCEPT !.tickets = Put(@, id, [tenant |-> t, conversation |-> conversation,
                                                 status |-> "open"])], id)

GetTicket(d, id) == Get(d.tickets, id, [tenant |-> None, conversation |-> None, status |-> None])
ListTickets(d, status) == {i \in DOMAIN d.tickets : d.tickets[i].status = status}

SetTicketStatus(d, t, id, status) ==
  IF id \notin Of(d.tickets, {t}) THEN Raises(d)
  ELSE Returns([d EXCEPT !.tickets[id].status = status], None)

AddReply(d, t, ticket, id, sent) ==
  Returns([d EXCEPT !.replies = Put(@, id, [tenant |-> t, ticket |-> ticket, sent |-> sent])], id)

RepliesFor(d, t, ticket) == {i \in Of(d.replies, {t}) : d.replies[i].ticket = ticket}

LogOperator(d, id, action) == Returns([d EXCEPT !.log = Put(@, id, action)], None)
OperatorLog(d) == d.log

-----------------------------------------------------------------------------
(* Imported files and saved mappings.                                        *)

Expired(d, now) == {f \in DOMAIN d.imports : d.imports[f].expires <= now}

AddImport(d, t, id, sha, rows, now) ==
  IF t \notin Tenants(d) THEN Raises(d)
  ELSE LET left == [d EXCEPT !.imports = Without(@, Expired(d, now) \cap Of(@, {t}))]
       IN  IF \E f \in Of(left.imports, {t}) : left.imports[f].sha = sha
           THEN Raises(left)
           ELSE Returns([left EXCEPT !.imports = Put(@, id,
                  [tenant |-> t, sha |-> sha, rows |-> rows, expires |-> now + ImportKept])], id)

LiveImports(d, t, now) == Of(d.imports, {t}) \ Expired(d, now)
GetImport(d, t, id, now) == id \in LiveImports(d, t, now)

DeleteImport(d, t, id) ==
  IF id \notin Of(d.imports, {t}) THEN Returns(d, FALSE)
  ELSE Returns([d EXCEPT !.imports = Without(@, {id})], TRUE)

ImportRows(d, t, now) ==
  UNION {{<<f, n>> : n \in d.imports[f].rows} : f \in LiveImports(d, t, now)}

SaveLayout(d, t, name, mapping) ==
  IF \/ t \notin Tenants(d)
     \/ Cardinality({k \in DOMAIN d.layouts : k[1] = t /\ k[2] # name}) >= LayoutsKept
  THEN Raises(d)
  ELSE Returns([d EXCEPT !.layouts = Put(@, <<t, name>>, mapping)], mapping)

ListLayouts(d, t) == {<<k[2], d.layouts[k]>> : k \in {k \in DOMAIN d.layouts : k[1] = t}}

DeleteLayout(d, t, name) ==
  Returns([d EXCEPT !.layouts = Without(@, {<<t, name>>})], <<t, name>> \in DOMAIN d.layouts)

SweepImports(d, now) ==
  Returns([d EXCEPT !.imports = Without(@, Expired(d, now))], Cardinality(Expired(d, now)))
================================================================================
