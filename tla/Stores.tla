--------------------------------- MODULE Stores ---------------------------------
(***************************************************************************)
(* The two stores behind the Store protocol, given the same calls: the     *)
(* in-memory one, "what tests and local development use", and the Postgres *)
(* one that "drops in behind the same interface" (store.py:1-9).  A test   *)
(* that passes on the first says something of the second exactly as far as *)
(* the two answer alike.                                                   *)
(***************************************************************************)
EXTENDS StoreTables

CONSTANTS
  TenantIds, Roots, Children, \* ids; the roots and the children there at first
  KeyIds, Fields, Values,     \* api keys; credential fields and what they hold
  Tokens, Emails, Passwords,  \* of signups and sessions
  Customers, Statuses,        \* of billing
  RunIds, Names, Items,       \* runs; names of runs and mappings; ids of the rest
  Hashes, RowNumbers,         \* of files
  Groups,                     \* which methods a behaviour calls
  SessionTTL, SignupTTL,
  MaxClock, MaxRequests       \* bounds: how late a behaviour of each group goes, requests an hour

VARIABLES
  mem, pg,   \* the two stores
  now,       \* the clock both read
  used,      \* every id given out: uuid4 never repeats one
  group,
  said       \* the answers to the last call, and whether the two are known to part on it

vars == <<mem, pg, now, used, group, said>>

M == INSTANCE MemoryStore
P == INSTANCE PostgresStore

\* Roots and their children, as create_tenant leaves them.
Parent == [t \in Roots \cup Children |-> IF t \in Roots THEN None ELSE CHOOSE r \in Roots : TRUE]

Silent == [memory |-> <<"returned", None>>, postgres |-> <<"returned", None>>, parts |-> FALSE]

Init ==
  /\ mem = [M!NewStore EXCEPT !.tenants = Parent]
  /\ pg = [P!NewDatabase EXCEPT !.tenants = Parent]
  /\ now = 0
  /\ used = Roots \cup Children
  /\ group \in Groups
  /\ said = Silent

-----------------------------------------------------------------------------
\* One call, given to both.  `parts` says that their answers are known to differ.
Parting(m, p, parts) ==
  /\ mem' = m.db
  /\ pg' = p.db
  /\ said' = [memory |-> m.says, postgres |-> p.says, parts |-> parts]
  /\ UNCHANGED <<now, group>>
Call(m, p) == Parting(m, p, FALSE) /\ UNCHANGED used
Fresh(id) == id \notin used /\ used' = used \cup {id}
New(id, m, p) == Fresh(id) /\ Parting(m, p, FALSE)

Gone(t) == t \notin P!Tenants(pg)
Named == TenantIds \cap used   \* a caller names a tenant it has seen

CreateTenant == \E t \in TenantIds, up \in Named \cup {None} :
  New(t, M!CreateTenant(mem, t, up), P!CreateTenant(pg, t, up))
DeleteTenant == \E t \in Named : Call(M!DeleteTenant(mem, t), P!DeleteTenant(pg, t))

KeysAndCredentials ==
  \/ \E t \in Named, k \in KeyIds : New(k, M!IssueKey(mem, t, k), P!IssueKey(pg, t, k))
  \/ \E k \in KeyIds :
       /\ Parting(M!RevokeKey(mem, k), P!RevokeKey(pg, k),
                  k \in DOMAIN pg.keys /\ ~pg.keys[k].active)
       /\ UNCHANGED used
  \/ \E t \in Named, f \in Fields, v \in Values :
       Call(M!PutCredential(mem, t, f, v), P!PutCredential(pg, t, f, v))

\* A request is metered once it has been answered, so its tenant may have gone.
UsageAndPlans ==
  \/ \E t \in Named :
       /\ Get(mem.usage, <<t, now>>, 0) < MaxRequests
       /\ Parting(M!RecordRequest(mem, t, now), P!RecordRequest(pg, t, now), Gone(t))
       /\ UNCHANGED used
  \/ \E t \in Named, name \in Plans : Call(M!SetPlan(mem, t, name), P!SetPlan(pg, t, name))

\* Stripe makes a customer for one tenant.
Billing == \E t \in Named, c \in Customers \cup {None}, s \in Statuses :
  /\ \A o \in P!TenantsForCustomer(pg, c) : c = None \/ o = t
  /\ Call(M!SaveBilling(mem, t, c, s), P!SaveBilling(pg, t, c, s))

Logins ==
  \/ \E k \in Tokens, e \in Emails, w \in Passwords :
       New(k, M!AddSignup(mem, k, e, w, now + SignupTTL), P!AddSignup(pg, k, e, w, now + SignupTTL))
  \/ \E k \in Tokens, t \in TenantIds :
       New(t, M!CompleteSignup(mem, k, t, now), P!CompleteSignup(pg, k, t, now))
  \/ \E t \in Named, e \in Emails, w \in Passwords :
       Call(M!AddAccount(mem, t, e, w), P!AddAccount(pg, t, e, w))
  \/ \E e \in Emails, w \in Passwords :
       Call(M!ResetPassword(mem, e, w), P!ResetPassword(pg, e, w))

\* A session opens for the tenant of a login read a moment ago.
Sessions ==
  \/ \E k \in Tokens, t \in Named :
       /\ Fresh(k)
       /\ Parting(M!CreateSession(mem, t, k, now + SessionTTL, now),
                  P!CreateSession(pg, t, k, now + SessionTTL, now), Gone(t))
  \/ \E t \in Roots, e \in Emails, w \in Passwords :
       /\ now = 0   \* a bound: a login and its resets come before the clock moves
       /\ \/ Call(M!AddAccount(mem, t, e, w), P!AddAccount(pg, t, e, w))
          \/ Call(M!ResetPassword(mem, e, w), P!ResetPassword(pg, e, w))
  \/ \E k \in Tokens :
       \/ Call(M!TenantForSession(mem, k, now), P!TenantForSession(pg, k, now))
       \/ Call(M!DeleteSession(mem, k), P!DeleteSession(pg, k))
       \/ \E until \in {None, now + 1} :
            Call(M!SetSessionOperator(mem, k, until), P!SetSessionOperator(pg, k, until))

Runs == \E t \in Named, id \in RunIds, name \in Names, at \in 0 .. now :
  New(id, M!AddRun(mem, t, id, name, at), P!AddRun(pg, t, id, name, at))

Conversations == \E t \in Named, id \in Items, n \in 1 .. 2 :
  Call(M!SaveConversation(mem, t, id, n, now), P!SaveConversation(pg, t, id, n, now))

\* An operator answers a ticket that may go with its tenant meanwhile.
Tickets ==
  \/ \E t \in Named, id \in Items :
       New(<<"ticket", id>>, M!AddTicket(mem, t, id, None), P!AddTicket(pg, t, id, None))
  \/ \E t \in Named, id \in Items, s \in {"answered", "resolved"} :
       Call(M!SetTicketStatus(mem, t, id, s), P!SetTicketStatus(pg, t, id, s))
  \/ \E t \in Named, k \in Items, id \in Items :
       /\ Fresh(<<"reply", id>>)
       /\ Parting(M!AddReply(mem, t, k, id, TRUE), P!AddReply(pg, t, k, id, TRUE), Gone(t))
  \/ \E id \in Items :
       New(<<"log", id>>, M!LogOperator(mem, id, "read"), P!LogOperator(pg, id, "read"))

\* A file kept past its time may be gone from one store and not from the other.
Files ==
  \/ \E t \in Named, id \in Items, h \in Hashes, rows \in SUBSET RowNumbers :
       New(id, M!AddImport(mem, t, id, h, rows, now), P!AddImport(pg, t, id, h, rows, now))
  \/ \E t \in Named, id \in Items :
       /\ Parting(M!DeleteImport(mem, t, id), P!DeleteImport(pg, t, id),
                  id \in P!ExpiredFiles(pg, now))
       /\ UNCHANGED used
  \/ /\ Parting(M!SweepImports(mem, now), P!SweepImports(pg, now), P!ExpiredFiles(pg, now) # {})
     /\ UNCHANGED used

Layouts == \E t \in Named, name \in Names :
  \/ \E v \in Values : Call(M!SaveLayout(mem, t, name, v), P!SaveLayout(pg, t, name, v))
  \/ Call(M!DeleteLayout(mem, t, name), P!DeleteLayout(pg, t, name))

Tick ==
  /\ now < MaxClock[group]
  /\ now' = now + 1
  /\ said' = Silent
  /\ UNCHANGED <<mem, pg, used, group>>

Next ==
  \/ group \in {"keys", "usage", "logins"} /\ CreateTenant
  \/ DeleteTenant
  \/ Tick
  \/ group = "keys"     /\ KeysAndCredentials
  \/ group = "usage"    /\ UsageAndPlans
  \/ group = "billing"  /\ Billing
  \/ group = "logins"   /\ Logins
  \/ group = "sessions" /\ Sessions
  \/ group = "runs"     /\ Runs
  \/ group = "support"  /\ Conversations
  \/ group = "tickets"  /\ Tickets
  \/ group = "files"    /\ Files
  \/ group = "layouts"  /\ Layouts

Spec == Init /\ [][Next]_vars

-----------------------------------------------------------------------------
(* Properties.                                                               *)

\* The two stores give the same answer to every call of the protocol, however
\* long the calls before it, except on the five they are known to part on: a
\* revoked key revoked again, usage, a session or a reply recorded for a tenant
\* that has gone, and the deletion of a file past its time.
SameAnswers == said.parts \/ said.memory = said.postgres

\* Whatever the calls, also those the two part on, what can be read back of the
\* tenants there are is the same in both.
SameReads ==
  /\ M!Tenants(mem) = P!Tenants(pg) /\ mem.tenants = pg.tenants
  /\ \A k \in KeyIds : /\ M!TenantForKey(mem, k) = P!TenantForKey(pg, k)
                       /\ M!KeyOwner(mem, k) = P!KeyOwner(pg, k)
  /\ \A k \in Tokens : M!SignupFor(mem, k, now) = P!SignupFor(pg, k, now)
  /\ \A e \in Emails : M!AccountLogin(mem, e) = P!AccountLogin(pg, e)
  /\ \A t \in TenantIds :
       /\ M!KeysFor(mem, t) = P!KeysFor(pg, t)
       /\ \A f \in Fields : M!CredentialFor(mem, t, f) = P!CredentialFor(pg, t, f)
       /\ M!ConnectorsConfigured(mem, t) = P!ConnectorsConfigured(pg, t)
       /\ M!GetPlan(mem, t) = P!GetPlan(pg, t)
       /\ M!BillingFor(mem, t) = P!BillingFor(pg, t)
       /\ M!AccountEmail(mem, t) = P!AccountEmail(pg, t)
       /\ \A n \in 1 .. 2 : M!ListRuns(mem, t, n) = P!ListRuns(pg, t, n)
       /\ \A id \in Items : /\ M!GetConversation(mem, t, id) = P!GetConversation(pg, t, id)
                            /\ M!GetImport(mem, t, id, now) = P!GetImport(pg, t, id, now)
       /\ M!ImportRows(mem, t, now) = P!ImportRows(pg, t, now)
       /\ M!ListLayouts(mem, t) = P!ListLayouts(pg, t)
  /\ \A t \in P!Tenants(pg) :
       /\ \A since \in 0 .. now : M!UsageBuckets(mem, t, since) = P!UsageBuckets(pg, t, since)
       /\ \A id \in Items : M!RepliesFor(mem, t, id) = P!RepliesFor(pg, t, id)
  /\ \A c \in Customers : M!TenantsForCustomer(mem, c) = P!TenantsForCustomer(pg, c)
  /\ \A name \in Names : M!LatestRuns(mem, TenantIds, name) = P!LatestRuns(pg, TenantIds, name)
  /\ \A id \in Items : M!GetTicket(mem, id) = P!GetTicket(pg, id)
  /\ \A s \in {"open", "answered", "resolved"} : M!ListTickets(mem, s) = P!ListTickets(pg, s)
  /\ M!OperatorLog(mem) = P!OperatorLog(pg)
  /\ \A k \in Tokens : \* as the console asks: of a session that is live
       P!TenantForSession(pg, k, now).says[2] # None =>
         M!SessionOperatorUntil(mem, k, now) = P!SessionOperatorUntil(pg, k, now)
================================================================================
