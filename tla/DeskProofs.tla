------------------------------- MODULE DeskProofs -------------------------------
(***************************************************************************)
(* For every set of operators, sessions, tickets, conversations, messages  *)
(* and requests: the console's door, the replies it sends, and what the    *)
(* assistant keeps of what it answered.                                    *)
(*                                                                         *)
(* One invariant to a part, each inductive once those before it hold:      *)
(* DeskInv (codes, sessions, requests), ReplyInv (mails, replies, answered *)
(* tickets) and TalkInv (conversations and tickets).  A step of one part   *)
(* is seen by another only as what it does to the tables: Falls, Fades,    *)
(* Drifts.                                                                 *)
(***************************************************************************)
EXTENDS Desk, TLAPS

\* Only the tables of a vault.
Vault(d) == d = [n \in Tables |-> d[n]]

-----------------------------------------------------------------------------
(* The vault: accounts without a parent, their logins and their sessions.    *)

SessionRow(k, row, open) ==
  /\ k \in DOMAIN open
  /\ row = [tenant |-> Logins[open[k].email], expires |-> SessionTTL, seen |-> row.seen,
            operator |-> row.operator]
  /\ row.seen \in Nat

VaultHolds(d, open) ==
  /\ Vault(d)
  /\ \A t \in Tenants(d) : d.tenants[t] = None /\ t # None
  /\ \A e \in DOMAIN d.accounts :
       /\ e \in DOMAIN Logins
       /\ d.accounts[e] = [tenant |-> Logins[e], password |-> d.accounts[e].password]
  /\ \A k \in DOMAIN d.sessions :
       SessionRow(k, d.sessions[k], open) /\ d.sessions[k].tenant \in Tenants(d)

\* What every write but a touch and an unlock does to the sessions.
Falls(d, e) ==
  /\ Tenants(e) \subseteq Tenants(d)
  /\ DOMAIN e.sessions \subseteq DOMAIN d.sessions
  /\ \A k \in DOMAIN e.sessions : e.sessions[k] = d.sessions[k]

\* Without parents, an account's subtree is itself.
LEMMA RootsAlone ==
  ASSUME NEW d, NEW open, VaultHolds(d, open), NEW a
  PROVE  Subtree(d, a) = {a} \cap Tenants(d)
<1>1. ASSUME NEW t \in Subtree(d, a) PROVE t = a /\ a \in Tenants(d)
  <2>1. t \in Tenants(d) /\ \A S \in SUBSET Tenants(d) :
          (a \in Tenants(d) => a \in S) /\ (\A c \in Tenants(d) : d.tenants[c] \in S => c \in S)
            => t \in S /\ a \in Tenants(d)
    BY <1>1 DEF Subtree
  <2>2. {a} \cap Tenants(d) \in SUBSET Tenants(d)
    OBVIOUS
  <2>3. \A c \in Tenants(d) : d.tenants[c] \in {a} \cap Tenants(d) => c \in {a} \cap Tenants(d)
    BY DEF VaultHolds
  <2> QED BY <2>1, <2>2, <2>3
<1>2. ASSUME a \in Tenants(d) PROVE a \in Subtree(d, a)
  BY <1>2 DEF Subtree
<1> QED BY <1>1, <1>2

\* A write that leaves accounts, logins and sessions alone.
LEMMA OthersFall ==
  ASSUME NEW d, NEW e, NEW open, VaultHolds(d, open), Vault(e),
         e.tenants = d.tenants, e.accounts = d.accounts, e.sessions = d.sessions
  PROVE  VaultHolds(e, open) /\ Falls(d, e)
BY DEF VaultHolds, Falls, Tenants

\* A row put into another table leaves accounts, logins and sessions alone.
LEMMA InsertFalls ==
  ASSUME NEW d, NEW open, VaultHolds(d, open),
         NEW n \in Tables \ {"tenants", "accounts", "sessions"}, NEW k, NEW row
  PROVE  /\ VaultHolds(Insert(d, n, k, row).db, open) /\ Falls(d, Insert(d, n, k, row).db)
         /\ VaultHolds(Upsert(d, n, k, row).db, open) /\ Falls(d, Upsert(d, n, k, row).db)
<1>1. ASSUME NEW e \in {Insert(d, n, k, row).db, Upsert(d, n, k, row).db}
      PROVE  VaultHolds(e, open) /\ Falls(d, e)
  <2>1. e = d \/ e = [d EXCEPT ![n] = Put(@, k, row)]
    BY DEF Insert, Upsert, Raises, Returns
  <2>2. Vault(e) /\ e.tenants = d.tenants /\ e.accounts = d.accounts /\ e.sessions = d.sessions
    BY <2>1 DEF VaultHolds, Vault, Tables, TenantTables
  <2> QED BY <2>2, OthersFall
<1> QED BY <1>1

\* So does a conversation saved, with the expired ones it sweeps.
LEMMA SaveFalls ==
  ASSUME NEW d, NEW open, VaultHolds(d, open), NEW t, NEW id, NEW turns, NEW at
  PROVE  /\ VaultHolds(SaveConversation(d, t, id, turns, at).db, open)
         /\ Falls(d, SaveConversation(d, t, id, turns, at).db)
<1> DEFINE r == Upsert(d, "conversations", id, [tenant |-> t, turns |-> turns, updated |-> at])
           e == SaveConversation(d, t, id, turns, at).db
<1>1. PICK gone : e = d \/ e = [r.db EXCEPT !.conversations = Without(@, gone)]
  <2> HIDE DEF r
  <2> QED BY DEF SaveConversation, Returns, Raises, r
<1>2. "conversations" \in Tables \ {"tenants", "accounts", "sessions"}
  BY DEF Tables, TenantTables
<1>3. r.db = d \/ r.db = [d EXCEPT !["conversations"] =
                            Put(@, id, [tenant |-> t, turns |-> turns, updated |-> at])]
  BY DEF Upsert, Raises, Returns
<1> HIDE DEF r, e
<1>4. Vault(e) /\ e.tenants = d.tenants /\ e.accounts = d.accounts /\ e.sessions = d.sessions
  BY <1>1, <1>2, <1>3 DEF VaultHolds, Vault, Tables, TenantTables
<1> QED BY <1>4, OthersFall DEF e

\* So does a ticket's status.
LEMMA StatusFalls ==
  ASSUME NEW d, NEW open, VaultHolds(d, open), NEW t, NEW id, NEW status
  PROVE  /\ VaultHolds(SetTicketStatus(d, t, id, status).db, open)
         /\ Falls(d, SetTicketStatus(d, t, id, status).db)
<1> DEFINE e == SetTicketStatus(d, t, id, status).db
<1>1. Vault(e) /\ e.tenants = d.tenants /\ e.accounts = d.accounts /\ e.sessions = d.sessions
  BY DEF SetTicketStatus, Raises, Returns, VaultHolds, Vault, Tables, TenantTables
<1> HIDE DEF e
<1> QED BY <1>1, OthersFall DEF e

\* So does a line of the operator log.
LEMMA LogFalls ==
  ASSUME NEW d, NEW open, VaultHolds(d, open), NEW id, NEW action
  PROVE  VaultHolds(LogOperator(d, id, action).db, open) /\ Falls(d, LogOperator(d, id, action).db)
<1> DEFINE e == LogOperator(d, id, action).db
<1>1. Vault(e) /\ e.tenants = d.tenants /\ e.accounts = d.accounts /\ e.sessions = d.sessions
  BY DEF LogOperator, Returns, VaultHolds, Vault, Tables, TenantTables
<1> HIDE DEF e
<1> QED BY <1>1, OthersFall DEF e

\* A session signed out is the only one to go.
LEMMA DeleteSessionFalls ==
  ASSUME NEW d, NEW open, VaultHolds(d, open), NEW k
  PROVE  VaultHolds(DeleteSession(d, k).db, open) /\ Falls(d, DeleteSession(d, k).db)
<1> DEFINE e == DeleteSession(d, k).db
<1>1. /\ Vault(e) /\ e.tenants = d.tenants /\ e.accounts = d.accounts
      /\ e.sessions = Without(d.sessions, {k})
  BY DEF DeleteSession, Returns, VaultHolds, Vault, Tables, TenantTables
<1> HIDE DEF e
<1>2. VaultHolds(e, open) /\ Falls(d, e)
  BY <1>1 DEF VaultHolds, Falls, Tenants, Without
<1> QED BY <1>2 DEF e

\* A password reset ends sessions and opens none.
LEMMA ResetFalls ==
  ASSUME NEW d, NEW open, VaultHolds(d, open), NEW email, NEW password
  PROVE  /\ VaultHolds(ResetPassword(d, email, password).db, open)
         /\ Falls(d, ResetPassword(d, email, password).db)
<1> DEFINE e == ResetPassword(d, email, password).db
<1>1. CASE email \notin DOMAIN d.accounts
  BY <1>1 DEF ResetPassword, Raises, Falls
<1>2. CASE email \in DOMAIN d.accounts
  <2>1. /\ Vault(e) /\ e.tenants = d.tenants
        /\ DOMAIN e.accounts = DOMAIN d.accounts
        /\ \A x \in DOMAIN d.accounts \ {email} : e.accounts[x] = d.accounts[x]
        /\ e.accounts[email] = [d.accounts[email] EXCEPT !.password = password]
        /\ e.sessions = Without(d.sessions, Rows(d.sessions, {d.accounts[email].tenant}))
    BY <1>2 DEF ResetPassword, Returns, VaultHolds, Vault, Tables, TenantTables
  <2> HIDE DEF e
  <2>2. d.accounts[email] = [tenant |-> Logins[email], password |-> d.accounts[email].password]
    BY <1>2 DEF VaultHolds
  <2>3. e.accounts[email] = [tenant |-> Logins[email], password |-> e.accounts[email].password]
    BY <2>1, <2>2
  <2>4. VaultHolds(e, open) /\ Falls(d, e)
    BY <2>1, <2>3 DEF VaultHolds, Falls, Tenants, Without
  <2> QED BY <2>4 DEF e
<1> QED BY <1>1, <1>2

\* An account closed takes its login and its sessions, and nobody else's.
LEMMA DeleteFalls ==
  ASSUME NEW d, NEW open, VaultHolds(d, open), NEW t
  PROVE  VaultHolds(DeleteTenant(d, t).db, open) /\ Falls(d, DeleteTenant(d, t).db)
<1> DEFINE ids == Subtree(d, t)
           e == DeleteTenant(d, t).db
<1> HIDE DEF ids
<1>2. CASE ids = {}
  BY <1>2 DEF DeleteTenant, Returns, Falls, ids
<1>3. CASE ids # {}
  <2>1. /\ Vault(e)
        /\ e.tenants = Without(d.tenants, ids)
        /\ e.accounts = Without(d.accounts, Rows(d.accounts, ids))
        /\ e.sessions = Without(d.sessions, Rows(d.sessions, ids))
    BY <1>3 DEF DeleteTenant, Returns, Cascade, Tables, TenantTables, ids, Vault
  <2> HIDE DEF e
  <2>2. Tenants(e) = Tenants(d) \ ids /\ \A x \in Tenants(e) : e.tenants[x] = d.tenants[x]
    BY <2>1 DEF Without, Tenants
  <2>3. /\ DOMAIN e.sessions = {k \in DOMAIN d.sessions : d.sessions[k].tenant \notin ids}
        /\ \A k \in DOMAIN e.sessions : e.sessions[k] = d.sessions[k]
    BY <2>1 DEF Without, Rows
  <2>4. /\ DOMAIN e.accounts \subseteq DOMAIN d.accounts
        /\ \A k \in DOMAIN e.accounts : e.accounts[k] = d.accounts[k]
    BY <2>1 DEF Without
  <2>5. VaultHolds(e, open) /\ Falls(d, e)
    BY <2>1, <2>2, <2>3, <2>4 DEF VaultHolds, Falls
  <2> QED BY <2>5 DEF e
<1> QED BY <1>2, <1>3

\* The assistant's vault is the console's.
LEMMA SameVault ==
  ASSUME NEW d, NEW t, NEW id, NEW x, NEW at
  PROVE  /\ Support!AddTicket(d, t, id, x) = AddTicket(d, t, id, x)
         /\ Support!SaveConversation(d, t, id, x, at) = SaveConversation(d, t, id, x, at)
         /\ Support!GetConversation(d, t, id) = GetConversation(d, t, id)
<1>1. Support!AddTicket(d, t, id, x) = AddTicket(d, t, id, x)
  BY DEF Support!AddTicket, Support!Insert, Support!Raises, Support!Returns, Support!Tenants,
     Support!Put, AddTicket, Insert, Raises, Returns, Tenants, Put
<1>2. Support!SaveConversation(d, t, id, x, at) = SaveConversation(d, t, id, x, at)
  BY DEF Support!SaveConversation, Support!Upsert, Support!Raises, Support!Returns,
     Support!Tenants, Support!Put, Support!Without, Support!Rows, SaveConversation, Upsert,
     Raises, Returns, Tenants, Put, Without, Rows
<1>3. Support!GetConversation(d, t, id) = GetConversation(d, t, id)
  BY DEF Support!GetConversation, Support!Where, Support!Rows, GetConversation, Where, Rows
<1> QED BY <1>1, <1>2, <1>3

\* Nothing the assistant does touches accounts, logins or sessions.
LEMMA AssistFalls ==
  ASSUME VaultHolds(db, scene.open), NEW m, Support!Assist(m)
  PROVE  VaultHolds(db', scene.open) /\ Falls(db, db') /\ now' = now /\ scene' = scene
<1>1. "tickets" \in Tables \ {"tenants", "accounts", "sessions"}
  BY DEF Tables, TenantTables
<1>2. CASE Support!StoreTicket(m)
  <2>1. db' = AddTicket(db, Support!Of(m), Support!TicketId(m, talk[m].raised),
                        Support!Conversation(m)).db
    BY <1>2, SameVault DEF Support!StoreTicket
  <2> QED BY <1>1, <1>2, <2>1, InsertFalls DEF AddTicket, Support!StoreTicket, Support!Quiet
<1>3. CASE Support!Save(m)
  <2>1. db' = SaveConversation(db, Support!Of(m), Support!Conversation(m),
                [n |-> talk[m].n, said |-> talk[m].said], now).db
    BY <1>3, SameVault DEF Support!Save
  <2> QED BY <1>3, <2>1, SaveFalls DEF Support!Save, Support!Quiet
<1>4. CASE ~Support!StoreTicket(m) /\ ~Support!Save(m)
  <2>1. db' = db /\ now' = now /\ scene' = scene
    BY <1>4 DEF Support!Assist, Support!Refuse, Support!Open, Support!Model, Support!Read,
       Support!Escalate, Support!Notify, Support!Looks, Support!Quiet
  <2> QED BY <2>1 DEF Falls
<1> QED BY <1>2, <1>3, <1>4

-----------------------------------------------------------------------------
(* What the codes, the sessions and the requests say of each other.          *)

Fields == {"pc", "email", "until", "ticket", "answer", "at", "found", "sent"}

\* The codes accepted: this life's are at or before the last of their login.
CodesHold(codes, guard, life, clock) ==
  /\ \A u \in codes :
       /\ u.at \in Nat /\ u.at <= clock
       /\ u.life \in Nat /\ u.life <= life /\ u.step \in Int
       /\ u.life = life => u.email \in Operators /\ u.step <= guard[u.email]
  /\ \A a, b \in codes :
       a.email = b.email /\ a.step = b.step /\ a.life = b.life /\ a.step >= 0 => a = b

\* A code of the session's own login was accepted, and unlocks until then.
Unlocks(k, until, open, codes, clock) ==
  \E u \in codes : /\ u.token = k /\ u.email = open[k].email
                   /\ u.at <= clock /\ until = u.at + UnlockFor

\* A session, last let in at `use`.
SessionHolds(k, row, open, use, codes, clock) ==
  /\ use \in Nat /\ row.seen <= use /\ use <= row.seen + Touch /\ use <= clock
  /\ row.operator # None => Unlocks(k, row.operator, open, codes, clock)

\* A request that was let in past the code.
LetIn(q, j, codes) ==
  \E u \in codes : /\ u.token = j.token /\ u.email = q.email /\ u.email \in Operators
                   /\ u.at <= q.at /\ q.at < u.at + UnlockFor

RequestHolds(q, j, open, codes, clock) ==
  /\ q = [x \in Fields |-> q[x]]
  /\ q.pc \in {"named", "known", "in", "open"} => j.token \in DOMAIN open
  /\ q.pc \in {"sent", "named", "known", "in", "open"} => q.ticket = None
  /\ q.pc = "named" => q.found = Logins[open[j.token].email]
  /\ q.pc \in {"known", "in", "open"} => q.email = open[j.token].email /\ q.email \in Operators
  /\ q.pc = "in" => j.op \in Plain \/ LetIn(q, j, codes)
  /\ q.pc = "open" => Unlocks(j.token, q.until, open, codes, clock)
  /\ q.ticket # None => LetIn(q, j, codes)

\* What the vault, the codes, the sessions and the requests hold of each other.
DeskInv ==
  /\ scene \in Scenarios /\ now \in Nat /\ lives \in Nat
  /\ VaultHolds(db, scene.open)
  /\ last = [e \in Operators |-> last[e]] /\ \A e \in Operators : last[e] \in Int
  /\ CodesHold(opened, last, lives, now)
  /\ used = [k \in Tokens |-> used[k]]
  /\ \A k \in DOMAIN db.sessions :
       SessionHolds(k, db.sessions[k], scene.open, used[k], opened, now)
  /\ req = [r \in Requests |-> req[r]]
  /\ \A r \in Requests : RequestHolds(req[r], Job(r), scene.open, opened, now)

\* What holds of a request goes on holding as codes are accepted and time passes.
LEMMA RequestHoldsOn ==
  ASSUME NEW q, NEW j, NEW open, NEW a, NEW b, NEW m \in Nat, NEW n \in Nat, a \subseteq b, m <= n,
         \A u \in a : u.at \in Nat, RequestHolds(q, j, open, a, m)
  PROVE  RequestHolds(q, j, open, b, n)
<1>1. LetIn(q, j, a) => LetIn(q, j, b)
  BY DEF LetIn
<1>2. Unlocks(j.token, q.until, open, a, m) => Unlocks(j.token, q.until, open, b, n)
  BY DEF Unlocks
<1> QED BY <1>1, <1>2 DEF RequestHolds

\* So does what holds of a session.
LEMMA SessionHoldsOn ==
  ASSUME NEW k, NEW row, NEW open, NEW use, NEW a, NEW b, NEW m \in Nat, NEW n \in Nat,
         a \subseteq b, m <= n, \A u \in a : u.at \in Nat, row.seen \in Nat,
         SessionHolds(k, row, open, use, a, m)
  PROVE  SessionHolds(k, row, open, use, b, n)
<1>1. ASSUME NEW until, Unlocks(k, until, open, a, m) PROVE Unlocks(k, until, open, b, n)
  BY <1>1 DEF Unlocks
<1> QED BY <1>1, StoreAssumption DEF SessionHolds, StoreAssumption

\* Where a step leaves r, and the rest of the console.
Moves(r) ==
  /\ scene' = scene /\ now' = now /\ lives' = lives
  /\ req' = [x \in Requests |-> req'[x]]
  /\ \A x \in Requests \ {r} : req'[x] = req[x]
  /\ RequestHolds(req'[r], Job(r), scene.open, opened', now)

\* A step of one request that accepts no code and lets nobody in.
LEMMA MovesKeep ==
  ASSUME DeskInv, NEW r \in Requests, Moves(r), VaultHolds(db', scene.open), Falls(db, db'),
         UNCHANGED <<last, opened, used>>
  PROVE  DeskInv'
<1>1. \A x \in Requests : RequestHolds(req'[x], Job(x), scene.open, opened, now)
  BY DEF DeskInv, Moves
<1>2. \A k \in DOMAIN db'.sessions :
        SessionHolds(k, db'.sessions[k], scene.open, used[k], opened, now)
  BY DEF DeskInv, Falls
<1> QED BY <1>1, <1>2 DEF DeskInv, Moves, Requests, Job

\* `Set` changes the one request, in the fields it names.
LEMMA SetsOne ==
  ASSUME DeskInv, NEW r \in Requests, NEW changes, Set(r, changes)
  PROVE  /\ req' = [x \in Requests |-> req'[x]] /\ \A x \in Requests \ {r} : req'[x] = req[x]
         /\ req'[r] = [x \in Fields |-> req'[r][x]]
         /\ \A x \in Fields : req'[r][x] = IF x \in DOMAIN changes THEN changes[x] ELSE req[r][x]
<1>1. req[r] = [x \in Fields |-> req[r][x]] /\ req = [x \in Requests |-> req[x]]
  BY DEF DeskInv, RequestHolds
<1> QED BY <1>1 DEF Set

\* Past the door: answered, logged, or about its ticket.
Done == {"done", "log", "reply", "mail", "store", "status"}

\* A request past the door stays what it was let in as.
LEMMA LaterMoves ==
  ASSUME DeskInv, NEW r \in Requests, NEW changes, Set(r, changes), Still,
         "pc" \in DOMAIN changes, changes.pc \in Done, "email" \notin DOMAIN changes,
         "at" \notin DOMAIN changes,
         "ticket" \notin DOMAIN changes \/ LetIn(req[r], Job(r), opened), opened \subseteq opened'
  PROVE  Moves(r)
<1>1. /\ req' = [x \in Requests |-> req'[x]] /\ \A x \in Requests \ {r} : req'[x] = req[x]
      /\ req'[r] = [x \in Fields |-> req'[r][x]]
      /\ req'[r].pc \in Done /\ req'[r].email = req[r].email /\ req'[r].at = req[r].at
      /\ "ticket" \notin DOMAIN changes => req'[r].ticket = req[r].ticket
  BY SetsOne DEF Fields
<1>2. req'[r].ticket # None => LetIn(req[r], Job(r), opened)
  BY <1>1 DEF DeskInv, RequestHolds
<1>3. LetIn(req[r], Job(r), opened) => LetIn(req'[r], Job(r), opened')
  BY <1>1 DEF LetIn
<1>4. RequestHolds(req'[r], Job(r), scene.open, opened', now)
  BY <1>1, <1>2, <1>3 DEF RequestHolds, Done
<1> QED BY <1>1, <1>4 DEF Moves, Still

\* One session's row may change where it says when it was seen and unlocked.
LEMMA RowChanges ==
  ASSUME NEW d, NEW e, NEW open, VaultHolds(d, open), Vault(e), NEW k \in DOMAIN d.sessions,
         e.tenants = d.tenants, e.accounts = d.accounts, DOMAIN e.sessions = DOMAIN d.sessions,
         \A x \in DOMAIN d.sessions \ {k} : e.sessions[x] = d.sessions[x],
         SessionRow(k, e.sessions[k], open)
  PROVE  VaultHolds(e, open)
<1>1. SessionRow(k, d.sessions[k], open)
  BY DEF VaultHolds
<1>2. d.sessions[k].tenant = Logins[open[k].email] /\ e.sessions[k].tenant = Logins[open[k].email]
  BY <1>1 DEF SessionRow
<1> QED BY <1>2 DEF VaultHolds, Tenants

\* A session let in is touched when the last touch is SESSION_TOUCH ago, so that its
\* `seen` is never further behind its last use.
LEMMA IdentifyKeeps == ASSUME DeskInv, NEW r \in Requests, Identify(r) PROVE DeskInv'
<1> DEFINE k == Job(r).token
           live == /\ k \in DOMAIN db.sessions
                   /\ db.sessions[k].tenant \in Tenants(db)
                   /\ db.sessions[k].expires > now
                   /\ db.sessions[k].seen + Idle > now
<1>1. CASE ~live
  <2>1. db' = db /\ Answer(r, 404) /\ UNCHANGED <<last, opened, used>> /\ Still
    BY <1>1 DEF Identify, TenantForSession, Returns
  <2>2. Moves(r)
    BY <2>1, LaterMoves DEF Answer, Done
  <2> QED BY <2>1, <2>2, MovesKeep DEF Falls, DeskInv
<1>2. CASE live
  <2>1. /\ SessionRow(k, db.sessions[k], scene.open)
        /\ SessionHolds(k, db.sessions[k], scene.open, used[k], opened, now)
        /\ now \in Nat /\ k \in Tokens
    BY <1>2, LoginAssumption DEF DeskInv, VaultHolds, SessionRow, LoginAssumption
  <2>2. db.sessions[k].tenant = Logins[scene.open[k].email] /\ db.sessions[k].tenant # None
    BY <1>2, <2>1 DEF SessionRow, DeskInv, VaultHolds
  <2>3. PICK t : t = db.sessions[k].tenant
    OBVIOUS
  <2>4. /\ db' = IF db.sessions[k].seen + Touch < now
                 THEN [db EXCEPT !.sessions[k].seen = now] ELSE db
        /\ Set(r, [pc |-> "named", found |-> t])
        /\ used' = [used EXCEPT ![k] = now] /\ UNCHANGED <<last, opened>> /\ Still
    BY <1>2, <2>2, <2>3 DEF Identify, TenantForSession, Returns
  <2>5. /\ VaultHolds(db', scene.open) /\ Tenants(db') = Tenants(db)
        /\ DOMAIN db'.sessions = DOMAIN db.sessions
        /\ \A x \in DOMAIN db.sessions \ {k} : db'.sessions[x] = db.sessions[x]
        /\ db'.sessions[k].seen =
             IF db.sessions[k].seen + Touch < now THEN now ELSE db.sessions[k].seen
        /\ db'.sessions[k].operator = db.sessions[k].operator
    <3>1. CASE db.sessions[k].seen + Touch < now
      <4>1. /\ Vault(db') /\ db'.tenants = db.tenants /\ db'.accounts = db.accounts
            /\ DOMAIN db'.sessions = DOMAIN db.sessions
            /\ \A x \in DOMAIN db.sessions \ {k} : db'.sessions[x] = db.sessions[x]
            /\ db'.sessions[k] = [db.sessions[k] EXCEPT !.seen = now]
        BY <1>2, <2>4, <3>1 DEF DeskInv, VaultHolds, Vault, Tables, TenantTables
      <4>2. SessionRow(k, db'.sessions[k], scene.open)
        BY <2>1, <4>1 DEF SessionRow
      <4>3. /\ db'.sessions[k].seen = now
            /\ db'.sessions[k].operator = db.sessions[k].operator
        BY <2>1, <4>1 DEF SessionRow
      <4> QED BY <1>2, <3>1, <4>1, <4>2, <4>3, RowChanges DEF DeskInv, Tenants
    <3>2. CASE ~(db.sessions[k].seen + Touch < now)
      BY <2>4, <3>2 DEF DeskInv
    <3> QED BY <3>1, <3>2
  <2>6. \A x \in DOMAIN db'.sessions :
          SessionHolds(x, db'.sessions[x], scene.open, used'[x], opened, now)
    <3> SUFFICES ASSUME NEW x \in DOMAIN db.sessions
                 PROVE  SessionHolds(x, db'.sessions[x], scene.open, used'[x], opened, now)
      BY <2>5
    <3>1. CASE x = k
      <4>1. used'[k] = now
        BY <2>1, <2>4 DEF DeskInv
      <4>2. db.sessions[k].seen \in Nat /\ Touch \in Nat
        BY <2>1, StoreAssumption DEF SessionRow, StoreAssumption
      <4> QED BY <2>1, <2>5, <3>1, <4>1, <4>2 DEF SessionHolds
    <3>2. CASE x # k
      <4>1. used'[x] = used[x]
        BY <2>4, <3>2 DEF DeskInv
      <4> QED BY <2>5, <3>2, <4>1 DEF DeskInv
    <3> QED BY <3>1, <3>2
  <2>7. /\ req' = [x \in Requests |-> req'[x]] /\ \A x \in Requests \ {r} : req'[x] = req[x]
        /\ req'[r] = [x \in Fields |-> req'[r][x]]
        /\ req'[r].pc = "named" /\ req'[r].found = t /\ req'[r].ticket = req[r].ticket
    BY <2>4, SetsOne DEF Fields
  <2>8. req[r].ticket = None
    BY DEF Identify, DeskInv, RequestHolds
  <2>9. RequestHolds(req'[r], Job(r), scene.open, opened, now)
    BY <2>1, <2>2, <2>3, <2>7, <2>8 DEF RequestHolds, SessionRow
  <2>10. \A x \in Requests : RequestHolds(req'[x], Job(x), scene.open, opened, now)
    BY <2>7, <2>9 DEF DeskInv
  <2>11. used' = [x \in Tokens |-> used'[x]]
    BY <2>4 DEF DeskInv
  <2>12. UNCHANGED <<scene, now, lives, last, opened>>
    BY <2>4 DEF Still
  <2>13. /\ scene \in Scenarios /\ now \in Nat /\ lives \in Nat
         /\ last = [e \in Operators |-> last[e]] /\ \A e \in Operators : last[e] \in Int
         /\ CodesHold(opened, last, lives, now)
    BY DEF DeskInv
  <2>14. req' = [x \in Requests |-> req'[x]]
    BY <2>7
  <2> QED BY <2>5, <2>6, <2>10, <2>11, <2>12, <2>13, <2>14 DEF DeskInv, Requests, Job
<1> QED BY <1>1, <1>2

\* The operator's address is that of the session's own login, one to a tenant.
LEMMA RecogniseKeeps == ASSUME DeskInv, NEW r \in Requests, Recognise(r) PROVE DeskInv'
<1> DEFINE mine == AccountEmail(db, req[r].found) \cap Operators
<1>1. db' = db /\ Falls(db, db') /\ VaultHolds(db', scene.open) /\ Still
      /\ UNCHANGED <<last, opened, used>>
  BY DEF Recognise, Reads, Falls, DeskInv
<1>2. CASE mine = {}
  <2>1. Answer(r, 404)
    BY <1>2 DEF Recognise
  <2> QED BY <1>1, <2>1, LaterMoves, MovesKeep DEF Answer, Done
<1>3. CASE mine # {}
  <2>1. PICK e \in mine : Set(r, [pc |-> "known", email |-> e])
    BY <1>3 DEF Recognise
  <2>2. e \in DOMAIN db.accounts /\ req[r].found \in Subtree(db, db.accounts[e].tenant)
    BY DEF AccountEmail
  <2>3. e \in DOMAIN Logins /\ req[r].found = Logins[e]
    <3>1. /\ e \in DOMAIN Logins
          /\ db.accounts[e] = [tenant |-> Logins[e], password |-> db.accounts[e].password]
      BY <2>2 DEF DeskInv, VaultHolds
    <3>2. req[r].found = db.accounts[e].tenant
      BY <2>2, RootsAlone DEF DeskInv
    <3> QED BY <3>1, <3>2
  <2>4. req[r].found = Logins[scene.open[Job(r).token].email] /\ Job(r).token \in DOMAIN scene.open
        /\ req[r].ticket = None
    BY DEF Recognise, DeskInv, RequestHolds
  <2>5. e = scene.open[Job(r).token].email
    BY <2>3, <2>4, LoginAssumption DEF LoginAssumption, DeskInv
  <2>6. /\ req' = [x \in Requests |-> req'[x]] /\ \A x \in Requests \ {r} : req'[x] = req[x]
        /\ req'[r] = [x \in Fields |-> req'[r][x]]
        /\ req'[r].pc = "known" /\ req'[r].email = e /\ req'[r].ticket = req[r].ticket
    BY <2>1, SetsOne DEF Fields
  <2>7. RequestHolds(req'[r], Job(r), scene.open, opened', now)
    BY <2>4, <2>5, <2>6 DEF RequestHolds
  <2> QED BY <1>1, <2>6, <2>7, MovesKeep DEF Moves, Still
<1> QED BY <1>2, <1>3

\* Past the code means: until the end of an unlock that a code gave.
LEMMA AdmitKeeps == ASSUME DeskInv, NEW r \in Requests, Admit(r) PROVE DeskInv'
<1>1. db' = db /\ Falls(db, db') /\ VaultHolds(db', scene.open) /\ Still
      /\ UNCHANGED <<last, opened, used>>
  BY DEF Admit, Reads, Falls, DeskInv
<1>2. PICK until : until = SessionOperatorUntil(db, Job(r).token, now)
  OBVIOUS
<1>3. CASE Job(r).op \notin Plain /\ (until = None \/ until <= now)
  <2>1. Answer(r, 403)
    BY <1>2, <1>3 DEF Admit
  <2> QED BY <1>1, <2>1, LaterMoves, MovesKeep DEF Answer, Done
<1>4. CASE ~(Job(r).op \notin Plain /\ (until = None \/ until <= now))
  <2>1. Set(r, [pc |-> "in", until |-> until, at |-> now])
    BY <1>2, <1>4 DEF Admit
  <2>2. /\ req' = [x \in Requests |-> req'[x]] /\ \A x \in Requests \ {r} : req'[x] = req[x]
        /\ req'[r] = [x \in Fields |-> req'[r][x]]
        /\ req'[r].pc = "in" /\ req'[r].at = now /\ req'[r].email = req[r].email
        /\ req'[r].ticket = req[r].ticket
    BY <2>1, SetsOne DEF Fields
  <2>3. /\ req[r].email = scene.open[Job(r).token].email /\ req[r].email \in Operators
        /\ Job(r).token \in DOMAIN scene.open /\ req[r].ticket = None
    BY DEF Admit, DeskInv, RequestHolds
  <2>4. ASSUME Job(r).op \notin Plain PROVE LetIn(req'[r], Job(r), opened)
    <3>1. until # None /\ ~(until <= now)
      BY <1>4, <2>4
    <3>2. Job(r).token \in DOMAIN db.sessions /\ until = db.sessions[Job(r).token].operator
      BY <1>2, <3>1 DEF SessionOperatorUntil
    <3>3. Unlocks(Job(r).token, until, scene.open, opened, now)
      BY <3>1, <3>2 DEF DeskInv, SessionHolds
    <3>4. \A u \in opened : u.at \in Nat
      BY DEF DeskInv, CodesHold
    <3>5. now \in Nat /\ UnlockFor \in Nat
      BY ConsoleAssumption DEF DeskInv, ConsoleAssumption
    <3>6. PICK u \in opened : /\ u.token = Job(r).token /\ u.email = scene.open[Job(r).token].email
                             /\ u.at <= now /\ until = u.at + UnlockFor
      BY <3>3 DEF Unlocks
    <3>7. now < u.at + UnlockFor
      BY <3>1, <3>4, <3>5, <3>6
    <3> QED BY <2>2, <2>3, <3>6, <3>7 DEF LetIn
  <2>5. RequestHolds(req'[r], Job(r), scene.open, opened, now)
    BY <2>2, <2>3, <2>4 DEF RequestHolds
  <2> QED BY <1>1, <2>2, <2>5, MovesKeep DEF Moves, Still
<1> QED BY <1>3, <1>4

\* A code in the window is a number.
LEMMA MatchesInt == ASSUME now \in Nat, NEW code, Matches(code) PROVE code \in Int
BY DEF Matches

\* A code accepted is after every code of its login in this life of the process.
LEMMA VerifyKeeps == ASSUME DeskInv, NEW r \in Requests, Verify(r) PROVE DeskInv'
<1> DEFINE right == Matches(Job(r).code) /\ Job(r).code > last[req[r].email]
<1>1. db' = db /\ Falls(db, db') /\ VaultHolds(db', scene.open) /\ Still /\ used' = used
  BY DEF Verify, Falls, DeskInv
<1>2. CASE ~right
  <2>1. Set(r, [pc |-> "log", answer |-> 401]) /\ UNCHANGED <<last, opened>>
    BY <1>2 DEF Verify
  <2> QED BY <1>1, <2>1, LaterMoves, MovesKeep DEF Done
<1>3. CASE right
  <2>1. PICK u : u = [token |-> Job(r).token, email |-> req[r].email, step |-> Job(r).code,
                      life |-> lives, at |-> now]
    OBVIOUS
  <2>2. /\ last' = [last EXCEPT ![req[r].email] = Job(r).code]
        /\ opened' = opened \cup {u}
        /\ Set(r, [pc |-> "open", until |-> now + UnlockFor])
    BY <1>3, <2>1 DEF Verify
  <2>3. /\ req[r].email = scene.open[Job(r).token].email /\ req[r].email \in Operators
        /\ Job(r).token \in DOMAIN scene.open /\ req[r].ticket = None
    BY DEF Verify, Here, DeskInv, RequestHolds
  <2>4. Job(r).code \in Int /\ now \in Nat /\ lives \in Nat /\ last[req[r].email] \in Int
    BY <1>3, <2>3, MatchesInt DEF DeskInv
  <2>5. last' = [e \in Operators |-> last'[e]] /\ \A e \in Operators : last'[e] \in Int
    BY <2>2, <2>3, <2>4 DEF DeskInv
  <2>6. CodesHold(opened', last', lives, now)
    <3>1. /\ last'[req[r].email] = Job(r).code
          /\ \A e \in Operators \ {req[r].email} : last'[e] = last[e]
      BY <2>2, <2>3 DEF DeskInv
    <3>2. ASSUME NEW x \in opened'
          PROVE  /\ x.at \in Nat /\ x.at <= now
                 /\ x.life \in Nat /\ x.life <= lives /\ x.step \in Int
                 /\ x.life = lives => x.email \in Operators /\ x.step <= last'[x.email]
      <4>1. CASE x = u
        BY <2>1, <2>3, <2>4, <3>1, <4>1
      <4>2. CASE x \in opened
        <5>1. /\ x.at \in Nat /\ x.at <= now /\ x.life \in Nat /\ x.life <= lives /\ x.step \in Int
              /\ x.life = lives => x.email \in Operators /\ x.step <= last[x.email]
          BY <4>2 DEF DeskInv, CodesHold
        <5>2. ASSUME x.life = lives PROVE x.step <= last'[x.email]
          BY <1>3, <2>4, <3>1, <5>1, <5>2
        <5> QED BY <5>1, <5>2
      <4> QED BY <2>2, <4>1, <4>2
    <3>3. ASSUME NEW x \in opened, x.email = u.email, x.life = u.life PROVE x.step < u.step
      <4>1. x.life = lives /\ x.email = req[r].email
        BY <2>1, <3>3
      <4>2. x.step \in Int /\ x.step <= last[req[r].email]
        BY <3>3, <4>1 DEF DeskInv, CodesHold
      <4> QED BY <1>3, <2>1, <2>4, <4>2
    <3>4. \A a, b \in opened :
            a.email = b.email /\ a.step = b.step /\ a.life = b.life /\ a.step >= 0 => a = b
      BY DEF DeskInv, CodesHold
    <3>5. u.step \in Int /\ \A x \in opened : x.step \in Int
      BY <2>1, <2>4 DEF DeskInv, CodesHold
    <3>6. \A a, b \in opened' :
            a.email = b.email /\ a.step = b.step /\ a.life = b.life /\ a.step >= 0 => a = b
      BY <2>2, <3>3, <3>4, <3>5
    <3> QED BY <3>2, <3>6 DEF CodesHold
  <2>7. /\ req' = [x \in Requests |-> req'[x]] /\ \A x \in Requests \ {r} : req'[x] = req[x]
        /\ req'[r] = [x \in Fields |-> req'[r][x]]
        /\ req'[r].pc = "open" /\ req'[r].until = now + UnlockFor
        /\ req'[r].email = req[r].email /\ req'[r].ticket = req[r].ticket
    BY <2>2, SetsOne DEF Fields
  <2>8. Unlocks(Job(r).token, req'[r].until, scene.open, opened', now)
    <3>1. /\ u \in opened' /\ u.token = Job(r).token /\ u.email = scene.open[Job(r).token].email
          /\ u.at = now
      BY <2>1, <2>2, <2>3
    <3>2. u.at <= now /\ req'[r].until = u.at + UnlockFor
      BY <2>4, <2>7, <3>1
    <3> QED BY <3>1, <3>2 DEF Unlocks
  <2>9. RequestHolds(req'[r], Job(r), scene.open, opened', now)
    BY <2>3, <2>7, <2>8 DEF RequestHolds
  <2>10. (\A x \in opened : x.at \in Nat) /\ opened \subseteq opened'
    BY <2>2 DEF DeskInv, CodesHold
  <2>11. \A x \in Requests : RequestHolds(req'[x], Job(x), scene.open, opened', now)
    BY <2>4, <2>7, <2>9, <2>10, RequestHoldsOn DEF DeskInv
  <2>12. ASSUME NEW k \in DOMAIN db.sessions
         PROVE  SessionHolds(k, db.sessions[k], scene.open, used[k], opened', now)
    <3>1. SessionRow(k, db.sessions[k], scene.open)
      BY DEF DeskInv, VaultHolds
    <3>2. db.sessions[k].seen \in Nat
      BY <3>1 DEF SessionRow
    <3>3. SessionHolds(k, db.sessions[k], scene.open, used[k], opened, now) /\ now <= now
      BY <2>4 DEF DeskInv
    <3> QED BY <2>4, <2>10, <3>2, <3>3, SessionHoldsOn
  <2> QED BY <1>1, <2>4, <2>5, <2>6, <2>7, <2>11, <2>12 DEF DeskInv, Still, Requests, Job
<1> QED BY <1>2, <1>3

\* What an unlock writes is the end a code of this very session gave it.
LEMMA SetUnlockedKeeps == ASSUME DeskInv, NEW r \in Requests, SetUnlocked(r) PROVE DeskInv'
<1> DEFINE k == Job(r).token
<1>1. PICK until : /\ until = IF req[r].pc = "open" THEN req[r].until ELSE None
                   /\ db' = SetSessionOperator(db, k, until).db
  BY DEF SetUnlocked, Writes
<1>2. Set(r, [pc |-> "log", answer |-> 200]) /\ Still /\ UNCHANGED <<last, opened, used>>
  BY DEF SetUnlocked, Writes
<1>3. Moves(r)
  BY <1>2, LaterMoves DEF Done
<1>4. CASE k \notin DOMAIN db.sessions
  <2>1. db' = db
    BY <1>1, <1>4 DEF SetSessionOperator, Returns
  <2> QED BY <1>2, <1>3, <2>1, MovesKeep DEF Falls, DeskInv
<1>5. CASE k \in DOMAIN db.sessions
  <2>1. /\ Vault(db') /\ db'.tenants = db.tenants /\ db'.accounts = db.accounts
        /\ DOMAIN db'.sessions = DOMAIN db.sessions
        /\ \A x \in DOMAIN db.sessions \ {k} : db'.sessions[x] = db.sessions[x]
        /\ db'.sessions[k] = [db.sessions[k] EXCEPT !.operator = until]
    BY <1>1, <1>5 DEF SetSessionOperator, Returns, DeskInv, VaultHolds, Vault, Tables, TenantTables
  <2>2. SessionRow(k, db.sessions[k], scene.open)
    BY <1>5 DEF DeskInv, VaultHolds
  <2>3. /\ SessionRow(k, db'.sessions[k], scene.open)
        /\ db'.sessions[k].seen = db.sessions[k].seen /\ db'.sessions[k].operator = until
    BY <2>1, <2>2 DEF SessionRow
  <2>4. VaultHolds(db', scene.open)
    BY <1>5, <2>1, <2>3, RowChanges DEF DeskInv
  <2>5. until # None => Unlocks(k, until, scene.open, opened, now)
    BY <1>1 DEF DeskInv, RequestHolds
  <2>6. SessionHolds(k, db'.sessions[k], scene.open, used[k], opened, now)
    BY <1>5, <2>3, <2>5 DEF SessionHolds, DeskInv
  <2>7. \A x \in DOMAIN db'.sessions :
          SessionHolds(x, db'.sessions[x], scene.open, used[x], opened, now)
    BY <2>1, <2>6 DEF DeskInv
  <2>8. \A x \in Requests : RequestHolds(req'[x], Job(x), scene.open, opened, now)
    BY <1>2, <1>3 DEF Moves, DeskInv
  <2> QED BY <1>2, <1>3, <2>4, <2>7, <2>8 DEF Moves, DeskInv, Requests, Job
<1> QED BY <1>4, <1>5

\* Whatever else a request does leaves the sessions and the codes.
LEMMA OtherwiseKeeps ==
  ASSUME DeskInv, NEW r \in Requests,
         \/ Me(r) \/ RefuseCode(r) \/ Log(r) \/ List(r) \/ NoAccount(r) \/ FindTicket(r)
         \/ FindContact(r) \/ Mail(r) \/ StoreReply(r) \/ SetStatus(r)
  PROVE  DeskInv'
<1> USE DEF Done
<1>1. Still /\ UNCHANGED <<last, opened, used>>
  BY DEF Me, RefuseCode, Log, List, NoAccount, FindTicket, FindContact, Mail, StoreReply, SetStatus,
     Reads, Writes
<1>2. VaultHolds(db', scene.open) /\ Falls(db, db')
  <2>1. VaultHolds(db, scene.open) /\ Falls(db, db)
    BY DEF DeskInv, Falls
  <2>2. CASE Log(r)
    BY <2>1, <2>2, LogFalls DEF Log, Writes
  <2>3. CASE StoreReply(r)
    <3>1. "replies" \in Tables \ {"tenants", "accounts", "sessions"}
      BY DEF Tables, TenantTables
    <3> QED BY <2>1, <2>3, <3>1, InsertFalls DEF StoreReply, Writes, AddReply
  <2>4. CASE SetStatus(r)
    BY <2>1, <2>4, StatusFalls DEF SetStatus, Writes
  <2>5. CASE Me(r) \/ RefuseCode(r) \/ List(r) \/ NoAccount(r) \/ FindTicket(r) \/ FindContact(r)
             \/ Mail(r)
    <3>1. db' = db
      BY <2>5 DEF Me, RefuseCode, List, NoAccount, FindTicket, FindContact, Mail, Reads
    <3> QED BY <2>1, <3>1
  <2> QED BY <2>2, <2>3, <2>4, <2>5
<1>3. ASSUME NEW code, Answer(r, code) PROVE Moves(r)
  BY <1>1, <1>3, LaterMoves DEF Answer
<1>4. Moves(r)
  <2>1. CASE Me(r) \/ RefuseCode(r) \/ NoAccount(r)
    BY <1>3, <2>1 DEF Me, RefuseCode, NoAccount
  <2>2. CASE Log(r)
    BY <1>1, <2>2, LaterMoves DEF Log
  <2>3. CASE List(r)
    BY <1>1, <2>3, LaterMoves DEF List
  <2>4. CASE FindTicket(r)
    <3>1. PICK t : t = GetTicket(db, Job(r).ticket).tenant
      OBVIOUS
    <3>2. CASE t = None
      BY <1>3, <2>4, <3>1, <3>2 DEF FindTicket
    <3>3. CASE t # None
      <4>1. Set(r, [found |-> t, ticket |-> Job(r).ticket,
                    pc |-> IF Job(r).op = "view" THEN "log" ELSE Job(r).op,
                    answer |-> IF Job(r).op = "view" THEN 200 ELSE 0])
        BY <2>4, <3>1, <3>3 DEF FindTicket
      <4>2. LetIn(req[r], Job(r), opened) /\ Job(r).op \in {"view", "reply", "status"}
        BY <2>4 DEF FindTicket, Here, DeskInv, RequestHolds, Plain
      <4> QED BY <1>1, <4>1, <4>2, LaterMoves
    <3> QED BY <3>2, <3>3
  <2>5. CASE FindContact(r)
    BY <1>1, <1>3, <2>5, LaterMoves DEF FindContact
  <2>6. CASE Mail(r)
    <3>1. PICK went : Set(r, [pc |-> "store", sent |-> went])
      BY <2>6 DEF Mail
    <3> QED BY <1>1, <3>1, LaterMoves
  <2>7. CASE StoreReply(r)
    BY <1>1, <1>3, <2>7, LaterMoves DEF StoreReply
  <2>8. CASE SetStatus(r)
    BY <1>1, <1>3, <2>8, LaterMoves DEF SetStatus
  <2> QED BY <2>1, <2>2, <2>3, <2>4, <2>5, <2>6, <2>7, <2>8
<1> QED BY <1>1, <1>2, <1>4, MovesKeep

\* Time, sign-outs, resets and closed accounts only take away.
LEMMA ElsewhereKeeps == ASSUME DeskInv, Elsewhere PROVE DeskInv'
<1>1. CASE Tick
  <2>1. now \in Nat /\ now' = now + 1 /\ UNCHANGED <<db, scene, req, last, lives, opened, used>>
    BY <1>1 DEF Tick, DeskInv
  <2>2. \A u \in opened : u.at \in Nat
    BY DEF DeskInv, CodesHold
  <2>3. \A x \in Requests : RequestHolds(req[x], Job(x), scene.open, opened, now')
    BY <2>1, <2>2, RequestHoldsOn DEF DeskInv
  <2>4. ASSUME NEW k \in DOMAIN db.sessions
        PROVE  SessionHolds(k, db.sessions[k], scene.open, used[k], opened, now')
    <3>1. SessionRow(k, db.sessions[k], scene.open)
      BY DEF DeskInv, VaultHolds
    <3>2. db.sessions[k].seen \in Nat
      BY <3>1 DEF SessionRow
    <3> QED BY <2>1, <2>2, <3>2, SessionHoldsOn DEF DeskInv
  <2>5. CodesHold(opened, last, lives, now')
    BY <2>1 DEF DeskInv, CodesHold
  <2>6. \A k \in DOMAIN db'.sessions :
          SessionHolds(k, db'.sessions[k], scene.open, used[k], opened, now')
    BY <2>1, <2>4
  <2>7. now' \in Nat
    BY <2>1
  <2> QED BY <2>1, <2>3, <2>5, <2>6, <2>7 DEF DeskInv, Requests, Job
<1>2. ASSUME VaultHolds(db', scene.open), Falls(db, db'),
             UNCHANGED <<scene, now, req, last, lives, opened, used>>
      PROVE  DeskInv'
  <2>1. \A k \in DOMAIN db'.sessions :
          SessionHolds(k, db'.sessions[k], scene.open, used[k], opened, now)
    BY <1>2 DEF DeskInv, Falls
  <2> QED BY <1>2, <2>1 DEF DeskInv, Requests, Job
<1>3. ASSUME NEW k, SignOut(k) PROVE DeskInv'
  BY <1>2, <1>3, DeleteSessionFalls DEF SignOut, DeskInv
<1>4. ASSUME NEW e, Reset(e) PROVE DeskInv'
  BY <1>2, <1>4, ResetFalls DEF Reset, DeskInv
<1>5. ASSUME NEW e, CloseAccount(e) PROVE DeskInv'
  BY <1>2, <1>5, DeleteFalls DEF CloseAccount, DeskInv
<1> QED BY <1>1, <1>3, <1>4, <1>5 DEF Elsewhere

\* A new process forgets the codes, and a new life begins: none is of it yet.
LEMMA RestartKeeps == ASSUME DeskInv, Restart PROVE DeskInv'
<1>1. /\ lives \in Nat /\ lives' = lives + 1 /\ UNCHANGED <<db, now, scene, opened, used>>
      /\ last' = [e \in Operators |-> -1]
  BY DEF Restart, DeskInv
<1>2. last' = [e \in Operators |-> last'[e]] /\ \A e \in Operators : last'[e] \in Int
  BY <1>1
<1>3. CodesHold(opened, last', lives', now)
  BY <1>1 DEF DeskInv, CodesHold
<1>4. ASSUME NEW r \in Requests PROVE RequestHolds(req'[r], Job(r), scene.open, opened, now)
  <2>1. RequestHolds(req[r], Job(r), scene.open, opened, now)
    BY DEF DeskInv
  <2>2. CASE req'[r] = req[r]
    BY <2>1, <2>2
  <2>3. CASE req'[r] = [req[r] EXCEPT !.pc = "lost"]
    <3>1. /\ req'[r] = [x \in Fields |-> req'[r][x]] /\ req'[r].pc = "lost"
          /\ \A x \in Fields \ {"pc"} : req'[r][x] = req[r][x]
      BY <2>1, <2>3 DEF RequestHolds, Fields
    <3>2. /\ req'[r].ticket = req[r].ticket /\ req'[r].email = req[r].email
          /\ req'[r].at = req[r].at
      BY <3>1 DEF Fields
    <3>3. LetIn(req[r], Job(r), opened) => LetIn(req'[r], Job(r), opened)
      BY <3>2 DEF LetIn
    <3> QED BY <2>1, <3>1, <3>2, <3>3 DEF RequestHolds
  <2> QED BY <2>2, <2>3 DEF Restart
<1>5. req' = [r \in Requests |-> req'[r]]
  BY DEF Restart
<1> QED BY <1>1, <1>2, <1>3, <1>4, <1>5 DEF DeskInv, Requests, Job

\* The assistant leaves the console as it was.
LEMMA AssistKeeps ==
  ASSUME DeskInv, NEW m, Support!Assist(m), UNCHANGED consoleVars PROVE DeskInv'
<1>1. /\ VaultHolds(db', scene.open) /\ Falls(db, db')
      /\ UNCHANGED <<scene, now, req, last, lives, opened, used>>
  BY AssistFalls DEF DeskInv, consoleVars
<1>2. \A k \in DOMAIN db'.sessions :
        SessionHolds(k, db'.sessions[k], scene.open, used[k], opened, now)
  BY <1>1 DEF DeskInv, Falls
<1> QED BY <1>1, <1>2 DEF DeskInv, Requests, Job

\* No step of the desk breaks it.
LEMMA DeskStep == DeskInv /\ [DeskNext]_<<vars, talk, notices, met>> => DeskInv'
<1> SUFFICES ASSUME DeskInv, [DeskNext]_<<vars, talk, notices, met>> PROVE DeskInv'
  OBVIOUS
<1>1. ASSUME NEW r \in Requests, Handle(r) PROVE DeskInv'
  BY <1>1, IdentifyKeeps, RecogniseKeeps, AdmitKeeps, VerifyKeeps, SetUnlockedKeeps, OtherwiseKeeps
     DEF Handle
<1>2. CASE UNCHANGED <<vars, talk, notices, met>>
  <2>1. UNCHANGED <<db, scene, now, req, last, lives, opened, used>>
    BY <1>2 DEF vars, consoleVars
  <2>2. \A k \in DOMAIN db'.sessions :
          SessionHolds(k, db'.sessions[k], scene.open, used[k], opened, now)
    BY <2>1 DEF DeskInv
  <2>3. \A r \in Requests : RequestHolds(req'[r], Job(r), scene.open, opened, now)
    BY <2>1 DEF DeskInv
  <2> QED BY <2>1, <2>2, <2>3 DEF DeskInv, Requests, Job
<1> QED BY <1>1, <1>2, RestartKeeps, ElsewhereKeeps, AssistKeeps DEF DeskNext

\* A scenario's sessions, unlocked or not, are as a life before could have left them.
LEMMA DeskStarts == DeskInit => DeskInv
<1> SUFFICES ASSUME DeskInit PROVE DeskInv
  OBVIOUS
<1>1. /\ scene \in Scenarios /\ now = 0 /\ lives = 1 /\ last = [e \in Operators |-> -1]
      /\ req = [r \in Requests |-> Fresh]
  BY DEF DeskInit, Init, Requests
<1>2. /\ Vault(db)
      /\ db.tenants = [t \in {Logins[e] : e \in DOMAIN Logins} |-> None]
      /\ db.accounts = [e \in DOMAIN Logins |-> [tenant |-> Logins[e], password |-> None]]
      /\ db.sessions = [k \in DOMAIN scene.open |->
                [tenant |-> Logins[scene.open[k].email], expires |-> SessionTTL, seen |-> 0,
                 operator |-> IF scene.open[k].unlocked THEN UnlockFor ELSE None]]
  BY DEF DeskInit, Init, NewDatabase, Vault, Tables, TenantTables
<1>3. \A k \in DOMAIN scene.open : k \in Tokens /\ scene.open[k].email \in DOMAIN Logins
  BY <1>1, LoginAssumption DEF LoginAssumption
<1>4. VaultHolds(db, scene.open)
  <2>1. /\ Tenants(db) = {Logins[e] : e \in DOMAIN Logins}
        /\ \A t \in Tenants(db) : db.tenants[t] = None
    BY <1>2 DEF Tenants
  <2>2. \A t \in Tenants(db) : t # None
    BY <2>1, LoginAssumption DEF LoginAssumption
  <2>3. ASSUME NEW k \in DOMAIN db.sessions
        PROVE  SessionRow(k, db.sessions[k], scene.open) /\ db.sessions[k].tenant \in Tenants(db)
    BY <1>2, <1>3, <2>1 DEF SessionRow
  <2>4. \A e \in DOMAIN db.accounts :
          /\ e \in DOMAIN Logins
          /\ db.accounts[e] = [tenant |-> Logins[e], password |-> db.accounts[e].password]
    BY <1>2
  <2> QED BY <1>2, <2>1, <2>2, <2>3, <2>4 DEF VaultHolds
<1>5. /\ used = [k \in Tokens |-> used[k]] /\ \A k \in DOMAIN scene.open : used[k] = 0
      /\ opened = {[token |-> k, email |-> scene.open[k].email, step |-> -1, life |-> 0, at |-> 0] :
                     k \in {k \in DOMAIN scene.open : scene.open[k].unlocked}}
  BY <1>3 DEF DeskInit, Init
<1>6. CodesHold(opened, last, lives, now)
  BY <1>1, <1>5 DEF CodesHold
<1>7. ASSUME NEW k \in DOMAIN db.sessions
      PROVE  SessionHolds(k, db.sessions[k], scene.open, used[k], opened, now)
  <2>1. k \in DOMAIN scene.open /\ used[k] = 0 /\ db.sessions[k].seen = 0
        /\ db.sessions[k].operator = IF scene.open[k].unlocked THEN UnlockFor ELSE None
    BY <1>2, <1>5
  <2>2. ASSUME scene.open[k].unlocked PROVE Unlocks(k, UnlockFor, scene.open, opened, now)
    <3>1. PICK u \in opened : u = [token |-> k, email |-> scene.open[k].email, step |-> -1,
                                   life |-> 0, at |-> 0]
      BY <1>5, <2>1, <2>2
    <3> QED BY <1>1, <3>1, ConsoleAssumption DEF Unlocks, ConsoleAssumption
  <2> QED BY <1>1, <2>1, <2>2, StoreAssumption DEF SessionHolds, StoreAssumption
<1>8. \A r \in Requests : RequestHolds(req[r], Job(r), scene.open, opened, now)
  BY <1>1 DEF Fresh, RequestHolds, Fields
<1>9. last = [e \in Operators |-> last[e]] /\ \A e \in Operators : last[e] \in Int
  BY <1>1
<1>10. now \in Nat /\ lives \in Nat /\ req = [r \in Requests |-> req[r]]
  BY <1>1
<1> QED BY <1>1, <1>4, <1>5, <1>6, <1>7, <1>8, <1>9, <1>10 DEF DeskInv

\* The console's invariant, always.
LEMMA DeskHolds == DeskSpec => []DeskInv
BY DeskStarts, DeskStep, PTL DEF DeskSpec

\* For every set of operators, sessions and requests: what was let in to another
\* account's data came with an operator's session that a code of that operator had
\* unlocked less than UNLOCK_FOR before (ops.py, _admit), and in one life of the process
\* no code unlocks twice (totp.py, ReplayGuard), whatever restarts, resets and
\* closed accounts come between two awaits.
THEOREM CodesOpen == DeskSpec => []OpenedByACode
<1>1. DeskInv => OpenedByACode
  BY DEF DeskInv, RequestHolds, LetIn, CodesHold, OpenedByACode
<1> QED BY <1>1, DeskHolds, PTL

\* A session is let in until SESSION_IDLE after its last use and, though its use is
\* written down only every SESSION_TOUCH, never refused more than a touch too early
\* (postgres.py, tenant_for_session).
THEOREM IdleStaysAccurate == DeskSpec => []IdleIsAccurate
<1>1. DeskInv => IdleIsAccurate
  <2> SUFFICES ASSUME DeskInv, NEW k \in DOMAIN db.sessions, NEW live,
                      live = (TenantForSession(db, k, now).says[2] # None)
               PROVE  /\ live => used[k] + Idle > now /\ now < SessionTTL
                      /\ used[k] + Idle - Touch > now /\ now < SessionTTL => live
    BY DEF IdleIsAccurate
  <2>1. SessionRow(k, db.sessions[k], scene.open) /\ db.sessions[k].tenant \in Tenants(db)
    BY DEF DeskInv, VaultHolds
  <2>2. /\ db.sessions[k].expires = SessionTTL /\ db.sessions[k].tenant # None
        /\ db.sessions[k].seen \in Nat
    BY <2>1 DEF SessionRow, DeskInv, VaultHolds
  <2>3. live <=> SessionTTL > now /\ db.sessions[k].seen + Idle > now
    BY <2>1, <2>2 DEF TenantForSession, Returns
  <2>4. /\ used[k] \in Nat /\ db.sessions[k].seen <= used[k]
        /\ used[k] <= db.sessions[k].seen + Touch
    BY DEF DeskInv, SessionHolds
  <2> QED BY <2>2, <2>3, <2>4, StoreAssumption, ConsoleAssumption
          DEF StoreAssumption, ConsoleAssumption, DeskInv
<1> QED BY <1>1, DeskHolds, PTL

-----------------------------------------------------------------------------
(* Replies, and the tickets they answer.                                     *)

\* The tables of the correspondence: their rows go with their tenant, and only so.
Paper == {"conversations", "tickets", "replies"}
Owned(d) == \A n \in Paper : \A k \in DOMAIN d[n] : d[n][k].tenant \in Tenants(d)
Fades(d, e) ==
  /\ Tenants(e) \subseteq Tenants(d)
  /\ \A n \in Paper :
       /\ DOMAIN e[n] = {k \in DOMAIN d[n] : d[n][k].tenant \in Tenants(e)}
       /\ \A k \in DOMAIN e[n] : e[n][k] = d[n][k]

\* A write elsewhere leaves the papers.
LEMMA PaperStays ==
  ASSUME NEW d, NEW e, Owned(d), e.tenants = d.tenants, \A n \in Paper : e[n] = d[n]
  PROVE  Owned(e) /\ Fades(d, e)
BY DEF Owned, Fades, Tenants

\* A closed account takes its papers, and nobody else's.
LEMMA DeletePaper ==
  ASSUME NEW d, Vault(d), Owned(d), NEW t
  PROVE  Fades(d, DeleteTenant(d, t).db) /\ Owned(DeleteTenant(d, t).db)
<1> DEFINE ids == Subtree(d, t)
           e == DeleteTenant(d, t).db
<1> HIDE DEF ids
<1>2. CASE ids = {}
  BY <1>2, PaperStays DEF DeleteTenant, Returns, ids
<1>3. CASE ids # {}
  <2>1. /\ e.tenants = Without(d.tenants, ids)
        /\ \A n \in Paper : e[n] = Without(d[n], Rows(d[n], ids))
    BY <1>3 DEF DeleteTenant, Returns, Cascade, Tables, TenantTables, ids, Paper
  <2> HIDE DEF e
  <2>2. Tenants(e) = Tenants(d) \ ids
    BY <2>1 DEF Without, Tenants
  <2>3. ASSUME NEW n \in Paper
        PROVE  /\ DOMAIN e[n] = {k \in DOMAIN d[n] : d[n][k].tenant \in Tenants(e)}
               /\ \A k \in DOMAIN e[n] : e[n][k] = d[n][k]
    <3>1. /\ e[n] = Without(d[n], Rows(d[n], ids))
          /\ \A k \in DOMAIN d[n] : d[n][k].tenant \in Tenants(d)
      BY <2>1 DEF Owned
    <3> QED BY <2>2, <3>1 DEF Without, Rows
  <2>4. Fades(d, e)
    BY <2>2, <2>3 DEF Fades
  <2>5. Owned(e)
    BY <2>3 DEF Owned
  <2> QED BY <2>4, <2>5 DEF e
<1> QED BY <1>2, <1>3

\* Steps at which no reply can have been mailed.
Unsent == {"sent", "named", "known", "in", "open", "reply", "mail"}

\* A request r, with what was mailed of it and stored.
ReplyHolds(q, j, r, d, sent) ==
  /\ q.pc \in Unsent => r \notin sent /\ r \notin DOMAIN d.replies
  /\ q.pc \in {"reply", "mail", "store"} => j.op = "reply"
  /\ q.pc = "store" => q.sent \in BOOLEAN /\ (q.sent => r \in sent) /\ r \notin DOMAIN d.replies
  /\ q.pc = "status" => j.op \in {"reply", "status"}
  /\ q.pc = "status" /\ j.op = "reply" =>
       \/ q.found \notin Tenants(d)
       \/ /\ r \in DOMAIN d.replies /\ d.replies[r].tenant = q.found
          /\ d.replies[r].ticket = q.ticket /\ d.replies[r].sent
  /\ q.pc \in {"status", "log", "done"} /\ r \in sent =>
       q.found \notin Tenants(d) \/ (r \in DOMAIN d.replies /\ d.replies[r].tenant = q.found)

\* An answered ticket was, or a status said so, or a reply did.
TicketAnswered(d, s, i) ==
  d.tickets[i].status = "answered" =>
    \/ i \in DOMAIN s.tickets /\ s.tickets[i].status = "answered"
    \/ \E r \in DOMAIN d.replies : /\ d.replies[r].ticket = i /\ d.replies[r].sent
                                   /\ d.replies[r].tenant = d.tickets[i].tenant
    \/ \E r \in DOMAIN s.ask : s.ask[r].op = "status" /\ s.ask[r].status = "answered"

\* What the mails, the replies and the tickets' statuses hold of each other.
ReplyInv ==
  /\ Owned(db)
  /\ mails \subseteq Requests
  /\ \A r \in DOMAIN db.replies : db.replies[r].sent => r \in mails
  /\ \A i \in DOMAIN db.tickets : TicketAnswered(db, scene, i)
  /\ \A r \in Requests : ReplyHolds(req[r], Job(r), r, db, mails)

\* What holds of a request's reply goes on holding as accounts are closed.
LEMMA ReplyHoldsOn ==
  ASSUME NEW q, NEW j, NEW r, NEW d, NEW e, NEW sent, ReplyHolds(q, j, r, d, sent), Fades(d, e)
  PROVE  ReplyHolds(q, j, r, e, sent)
<1>1. /\ Tenants(e) \subseteq Tenants(d) /\ DOMAIN e.replies \subseteq DOMAIN d.replies
      /\ \A k \in DOMAIN d.replies : d.replies[k].tenant \in Tenants(e) =>
           k \in DOMAIN e.replies /\ e.replies[k] = d.replies[k]
  BY DEF Fades, Paper
<1> QED BY <1>1 DEF ReplyHolds

\* An answered ticket and the reply it has go together: they are one tenant's.
LEMMA TicketAnsweredOn ==
  ASSUME NEW d, NEW e, NEW s, Fades(d, e), NEW i \in DOMAIN e.tickets, TicketAnswered(d, s, i)
  PROVE  TicketAnswered(e, s, i)
<1>1. /\ e.tickets[i] = d.tickets[i] /\ d.tickets[i].tenant \in Tenants(e)
      /\ \A k \in DOMAIN d.replies : d.replies[k].tenant \in Tenants(e) =>
           k \in DOMAIN e.replies /\ e.replies[k] = d.replies[k]
  BY DEF Fades, Paper
<1> QED BY <1>1 DEF TicketAnswered

\* A step that writes no reply and no ticket.
LEMMA FadesKeepReplies ==
  ASSUME ReplyInv, Fades(db, db'), Owned(db'), mails' = mails, scene' = scene,
         \A r \in Requests : req'[r] = req[r] \/ ReplyHolds(req'[r], Job(r), r, db', mails)
  PROVE  ReplyInv'
<1>1. \A r \in DOMAIN db'.replies : db'.replies[r].sent => r \in mails
  BY DEF ReplyInv, Fades, Paper
<1>2. \A i \in DOMAIN db'.tickets : TicketAnswered(db', scene, i)
  BY TicketAnsweredOn DEF ReplyInv, Fades, Paper
<1>3. \A r \in Requests : ReplyHolds(req'[r], Job(r), r, db', mails)
  BY ReplyHoldsOn DEF ReplyInv
<1> QED BY <1>1, <1>2, <1>3 DEF ReplyInv, Requests, Job

\* A step before the mail.
LEMMA UnsentKeeps ==
  ASSUME ReplyInv, NEW r \in Requests, req[r].pc \in Unsent, Fades(db, db'), Owned(db'),
         mails' = mails, scene' = scene, \A x \in Requests \ {r} : req'[x] = req[x],
         req'[r].pc # "store", req'[r].pc = "status" => Job(r).op = "status",
         req'[r].pc \in {"reply", "mail"} => Job(r).op = "reply"
  PROVE  ReplyInv'
<1>1. r \notin mails /\ r \notin DOMAIN db.replies
  BY DEF ReplyInv, ReplyHolds
<1>2. r \notin DOMAIN db'.replies
  BY <1>1 DEF Fades, Paper
<1>3. ReplyHolds(req'[r], Job(r), r, db', mails)
  BY <1>1, <1>2 DEF ReplyHolds
<1> QED BY <1>3, FadesKeepReplies

\* The mail goes, or may have gone: the reply is still to be stored.
LEMMA SentKeeps ==
  ASSUME DeskInv, ReplyInv, NEW r \in Requests, Mail(r) PROVE ReplyInv'
<1>1. PICK went \in BOOLEAN : /\ Set(r, [pc |-> "store", sent |-> went])
                              /\ mails' = mails \cup {r} \/ (mails' = mails /\ went = FALSE)
  BY DEF Mail
<1>2. db' = db /\ scene' = scene /\ req[r].pc = "mail"
  BY DEF Mail, Still
<1>3. /\ req' = [x \in Requests |-> req'[x]] /\ \A x \in Requests \ {r} : req'[x] = req[x]
      /\ req'[r] = [x \in Fields |-> req'[r][x]]
      /\ req'[r].pc = "store" /\ req'[r].sent = went
  BY <1>1, SetsOne DEF Fields
<1>4. /\ Job(r).op = "reply" /\ r \notin DOMAIN db.replies
  BY <1>2 DEF ReplyInv, ReplyHolds, Unsent
<1>5. went => r \in mails'
  BY <1>1
<1>6. ReplyHolds(req'[r], Job(r), r, db, mails')
  BY <1>3, <1>4, <1>5 DEF ReplyHolds, Unsent
<1>7. \A x \in Requests \ {r} : ReplyHolds(req[x], Job(x), x, db, mails')
  BY <1>1 DEF ReplyInv, ReplyHolds
<1>8. mails \subseteq mails' /\ mails' \subseteq Requests
  BY <1>1 DEF ReplyInv
<1> QED BY <1>2, <1>3, <1>6, <1>7, <1>8 DEF ReplyInv, Requests, Job

\* The reply is stored as it went; only the account's end can refuse it.
LEMMA StoredKeeps ==
  ASSUME DeskInv, ReplyInv, NEW r \in Requests, StoreReply(r) PROVE ReplyInv'
<1> DEFINE row == [tenant |-> req[r].found, ticket |-> req[r].ticket, sent |-> req[r].sent]
<1>1. /\ req[r].pc = "store" /\ scene' = scene /\ mails' = mails
      /\ db' = AddReply(db, req[r].found, req[r].ticket, r, req[r].sent).db
  BY DEF StoreReply, Writes, Still
<1>2. /\ req[r].sent \in BOOLEAN /\ req[r].sent => r \in mails
      /\ r \notin DOMAIN db.replies /\ Job(r).op = "reply"
  BY <1>1 DEF ReplyInv, ReplyHolds
<1>3. CASE req[r].found \notin Tenants(db)
  <2>1. db' = db /\ Answer(r, 500)
    BY <1>1, <1>3 DEF StoreReply, AddReply, Insert, Raises, Failed
  <2>2. /\ req' = [x \in Requests |-> req'[x]] /\ \A x \in Requests \ {r} : req'[x] = req[x]
        /\ req'[r] = [x \in Fields |-> req'[r][x]]
        /\ req'[r].pc = "done" /\ req'[r].found = req[r].found
    BY <2>1, SetsOne DEF Fields, Answer
  <2>3. ReplyHolds(req'[r], Job(r), r, db, mails)
    BY <1>3, <2>2 DEF ReplyHolds, Unsent
  <2>4. Fades(db, db') /\ Owned(db')
    BY <2>1, PaperStays DEF ReplyInv
  <2> QED BY <1>1, <2>1, <2>2, <2>3, <2>4, FadesKeepReplies
<1>4. CASE req[r].found \in Tenants(db)
  <2>1. /\ db' = [db EXCEPT !["replies"] = Put(@, r, row)]
        /\ IF req[r].sent THEN Set(r, [pc |-> "status"])
           ELSE Set(r, [pc |-> "log", answer |-> 502])
    BY <1>1, <1>2, <1>4 DEF StoreReply, AddReply, Insert, Returns, Failed
  <2>2. /\ db'.tenants = db.tenants /\ db'.tickets = db.tickets
        /\ db'.conversations = db.conversations
        /\ db'.replies = Put(db.replies, r, row)
    BY <2>1 DEF DeskInv, VaultHolds, Vault, Tables, TenantTables
  <2>3. /\ DOMAIN db'.replies = DOMAIN db.replies \cup {r} /\ db'.replies[r] = row
        /\ \A x \in DOMAIN db.replies : db'.replies[x] = db.replies[x]
    BY <1>2, <2>2 DEF Put
  <2>4. Tenants(db') = Tenants(db)
    BY <2>2 DEF Tenants
  <2>5. Owned(db')
    BY <1>4, <2>2, <2>3, <2>4 DEF ReplyInv, Owned, Paper
  <2>6. /\ req' = [x \in Requests |-> req'[x]] /\ \A x \in Requests \ {r} : req'[x] = req[x]
        /\ req'[r] = [x \in Fields |-> req'[r][x]]
        /\ req'[r].found = req[r].found /\ req'[r].ticket = req[r].ticket
        /\ req'[r].pc = IF req[r].sent THEN "status" ELSE "log"
    <3>1. CASE req[r].sent
      BY <2>1, <3>1, SetsOne DEF Fields
    <3>2. CASE ~req[r].sent
      BY <2>1, <3>2, SetsOne DEF Fields
    <3> QED BY <1>2, <3>1, <3>2
  <2>7. /\ db'.replies[r].tenant = req[r].found /\ db'.replies[r].ticket = req[r].ticket
        /\ db'.replies[r].sent = req[r].sent
    BY <2>3
  <2>8. ReplyHolds(req'[r], Job(r), r, db', mails)
    <3>1. CASE req[r].sent
      <4>1. req'[r].pc = "status" /\ db'.replies[r].sent
        BY <2>6, <2>7, <3>1
      <4> QED BY <1>2, <2>3, <2>6, <2>7, <4>1 DEF ReplyHolds, Unsent
    <3>2. CASE ~req[r].sent
      <4>1. req'[r].pc = "log"
        BY <2>6, <3>2
      <4> QED BY <2>3, <2>6, <2>7, <4>1 DEF ReplyHolds, Unsent
    <3> QED BY <3>1, <3>2
  <2>9. ASSUME NEW x \in Requests \ {r} PROVE ReplyHolds(req'[x], Job(x), x, db', mails)
    <3>1. ReplyHolds(req[x], Job(x), x, db, mails)
      BY DEF ReplyInv
    <3> QED BY <2>3, <2>4, <2>6, <3>1 DEF ReplyHolds
  <2>10. \A x \in DOMAIN db'.replies : db'.replies[x].sent => x \in mails
    BY <1>2, <2>3, <2>7 DEF ReplyInv
  <2>11. ASSUME NEW i \in DOMAIN db'.tickets PROVE TicketAnswered(db', scene, i)
    <3>1. TicketAnswered(db, scene, i)
      BY <2>2 DEF ReplyInv
    <3> QED BY <2>2, <2>3, <3>1 DEF TicketAnswered
  <2> QED BY <1>1, <2>5, <2>8, <2>9, <2>10, <2>11 DEF ReplyInv, Requests, Job
<1> QED BY <1>3, <1>4

\* A ticket is answered by a reply of its own that went, or because it was asked to be.
LEMMA StatusKeeps ==
  ASSUME DeskInv, ReplyInv, NEW r \in Requests, SetStatus(r) PROVE ReplyInv'
<1> DEFINE t == req[r].found
           i == req[r].ticket
<1>1. /\ req[r].pc = "status" /\ scene' = scene /\ mails' = mails
      /\ db' = SetTicketStatus(db, t, i, Job(r).status).db
      /\ (\E code : Answer(r, code)) \/ Set(r, [pc |-> "log", answer |-> 200])
  BY DEF SetStatus, Writes, Still
<1>2. /\ req' = [x \in Requests |-> req'[x]] /\ \A x \in Requests \ {r} : req'[x] = req[x]
      /\ req'[r] = [x \in Fields |-> req'[r][x]]
      /\ req'[r].pc \in {"log", "done"} /\ req'[r].found = req[r].found
  <2>1. CASE Set(r, [pc |-> "log", answer |-> 200])
    BY <2>1, SetsOne DEF Fields
  <2>2. ASSUME NEW code, Answer(r, code) PROVE <1>2!1 /\ <1>2!2 /\ <1>2!3
    BY <2>2, SetsOne DEF Fields, Answer
  <2> QED BY <1>1, <2>1, <2>2
<1>3. ReplyHolds(req[r], Job(r), r, db, mails)
  BY DEF ReplyInv
<1>4. CASE i \notin Where(db, "tickets", {t})
  <2>1. db' = db
    BY <1>1, <1>4 DEF SetTicketStatus, Raises
  <2>2. ReplyHolds(req'[r], Job(r), r, db, mails)
    BY <1>1, <1>2, <1>3 DEF ReplyHolds, Unsent
  <2>3. Fades(db, db') /\ Owned(db')
    BY <2>1, PaperStays DEF ReplyInv
  <2> QED BY <1>1, <1>2, <2>1, <2>2, <2>3, FadesKeepReplies
<1>5. CASE i \in Where(db, "tickets", {t})
  <2>1. i \in DOMAIN db.tickets /\ db.tickets[i].tenant = t
    BY <1>5 DEF Where, Rows
  <2>2. /\ db'.tenants = db.tenants /\ db'.replies = db.replies
        /\ db'.conversations = db.conversations
        /\ DOMAIN db'.tickets = DOMAIN db.tickets
        /\ \A x \in DOMAIN db.tickets \ {i} : db'.tickets[x] = db.tickets[x]
        /\ db'.tickets[i] = [db.tickets[i] EXCEPT !.status = Job(r).status]
    BY <1>1, <1>5, <2>1 DEF SetTicketStatus, Returns, DeskInv, VaultHolds, Vault, Tables,
       TenantTables
  <2>3. /\ db'.tickets[i].tenant = t /\ db'.tickets[i].status = Job(r).status
    BY <2>1, <2>2
  <2>4. Tenants(db') = Tenants(db)
    BY <2>2 DEF Tenants
  <2>5. Owned(db')
    BY <2>1, <2>2, <2>3, <2>4 DEF ReplyInv, Owned, Paper
  <2>6. ReplyHolds(req'[r], Job(r), r, db', mails)
    BY <1>1, <1>2, <1>3, <2>2, <2>4 DEF ReplyHolds, Unsent
  <2>7. ASSUME NEW x \in Requests \ {r} PROVE ReplyHolds(req'[x], Job(x), x, db', mails)
    <3>1. ReplyHolds(req[x], Job(x), x, db, mails)
      BY DEF ReplyInv
    <3> QED BY <1>2, <2>2, <2>4, <3>1 DEF ReplyHolds
  <2>8. TicketAnswered(db', scene, i)
    <3>1. CASE Job(r).op = "status"
      BY <2>3, <3>1 DEF TicketAnswered, Job, Requests
    <3>2. CASE Job(r).op = "reply"
      <4>1. t \in Tenants(db)
        BY <2>1 DEF ReplyInv, Owned, Paper
      <4>2. /\ r \in DOMAIN db.replies /\ db.replies[r].tenant = t /\ db.replies[r].ticket = i
            /\ db.replies[r].sent
        BY <1>1, <1>3, <3>2, <4>1 DEF ReplyHolds
      <4> QED BY <2>2, <2>3, <4>2 DEF TicketAnswered
    <3>3. Job(r).op \in {"reply", "status"}
      BY <1>1, <1>3 DEF ReplyHolds
    <3> QED BY <3>1, <3>2, <3>3
  <2>9. ASSUME NEW x \in DOMAIN db'.tickets \ {i} PROVE TicketAnswered(db', scene, x)
    <3>1. TicketAnswered(db, scene, x)
      BY <2>2 DEF ReplyInv
    <3> QED BY <2>2, <3>1 DEF TicketAnswered
  <2>10. \A x \in DOMAIN db'.replies : db'.replies[x].sent => x \in mails
    BY <2>2 DEF ReplyInv
  <2> QED BY <1>1, <2>5, <2>6, <2>7, <2>8, <2>9, <2>10 DEF ReplyInv, Requests, Job
<1> QED BY <1>4, <1>5

\* The log is kept last.
LEMMA LoggedKeeps ==
  ASSUME DeskInv, ReplyInv, NEW r \in Requests, Log(r) PROVE ReplyInv'
<1>1. /\ req[r].pc = "log" /\ scene' = scene /\ mails' = mails
      /\ db' = [db EXCEPT !["log"] = Put(@, r, req[r].answer)] /\ Set(r, [pc |-> "done"])
  BY DEF Log, LogOperator, Returns, Writes, Still
<1>2. db'.tenants = db.tenants /\ \A n \in Paper : db'[n] = db[n]
  BY <1>1 DEF DeskInv, VaultHolds, Vault, Tables, TenantTables, Paper
<1>3. /\ req' = [x \in Requests |-> req'[x]] /\ \A x \in Requests \ {r} : req'[x] = req[x]
      /\ req'[r] = [x \in Fields |-> req'[r][x]]
      /\ req'[r].pc = "done" /\ req'[r].found = req[r].found
  BY <1>1, SetsOne DEF Fields
<1>4. Fades(db, db') /\ Owned(db')
  BY <1>2, PaperStays DEF ReplyInv
<1>5. ReplyHolds(req[r], Job(r), r, db', mails)
  BY <1>4, ReplyHoldsOn DEF ReplyInv
<1>6. ReplyHolds(req'[r], Job(r), r, db', mails)
  BY <1>1, <1>3, <1>5 DEF ReplyHolds, Unsent
<1> QED BY <1>1, <1>3, <1>4, <1>6, FadesKeepReplies

\* Where a step before the mail leaves its request.
LEMMA BeforeTheMail ==
  ASSUME DeskInv, ReplyInv, NEW r \in Requests,
         \/ Identify(r) \/ Recognise(r) \/ Admit(r) \/ Me(r) \/ Verify(r) \/ RefuseCode(r)
         \/ SetUnlocked(r) \/ List(r) \/ NoAccount(r) \/ FindTicket(r) \/ FindContact(r)
  PROVE  /\ req[r].pc \in Unsent /\ \A x \in Requests \ {r} : req'[x] = req[x]
         /\ req'[r].pc # "store" /\ (req'[r].pc = "status" => Job(r).op = "status")
         /\ (req'[r].pc \in {"reply", "mail"} => Job(r).op = "reply")
<1>1. req[r].pc \in Unsent
  BY DEF Identify, Recognise, Admit, Me, Verify, RefuseCode, SetUnlocked, List, NoAccount,
     FindTicket, FindContact, Here, Unsent
<1>2. ASSUME NEW changes, Set(r, changes), "pc" \in DOMAIN changes,
             changes.pc \notin {"store", "status", "reply", "mail"}
      PROVE  /\ \A x \in Requests \ {r} : req'[x] = req[x]
             /\ req'[r].pc \notin {"store", "status", "reply", "mail"}
  BY <1>2, SetsOne DEF Fields
<1>3. ASSUME NEW code, Answer(r, code)
      PROVE  /\ \A x \in Requests \ {r} : req'[x] = req[x]
             /\ req'[r].pc \notin {"store", "status", "reply", "mail"}
  BY <1>2, <1>3 DEF Answer
<1>4. CASE Identify(r)
  <2>1. PICK t : t = TenantForSession(db, Job(r).token, now).says[2]
    OBVIOUS
  <2>2. Answer(r, 404) \/ Set(r, [pc |-> "named", found |-> t])
    BY <1>4, <2>1 DEF Identify
  <2> QED BY <1>1, <1>2, <1>3, <2>2
<1>5. CASE Recognise(r)
  <2>1. PICK e : Answer(r, 404) \/ Set(r, [pc |-> "known", email |-> e])
    BY <1>5 DEF Recognise
  <2> QED BY <1>1, <1>2, <1>3, <2>1
<1>6. CASE Admit(r)
  <2>1. PICK until : Answer(r, 403) \/ Set(r, [pc |-> "in", until |-> until, at |-> now])
    BY <1>6 DEF Admit
  <2> QED BY <1>1, <1>2, <1>3, <2>1
<1>7. CASE Me(r) \/ RefuseCode(r) \/ NoAccount(r)
  BY <1>1, <1>3, <1>7 DEF Me, RefuseCode, NoAccount
<1>8. CASE Verify(r)
  <2>1. \/ Set(r, [pc |-> "open", until |-> now + UnlockFor])
        \/ Set(r, [pc |-> "log", answer |-> 401])
    BY <1>8 DEF Verify
  <2> QED BY <1>1, <1>2, <2>1
<1>9. CASE SetUnlocked(r) \/ List(r)
  <2>1. Set(r, [pc |-> "log", answer |-> 200])
    BY <1>9 DEF SetUnlocked, List
  <2> QED BY <1>1, <1>2, <2>1
<1>10. CASE FindTicket(r)
  <2>1. PICK t : t = GetTicket(db, Job(r).ticket).tenant
    OBVIOUS
  <2>2. CASE t = None
    BY <1>1, <1>3, <1>10, <2>1, <2>2 DEF FindTicket
  <2>3. CASE t # None
    <3>1. /\ Set(r, [found |-> t, ticket |-> Job(r).ticket,
                     pc |-> IF Job(r).op = "view" THEN "log" ELSE Job(r).op,
                     answer |-> IF Job(r).op = "view" THEN 200 ELSE 0])
          /\ Job(r).op \in {"view", "reply", "status"}
      BY <1>10, <2>1, <2>3 DEF FindTicket, Here
    <3>2. /\ req' = [x \in Requests |-> req'[x]] /\ \A x \in Requests \ {r} : req'[x] = req[x]
          /\ req'[r] = [x \in Fields |-> req'[r][x]]
          /\ req'[r].pc = IF Job(r).op = "view" THEN "log" ELSE Job(r).op
      BY <3>1, SetsOne DEF Fields
    <3> QED BY <1>1, <3>1, <3>2
  <2> QED BY <2>2, <2>3
<1>11. CASE FindContact(r)
  <2>1. req[r].pc = "reply" /\ ((\E code : Answer(r, code)) \/ Set(r, [pc |-> "mail"]))
    BY <1>11 DEF FindContact
  <2>2. CASE Set(r, [pc |-> "mail"])
    <3>1. /\ req' = [x \in Requests |-> req'[x]] /\ \A x \in Requests \ {r} : req'[x] = req[x]
          /\ req'[r] = [x \in Fields |-> req'[r][x]]
          /\ req'[r].pc = "mail"
      BY <2>2, SetsOne DEF Fields
    <3>2. Job(r).op = "reply"
      BY <2>1 DEF ReplyInv, ReplyHolds
    <3> QED BY <1>1, <3>1, <3>2
  <2> QED BY <1>1, <1>3, <2>1, <2>2
<1> QED BY <1>4, <1>5, <1>6, <1>7, <1>8, <1>9, <1>10, <1>11

\* Before the mail nothing is written but the session.
LEMMA BeforeTheMailStays ==
  ASSUME DeskInv, NEW r \in Requests,
         \/ Identify(r) \/ Recognise(r) \/ Admit(r) \/ Me(r) \/ Verify(r) \/ RefuseCode(r)
         \/ SetUnlocked(r) \/ List(r) \/ NoAccount(r) \/ FindTicket(r) \/ FindContact(r)
  PROVE  db'.tenants = db.tenants /\ (\A n \in Paper : db'[n] = db[n]) /\ mails' = mails
         /\ scene' = scene
<1>1. CASE Identify(r)
  BY <1>1 DEF Identify, TenantForSession, Returns, DeskInv, VaultHolds, Vault, Tables, TenantTables,
     Paper, Still
<1>2. CASE SetUnlocked(r)
  BY <1>2 DEF SetUnlocked, SetSessionOperator, Returns, DeskInv, VaultHolds, Vault, Tables,
     TenantTables, Paper, Writes, Still
<1>3. CASE \/ Recognise(r) \/ Admit(r) \/ Me(r) \/ Verify(r) \/ RefuseCode(r)
           \/ List(r) \/ NoAccount(r) \/ FindTicket(r) \/ FindContact(r)
  BY <1>3 DEF Recognise, Admit, Me, Verify, RefuseCode, List, NoAccount, FindTicket, FindContact,
     Reads, Still
<1> QED BY <1>1, <1>2, <1>3

\* So those steps keep what is stored and what was mailed in agreement.
LEMMA BeforeTheMailKeeps ==
  ASSUME DeskInv, ReplyInv, NEW r \in Requests,
         \/ Identify(r) \/ Recognise(r) \/ Admit(r) \/ Me(r) \/ Verify(r) \/ RefuseCode(r)
         \/ SetUnlocked(r) \/ List(r) \/ NoAccount(r) \/ FindTicket(r) \/ FindContact(r)
  PROVE  ReplyInv'
<1>1. Fades(db, db') /\ Owned(db')
  BY BeforeTheMailStays, PaperStays DEF ReplyInv
<1> QED BY <1>1, BeforeTheMailStays, BeforeTheMail, UnsentKeeps

\* A closed account takes its papers; the rest leaves them.
LEMMA ElsewhereFades ==
  ASSUME DeskInv, Owned(db), Elsewhere
  PROVE  /\ Fades(db, db') /\ Owned(db') /\ UNCHANGED <<mails, scene, req>>
         /\ now \in Nat /\ now' \in Nat /\ now' >= now
<1>1. ASSUME db'.tenants = db.tenants, \A n \in Paper : db'[n] = db[n]
      PROVE  Fades(db, db') /\ Owned(db')
  BY <1>1, PaperStays
<1>2. now \in Nat
  BY DEF DeskInv
<1>3. CASE Tick
  BY <1>1, <1>2, <1>3 DEF Tick
<1>4. ASSUME NEW k, SignOut(k)
      PROVE  Fades(db, db') /\ Owned(db') /\ UNCHANGED <<mails, scene, req, now>>
  <2>1. db'.tenants = db.tenants /\ \A n \in Paper : db'[n] = db[n]
    BY <1>4 DEF SignOut, DeleteSession, Returns, DeskInv, VaultHolds, Vault, Tables, TenantTables,
       Paper
  <2> QED BY <1>1, <1>4, <2>1 DEF SignOut
<1>5. ASSUME NEW e, Reset(e)
      PROVE  Fades(db, db') /\ Owned(db') /\ UNCHANGED <<mails, scene, req, now>>
  <2>1. db'.tenants = db.tenants /\ \A n \in Paper : db'[n] = db[n]
    BY <1>5 DEF Reset, ResetPassword, Raises, Returns, DeskInv, VaultHolds, Vault, Tables,
       TenantTables, Paper
  <2> QED BY <1>1, <1>5, <2>1 DEF Reset
<1>6. ASSUME NEW e, CloseAccount(e)
      PROVE  Fades(db, db') /\ Owned(db') /\ UNCHANGED <<mails, scene, req, now>>
  BY <1>6, DeletePaper DEF CloseAccount, DeskInv, VaultHolds
<1> QED BY <1>2, <1>3, <1>4, <1>5, <1>6 DEF Elsewhere

\* Closed accounts keep it.
LEMMA ElsewhereKeepsReplies == ASSUME DeskInv, ReplyInv, Elsewhere PROVE ReplyInv'
BY ElsewhereFades, FadesKeepReplies DEF ReplyInv

\* A stop keeps it: a reply mailed and not stored is not answered either.
LEMMA RestartKeepsReplies == ASSUME DeskInv, ReplyInv, Restart PROVE ReplyInv'
<1>1. db' = db /\ mails' = mails /\ scene' = scene
  BY DEF Restart
<1>2. Fades(db, db') /\ Owned(db')
  BY <1>1, PaperStays DEF ReplyInv
<1>3. ASSUME NEW r \in Requests PROVE req'[r] = req[r] \/ ReplyHolds(req'[r], Job(r), r, db', mails)
  <2>1. CASE req'[r] = [req[r] EXCEPT !.pc = "lost"]
    <3>1. req'[r].pc = "lost"
      BY <2>1 DEF DeskInv, RequestHolds, Fields
    <3> QED BY <3>1 DEF ReplyHolds, Unsent
  <2> QED BY <2>1 DEF Restart
<1> QED BY <1>1, <1>2, <1>3, FadesKeepReplies

\* A conversation saved is there, and only expired ones of its tenant go.
LEMMA SaveWrites ==
  ASSUME DeskInv, NEW m, Support!Save(m)
  PROVE  \/ db' = db /\ Support!Reply(m, 500)
         \/ /\ db'.tenants = db.tenants /\ db'.tickets = db.tickets /\ db'.replies = db.replies
            /\ Support!Of(m) \in Tenants(db)
            /\ Support!Conversation(m) \in DOMAIN db.conversations =>
                 db.conversations[Support!Conversation(m)].tenant = Support!Of(m)
            /\ Support!Conversation(m) \in DOMAIN db'.conversations
            /\ db'.conversations[Support!Conversation(m)] =
                 [tenant |-> Support!Of(m), turns |-> [n |-> talk[m].n, said |-> talk[m].said],
                  updated |-> now]
            /\ \A x \in DOMAIN db'.conversations \ {Support!Conversation(m)} :
                 x \in DOMAIN db.conversations /\ db'.conversations[x] = db.conversations[x]
            /\ \A x \in DOMAIN db.conversations \ DOMAIN db'.conversations :
                 db.conversations[x].updated + SupportKept < now
            /\ Support!Change(m, [pc |-> "done", answer |-> 200, at |-> now])
<1> DEFINE c == Support!Conversation(m)
           t == Support!Of(m)
           row == [tenant |-> t, turns |-> [n |-> talk[m].n, said |-> talk[m].said],
                   updated |-> now]
           r == Upsert(db, "conversations", c, row)
           saved == SaveConversation(db, t, c, [n |-> talk[m].n, said |-> talk[m].said], now)
           bad == \/ t \notin Tenants(db)
                  \/ c \in DOMAIN db.conversations /\ db.conversations[c].tenant # t
<1>1. /\ db' = saved.db
      /\ IF saved.says[1] = "raised" THEN Support!Reply(m, 500)
         ELSE Support!Change(m, [pc |-> "done", answer |-> 200, at |-> now])
  BY SameVault DEF Support!Save
<1>2. CASE bad
  BY <1>1, <1>2 DEF SaveConversation, Upsert, Raises, Returns
<1>3. CASE ~bad
  <2> DEFINE put == Put(db.conversations, c, row)
             gone == {x \in Rows(put, {t}) : put[x].updated + SupportKept < now}
  <2>1. r.db = [db EXCEPT !["conversations"] = put] /\ r.says[1] = "returned"
    BY <1>3 DEF Upsert, Returns
  <2>2. r.db.conversations = put
    BY <2>1 DEF DeskInv, VaultHolds, Vault, Tables, TenantTables
  <2>3. /\ db' = [r.db EXCEPT !["conversations"] = Without(put, gone)]
        /\ Support!Change(m, [pc |-> "done", answer |-> 200, at |-> now])
    <3> HIDE DEF r, row
    <3>1. saved = IF \/ r.says[1] = "raised"
                     \/ c \in DOMAIN db.conversations /\ db.conversations[c].tenant # t
                  THEN Raises(db)
                  ELSE Returns([r.db EXCEPT !.conversations =
                      Without(@, {x \in Rows(@, {t}) : @[x].updated + SupportKept < now})], c)
      BY DEF SaveConversation, r, row
    <3> HIDE DEF saved
    <3> QED BY <1>1, <1>3, <2>1, <2>2, <3>1 DEF Raises, Returns
  <2>4. /\ db'.tenants = db.tenants /\ db'.tickets = db.tickets /\ db'.replies = db.replies
        /\ db'.conversations = Without(put, gone)
    BY <2>1, <2>3 DEF DeskInv, VaultHolds, Vault, Tables, TenantTables
  <2>5. /\ DOMAIN put = DOMAIN db.conversations \cup {c} /\ put[c] = row
        /\ \A x \in DOMAIN put \ {c} : put[x] = db.conversations[x]
    BY DEF Put
  <2>6. c \notin gone
    <3>1. ~(now + SupportKept < now)
      BY StoreAssumption DEF StoreAssumption, DeskInv
    <3> QED BY <2>5, <3>1
  <2>7. \A x \in gone : x \in DOMAIN put /\ put[x].updated + SupportKept < now
    BY DEF Rows
  <2> HIDE DEF put, gone
  <2>8. /\ DOMAIN db'.conversations = DOMAIN put \ gone
        /\ \A x \in DOMAIN put \ gone : db'.conversations[x] = put[x]
    BY <2>4 DEF Without
  <2> HIDE DEF row
  <2>9. /\ c \in DOMAIN db'.conversations /\ db'.conversations[c] = row
        /\ \A x \in DOMAIN db'.conversations \ {c} :
             x \in DOMAIN db.conversations /\ db'.conversations[x] = db.conversations[x]
        /\ \A x \in DOMAIN db.conversations \ DOMAIN db'.conversations :
             db.conversations[x].updated + SupportKept < now
    BY <2>5, <2>6, <2>7, <2>8
  <2> QED BY <1>3, <2>3, <2>4, <2>9 DEF row
<1> QED BY <1>2, <1>3

\* A ticket stored is a new one, of the message's tenant and conversation.
LEMMA TicketWrites ==
  ASSUME DeskInv, NEW m, Support!StoreTicket(m)
  PROVE  \/ /\ db' = db /\ Support!Reply(m, 500)
            /\ \/ Support!Of(m) \notin Tenants(db)
               \/ Support!TicketId(m, talk[m].raised) \in DOMAIN db.tickets
         \/ /\ db'.tenants = db.tenants /\ db'.replies = db.replies
            /\ db'.conversations = db.conversations
            /\ Support!Of(m) \in Tenants(db)
            /\ Support!TicketId(m, talk[m].raised) \notin DOMAIN db.tickets
            /\ DOMAIN db'.tickets = DOMAIN db.tickets \cup {Support!TicketId(m, talk[m].raised)}
            /\ \A x \in DOMAIN db.tickets : db'.tickets[x] = db.tickets[x]
            /\ db'.tickets[Support!TicketId(m, talk[m].raised)] =
                 [tenant |-> Support!Of(m), conversation |-> Support!Conversation(m),
                  status |-> "open"]
            /\ Support!Change(m, Support!Onward(m, Support!TicketId(m, talk[m].raised)))
<1> DEFINE i == Support!TicketId(m, talk[m].raised)
           row == [tenant |-> Support!Of(m), conversation |-> Support!Conversation(m),
                   status |-> "open"]
           stored == Insert(db, "tickets", i, row)
<1>1. /\ db' = stored.db
      /\ IF stored.says[1] = "raised" THEN Support!Reply(m, 500)
         ELSE Support!Change(m, Support!Onward(m, i))
  BY SameVault DEF Support!StoreTicket, AddTicket
<1>2. CASE row.tenant \notin Tenants(db) \/ i \in DOMAIN db.tickets
  BY <1>1, <1>2 DEF Insert, Raises
<1>3. CASE ~(row.tenant \notin Tenants(db) \/ i \in DOMAIN db.tickets)
  <2>1. /\ db' = [db EXCEPT !["tickets"] = Put(@, i, row)]
        /\ Support!Change(m, Support!Onward(m, i))
    BY <1>1, <1>3 DEF Insert, Returns
  <2> HIDE DEF i
  <2>2. /\ db'.tenants = db.tenants /\ db'.replies = db.replies
        /\ db'.conversations = db.conversations /\ db'.tickets = Put(db.tickets, i, row)
    BY <2>1 DEF DeskInv, VaultHolds, Vault, Tables, TenantTables
  <2>3. /\ DOMAIN db'.tickets = DOMAIN db.tickets \cup {i} /\ db'.tickets[i] = row
        /\ \A x \in DOMAIN db.tickets : db'.tickets[x] = db.tickets[x]
    BY <1>3, <2>2 DEF Put
  <2> QED BY <1>3, <2>1, <2>2, <2>3 DEF i
<1> QED BY <1>2, <1>3

\* What the assistant writes: a ticket that is open, or a conversation.
LEMMA AssistWrites ==
  ASSUME DeskInv, Owned(db), NEW m, Support!Assist(m)
  PROVE  /\ Owned(db') /\ db'.replies = db.replies /\ Tenants(db') = Tenants(db)
         /\ DOMAIN db.tickets \subseteq DOMAIN db'.tickets
         /\ \A i \in DOMAIN db.tickets : db'.tickets[i] = db.tickets[i]
         /\ \A i \in DOMAIN db'.tickets \ DOMAIN db.tickets : db'.tickets[i].status = "open"
<1>1. CASE Support!StoreTicket(m)
  <2> DEFINE i == Support!TicketId(m, talk[m].raised)
  <2>1. CASE db' = db
    BY <2>1
  <2>2. CASE db' # db
    <3>1. /\ db'.tenants = db.tenants /\ db'.replies = db.replies
          /\ db'.conversations = db.conversations /\ Support!Of(m) \in Tenants(db)
          /\ DOMAIN db'.tickets = DOMAIN db.tickets \cup {i}
          /\ \A x \in DOMAIN db.tickets : db'.tickets[x] = db.tickets[x]
          /\ db'.tickets[i] = [tenant |-> Support!Of(m), conversation |-> Support!Conversation(m),
                               status |-> "open"]
      BY <1>1, <2>2, TicketWrites
    <3>4. db'.tickets[i].tenant = Support!Of(m) /\ db'.tickets[i].status = "open"
      BY <3>1
    <3>2. Tenants(db') = Tenants(db)
      BY <3>1 DEF Tenants
    <3>3. Owned(db')
      BY <3>1, <3>2, <3>4 DEF ReplyInv, Owned, Paper
    <3> QED BY <3>1, <3>2, <3>3, <3>4
  <2> QED BY <2>1, <2>2
<1>2. CASE Support!Save(m)
  <2> DEFINE c == Support!Conversation(m)
  <2>1. CASE db' = db
    BY <2>1
  <2>2. CASE db' # db
    <3>1. /\ db'.tenants = db.tenants /\ db'.tickets = db.tickets /\ db'.replies = db.replies
          /\ Support!Of(m) \in Tenants(db)
          /\ db'.conversations[c] =
               [tenant |-> Support!Of(m), turns |-> [n |-> talk[m].n, said |-> talk[m].said],
                updated |-> now]
          /\ \A x \in DOMAIN db'.conversations \ {c} :
               x \in DOMAIN db.conversations /\ db'.conversations[x] = db.conversations[x]
      BY <1>2, <2>2, SaveWrites
    <3>4. db'.conversations[c].tenant = Support!Of(m)
      BY <3>1
    <3>2. Tenants(db') = Tenants(db)
      BY <3>1 DEF Tenants
    <3>3. Owned(db')
      BY <3>1, <3>2, <3>4 DEF Owned, Paper
    <3> QED BY <3>1, <3>2, <3>3
  <2> QED BY <2>1, <2>2
<1>3. CASE ~Support!StoreTicket(m) /\ ~Support!Save(m)
  <2>1. db' = db
    BY <1>3 DEF Support!Assist, Support!Refuse, Support!Open, Support!Model, Support!Read,
       Support!Escalate, Support!Notify, Support!Looks
  <2> QED BY <2>1
<1> QED BY <1>1, <1>2, <1>3

\* The assistant stores no reply and answers no ticket.
LEMMA AssistKeepsReplies ==
  ASSUME DeskInv, ReplyInv, NEW m, Support!Assist(m), UNCHANGED consoleVars PROVE ReplyInv'
<1>1. req' = req /\ mails' = mails /\ scene' = scene
  BY AssistFalls DEF consoleVars, DeskInv
<1>2. /\ Owned(db') /\ db'.replies = db.replies /\ Tenants(db') = Tenants(db)
      /\ DOMAIN db.tickets \subseteq DOMAIN db'.tickets
      /\ \A i \in DOMAIN db.tickets : db'.tickets[i] = db.tickets[i]
      /\ \A i \in DOMAIN db'.tickets \ DOMAIN db.tickets : db'.tickets[i].status = "open"
  BY AssistWrites DEF ReplyInv
<1>3. ASSUME NEW i \in DOMAIN db'.tickets PROVE TicketAnswered(db', scene, i)
  <2>1. CASE i \in DOMAIN db.tickets
    <3>1. TicketAnswered(db, scene, i)
      BY <2>1 DEF ReplyInv
    <3> QED BY <1>2, <2>1, <3>1 DEF TicketAnswered
  <2>2. CASE i \notin DOMAIN db.tickets
    BY <1>2, <2>2 DEF TicketAnswered
  <2> QED BY <2>1, <2>2
<1>4. ASSUME NEW r \in Requests PROVE ReplyHolds(req[r], Job(r), r, db', mails)
  <2>1. ReplyHolds(req[r], Job(r), r, db, mails)
    BY DEF ReplyInv
  <2> QED BY <1>2, <2>1 DEF ReplyHolds
<1> QED BY <1>1, <1>2, <1>3, <1>4 DEF ReplyInv, Requests, Job

\* No step of the desk breaks it.
LEMMA RepliesStep ==
  DeskInv /\ ReplyInv /\ [DeskNext]_<<vars, talk, notices, met>> => ReplyInv'
<1> SUFFICES ASSUME DeskInv, ReplyInv, [DeskNext]_<<vars, talk, notices, met>> PROVE ReplyInv'
  OBVIOUS
<1>1. ASSUME NEW r \in Requests, Handle(r) PROVE ReplyInv'
  BY <1>1, BeforeTheMailKeeps, SentKeeps, StoredKeeps, StatusKeeps, LoggedKeeps DEF Handle
<1>2. CASE UNCHANGED <<vars, talk, notices, met>>
  <2>1. UNCHANGED <<db, scene, req, mails>>
    BY <1>2 DEF vars, consoleVars
  <2>2. Fades(db, db') /\ Owned(db')
    BY <2>1, PaperStays DEF ReplyInv
  <2> QED BY <2>1, <2>2, FadesKeepReplies
<1> QED BY <1>1, <1>2, RestartKeepsReplies, ElsewhereKeepsReplies, AssistKeepsReplies DEF DeskNext

\* What a scenario starts with.
LEMMA PaperStarts ==
  ASSUME DeskInit
  PROVE  /\ Owned(db) /\ scene \in Scenarios /\ now = 0 /\ mails = {} /\ db.tickets = scene.tickets
         /\ db.conversations = scene.kept /\ DOMAIN db.replies = {}
         /\ req = [r \in Requests |-> Fresh]
<1>1. /\ scene \in Scenarios /\ mails = {} /\ db.tickets = scene.tickets /\ now = 0
      /\ db.conversations = scene.kept /\ db.replies = [x \in {} |-> None]
      /\ db.tenants = [t \in {Logins[e] : e \in DOMAIN Logins} |-> None]
      /\ req = [r \in Requests |-> Fresh]
  BY DEF DeskInit, Init, NewDatabase, Tables, TenantTables, Requests
<1>2. Tenants(db) = {Logins[e] : e \in DOMAIN Logins}
  BY <1>1 DEF Tenants
<1>3. DOMAIN db.replies = {}
  BY <1>1
<1>4. \A n \in Paper : \A k \in DOMAIN db[n] : db[n][k].tenant \in Tenants(db)
  BY <1>1, <1>2, <1>3, LoginAssumption DEF LoginAssumption, Paper
<1> QED BY <1>1, <1>3, <1>4 DEF Owned

\* It holds at the start.
LEMMA RepliesStart == DeskInit => ReplyInv
<1> SUFFICES ASSUME DeskInit PROVE ReplyInv
  OBVIOUS
<1>1. \A r \in Requests : ReplyHolds(req[r], Job(r), r, db, mails)
  BY PaperStarts DEF ReplyHolds, Fresh
<1>2. \A i \in DOMAIN db.tickets : TicketAnswered(db, scene, i)
  BY PaperStarts DEF TicketAnswered
<1> QED BY <1>1, <1>2, PaperStarts DEF ReplyInv

\* Replies, mails and tickets agree, always.
LEMMA RepliesHold == DeskSpec => []ReplyInv
BY DeskHolds, RepliesStart, RepliesStep, PTL DEF DeskSpec

\* Which is the first half of CorrespondenceIsTrue.
LEMMA RepliesHoldTrue == ReplyInv => RepliesAreTrue
BY DEF ReplyInv, RepliesAreTrue, ReplyHolds, TicketAnswered, Requests, Job

-----------------------------------------------------------------------------
(* The assistant: what each message holds, what is kept, and who met whom.   *)

TalkFields == {"pc", "said", "n", "round", "uses", "raised", "ticket", "answer", "at"}

Of(s, m) == s.says[m].tenant
About(s, m) == Known(s.says[m].conversation, m)
Left(d, s, m) == Of(s, m) \notin Tenants(d)

Flying(q) == q.pc \notin {"sent", "done", "lost"}
Active(q) == Flying(q) \/ q.answer = 200

\* A list of turns, and who is in it.
Voices(list) == {list[i] : i \in 1..Len(list)}
IsTurns(list, n) == list \in Seq(Voices(list)) /\ n = Len(list) /\ n <= MaxTurns

\* A message in flight has itself in what it will save.
TalkHolds(m, q, clock) ==
  /\ q = [x \in TalkFields |-> q[x]]
  /\ q.raised \in Nat
  /\ q.answer = 200 => q.pc = "done" /\ q.at \in Nat /\ q.at <= clock
  /\ Flying(q) => IsTurns(q.said, q.n) /\ m \in Voices(q.said)

\* A conversation is one kept before, or a message's that has been asked.
Begun(t, s, c) == c \in DOMAIN s.kept \/ (c \in DOMAIN s.says /\ t[c].pc # "sent")

Speaking(t, s, clock) ==
  t = [m \in DOMAIN s.says |-> t[m]] /\ \A m \in DOMAIN s.says : TalkHolds(m, t[m], clock)

Conversing(d, t, s, clock) ==
  /\ \A c \in DOMAIN d.conversations :
       /\ Begun(t, s, c)
       /\ IsTurns(d.conversations[c].turns.said, d.conversations[c].turns.n)
       /\ d.conversations[c].updated \in Nat /\ d.conversations[c].updated <= clock
  /\ \A m \in DOMAIN s.says : Active(t[m]) => Begun(t, s, About(s, m))

\* One conversation is one tenant's.
SameOwner(d, t, s) ==
  /\ \A m \in DOMAIN s.says : Active(t[m]) /\ About(s, m) \in DOMAIN d.conversations =>
       d.conversations[About(s, m)].tenant = Of(s, m)
  /\ \A m, x \in DOMAIN s.says :
       Active(t[m]) /\ Active(t[x]) /\ About(s, m) = About(s, x) => Of(s, m) = Of(s, x)

\* Two in flight about one conversation have met.
Meeting(t, s, near) ==
  \A m, x \in DOMAIN s.says :
    m # x /\ Flying(t[m]) /\ Flying(t[x]) /\ About(s, m) = About(s, x) => {m, x} \in near

\* Another answered in the same conversation, met in flight.
Over(t, s, near, m) ==
  \E x \in DOMAIN s.says \ {m} : About(s, x) = About(s, m) /\ t[x].answer = 200 /\ {m, x} \in near

\* What was answered has been saved since, is there, and is heard by who reads it.
Answering(d, t, s, near, clock) ==
  \A m \in DOMAIN s.says : t[m].answer = 200 =>
    /\ About(s, m) \in DOMAIN d.conversations => t[m].at <= d.conversations[About(s, m)].updated
    /\ \/ Left(d, s, m)
       \/ About(s, m) \in DOMAIN d.conversations
       \/ t[m].at + SupportKept < clock
    /\ \/ Left(d, s, m)
       \/ /\ About(s, m) \in DOMAIN d.conversations
          /\ m \in Voices(d.conversations[About(s, m)].turns.said)
       \/ Over(t, s, near, m)
       \/ About(s, m) \notin DOMAIN d.conversations /\ t[m].at + SupportKept < clock
    /\ \A x \in DOMAIN s.says : Flying(t[x]) /\ About(s, x) = About(s, m) =>
         \/ Left(d, s, m)
         \/ m \in Voices(t[x].said)
         \/ {m, x} \in near
         \/ Over(t, s, near, m)

ConversationsHold(d, t, s, near, clock) ==
  /\ Speaking(t, s, clock) /\ Conversing(d, t, s, clock) /\ SameOwner(d, t, s)
  /\ Meeting(t, s, near) /\ Answering(d, t, s, near, clock)

\* A message's tickets are its tenant's; the one it will tell of is there, and one
\* the operator was told of is, or is about to be.
TicketsHold(d, t, s, told) ==
  /\ \A m \in DOMAIN s.says, k \in Nat : <<m, k>> \in DOMAIN d.tickets =>
       d.tickets[<<m, k>>].tenant = Of(s, m) /\ d.tickets[<<m, k>>].conversation = About(s, m)
  /\ \A m \in DOMAIN s.says : t[m].ticket # None =>
       Left(d, s, m) \/ \E k \in Nat : t[m].ticket = <<m, k>> /\ <<m, k>> \in DOMAIN d.tickets
  /\ \A i \in told : \E m \in DOMAIN s.says, k \in Nat :
       /\ i = <<m, k>>
       /\ \/ Left(d, s, m) \/ i \in DOMAIN d.tickets \/ t[m].pc = "lost"
          \/ t[m].pc = "ticket" /\ k = t[m].raised

\* What the console does to the papers: rows go with their tenant, and a ticket
\* may change its status.
Drifts(d, e) ==
  /\ Tenants(e) \subseteq Tenants(d)
  /\ DOMAIN e.conversations =
       {c \in DOMAIN d.conversations : d.conversations[c].tenant \in Tenants(e)}
  /\ \A c \in DOMAIN e.conversations : e.conversations[c] = d.conversations[c]
  /\ DOMAIN e.tickets = {i \in DOMAIN d.tickets : d.tickets[i].tenant \in Tenants(e)}
  /\ \A i \in DOMAIN e.tickets :
       /\ e.tickets[i].tenant = d.tickets[i].tenant
       /\ e.tickets[i].conversation = d.tickets[i].conversation

\* The console keeps what the assistant relies on about conversations.
LEMMA DriftKeepsConversations ==
  ASSUME NEW d, NEW e, NEW t, NEW s, NEW near, NEW a \in Nat, NEW b \in Nat, a <= b, Drifts(d, e),
         ConversationsHold(d, t, s, near, a)
  PROVE  ConversationsHold(e, t, s, near, b)
<1>1. Speaking(t, s, b)
  BY DEF ConversationsHold, Speaking, TalkHolds
<1>2. Conversing(e, t, s, b)
  BY DEF ConversationsHold, Conversing, Drifts
<1>3. SameOwner(e, t, s)
  BY DEF ConversationsHold, SameOwner, Drifts
<1>4. \A m \in DOMAIN s.says : Left(d, s, m) => Left(e, s, m)
  BY DEF Left, Drifts
<1>5. ASSUME NEW m \in DOMAIN s.says, t[m].answer = 200, About(s, m) \in DOMAIN d.conversations
      PROVE  \/ Left(e, s, m)
             \/ /\ About(s, m) \in DOMAIN e.conversations
                /\ e.conversations[About(s, m)] = d.conversations[About(s, m)]
  <2>1. d.conversations[About(s, m)].tenant = Of(s, m)
    BY <1>5 DEF ConversationsHold, SameOwner, Active
  <2> QED BY <1>5, <2>1 DEF Drifts, Left
<1>6. \A m \in DOMAIN s.says : t[m].answer = 200 => t[m].at \in Nat
  BY DEF ConversationsHold, Speaking, TalkHolds
<1>7. ASSUME NEW m \in DOMAIN s.says, t[m].answer = 200, t[m].at + SupportKept < a
      PROVE  t[m].at + SupportKept < b
  BY <1>6, <1>7, StoreAssumption DEF StoreAssumption
<1>8. DOMAIN e.conversations \subseteq DOMAIN d.conversations
      /\ \A c \in DOMAIN e.conversations : e.conversations[c] = d.conversations[c]
  BY DEF Drifts
<1>9. Answering(e, t, s, near, b)
  BY <1>4, <1>5, <1>7, <1>8 DEF ConversationsHold, Answering
<1> QED BY <1>1, <1>2, <1>3, <1>9 DEF ConversationsHold

\* And about tickets.
LEMMA DriftKeepsTickets ==
  ASSUME NEW d, NEW e, NEW t, NEW s, NEW told, Drifts(d, e), TicketsHold(d, t, s, told)
  PROVE  TicketsHold(e, t, s, told)
<1>1. \A m \in DOMAIN s.says : Left(d, s, m) => Left(e, s, m)
  BY DEF Left, Drifts
<1>2. ASSUME NEW m \in DOMAIN s.says, NEW k \in Nat, <<m, k>> \in DOMAIN d.tickets
      PROVE  Left(e, s, m) \/ <<m, k>> \in DOMAIN e.tickets
  BY <1>2 DEF TicketsHold, Drifts, Left
<1>3. ASSUME NEW i \in DOMAIN e.tickets
      PROVE  /\ i \in DOMAIN d.tickets /\ e.tickets[i].tenant = d.tickets[i].tenant
             /\ e.tickets[i].conversation = d.tickets[i].conversation
  BY DEF Drifts
<1>4. \A m \in DOMAIN s.says, k \in Nat : <<m, k>> \in DOMAIN e.tickets =>
        e.tickets[<<m, k>>].tenant = Of(s, m) /\ e.tickets[<<m, k>>].conversation = About(s, m)
  BY <1>3 DEF TicketsHold
<1>5. \A m \in DOMAIN s.says : t[m].ticket # None =>
        Left(e, s, m) \/ \E k \in Nat : t[m].ticket = <<m, k>> /\ <<m, k>> \in DOMAIN e.tickets
  BY <1>1, <1>2 DEF TicketsHold
<1>6. ASSUME NEW i \in told
      PROVE  \E m \in DOMAIN s.says, k \in Nat :
               /\ i = <<m, k>>
               /\ \/ Left(e, s, m) \/ i \in DOMAIN e.tickets \/ t[m].pc = "lost"
                  \/ t[m].pc = "ticket" /\ k = t[m].raised
  BY <1>1, <1>2 DEF TicketsHold
<1> QED BY <1>4, <1>5, <1>6 DEF TicketsHold

\* Papers that go with their tenant drift.
LEMMA FadesDrift == ASSUME NEW d, NEW e, Fades(d, e) PROVE Drifts(d, e)
BY DEF Fades, Drifts, Paper

\* No step of the console does more to the papers.
LEMMA HandleDrifts ==
  ASSUME DeskInv, Owned(db), NEW r \in Requests, Handle(r)
  PROVE  Drifts(db, db') /\ scene' = scene /\ now' = now
<1>1. scene' = scene /\ now' = now
  BY DEF Handle, Identify, Recognise, Admit, Me, Verify, RefuseCode, SetUnlocked, Log, List,
     NoAccount, FindTicket, FindContact, Mail, StoreReply, SetStatus, Reads, Writes, Still
<1>2. ASSUME db'.tenants = db.tenants, \A n \in Paper : db'[n] = db[n] PROVE Drifts(db, db')
  BY <1>2, PaperStays, FadesDrift
<1>3. CASE StoreReply(r)
  <2>1. db' = AddReply(db, req[r].found, req[r].ticket, r, req[r].sent).db
    BY <1>3 DEF StoreReply, Writes
  <2>2. db' = db \/ \E x : db' = [db EXCEPT !["replies"] = x]
    BY <2>1 DEF AddReply, Insert, Raises, Returns
  <2>3. /\ db'.tenants = db.tenants /\ db'.tickets = db.tickets
        /\ db'.conversations = db.conversations
    BY <2>2 DEF DeskInv, VaultHolds, Vault, Tables, TenantTables
  <2>4. Tenants(db') = Tenants(db)
    BY <2>3 DEF Tenants
  <2>5. /\ \A c \in DOMAIN db.conversations : db.conversations[c].tenant \in Tenants(db)
        /\ \A x \in DOMAIN db.tickets : db.tickets[x].tenant \in Tenants(db)
    BY DEF Owned, Paper
  <2> QED BY <1>1, <2>3, <2>4, <2>5 DEF Drifts
<1>4. CASE SetStatus(r)
  <2> DEFINE i == req[r].ticket
  <2>1. db' = SetTicketStatus(db, req[r].found, i, Job(r).status).db
    BY <1>4 DEF SetStatus, Writes
  <2>2. CASE i \notin Where(db, "tickets", {req[r].found})
    <3>1. db' = db
      BY <2>1, <2>2 DEF SetTicketStatus, Raises
    <3> QED BY <1>1, <1>2, <3>1
  <2>3. CASE i \in Where(db, "tickets", {req[r].found})
    <3>1. i \in DOMAIN db.tickets
      BY <2>3 DEF Where, Rows
    <3>2. /\ db'.tenants = db.tenants /\ db'.conversations = db.conversations
          /\ DOMAIN db'.tickets = DOMAIN db.tickets
          /\ \A x \in DOMAIN db.tickets \ {i} : db'.tickets[x] = db.tickets[x]
          /\ db'.tickets[i] = [db.tickets[i] EXCEPT !.status = Job(r).status]
      BY <2>1, <2>3, <3>1 DEF SetTicketStatus, Returns, DeskInv, VaultHolds, Vault, Tables,
         TenantTables
    <3>3. /\ db'.tickets[i].tenant = db.tickets[i].tenant
          /\ db'.tickets[i].conversation = db.tickets[i].conversation
      BY <3>2
    <3>4. Tenants(db') = Tenants(db)
      BY <3>2 DEF Tenants
    <3>5. /\ \A c \in DOMAIN db.conversations : db.conversations[c].tenant \in Tenants(db)
          /\ \A x \in DOMAIN db.tickets : db.tickets[x].tenant \in Tenants(db)
      BY DEF Owned, Paper
    <3> QED BY <1>1, <3>2, <3>3, <3>4, <3>5 DEF Drifts
  <2> QED BY <2>2, <2>3
<1>5. CASE Log(r) \/ Mail(r)
  <2>1. db'.tenants = db.tenants /\ \A n \in Paper : db'[n] = db[n]
    BY <1>5 DEF Log, LogOperator, Returns, Writes, Mail, DeskInv, VaultHolds, Vault, Tables,
       TenantTables, Paper
  <2> QED BY <1>1, <1>2, <2>1
<1>6. CASE \/ Identify(r) \/ Recognise(r) \/ Admit(r) \/ Me(r) \/ Verify(r) \/ RefuseCode(r)
           \/ SetUnlocked(r) \/ List(r) \/ NoAccount(r) \/ FindTicket(r) \/ FindContact(r)
  BY <1>1, <1>2, <1>6, BeforeTheMailStays
<1> QED BY <1>1, <1>3, <1>4, <1>5, <1>6 DEF Handle

\* The steps after which the same are in flight, or fewer, and the same answered.
Calms(t, u, s) ==
  /\ u = [m \in DOMAIN s.says |-> u[m]]
  /\ \A m \in DOMAIN s.says :
       /\ u[m] = [x \in TalkFields |-> u[m][x]] /\ u[m].raised \in Nat
       /\ u[m].answer = 200 => t[m].answer = 200
       /\ t[m].answer = 200 => u[m] = t[m]
       /\ t[m].pc # "sent" => u[m].pc # "sent"
       /\ Flying(u[m]) => Flying(t[m]) /\ u[m].said = t[m].said /\ u[m].n = t[m].n

\* Such steps keep what holds of conversations.
LEMMA CalmKeepsConversations ==
  ASSUME NEW d, NEW t, NEW u, NEW s, NEW near, NEW clock, Calms(t, u, s),
         ConversationsHold(d, t, s, near, clock)
  PROVE  ConversationsHold(d, u, s, near, clock)
<1>1. Speaking(u, s, clock)
  <2>1. ASSUME NEW m \in DOMAIN s.says PROVE TalkHolds(m, u[m], clock)
    <3>1. TalkHolds(m, t[m], clock)
      BY DEF ConversationsHold, Speaking
    <3>2. /\ u[m] = [x \in TalkFields |-> u[m][x]] /\ u[m].raised \in Nat
          /\ u[m].answer = 200 => t[m].answer = 200 /\ u[m] = t[m]
          /\ Flying(u[m]) => Flying(t[m]) /\ u[m].said = t[m].said /\ u[m].n = t[m].n
      BY DEF Calms
    <3> QED BY <3>1, <3>2 DEF TalkHolds
  <2> QED BY <2>1 DEF Speaking, Calms
<1>2. \A c : Begun(t, s, c) => Begun(u, s, c)
  BY DEF Begun, Calms
<1>3. \A m \in DOMAIN s.says : Active(u[m]) => Active(t[m])
  BY DEF Active, Calms
<1>4. Conversing(d, u, s, clock)
  BY <1>2, <1>3 DEF ConversationsHold, Conversing
<1>5. SameOwner(d, u, s)
  BY <1>3 DEF ConversationsHold, SameOwner
<1>6. Meeting(u, s, near)
  BY DEF ConversationsHold, Meeting, Calms
<1>7. \A m \in DOMAIN s.says :
        /\ t[m].answer = 200 => u[m].answer = 200
        /\ u[m].answer = 200 => t[m].answer = 200 /\ u[m].at = t[m].at
        /\ Flying(u[m]) => Flying(t[m]) /\ u[m].said = t[m].said
  BY DEF Calms
<1>9. \A m \in DOMAIN s.says : Over(t, s, near, m) => Over(u, s, near, m)
  BY <1>7 DEF Over
<1>8. Answering(d, u, s, near, clock)
  BY <1>7, <1>9 DEF ConversationsHold, Answering
<1> QED BY <1>1, <1>4, <1>5, <1>6, <1>8 DEF ConversationsHold

\* A turn more at the end of a list.
LEMMA ListGrows ==
  ASSUME NEW list, NEW n, list \in Seq(Voices(list)), n = Len(list), NEW m
  PROVE  /\ Append(list, m) \in Seq(Voices(Append(list, m))) /\ Len(Append(list, m)) = n + 1
         /\ m \in Voices(Append(list, m)) /\ Voices(list) \subseteq Voices(Append(list, m))
<1>1. PICK S : S = Voices(list) \cup {m}
  OBVIOUS
<1>2. n \in Nat /\ list \in Seq(S)
  <2>1. \A i \in 1..Len(list) : list[i] \in S
    BY <1>1 DEF Voices
  <2> QED BY <1>1, <2>1
<1>3. PICK more : more = Append(list, m)
  OBVIOUS
<1>4. /\ more \in [1..(n + 1) -> S] /\ Len(more) = n + 1 /\ more[n + 1] = m
      /\ \A i \in 1..n : more[i] = list[i]
  <2>1. m \in S
    BY <1>1
  <2>2. more \in Seq(S) /\ Len(more) = n + 1
    BY <1>2, <1>3, <2>1
  <2>3. more[n + 1] = m /\ \A i \in 1..n : more[i] = list[i]
    BY <1>2, <1>3, <2>1
  <2> QED BY <1>2, <2>2, <2>3
<1>5. m \in Voices(more) /\ Voices(list) \subseteq Voices(more)
  BY <1>2, <1>4 DEF Voices
<1>6. \A i \in 1..(n + 1) : more[i] \in Voices(more)
  BY <1>2, <1>4 DEF Voices
<1>7. more \in [1..(n + 1) -> Voices(more)]
  BY <1>2, <1>4, <1>6
<1> QED BY <1>2, <1>3, <1>4, <1>5, <1>7

\* What a step must keep of a message for what holds of tickets.
LEMMA CalmKeepsTickets ==
  ASSUME NEW d, NEW t, NEW u, NEW s, NEW told, TicketsHold(d, t, s, told),
         \A m \in DOMAIN s.says :
           /\ \/ u[m].ticket = t[m].ticket
              \/ \E k \in Nat : u[m].ticket = <<m, k>> /\ <<m, k>> \in DOMAIN d.tickets
           /\ t[m].pc = "lost" => u[m].pc = "lost"
           /\ t[m].pc = "ticket" =>
                \/ Left(d, s, m) \/ <<m, t[m].raised>> \in DOMAIN d.tickets \/ u[m].pc = "lost"
                \/ u[m].pc = "ticket" /\ u[m].raised = t[m].raised
  PROVE  TicketsHold(d, u, s, told)
<1>1. \A m \in DOMAIN s.says, k \in Nat : <<m, k>> \in DOMAIN d.tickets =>
        d.tickets[<<m, k>>].tenant = Of(s, m) /\ d.tickets[<<m, k>>].conversation = About(s, m)
  BY DEF TicketsHold
<1>2. ASSUME NEW m \in DOMAIN s.says, u[m].ticket # None
      PROVE  Left(d, s, m) \/ \E k \in Nat : u[m].ticket = <<m, k>> /\ <<m, k>> \in DOMAIN d.tickets
  BY <1>2 DEF TicketsHold
<1>3. ASSUME NEW i \in told
      PROVE  \E m \in DOMAIN s.says, k \in Nat :
               /\ i = <<m, k>>
               /\ \/ Left(d, s, m) \/ i \in DOMAIN d.tickets \/ u[m].pc = "lost"
                  \/ u[m].pc = "ticket" /\ k = u[m].raised
  <2>1. PICK m \in DOMAIN s.says, k \in Nat :
          /\ i = <<m, k>>
          /\ \/ Left(d, s, m) \/ i \in DOMAIN d.tickets \/ t[m].pc = "lost"
             \/ t[m].pc = "ticket" /\ k = t[m].raised
    BY DEF TicketsHold
  <2>2. \/ Left(d, s, m) \/ i \in DOMAIN d.tickets \/ u[m].pc = "lost"
        \/ u[m].pc = "ticket" /\ k = u[m].raised
    BY <2>1
  <2> QED BY <2>1, <2>2
<1> QED BY <1>1, <1>2, <1>3 DEF TicketsHold

\* The assistant's names for these.
LEMMA SameNames ==
  ASSUME NEW m
  PROVE  /\ Support!Messages = DOMAIN scene.says
         /\ Support!Of(m) = Of(scene, m) /\ Support!Conversation(m) = About(scene, m)
         /\ Support!InFlight(m) <=> Flying(talk[m])
         /\ Support!Gone(m) <=> Left(db, scene, m)
         /\ Support!Tenants(db) = Tenants(db)
BY DEF Support!Messages, Support!Of, Support!Asked, Support!Conversation, Support!InFlight,
   Support!Gone, Support!Known, Support!Tenants, Of, About, Flying, Left, Known, Tenants

\* Both, of the desk as it stands.
TalkInv ==
  ConversationsHold(db, talk, scene, met, now) /\ TicketsHold(db, talk, scene, notices)

\* One message changes.
LEMMA ChangesOne ==
  ASSUME TalkInv, NEW m \in DOMAIN scene.says, NEW changes, Support!Change(m, changes)
  PROVE  /\ talk' = [x \in DOMAIN scene.says |-> talk'[x]]
         /\ \A x \in DOMAIN scene.says \ {m} : talk'[x] = talk[x]
         /\ talk'[m] = [x \in TalkFields |-> talk'[m][x]]
         /\ \A x \in TalkFields :
              talk'[m][x] = IF x \in DOMAIN changes THEN changes[x] ELSE talk[m][x]
<1>1. /\ talk[m] = [x \in TalkFields |-> talk[m][x]]
      /\ talk = [x \in DOMAIN scene.says |-> talk[x]]
  BY DEF TalkInv, ConversationsHold, Speaking, TalkHolds
<1> QED BY <1>1 DEF Support!Change

\* Which leaves its ticket, unless it says another.
LEMMA TicketStays ==
  ASSUME TalkInv, NEW m \in DOMAIN scene.says, NEW changes, Support!Change(m, changes),
         "ticket" \notin DOMAIN changes
  PROVE  (\A x \in DOMAIN scene.says \ {m} : talk'[x] = talk[x]) /\ talk'[m].ticket = talk[m].ticket
<1>1. /\ talk' = [x \in DOMAIN scene.says |-> talk'[x]]
      /\ \A x \in DOMAIN scene.says \ {m} : talk'[x] = talk[x]
      /\ talk'[m] = [x \in TalkFields |-> talk'[m][x]]
      /\ \A x \in TalkFields :
           talk'[m][x] = IF x \in DOMAIN changes THEN changes[x] ELSE talk[m][x]
  BY ChangesOne
<1> QED BY <1>1 DEF TalkFields

\* A handler that goes on, or answers without having saved, calms.
LEMMA StepCalms ==
  ASSUME TalkInv, NEW m \in DOMAIN scene.says, NEW changes, Support!Change(m, changes),
         "pc" \in DOMAIN changes, changes.pc # "sent", talk[m].pc # "done",
         Flying(talk[m]) \/ changes.pc = "done",
         "answer" \in DOMAIN changes => changes.answer # 200,
         "said" \notin DOMAIN changes, "n" \notin DOMAIN changes,
         "raised" \in DOMAIN changes => changes.raised \in Nat
  PROVE  Calms(talk, talk', scene)
<1>1. /\ talk' = [x \in DOMAIN scene.says |-> talk'[x]]
      /\ \A x \in DOMAIN scene.says \ {m} : talk'[x] = talk[x]
      /\ talk'[m] = [x \in TalkFields |-> talk'[m][x]]
      /\ \A x \in TalkFields :
           talk'[m][x] = IF x \in DOMAIN changes THEN changes[x] ELSE talk[m][x]
  BY ChangesOne
<1>2. \A x \in DOMAIN scene.says : TalkHolds(x, talk[x], now)
  BY DEF TalkInv, ConversationsHold, Speaking
<1>3. /\ talk'[m].pc = changes.pc /\ talk'[m].said = talk[m].said /\ talk'[m].n = talk[m].n
      /\ talk'[m].raised = IF "raised" \in DOMAIN changes THEN changes.raised ELSE talk[m].raised
      /\ talk'[m].answer = IF "answer" \in DOMAIN changes THEN changes.answer ELSE talk[m].answer
  BY <1>1 DEF TalkFields
<1>4. talk[m].answer # 200 /\ talk[m].raised \in Nat
  BY <1>2 DEF TalkHolds
<1>5. /\ talk'[m].raised \in Nat /\ talk'[m].answer # 200 /\ talk'[m].pc # "sent"
      /\ Flying(talk'[m]) => Flying(talk[m])
  BY <1>3, <1>4 DEF Flying
<1>6. ASSUME NEW x \in DOMAIN scene.says \ {m}
      PROVE  /\ talk'[x] = talk[x] /\ talk'[x] = [y \in TalkFields |-> talk'[x][y]]
             /\ talk'[x].raised \in Nat
  BY <1>1, <1>2 DEF TalkHolds
<1> QED BY <1>1, <1>3, <1>4, <1>5, <1>6 DEF Calms

\* Those met are still met.
LEMMA NearGrows ==
  ASSUME NEW d, NEW t, NEW s, NEW near, NEW more, near \subseteq more, NEW clock,
         ConversationsHold(d, t, s, near, clock)
  PROVE  ConversationsHold(d, t, s, more, clock)
<1>1. Meeting(t, s, more)
  BY DEF ConversationsHold, Meeting
<1>2. \A m \in DOMAIN s.says : Over(t, s, near, m) => Over(t, s, more, m)
  BY DEF Over
<1>3. Answering(d, t, s, more, clock)
  BY <1>2 DEF ConversationsHold, Answering
<1> QED BY <1>1, <1>3 DEF ConversationsHold

\* A vault with the same accounts and conversations.
LEMMA SameConversations ==
  ASSUME NEW d, NEW e, NEW t, NEW s, NEW near, NEW clock, e.conversations = d.conversations,
         Tenants(e) = Tenants(d), ConversationsHold(d, t, s, near, clock)
  PROVE  ConversationsHold(e, t, s, near, clock)
<1>1. \A m : Left(e, s, m) <=> Left(d, s, m)
  BY DEF Left
<1>2. Conversing(e, t, s, clock) /\ SameOwner(e, t, s)
  BY DEF ConversationsHold, Conversing, SameOwner
<1>3. Answering(e, t, s, near, clock)
  BY <1>1 DEF ConversationsHold, Answering
<1> QED BY <1>2, <1>3 DEF ConversationsHold

\* And one with the same accounts and tickets.
LEMMA SameTickets ==
  ASSUME NEW d, NEW e, NEW t, NEW s, NEW told, e.tickets = d.tickets, Tenants(e) = Tenants(d),
         TicketsHold(d, t, s, told)
  PROVE  TicketsHold(e, t, s, told)
<1>1. \A m : Left(e, s, m) <=> Left(d, s, m)
  BY DEF Left
<1>2. \A m \in DOMAIN s.says, k \in Nat : <<m, k>> \in DOMAIN e.tickets =>
        e.tickets[<<m, k>>].tenant = Of(s, m) /\ e.tickets[<<m, k>>].conversation = About(s, m)
  BY DEF TicketsHold
<1>3. \A m \in DOMAIN s.says : t[m].ticket # None =>
        Left(e, s, m) \/ \E k \in Nat : t[m].ticket = <<m, k>> /\ <<m, k>> \in DOMAIN e.tickets
  BY <1>1 DEF TicketsHold
<1>4. ASSUME NEW i \in told
      PROVE  \E m \in DOMAIN s.says, k \in Nat :
               /\ i = <<m, k>>
               /\ \/ Left(e, s, m) \/ i \in DOMAIN e.tickets \/ t[m].pc = "lost"
                  \/ t[m].pc = "ticket" /\ k = t[m].raised
  BY <1>1 DEF TicketsHold
<1> QED BY <1>2, <1>3, <1>4 DEF TicketsHold

\* A step that is neither a save, an opening nor about a ticket: on to the next
\* await, or an answer that is an error.
Goes(m, changes) ==
  /\ Support!Change(m, changes) /\ "pc" \in DOMAIN changes /\ changes.pc # "sent"
  /\ talk[m].pc \notin {"done", "lost", "ticket"} /\ (Flying(talk[m]) \/ changes.pc = "done")
  /\ "answer" \in DOMAIN changes => changes.answer # 200
  /\ "said" \notin DOMAIN changes /\ "n" \notin DOMAIN changes
  /\ "raised" \in DOMAIN changes => changes.raised \in Nat
  /\ "ticket" \in DOMAIN changes => changes.ticket = talk[m].ticket

\* Such steps keep both.
LEMMA PlainKeeps ==
  ASSUME DeskInv, TalkInv, NEW m \in DOMAIN scene.says,
         Support!Refuse(m) \/ Support!Model(m) \/ Support!Read(m) \/ Support!Escalate(m)
  PROVE  TalkInv'
<1>1. db' = db /\ notices' = notices /\ met' = met /\ now' = now /\ scene' = scene
  BY DEF Support!Refuse, Support!Model, Support!Read, Support!Escalate, Support!Looks,
     Support!Quiet
<1>2. talk[m].raised \in Nat
  BY DEF TalkInv, ConversationsHold, Speaking, TalkHolds
<1>3. PICK changes : Goes(m, changes)
  <2>1. ASSUME NEW code, Support!Reply(m, code), code # 200,
               talk[m].pc \notin {"done", "lost", "ticket"}
        PROVE  \E changes : Goes(m, changes)
    <3>1. Support!Change(m, [pc |-> "done", answer |-> code])
      BY <2>1 DEF Support!Reply
    <3> QED BY <2>1, <3>1 DEF Goes
  <2>2. CASE Support!Refuse(m)
    <3>1. PICK code \in {429, 503} : Support!Reply(m, code)
      BY <2>2 DEF Support!Refuse
    <3> QED BY <2>1, <2>2, <3>1 DEF Support!Refuse
  <2>3. CASE Support!Model(m)
    <3>1. talk[m].pc = "model" /\ Flying(talk[m])
      BY <2>3 DEF Support!Model, Flying
    <3>2. \/ Support!Reply(m, 503)
          \/ Support!Change(m, [pc |-> "save"])
          \/ \E uses : Support!Change(m, [pc |-> "tool", uses |-> uses])
      BY <2>3 DEF Support!Model
    <3>3. CASE Support!Change(m, [pc |-> "save"])
      BY <3>1, <3>3 DEF Goes
    <3>4. ASSUME NEW uses, Support!Change(m, [pc |-> "tool", uses |-> uses])
          PROVE  \E changes : Goes(m, changes)
      BY <3>1, <3>4 DEF Goes
    <3>5. CASE Support!Reply(m, 503)
      BY <2>1, <3>1, <3>5
    <3> QED BY <3>2, <3>3, <3>4, <3>5
  <2>4. CASE Support!Read(m) \/ Support!Escalate(m)
    <3>1. talk[m].pc = "tool" /\ Flying(talk[m])
      BY <2>4 DEF Support!Read, Support!Escalate, Support!Uses, Flying
    <3>2. \/ Support!Reply(m, 500)
          \/ Support!Change(m, [pc |-> "notify", raised |-> talk[m].raised + 1])
          \/ Support!Change(m, Support!Onward(m, talk[m].ticket))
      BY <2>4 DEF Support!Read, Support!Escalate
    <3>3. CASE Support!Change(m, [pc |-> "notify", raised |-> talk[m].raised + 1])
      BY <1>2, <3>1, <3>3 DEF Goes
    <3>4. CASE Support!Change(m, Support!Onward(m, talk[m].ticket))
      <4>1. PICK next : next = Support!Onward(m, talk[m].ticket)
        OBVIOUS
      <4>2. /\ DOMAIN next = {"ticket", "uses", "pc", "round"} /\ next.pc \in {"model", "tool"}
            /\ next.ticket = talk[m].ticket
        BY <4>1 DEF Support!Onward
      <4> QED BY <3>1, <3>4, <4>1, <4>2 DEF Goes
    <3>5. CASE Support!Reply(m, 500)
      BY <2>1, <3>1, <3>5
    <3> QED BY <3>2, <3>3, <3>4, <3>5
  <2> QED BY <2>2, <2>3, <2>4
<1>4. Calms(talk, talk', scene)
  BY <1>3, StepCalms DEF Goes
<1>5. ConversationsHold(db, talk', scene, met, now)
  BY <1>4, CalmKeepsConversations DEF TalkInv
<1>6. /\ \A x \in DOMAIN scene.says \ {m} : talk'[x] = talk[x]
      /\ talk'[m].ticket = talk[m].ticket
  BY <1>3, ChangesOne DEF Goes, TalkFields
<1>7. TicketsHold(db, talk', scene, notices)
  BY <1>3, <1>6, CalmKeepsTickets DEF Goes, TalkInv
<1> QED BY <1>1, <1>5, <1>7 DEF TalkInv


\* The mail that may have gone is of the ticket about to be stored.
LEMMA NotifyKeeps ==
  ASSUME DeskInv, TalkInv, NEW m \in DOMAIN scene.says, Support!Notify(m) PROVE TalkInv'
<1>1. /\ db' = db /\ met' = met /\ now' = now /\ scene' = scene /\ talk[m].pc = "notify"
      /\ notices' \subseteq notices \cup {<<m, talk[m].raised>>}
      /\ Support!Change(m, [pc |-> "ticket"])
  BY DEF Support!Notify, Support!Quiet, Support!TicketId
<1>2. Calms(talk, talk', scene)
  BY <1>1, StepCalms DEF Flying
<1>3. ConversationsHold(db, talk', scene, met, now)
  BY <1>2, CalmKeepsConversations DEF TalkInv
<1>4. /\ \A x \in DOMAIN scene.says \ {m} : talk'[x] = talk[x]
      /\ talk'[m].ticket = talk[m].ticket /\ talk'[m].pc = "ticket"
      /\ talk'[m].raised = talk[m].raised
  <2>1. /\ talk' = [x \in DOMAIN scene.says |-> talk'[x]]
        /\ \A x \in DOMAIN scene.says \ {m} : talk'[x] = talk[x]
        /\ talk'[m] = [x \in TalkFields |-> talk'[m][x]]
        /\ \A x \in TalkFields : talk'[m][x] = IF x \in {"pc"} THEN "ticket" ELSE talk[m][x]
    BY <1>1, ChangesOne
  <2> QED BY <2>1 DEF TalkFields
<1>5. TicketsHold(db, talk', scene, notices)
  BY <1>1, <1>4, CalmKeepsTickets DEF TalkInv
<1>6. talk[m].raised \in Nat
  BY DEF TalkInv, ConversationsHold, Speaking, TalkHolds
<1>7. ASSUME NEW i \in notices'
      PROVE  \E x \in DOMAIN scene.says, k \in Nat :
               /\ i = <<x, k>>
               /\ \/ Left(db, scene, x) \/ i \in DOMAIN db.tickets \/ talk'[x].pc = "lost"
                  \/ talk'[x].pc = "ticket" /\ k = talk'[x].raised
  <2>1. CASE i \in notices
    BY <1>5, <2>1 DEF TicketsHold
  <2>2. CASE i = <<m, talk[m].raised>>
    BY <1>4, <1>6, <2>2
  <2> QED BY <1>1, <2>1, <2>2
<1>8. TicketsHold(db, talk', scene, notices')
  BY <1>5, <1>7 DEF TicketsHold
<1> QED BY <1>1, <1>3, <1>8 DEF TalkInv

\* A ticket of a message is added.
LEMMA TicketAdds ==
  ASSUME NEW d, NEW e, NEW t, NEW s, NEW told, TicketsHold(d, t, s, told),
         NEW m \in DOMAIN s.says, NEW k \in Nat, Tenants(e) = Tenants(d),
         DOMAIN e.tickets = DOMAIN d.tickets \cup {<<m, k>>},
         \A x \in DOMAIN d.tickets : e.tickets[x] = d.tickets[x],
         e.tickets[<<m, k>>].tenant = Of(s, m), e.tickets[<<m, k>>].conversation = About(s, m)
  PROVE  TicketsHold(e, t, s, told)
<1>1. \A x : Left(e, s, x) <=> Left(d, s, x)
  BY DEF Left
<1>2. ASSUME NEW x \in DOMAIN s.says, NEW n \in Nat, <<x, n>> \in DOMAIN e.tickets
      PROVE  /\ e.tickets[<<x, n>>].tenant = Of(s, x)
             /\ e.tickets[<<x, n>>].conversation = About(s, x)
  <2>1. CASE <<x, n>> \in DOMAIN d.tickets
    BY <2>1 DEF TicketsHold
  <2>2. CASE <<x, n>> = <<m, k>>
    BY <2>2
  <2> QED BY <1>2, <2>1, <2>2
<1>3. ASSUME NEW x \in DOMAIN s.says, t[x].ticket # None
      PROVE  Left(e, s, x) \/ \E n \in Nat : t[x].ticket = <<x, n>> /\ <<x, n>> \in DOMAIN e.tickets
  BY <1>1, <1>3 DEF TicketsHold
<1>4. ASSUME NEW i \in told
      PROVE  \E x \in DOMAIN s.says, n \in Nat :
               /\ i = <<x, n>>
               /\ \/ Left(e, s, x) \/ i \in DOMAIN e.tickets \/ t[x].pc = "lost"
                  \/ t[x].pc = "ticket" /\ n = t[x].raised
  BY <1>1, <1>4 DEF TicketsHold
<1> QED BY <1>2, <1>3, <1>4 DEF TicketsHold

\* Stored under the message's own tenant and conversation, or not for a reason.
LEMMA StoreTicketKeeps ==
  ASSUME DeskInv, TalkInv, NEW m \in DOMAIN scene.says, Support!StoreTicket(m) PROVE TalkInv'
<1> DEFINE k == talk[m].raised
<1>1. met' = met /\ notices' = notices /\ now' = now /\ scene' = scene /\ talk[m].pc = "ticket"
  BY DEF Support!StoreTicket, Support!Quiet
<1>2. k \in Nat /\ Support!TicketId(m, k) = <<m, k>> /\ Flying(talk[m])
  BY <1>1 DEF TalkInv, ConversationsHold, Speaking, TalkHolds, Support!TicketId, Flying
<1>3. CASE /\ db' = db /\ Support!Reply(m, 500)
           /\ Left(db, scene, m) \/ <<m, k>> \in DOMAIN db.tickets
  <2>1. Support!Change(m, [pc |-> "done", answer |-> 500])
    BY <1>3 DEF Support!Reply
  <2>2. Calms(talk, talk', scene)
    BY <1>1, <1>2, <2>1, StepCalms
  <2>3. ConversationsHold(db, talk', scene, met, now)
    BY <2>2, CalmKeepsConversations DEF TalkInv
  <2>4. /\ \A x \in DOMAIN scene.says \ {m} : talk'[x] = talk[x]
        /\ talk'[m].ticket = talk[m].ticket
    BY <2>1, TicketStays
  <2>5. TicketsHold(db, talk', scene, notices)
    BY <1>1, <1>3, <2>4, CalmKeepsTickets DEF TalkInv
  <2> QED BY <1>1, <1>3, <2>3, <2>5 DEF TalkInv
<1>4. CASE /\ Tenants(db') = Tenants(db) /\ db'.conversations = db.conversations
           /\ DOMAIN db'.tickets = DOMAIN db.tickets \cup {<<m, k>>}
           /\ \A x \in DOMAIN db.tickets : db'.tickets[x] = db.tickets[x]
           /\ db'.tickets[<<m, k>>].tenant = Of(scene, m)
           /\ db'.tickets[<<m, k>>].conversation = About(scene, m)
           /\ Support!Change(m, Support!Onward(m, <<m, k>>))
  <2>1. PICK next : next = Support!Onward(m, <<m, k>>)
    OBVIOUS
  <2>2. /\ DOMAIN next = {"ticket", "uses", "pc", "round"} /\ next.pc \in {"model", "tool"}
        /\ next.ticket = <<m, k>>
    BY <2>1 DEF Support!Onward
  <2>3. Support!Change(m, next)
    BY <1>4, <2>1
  <2>4. Calms(talk, talk', scene)
    BY <1>1, <1>2, <2>2, <2>3, StepCalms
  <2>5. ConversationsHold(db', talk', scene, met, now)
    BY <1>4, <2>4, CalmKeepsConversations, SameConversations DEF TalkInv
  <2>6. TicketsHold(db', talk, scene, notices)
    BY <1>2, <1>4, TicketAdds DEF TalkInv
  <2>7. /\ \A x \in DOMAIN scene.says \ {m} : talk'[x] = talk[x]
        /\ talk'[m].ticket = <<m, k>>
    BY <2>2, <2>3, ChangesOne DEF TalkFields
  <2>8. TicketsHold(db', talk', scene, notices)
    BY <1>1, <1>2, <1>4, <2>6, <2>7, CalmKeepsTickets
  <2> QED BY <1>1, <2>5, <2>8 DEF TalkInv
<1>5. \/ /\ db' = db /\ Support!Reply(m, 500)
         /\ \/ Support!Of(m) \notin Tenants(db)
            \/ Support!TicketId(m, k) \in DOMAIN db.tickets
      \/ /\ db'.tenants = db.tenants /\ db'.conversations = db.conversations
         /\ DOMAIN db'.tickets = DOMAIN db.tickets \cup {Support!TicketId(m, k)}
         /\ \A x \in DOMAIN db.tickets : db'.tickets[x] = db.tickets[x]
         /\ db'.tickets[Support!TicketId(m, k)] =
              [tenant |-> Support!Of(m), conversation |-> Support!Conversation(m),
               status |-> "open"]
         /\ Support!Change(m, Support!Onward(m, Support!TicketId(m, k)))
  BY TicketWrites
<1>6. CASE db' = db /\ Support!Reply(m, 500)
           /\ (Support!Of(m) \notin Tenants(db) \/ Support!TicketId(m, k) \in DOMAIN db.tickets)
  BY <1>2, <1>3, <1>6, SameNames DEF Left
<1>7. CASE /\ db'.tenants = db.tenants /\ db'.conversations = db.conversations
           /\ DOMAIN db'.tickets = DOMAIN db.tickets \cup {Support!TicketId(m, k)}
           /\ \A x \in DOMAIN db.tickets : db'.tickets[x] = db.tickets[x]
           /\ db'.tickets[Support!TicketId(m, k)] =
                [tenant |-> Support!Of(m), conversation |-> Support!Conversation(m),
                 status |-> "open"]
           /\ Support!Change(m, Support!Onward(m, Support!TicketId(m, k)))
  <2>1. Tenants(db') = Tenants(db)
    BY <1>7 DEF Tenants
  <2>2. /\ db'.tickets[<<m, k>>].tenant = Of(scene, m)
        /\ db'.tickets[<<m, k>>].conversation = About(scene, m)
    BY <1>2, <1>7, SameNames
  <2> QED BY <1>2, <1>4, <1>7, <2>1, <2>2
<1> QED BY <1>5, <1>6, <1>7


\* The conversation a message joins: kept and its tenant's, or its own, which
\* nobody has spoken in.
LEMMA OpenKeeps ==
  ASSUME DeskInv, TalkInv, NEW m \in DOMAIN scene.says, Support!Open(m) PROVE TalkInv'
<1> DEFINE asked == Support!Asked(m).conversation
           kept == GetConversation(db, Support!Of(m), asked)
           old == IF kept = <<>> THEN [n |-> 0, said |-> <<>>] ELSE kept[1]
           c == About(scene, m)
<1>1. /\ db' = db /\ notices' = notices /\ now' = now /\ scene' = scene /\ talk[m].pc = "sent"
      /\ met' = met \cup {{m, x} : x \in {x \in DOMAIN scene.says \ {m} :
                  Support!InFlight(x) /\ Support!Conversation(x) = Support!Conversation(m)}}
      /\ IF asked # None /\ kept = <<>> THEN Support!Reply(m, 404)
         ELSE IF old.n >= MaxTurns THEN Support!Reply(m, 409)
         ELSE Support!Change(m, [pc |-> "model", said |-> Append(old.said, m), n |-> old.n + 1])
  BY SameVault DEF Support!Open, Support!Quiet, Support!Messages
<1> DEFINE new == [pc |-> "model", said |-> Append(old.said, m), n |-> old.n + 1]
<1>2. met' = met \cup {{m, x} : x \in {x \in DOMAIN scene.says \ {m} :
               Flying(talk[x]) /\ About(scene, x) = c}}
  BY <1>1, SameNames
<1>3. CASE Support!Reply(m, 404) \/ Support!Reply(m, 409)
  <2>1. PICK code \in {404, 409} : Support!Change(m, [pc |-> "done", answer |-> code])
    BY <1>3 DEF Support!Reply
  <2>2. Calms(talk, talk', scene)
    BY <1>1, <2>1, StepCalms
  <2>3. ConversationsHold(db, talk', scene, met', now)
    BY <1>2, <2>2, CalmKeepsConversations, NearGrows DEF TalkInv
  <2>4. /\ \A x \in DOMAIN scene.says \ {m} : talk'[x] = talk[x]
        /\ talk'[m].ticket = talk[m].ticket
    BY <2>1, TicketStays
  <2>5. TicketsHold(db, talk', scene, notices)
    BY <1>1, <2>4, CalmKeepsTickets DEF TalkInv
  <2> QED BY <1>1, <2>3, <2>5 DEF TalkInv
<1>4. CASE ~(asked # None /\ kept = <<>>) /\ ~(old.n >= MaxTurns)
  <2> DEFINE t == talk
             u == talk'
             s == scene
             d == db.conversations
  <2>1. /\ u = [x \in DOMAIN s.says |-> u[x]]
        /\ \A x \in DOMAIN s.says \ {m} : u[x] = t[x]
        /\ u[m] = [x \in TalkFields |-> u[m][x]]
        /\ \A x \in TalkFields : u[m][x] = IF x \in DOMAIN new THEN new[x] ELSE t[m][x]
    <3>1. Support!Change(m, new)
      BY <1>1, <1>4
    <3> HIDE DEF new
    <3> QED BY <3>1, ChangesOne
  <2>2. /\ u[m].pc = "model" /\ u[m].said = Append(old.said, m) /\ u[m].n = old.n + 1
        /\ u[m].raised = t[m].raised /\ u[m].ticket = t[m].ticket /\ u[m].answer = t[m].answer
    <3> HIDE DEF old
    <3> QED BY <2>1 DEF TalkFields
  <2>3. t[m].answer # 200 /\ t[m].raised \in Nat
    BY <1>1 DEF TalkInv, ConversationsHold, Speaking, TalkHolds
  <2>4. \/ c \in DOMAIN d /\ d[c].tenant = Of(s, m) /\ old = d[c].turns
        \/ /\ c = m /\ \A x \in DOMAIN s.says : Active(t[x]) => About(s, x) # m
           /\ m \notin DOMAIN d /\ IsTurns(old.said, old.n)
    <3>1. CASE asked # None
      <4>1. asked \in Where(db, "conversations", {Support!Of(m)}) /\ old = d[asked].turns
        BY <1>4, <3>1 DEF GetConversation
      <4>2. asked = c /\ Support!Of(m) = Of(s, m)
        BY <3>1, SameNames DEF About, Known, Support!Asked
      <4> QED BY <4>1, <4>2 DEF Where, Rows
    <3>2. CASE asked = None
      <4>1. c = m
        BY <3>2 DEF About, Known, Support!Asked
      <4>2. ~Begun(t, s, m)
        BY <1>1, DeskAssumption DEF DeskAssumption, Begun, DeskInv
      <4>3. m \notin DOMAIN d /\ \A x \in DOMAIN s.says : Active(t[x]) => About(s, x) # m
        BY <4>2 DEF TalkInv, ConversationsHold, Conversing
      <4>4. IsTurns(old.said, old.n)
        <5>1. CASE kept = <<>>
          <6>1. old.said = <<>> /\ old.n = 0
            BY <5>1
          <6>2. MaxTurns \in Nat
            BY DeskAssumption DEF DeskAssumption
          <6> HIDE DEF old
          <6> QED BY <6>1, <6>2 DEF IsTurns, Voices
        <5>2. CASE kept # <<>>
          <6>1. asked \in DOMAIN d /\ old = d[asked].turns
            BY <5>2 DEF GetConversation, Where, Rows
          <6> QED BY <6>1 DEF TalkInv, ConversationsHold, Conversing
        <5> QED BY <5>1, <5>2
      <4> QED BY <4>1, <4>3, <4>4
    <3> QED BY <3>1, <3>2
  <2>5. IsTurns(old.said, old.n)
    BY <2>4 DEF TalkInv, ConversationsHold, Conversing
  <2>6. /\ IsTurns(u[m].said, u[m].n) /\ m \in Voices(u[m].said)
        /\ Voices(old.said) \subseteq Voices(u[m].said)
    <3>1. ~(old.n >= MaxTurns)
      BY <1>4
    <3> HIDE DEF old
    <3>2. old.n \in Nat /\ MaxTurns \in Nat
      BY <2>5, DeskAssumption DEF IsTurns, DeskAssumption
    <3>3. old.said \in Seq(Voices(old.said)) /\ old.n = Len(old.said)
      BY <2>5 DEF IsTurns
    <3>4. PICK more : more = Append(old.said, m)
      OBVIOUS
    <3>5. /\ more \in Seq(Voices(more)) /\ Len(more) = old.n + 1
          /\ m \in Voices(more) /\ Voices(old.said) \subseteq Voices(more)
      BY <3>3, <3>4, ListGrows
    <3>6. old.n + 1 <= MaxTurns
      BY <3>1, <3>2
    <3> QED BY <2>2, <3>4, <3>5, <3>6 DEF IsTurns
  <2> HIDE DEF old, new
  <2>7. \A x \in DOMAIN s.says :
          /\ u[x].answer = 200 => x # m /\ t[x].answer = 200 /\ u[x] = t[x]
          /\ t[x].answer = 200 => x # m /\ u[x].answer = 200
          /\ x # m => u[x] = t[x]
    BY <2>1, <2>2, <2>3
  <2>8. Speaking(u, s, now)
    <3>1. TalkHolds(m, u[m], now)
      BY <2>1, <2>2, <2>3, <2>6 DEF TalkHolds
    <3>2. \A x \in DOMAIN s.says \ {m} : TalkHolds(x, u[x], now)
      BY <2>1 DEF TalkInv, ConversationsHold, Speaking
    <3> QED BY <2>1, <3>1, <3>2 DEF Speaking
  <2>9. \A x : Begun(t, s, x) => Begun(u, s, x)
    BY <2>2, <2>7 DEF Begun
  <2>10. Conversing(db, u, s, now)
    <3>1. Begun(u, s, c)
      <4>1. CASE c \in DOMAIN d
        BY <2>9, <4>1 DEF TalkInv, ConversationsHold, Conversing
      <4>2. CASE c = m
        BY <2>2, <4>2 DEF Begun
      <4> QED BY <2>4, <4>1, <4>2
    <3>2. \A x \in DOMAIN s.says : Active(u[x]) => Begun(u, s, About(s, x))
      BY <2>7, <2>9, <3>1 DEF TalkInv, ConversationsHold, Conversing
    <3> QED BY <2>9, <3>2 DEF TalkInv, ConversationsHold, Conversing
  <2>11. SameOwner(db, u, s)
    <3>1. c \in DOMAIN d => d[c].tenant = Of(s, m)
      BY <2>4
    <3>2. ASSUME NEW x \in DOMAIN s.says \ {m}, Active(t[x]), About(s, x) = c
          PROVE  Of(s, x) = Of(s, m)
      BY <2>4, <3>2 DEF TalkInv, ConversationsHold, SameOwner
    <3> QED BY <2>7, <3>1, <3>2 DEF TalkInv, ConversationsHold, SameOwner
  <2>12. Meeting(u, s, met')
    <3>1. \A x \in DOMAIN s.says \ {m} : Flying(t[x]) /\ About(s, x) = c => {m, x} \in met'
      BY <1>2
    <3>2. \A x, y \in DOMAIN s.says \ {m} :
            x # y /\ Flying(t[x]) /\ Flying(t[y]) /\ About(s, x) = About(s, y) => {x, y} \in met'
      BY <1>2 DEF TalkInv, ConversationsHold, Meeting
    <3>3. \A x : {m, x} = {x, m}
      OBVIOUS
    <3> QED BY <2>7, <3>1, <3>2, <3>3 DEF Meeting
  <2>13. \A x \in DOMAIN s.says : Over(t, s, met, x) => Over(u, s, met', x)
    BY <1>2, <2>7 DEF Over
  <2>14. ASSUME NEW x \in DOMAIN s.says, t[x].answer = 200, About(s, x) = c
         PROVE  Left(db, s, x) \/ x \in Voices(u[m].said) \/ Over(u, s, met', x)
    <3>1. Active(t[x])
      BY <2>14 DEF Active
    <3>2. c \in DOMAIN d /\ old = d[c].turns
      BY <2>4, <2>14, <3>1
    <3>3. Left(db, s, x) \/ x \in Voices(d[c].turns.said) \/ Over(t, s, met, x)
      BY <2>14, <3>2 DEF TalkInv, ConversationsHold, Answering
    <3> QED BY <2>6, <2>13, <3>2, <3>3
  <2>15. Answering(db, u, s, met', now)
    <3> SUFFICES ASSUME NEW x \in DOMAIN s.says, u[x].answer = 200
                 PROVE  /\ About(s, x) \in DOMAIN d => u[x].at <= d[About(s, x)].updated
                        /\ \/ Left(db, s, x) \/ About(s, x) \in DOMAIN d
                           \/ u[x].at + SupportKept < now
                        /\ \/ Left(db, s, x)
                           \/ About(s, x) \in DOMAIN d /\ x \in Voices(d[About(s, x)].turns.said)
                           \/ Over(u, s, met', x)
                           \/ About(s, x) \notin DOMAIN d /\ u[x].at + SupportKept < now
                        /\ \A y \in DOMAIN s.says : Flying(u[y]) /\ About(s, y) = About(s, x) =>
                             \/ Left(db, s, x) \/ x \in Voices(u[y].said)
                             \/ {x, y} \in met' \/ Over(u, s, met', x)
      BY DEF Answering
    <3>1. t[x].answer = 200 /\ u[x] = t[x] /\ x # m
      BY <2>7
    <3>2. /\ About(s, x) \in DOMAIN d => t[x].at <= d[About(s, x)].updated
          /\ \/ Left(db, s, x) \/ About(s, x) \in DOMAIN d
             \/ t[x].at + SupportKept < now
          /\ \/ Left(db, s, x)
             \/ About(s, x) \in DOMAIN d /\ x \in Voices(d[About(s, x)].turns.said)
             \/ Over(t, s, met, x)
             \/ About(s, x) \notin DOMAIN d /\ t[x].at + SupportKept < now
          /\ \A y \in DOMAIN s.says : Flying(t[y]) /\ About(s, y) = About(s, x) =>
               \/ Left(db, s, x) \/ x \in Voices(t[y].said)
               \/ {x, y} \in met \/ Over(t, s, met, x)
      BY <3>1 DEF TalkInv, ConversationsHold, Answering
    <3>3. ASSUME NEW y \in DOMAIN s.says, Flying(u[y]), About(s, y) = About(s, x)
          PROVE  \/ Left(db, s, x) \/ x \in Voices(u[y].said)
                 \/ {x, y} \in met' \/ Over(u, s, met', x)
      <4>1. CASE y = m
        BY <2>14, <3>1, <3>3, <4>1
      <4>2. CASE y # m
        BY <1>2, <2>7, <2>13, <3>2, <3>3, <4>2
      <4> QED BY <4>1, <4>2
    <3> QED BY <2>13, <3>1, <3>2, <3>3
  <2>16. TicketsHold(db, u, s, notices)
    <3>1. \A x \in DOMAIN s.says : u[x].ticket = t[x].ticket
      BY <2>2, <2>7
    <3> QED BY <1>1, <2>7, <3>1, CalmKeepsTickets DEF TalkInv
  <2> QED BY <1>1, <2>8, <2>10, <2>11, <2>12, <2>15, <2>16 DEF TalkInv, ConversationsHold
<1> QED BY <1>1, <1>3, <1>4


\* Who was answered before is in what is saved, or has met who saves.
LEMMA SavedKeeps ==
  ASSUME NEW d, NEW e, NEW t, NEW u, NEW s, NEW near, NEW clock \in Nat,
         ConversationsHold(d, t, s, near, clock), Tenants(e) = Tenants(d),
         NEW m \in DOMAIN s.says, t[m].pc = "save",
         About(s, m) \in DOMAIN e.conversations,
         e.conversations[About(s, m)].tenant = Of(s, m),
         e.conversations[About(s, m)].turns.said = t[m].said,
         e.conversations[About(s, m)].turns.n = t[m].n,
         e.conversations[About(s, m)].updated = clock,
         \A x \in DOMAIN e.conversations \ {About(s, m)} :
           x \in DOMAIN d.conversations /\ e.conversations[x] = d.conversations[x],
         \A x \in DOMAIN d.conversations \ DOMAIN e.conversations :
           d.conversations[x].updated + SupportKept < clock,
         u = [x \in DOMAIN s.says |-> u[x]],
         \A x \in DOMAIN s.says \ {m} : u[x] = t[x],
         u[m] = [x \in TalkFields |-> u[m][x]], u[m].pc = "done", u[m].answer = 200,
         u[m].at = clock, u[m].raised = t[m].raised
  PROVE  ConversationsHold(e, u, s, near, clock)
<1> DEFINE c == About(s, m)
<1>1. /\ TalkHolds(m, t[m], clock) /\ Flying(t[m]) /\ Active(t[m])
      /\ t[m].answer # 200 /\ t[m].raised \in Nat
      /\ IsTurns(t[m].said, t[m].n) /\ m \in Voices(t[m].said)
  BY DEF ConversationsHold, Speaking, TalkHolds, Flying, Active
<1>2. ASSUME NEW x \in DOMAIN s.says
      PROVE  /\ t[x].answer = 200 => x # m /\ u[x] = t[x] /\ u[x].answer = 200
             /\ Flying(u[x]) => x # m /\ u[x] = t[x] /\ Flying(t[x])
             /\ Active(u[x]) => Active(t[x])
             /\ u[x].answer = 200 /\ x # m => t[x].answer = 200 /\ u[x] = t[x]
             /\ t[x].pc # "sent" => u[x].pc # "sent"
  <2>1. CASE x = m
    <3>1. ~Flying(u[m])
      BY DEF Flying
    <3> QED BY <1>1, <2>1, <3>1
  <2>2. CASE x # m
    <3>1. u[x] = t[x]
      BY <2>2
    <3> QED BY <2>2, <3>1
  <2> QED BY <2>1, <2>2
<1>3. Speaking(u, s, clock)
  <2>1. TalkHolds(m, u[m], clock)
    BY <1>1 DEF TalkHolds, Flying
  <2>2. \A x \in DOMAIN s.says \ {m} : TalkHolds(x, u[x], clock)
    BY DEF ConversationsHold, Speaking
  <2> QED BY <2>1, <2>2 DEF Speaking
<1>4. \A x : Begun(t, s, x) => Begun(u, s, x)
  BY <1>2 DEF Begun
<1>5. Conversing(e, u, s, clock)
  <2>1. /\ \A x \in DOMAIN d.conversations :
             /\ Begun(t, s, x)
             /\ IsTurns(d.conversations[x].turns.said, d.conversations[x].turns.n)
             /\ d.conversations[x].updated \in Nat /\ d.conversations[x].updated <= clock
        /\ \A x \in DOMAIN s.says : Active(t[x]) => Begun(t, s, About(s, x))
    BY DEF ConversationsHold, Conversing
  <2>2. /\ Begun(u, s, c) /\ IsTurns(e.conversations[c].turns.said, e.conversations[c].turns.n)
        /\ e.conversations[c].updated \in Nat /\ e.conversations[c].updated <= clock
    BY <1>1, <1>4, <2>1
  <2> QED BY <1>2, <1>4, <2>1, <2>2 DEF Conversing
<1>6. SameOwner(e, u, s)
  <2>1. \A x, y \in DOMAIN s.says :
          Active(t[x]) /\ Active(t[y]) /\ About(s, x) = About(s, y) => Of(s, x) = Of(s, y)
    BY DEF ConversationsHold, SameOwner
  <2>2. ASSUME NEW x \in DOMAIN s.says, Active(u[x]), About(s, x) \in DOMAIN e.conversations
        PROVE  e.conversations[About(s, x)].tenant = Of(s, x)
    <3>1. CASE About(s, x) = c
      BY <1>1, <1>2, <2>1, <2>2, <3>1
    <3>2. CASE About(s, x) # c
      BY <1>2, <2>2, <3>2 DEF ConversationsHold, SameOwner
    <3> QED BY <3>1, <3>2
  <2>3. \A x, y \in DOMAIN s.says :
          Active(u[x]) /\ Active(u[y]) /\ About(s, x) = About(s, y) => Of(s, x) = Of(s, y)
    BY <1>2, <2>1
  <2> QED BY <2>2, <2>3 DEF SameOwner
<1>7. Meeting(u, s, near)
  BY <1>2 DEF ConversationsHold, Meeting
<1>8. \A x \in DOMAIN s.says : Left(e, s, x) <=> Left(d, s, x)
  BY DEF Left
<1>9. ASSUME NEW x \in DOMAIN s.says, Over(t, s, near, x) PROVE Over(u, s, near, x)
  <2>1. PICK y \in DOMAIN s.says \ {x} :
          About(s, y) = About(s, x) /\ t[y].answer = 200 /\ {x, y} \in near
    BY <1>9 DEF Over
  <2>2. u[y].answer = 200
    BY <1>2, <2>1
  <2> QED BY <2>1, <2>2 DEF Over
<1>10. ASSUME NEW x \in DOMAIN s.says, t[x].answer = 200
       PROVE  /\ x # m /\ u[x] = t[x] /\ t[x].at \in Nat /\ t[x].at <= clock
              /\ About(s, x) \in DOMAIN d.conversations =>
                   t[x].at <= d.conversations[About(s, x)].updated
              /\ \/ Left(d, s, x) \/ About(s, x) \in DOMAIN d.conversations
                 \/ t[x].at + SupportKept < clock
              /\ \/ Left(d, s, x)
                 \/ /\ About(s, x) \in DOMAIN d.conversations
                    /\ x \in Voices(d.conversations[About(s, x)].turns.said)
                 \/ Over(t, s, near, x)
                 \/ About(s, x) \notin DOMAIN d.conversations /\ t[x].at + SupportKept < clock
              /\ \A y \in DOMAIN s.says : Flying(t[y]) /\ About(s, y) = About(s, x) =>
                   \/ Left(d, s, x) \/ x \in Voices(t[y].said)
                   \/ {x, y} \in near \/ Over(t, s, near, x)
  BY <1>2, <1>10 DEF ConversationsHold, Answering, Speaking, TalkHolds
<1>11. ASSUME NEW x \in DOMAIN s.says, t[x].answer = 200
       PROVE  \A y \in DOMAIN s.says : Flying(u[y]) /\ About(s, y) = About(s, x) =>
                   \/ Left(e, s, x) \/ x \in Voices(u[y].said)
                   \/ {x, y} \in near \/ Over(u, s, near, x)
  <2> SUFFICES ASSUME NEW y \in DOMAIN s.says, Flying(u[y]), About(s, y) = About(s, x)
               PROVE  \/ Left(e, s, x) \/ x \in Voices(u[y].said)
                      \/ {x, y} \in near \/ Over(u, s, near, x)
    OBVIOUS
  <2>1. u[y] = t[y] /\ Flying(t[y])
    BY <1>2
  <2>2. \/ Left(d, s, x) \/ x \in Voices(t[y].said)
        \/ {x, y} \in near \/ Over(t, s, near, x)
    BY <1>10, <1>11, <2>1
  <2> QED BY <1>8, <1>9, <2>1, <2>2
<1>12. ASSUME NEW x \in DOMAIN s.says, t[x].answer = 200, About(s, x) = c
       PROVE  /\ t[x].at <= clock
              /\ Left(e, s, x) \/ x \in Voices(e.conversations[c].turns.said) \/ Over(u, s, near, x)
  <2>1. Left(d, s, x) \/ x \in Voices(t[m].said) \/ {x, m} \in near \/ Over(t, s, near, x)
    BY <1>1, <1>10, <1>12
  <2>2. CASE {x, m} \in near
    BY <1>10, <1>12, <2>2 DEF Over
  <2> QED BY <1>8, <1>9, <1>10, <1>12, <2>1, <2>2
<1>13. ASSUME NEW x \in DOMAIN s.says, t[x].answer = 200, About(s, x) # c,
              About(s, x) \in DOMAIN d.conversations, About(s, x) \notin DOMAIN e.conversations
       PROVE  t[x].at + SupportKept < clock
  <2>1. /\ d.conversations[About(s, x)].updated + SupportKept < clock
        /\ d.conversations[About(s, x)].updated \in Nat
    BY <1>13 DEF ConversationsHold, Conversing
  <2>2. t[x].at <= d.conversations[About(s, x)].updated /\ t[x].at \in Nat
    BY <1>10, <1>13
  <2> QED BY <2>1, <2>2, StoreAssumption DEF StoreAssumption
<1>14. ASSUME NEW x \in DOMAIN s.says, t[x].answer = 200, About(s, x) # c
       PROVE  /\ About(s, x) \in DOMAIN e.conversations =>
                   t[x].at <= e.conversations[About(s, x)].updated
              /\ \/ Left(e, s, x) \/ About(s, x) \in DOMAIN e.conversations
                 \/ t[x].at + SupportKept < clock
              /\ \/ Left(e, s, x)
                 \/ /\ About(s, x) \in DOMAIN e.conversations
                    /\ x \in Voices(e.conversations[About(s, x)].turns.said)
                 \/ Over(u, s, near, x)
                 \/ About(s, x) \notin DOMAIN e.conversations /\ t[x].at + SupportKept < clock
  <2>1. CASE About(s, x) \in DOMAIN e.conversations
    BY <1>8, <1>9, <1>10, <1>14, <2>1
  <2>2. CASE About(s, x) \notin DOMAIN e.conversations /\ About(s, x) \in DOMAIN d.conversations
    BY <1>13, <1>14, <2>2
  <2>3. CASE About(s, x) \notin DOMAIN e.conversations /\ About(s, x) \notin DOMAIN d.conversations
    BY <1>8, <1>9, <1>10, <1>14, <2>3
  <2> QED BY <2>1, <2>2, <2>3
<1>15. \A y \in DOMAIN s.says : Flying(u[y]) /\ About(s, y) = c => {m, y} \in near
  BY <1>1, <1>2 DEF ConversationsHold, Meeting
<1>16. m \in Voices(e.conversations[c].turns.said)
  BY <1>1
<1>17. Answering(e, u, s, near, clock)
  <2> SUFFICES ASSUME NEW x \in DOMAIN s.says, u[x].answer = 200
               PROVE  /\ About(s, x) \in DOMAIN e.conversations =>
                           u[x].at <= e.conversations[About(s, x)].updated
                      /\ \/ Left(e, s, x) \/ About(s, x) \in DOMAIN e.conversations
                         \/ u[x].at + SupportKept < clock
                      /\ \/ Left(e, s, x)
                         \/ /\ About(s, x) \in DOMAIN e.conversations
                            /\ x \in Voices(e.conversations[About(s, x)].turns.said)
                         \/ Over(u, s, near, x)
                         \/ /\ About(s, x) \notin DOMAIN e.conversations
                            /\ u[x].at + SupportKept < clock
                      /\ \A y \in DOMAIN s.says : Flying(u[y]) /\ About(s, y) = About(s, x) =>
                           \/ Left(e, s, x) \/ x \in Voices(u[y].said)
                           \/ {x, y} \in near \/ Over(u, s, near, x)
    BY DEF Answering
  <2>1. CASE x = m
    <3>1. /\ u[x].at = clock /\ clock <= clock /\ About(s, x) = c /\ c \in DOMAIN e.conversations
          /\ e.conversations[c].updated = clock
      BY <2>1
    <3>2. \A y \in DOMAIN s.says : Flying(u[y]) /\ About(s, y) = c => {x, y} \in near
      BY <1>15, <2>1
    <3>3. x \in Voices(e.conversations[c].turns.said)
      BY <1>16, <2>1
    <3> HIDE DEF c
    <3> QED BY <3>1, <3>2, <3>3
  <2>2. CASE x # m
    <3>1. t[x].answer = 200 /\ u[x] = t[x]
      BY <1>2, <2>2
    <3>2. \A y \in DOMAIN s.says : Flying(u[y]) /\ About(s, y) = About(s, x) =>
            \/ Left(e, s, x) \/ x \in Voices(u[y].said)
            \/ {x, y} \in near \/ Over(u, s, near, x)
      BY <1>11, <3>1
    <3>3. CASE About(s, x) = c
      <4>1. /\ t[x].at <= clock
            /\ \/ Left(e, s, x) \/ x \in Voices(e.conversations[c].turns.said)
               \/ Over(u, s, near, x)
        BY <1>12, <3>1, <3>3
      <4> QED BY <3>1, <3>2, <3>3, <4>1
    <3>4. CASE About(s, x) # c
      <4> HIDE DEF c
      <4>1. About(s, x) # c
        BY <3>4
      <4> QED BY <1>14, <3>1, <3>2, <4>1
    <3> QED BY <3>3, <3>4
  <2> QED BY <2>1, <2>2
<1> QED BY <1>3, <1>5, <1>6, <1>7, <1>17 DEF ConversationsHold

\* A save that is refused says so; one that is not is SavedKeeps.
LEMMA SaveKeeps ==
  ASSUME DeskInv, TalkInv, NEW m \in DOMAIN scene.says, Support!Save(m) PROVE TalkInv'
<1>1. met' = met /\ notices' = notices /\ now' = now /\ scene' = scene /\ talk[m].pc = "save"
  BY DEF Support!Save, Support!Quiet
<1>2. CASE db' = db /\ Support!Reply(m, 500)
  <2>1. Support!Change(m, [pc |-> "done", answer |-> 500])
    BY <1>2 DEF Support!Reply
  <2>2. Calms(talk, talk', scene)
    BY <1>1, <2>1, StepCalms DEF Flying
  <2>3. ConversationsHold(db, talk', scene, met, now)
    BY <2>2, CalmKeepsConversations DEF TalkInv
  <2>4. /\ \A x \in DOMAIN scene.says \ {m} : talk'[x] = talk[x]
        /\ talk'[m].ticket = talk[m].ticket
    BY <2>1, TicketStays
  <2>5. TicketsHold(db, talk', scene, notices)
    BY <1>1, <2>4, CalmKeepsTickets DEF TalkInv
  <2> QED BY <1>1, <1>2, <2>3, <2>5 DEF TalkInv
<1>3. CASE ~(db' = db /\ Support!Reply(m, 500))
  <2> DEFINE c == About(scene, m)
             row == [tenant |-> Of(scene, m), turns |-> [n |-> talk[m].n, said |-> talk[m].said],
                     updated |-> now]
  <2>1. /\ db'.tenants = db.tenants /\ db'.tickets = db.tickets
        /\ c \in DOMAIN db'.conversations /\ db'.conversations[c] = row
        /\ \A x \in DOMAIN db'.conversations \ {c} :
             x \in DOMAIN db.conversations /\ db'.conversations[x] = db.conversations[x]
        /\ \A x \in DOMAIN db.conversations \ DOMAIN db'.conversations :
             db.conversations[x].updated + SupportKept < now
        /\ Support!Change(m, [pc |-> "done", answer |-> 200, at |-> now])
    BY <1>3, SaveWrites, SameNames
  <2>2. /\ db'.conversations[c].tenant = Of(scene, m) /\ db'.conversations[c].updated = now
        /\ db'.conversations[c].turns.said = talk[m].said
        /\ db'.conversations[c].turns.n = talk[m].n
    BY <2>1
  <2>3. Tenants(db') = Tenants(db)
    BY <2>1 DEF Tenants
  <2>4. /\ talk' = [x \in DOMAIN scene.says |-> talk'[x]]
        /\ \A x \in DOMAIN scene.says \ {m} : talk'[x] = talk[x]
        /\ talk'[m] = [x \in TalkFields |-> talk'[m][x]]
        /\ talk'[m].pc = "done" /\ talk'[m].answer = 200 /\ talk'[m].at = now
        /\ talk'[m].raised = talk[m].raised /\ talk'[m].ticket = talk[m].ticket
    BY <2>1, ChangesOne DEF TalkFields
  <2>5. ConversationsHold(db, talk, scene, met, now) /\ now \in Nat
    BY DEF TalkInv, DeskInv
  <2>6. ConversationsHold(db', talk', scene, met, now)
    <3> HIDE DEF c, row
    <3>1. c = About(scene, m)
      BY DEF c
    <3> QED BY <1>1, <2>1, <2>2, <2>3, <2>4, <2>5, <3>1, SavedKeeps
  <2>7. TicketsHold(db', talk, scene, notices)
    BY <2>1, <2>3, SameTickets DEF TalkInv
  <2>8. TicketsHold(db', talk', scene, notices)
    BY <1>1, <2>4, <2>7, CalmKeepsTickets
  <2> QED BY <1>1, <2>6, <2>8 DEF TalkInv
<1> QED BY <1>2, <1>3


\* The process stops: what was in flight is lost, and promised nothing.
LEMMA StopKeeps == ASSUME DeskInv, TalkInv, Restart, Support!Stop PROVE TalkInv'
<1>1. db' = db /\ notices' = notices /\ met' = met /\ now' = now /\ scene' = scene
  BY DEF Restart, Support!Stop
<1>2. \A m \in DOMAIN scene.says : TalkHolds(m, talk[m], now)
  BY DEF TalkInv, ConversationsHold, Speaking
<1>3. talk' = [m \in DOMAIN scene.says |-> IF Flying(talk[m]) THEN [talk[m] EXCEPT !.pc = "lost"]
                                           ELSE talk[m]]
  BY SameNames DEF Support!Stop
<1>4. ASSUME NEW m \in DOMAIN scene.says
      PROVE  /\ talk'[m] = [x \in TalkFields |-> talk'[m][x]]
             /\ talk'[m].raised = talk[m].raised /\ talk'[m].ticket = talk[m].ticket
             /\ talk'[m].answer = talk[m].answer
             /\ Flying(talk[m]) => talk'[m].pc = "lost"
             /\ ~Flying(talk[m]) => talk'[m] = talk[m]
  <2>1. talk[m] = [x \in TalkFields |-> talk[m][x]]
    BY <1>2 DEF TalkHolds
  <2>2. talk'[m] = IF Flying(talk[m]) THEN [talk[m] EXCEPT !.pc = "lost"] ELSE talk[m]
    BY <1>3
  <2> QED BY <2>1, <2>2 DEF TalkFields
<1>5. Calms(talk, talk', scene)
  <2>1. \A m \in DOMAIN scene.says :
          talk[m].raised \in Nat /\ (talk[m].answer = 200 => ~Flying(talk[m]))
    BY <1>2 DEF TalkHolds, Flying
  <2>2. \A m \in DOMAIN scene.says :
          ~Flying(talk'[m]) /\ (talk[m].pc # "sent" => talk'[m].pc # "sent")
    BY <1>4 DEF Flying
  <2> QED BY <1>3, <1>4, <2>1, <2>2 DEF Calms
<1>6. ConversationsHold(db, talk', scene, met, now)
  BY <1>5, CalmKeepsConversations DEF TalkInv
<1>7. ASSUME NEW m \in DOMAIN scene.says
      PROVE  /\ talk'[m].ticket = talk[m].ticket
             /\ talk[m].pc = "lost" => talk'[m].pc = "lost"
             /\ talk[m].pc = "ticket" => talk'[m].pc = "lost"
  BY <1>4 DEF Flying
<1>8. TicketsHold(db, talk', scene, notices)
  BY <1>7, CalmKeepsTickets DEF TalkInv
<1> QED BY <1>1, <1>6, <1>8 DEF TalkInv

\* The console, the clock and closed accounts.
LEMMA ConsoleKeepsTalk ==
  ASSUME DeskInv, TalkInv, Drifts(db, db'), scene' = scene, now' \in Nat, now <= now',
         UNCHANGED <<talk, notices, met>>
  PROVE  TalkInv'
<1>1. now \in Nat
  BY DEF DeskInv
<1>2. ConversationsHold(db', talk, scene, met, now')
  BY <1>1, DriftKeepsConversations DEF TalkInv
<1>3. TicketsHold(db', talk, scene, notices)
  BY DriftKeepsTickets DEF TalkInv
<1> QED BY <1>2, <1>3 DEF TalkInv

\* No step of the desk breaks it.
LEMMA TalkStep ==
  DeskInv /\ ReplyInv /\ TalkInv /\ [DeskNext]_<<vars, talk, notices, met>> => TalkInv'
<1> SUFFICES ASSUME DeskInv, ReplyInv, TalkInv, [DeskNext]_<<vars, talk, notices, met>>
             PROVE  TalkInv'
  OBVIOUS
<1>1. Owned(db) /\ now \in Nat
  BY DEF ReplyInv, DeskInv
<1>2. CASE Restart /\ Support!Stop
  BY <1>2, StopKeeps
<1>3. CASE Elsewhere /\ UNCHANGED <<talk, notices, met>>
  BY <1>1, <1>3, ElsewhereFades, FadesDrift, ConsoleKeepsTalk
<1>4. ASSUME NEW r \in Requests, Handle(r), UNCHANGED <<talk, notices, met>> PROVE TalkInv'
  <2>1. Drifts(db, db') /\ scene' = scene /\ now' = now
    BY <1>1, <1>4, HandleDrifts
  <2>2. now <= now
    BY <1>1
  <2> QED BY <1>1, <1>4, <2>1, <2>2, ConsoleKeepsTalk
<1>5. ASSUME NEW m \in Support!Messages, Support!Assist(m) PROVE TalkInv'
  <2>1. m \in DOMAIN scene.says
    BY SameNames
  <2> QED BY <1>5, <2>1, PlainKeeps, NotifyKeeps, StoreTicketKeeps, OpenKeeps, SaveKeeps
          DEF Support!Assist
<1>6. CASE UNCHANGED <<vars, talk, notices, met>>
  <2>1. UNCHANGED <<db, now, scene, talk, notices, met>>
    BY <1>6 DEF vars
  <2> QED BY <2>1 DEF TalkInv
<1> QED BY <1>2, <1>3, <1>4, <1>5, <1>6 DEF DeskNext

\* It holds at the start: nobody has spoken, and ids to be minted are new.
LEMMA TalkStarts == DeskInit => TalkInv
<1> SUFFICES ASSUME DeskInit PROVE TalkInv
  OBVIOUS
<1>1. /\ scene \in Scenarios /\ now = 0
      /\ db.tickets = scene.tickets /\ db.conversations = scene.kept
      /\ talk = [m \in DOMAIN scene.says |-> Support!Unsaid] /\ notices = {} /\ met = {}
  BY PaperStarts DEF DeskInit, Support!SupportInit
<1>2. ASSUME NEW m \in DOMAIN scene.says
      PROVE  /\ talk[m] = [x \in TalkFields |-> talk[m][x]] /\ talk[m].pc = "sent"
             /\ talk[m].answer = 0 /\ talk[m].raised = 0 /\ talk[m].ticket = None
  BY <1>1 DEF Support!Unsaid, TalkFields
<1>3. \A m \in DOMAIN scene.says :
        ~Flying(talk[m]) /\ ~Active(talk[m]) /\ talk[m].answer # 200 /\ TalkHolds(m, talk[m], now)
  BY <1>2 DEF Flying, Active, TalkHolds
<1>4. Speaking(talk, scene, now)
  BY <1>1, <1>3 DEF Speaking
<1>5. Conversing(db, talk, scene, now)
  <2>1. ASSUME NEW c \in DOMAIN db.conversations
        PROVE  /\ Begun(talk, scene, c) /\ db.conversations[c].updated = 0
               /\ IsTurns(db.conversations[c].turns.said, db.conversations[c].turns.n)
    <3>1. c \in DOMAIN scene.kept /\ db.conversations[c] = scene.kept[c]
      BY <1>1
    <3>2. LET turns == scene.kept[c].turns
          IN  /\ turns.said \in Seq({turns.said[i] : i \in 1..Len(turns.said)})
              /\ turns.n = Len(turns.said) /\ turns.n <= MaxTurns
              /\ scene.kept[c].updated = 0
      BY <1>1, <3>1, DeskAssumption DEF DeskAssumption
    <3> QED BY <3>1, <3>2 DEF Begun, IsTurns, Voices
  <2> QED BY <1>1, <1>3, <2>1 DEF Conversing
<1>6. /\ SameOwner(db, talk, scene) /\ Meeting(talk, scene, met)
      /\ Answering(db, talk, scene, met, now)
  BY <1>3 DEF SameOwner, Meeting, Answering
<1>7. \A m \in DOMAIN scene.says, k \in Nat : <<m, k>> \notin DOMAIN db.tickets
  BY <1>1, DeskAssumption DEF DeskAssumption
<1>8. TicketsHold(db, talk, scene, notices)
  BY <1>1, <1>2, <1>7 DEF TicketsHold
<1> QED BY <1>4, <1>5, <1>6, <1>8 DEF TalkInv, ConversationsHold

\* Conversations and tickets hold, always.
LEMMA TalkHoldsAlways == DeskSpec => []TalkInv
BY DeskHolds, RepliesHold, TalkStarts, TalkStep, PTL DEF DeskSpec

\* Which is what AnsweredIsKept says.
LEMMA TalkIsKept == TalkInv => AnsweredIsKept
<1> SUFFICES ASSUME TalkInv PROVE AnsweredIsKept
  OBVIOUS
<1>1. ASSUME NEW c \in DOMAIN db.conversations
      PROVE  /\ db.conversations[c].turns.n = Len(db.conversations[c].turns.said)
             /\ db.conversations[c].turns.n <= MaxTurns
             /\ Support!Kept(c) = Voices(db.conversations[c].turns.said)
  BY DEF TalkInv, ConversationsHold, Conversing, IsTurns, Voices, Support!Kept
<1>2. ASSUME NEW m \in DOMAIN scene.says, talk[m].answer = 200
      PROVE  \/ Support!Gone(m)
             \/ m \in Support!Kept(Support!Conversation(m))
             \/ \E x \in Support!Spans(Support!Conversation(m)) \ {m} : {m, x} \in met
             \/ /\ Support!Conversation(m) \notin DOMAIN db.conversations
                /\ talk[m].at + SupportKept < now
  <2>1. \/ Left(db, scene, m)
        \/ /\ About(scene, m) \in DOMAIN db.conversations
           /\ m \in Voices(db.conversations[About(scene, m)].turns.said)
        \/ Over(talk, scene, met, m)
        \/ About(scene, m) \notin DOMAIN db.conversations /\ talk[m].at + SupportKept < now
    BY <1>2 DEF TalkInv, ConversationsHold, Answering
  <2>2. CASE Over(talk, scene, met, m)
    <3>1. PICK x \in DOMAIN scene.says \ {m} :
            About(scene, x) = About(scene, m) /\ talk[x].answer = 200 /\ {m, x} \in met
      BY <2>2 DEF Over
    <3>2. x \in Support!Spans(Support!Conversation(m)) \ {m}
      BY <3>1, SameNames DEF Support!Spans
    <3> QED BY <3>1, <3>2
  <2> QED BY <1>1, <2>1, <2>2, SameNames
<1>3. Support!Messages = DOMAIN scene.says
  BY SameNames
<1> QED BY <1>1, <1>2, <1>3 DEF AnsweredIsKept, Support!AnsweredIsKept

\* And, with what is owned by whom, the second half of CorrespondenceIsTrue.
LEMMA TalkTicketsTrue == TalkInv /\ ReplyInv => Support!TicketsAreTrue
<1> SUFFICES ASSUME TalkInv, ReplyInv PROVE Support!TicketsAreTrue
  OBVIOUS
<1>1. ASSUME NEW m \in DOMAIN scene.says, talk[m].answer = 200, talk[m].ticket # None
      PROVE  Support!Gone(m) \/ talk[m].ticket \in DOMAIN db.tickets
  <2>1. \/ Left(db, scene, m)
        \/ \E k \in Nat : talk[m].ticket = <<m, k>> /\ <<m, k>> \in DOMAIN db.tickets
    BY <1>1 DEF TalkInv, TicketsHold
  <2>2. Support!Gone(m) <=> Left(db, scene, m)
    BY SameNames
  <2> QED BY <2>1, <2>2
<1>2. ASSUME NEW i \in notices
      PROVE  Support!Gone(i[1]) \/ i \in DOMAIN db.tickets \/ talk[i[1]].pc \in {"ticket", "lost"}
  <2>1. PICK m \in DOMAIN scene.says, k \in Nat :
          /\ i = <<m, k>>
          /\ \/ Left(db, scene, m) \/ i \in DOMAIN db.tickets \/ talk[m].pc = "lost"
             \/ talk[m].pc = "ticket" /\ k = talk[m].raised
    BY DEF TalkInv, TicketsHold
  <2>2. i[1] = m
    BY <2>1
  <2> QED BY <2>1, <2>2, SameNames
<1>3. ASSUME NEW m \in DOMAIN scene.says, NEW k \in 1..talk[m].raised,
             Support!TicketId(m, k) \in DOMAIN db.tickets
      PROVE  LET about == db.tickets[Support!TicketId(m, k)].conversation
             IN  \/ about \in DOMAIN db.conversations
                 \/ /\ about = Support!Conversation(m)
                    /\ talk[m].answer # 200 \/ talk[m].at + SupportKept < now
  <2>1. k \in Nat /\ Support!TicketId(m, k) = <<m, k>>
    BY DEF TalkInv, ConversationsHold, Speaking, TalkHolds, Support!TicketId
  <2>2. /\ db.tickets[<<m, k>>].tenant = Of(scene, m)
        /\ db.tickets[<<m, k>>].conversation = About(scene, m)
    BY <1>3, <2>1 DEF TalkInv, TicketsHold
  <2>3. ~Left(db, scene, m)
    BY <1>3, <2>1, <2>2 DEF ReplyInv, Owned, Paper, Left
  <2>4. talk[m].answer = 200 =>
          About(scene, m) \in DOMAIN db.conversations \/ talk[m].at + SupportKept < now
    BY <2>3 DEF TalkInv, ConversationsHold, Answering
  <2> QED BY <2>1, <2>2, <2>4, SameNames
<1>4. Support!Messages = DOMAIN scene.says
  BY SameNames
<1> QED BY <1>1, <1>2, <1>3, <1>4 DEF Support!TicketsAreTrue

\* For every number of messages, in any interleaving over any conversations: one that
\* was answered is in its conversation, unless another of that conversation that was in
\* flight with it was saved over it, the account ended, or the conversation had its
\* SUPPORT_KEPT_DAYS; and none is kept longer than MAX_TURNS (support.py, answer;
\* postgres.py, save_conversation).
THEOREM AnsweredStaysKept == DeskSpec => []AnsweredIsKept
BY TalkHoldsAlways, TalkIsKept, PTL

\* What was mailed, stored and told agrees, both ways: replies with the mail service,
\* tickets with what the customer and the operator were told, and each with the tenant
\* and the conversation it is about (support.py, _escalate; ops.py, reply).
THEOREM CorrespondenceStaysTrue == DeskSpec => []CorrespondenceIsTrue
<1>1. ReplyInv /\ TalkInv => CorrespondenceIsTrue
  BY RepliesHoldTrue, TalkTicketsTrue DEF CorrespondenceIsTrue
<1> QED BY <1>1, RepliesHold, TalkHoldsAlways, PTL

================================================================================
