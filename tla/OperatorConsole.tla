---------------------------- MODULE OperatorConsole ----------------------------
(***************************************************************************)
(* The operator console (apps/api/okwan_api/ops.py) and the dashboard      *)
(* sessions it stands on (okwan_vault/accounts.py, postgres.py): who may   *)
(* in, the second factor that unlocks a session (okwan_vault/totp.py), and *)
(* the tickets an operator reads, answers and closes.                      *)
(*                                                                         *)
(* Time runs in steps of the code (STEP); the limits are in those.  Every  *)
(* call of the vault and every mail is an await: a step is the code        *)
(* between two of them.  The process may stop at any of them.              *)
(***************************************************************************)
EXTENDS PostgresStore, Integers

CONSTANTS
  Tokens,     \* dashboard sessions that may be opened
  Scenarios,  \* what is asked, and what is there at the start
  Logins,     \* [address -> its tenant]
  Operators,  \* OKWAN_OPERATOR_EMAILS
  SessionTTL, \* SESSION_TTL
  UnlockFor   \* UNLOCK_FOR

ASSUME ConsoleAssumption ==
  /\ Operators \subseteq DOMAIN Logins
  /\ {SessionTTL, UnlockFor} \subseteq Nat
  /\ Touch <= Idle

\* accounts.tenant_id is UNIQUE; a scenario's sessions, tickets and
\* conversations are those of logins.
ASSUME LoginAssumption ==
  /\ \A e, f \in DOMAIN Logins : Logins[e] = Logins[f] => e = f
  /\ \A e \in DOMAIN Logins : Logins[e] # None
  /\ \A s \in Scenarios :
       /\ DOMAIN s.open \subseteq Tokens
       /\ \A k \in DOMAIN s.open : s.open[k].email \in DOMAIN Logins
       /\ \A i \in DOMAIN s.tickets : s.tickets[i].tenant \in {Logins[e] : e \in DOMAIN Logins}
       /\ \A c \in DOMAIN s.kept : s.kept[c].tenant \in {Logins[e] : e \in DOMAIN Logins}

VARIABLES
  db,       \* the vault
  now,      \* the clock
  scene,    \* the scenario: what is asked, what may happen besides, how long it lasts
  req,      \* [request -> where its handler stands and what it holds]
  last,     \* ReplayGuard._last of this process
  lives,    \* how often the process has started
  opened,   \* history: the codes accepted
  used,     \* history: [token -> when a request was last let in with it]
  mails     \* history: the replies the mail service took

consoleVars == <<req, last, lives, opened, used, mails>>
vars == <<db, now, scene, consoleVars>>

Fresh == [pc |-> "sent", email |-> None, until |-> None, ticket |-> None, answer |-> 0,
          at |-> 0, found |-> None, sent |-> None]

Init ==
  /\ scene \in Scenarios
  /\ db = [NewDatabase EXCEPT
             !.tenants = [t \in {Logins[e] : e \in DOMAIN Logins} |-> None],
             !.accounts = [e \in DOMAIN Logins |-> [tenant |-> Logins[e], password |-> None]],
             !.sessions = [k \in DOMAIN scene.open |->
                [tenant |-> Logins[scene.open[k].email], expires |-> SessionTTL, seen |-> 0,
                 operator |-> IF scene.open[k].unlocked THEN UnlockFor ELSE None]],
             !.tickets = scene.tickets, !.conversations = scene.kept]
  /\ now = 0
  /\ req = [r \in DOMAIN scene.ask |-> Fresh]
  /\ last = [e \in Operators |-> -1]
  /\ lives = 1
  /\ opened = {[token |-> k, email |-> scene.open[k].email, step |-> -1, life |-> 0, at |-> 0] :
                 k \in {k \in DOMAIN scene.open : scene.open[k].unlocked}}
  /\ used = [k \in Tokens |-> IF k \in DOMAIN scene.open THEN 0 ELSE None]
  /\ mails = {}

Requests == DOMAIN scene.ask
Job(r) == scene.ask[r]
Set(r, changes) ==
  req' = [req EXCEPT ![r] = [x \in DOMAIN @ |-> IF x \in DOMAIN changes THEN changes[x] ELSE @[x]]]
Answer(r, code) == Set(r, [pc |-> "done", answer |-> code])
Here(r, pc, ops) == req[r].pc = pc /\ Job(r).op \in ops
Still == UNCHANGED <<now, scene, lives>>
Reads == UNCHANGED <<db, last, opened, used, mails>> /\ Still
Writes(d) == db' = d /\ UNCHANGED <<last, opened, used, mails>> /\ Still
Failed(result) == result.says[1] = "raised"

-----------------------------------------------------------------------------
(* Who.                                                                      *)

\* tenant_for_session: a live session, touched if it was not lately.
Identify(r) ==
  /\ req[r].pc = "sent"
  /\ LET found == TenantForSession(db, Job(r).token, now)
         t     == found.says[2]
     IN  /\ db' = found.db
         /\ IF t = None THEN Answer(r, 404) ELSE Set(r, [pc |-> "named", found |-> t])
         /\ used' = IF t = None THEN used ELSE [used EXCEPT ![Job(r).token] = now]
  /\ UNCHANGED <<last, opened, mails>> /\ Still

\* The address of its login, which must be an operator's.
Recognise(r) ==
  /\ req[r].pc = "named"
  /\ LET mine == AccountEmail(db, req[r].found) \cap Operators
     IN  IF mine = {} THEN Answer(r, 404)
         ELSE Set(r, [pc |-> "known", email |-> CHOOSE e \in mine : TRUE])
  /\ Reads

\* Routes that need no code, and those that do.
Plain == {"me", "unlock", "lock"}

\* `unlocked` compares what was read to the clock.
Admit(r) ==
  /\ req[r].pc = "known"
  /\ LET until == SessionOperatorUntil(db, Job(r).token, now)
     IN  IF Job(r).op \notin Plain /\ (until = None \/ until <= now) THEN Answer(r, 403)
         ELSE Set(r, [pc |-> "in", until |-> until, at |-> now])
  /\ Reads

\* /me says until when, and is the one thing not logged.
Me(r) ==
  /\ Here(r, "in", {"me"})
  /\ Answer(r, 200)
  /\ Reads

-----------------------------------------------------------------------------
(* The second factor.                                                        *)

\* The window of matching_step.
Matches(code) == code \in {now - 1, now, now + 1}

\* Mutant: a code is not remembered.
VerifyForgetful(r) ==
  /\ Here(r, "in", {"unlock"})
  /\ LET code == Job(r).code
     IN  IF Matches(code) /\ code > last[req[r].email]
         THEN /\ last' = last
              /\ opened' = opened \cup {[token |-> Job(r).token, email |-> req[r].email,
                                         step |-> code, life |-> lives, at |-> now]}
              /\ Set(r, [pc |-> "open", until |-> now + UnlockFor])
         ELSE Set(r, [pc |-> "log", answer |-> 401]) /\ UNCHANGED <<last, opened>>
  /\ UNCHANGED <<db, used, mails>> /\ Still

\* ReplayGuard.verify: within the window, and after the last one accepted.
Verify(r) ==
  /\ Here(r, "in", {"unlock"})
  /\ LET code == Job(r).code
     IN  IF Matches(code) /\ code > last[req[r].email]
         THEN /\ last' = [last EXCEPT ![req[r].email] = code]
              /\ opened' = opened \cup {[token |-> Job(r).token, email |-> req[r].email,
                                         step |-> code, life |-> lives, at |-> now]}
              /\ Set(r, [pc |-> "open", until |-> now + UnlockFor])
         ELSE Set(r, [pc |-> "log", answer |-> 401]) /\ UNCHANGED <<last, opened>>
  /\ UNCHANGED <<db, used, mails>> /\ Still

\* Too many codes, or no authenticator enrolled.
RefuseCode(r) ==
  /\ Here(r, "in", {"unlock"})
  /\ \E code \in {429, 409} : Answer(r, code)
  /\ Reads

\* Unlock and lock write the one session.
SetUnlocked(r) ==
  /\ \/ req[r].pc = "open"
     \/ Here(r, "in", {"lock"})
  /\ LET until == IF req[r].pc = "open" THEN req[r].until ELSE None
     IN  Writes(SetSessionOperator(db, Job(r).token, until).db)
  /\ Set(r, [pc |-> "log", answer |-> 200])

\* Every action is logged before it is answered.
Log(r) ==
  /\ req[r].pc = "log"
  /\ Set(r, [pc |-> "done"])
  /\ Writes(LogOperator(db, r, req[r].answer).db)

-----------------------------------------------------------------------------
(* Tickets and accounts.                                                     *)

Lists == {"tickets", "accounts", "health", "log"}

\* A list is read, over several awaits, then logged, then answered; so is the
\* page of one account, a tenant without a parent.
List(r) ==
  /\ \/ Here(r, "in", Lists)
     \/ Here(r, "in", {"account"}) /\ Get(db.tenants, Job(r).ticket, Job(r).ticket) = None
  /\ Set(r, [pc |-> "log", answer |-> 200])
  /\ Reads

NoAccount(r) ==
  /\ Here(r, "in", {"account"}) /\ Get(db.tenants, Job(r).ticket, Job(r).ticket) # None
  /\ Answer(r, 404)
  /\ Reads

FindTicket(r) ==
  /\ Here(r, "in", {"view", "reply", "status"})
  /\ LET t == GetTicket(db, Job(r).ticket).tenant
     IN  IF t = None THEN Answer(r, 404)
         ELSE Set(r, [found |-> t, ticket |-> Job(r).ticket,
                      pc |-> IF Job(r).op = "view" THEN "log" ELSE Job(r).op,
                      answer |-> IF Job(r).op = "view" THEN 200 ELSE 0])
  /\ Reads

\* 409 for an account without an address; 422 for a secret in the text; 503
\* without a mailer.
FindContact(r) ==
  /\ req[r].pc = "reply"
  /\ IF AccountEmail(db, req[r].found) = {} THEN Answer(r, 409)
     ELSE \/ Answer(r, 422) \/ Answer(r, 503)
          \/ Set(r, [pc |-> "mail"])
  /\ Reads

\* The service takes the mail; or it does and its answer is lost, which reads
\* as a failure; or it does not.
Mail(r) ==
  /\ req[r].pc = "mail"
  /\ \/ mails' = mails \cup {r} /\ Set(r, [pc |-> "store", sent |-> TRUE])
     \/ mails' = mails \cup {r} /\ Set(r, [pc |-> "store", sent |-> FALSE])
     \/ mails' = mails /\ Set(r, [pc |-> "store", sent |-> FALSE])
  /\ UNCHANGED <<db, last, opened, used>> /\ Still

\* The reply is kept whether it went or not; the account may be gone.
StoreReply(r) ==
  /\ req[r].pc = "store"
  /\ LET stored == AddReply(db, req[r].found, req[r].ticket, r, req[r].sent)
     IN  /\ Writes(stored.db)
         /\ IF Failed(stored) THEN Answer(r, 500)
            ELSE IF req[r].sent THEN Set(r, [pc |-> "status"])
            ELSE Set(r, [pc |-> "log", answer |-> 502])

\* A reply answers or resolves its ticket; a status is whatever is asked.
SetStatus(r) ==
  /\ req[r].pc = "status"
  /\ LET done == SetTicketStatus(db, req[r].found, req[r].ticket, Job(r).status)
     IN  /\ Writes(done.db)
         /\ IF Failed(done) THEN Answer(r, 500) ELSE Set(r, [pc |-> "log", answer |-> 200])

-----------------------------------------------------------------------------
(* Besides.                                                                  *)

SignOut(k) ==
  /\ "sign out" \in scene.besides /\ k \in DOMAIN db.sessions
  /\ db' = DeleteSession(db, k).db
  /\ UNCHANGED <<scene, now, req, last, lives, opened, used, mails>>

Reset(e) ==
  /\ "reset" \in scene.besides /\ Where(db, "sessions", {Logins[e]}) # {}
  /\ db' = ResetPassword(db, e, None).db
  /\ UNCHANGED <<scene, now, req, last, lives, opened, used, mails>>

CloseAccount(e) ==
  /\ "delete" \in scene.besides /\ e \notin Operators /\ Logins[e] \in Tenants(db)
  /\ db' = DeleteTenant(db, Logins[e]).db
  /\ UNCHANGED <<scene, now, req, last, lives, opened, used, mails>>

\* The process stops and starts: what it was doing is lost, and so is `_replay`.
Restart ==
  /\ "restart" \in scene.besides /\ lives = 1
  /\ req' = [r \in Requests |-> IF req[r].pc \in {"sent", "done"} THEN req[r]
                                ELSE [req[r] EXCEPT !.pc = "lost"]]
  /\ last' = [e \in Operators |-> -1]
  /\ lives' = lives + 1
  /\ UNCHANGED <<db, now, scene, opened, used, mails>>

Tick ==
  /\ now < scene.horizon
  /\ now' = now + 1
  /\ UNCHANGED <<db, scene, req, last, lives, opened, used, mails>>

Handle(r) ==
  \/ Identify(r) \/ Recognise(r) \/ Admit(r) \/ Me(r)
  \/ Verify(r) \/ RefuseCode(r) \/ SetUnlocked(r) \/ Log(r)
  \/ List(r) \/ NoAccount(r) \/ FindTicket(r) \/ FindContact(r) \/ Mail(r) \/ StoreReply(r) \/ SetStatus(r)

Elsewhere ==
  \/ Tick
  \/ \E k \in Tokens : SignOut(k)
  \/ \E e \in DOMAIN Logins : Reset(e) \/ CloseAccount(e)

Next == Restart \/ Elsewhere \/ \E r \in Requests : Handle(r)

Spec == Init /\ [][Next]_vars

-----------------------------------------------------------------------------
\* "The session must be unlocked with a code, for 30 minutes at a time": what
\* was let in to another account's data came with an operator's session that a
\* code had opened less than UNLOCK_FOR before.  "Codes ... work once": in one
\* life of the process no code opens two unlocks of a login, in whatever order
\* requests come.
OpenedByACode ==
  /\ \A r \in Requests : req[r].ticket # None =>
       \E u \in opened :
         /\ u.token = Job(r).token /\ u.email = req[r].email /\ u.email \in Operators
         /\ u.at <= req[r].at /\ req[r].at < u.at + UnlockFor
  /\ \A a, b \in opened :
       a.email = b.email /\ a.step = b.step /\ a.life = b.life /\ a.step >= 0 => a = b

\* "After 30 minutes without a request", "accurate to" SESSION_TOUCH: a session
\* let in now was used within SESSION_IDLE, and one used a touch more recently
\* than that, and not expired or ended, is let in.
IdleIsAccurate ==
  \A k \in DOMAIN db.sessions :
    LET live == TenantForSession(db, k, now).says[2] # None
    IN  /\ live => used[k] + Idle > now /\ now < SessionTTL
        /\ used[k] + Idle - Touch > now /\ now < SessionTTL => live

\* A reply stored as sent was taken by the mail service; a ticket a reply has
\* answered has one; and a mail that went has its reply stored unless the
\* account went, or the process stopped, in between.
RepliesAreTrue ==
  /\ \A r \in DOMAIN db.replies : db.replies[r].sent => r \in mails
  /\ \A i \in DOMAIN db.tickets :
       db.tickets[i].status = "answered" =>
         \/ i \in DOMAIN scene.tickets /\ scene.tickets[i].status = "answered"
         \/ \E r \in DOMAIN db.replies : db.replies[r].ticket = i /\ db.replies[r].sent
         \/ \E r \in Requests : Job(r).op = "status" /\ Job(r).status = "answered"
  /\ \A r \in mails : req[r].pc = "done" => r \in DOMAIN db.replies \/ req[r].found \notin Tenants(db)
================================================================================
