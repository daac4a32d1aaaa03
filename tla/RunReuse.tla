------------------------------- MODULE RunReuse -------------------------------
(***************************************************************************)
(* Reuse of reconciliation runs by SQL queries: RunCache                   *)
(* (apps/api/okwan_api/recon_reuse.py), the query session that plans and   *)
(* runs `recon.*` tables (packages/query/okwan_query/session.py), the      *)
(* recorder that fills the cache (rest.py) and the route that saves a      *)
(* credential (admin.py).  One process, one event loop: a step is the code *)
(* between two awaits.                                                     *)
(***************************************************************************)
EXTENDS Naturals, FiniteSets

CONSTANTS
  Queries,     \* the queries of a behaviour
  Tenants,
  Specs,       \* the declared reconciliations
  Jobs,        \* what a query may be: a tenant, the recon tables it names, fresh
  Ttl,         \* REUSE_SECONDS
  MaxEntries,  \* MAX_ENTRIES
  MaxClock,    \* bound: how far the clock runs
  MaxSaves     \* bound: how often a tenant's credential is saved

ASSUME ReuseAssumption ==
  /\ Jobs \subseteq [tenant: Tenants, specs: SUBSET Specs, fresh: BOOLEAN]
  /\ Ttl \in Nat /\ MaxEntries \in Nat \ {0} /\ MaxClock \in Nat /\ MaxSaves \in Nat

VARIABLES
  now,      \* the cache's clock
  key,      \* [tenant -> version of its stored credential]
  saving,   \* tenants whose credential is stored and whose entries are not yet forgotten
  forgets,  \* [tenant -> how often its entries were forgotten]
  entries,  \* RunCache._entries, each with its place in the order they were put
  puts,     \* how many were put
  job,      \* what each query asks
  step,     \* "resolve", "plan", "run", "done"
  seen,     \* [query -> the credential version its resolver loaded]
  todo,     \* [query -> the tables it must still run live]
  running,  \* [query -> the table it is running, if it is]
  reused    \* the reuses so far: the query, the table, the entry, and when

reuseVars == <<now, key, saving, forgets, entries, puts, job, step, seen, todo, running, reused>>

ReuseInit ==
  /\ now = 0
  /\ key = [t \in Tenants |-> 0]
  /\ saving = {}
  /\ forgets = [t \in Tenants |-> 0]
  /\ entries = {}
  /\ puts = 0
  /\ job \in [Queries -> Jobs]
  /\ step = [q \in Queries |-> "resolve"]
  /\ seen = [q \in Queries |-> 0]
  /\ todo = [q \in Queries |-> {}]
  /\ running = [q \in Queries |-> {}]
  /\ reused = {}

-----------------------------------------------------------------------------
(* RunCache                                                                  *)

IsFor(e, t, s) == e.tenant = t /\ e.spec = s

Expired(e) == now - e.at > Ttl

\* What `get` returns for each table, and the entries it leaves.
Found(t, specs) == {e \in entries : ~Expired(e) /\ \E s \in specs : IsFor(e, t, s)}

AfterGet(t, specs) == {e \in entries : ~(Expired(e) /\ \E s \in specs : IsFor(e, t, s))}

\* The entry moves to the end; beyond the bound the oldest goes.
AfterPut(e) ==
  LET grown == {x \in entries : ~IsFor(x, e.tenant, e.spec)} \cup {e}
  IN  IF Cardinality(grown) > MaxEntries THEN {x \in grown : \E y \in grown : y.place < x.place}
      ELSE grown

-----------------------------------------------------------------------------
(* A query.                                                                  *)

\* resolver_for loads the tenant's credentials once.
Resolve(q) ==
  /\ step[q] = "resolve"
  /\ seen' = [seen EXCEPT ![q] = key[job[q].tenant]]
  /\ step' = [step EXCEPT ![q] = "plan"]
  /\ UNCHANGED <<now, key, saving, forgets, entries, puts, job, todo, running, reused>>

\* The entries the query may read.
Usable(q) == IF job[q].fresh THEN {} ELSE Found(job[q].tenant, job[q].specs)
Served(q, s) == \E e \in Usable(q) : IsFor(e, job[q].tenant, s)

\* _plan_runs: nothing is awaited between the tables.
Plan(q) ==
  /\ step[q] = "plan"
  /\ reused' = reused \cup
       {[query |-> q, entry |-> e, at |-> now, key |-> key[job[q].tenant],
         saving |-> job[q].tenant \in saving] : e \in Usable(q)}
  /\ todo' = [todo EXCEPT ![q] = {s \in job[q].specs : ~Served(q, s)}]
  /\ step' = [step EXCEPT ![q] = IF todo'[q] = {} THEN "done" ELSE "run"]
  /\ entries' = IF job[q].fresh THEN entries ELSE AfterGet(job[q].tenant, job[q].specs)
  /\ UNCHANGED <<now, key, saving, forgets, puts, job, seen, running>>

\* A credential is missing, or the tenant is over its limit of live runs.
Refuse(q) ==
  /\ step[q] = "plan"
  /\ \E s \in job[q].specs : ~Served(q, s)
  /\ entries' = IF job[q].fresh THEN entries ELSE AfterGet(job[q].tenant, job[q].specs)
  /\ step' = [step EXCEPT ![q] = "done"]
  /\ UNCHANGED <<now, key, saving, forgets, puts, job, seen, todo, running, reused>>

StartRun(q) ==
  /\ step[q] = "run"
  /\ running[q] = {}
  /\ \E s \in todo[q] : running' = [running EXCEPT ![q] = {s}]
  /\ UNCHANGED <<now, key, saving, forgets, entries, puts, job, step, seen, todo, reused>>

\* The run is stored, then kept for reuse, dated when it ended.
FinishRun(q) ==
  /\ step[q] = "run"
  /\ \E s \in running[q] :
       entries' = AfterPut([tenant |-> job[q].tenant, spec |-> s, by |-> q, key |-> seen[q],
                            at |-> now, forgets |-> forgets[job[q].tenant], place |-> puts + 1])
  /\ puts' = puts + 1
  /\ todo' = [todo EXCEPT ![q] = @ \ running[q]]
  /\ running' = [running EXCEPT ![q] = {}]
  /\ step' = [step EXCEPT ![q] = IF todo'[q] = {} THEN "done" ELSE "run"]
  /\ UNCHANGED <<now, key, saving, forgets, job, seen, reused>>

\* A failed run ends the query and is not kept.
FailRun(q) ==
  /\ step[q] = "run"
  /\ running[q] # {}
  /\ running' = [running EXCEPT ![q] = {}]
  /\ todo' = [todo EXCEPT ![q] = {}]
  /\ step' = [step EXCEPT ![q] = "done"]
  /\ UNCHANGED <<now, key, saving, forgets, entries, puts, job, seen, reused>>

-----------------------------------------------------------------------------
(* PUT /v1/tenants/{id}/credentials: the credential, then the cache.         *)

SaveCredential(t) ==
  /\ key[t] < MaxSaves
  /\ t \notin saving
  /\ key' = [key EXCEPT ![t] = @ + 1]
  /\ saving' = saving \cup {t}
  /\ UNCHANGED <<now, forgets, entries, puts, job, step, seen, todo, running, reused>>

\* Mutant: the entries are left to expire.
ForgetNothing(t) ==
  /\ t \in saving
  /\ saving' = saving \ {t}
  /\ forgets' = [forgets EXCEPT ![t] = @ + 1]
  /\ UNCHANGED <<now, key, entries, puts, job, step, seen, todo, running, reused>>

Forget(t) ==
  /\ t \in saving
  /\ entries' = {e \in entries : e.tenant # t}
  /\ saving' = saving \ {t}
  /\ forgets' = [forgets EXCEPT ![t] = @ + 1]
  /\ UNCHANGED <<now, key, puts, job, step, seen, todo, running, reused>>

ClockTick ==
  /\ now < MaxClock
  /\ now' = now + 1
  /\ UNCHANGED <<key, saving, forgets, entries, puts, job, step, seen, todo, running, reused>>

ReuseNext ==
  \/ \E q \in Queries :
       Resolve(q) \/ Plan(q) \/ Refuse(q) \/ StartRun(q) \/ FinishRun(q) \/ FailRun(q)
  \/ \E t \in Tenants : SaveCredential(t) \/ Forget(t)
  \/ ClockTick

ReuseSpec == ReuseInit /\ [][ReuseNext]_reuseVars

-----------------------------------------------------------------------------
\* "One tenant never sees another's entry", and a query is served the
\* reconciliation it named, unless it asked for a fresh run.
OwnRunsOnly ==
  \A u \in reused :
    /\ job[u.entry.by].tenant = job[u.query].tenant
    /\ u.entry.spec \in job[u.query].specs
    /\ ~job[u.query].fresh

\* A reused run ended within the reuse window before the query planned.
RecentRunsOnly == \A u \in reused : u.entry.at <= u.at /\ u.at - u.entry.at <= Ttl

\* "The oldest goes first": the cache holds at most MaxEntries runs, one of each
\* tenant's reconciliations, in the order they ended, so the one evicted is
\* older than every one kept.
OldestGoesFirst ==
  /\ Cardinality(entries) <= MaxEntries
  /\ \A x, y \in entries : x # y =>
       /\ x.place # y.place /\ ~IsFor(y, x.tenant, x.spec)
       /\ x.place < y.place => x.at <= y.at

\* Once the tenant's last credential is saved and its entries are forgotten, only
\* runs that ended after that are served.  When they loaded the credential is
\* another matter: a query underway across the save has the one before
\* (FixedKeyIsRead).
NoRunFromBeforeASave == \A u \in reused : ~u.saving => u.entry.forgets = u.key

\* What a query is served without a run is the tenant's own, of the table it
\* named, recent, and not kept from before the last save of a credential; and
\* the cache that serves it gives up its oldest run first.
ReuseIsSound == OwnRunsOnly /\ RecentRunsOnly /\ OldestGoesFirst /\ NoRunFromBeforeASave

\* recon_reuse.py:16-18: "a credential saved for the tenant forgets its entries,
\* so a fixed key is read at once rather than after the window": a query that
\* began after the save, once its entries are forgotten, is served no run read
\* with the credential before.
FixedKeyIsRead ==
  \A u \in reused : ~u.saving /\ seen[u.query] = u.key => u.entry.key = u.key
=============================================================================
