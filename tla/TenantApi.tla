------------------------------- MODULE TenantApi -------------------------------
(***************************************************************************)
(* The routes a tenant calls with its key: administration of its subtree   *)
(* (apps/api/okwan_api/admin.py) behind the boundary of                    *)
(* okwan_vault/authz.py, and calls that read rails behind the plan gate of *)
(* okwan_vault/usage.py and okwan_api/auth.py, which are counted once they *)
(* worked.  Every read and write of the vault is an await: a step is the   *)
(* code between two of them, and an operator (okwan_vault/cli.py), the     *)
(* Stripe webhook and the calendar act in between.                         *)
(***************************************************************************)
EXTENDS PostgresStore

CONSTANTS
  Requests,   \* the requests of a behaviour, by number
  Scenarios,  \* what they ask, and what else may happen meanwhile
  Tree,       \* [tenant -> its parent] at the start
  Keys,       \* [key -> its tenant] at the start
  MaxDepth,   \* MAX_DEPTH
  Limit       \* PLANS: [plan -> requests a month], 0 for unmetered

\* A tenant and the tenants above it: the least set that holds t and parents.
Line[t \in DOMAIN Tree] ==
  {a \in DOMAIN Tree :
     \A S \in SUBSET DOMAIN Tree :
       t \in S /\ (\A x \in S : Tree[x] # None => Tree[x] \in S) => a \in S}

\* "A cycle is impossible given the insert path"; ids are random, so a tenant
\* created later has another one (here, the number of its request).
ASSUME TreeAssumption ==
  /\ IsFiniteSet(DOMAIN Tree) /\ DOMAIN Tree \cap (Requests \cup {None}) = {}
  /\ \A t \in DOMAIN Tree : Tree[t] # None => Tree[t] \in DOMAIN Tree /\ t \notin Line[Tree[t]]

\* The requests that buckets <<tenant, hour, requests>> have counted.
Counted(B) == UNION {{<<b[1], b[2]>>} \X (1..b[3]) : b \in B}

\* No tree has used more at the start than its plan allows.
ASSUME ApiAssumption ==
  /\ Requests \subseteq Nat /\ IsFiniteSet(Requests)
  /\ \A s \in Scenarios :
       /\ DOMAIN s.ask = Requests
       /\ s.doomed \subseteq DOMAIN Tree
       /\ s.bought \subseteq (DOMAIN Tree) \X Plans
       /\ s.months \in Nat /\ DOMAIN s.made \subseteq DOMAIN Tree
       /\ \A t \in DOMAIN s.made : s.made[t] \in Nat
       /\ \A t \in DOMAIN Tree : Tree[t] = None /\ Limit["free"] # 0 =>
            LET below == {x \in DOMAIN s.made : t \in Line[x]}
            IN  Cardinality(Counted({<<x, 0, s.made[x]>> : x \in below})) <= Limit["free"]
  /\ DOMAIN Limit = Plans /\ \A p \in Plans : Limit[p] \in Nat
  /\ MaxDepth \in Nat \ {0}

VARIABLES
  db,      \* the vault
  month,   \* the calendar
  scene,   \* the scenario: what each request asks ([op, key, on]), the tenants an
           \* operator may delete, the plans that may be bought, the months that pass,
           \* and the requests counted before
  req,     \* [request -> where its handler stands and what it holds]
  plans,   \* history: [tenant -> the plans it has been on]
  met      \* history: {r, q}: both were past the gate at one time

vars == <<db, month, scene, req, plans, met>>

Fresh == [pc |-> "sent", actor |-> None, target |-> None, at |-> None, left |-> 0,
          chain |-> {}, root |-> None, plan |-> None, free |-> FALSE, answer |-> 0]

Init ==
  /\ scene \in Scenarios
  /\ db = [NewDatabase EXCEPT
             !.tenants = Tree,
             !.keys = [k \in DOMAIN Keys |-> [tenant |-> Keys[k], active |-> TRUE]],
             !.usage = [k \in (DOMAIN scene.made) \X {0} |->
                          [tenant |-> k[1], requests |-> scene.made[k[1]]]]]
  /\ month = 0
  /\ req = [r \in Requests |-> Fresh]
  /\ plans = [t \in DOMAIN Tree |-> {"free"}]
  /\ met = {}

Job(r) == scene.ask[r]
Set(r, changes) ==
  req' = [req EXCEPT ![r] =
            [x \in DOMAIN @ |-> IF x \in DOMAIN changes THEN changes[x] ELSE @[x]]]
Answer(r, code) == Set(r, [pc |-> "done", answer |-> code])
Here(r, pc, ops) == req[r].pc = pc /\ Job(r).op \in ops
Reads == UNCHANGED <<db, month, scene, plans, met>>
Writes(d) == db' = d /\ UNCHANGED <<month, scene, plans, met>>
Failed(result) == result.says[1] = "raised"

-----------------------------------------------------------------------------
(* Who is asking, and may it.                                                *)

\* require_administer's first answer needs no read: a tenant may act on itself.
Guard(actor, target) ==
  [actor |-> actor, target |-> target, at |-> target, left |-> MaxDepth,
   pc |-> IF actor = target THEN "granted" ELSE "guard"]

Bill(actor, target) ==
  [actor |-> actor, target |-> target, at |-> target, left |-> MaxDepth, pc |-> "bill"]

\* What reads a tenant's own rails: a connector's operation, SQL, and a
\* reconciliation, on REST or as a tool.  They name things that are registered.
Calls == {"operation", "query", "reconcile"}

\* current_tenant, and what the route does before its first await.  The tools
\* load the credentials between this and the gate, REST after the gate.
Authenticate(r) ==
  /\ req[r].pc = "sent"
  /\ LET t == TenantForKey(db, Job(r).key)
     IN  \/ t = None /\ Answer(r, 401)
         \/ /\ t # None
            /\ Set(r, IF Job(r).op \in Calls THEN Bill(t, t)
                      ELSE IF Job(r).op = "create" THEN Guard(t, t)
                      ELSE IF Job(r).op = "revoke" THEN [actor |-> t, pc |-> "owner"]
                      ELSE Guard(t, Job(r).on))
  /\ Reads

\* revoke_key asks whose key it is first: someone else's reads like none.
FindOwner(r) ==
  /\ req[r].pc = "owner"
  /\ LET t == KeyOwner(db, Job(r).on)
     IN  IF t = None THEN Answer(r, 404) ELSE Set(r, Guard(req[r].actor, t))
  /\ Reads

Parent(t) == IF t \in Tenants(db) THEN db.tenants[t] ELSE None

\* Mutant: the walk stops a level early.
GuardWalkShort(r) ==
  /\ req[r].pc = "guard"
  /\ LET up    == Parent(req[r].at)
         chain == req[r].chain \cup ({up} \ {None})
     IN  IF up = None \/ req[r].left <= 2
         THEN IF req[r].actor \in chain THEN Set(r, [pc |-> "granted", chain |-> chain])
              ELSE Answer(r, 404)
         ELSE Set(r, [at |-> up, left |-> req[r].left - 1, chain |-> chain])
  /\ Reads

\* ancestors: a read a level, to the root or MAX_DEPTH, and then the question.
GuardWalk(r) ==
  /\ req[r].pc = "guard"
  /\ LET up    == Parent(req[r].at)
         chain == req[r].chain \cup ({up} \ {None})
     IN  IF up = None \/ req[r].left = 1
         THEN IF req[r].actor \in chain THEN Set(r, [pc |-> "granted", chain |-> chain])
              ELSE Answer(r, 404)
         ELSE Set(r, [at |-> up, left |-> req[r].left - 1, chain |-> chain])
  /\ Reads

-----------------------------------------------------------------------------
(* The routes that change the subtree.                                       *)

CreateChild(r) ==
  /\ Here(r, "granted", {"create"})
  /\ LET made == CreateTenant(db, r, req[r].actor)
     IN  Answer(r, IF Failed(made) THEN 500 ELSE 201) /\ Writes(made.db)

IssueApiKey(r) ==
  /\ Here(r, "granted", {"issue"})
  /\ LET issued == IssueKey(db, req[r].target, r)
     IN  Answer(r, IF Failed(issued) THEN 500 ELSE 201) /\ Writes(issued.db)

RevokeApiKey(r) ==
  /\ Here(r, "granted", {"revoke"})
  /\ LET revoked == RevokeKey(db, Job(r).on)
     IN  Answer(r, IF Failed(revoked) THEN 404 ELSE 204) /\ Writes(revoked.db)

\* A connector or a field nobody declares is refused before the vault is asked.
SaveCredential(r) ==
  /\ Here(r, "granted", {"put"})
  /\ \/ Answer(r, 400) /\ Reads
     \/ LET saved == PutCredential(db, req[r].target, "secret", r)
        IN  Answer(r, IF Failed(saved) THEN 500 ELSE 204) /\ Writes(saved.db)

-----------------------------------------------------------------------------
(* The routes that read.                                                     *)

\* Credentials by name, the history of runs, the month's usage, and a run: all
\* but the first ask for the tenant itself, which may be gone.
FindTarget(r) ==
  /\ Here(r, "granted", {"history", "usage", "run"})
  /\ IF req[r].target \notin Tenants(db) THEN Answer(r, 404)
     ELSE IF Job(r).op = "history" THEN Set(r, [pc |-> "show"])
     ELSE Set(r, Bill(req[r].actor, req[r].target))
  /\ Reads

Show(r) ==
  /\ \/ Here(r, "granted", {"list"}) \/ req[r].pc = "show"
  /\ Answer(r, 200)
  /\ Reads

\* The connection test: limited after the guard, and counted when the rail
\* answered.  A missing credential or a failing rail is a result.
Probe(r) ==
  /\ Here(r, "granted", {"test"})
  /\ \/ Answer(r, 429)
     \/ Answer(r, 200)
     \/ Set(r, [pc |-> "probed"])
  /\ Reads

MeterTest(r) ==
  /\ req[r].pc = "probed"
  /\ IF req[r].target \in Tenants(db) THEN Set(r, [pc |-> "meter"]) ELSE Answer(r, 200)
  /\ Reads

-----------------------------------------------------------------------------
(* The plan gate.                                                            *)

\* Mutant: a tenant is billed to its parent.
BillWalkOnce(r) ==
  /\ req[r].pc = "bill"
  /\ LET up == Parent(req[r].at)
     IN  Set(r, [pc |-> "plan", root |-> IF up = None THEN req[r].at ELSE up])
  /\ Reads

\* billing_root: up to the top, or MAX_DEPTH levels.
BillWalk(r) ==
  /\ req[r].pc = "bill"
  /\ LET up == Parent(req[r].at)
     IN  IF up = None THEN Set(r, [pc |-> "plan", root |-> req[r].at])
         ELSE IF req[r].left = 1 THEN Set(r, [pc |-> "plan", root |-> up])
         ELSE Set(r, [at |-> up, left |-> req[r].left - 1])
  /\ Reads

ReadPlan(r) ==
  /\ req[r].pc = "plan"
  /\ Set(r, [pc |-> "count", plan |-> GetPlan(db, req[r].root)])
  /\ Reads

\* usage_since month_start: the sum of the subtree's counters of this month.
Used(d, root) == Cardinality(Counted(UsageBuckets(d, root, month)))

\* Mutant: the request that reaches the limit is let through, and the one after.
ExceededPast(plan, used) == Limit[plan] # 0 /\ used > Limit[plan]

Exceeded(plan, used) == Limit[plan] # 0 /\ used >= Limit[plan]

\* Let through, and neither counted nor refused yet.
Underway(r) == Job(r).op # "test" /\ req[r].pc \in {"work", "record", "select", "meter"}

\* The gate compares what it read in two steps; the usage route shows the same.
Gate(r) ==
  /\ req[r].pc = "count"
  /\ IF Job(r).op = "usage" THEN Set(r, [pc |-> "show"]) /\ met' = met
     ELSE IF Exceeded(req[r].plan, Used(db, req[r].root)) THEN Answer(r, 402) /\ met' = met
     ELSE /\ Set(r, [pc |-> "work"])
          /\ met' = met \cup {{q, r} : q \in {q \in Requests : Underway(q)}}
  /\ UNCHANGED <<db, month, scene, plans>>

\* _mount: an operation whose credentials are missing, or whose rail fails, is
\* answered so and not counted.
CallOperation(r) ==
  /\ Here(r, "work", {"operation"})
  /\ \/ \E code \in {401, 502} : Answer(r, code)
     \/ Set(r, [pc |-> "meter"])
  /\ Reads

\* A reconciliation is recorded either way, and counted when it worked.
Reconcile(r) ==
  /\ Here(r, "work", {"run", "reconcile"})
  /\ \E answer \in {0, 502} : Set(r, [pc |-> "record", answer |-> answer])
  /\ Reads

\* A query is refused as it stands (400, 401, 429), or it runs a reconciliation,
\* which is recorded, or it loads tables and recent runs.
RunQuery(r) ==
  /\ Here(r, "work", {"query"})
  /\ \/ Answer(r, 400)
     \/ \E answer \in {0, 502} : Set(r, [pc |-> "record", answer |-> answer])
     \/ \E free \in BOOLEAN : Set(r, [pc |-> "select", free |-> free])
  /\ Reads

\* Then its SQL runs, and may fail; what read no provider is free.
Select(r) ==
  /\ req[r].pc = "select"
  /\ Answer(r, 400) \/ IF req[r].free THEN Answer(r, 200) ELSE Set(r, [pc |-> "meter"])
  /\ Reads

\* record_run: what the vault refuses is logged, and the run goes on.
RecordRun(r) ==
  /\ req[r].pc = "record"
  /\ Set(r, [pc |-> IF req[r].answer = 502 THEN "done"
                   ELSE IF Job(r).op = "query" THEN "select" ELSE "meter"])
  /\ \E d \in {db, AddRun(db, req[r].target, r, "rails", month).db} : Writes(d)

\* meter never fails the request it counts.
Meter(r) ==
  /\ req[r].pc = "meter"
  /\ Answer(r, 200)
  /\ \E d \in {db, RecordRequest(db, req[r].target, month).db} : Writes(d)

-----------------------------------------------------------------------------
(* The others.                                                               *)

Delete(t) ==
  /\ t \in scene.doomed \cap Tenants(db)
  /\ db' = DeleteTenant(db, t).db
  /\ UNCHANGED <<month, scene, req, plans, met>>

\* The CLI asks for a root and the store asks again; so does the webhook.
ChangePlan(t, p) ==
  /\ <<t, p>> \in scene.bought /\ GetPlan(db, t) # p
  /\ ~Failed(SetPlan(db, t, p))
  /\ db' = SetPlan(db, t, p).db
  /\ plans' = [plans EXCEPT ![t] = @ \cup {p}]
  /\ UNCHANGED <<month, scene, req, met>>

NextMonth ==
  /\ month < scene.months
  /\ month' = month + 1
  /\ UNCHANGED <<db, scene, req, plans, met>>

Handle(r) ==
  \/ Authenticate(r) \/ FindOwner(r) \/ GuardWalk(r)
  \/ CreateChild(r) \/ IssueApiKey(r) \/ RevokeApiKey(r) \/ SaveCredential(r)
  \/ FindTarget(r) \/ Show(r) \/ Probe(r) \/ MeterTest(r)
  \/ BillWalk(r) \/ ReadPlan(r) \/ Gate(r)
  \/ CallOperation(r) \/ Reconcile(r) \/ RunQuery(r) \/ Select(r) \/ RecordRun(r) \/ Meter(r)

Next ==
  \/ \E r \in Requests : Handle(r)
  \/ \E t \in DOMAIN Tree : Delete(t)
  \/ \E t \in DOMAIN Tree, p \in Plans : ChangePlan(t, p)
  \/ NextMonth

Spec == Init /\ [][Next]_vars

-----------------------------------------------------------------------------
Top(t) == CHOOSE a \in Line[t] : Tree[a] = None

\* A walk of MAX_DEPTH reads reaches the top.  The insert path sets no bound: what
\* is deeper is refused to its distant ancestors, and pays for itself half way up.
Shallow(t) == Cardinality(Line[t]) <= MaxDepth + 1

\* "A tenant may act on itself and its descendants, nothing else", and outside
\* the subtree the answer is 404 whatever is asked and whatever happens
\* meanwhile: no 402, 403, 429 or 500 tells one id from another.  Inside it,
\* 404 means that the target, or the key, is gone (or the target is too deep).
BoundaryIsExact ==
  \A r \in Requests : req[r].pc = "done" /\ req[r].target \in DOMAIN Tree =>
    /\ req[r].actor \notin Line[req[r].target] => req[r].answer = 404
    /\ req[r].answer = 404 /\ req[r].actor \in Line[req[r].target] /\ Shallow(req[r].target) =>
         \/ req[r].target \notin Tenants(db)
         \/ Job(r).op = "revoke" /\ ~db.keys[Job(r).on].active

\* "The subtree shares one allowance, because the ISV is the customer": a call
\* is held to the plan of the top of its tree, whichever tenants go meanwhile.
HeldToThePayer ==
  \A r \in Requests :
    /\ req[r].root # None
    /\ req[r].target \in Tenants(db) \cap DOMAIN Tree /\ Shallow(req[r].target)
    => req[r].root = Top(req[r].target)

\* The connection tests counted on the tree below t: they pass no gate.
Tested(t) ==
  {r \in Requests : /\ Job(r).op = "test" /\ req[r].pc = "done" /\ req[r].answer = 200
                    /\ req[r].target \in DOMAIN Tree /\ t \in Line[req[r].target]}

\* The gate reads before the work and the meter counts after it.  However many
\* requests come, what a tree uses over the best plan it has had is due to its
\* connection tests and to calls that were all underway together, less one; so
\* one call at a time never overruns.  (Of trees as they were built: what an
\* account created since calls with its own key is not followed.)
OverrunIsInFlight ==
  \A t \in {t \in Tenants(db) \cap DOMAIN Tree : Tree[t] = None} :
    (\A x \in Subtree(db, t) : x \in DOMAIN Tree /\ Shallow(x)) =>
      \E plan \in plans[t], S \in SUBSET {r \in Requests : req[r].root = t} :
        /\ \A q, r \in S : q # r => {q, r} \in met
        /\ Limit[plan] # 0 =>
             Used(db, t) <= Limit[plan] + Cardinality(Tested(t))
                              + (IF S = {} THEN 0 ELSE Cardinality(S) - 1)
================================================================================
