---------------------------- MODULE TenantApiProofs ----------------------------
(***************************************************************************)
(* For every tree, every set of requests, and whatever is created, revoked *)
(* or deleted between two awaits: the subtree boundary is exact, and a     *)
(* call is held to the plan of the top of its tree.  A tenant of the tree  *)
(* only ever goes with all the tenants below it, so a target that is still *)
(* there has its whole line there, and a walk that read it misses nobody.  *)
(*                                                                         *)
(* And what a tree uses over its plan was in flight together.  The gate    *)
(* reads, then the request works, then it is counted: so a call underway   *)
(* is weighed like one that was counted, and the sum is bounded at every   *)
(* passage of the gate by the plan read there and by the calls r meets.    *)
(***************************************************************************)
EXTENDS TenantApi, FiniteSetTheorems, TLAPS

-----------------------------------------------------------------------------
(* The tree.                                                                 *)

\* A tenant is on its own line.
LEMMA OnLine == ASSUME NEW t \in DOMAIN Tree PROVE t \in Line[t] /\ Line[t] \subseteq DOMAIN Tree
BY DEF Line

\* A line holds the parents of its tenants.
LEMMA LineClimbs ==
  ASSUME NEW t \in DOMAIN Tree, NEW a \in Line[t], Tree[a] # None
  PROVE  Tree[a] \in Line[t] /\ Tree[a] \in DOMAIN Tree
BY TreeAssumption DEF TreeAssumption, Line

\* The line of a tenant without a parent is the tenant.
LEMMA LineEnds == ASSUME NEW t \in DOMAIN Tree, Tree[t] = None PROVE Line[t] = {t}
<1>1. ASSUME NEW a \in Line[t] PROVE a = t
  <2>1. {t} \in SUBSET DOMAIN Tree
    OBVIOUS
  <2> QED BY <1>1, <2>1 DEF Line
<1> QED BY <1>1, OnLine

\* Any other's is the tenant and its parent's line.
LEMMA LineUp ==
  ASSUME NEW t \in DOMAIN Tree, Tree[t] # None
  PROVE  Line[t] = {t} \cup Line[Tree[t]] /\ t \notin Line[Tree[t]] /\ Tree[t] \in DOMAIN Tree
<1>1. Tree[t] \in DOMAIN Tree /\ t \notin Line[Tree[t]]
  BY TreeAssumption DEF TreeAssumption
<1> DEFINE S == {t} \cup Line[Tree[t]]
<1>2. ASSUME NEW a \in Line[t] PROVE a \in S
  <2>1. S \in SUBSET DOMAIN Tree
    BY <1>1, OnLine
  <2>2. t \in S /\ \A x \in S : Tree[x] # None => Tree[x] \in S
    BY <1>1, OnLine, LineClimbs
  <2> HIDE DEF S
  <2> QED BY <1>2, <2>1, <2>2 DEF Line
<1>3. ASSUME NEW a \in Line[Tree[t]] PROVE a \in Line[t]
  BY <1>1, <1>3 DEF Line
<1> QED BY <1>1, <1>2, <1>3, OnLine

\* Lines are finite, and the parent's is shorter by one.
LEMMA LineCounts ==
  ASSUME NEW t \in DOMAIN Tree
  PROVE  /\ IsFiniteSet(Line[t]) /\ Cardinality(Line[t]) \in Nat
         /\ Tree[t] # None => Cardinality(Line[Tree[t]]) = Cardinality(Line[t]) - 1
<1>1. \A x \in DOMAIN Tree : IsFiniteSet(Line[x]) /\ Cardinality(Line[x]) \in Nat
  BY TreeAssumption, OnLine, FS_Subset, FS_CardinalityType DEF TreeAssumption
<1>2. CASE Tree[t] # None
  <2>1. Line[t] = {t} \cup Line[Tree[t]] /\ t \notin Line[Tree[t]] /\ Tree[t] \in DOMAIN Tree
    BY <1>2, LineUp
  <2>2. Cardinality(Line[Tree[t]] \cup {t}) = Cardinality(Line[Tree[t]]) + 1
    BY <1>1, <2>1, FS_AddElement
  <2>3. Line[t] = Line[Tree[t]] \cup {t}
    BY <2>1
  <2> QED BY <1>1, <2>1, <2>2, <2>3
<1> QED BY <1>1, <1>2

\* Where two are left, the parent is the top.
LEMMA LastStep ==
  ASSUME NEW t \in DOMAIN Tree, Tree[t] # None, Cardinality(Line[t]) <= 2
  PROVE  Tree[Tree[t]] = None
<1>1. Tree[t] \in DOMAIN Tree
  BY LineUp
<1> SUFFICES ASSUME Tree[Tree[t]] # None PROVE FALSE
  OBVIOUS
<1>2. Tree[Tree[t]] \in DOMAIN Tree /\ Tree[Tree[t]] \in Line[Tree[Tree[t]]]
  BY <1>1, LineUp, OnLine
<1>3. Cardinality(Line[Tree[Tree[t]]]) <= 0 /\ IsFiniteSet(Line[Tree[Tree[t]]])
      /\ Cardinality(Line[Tree[Tree[t]]]) \in Nat
  BY <1>1, <1>2, LineCounts
<1> QED BY <1>2, <1>3, FS_EmptySet

-----------------------------------------------------------------------------
(* The vault: tenants of the tree only go, with all below them, and a key    *)
(* stays its tenant's and revoked.                                           *)

\* A tenant that is there has its parent there.
TreeHolds(d) ==
  /\ d = [n \in Tables |-> d[n]]
  /\ \A t \in Tenants(d) \cap DOMAIN Tree :
       d.tenants[t] = Tree[t] /\ (Tree[t] # None => Tree[t] \in Tenants(d))
  /\ \A k \in DOMAIN d.keys :
       d.keys[k] = [tenant |-> d.keys[k].tenant, active |-> d.keys[k].active]

\* What any write may do to the tree and its keys.
Falls(d, e) ==
  /\ Tenants(e) \cap DOMAIN Tree \subseteq Tenants(d)
  /\ \A k \in DOMAIN d.keys :
       d.keys[k].tenant \in Tenants(e) \cap DOMAIN Tree =>
         /\ k \in DOMAIN e.keys /\ e.keys[k].tenant = d.keys[k].tenant
         /\ e.keys[k].active => d.keys[k].active

\* Whoever is there has its whole line there.
LEMMA LineStays ==
  ASSUME NEW d, TreeHolds(d), NEW t \in Tenants(d) \cap DOMAIN Tree
  PROVE  Line[t] \subseteq Tenants(d)
<1> DEFINE S == Tenants(d) \cap DOMAIN Tree
<1>1. S \in SUBSET DOMAIN Tree
  OBVIOUS
<1>2. t \in S /\ \A x \in S : Tree[x] # None => Tree[x] \in S
  BY TreeAssumption DEF TreeAssumption, TreeHolds
<1> HIDE DEF S
<1>3. \A a \in Line[t] : a \in S
  BY <1>1, <1>2 DEF Line
<1> QED BY <1>3 DEF S

\* What writes another table leaves both.
LEMMA OthersFall ==
  ASSUME NEW d, NEW e, TreeHolds(d), e = [n \in Tables |-> e[n]],
         e.tenants = d.tenants, e.keys = d.keys
  PROVE  TreeHolds(e) /\ Falls(d, e)
BY DEF TreeHolds, Falls, Tenants

\* An upsert writes one other table.
LEMMA UpsertFalls ==
  ASSUME NEW d, TreeHolds(d), NEW n \in Tables \ {"tenants", "keys"}, NEW k, NEW row
  PROVE  TreeHolds(Upsert(d, n, k, row).db) /\ Falls(d, Upsert(d, n, k, row).db)
<1> DEFINE e == Upsert(d, n, k, row).db
<1>1. e = [x \in Tables |-> e[x]] /\ e.tenants = d.tenants /\ e.keys = d.keys
  BY DEF Upsert, Raises, Returns, TreeHolds
<1> HIDE DEF e
<1> QED BY <1>1, OthersFall DEF e

\* So does recording a run, which prunes it too.
LEMMA AddRunFalls ==
  ASSUME NEW d, TreeHolds(d), NEW t, NEW id, NEW name, NEW at
  PROVE  TreeHolds(AddRun(d, t, id, name, at).db) /\ Falls(d, AddRun(d, t, id, name, at).db)
<1> DEFINE r == Insert(d, "runs", id, [tenant |-> t, name |-> name, at |-> at])
           e == AddRun(d, t, id, name, at).db
<1>1. r.db = [x \in Tables |-> r.db[x]] /\ r.db.tenants = d.tenants /\ r.db.keys = d.keys
  BY DEF Insert, Raises, Returns, TreeHolds
<1>2. PICK gone : e = r.db \/ e = [r.db EXCEPT !.runs = Without(@, gone)]
  <2> HIDE DEF r
  <2> QED BY DEF AddRun, Returns, r
<1>3. e = [x \in Tables |-> e[x]] /\ e.tenants = d.tenants /\ e.keys = d.keys
  <2> HIDE DEF r, e
  <2> QED BY <1>1, <1>2 DEF Tables, TenantTables
<1> HIDE DEF e, r
<1> QED BY <1>3, OthersFall DEF e

\* A new tenant has an id that is not in the tree.
LEMMA CreateFalls ==
  ASSUME NEW d, TreeHolds(d), NEW r \in Requests, NEW parent
  PROVE  TreeHolds(CreateTenant(d, r, parent).db) /\ Falls(d, CreateTenant(d, r, parent).db)
<1> DEFINE e == [d EXCEPT !.tenants = Put(@, r, parent)]
<1>1. CreateTenant(d, r, parent).db \in {d, e}
  BY DEF CreateTenant, Raises, Returns
<1>2. e = [n \in Tables |-> e[n]] /\ e.keys = d.keys /\ e.tenants = Put(d.tenants, r, parent)
  BY DEF TreeHolds, Tables
<1>3. /\ Tenants(e) = Tenants(d) \cup {r}
      /\ \A t \in Tenants(d) \ {r} : e.tenants[t] = d.tenants[t]
  BY <1>2 DEF Put, Tenants
<1>4. r \notin DOMAIN Tree
  BY TreeAssumption DEF TreeAssumption
<1> HIDE DEF e
<1>5. TreeHolds(e) /\ Falls(d, e)
  BY <1>2, <1>3, <1>4 DEF TreeHolds, Falls
<1>6. TreeHolds(d) /\ Falls(d, d)
  BY DEF Falls
<1> QED BY <1>1, <1>5, <1>6

\* A new key leaves those there are.
LEMMA IssueFalls ==
  ASSUME NEW d, TreeHolds(d), NEW t, NEW id
  PROVE  TreeHolds(IssueKey(d, t, id).db) /\ Falls(d, IssueKey(d, t, id).db)
<1> DEFINE row == [tenant |-> t, active |-> TRUE]
           e == [d EXCEPT !["keys"] = Put(@, id, row)]
<1>1. IssueKey(d, t, id).db = d \/ (IssueKey(d, t, id).db = e /\ id \notin DOMAIN d.keys)
  BY DEF IssueKey, Insert, Raises, Returns
<1>2. e = [n \in Tables |-> e[n]] /\ e.tenants = d.tenants /\ e.keys = Put(d.keys, id, row)
  BY DEF TreeHolds, Tables, TenantTables
<1>3. /\ Tenants(e) = Tenants(d) /\ DOMAIN e.keys = DOMAIN d.keys \cup {id} /\ e.keys[id] = row
      /\ \A k \in DOMAIN d.keys \ {id} : e.keys[k] = d.keys[k]
  BY <1>2 DEF Put, Tenants
<1>4. row = [tenant |-> row.tenant, active |-> row.active]
  OBVIOUS
<1> HIDE DEF e, row
<1>5. CASE id \notin DOMAIN d.keys
  <2>1. TreeHolds(e)
    BY <1>2, <1>3, <1>4, <1>5 DEF TreeHolds
  <2>2. Falls(d, e)
    BY <1>2, <1>3, <1>5 DEF Falls
  <2> QED BY <1>1, <2>1, <2>2 DEF Falls
<1> QED BY <1>1, <1>5 DEF Falls

\* A revocation leaves a key its tenant, and turns none back on.
LEMMA RevokeFalls ==
  ASSUME NEW d, TreeHolds(d), NEW id
  PROVE  TreeHolds(RevokeKey(d, id).db) /\ Falls(d, RevokeKey(d, id).db)
<1> DEFINE e == [d EXCEPT !.keys[id].active = FALSE]
<1>1. RevokeKey(d, id).db = d \/ (RevokeKey(d, id).db = e /\ id \in DOMAIN d.keys)
  BY DEF RevokeKey, Raises, Returns
<1>2. CASE id \in DOMAIN d.keys
  <2>1. /\ e = [n \in Tables |-> e[n]] /\ e.tenants = d.tenants /\ DOMAIN e.keys = DOMAIN d.keys
        /\ \A k \in DOMAIN d.keys \ {id} : e.keys[k] = d.keys[k]
        /\ e.keys[id] = [d.keys[id] EXCEPT !.active = FALSE]
    BY <1>2 DEF TreeHolds, Tables, TenantTables
  <2>2. d.keys[id] = [tenant |-> d.keys[id].tenant, active |-> d.keys[id].active]
    BY <1>2 DEF TreeHolds
  <2> HIDE DEF e
  <2>3. e.keys[id] = [tenant |-> d.keys[id].tenant, active |-> FALSE]
    BY <2>1, <2>2
  <2>4. TreeHolds(e)
    BY <2>1, <2>3 DEF TreeHolds, Tenants
  <2>5. Falls(d, e)
    BY <2>1, <2>3 DEF Falls, Tenants
  <2> QED BY <1>1, <2>4, <2>5 DEF Falls
<1> QED BY <1>1, <1>2 DEF Falls

\* A deletion takes a tenant's children, and the keys of those it takes only.
LEMMA DeleteFalls ==
  ASSUME NEW d, TreeHolds(d), NEW t
  PROVE  TreeHolds(DeleteTenant(d, t).db) /\ Falls(d, DeleteTenant(d, t).db)
<1> DEFINE ids == Subtree(d, t)
           e == DeleteTenant(d, t).db
<1>1. /\ ids \subseteq Tenants(d)
      /\ \A c \in Tenants(d) : d.tenants[c] \in ids => c \in ids
  BY DEF Subtree
<1> HIDE DEF ids
<1>2. CASE ids = {}
  BY <1>2 DEF DeleteTenant, Returns, Falls, ids
<1>3. CASE ids # {}
  <2>1. /\ e = [n \in Tables |-> e[n]]
        /\ e.tenants = Without(d.tenants, ids)
        /\ e.keys = Without(d.keys, Rows(d.keys, ids))
    BY <1>3 DEF DeleteTenant, Returns, Cascade, Tables, TenantTables, ids
  <2> HIDE DEF e
  <2>2. Tenants(e) = Tenants(d) \ ids /\ \A x \in Tenants(e) : e.tenants[x] = d.tenants[x]
    BY <2>1 DEF Without, Tenants
  <2>3. /\ DOMAIN e.keys = {k \in DOMAIN d.keys : d.keys[k].tenant \notin ids}
        /\ \A k \in DOMAIN e.keys : e.keys[k] = d.keys[k]
    BY <2>1 DEF Without, Rows
  <2>4. TreeHolds(e)
    BY <1>1, <2>1, <2>2, <2>3 DEF TreeHolds
  <2>5. Falls(d, e)
    BY <2>2, <2>3 DEF Falls
  <2> QED BY <2>4, <2>5 DEF e
<1> QED BY <1>2, <1>3

-----------------------------------------------------------------------------
(* What is known of a request q of job j while the vault is d.               *)

Fields == {"pc", "actor", "target", "at", "left", "chain", "root", "plan", "free", "answer"}
Outside == {"sent", "owner"}
Inside ==
  {"granted", "show", "probed", "meter", "bill", "plan", "count", "work", "record", "select"}

\* The walk from a target to its actor has the line below `at`, and goes on above.
Guarding(q) ==
  /\ q.actor # q.target
  /\ q.at \in Line[q.target] /\ q.chain \subseteq Line[q.target]
  /\ q.at \in q.chain \cup {q.target}
  /\ Line[q.target] \subseteq {q.target} \cup q.chain \cup Line[q.at]
  /\ q.left \in Nat \ {0}
  /\ Shallow(q.target) => Cardinality(Line[q.at]) <= q.left + 1

\* The walk to who pays has the top above it.
Climbing(q) ==
  /\ q.at \in Line[q.target]
  /\ \A a \in Line[q.target] : Tree[a] = None => a \in Line[q.at]
  /\ q.left \in Nat \ {0}
  /\ Shallow(q.target) => Cardinality(Line[q.at]) <= q.left + 1

\* A key that was a tenant's goes only with the tenant.
Keyed(q, d, j) ==
  j.op = "revoke" /\ q.target \in Tenants(d) =>
    j.on \in DOMAIN d.keys /\ d.keys[j.on].tenant = q.target

\* BoundaryIsExact for one request.
Answered(q, d, j) ==
  /\ q.actor \notin Line[q.target] => q.answer = 404
  /\ q.answer = 404 /\ q.actor \in Line[q.target] /\ Shallow(q.target) =>
       \/ q.target \notin Tenants(d)
       \/ j.op = "revoke" /\ ~d.keys[j.on].active

\* HeldToThePayer for one request.
Paid(q, d) ==
  q.root # None /\ q.target \in Tenants(d) /\ Shallow(q.target) => q.root = Top(q.target)

\* A request of the tree's tenants, at every place of its handler.
RequestHolds(q, d, j) ==
  /\ q = [x \in Fields |-> q[x]]
  /\ q.pc \in Outside \cup Inside \cup {"guard", "done"}
  /\ q.pc \in Outside => q.target = None /\ q.chain = {} /\ q.root = None
  /\ q.pc = "record" => q.answer \in {0, 502}
  /\ q.target \in DOMAIN Tree =>
       /\ q.pc = "guard" => Guarding(q)
       /\ q.pc = "bill" => Climbing(q)
       /\ q.pc \in Inside => q.actor \in Line[q.target]
       /\ q.pc = "done" => Answered(q, d, j)
       /\ Keyed(q, d, j)
       /\ Paid(q, d)

\* The inductive invariant: the vault's part and each request's.
ApiInv ==
  /\ TreeHolds(db)
  /\ req = [r \in Requests |-> req[r]]
  /\ \A r \in Requests : RequestHolds(req[r], db, scene.ask[r])

\* What a step of request r leaves.
Moves(r) ==
  /\ TreeHolds(db') /\ Falls(db, db') /\ scene' = scene
  /\ req' = [x \in Requests |-> req'[x]]
  /\ \A x \in Requests \ {r} : req'[x] = req[x]
  /\ RequestHolds(req'[r], db', scene.ask[r])

\* What is known of a request survives what the others do to the vault.
LEMMA HoldsOn ==
  ASSUME NEW q, NEW d, NEW e, NEW j, RequestHolds(q, d, j), Falls(d, e)
  PROVE  RequestHolds(q, e, j)
<1>1. CASE q.target \notin DOMAIN Tree
  BY <1>1 DEF RequestHolds
<1>2. CASE q.target \in DOMAIN Tree
  <2>1. Keyed(q, e, j) /\ Paid(q, e)
    BY <1>2 DEF RequestHolds, Keyed, Paid, Falls
  <2>2. Answered(q, d, j) => Answered(q, e, j)
    BY <1>2 DEF RequestHolds, Keyed, Answered, Falls
  <2> QED BY <1>2, <2>1, <2>2 DEF RequestHolds
<1> QED BY <1>1, <1>2

\* Reading leaves the vault.
LEMMA NothingFalls ==
  ASSUME ApiInv, Reads \/ UNCHANGED <<db, scene>>
  PROVE  TreeHolds(db') /\ Falls(db, db') /\ scene' = scene
BY DEF ApiInv, Reads, Falls

\* A step that keeps the invariant for its own request keeps it.
LEMMA MovesKeep == ASSUME ApiInv, NEW r \in Requests, Moves(r) PROVE ApiInv'
<1> SUFFICES ASSUME NEW x \in Requests PROVE RequestHolds(req'[x], db', scene'.ask[x])
  BY DEF ApiInv, Moves
<1>1. CASE x = r
  BY <1>1 DEF Moves
<1>2. CASE x # r
  BY <1>2, HoldsOn DEF ApiInv, Moves
<1> QED BY <1>1, <1>2

\* An answer ends the request; 404 needs a reason.
LEMMA AnswerMoves ==
  ASSUME ApiInv, NEW r \in Requests, NEW code, Answer(r, code),
         TreeHolds(db'), Falls(db, db'), scene' = scene,
         req[r].target \in DOMAIN Tree =>
           /\ req[r].actor \notin Line[req[r].target] => code = 404
           /\ code = 404 /\ req[r].actor \in Line[req[r].target] /\ Shallow(req[r].target) =>
                \/ req[r].target \notin Tenants(db')
                \/ Job(r).op = "revoke" /\ ~db'.keys[Job(r).on].active
  PROVE  Moves(r)
<1>1. RequestHolds(req[r], db', scene.ask[r])
  BY HoldsOn DEF ApiInv
<1>2. /\ req' = [x \in Requests |-> req'[x]] /\ \A x \in Requests \ {r} : req'[x] = req[x]
      /\ req'[r] = [x \in Fields |-> req'[r][x]]
      /\ req'[r].pc = "done" /\ req'[r].answer = code /\ req'[r].actor = req[r].actor
      /\ req'[r].target = req[r].target /\ req'[r].root = req[r].root
  BY DEF Answer, Set, ApiInv, RequestHolds, Fields
<1>3. Answered(req'[r], db', scene.ask[r]) \/ req[r].target \notin DOMAIN Tree
  BY <1>2 DEF Answered, Job
<1>4. RequestHolds(req'[r], db', scene.ask[r])
  BY <1>1, <1>2, <1>3 DEF RequestHolds, Inside, Outside, Keyed, Paid
<1> QED BY <1>2, <1>4 DEF Moves

\* Past the guard, an answer other than 404 is any.
LEMMA InsideAnswers ==
  ASSUME ApiInv, NEW r \in Requests, NEW code, Answer(r, code), code # 404, req[r].pc \in Inside,
         TreeHolds(db'), Falls(db, db'), scene' = scene
  PROVE  Moves(r)
<1>1. req[r].target \in DOMAIN Tree => req[r].actor \in Line[req[r].target]
  BY DEF ApiInv, RequestHolds
<1> QED BY <1>1, AnswerMoves

\* Past the guard, a request goes on.
LEMMA InsideMoves ==
  ASSUME ApiInv, NEW r \in Requests, req[r].pc \in Inside,
         TreeHolds(db'), Falls(db, db'), scene' = scene,
         req' = [x \in Requests |-> req'[x]], \A x \in Requests \ {r} : req'[x] = req[x],
         req'[r] = [x \in Fields |-> req'[r][x]],
         req'[r].pc \in Inside \ {"bill"} \/ (req'[r].pc = "done" /\ req'[r].answer # 404),
         req'[r].pc = "record" => req'[r].answer \in {0, 502},
         req'[r].actor = req[r].actor, req'[r].target = req[r].target, req'[r].root = req[r].root
  PROVE  Moves(r)
<1>1. RequestHolds(req[r], db', scene.ask[r])
  BY HoldsOn DEF ApiInv
<1>2. RequestHolds(req'[r], db', scene.ask[r])
  BY <1>1 DEF RequestHolds, Inside, Outside, Keyed, Paid, Answered
<1> QED BY <1>2 DEF Moves

\* The caller is known: a tenant asks for a target.
LEMMA AsksFor ==
  ASSUME ApiInv, NEW r \in Requests, req[r].pc \in Outside, NEW actor, NEW target,
         Set(r, Guard(actor, target)) \/ (actor = target /\ Set(r, Bill(actor, target))),
         Reads, Job(r).op = "revoke" => target = KeyOwner(db, Job(r).on)
  PROVE  Moves(r)
<1>1. RequestHolds(req[r], db, scene.ask[r])
  BY DEF ApiInv
<1>2. /\ req' = [x \in Requests |-> req'[x]] /\ \A x \in Requests \ {r} : req'[x] = req[x]
      /\ req'[r] = [x \in Fields |-> req'[r][x]]
      /\ req'[r].actor = actor /\ req'[r].target = target /\ req'[r].at = target
      /\ req'[r].left = MaxDepth /\ req'[r].chain = {} /\ req'[r].root = None
      /\ req'[r].pc = IF actor # target THEN "guard"
                      ELSE IF Set(r, Guard(actor, target)) THEN "granted" ELSE "bill"
  BY <1>1 DEF Set, Guard, Bill, ApiInv, RequestHolds, Fields, Outside
<1>3. ASSUME target \in DOMAIN Tree PROVE Guarding(req'[r]) \/ actor = target
  BY <1>2, <1>3, OnLine, ApiAssumption DEF Guarding, Shallow, ApiAssumption
<1>4. ASSUME target \in DOMAIN Tree PROVE Climbing(req'[r])
  BY <1>2, <1>4, OnLine, ApiAssumption DEF Climbing, Shallow, ApiAssumption
<1>5. ASSUME target \in DOMAIN Tree PROVE Keyed(req'[r], db, scene.ask[r])
  BY <1>2, <1>5, TreeAssumption DEF Keyed, KeyOwner, Job, TreeAssumption
<1>6. RequestHolds(req'[r], db, scene.ask[r])
  BY <1>1, <1>2, <1>3, <1>4, <1>5, OnLine DEF RequestHolds, Inside, Outside, Paid
<1>7. db' = db
  BY DEF Reads
<1> QED BY <1>2, <1>6, <1>7, NothingFalls DEF Moves

\* Authentication knows the caller, and asks for what it names.
LEMMA AuthenticateMoves == ASSUME ApiInv, NEW r \in Requests, Authenticate(r) PROVE Moves(r)
<1> DEFINE t == TenantForKey(db, Job(r).key)
<1>1. RequestHolds(req[r], db, scene.ask[r]) /\ req[r].pc = "sent" /\ Reads
  BY DEF ApiInv, Authenticate
<1>2. req[r].target = None /\ None \notin DOMAIN Tree
  BY <1>1, TreeAssumption DEF RequestHolds, Outside, TreeAssumption
<1>3. CASE Answer(r, 401)
  BY <1>1, <1>2, <1>3, NothingFalls, AnswerMoves
<1>4. CASE /\ Job(r).op # "revoke"
           /\ Set(r, Bill(t, t)) \/ Set(r, Guard(t, t)) \/ Set(r, Guard(t, Job(r).on))
  <2> HIDE DEF t
  <2> QED BY <1>1, <1>4, AsksFor DEF Outside
<1>5. CASE Set(r, [actor |-> t, pc |-> "owner"])
  <2> HIDE DEF t
  <2>1. /\ req' = [x \in Requests |-> req'[x]] /\ \A x \in Requests \ {r} : req'[x] = req[x]
        /\ req'[r] = [x \in Fields |-> req'[r][x]]
        /\ req'[r].pc = "owner" /\ req'[r].target = req[r].target
        /\ req'[r].chain = req[r].chain /\ req'[r].root = req[r].root
    BY <1>5 DEF Set, ApiInv, RequestHolds, Fields
  <2>2. RequestHolds(req'[r], db, scene.ask[r])
    BY <1>1, <1>2, <2>1 DEF RequestHolds, Outside
  <2> QED BY <1>1, <2>1, <2>2, NothingFalls DEF Moves, Reads
<1>6. Calls \cap {"revoke"} = {}
  BY DEF Calls
<1> QED BY <1>1, <1>3, <1>4, <1>5, <1>6 DEF Authenticate

\* The owner of a key becomes the target.
LEMMA FindOwnerMoves == ASSUME ApiInv, NEW r \in Requests, FindOwner(r) PROVE Moves(r)
<1>1. RequestHolds(req[r], db, scene.ask[r]) /\ req[r].pc = "owner" /\ Reads
  BY DEF ApiInv, FindOwner
<1>2. req[r].target = None /\ None \notin DOMAIN Tree
  BY <1>1, TreeAssumption DEF RequestHolds, Outside, TreeAssumption
<1>3. CASE Answer(r, 404)
  BY <1>1, <1>2, <1>3, NothingFalls, AnswerMoves
<1>4. CASE Set(r, Guard(req[r].actor, KeyOwner(db, Job(r).on)))
  BY <1>1, <1>4, AsksFor DEF Outside
<1> QED BY <1>3, <1>4 DEF FindOwner

\* A parent as the walks read it.
LEMMA ParentIs ==
  ASSUME ApiInv, NEW t \in DOMAIN Tree
  PROVE  /\ t \in Tenants(db) => Parent(t) = Tree[t]
         /\ t \notin Tenants(db) => Parent(t) = None
BY DEF ApiInv, TreeHolds, Parent

\* A grant sets the chain, and a level up where the walk is.
LEMMA GrantSets ==
  ASSUME ApiInv, NEW r \in Requests, NEW chain, Set(r, [pc |-> "granted", chain |-> chain])
  PROVE  /\ req' = [x \in Requests |-> req'[x]] /\ \A x \in Requests \ {r} : req'[x] = req[x]
         /\ req'[r] = [x \in Fields |-> req'[r][x]]
         /\ req'[r].pc = "granted" /\ req'[r].actor = req[r].actor
         /\ req'[r].target = req[r].target /\ req'[r].root = req[r].root
BY DEF Set, ApiInv, RequestHolds, Fields

\* The same, of a level up.
LEMMA GuardSets ==
  ASSUME ApiInv, NEW r \in Requests, NEW at, NEW left, NEW chain,
         Set(r, [at |-> at, left |-> left, chain |-> chain])
  PROVE  /\ req' = [x \in Requests |-> req'[x]] /\ \A x \in Requests \ {r} : req'[x] = req[x]
         /\ req'[r] = [x \in Fields |-> req'[r][x]]
         /\ req'[r].pc = req[r].pc /\ req'[r].actor = req[r].actor /\ req'[r].at = at
         /\ req'[r].left = left /\ req'[r].chain = chain
         /\ req'[r].target = req[r].target /\ req'[r].root = req[r].root
BY DEF Set, ApiInv, RequestHolds, Fields

\* A read of the guard's walk: the actor is met, or there is no more line to read.
LEMMA GuardWalkMoves == ASSUME ApiInv, NEW r \in Requests, GuardWalk(r) PROVE Moves(r)
<1> DEFINE q == req[r]
           t == q.target
           up == Parent(q.at)
           chain == q.chain \cup ({up} \ {None})
<1>1. RequestHolds(q, db, scene.ask[r]) /\ q.pc = "guard" /\ Reads /\ db' = db
  BY DEF ApiInv, GuardWalk, Reads
<1>2. t \in DOMAIN Tree => Guarding(q) /\ q.at \in DOMAIN Tree /\ q.left \in Nat \ {0}
  BY <1>1, OnLine DEF RequestHolds, Guarding
<1>3. t \in DOMAIN Tree => up = None \/ up = Tree[q.at]
  BY <1>2, ParentIs
\* The chain goes on up the target's line.
<1>4. t \in DOMAIN Tree => chain \subseteq Line[t]
  BY <1>2, <1>3, LineClimbs DEF Guarding
<1>5. CASE q.actor \in chain /\ Set(r, [pc |-> "granted", chain |-> chain])
  <2> HIDE DEF up, chain
  <2>1. /\ req' = [x \in Requests |-> req'[x]] /\ \A x \in Requests \ {r} : req'[x] = req[x]
        /\ req'[r] = [x \in Fields |-> req'[r][x]]
        /\ req'[r].pc = "granted" /\ req'[r].actor = q.actor
        /\ req'[r].target = q.target /\ req'[r].root = q.root
    BY <1>1, <1>5, GrantSets
  <2> HIDE DEF q, t
  <2>2. t \in DOMAIN Tree => q.actor \in Line[t]
    BY <1>4, <1>5
  <2>3. RequestHolds(req'[r], db, scene.ask[r])
    BY <1>1, <2>1, <2>2 DEF RequestHolds, Inside, Outside, Keyed, Paid, t
  <2> QED BY <1>1, <2>1, <2>3, NothingFalls DEF Moves, Reads
\* Refused: had the actor been on the line, the walk would have met it.
<1>6. CASE q.actor \notin chain /\ Answer(r, 404) /\ (up = None \/ q.left = 1)
  <2>1. ASSUME t \in DOMAIN Tree, q.actor \in Line[t], Shallow(t), t \in Tenants(db) PROVE FALSE
    <3>1. q.at \in Line[t] /\ Line[t] \subseteq Tenants(db)
      BY <1>2, <2>1, LineStays DEF Guarding, ApiInv
    <3>2. up = Tree[q.at] /\ q.at \in DOMAIN Tree
      <4>1. q.at \in DOMAIN Tree /\ q.at \in Tenants(db)
        BY <1>2, <2>1, <3>1
      <4> QED BY <4>1, ParentIs
    <3>3. q.actor \in Line[q.at] \ {q.at}
      BY <1>2, <1>6, <2>1 DEF Guarding
    <3>4. Tree[q.at] # None
      BY <3>2, <3>3, LineEnds
    <3>5. q.left = 1 /\ Cardinality(Line[q.at]) <= 2
      BY <1>2, <1>6, <2>1, <3>2, <3>4 DEF Guarding
    <3>6. Line[q.at] = {q.at, Tree[q.at]}
      <4>1. Tree[q.at] \in DOMAIN Tree /\ Tree[Tree[q.at]] = None
        BY <1>2, <2>1, <3>4, <3>5, LineUp, LastStep
      <4>2. Line[Tree[q.at]] = {Tree[q.at]}
        BY <4>1, LineEnds
      <4> QED BY <1>2, <2>1, <3>4, <4>2, LineUp
    <3> QED BY <1>6, <3>2, <3>3, <3>4, <3>6
  <2>2. TreeHolds(db') /\ Falls(db, db') /\ scene' = scene
    BY <1>1, NothingFalls
  <2> QED BY <1>1, <1>6, <2>1, <2>2, AnswerMoves
\* One level up.
<1>7. CASE up # None /\ q.left # 1 /\ Set(r, [at |-> up, left |-> q.left - 1, chain |-> chain])
  <2> HIDE DEF up, chain
  <2>1. /\ req' = [x \in Requests |-> req'[x]] /\ \A x \in Requests \ {r} : req'[x] = req[x]
        /\ req'[r] = [x \in Fields |-> req'[r][x]]
        /\ req'[r].pc = "guard" /\ req'[r].actor = q.actor /\ req'[r].at = up
        /\ req'[r].left = q.left - 1 /\ req'[r].chain = chain
        /\ req'[r].target = q.target /\ req'[r].root = q.root
    BY <1>1, <1>7, GuardSets
  <2>2. ASSUME t \in DOMAIN Tree PROVE Guarding(req'[r])
    <3>1. up = Tree[q.at] /\ Tree[q.at] # None
      BY <1>3, <1>7, <2>2
    <3>2. /\ Line[q.at] = {q.at} \cup Line[up] /\ up \in Line[t]
          /\ Cardinality(Line[up]) = Cardinality(Line[q.at]) - 1
          /\ Cardinality(Line[q.at]) \in Nat
      BY <1>2, <2>2, <3>1, LineUp, LineClimbs, LineCounts DEF Guarding
    <3>3. chain = q.chain \cup {up}
      BY <1>7 DEF chain
    <3>4. Line[t] \subseteq {t} \cup chain \cup Line[up]
      BY <1>2, <2>2, <3>2, <3>3 DEF Guarding
    <3>5. Shallow(t) => Cardinality(Line[up]) <= q.left - 1 + 1
      BY <1>2, <2>2, <3>2 DEF Guarding
    <3> QED BY <1>2, <1>4, <1>7, <2>1, <2>2, <3>2, <3>3, <3>4, <3>5 DEF Guarding
  <2> HIDE DEF q
  <2>3. RequestHolds(req'[r], db, scene.ask[r])
    BY <1>1, <2>1, <2>2 DEF RequestHolds, Inside, Outside, Keyed, Paid
  <2> QED BY <1>1, <2>1, <2>3, NothingFalls DEF Moves, Reads
<1> QED BY <1>5, <1>6, <1>7 DEF GuardWalk

\* A level up, the request has the rest as it was.
LEMMA LevelSets ==
  ASSUME ApiInv, NEW r \in Requests, NEW at, NEW left, Set(r, [at |-> at, left |-> left])
  PROVE  /\ req' = [x \in Requests |-> req'[x]] /\ \A x \in Requests \ {r} : req'[x] = req[x]
         /\ req'[r] = [x \in Fields |-> req'[r][x]]
         /\ req'[r].pc = req[r].pc /\ req'[r].actor = req[r].actor /\ req'[r].at = at
         /\ req'[r].left = left /\ req'[r].target = req[r].target /\ req'[r].root = req[r].root
BY DEF Set, ApiInv, RequestHolds, Fields

\* A read of the walk to who pays.
LEMMA BillWalkMoves == ASSUME ApiInv, NEW r \in Requests, BillWalk(r) PROVE Moves(r)
<1> DEFINE q == req[r]
           t == q.target
           up == Parent(q.at)
<1>1. RequestHolds(q, db, scene.ask[r]) /\ q.pc = "bill" /\ Reads /\ db' = db
  BY DEF ApiInv, BillWalk, Reads
<1>2. t \in DOMAIN Tree =>
        Climbing(q) /\ q.at \in DOMAIN Tree /\ q.left \in Nat \ {0} /\ q.actor \in Line[t]
  BY <1>1, OnLine DEF RequestHolds, Climbing, Inside
<1>3. t \in DOMAIN Tree => up = None \/ up = Tree[q.at]
  BY <1>2, ParentIs
<1>4. ASSUME NEW root, Set(r, [pc |-> "plan", root |-> root]),
             t \in DOMAIN Tree /\ t \in Tenants(db) /\ Shallow(t) => root = Top(t)
      PROVE  Moves(r)
  <2>1. /\ req' = [x \in Requests |-> req'[x]] /\ \A x \in Requests \ {r} : req'[x] = req[x]
        /\ req'[r] = [x \in Fields |-> req'[r][x]]
        /\ req'[r].pc = "plan" /\ req'[r].actor = q.actor
        /\ req'[r].target = q.target /\ req'[r].root = root
    <3>1. Set(r, [pc |-> "plan", root |-> root])
      BY <1>4
    <3> QED BY <3>1 DEF Set, ApiInv, RequestHolds, Fields
  <2> HIDE DEF q
  <2>2. t \in DOMAIN Tree => Paid(req'[r], db)
    BY <1>4, <2>1 DEF Paid
  <2>3. RequestHolds(req'[r], db, scene.ask[r])
    BY <1>1, <1>2, <2>1, <2>2 DEF RequestHolds, Inside, Outside, Keyed
  <2> QED BY <1>1, <2>1, <2>3, NothingFalls DEF Moves, Reads
\* A tenant that is there has its line there: the walk ends at the top.
<1>5. ASSUME t \in DOMAIN Tree, t \in Tenants(db) PROVE up = Tree[q.at]
  <2>1. q.at \in Tenants(db)
    BY <1>2, <1>5, LineStays DEF Climbing, ApiInv
  <2> QED BY <1>2, <1>5, <2>1, ParentIs
<1>6. ASSUME t \in DOMAIN Tree, NEW a \in Line[t], Tree[a] = None,
             \A b \in Line[t] : Tree[b] = None => b = a
      PROVE  a = Top(t)
  BY <1>6 DEF Top
<1>7. CASE up = None /\ Set(r, [pc |-> "plan", root |-> q.at])
  <2>1. ASSUME t \in DOMAIN Tree, t \in Tenants(db) PROVE q.at = Top(t)
    <3>1. Tree[q.at] = None /\ Line[q.at] = {q.at}
      BY <1>2, <1>5, <1>7, <2>1, LineEnds
    <3> HIDE DEF q
    <3> QED BY <1>2, <1>6, <2>1, <3>1 DEF Climbing
  <2> QED BY <1>4, <1>7, <2>1
<1>8. CASE up # None /\ q.left = 1 /\ Set(r, [pc |-> "plan", root |-> up])
  <2>1. ASSUME t \in DOMAIN Tree, t \in Tenants(db), Shallow(t) PROVE up = Top(t)
    <3>1. up = Tree[q.at] /\ Tree[q.at] # None /\ Cardinality(Line[q.at]) <= 2
      BY <1>2, <1>5, <1>8, <2>1 DEF Climbing
    <3>2. /\ up \in DOMAIN Tree /\ up \in Line[t] /\ Tree[up] = None
          /\ Line[q.at] = {q.at} \cup Line[up]
      BY <1>2, <2>1, <3>1, LastStep, LineUp, LineClimbs DEF Climbing
    <3>3. Line[up] = {up}
      BY <3>2, LineEnds
    <3> HIDE DEF q, up
    <3>4. \A b \in Line[t] : Tree[b] = None => b = up
      BY <1>2, <2>1, <3>1, <3>2, <3>3 DEF Climbing
    <3> QED BY <1>6, <2>1, <3>2, <3>4
  <2> QED BY <1>4, <1>8, <2>1
<1>9. CASE up # None /\ q.left # 1 /\ Set(r, [at |-> up, left |-> q.left - 1])
  <2> HIDE DEF up
  <2>1. /\ req' = [x \in Requests |-> req'[x]] /\ \A x \in Requests \ {r} : req'[x] = req[x]
        /\ req'[r] = [x \in Fields |-> req'[r][x]]
        /\ req'[r].pc = "bill" /\ req'[r].actor = q.actor /\ req'[r].at = up
        /\ req'[r].left = q.left - 1 /\ req'[r].target = q.target /\ req'[r].root = q.root
    BY <1>1, <1>9, LevelSets
  <2>2. ASSUME t \in DOMAIN Tree PROVE Climbing(req'[r])
    <3>1. up = Tree[q.at] /\ Tree[q.at] # None
      BY <1>3, <1>9, <2>2
    <3>2. /\ Line[q.at] = {q.at} \cup Line[up] /\ up \in Line[t]
          /\ Cardinality(Line[up]) = Cardinality(Line[q.at]) - 1
          /\ Cardinality(Line[q.at]) \in Nat
      BY <1>2, <2>2, <3>1, LineUp, LineClimbs, LineCounts DEF Climbing
    <3>3. \A a \in Line[t] : Tree[a] = None => a \in Line[up]
      BY <1>2, <2>2, <3>1, <3>2 DEF Climbing
    <3> QED BY <1>2, <1>9, <2>1, <2>2, <3>2, <3>3 DEF Climbing
  <2> HIDE DEF q
  <2>3. RequestHolds(req'[r], db, scene.ask[r])
    BY <1>1, <1>2, <2>1, <2>2 DEF RequestHolds, Inside, Outside, Keyed, Paid
  <2> QED BY <1>1, <2>1, <2>3, NothingFalls DEF Moves, Reads
<1> QED BY <1>7, <1>8, <1>9 DEF BillWalk

\* The routes that change the subtree.
LEMMA WriteMoves ==
  ASSUME ApiInv, NEW r \in Requests,
         CreateChild(r) \/ IssueApiKey(r) \/ RevokeApiKey(r) \/ SaveCredential(r)
  PROVE  Moves(r)
<1>1. req[r].pc = "granted" /\ "granted" \in Inside /\ TreeHolds(db)
  BY DEF CreateChild, IssueApiKey, RevokeApiKey, SaveCredential, Here, Inside, ApiInv
<1>2. CASE CreateChild(r)
  <2> DEFINE made == CreateTenant(db, r, req[r].actor)
  <2>1. TreeHolds(made.db) /\ Falls(db, made.db)
    BY <1>1, CreateFalls
  <2> HIDE DEF made
  <2>2. db' = made.db /\ scene' = scene /\ \E code \in {500, 201} : Answer(r, code)
    BY <1>2 DEF CreateChild, Writes, made
  <2> QED BY <1>1, <2>1, <2>2, InsideAnswers
<1>3. CASE IssueApiKey(r)
  <2> DEFINE made == IssueKey(db, req[r].target, r)
  <2>1. TreeHolds(made.db) /\ Falls(db, made.db)
    BY <1>1, IssueFalls
  <2> HIDE DEF made
  <2>2. db' = made.db /\ scene' = scene /\ \E code \in {500, 201} : Answer(r, code)
    BY <1>3 DEF IssueApiKey, Writes, made
  <2> QED BY <1>1, <2>1, <2>2, InsideAnswers
<1>4. CASE SaveCredential(r)
  <2> DEFINE made == PutCredential(db, req[r].target, "secret", r)
  <2>1. TreeHolds(made.db) /\ Falls(db, made.db)
    BY <1>1, UpsertFalls DEF PutCredential, Tables, TenantTables
  <2> HIDE DEF made
  <2>2. CASE Answer(r, 400) /\ Reads
    BY <1>1, <2>2, NothingFalls, InsideAnswers
  <2>3. CASE db' = made.db /\ scene' = scene /\ \E code \in {500, 204} : Answer(r, code)
    BY <1>1, <2>1, <2>3, InsideAnswers
  <2> QED BY <1>4, <2>2, <2>3 DEF SaveCredential, Writes, made
\* No key was updated: it was revoked, or it went with its tenant.
<1>5. CASE RevokeApiKey(r)
  <2> DEFINE made == RevokeKey(db, Job(r).on)
             k == Job(r).on
  <2>1. TreeHolds(made.db) /\ Falls(db, made.db)
    BY <1>1, RevokeFalls
  <2>2. Failed(made) => made.db = db /\ ~(k \in DOMAIN db.keys /\ db.keys[k].active)
    BY DEF RevokeKey, Failed, Raises, Returns
  <2> HIDE DEF made
  <2>3. db' = made.db /\ scene' = scene /\ Job(r).op = "revoke"
        /\ \/ Answer(r, 204)
           \/ Answer(r, 404) /\ Failed(made)
    BY <1>5 DEF RevokeApiKey, Writes, Here, made
  <2>4. CASE Answer(r, 204)
    BY <1>1, <2>1, <2>3, <2>4, InsideAnswers
  <2>5. CASE Answer(r, 404) /\ Failed(made)
    <3>1. req[r].target \in DOMAIN Tree =>
            Keyed(req[r], db, Job(r)) /\ req[r].actor \in Line[req[r].target]
      BY <1>1 DEF ApiInv, RequestHolds, Job
    <3>2. req[r].target \in DOMAIN Tree =>
            req[r].target \notin Tenants(db') \/ ~db'.keys[k].active
      BY <2>2, <2>3, <2>5, <3>1 DEF Keyed
    <3> QED BY <2>1, <2>3, <2>5, <3>1, <3>2, AnswerMoves
  <2> QED BY <2>3, <2>4, <2>5
<1> QED BY <1>2, <1>3, <1>4, <1>5

\* What a walk to who pays starts from.
LEMMA BillSets ==
  ASSUME ApiInv, NEW r \in Requests, NEW a, NEW t, Set(r, Bill(a, t))
  PROVE  /\ req' = [x \in Requests |-> req'[x]] /\ \A x \in Requests \ {r} : req'[x] = req[x]
         /\ req'[r] = [x \in Fields |-> req'[r][x]]
         /\ req'[r].pc = "bill" /\ req'[r].actor = a /\ req'[r].at = t
         /\ req'[r].left = MaxDepth
         /\ req'[r].target = t /\ req'[r].root = req[r].root
BY DEF Set, Bill, ApiInv, RequestHolds, Fields

\* Reads of one tenant: 404 when it is gone.
LEMMA FindTargetMoves == ASSUME ApiInv, NEW r \in Requests, FindTarget(r) PROVE Moves(r)
<1>1. /\ req[r].pc = "granted" /\ req[r].pc \in Inside /\ Reads
      /\ RequestHolds(req[r], db, scene.ask[r]) /\ db' = db
  BY DEF FindTarget, Here, Inside, ApiInv, Reads
<1>2. CASE req[r].target \notin Tenants(db) /\ Answer(r, 404)
  <2>1. req[r].target \in DOMAIN Tree => req[r].actor \in Line[req[r].target]
    BY <1>1 DEF RequestHolds
  <2> QED BY <1>1, <1>2, <2>1, NothingFalls, AnswerMoves
<1>3. CASE Set(r, [pc |-> "show"])
  <2>1. /\ req' = [x \in Requests |-> req'[x]] /\ \A x \in Requests \ {r} : req'[x] = req[x]
        /\ req'[r] = [x \in Fields |-> req'[r][x]]
        /\ req'[r].pc = "show" /\ req'[r].actor = req[r].actor
        /\ req'[r].target = req[r].target /\ req'[r].root = req[r].root
    BY <1>3 DEF Set, ApiInv, RequestHolds, Fields
  <2> QED BY <1>1, <2>1, NothingFalls, InsideMoves DEF Inside
<1>4. CASE Set(r, Bill(req[r].actor, req[r].target))
  <2> DEFINE t == req[r].target
  <2>1. /\ req' = [x \in Requests |-> req'[x]] /\ \A x \in Requests \ {r} : req'[x] = req[x]
        /\ req'[r] = [x \in Fields |-> req'[r][x]]
        /\ req'[r].pc = "bill" /\ req'[r].actor = req[r].actor /\ req'[r].at = t
        /\ req'[r].left = MaxDepth
        /\ req'[r].target = t /\ req'[r].root = req[r].root
    BY <1>4, BillSets
  <2> HIDE DEF t
  <2>2. t \in DOMAIN Tree => Climbing(req'[r])
    BY <2>1, OnLine, ApiAssumption DEF Climbing, Shallow, ApiAssumption
  <2>3. RequestHolds(req'[r], db, scene.ask[r])
    BY <1>1, <2>1, <2>2 DEF RequestHolds, Inside, Outside, Keyed, Paid, t
  <2> QED BY <1>1, <2>1, <2>3, NothingFalls DEF Moves
<1> QED BY <1>2, <1>3, <1>4 DEF FindTarget

\* A request that sets no more than its place stays inside.
LEMMA GoesTo ==
  ASSUME ApiInv, NEW r \in Requests, req[r].pc \in Inside, NEW pc \in Inside \ {"bill", "record"},
         Set(r, [pc |-> pc]), TreeHolds(db'), Falls(db, db'), scene' = scene
  PROVE  Moves(r)
<1>1. /\ req' = [x \in Requests |-> req'[x]] /\ \A x \in Requests \ {r} : req'[x] = req[x]
      /\ req'[r] = [x \in Fields |-> req'[r][x]]
      /\ req'[r].pc = pc /\ req'[r].actor = req[r].actor
      /\ req'[r].target = req[r].target /\ req'[r].root = req[r].root
  BY DEF Set, ApiInv, RequestHolds, Fields
<1> QED BY <1>1, InsideMoves

\* The steps past the guard that change nothing in the vault.
LEMMA ReadMoves ==
  ASSUME ApiInv, NEW r \in Requests,
         Show(r) \/ Probe(r) \/ MeterTest(r) \/ ReadPlan(r) \/ Gate(r)
           \/ CallOperation(r) \/ Reconcile(r) \/ RunQuery(r) \/ Select(r)
  PROVE  Moves(r)
<1>1. req[r].pc \in Inside /\ UNCHANGED <<db, scene>>
  BY DEF Reads, Show, Probe, MeterTest, ReadPlan, Gate, CallOperation, Reconcile, RunQuery, Select,
         Here, Inside
<1>2. TreeHolds(db') /\ Falls(db, db') /\ scene' = scene
  BY <1>1, NothingFalls
<1>3. CASE \E code \in {200, 400, 401, 402, 429, 502} : Answer(r, code)
  BY <1>1, <1>2, <1>3, InsideAnswers
<1>4. CASE \E pc \in {"probed", "meter", "show", "work"} : Set(r, [pc |-> pc])
  BY <1>1, <1>2, <1>4, GoesTo DEF Inside
<1>5. ASSUME NEW plan, Set(r, [pc |-> "count", plan |-> plan]) PROVE Moves(r)
  <2>1. /\ req' = [x \in Requests |-> req'[x]] /\ \A x \in Requests \ {r} : req'[x] = req[x]
        /\ req'[r] = [x \in Fields |-> req'[r][x]]
        /\ req'[r].pc = "count" /\ req'[r].actor = req[r].actor
        /\ req'[r].target = req[r].target /\ req'[r].root = req[r].root
    BY <1>5 DEF Set, ApiInv, RequestHolds, Fields
  <2> QED BY <1>1, <1>2, <2>1, InsideMoves DEF Inside
<1>6. ASSUME NEW free, Set(r, [pc |-> "select", free |-> free]) PROVE Moves(r)
  <2>1. /\ req' = [x \in Requests |-> req'[x]] /\ \A x \in Requests \ {r} : req'[x] = req[x]
        /\ req'[r] = [x \in Fields |-> req'[r][x]]
        /\ req'[r].pc = "select" /\ req'[r].actor = req[r].actor
        /\ req'[r].target = req[r].target /\ req'[r].root = req[r].root
    BY <1>6 DEF Set, ApiInv, RequestHolds, Fields
  <2> QED BY <1>1, <1>2, <2>1, InsideMoves DEF Inside
<1>7. ASSUME NEW answer \in {0, 502}, Set(r, [pc |-> "record", answer |-> answer]) PROVE Moves(r)
  <2>1. /\ req' = [x \in Requests |-> req'[x]] /\ \A x \in Requests \ {r} : req'[x] = req[x]
        /\ req'[r] = [x \in Fields |-> req'[r][x]]
        /\ req'[r].pc = "record" /\ req'[r].answer = answer /\ req'[r].actor = req[r].actor
        /\ req'[r].target = req[r].target /\ req'[r].root = req[r].root
    BY <1>7 DEF Set, ApiInv, RequestHolds, Fields
  <2> QED BY <1>1, <1>2, <2>1, InsideMoves DEF Inside
<1>8. CASE Show(r) \/ Probe(r) \/ MeterTest(r)
  BY <1>3, <1>4, <1>8 DEF Show, Probe, MeterTest
<1>9. CASE ReadPlan(r) \/ Gate(r)
  BY <1>3, <1>4, <1>5, <1>9 DEF ReadPlan, Gate
<1>10. CASE CallOperation(r) \/ Select(r)
  BY <1>3, <1>4, <1>10 DEF CallOperation, Select
<1>11. CASE Reconcile(r) \/ RunQuery(r)
  <2>1. \/ Answer(r, 400)
        \/ \E answer \in {0, 502} : Set(r, [pc |-> "record", answer |-> answer])
        \/ \E free \in BOOLEAN : Set(r, [pc |-> "select", free |-> free])
    BY <1>11 DEF Reconcile, RunQuery
  <2>2. CASE Answer(r, 400)
    BY <1>3, <2>2
  <2>3. CASE \E answer \in {0, 502} : Set(r, [pc |-> "record", answer |-> answer])
    BY <1>7, <2>3
  <2>4. CASE \E free \in BOOLEAN : Set(r, [pc |-> "select", free |-> free])
    BY <1>6, <2>4
  <2> QED BY <2>1, <2>2, <2>3, <2>4
<1> QED BY <1>8, <1>9, <1>10, <1>11

\* The steps that count and record, whether or not the vault takes it.
LEMMA CountMoves ==
  ASSUME ApiInv, NEW r \in Requests, RecordRun(r) \/ Meter(r) PROVE Moves(r)
<1>1. req[r].pc \in Inside /\ scene' = scene /\ TreeHolds(db) /\ Falls(db, db)
  BY DEF RecordRun, Meter, Writes, Inside, ApiInv, Falls
<1>2. CASE Meter(r)
  <2> DEFINE e == RecordRequest(db, req[r].target, month).db
  <2>1. TreeHolds(e) /\ Falls(db, e)
    BY <1>1, UpsertFalls DEF RecordRequest, Tables, TenantTables
  <2> HIDE DEF e
  <2>2. db' \in {db, e} /\ Answer(r, 200)
    BY <1>2 DEF Meter, Writes, e
  <2> QED BY <1>1, <2>1, <2>2, InsideAnswers
<1>3. CASE RecordRun(r)
  <2> DEFINE e == AddRun(db, req[r].target, r, "rails", month).db
  <2>1. TreeHolds(e) /\ Falls(db, e)
    BY <1>1, AddRunFalls
  <2> HIDE DEF e
  <2>2. db' \in {db, e}
    BY <1>3 DEF RecordRun, Writes, e
  <2>3. CASE req[r].answer = 502 /\ Set(r, [pc |-> "done"])
    <3>1. /\ req' = [x \in Requests |-> req'[x]] /\ \A x \in Requests \ {r} : req'[x] = req[x]
          /\ req'[r] = [x \in Fields |-> req'[r][x]]
          /\ req'[r].pc = "done" /\ req'[r].answer = req[r].answer /\ req'[r].actor = req[r].actor
          /\ req'[r].target = req[r].target /\ req'[r].root = req[r].root
      BY <2>3 DEF Set, ApiInv, RequestHolds, Fields
    <3> QED BY <1>1, <2>1, <2>2, <2>3, <3>1, InsideMoves
  <2>4. CASE \E pc \in {"select", "meter"} : Set(r, [pc |-> pc])
    BY <1>1, <2>1, <2>2, <2>4, GoesTo DEF Inside
  <2> QED BY <1>3, <2>3, <2>4 DEF RecordRun
<1> QED BY <1>2, <1>3

\* No request's step: the vault falls and the requests stay.
LEMMA OthersKeep ==
  ASSUME ApiInv, TreeHolds(db'), Falls(db, db'), scene' = scene, req' = req
  PROVE  ApiInv'
BY HoldsOn DEF ApiInv

\* Every step keeps ApiInv, one case per action.
LEMMA ApiStep == ApiInv /\ [Next]_vars => ApiInv'
<1> SUFFICES ASSUME ApiInv, [Next]_vars PROVE ApiInv'
  OBVIOUS
<1>1. TreeHolds(db)
  BY DEF ApiInv
<1>2. ASSUME NEW r \in Requests, Handle(r) PROVE ApiInv'
  <2>1. Moves(r)
    BY <1>2, AuthenticateMoves, FindOwnerMoves, GuardWalkMoves, BillWalkMoves, WriteMoves,
       FindTargetMoves, ReadMoves, CountMoves DEF Handle
  <2> QED BY <2>1, MovesKeep
<1>3. ASSUME NEW t, Delete(t) PROVE ApiInv'
  BY <1>1, <1>3, DeleteFalls, OthersKeep DEF Delete
<1>4. ASSUME NEW t, NEW p, ChangePlan(t, p) PROVE ApiInv'
  <2> DEFINE e == SetPlan(db, t, p).db
  <2>1. TreeHolds(e) /\ Falls(db, e)
    BY <1>1, UpsertFalls DEF SetPlan, Raises, Falls, Tables, TenantTables
  <2> HIDE DEF e
  <2> QED BY <1>4, <2>1, OthersKeep DEF ChangePlan, e
<1>5. CASE NextMonth \/ UNCHANGED vars
  BY <1>1, <1>5, OthersKeep DEF NextMonth, vars, Falls
<1> QED BY <1>2, <1>3, <1>4, <1>5 DEF Next

\* At the start every request is still to be sent, and the vault holds the tree.
LEMMA ApiInit == Init => ApiInv
<1> SUFFICES ASSUME Init PROVE ApiInv
  OBVIOUS
<1>1. TreeHolds(db)
  <2>1. /\ db = [n \in Tables |-> db[n]] /\ db.tenants = Tree
        /\ db.keys = [k \in DOMAIN Keys |-> [tenant |-> Keys[k], active |-> TRUE]]
    BY DEF Init, NewDatabase, Tables, TenantTables
  <2> QED BY <2>1, TreeAssumption DEF TreeHolds, Tenants, TreeAssumption
<1>2. ASSUME NEW r \in Requests PROVE RequestHolds(req[r], db, scene.ask[r])
  BY <1>2, TreeAssumption DEF Init, Fresh, RequestHolds, Fields, Outside, TreeAssumption
<1>3. req = [r \in Requests |-> req[r]]
  BY DEF Init
<1> QED BY <1>1, <1>2, <1>3 DEF ApiInv

\* "A tenant may act on itself and its descendants, nothing else": outside its
\* subtree every answer is 404, and inside it 404 means that the target or the
\* key is gone, whichever requests and deletions fall between the guard's reads.
THEOREM BoundaryHolds == Spec => []BoundaryIsExact
<1>1. ApiInv => BoundaryIsExact
  BY DEF ApiInv, RequestHolds, Answered, BoundaryIsExact, Job
<1> QED BY <1>1, ApiInit, ApiStep, PTL DEF Spec

\* "The subtree shares one allowance, because the ISV is the customer": the
\* gate reads the plan of the top of the target's tree, whatever goes meanwhile.
THEOREM PayerIsTheTop == Spec => []HeldToThePayer
<1>1. ApiInv => HeldToThePayer
  BY DEF ApiInv, RequestHolds, Paid, HeldToThePayer
<1> QED BY <1>1, ApiInit, ApiStep, PTL DEF Spec

-----------------------------------------------------------------------------
(* What a tree has used, request by request.                                 *)

\* The requests counted on the tenants of T since a month.
Spent(d, T, since) ==
  Counted({<<k[1], k[2], d.usage[k].requests>> :
             k \in {k \in Where(d, "usage", T) : k[2] >= since}})

\* A counter is a tenant's, of a month.
Metered(d) ==
  /\ IsFiniteSet(DOMAIN d.usage)
  /\ \A k \in DOMAIN d.usage :
       /\ k = <<k[1], k[2]>> /\ k[2] \in Nat
       /\ d.usage[k] = [tenant |-> k[1], requests |-> d.usage[k].requests]
       /\ d.usage[k].requests \in Nat

\* Counters go, and those that stay read the same.
Thins(d, e) ==
  DOMAIN e.usage \subseteq DOMAIN d.usage /\ \A k \in DOMAIN e.usage : e.usage[k] = d.usage[k]

\* A request counted is one of a counter's.
LEMMA SpentIs ==
  ASSUME NEW d, NEW T, NEW since, NEW u
  PROVE  u \in Spent(d, T, since) <=>
           \E k \in DOMAIN d.usage : /\ d.usage[k].tenant \in T /\ k[2] >= since
                                     /\ u \in {<<k[1], k[2]>>} \X (1..d.usage[k].requests)
<1> DEFINE K == {k \in Where(d, "usage", T) : k[2] >= since}
           B == {<<k[1], k[2], d.usage[k].requests>> : k \in K}
<1>1. Spent(d, T, since) = UNION {{<<b[1], b[2]>>} \X (1..b[3]) : b \in B}
  BY DEF Spent, Counted
<1>2. \A k : k \in K <=> k \in DOMAIN d.usage /\ d.usage[k].tenant \in T /\ k[2] >= since
  BY DEF Where, Rows
<1> HIDE DEF K
<1>3. ASSUME u \in Spent(d, T, since)
      PROVE  \E k \in K : u \in {<<k[1], k[2]>>} \X (1..d.usage[k].requests)
  <2>1. PICK b \in B : u \in {<<b[1], b[2]>>} \X (1..b[3])
    BY <1>1, <1>3
  <2>2. PICK k \in K : b = <<k[1], k[2], d.usage[k].requests>>
    BY <2>1
  <2> QED BY <2>1, <2>2
<1>4. ASSUME NEW k \in K, u \in {<<k[1], k[2]>>} \X (1..d.usage[k].requests)
      PROVE  u \in Spent(d, T, since)
  <2> DEFINE b == <<k[1], k[2], d.usage[k].requests>>
  <2>1. b \in B /\ u \in {<<b[1], b[2]>>} \X (1..b[3])
    BY <1>4
  <2> HIDE DEF b, B
  <2> QED BY <1>1, <2>1
<1> QED BY <1>2, <1>3, <1>4

\* What has been counted is finite.
LEMMA SpentFinite ==
  ASSUME NEW d, NEW T, NEW since, Metered(d)
  PROVE  IsFiniteSet(Spent(d, T, since)) /\ Cardinality(Spent(d, T, since)) \in Nat
<1> DEFINE K == DOMAIN d.usage
           f == [k \in K |-> {<<k[1], k[2]>>} \X (1..d.usage[k].requests)]
           F == {f[k] : k \in K}
<1>1. IsFiniteSet(K)
  BY DEF Metered
<1>2. f \in Surjection(K, F)
  BY DEF Surjection
<1>3. IsFiniteSet(F)
  <2> HIDE DEF f, F, K
  <2> QED BY <1>1, <1>2, FS_Surjection
<1>4. ASSUME NEW k \in K PROVE IsFiniteSet(f[k])
  <2>1. IsFiniteSet({<<k[1], k[2]>>})
    BY FS_Singleton
  <2>2. d.usage[k].requests \in Int
    <3>1. d.usage[k].requests \in Nat
      BY DEF Metered
    <3> QED BY <3>1
  <2>3. IsFiniteSet(1..d.usage[k].requests)
    BY <2>2, FS_Interval
  <2> QED BY <2>1, <2>3, FS_Product
<1>5. ASSUME NEW u \in Spent(d, T, since) PROVE u \in UNION F
  <2>1. PICK k \in K : u \in {<<k[1], k[2]>>} \X (1..d.usage[k].requests)
    BY <1>5, SpentIs
  <2>2. u \in f[k]
    BY <2>1
  <2> HIDE DEF f
  <2> QED BY <2>2
<1>6. IsFiniteSet(UNION F)
  <2>1. \A S \in F : IsFiniteSet(S)
    BY <1>4
  <2> HIDE DEF F
  <2> QED BY <1>3, <2>1, FS_UNION
<1>7. Spent(d, T, since) \in SUBSET UNION F
  <2> HIDE DEF F
  <2> QED BY <1>5
<1> HIDE DEF F
<1> QED BY <1>6, <1>7, FS_Subset, FS_CardinalityType

\* Fewer counters, tenants or months count less.
LEMMA SpentEases ==
  ASSUME NEW d, NEW e, Thins(d, e), Metered(d), NEW T, NEW V \in SUBSET T,
         NEW since \in Nat, NEW from \in Nat, since <= from
  PROVE  Metered(e) /\ Spent(e, V, from) \subseteq Spent(d, T, since)
<1>1. Metered(e)
  BY FS_Subset DEF Metered, Thins
<1>2. ASSUME NEW u \in Spent(e, V, from) PROVE u \in Spent(d, T, since)
  <2>1. PICK k \in DOMAIN e.usage : /\ e.usage[k].tenant \in V /\ k[2] >= from
                                    /\ u \in {<<k[1], k[2]>>} \X (1..e.usage[k].requests)
    BY <1>2, SpentIs
  <2>2. k \in DOMAIN d.usage /\ d.usage[k] = e.usage[k] /\ k[2] \in Nat
    BY <2>1 DEF Thins, Metered
  <2>3. d.usage[k].tenant \in T /\ k[2] >= since
    BY <2>1, <2>2
  <2> QED BY <2>1, <2>2, <2>3, SpentIs
<1> QED BY <1>1, <1>2

\* Recording a request counts one more, on its tenant.
LEMMA SpentByOne ==
  ASSUME NEW d, Metered(d), TreeHolds(d), NEW x, NEW since \in Nat, NEW T, NEW e,
         e = RecordRequest(d, x, since).db
  PROVE  /\ Metered(e) /\ e.plans = d.plans /\ e.tenants = d.tenants
         /\ x \notin T => Spent(e, T, since) \subseteq Spent(d, T, since)
         /\ \E u : Spent(e, T, since) \subseteq Spent(d, T, since) \cup {u}
<1> DEFINE h == <<x, since>>
           old == IF h \in DOMAIN d.usage THEN d.usage[h] ELSE [tenant |-> x, requests |-> 0]
           new == [old EXCEPT !.requests = @ + 1]
<1>1. CASE e = d
  BY <1>1
<1>2. CASE e = [d EXCEPT !["usage"] = Put(@, h, new)]
  <2>1. /\ e.plans = d.plans /\ e.tenants = d.tenants /\ e.usage = Put(d.usage, h, new)
    BY <1>2 DEF TreeHolds, Tables, TenantTables
  <2>2. /\ DOMAIN e.usage = DOMAIN d.usage \cup {h} /\ e.usage[h] = new
        /\ \A k \in DOMAIN d.usage \ {h} : e.usage[k] = d.usage[k]
    BY <2>1 DEF Put
  <2>3. /\ old.requests \in Nat /\ new.requests = old.requests + 1 /\ new.tenant = x
        /\ old = [tenant |-> x, requests |-> old.requests]
        /\ new = [tenant |-> x, requests |-> new.requests]
        /\ h[1] = x /\ h[2] = since
    BY DEF Metered
  <2>4. h \in DOMAIN d.usage => d.usage[h] = old
    OBVIOUS
  <2>5. h \notin DOMAIN d.usage => old.requests = 0
    OBVIOUS
  <2>6. h = <<h[1], h[2]>>
    OBVIOUS
  <2> HIDE DEF h, old, new
  <2>7. Metered(e)
    <3>1. IsFiniteSet(DOMAIN e.usage)
      BY <2>2, FS_AddElement DEF Metered
    <3>2. ASSUME NEW k \in DOMAIN e.usage
          PROVE  /\ k = <<k[1], k[2]>> /\ k[2] \in Nat
                 /\ e.usage[k] = [tenant |-> k[1], requests |-> e.usage[k].requests]
                 /\ e.usage[k].requests \in Nat
      <4>1. CASE k = h
        BY <2>2, <2>3, <2>6, <4>1
      <4>2. CASE k # h
        BY <2>2, <4>2 DEF Metered
      <4> QED BY <4>1, <4>2
    <3> QED BY <3>1, <3>2 DEF Metered
  \* What is counted and was not is the last of the counter that was written.
  <2>8. ASSUME NEW v \in Spent(e, T, since), v \notin Spent(d, T, since)
        PROVE  v = <<h, new.requests>> /\ x \in T
    <3>1. PICK k \in DOMAIN e.usage : /\ e.usage[k].tenant \in T /\ k[2] >= since
                                      /\ v \in {<<k[1], k[2]>>} \X (1..e.usage[k].requests)
      BY <2>8, SpentIs
    <3>2. k = h
      <4> SUFFICES ASSUME k # h PROVE FALSE
        OBVIOUS
      <4>1. k \in DOMAIN d.usage /\ d.usage[k] = e.usage[k]
        BY <2>2, <3>1
      <4> QED BY <2>8, <3>1, <4>1, SpentIs
    <3>3. PICK i \in 1..new.requests : v = <<h, i>>
      BY <2>2, <2>6, <3>1, <3>2
    <3>4. i \notin 1..old.requests
      <4> SUFFICES ASSUME i \in 1..old.requests PROVE FALSE
        OBVIOUS
      <4>1. h \in DOMAIN d.usage
        BY <2>5
      <4>2. d.usage[h] = old
        BY <2>4, <4>1
      <4>3. old.tenant \in T /\ h[2] >= since
        BY <2>2, <2>3, <3>1, <3>2, <4>1, <4>2 DEF Metered
      <4>4. v \in {<<h[1], h[2]>>} \X (1..d.usage[h].requests)
        BY <2>6, <3>3, <4>2
      <4> QED BY <2>8, <4>1, <4>2, <4>3, <4>4, SpentIs
    <3> QED BY <2>2, <2>3, <3>1, <3>2, <3>3, <3>4
  <2>9. Spent(e, T, since) \subseteq Spent(d, T, since) \cup {<<h, new.requests>>}
    BY <2>8
  <2> QED BY <2>1, <2>7, <2>8, <2>9
<1> QED BY <1>1, <1>2 DEF RecordRequest, Upsert, Raises, Returns, Get

-----------------------------------------------------------------------------
(* Who shares an allowance.                                                  *)

\* The tenants that pay with t, when t is a top: those below it whose walk of
\* MAX_DEPTH reads ends there.
Paying(d, t) == {x \in Tenants(d) \cap DOMAIN Tree : t \in Line[x] /\ Shallow(x)}

\* A line has one top.
LEMMA TopUnique ==
  ASSUME NEW x \in DOMAIN Tree, NEW t \in Line[x], Tree[t] = None
  PROVE  Top(x) = t
<1> DEFINE S == {y \in Line[x] : t \in Line[y]}
<1>1. S \in SUBSET DOMAIN Tree /\ x \in S
  BY OnLine
<1>2. ASSUME NEW y \in S, Tree[y] # None PROVE Tree[y] \in S
  <2>1. y \in DOMAIN Tree /\ y # t /\ t \in Line[y] /\ Tree[y] \in Line[x]
    BY <1>1, <1>2, LineClimbs
  <2> QED BY <1>2, <2>1, LineUp
<1>3. \A a \in Line[x] : a \in S
  <2> HIDE DEF S
  <2> QED BY <1>1, <1>2 DEF Line
<1>4. ASSUME NEW a \in Line[x], Tree[a] = None PROVE a = t
  BY <1>1, <1>3, <1>4, LineEnds
<1> QED BY <1>4 DEF Top

\* Who is there and has t on its line is in the subtree the vault finds.
LEMMA BelowIsFound ==
  ASSUME NEW d, TreeHolds(d), NEW x \in Tenants(d) \cap DOMAIN Tree, NEW t \in Line[x]
  PROVE  x \in Subtree(d, t)
<1>1. Line[x] \subseteq Tenants(d) /\ Line[x] \subseteq DOMAIN Tree
  BY LineStays, OnLine
<1>2. ASSUME NEW S \in SUBSET Tenants(d), t \in S,
             \A c \in Tenants(d) : d.tenants[c] \in S => c \in S
      PROVE  x \in S
  <2> DEFINE V == {y \in Line[x] : y \in S => x \in S}
  <2>1. V \in SUBSET DOMAIN Tree /\ x \in V
    BY <1>1, OnLine
  <2>2. ASSUME NEW y \in V, Tree[y] # None PROVE Tree[y] \in V
    <3>1. Tree[y] \in Line[x] /\ d.tenants[y] = Tree[y] /\ y \in Tenants(d)
      BY <1>1, <2>1, <2>2, LineClimbs DEF TreeHolds
    <3> QED BY <1>2, <2>2, <3>1
  <2>3. \A a \in Line[x] : a \in V
    <3> HIDE DEF V
    <3> QED BY <2>1, <2>2 DEF Line
  <2> QED BY <1>2, <2>3
<1> QED BY <1>1, <1>2 DEF Subtree

\* And a subtree of the tree's tenants holds no other.
LEMMA FoundIsBelow ==
  ASSUME NEW d, TreeHolds(d), NEW t \in Tenants(d) \cap DOMAIN Tree,
         Subtree(d, t) \subseteq DOMAIN Tree
  PROVE  \A x \in Subtree(d, t) : t \in Line[x]
<1> DEFINE S == {y \in Subtree(d, t) : t \in Line[y]}
<1>1. /\ Subtree(d, t) \subseteq Tenants(d) /\ t \in Subtree(d, t)
      /\ \A c \in Tenants(d) : d.tenants[c] \in Subtree(d, t) => c \in Subtree(d, t)
  BY DEF Subtree
<1>2. t \in S /\ S \in SUBSET Tenants(d)
  BY <1>1, OnLine
<1>3. ASSUME NEW c \in Tenants(d), d.tenants[c] \in S PROVE c \in S
  <2>1. c \in Subtree(d, t) /\ c \in DOMAIN Tree /\ d.tenants[c] \in DOMAIN Tree
    BY <1>1, <1>3
  <2>2. d.tenants[c] = Tree[c] /\ Tree[c] # None
    BY <1>3, <2>1, TreeAssumption DEF TreeHolds, TreeAssumption
  <2> QED BY <1>3, <2>1, <2>2, LineUp
<1>4. \A x \in Subtree(d, t) : x \in S
  <2> HIDE DEF S
  <2> QED BY <1>2, <1>3 DEF Subtree
<1> QED BY <1>4

-----------------------------------------------------------------------------
(* What keeps a tree's use within its plan and the calls in flight.          *)

Tops == {t \in DOMAIN Tree : Tree[t] = None}

\* What the tree below t has used, as far as its calls are gated by t's plan.
Uses(t) == Spent(db, Paying(db, t), month)

\* Its calls that are let through and not counted yet.
Out(t) == {r \in Requests : Underway(r) /\ req[r].root = t}

Clique(S) == \A q, r \in S : q # r => {q, r} \in met
Spare(S) == IF S = {} THEN 0 ELSE Cardinality(S) - 1

\* A call underway will be counted: it weighs as much as one that was.
Within(t) ==
  \E plan \in plans[t], S \in SUBSET {r \in Requests : req[r].root = t} :
    /\ Clique(S)
    /\ Limit[plan] # 0 =>
         Cardinality(Uses(t)) + Cardinality(Out(t))
           <= Limit[plan] + Cardinality(Tested(t)) + Spare(S)

\* Who pays is found once, and a plan that was read is one the tree has had.
CallHolds(r) ==
  /\ req[r].pc \in {"sent", "owner", "guard", "granted", "bill"} => req[r].root = None
  /\ req[r].pc = "probed" => Job(r).op = "test"
  /\ /\ req[r].target \in DOMAIN Tree /\ Job(r).op # "test"
     /\ req[r].pc \in {"plan", "count", "work", "record", "select", "meter"}
     => req[r].root # None
  /\ req[r].pc = "count" /\ req[r].root \in DOMAIN Tree => req[r].plan \in plans[req[r].root]

\* The plans a tenant has been on hold the one it is on.
PlansKnown ==
  /\ plans = [t \in DOMAIN Tree |-> plans[t]]
  /\ \A t \in DOMAIN Tree :
       /\ "free" \in plans[t] /\ plans[t] \subseteq Plans
       /\ t \in DOMAIN db.plans => db.plans[t].name \in plans[t]

\* Whatever is underway together has met at the gate.
OverrunInv ==
  /\ ApiInv /\ Metered(db) /\ month \in Nat /\ PlansKnown
  /\ \A r \in Requests : CallHolds(r)
  /\ Clique({r \in Requests : Underway(r)})
  /\ \A t \in Tops : Within(t)

\* The sets that Within counts are finite.
LEMMA Countable ==
  ASSUME OverrunInv, NEW t
  PROVE  /\ IsFiniteSet(Uses(t)) /\ Cardinality(Uses(t)) \in Nat
         /\ IsFiniteSet(Out(t)) /\ Cardinality(Out(t)) \in Nat
         /\ IsFiniteSet(Tested(t)) /\ Cardinality(Tested(t)) \in Nat
         /\ \A S \in SUBSET Requests :
              IsFiniteSet(S) /\ Cardinality(S) \in Nat /\ Spare(S) \in Nat
         /\ \A plan \in Plans : Limit[plan] \in Nat
         /\ t \in Tops => plans[t] \subseteq Plans
<1>1. IsFiniteSet(Requests) /\ Out(t) \in SUBSET Requests /\ Tested(t) \in SUBSET Requests
  BY ApiAssumption DEF ApiAssumption, Out, Tested
<1>2. \A S \in SUBSET Requests : IsFiniteSet(S) /\ Cardinality(S) \in Nat
  BY <1>1, FS_Subset, FS_CardinalityType
<1>3. ASSUME NEW S \in SUBSET Requests PROVE Spare(S) \in Nat
  <2>1. S # {} => Cardinality(S) # 0
    BY <1>2, FS_EmptySet
  <2> QED BY <1>2, <2>1 DEF Spare
<1>4. IsFiniteSet(Uses(t)) /\ Cardinality(Uses(t)) \in Nat
  BY SpentFinite DEF Uses, OverrunInv
<1>5. /\ \A plan \in Plans : Limit[plan] \in Nat
      /\ t \in Tops => plans[t] \subseteq Plans
  BY ApiAssumption DEF ApiAssumption, OverrunInv, PlansKnown, Tops
<1> QED BY <1>1, <1>2, <1>3, <1>4, <1>5

\* A bound survives a step that takes as much from what is underway, or adds as
\* many tests, as it adds to a tree's use.
LEMMA WithinHolds ==
  ASSUME OverrunInv, NEW t \in Tops,
         Cardinality(Uses(t)') \in Nat, Cardinality(Out(t)') \in Nat,
         Cardinality(Tested(t)') \in Nat,
         Cardinality(Uses(t)') + Cardinality(Out(t)') + Cardinality(Tested(t))
           <= Cardinality(Uses(t)) + Cardinality(Out(t)) + Cardinality(Tested(t)'),
         met \subseteq met', plans[t] \subseteq plans'[t],
         \A r \in Requests : req[r].root = t => req'[r].root = t
  PROVE  Within(t)'
<1>1. PICK plan \in plans[t], S \in SUBSET {r \in Requests : req[r].root = t} :
        /\ Clique(S)
        /\ Limit[plan] # 0 =>
             Cardinality(Uses(t)) + Cardinality(Out(t))
               <= Limit[plan] + Cardinality(Tested(t)) + Spare(S)
  BY DEF OverrunInv, Within
<1>2. Limit[plan] \in Nat /\ Spare(S) \in Nat
  <2>1. plan \in Plans /\ S \in SUBSET Requests
    BY <1>1, Countable
  <2> QED BY <2>1, Countable
<1>3. Limit[plan] # 0 =>
        Cardinality(Uses(t)') + Cardinality(Out(t)')
          <= Limit[plan] + Cardinality(Tested(t)') + Spare(S)
  BY <1>1, <1>2, Countable
<1>4. plan \in plans'[t] /\ S \in SUBSET {r \in Requests : req'[r].root = t}
  BY <1>1
<1>5. \A q, r \in S : q # r => {q, r} \in met'
  BY <1>1 DEF Clique
<1> QED BY <1>3, <1>4, <1>5 DEF Within, Clique

\* So it survives what adds nothing to either.
LEMMA WithinEases ==
  ASSUME OverrunInv, NEW t \in Tops,
         Uses(t)' \subseteq Uses(t), Out(t)' \subseteq Out(t),
         Tested(t) \subseteq Tested(t)', IsFiniteSet(Tested(t)'), met \subseteq met',
         plans[t] \subseteq plans'[t],
         \A r \in Requests : req[r].root = t => req'[r].root = t
  PROVE  Within(t)'
<1>1. Uses(t)' \in SUBSET Uses(t) /\ Out(t)' \in SUBSET Out(t) /\ Tested(t) \in SUBSET Tested(t)'
  OBVIOUS
<1>2. /\ Cardinality(Uses(t)') <= Cardinality(Uses(t)) /\ Cardinality(Uses(t)') \in Nat
      /\ Cardinality(Out(t)') <= Cardinality(Out(t)) /\ Cardinality(Out(t)') \in Nat
      /\ Cardinality(Tested(t)) <= Cardinality(Tested(t)') /\ Cardinality(Tested(t)') \in Nat
  BY <1>1, Countable, FS_Subset, FS_CardinalityType
<1> QED BY <1>2, Countable, WithinHolds

\* Tenants of the tree go with what they used.
LEMMA UsesEase ==
  ASSUME OverrunInv, NEW t \in Tops, Thins(db, db'), Falls(db, db'),
         month' \in Nat, month <= month'
  PROVE  Metered(db') /\ Uses(t)' \subseteq Uses(t)
<1>1. Paying(db', t) \in SUBSET Paying(db, t)
  BY DEF Paying, Falls
<1>2. Metered(db) /\ month \in Nat
  BY DEF OverrunInv
<1> QED BY <1>1, <1>2, SpentEases DEF Uses

\* A step of request r that neither passes the gate nor counts.
Advances(r) ==
  /\ db'.usage = db.usage /\ db'.plans = db.plans
  /\ UNCHANGED <<month, scene, plans, met>>
  /\ \A x \in Requests \ {r} : req'[x] = req[x]
  /\ req[r].pc # "done" /\ (Underway(r)' => Underway(r))
  /\ req'[r].root = req[r].root \/ (req[r].root = None /\ ~Underway(r)')
  /\ CallHolds(r)'

\* What a step sets of the parts that matter here, and what it leaves.
LEMMA SetSets ==
  ASSUME ApiInv, NEW r \in Requests, NEW c, Set(r, c)
  PROVE  /\ \A x \in Requests \ {r} : req'[x] = req[x]
         /\ \A f \in {"pc", "root", "plan", "target"} :
              req'[r][f] = IF f \in DOMAIN c THEN c[f] ELSE req[r][f]
<1>1. DOMAIN req[r] = Fields /\ r \in DOMAIN req /\ DOMAIN req = Requests
  BY DEF ApiInv, RequestHolds
<1>2. req' = [req EXCEPT ![r] = [x \in Fields |-> IF x \in DOMAIN c THEN c[x] ELSE req[r][x]]]
  BY <1>1 DEF Set
<1>3. req'[r] = [x \in Fields |-> IF x \in DOMAIN c THEN c[x] ELSE req[r][x]]
  BY <1>1, <1>2
<1>4. {"pc", "root", "plan", "target"} \subseteq Fields
  BY DEF Fields
<1> QED BY <1>1, <1>2, <1>3, <1>4

\* A request that sets no root goes on as its next place demands.
LEMMA SetAdvances ==
  ASSUME OverrunInv, NEW r \in Requests, NEW c, Set(r, c), "root" \notin DOMAIN c,
         db'.usage = db.usage, db'.plans = db.plans, UNCHANGED <<month, scene, plans, met>>,
         req[r].pc # "done",
         Underway(r)' => Underway(r),
         req'[r].pc \in {"sent", "owner", "guard", "granted", "bill"} => req[r].root = None,
         req'[r].pc = "probed" => Job(r).op = "test",
         /\ req'[r].target \in DOMAIN Tree /\ Job(r).op # "test"
         /\ req'[r].pc \in {"plan", "count", "work", "record", "select", "meter"}
         => req[r].root # None,
         req'[r].pc = "count" /\ req[r].root \in DOMAIN Tree => req'[r].plan \in plans[req[r].root]
  PROVE  Advances(r)
<1>1. ApiInv
  BY DEF OverrunInv
<1>2. /\ \A x \in Requests \ {r} : req'[x] = req[x]
      /\ req'[r].root = req[r].root
  BY <1>1, SetSets
<1>3. Job(r)' = Job(r) /\ plans' = plans
  BY DEF Job
<1> QED BY <1>2, <1>3 DEF Advances, CallHolds

\* An answer ends the request.
LEMMA AnswerAdvances ==
  ASSUME OverrunInv, NEW r \in Requests, NEW code, Answer(r, code),
         db'.usage = db.usage, db'.plans = db.plans, UNCHANGED <<month, scene, plans, met>>,
         req[r].pc # "done"
  PROVE  Advances(r)
<1> DEFINE c == [pc |-> "done", answer |-> code]
<1>1. ApiInv /\ Set(r, c) /\ "root" \notin DOMAIN c /\ "pc" \in DOMAIN c /\ c.pc = "done"
  BY DEF OverrunInv, Answer
<1> HIDE DEF c
<1>2. req'[r].pc = "done"
  BY <1>1, SetSets
<1>3. ~Underway(r)'
  BY <1>2 DEF Underway
<1> QED BY <1>1, <1>2, <1>3, SetAdvances

\* The other requests' steps, and who shares what, stay.
LEMMA AdvanceKeeps ==
  ASSUME OverrunInv, ApiInv', NEW r \in Requests, Advances(r), Falls(db, db')
  PROVE  OverrunInv'
<1>1. Thins(db, db') /\ month' = month /\ month \in Nat
  BY DEF Thins, Advances, OverrunInv
<1>2. \A x \in Requests \ {r} : Underway(x)' <=> Underway(x)
  BY DEF Advances, Underway, Job
<1>3. PlansKnown'
  BY DEF OverrunInv, PlansKnown, Advances
<1>4. ASSUME NEW x \in Requests PROVE CallHolds(x)'
  <2>1. CASE x = r
    BY <2>1 DEF Advances
  <2>2. CASE x # r
    BY <2>2 DEF Advances, OverrunInv, CallHolds, Job
  <2> QED BY <2>1, <2>2
<1>5. Clique({x \in Requests : Underway(x)})'
  BY <1>2 DEF Clique, Advances, OverrunInv
<1>6. ASSUME NEW t \in Tops PROVE Within(t)' /\ Metered(db')
  <2>1. Metered(db') /\ Uses(t)' \subseteq Uses(t)
    BY <1>1, UsesEase
  <2>2. Out(t)' \subseteq Out(t)
    <3>1. t # None
      BY TreeAssumption DEF Tops, TreeAssumption
    <3> QED BY <1>2, <3>1 DEF Out, Advances
  <2>3. Tested(t) \subseteq Tested(t)' /\ IsFiniteSet(Tested(t)')
    <3>1. Tested(t) \subseteq Tested(t)'
      BY DEF Tested, Advances, Job
    <3>2. Tested(t)' \in SUBSET Requests
      BY DEF Tested
    <3> QED BY <3>1, <3>2, FS_Subset, ApiAssumption DEF ApiAssumption
  <2>4. \A x \in Requests : req[x].root = t => req'[x].root = t
    BY TreeAssumption DEF Advances, Tops, TreeAssumption
  <2> QED BY <2>1, <2>2, <2>3, <2>4, WithinEases DEF Advances
<1>7. Metered(db')
  BY <1>1, SpentEases, FS_Subset DEF OverrunInv, Metered, Thins
<1> QED BY <1>1, <1>3, <1>4, <1>5, <1>6, <1>7 DEF OverrunInv

\* What writes neither counters nor plans.
LEMMA OthersSpare ==
  ASSUME NEW d, TreeHolds(d), NEW x, NEW y, NEW z, NEW at, NEW e,
         \/ e = CreateTenant(d, x, y).db \/ e = IssueKey(d, x, y).db \/ e = RevokeKey(d, x).db
         \/ e = PutCredential(d, x, y, z).db \/ e = AddRun(d, x, y, z, at).db
  PROVE  e.usage = d.usage /\ e.plans = d.plans
<1>1. CASE e = CreateTenant(d, x, y).db
  BY <1>1 DEF CreateTenant, Raises, Returns, TreeHolds, Tables, TenantTables
<1>2. CASE e = IssueKey(d, x, y).db
  BY <1>2 DEF IssueKey, Insert, Raises, Returns, TreeHolds, Tables, TenantTables
<1>3. CASE e = RevokeKey(d, x).db
  BY <1>3 DEF RevokeKey, Raises, Returns, TreeHolds, Tables, TenantTables
<1>4. CASE e = PutCredential(d, x, y, z).db
  BY <1>4 DEF PutCredential, Upsert, Raises, Returns, TreeHolds, Tables, TenantTables
<1>5. CASE e = AddRun(d, x, y, z, at).db
  <2> DEFINE r == Insert(d, "runs", y, [tenant |-> x, name |-> z, at |-> at])
  <2>1. r.db = [n \in Tables |-> r.db[n]] /\ r.db.usage = d.usage /\ r.db.plans = d.plans
    BY DEF Insert, Raises, Returns, TreeHolds, Tables, TenantTables
  <2>2. PICK gone : e = r.db \/ e = [r.db EXCEPT !.runs = Without(@, gone)]
    <3> HIDE DEF r
    <3> QED BY <1>5 DEF AddRun, Returns, r
  <2> HIDE DEF r
  <2> QED BY <2>1, <2>2 DEF Tables, TenantTables
<1> QED BY <1>1, <1>2, <1>3, <1>4, <1>5

\* Before the bill is settled nobody pays.
LEMMA EarlyAdvances ==
  ASSUME OverrunInv, NEW r \in Requests, Reads, NEW c, Set(r, c), "root" \notin DOMAIN c,
         req[r].pc \in {"sent", "owner", "guard", "granted", "bill"},
         req'[r].pc \in {"owner", "guard", "granted", "bill"}
  PROVE  Advances(r)
<1>1. req[r].root = None
  BY DEF OverrunInv, CallHolds
<1>2. ~Underway(r)' /\ UNCHANGED <<db, month, scene, plans, met>>
  BY DEF Underway, Reads
<1> QED BY <1>1, <1>2, SetAdvances

\* The requests that are not billed yet, one level or one read on.
LEMMA GuardAdvances ==
  ASSUME OverrunInv, NEW r \in Requests, Authenticate(r) \/ FindOwner(r) \/ GuardWalk(r)
  PROVE  Advances(r)
<1>1. ApiInv /\ Reads /\ UNCHANGED <<db, month, scene, plans, met>>
      /\ req[r].pc \in {"sent", "owner", "guard"}
  BY DEF OverrunInv, Authenticate, FindOwner, GuardWalk, Reads
<1>2. CASE \E code : Answer(r, code)
  BY <1>1, <1>2, AnswerAdvances
<1>3. ASSUME NEW actor, NEW target, Set(r, Guard(actor, target)) PROVE Advances(r)
  <2>1. /\ "root" \notin DOMAIN Guard(actor, target) /\ "pc" \in DOMAIN Guard(actor, target)
        /\ Guard(actor, target).pc \in {"guard", "granted"}
    BY DEF Guard
  <2>2. req'[r].pc = Guard(actor, target).pc
    BY <1>1, <1>3, <2>1, SetSets
  <2> QED BY <1>1, <1>3, <2>1, <2>2, EarlyAdvances
<1>4. ASSUME NEW actor, NEW target, Set(r, Bill(actor, target)) PROVE Advances(r)
  <2>1. /\ "root" \notin DOMAIN Bill(actor, target) /\ "pc" \in DOMAIN Bill(actor, target)
        /\ Bill(actor, target).pc = "bill"
    BY DEF Bill
  <2>2. req'[r].pc = Bill(actor, target).pc
    BY <1>1, <1>4, <2>1, SetSets
  <2> QED BY <1>1, <1>4, <2>1, <2>2, EarlyAdvances
<1>5. ASSUME NEW actor, Set(r, [actor |-> actor, pc |-> "owner"]) PROVE Advances(r)
  <2> DEFINE c == [actor |-> actor, pc |-> "owner"]
  <2>1. "root" \notin DOMAIN c /\ "pc" \in DOMAIN c /\ c.pc = "owner" /\ Set(r, c)
    BY <1>5
  <2> HIDE DEF c
  <2>2. req'[r].pc = "owner"
    BY <1>1, <2>1, SetSets
  <2> QED BY <1>1, <2>1, <2>2, EarlyAdvances
<1>6. ASSUME NEW chain, Set(r, [pc |-> "granted", chain |-> chain]) PROVE Advances(r)
  <2> DEFINE c == [pc |-> "granted", chain |-> chain]
  <2>1. "root" \notin DOMAIN c /\ "pc" \in DOMAIN c /\ c.pc = "granted" /\ Set(r, c)
    BY <1>6
  <2> HIDE DEF c
  <2>2. req'[r].pc = "granted"
    BY <1>1, <2>1, SetSets
  <2> QED BY <1>1, <2>1, <2>2, EarlyAdvances
<1>7. ASSUME NEW at, NEW left, NEW chain, req[r].pc = "guard",
             Set(r, [at |-> at, left |-> left, chain |-> chain])
      PROVE  Advances(r)
  <2> DEFINE c == [at |-> at, left |-> left, chain |-> chain]
  <2>1. "root" \notin DOMAIN c /\ "pc" \notin DOMAIN c /\ Set(r, c)
    BY <1>7
  <2> HIDE DEF c
  <2>2. req'[r].pc = "guard"
    BY <1>1, <1>7, <2>1, SetSets
  <2> QED BY <1>1, <2>1, <2>2, EarlyAdvances
<1>8. CASE Authenticate(r)
  BY <1>2, <1>3, <1>4, <1>5, <1>8 DEF Authenticate
<1>9. CASE FindOwner(r)
  BY <1>2, <1>3, <1>9 DEF FindOwner
<1>10. CASE GuardWalk(r)
  BY <1>2, <1>6, <1>7, <1>10 DEF GuardWalk
<1> QED BY <1>8, <1>9, <1>10

\* The routes that change the subtree answer.
LEMMA WriteAdvances ==
  ASSUME OverrunInv, NEW r \in Requests,
         CreateChild(r) \/ IssueApiKey(r) \/ RevokeApiKey(r) \/ SaveCredential(r)
  PROVE  Advances(r)
<1>1. TreeHolds(db) /\ req[r].pc = "granted"
  BY DEF OverrunInv, ApiInv, CreateChild, IssueApiKey, RevokeApiKey, SaveCredential, Here
<1>2. \E code : Answer(r, code)
  BY DEF CreateChild, IssueApiKey, RevokeApiKey, SaveCredential
<1>3. /\ UNCHANGED <<month, scene, plans, met>>
      /\ \/ db' = db
         \/ db' = CreateTenant(db, r, req[r].actor).db \/ db' = IssueKey(db, req[r].target, r).db
         \/ db' = RevokeKey(db, Job(r).on).db
         \/ db' = PutCredential(db, req[r].target, "secret", r).db
  BY DEF CreateChild, IssueApiKey, RevokeApiKey, SaveCredential, Reads, Writes
<1>4. db'.usage = db.usage /\ db'.plans = db.plans
  BY <1>1, <1>3, OthersSpare
<1> QED BY <1>1, <1>2, <1>3, <1>4, AnswerAdvances

\* The walk to who pays ends with a root, and no other step sets one.
LEMMA BillAdvances == ASSUME OverrunInv, NEW r \in Requests, BillWalk(r) PROVE Advances(r)
<1>1. ApiInv /\ Reads /\ UNCHANGED <<db, month, scene, plans, met>> /\ req[r].pc = "bill"
      /\ req[r].root = None
  BY DEF OverrunInv, BillWalk, Reads, CallHolds
<1> DEFINE up == Parent(req[r].at)
<1>2. ASSUME req[r].target \in DOMAIN Tree PROVE req[r].at # None
  <2>1. req[r].at \in Line[req[r].target]
    BY <1>1, <1>2 DEF ApiInv, RequestHolds, Climbing
  <2>2. req[r].at \in DOMAIN Tree
    BY <1>2, <2>1, OnLine
  <2> QED BY <2>2, TreeAssumption DEF TreeAssumption
<1>3. ASSUME NEW root, Set(r, [pc |-> "plan", root |-> root]),
             req[r].target \in DOMAIN Tree => root # None
      PROVE  Advances(r)
  <2> DEFINE c == [pc |-> "plan", root |-> root]
  <2>1. Set(r, c) /\ "target" \notin DOMAIN c /\ {"pc", "root"} \subseteq DOMAIN c
        /\ c.pc = "plan" /\ c.root = root
    BY <1>3
  <2> HIDE DEF c
  <2>2. /\ \A x \in Requests \ {r} : req'[x] = req[x]
        /\ req'[r].pc = "plan" /\ req'[r].root = root /\ req'[r].target = req[r].target
    BY <1>1, <2>1, SetSets
  <2>3. ~Underway(r)' /\ CallHolds(r)'
    BY <1>1, <1>3, <2>2 DEF Underway, CallHolds
  <2> QED BY <1>1, <2>2, <2>3 DEF Advances
<1>4. ASSUME Set(r, [at |-> up, left |-> req[r].left - 1]) PROVE Advances(r)
  <2> DEFINE c == [at |-> up, left |-> req[r].left - 1]
  <2>1. "root" \notin DOMAIN c /\ "pc" \notin DOMAIN c /\ Set(r, c)
    BY <1>4
  <2> HIDE DEF c
  <2>2. req'[r].pc = "bill"
    BY <1>1, <2>1, SetSets
  <2> QED BY <1>1, <2>1, <2>2, EarlyAdvances
<1> HIDE DEF up
<1>5. \/ up = None /\ Set(r, [pc |-> "plan", root |-> req[r].at])
      \/ up # None /\ Set(r, [pc |-> "plan", root |-> up])
      \/ Set(r, [at |-> up, left |-> req[r].left - 1])
  BY DEF BillWalk, up
<1> QED BY <1>2, <1>3, <1>4, <1>5

\* The routes that read, up to the gate and behind it.
LEMMA ReadAdvances ==
  ASSUME OverrunInv, NEW r \in Requests,
         FindTarget(r) \/ Show(r) \/ Probe(r) \/ MeterTest(r) \/ ReadPlan(r)
           \/ CallOperation(r) \/ Reconcile(r) \/ RunQuery(r) \/ Select(r)
  PROVE  Advances(r)
<1>1. ApiInv /\ Reads /\ UNCHANGED <<db, month, scene, plans, met>> /\ CallHolds(r)
  BY DEF OverrunInv, Reads, FindTarget, Show, Probe, MeterTest, ReadPlan, CallOperation,
         Reconcile, RunQuery, Select
<1>2. req[r].pc # "done"
  BY DEF FindTarget, Show, Probe, MeterTest, ReadPlan, CallOperation, Reconcile, RunQuery, Select,
         Here
<1>3. CASE \E code : Answer(r, code)
  BY <1>1, <1>2, <1>3, AnswerAdvances
<1>4. ASSUME NEW c, Set(r, c), "root" \notin DOMAIN c, "target" \notin DOMAIN c,
             "pc" \in DOMAIN c, "plan" \notin DOMAIN c,
             \/ c.pc = "show"
             \/ c.pc = "probed" /\ Job(r).op = "test"
             \/ c.pc = "meter" /\ req[r].pc = "probed"
             \/ c.pc \in {"meter", "record", "select"} /\ req[r].pc \in {"work", "select"}
      PROVE  Advances(r)
  <2>1. req'[r].pc = c.pc /\ req'[r].target = req[r].target
    BY <1>1, <1>4, SetSets
  <2>2. Underway(r)' => Underway(r)
    BY <1>1, <1>4, <2>1 DEF Underway, CallHolds, Job
  <2>3. /\ req[r].target \in DOMAIN Tree /\ Job(r).op # "test"
        /\ req'[r].pc \in {"plan", "count", "work", "record", "select", "meter"}
        => req[r].root # None
    BY <1>1, <1>4, <2>1 DEF CallHolds
  <2> QED BY <1>1, <1>2, <1>4, <2>1, <2>2, <2>3, SetAdvances
<1>5. ASSUME req[r].pc = "plan",
             Set(r, [pc |-> "count", plan |-> GetPlan(db, req[r].root)])
      PROVE  Advances(r)
  <2> DEFINE c == [pc |-> "count", plan |-> GetPlan(db, req[r].root)]
  <2>1. /\ Set(r, c) /\ "root" \notin DOMAIN c /\ "target" \notin DOMAIN c
        /\ {"pc", "plan"} \subseteq DOMAIN c
        /\ c.pc = "count" /\ c.plan = GetPlan(db, req[r].root)
    BY <1>5
  <2> HIDE DEF c
  <2>2. /\ req'[r].pc = "count" /\ req'[r].target = req[r].target
        /\ req'[r].plan = GetPlan(db, req[r].root)
    BY <1>1, <2>1, SetSets
  <2>3. ~Underway(r)'
    BY <2>2 DEF Underway
  <2>4. req[r].root \in DOMAIN Tree => GetPlan(db, req[r].root) \in plans[req[r].root]
    BY DEF OverrunInv, PlansKnown, GetPlan, Get
  <2>5. req[r].target \in DOMAIN Tree /\ Job(r).op # "test" => req[r].root # None
    BY <1>1, <1>5 DEF CallHolds
  <2> QED BY <1>1, <1>2, <2>1, <2>2, <2>3, <2>4, <2>5, SetAdvances
<1>6. ASSUME req[r].pc = "granted", Set(r, Bill(req[r].actor, req[r].target))
      PROVE  Advances(r)
  <2> DEFINE c == Bill(req[r].actor, req[r].target)
  <2>1. Set(r, c) /\ "root" \notin DOMAIN c /\ "pc" \in DOMAIN c /\ c.pc = "bill"
    BY <1>6 DEF Bill
  <2> HIDE DEF c
  <2>2. req'[r].pc = "bill"
    BY <1>1, <2>1, SetSets
  <2> QED BY <1>1, <1>6, <2>1, <2>2, EarlyAdvances
<1>7. CASE FindTarget(r)
  BY <1>3, <1>4, <1>6, <1>7 DEF FindTarget, Here
<1>8. CASE Show(r) \/ Probe(r) \/ MeterTest(r)
  BY <1>3, <1>4, <1>8 DEF Show, Probe, MeterTest, Here
<1>9. CASE ReadPlan(r)
  BY <1>5, <1>9 DEF ReadPlan
<1>10. CASE CallOperation(r) \/ Select(r)
  BY <1>3, <1>4, <1>10 DEF CallOperation, Select, Here
<1>11. CASE Reconcile(r) \/ RunQuery(r)
  BY <1>3, <1>4, <1>11 DEF Reconcile, RunQuery, Here
<1> QED BY <1>7, <1>8, <1>9, <1>10, <1>11

\* A run is recorded, or not, between the gate and the meter.
LEMMA RecordAdvances == ASSUME OverrunInv, NEW r \in Requests, RecordRun(r) PROVE Advances(r)
<1> DEFINE place == IF req[r].answer = 502 THEN "done"
                    ELSE IF Job(r).op = "query" THEN "select" ELSE "meter"
           c == [pc |-> place]
<1>1. ApiInv /\ TreeHolds(db) /\ CallHolds(r) /\ req[r].pc = "record" /\ Set(r, c)
      /\ UNCHANGED <<month, scene, plans, met>>
  BY DEF OverrunInv, ApiInv, RecordRun, Writes
<1>2. db'.usage = db.usage /\ db'.plans = db.plans
  <2>1. db' = db \/ db' = AddRun(db, req[r].target, r, "rails", month).db
    BY DEF RecordRun, Writes
  <2> QED BY <1>1, <2>1, OthersSpare
<1>3. {"pc"} = DOMAIN c /\ c.pc \in {"done", "select", "meter"}
  OBVIOUS
<1> HIDE DEF c
<1>4. req'[r].pc \in {"done", "select", "meter"} /\ req'[r].target = req[r].target
  BY <1>1, <1>3, SetSets
<1>5. Underway(r)' => Underway(r)
  BY <1>1 DEF Underway, Job
<1>6. req[r].target \in DOMAIN Tree /\ Job(r).op # "test" => req[r].root # None
  BY <1>1 DEF CallHolds
<1> QED BY <1>1, <1>2, <1>3, <1>4, <1>5, <1>6, SetAdvances

\* What the gate reads of t counts all that the tree below t has used.
LEMMA GateReadsAll ==
  ASSUME OverrunInv, NEW t PROVE Cardinality(Uses(t)) <= Used(db, t) /\ Used(db, t) \in Nat
<1>1. Paying(db, t) \in SUBSET Subtree(db, t)
  BY BelowIsFound DEF Paying, OverrunInv, ApiInv
<1>2. Metered(db) /\ month \in Nat
  BY DEF OverrunInv
<1>3. Uses(t) \subseteq Spent(db, Subtree(db, t), month)
  BY <1>1, <1>2, SpentEases DEF Uses, Thins
<1>4. Used(db, t) = Cardinality(Spent(db, Subtree(db, t), month))
  BY DEF Used, UsageBuckets, Spent
<1> QED BY <1>2, <1>3, <1>4, SpentFinite, FS_Subset

\* Whom the gate lets through meets whoever is underway, below the plan's limit.
LEMMA GatePasses ==
  ASSUME OverrunInv, ApiInv', NEW r \in Requests, req[r].pc = "count", Set(r, [pc |-> "work"]),
         ~Exceeded(req[r].plan, Used(db, req[r].root)),
         met' = met \cup {{q, r} : q \in {q \in Requests : Underway(q)}},
         UNCHANGED <<db, month, scene, plans>>
  PROVE  OverrunInv'
<1> DEFINE c == [pc |-> "work"]
<1>1. ApiInv /\ CallHolds(r) /\ Set(r, c) /\ DOMAIN c = {"pc"} /\ c.pc = "work"
  BY DEF OverrunInv
<1> HIDE DEF c
<1>2. /\ \A x \in Requests \ {r} : req'[x] = req[x]
      /\ req'[r].pc = "work" /\ req'[r].root = req[r].root /\ req'[r].target = req[r].target
  BY <1>1, SetSets
<1>3. \A x \in Requests \ {r} : Underway(x)' <=> Underway(x)
  BY <1>2 DEF Underway, Job
<1>4. ASSUME NEW x \in Requests PROVE CallHolds(x)'
  <2>1. CASE x = r
    BY <1>1, <1>2, <2>1 DEF CallHolds, Job
  <2>2. CASE x # r
    BY <1>2, <2>2 DEF OverrunInv, CallHolds, Job
  <2> QED BY <2>1, <2>2
\* The gate has recorded everyone it lets r meet.
<1>5. ASSUME NEW x \in Requests, NEW y \in Requests, Underway(x)', Underway(y)', x # y
      PROVE  {x, y} \in met'
  <2>1. CASE x # r /\ y # r
    BY <1>3, <1>5, <2>1 DEF OverrunInv, Clique
  <2>2. CASE y = r
    BY <1>3, <1>5, <2>2
  <2>3. CASE x = r
    <3>1. {y, r} \in met'
      BY <1>3, <1>5, <2>3
    <3> QED BY <2>3, <3>1
  <2> QED BY <2>1, <2>2, <2>3
<1>6. ASSUME NEW t \in Tops PROVE Within(t)'
  <2>1. Uses(t)' = Uses(t) /\ Tested(t)' = Tested(t)
    <3>1. \A x \in Requests : /\ req[x].pc = "done" <=> req'[x].pc = "done"
                              /\ req[x].pc = "done" => req'[x] = req[x]
      BY <1>2
    <3>2. Tested(t)' = Tested(t)
      BY <3>1 DEF Tested, Job
    <3> QED BY <3>2 DEF Uses
  <2>2. \A x \in Requests : req'[x].root = req[x].root
    BY <1>2
  <2>3. CASE req[r].root # t
    <3>1. Out(t)' \subseteq Out(t)
      BY <1>2, <1>3, <2>3 DEF Out
    <3> QED BY <2>1, <2>2, <3>1, Countable, WithinEases
  <2>4. CASE req[r].root = t
    <3> DEFINE plan == req[r].plan
               S == Out(t)'
    <3>1. plan \in plans[t] /\ Limit[plan] \in Nat
      BY <1>1, <2>4, Countable DEF CallHolds, Tops
    <3>2. Limit[plan] # 0 => Cardinality(Uses(t)) + 1 <= Limit[plan]
      BY <2>4, <3>1, GateReadsAll, Countable DEF Exceeded
    <3>3. S \in SUBSET {x \in Requests : req'[x].root = t}
      BY DEF Out
    <3>4. Cardinality(S) \in Nat /\ Spare(S) \in Nat /\ Cardinality(S) <= Spare(S) + 1
      <4>1. S \in SUBSET Requests
        BY <3>3
      <4> HIDE DEF S
      <4>2. Cardinality(S) \in Nat /\ Spare(S) \in Nat /\ Cardinality({}) = 0
        BY <4>1, Countable, FS_EmptySet
      <4>3. CASE S = {}
        BY <4>2, <4>3
      <4>4. CASE S # {}
        BY <4>2, <4>4 DEF Spare
      <4> QED BY <4>3, <4>4
    <3>5. \A x, y \in S : x # y => {x, y} \in met'
      BY <1>5 DEF Out
    <3>6. Limit[plan] # 0 =>
            Cardinality(Uses(t)') + Cardinality(S)
              <= Limit[plan] + Cardinality(Tested(t)') + Spare(S)
      <4> HIDE DEF S, plan
      <4> QED BY <2>1, <3>1, <3>2, <3>4, Countable
    <3> QED BY <3>1, <3>3, <3>5, <3>6 DEF Within, Clique
  <2> QED BY <2>3, <2>4
<1>7. PlansKnown' /\ Metered(db')
  BY DEF OverrunInv, PlansKnown
<1>8. Clique({x \in Requests : Underway(x)})'
  BY <1>5 DEF Clique
<1> QED BY <1>4, <1>6, <1>7, <1>8 DEF OverrunInv

\* The gate refuses, shows, or lets through.
LEMMA GateKeeps == ASSUME OverrunInv, ApiInv', NEW r \in Requests, Gate(r) PROVE OverrunInv'
<1>1. req[r].pc = "count" /\ UNCHANGED <<db, month, scene, plans>> /\ Falls(db, db') /\ ApiInv
  BY DEF Gate, Falls, OverrunInv
<1>2. CASE Set(r, [pc |-> "show"]) /\ met' = met
  <2> DEFINE c == [pc |-> "show"]
  <2>1. Set(r, c) /\ DOMAIN c = {"pc"} /\ c.pc = "show"
    BY <1>2
  <2> HIDE DEF c
  <2>2. req'[r].pc = "show"
    BY <1>1, <2>1, SetSets
  <2>3. ~Underway(r)'
    BY <2>2 DEF Underway
  <2>4. Advances(r)
    BY <1>1, <1>2, <2>1, <2>2, <2>3, SetAdvances
  <2> QED BY <1>1, <2>4, AdvanceKeeps
<1>3. CASE Answer(r, 402) /\ met' = met
  <2>1. Advances(r)
    BY <1>1, <1>3, AnswerAdvances
  <2> QED BY <1>1, <2>1, AdvanceKeeps
<1>4. CASE /\ ~Exceeded(req[r].plan, Used(db, req[r].root)) /\ Set(r, [pc |-> "work"])
           /\ met' = met \cup {{q, r} : q \in {q \in Requests : Underway(q)}}
  BY <1>1, <1>4, GatePasses
<1> QED BY <1>2, <1>3, <1>4 DEF Gate

\* A call that is counted was underway, on the tree of its target's top; a test
\* that is counted is one more.
LEMMA MeterKeeps ==
  ASSUME OverrunInv, ApiInv', NEW r \in Requests, Meter(r), Falls(db, db') PROVE OverrunInv'
<1> DEFINE x == req[r].target
           e == RecordRequest(db, x, month).db
<1>1. ApiInv /\ TreeHolds(db) /\ Metered(db) /\ month \in Nat /\ CallHolds(r)
      /\ req[r].pc = "meter" /\ UNCHANGED <<month, scene, plans, met>>
  BY DEF OverrunInv, ApiInv, Meter, Writes
<1>2. CASE db' = db
  <2>1. Advances(r)
    BY <1>1, <1>2, AnswerAdvances DEF Meter
  <2> QED BY <2>1, AdvanceKeeps
<1>3. CASE db' = e
  <2>1. /\ Metered(db') /\ db'.plans = db.plans /\ db'.tenants = db.tenants
        /\ \A T : x \notin T => Spent(db', T, month) \subseteq Spent(db, T, month)
        /\ \A T : \E u : Spent(db', T, month) \subseteq Spent(db, T, month) \cup {u}
    BY <1>1, <1>3, SpentByOne
  <2> DEFINE c == [pc |-> "done", answer |-> 200]
  <2>2. Set(r, c) /\ DOMAIN c = {"pc", "answer"} /\ c.pc = "done"
    BY DEF Meter, Answer
  <2> HIDE DEF c
  <2>3. /\ \A y \in Requests \ {r} : req'[y] = req[y]
        /\ req'[r].pc = "done" /\ req'[r].root = req[r].root /\ req'[r].target = x
    BY <1>1, <2>2, SetSets
  <2>4. req'[r].answer = 200
    BY <1>1 DEF Meter, Answer, Set, ApiInv, RequestHolds, Fields
  <2> HIDE DEF e, x
  <2>5. ~Underway(r)' /\ \A y \in Requests \ {r} : Underway(y)' <=> Underway(y)
    BY <1>1, <2>3 DEF Underway, Job
  <2>6. ASSUME NEW y \in Requests PROVE CallHolds(y)'
    <3>1. CASE y = r
      BY <2>3, <3>1 DEF CallHolds
    <3>2. CASE y # r
      BY <1>1, <2>3, <3>2 DEF OverrunInv, CallHolds, Job
    <3> QED BY <3>1, <3>2
  <2>7. PlansKnown' /\ Clique({y \in Requests : Underway(y)})'
    BY <1>1, <2>1, <2>5 DEF OverrunInv, PlansKnown, Clique
  <2>8. ASSUME NEW t \in Tops PROVE Within(t)'
    <3>1. Paying(db', t) = Paying(db, t)
      BY <2>1 DEF Paying, Tenants
    <3>2. Out(t)' \subseteq Out(t) \ {r}
      BY <2>3, <2>5 DEF Out
    <3>3. /\ Tested(t) \subseteq Tested(t)' \ {r} /\ IsFiniteSet(Tested(t)')
      <4>1. Tested(t) \subseteq Tested(t)' \ {r}
        BY <1>1, <2>3 DEF Tested, Job
      <4>2. Tested(t)' \in SUBSET Requests
        BY DEF Tested
      <4> QED BY <4>1, <4>2, FS_Subset, ApiAssumption DEF ApiAssumption
    <3>4. \A y \in Requests : req[y].root = t => req'[y].root = t
      BY <2>3
    <3>5. CASE x \notin Paying(db, t)
      <4>1. Uses(t)' \subseteq Uses(t)
        BY <1>1, <2>1, <3>1, <3>5 DEF Uses
      <4> QED BY <1>1, <3>2, <3>3, <3>4, <4>1, WithinEases
    <3>6. CASE x \in Paying(db, t)
      <4>1. PICK u : Uses(t)' \subseteq Uses(t) \cup {u}
        BY <1>1, <2>1, <3>1 DEF Uses
      <4>2. Cardinality(Uses(t)') \in Nat /\ Cardinality(Uses(t)') <= Cardinality(Uses(t)) + 1
        <5>1. IsFiniteSet(Uses(t) \cup {u})
              /\ Cardinality(Uses(t) \cup {u}) \in Nat
              /\ Cardinality(Uses(t) \cup {u}) <= Cardinality(Uses(t)) + 1
          <6>1. IsFiniteSet(Uses(t)) /\ Cardinality(Uses(t)) \in Nat
            BY Countable
          <6>2. /\ IsFiniteSet(Uses(t) \cup {u})
                /\ \/ Cardinality(Uses(t) \cup {u}) = Cardinality(Uses(t))
                   \/ Cardinality(Uses(t) \cup {u}) = Cardinality(Uses(t)) + 1
            BY <6>1, FS_AddElement
          <6> QED BY <6>1, <6>2
        <5>2. Uses(t)' \in SUBSET (Uses(t) \cup {u})
          BY <4>1
        <5> QED BY <5>1, <5>2, Countable, FS_Subset, FS_CardinalityType
      <4>3. /\ Cardinality(Out(t)') \in Nat /\ Cardinality(Tested(t)') \in Nat
            /\ Cardinality(Out(t)') <= Cardinality(Out(t))
            /\ Cardinality(Tested(t)) <= Cardinality(Tested(t)')
        <5>1. Out(t)' \in SUBSET Out(t) /\ Tested(t) \in SUBSET Tested(t)'
          BY <3>2, <3>3
        <5> QED BY <3>3, <5>1, Countable, FS_Subset, FS_CardinalityType
      <4>4. CASE Job(r).op = "test"
        <5>1. r \in Tested(t)'
          BY <1>1, <2>3, <2>4, <3>6, <4>4 DEF Tested, Paying, Job
        <5>2. Cardinality(Tested(t)) <= Cardinality(Tested(t)') - 1
          <6>1. Tested(t) \in SUBSET (Tested(t)' \ {r})
            BY <3>3
          <6>2. /\ IsFiniteSet(Tested(t)' \ {r})
                /\ Cardinality(Tested(t)' \ {r}) = Cardinality(Tested(t)') - 1
            BY <3>3, <5>1, FS_RemoveElement
          <6> QED BY <4>3, <6>1, <6>2, Countable, FS_Subset
        <5> QED BY <1>1, <3>4, <4>2, <4>3, <5>2, Countable, WithinHolds
      <4>5. CASE Job(r).op # "test"
        <5>1. req[r].root = t
          <6>1. x \in Tenants(db) \cap DOMAIN Tree /\ Shallow(x) /\ t \in Line[x] /\ Tree[t] = None
            BY <3>6 DEF Paying, Tops
          <6>2. req[r].root # None
            BY <1>1, <4>5, <6>1 DEF CallHolds, x
          <6>3. Paid(req[r], db)
            BY <1>1, <6>1 DEF ApiInv, RequestHolds, x
          <6> QED BY <6>1, <6>2, <6>3, TopUnique DEF Paid, x
        <5>2. r \in Out(t)
          BY <1>1, <4>5, <5>1 DEF Out, Underway
        <5>3. Cardinality(Out(t)') <= Cardinality(Out(t)) - 1
          <6>1. Out(t)' \in SUBSET (Out(t) \ {r})
            BY <3>2
          <6>2. /\ IsFiniteSet(Out(t) \ {r})
                /\ Cardinality(Out(t) \ {r}) = Cardinality(Out(t)) - 1
            BY <5>2, Countable, FS_RemoveElement
          <6> QED BY <4>3, <6>1, <6>2, Countable, FS_Subset
        <5> QED BY <1>1, <3>4, <4>2, <4>3, <5>3, Countable, WithinHolds
      <4> QED BY <4>4, <4>5
    <3> QED BY <3>5, <3>6
  <2> QED BY <1>1, <2>1, <2>6, <2>7, <2>8 DEF OverrunInv
<1> QED BY <1>2, <1>3 DEF Meter, Writes

\* No request's step: counters and tenants go, months pass, plans are added.
LEMMA OthersEase ==
  ASSUME OverrunInv, ApiInv', Thins(db, db'), Falls(db, db'), UNCHANGED <<scene, req, met>>,
         month' \in Nat, month <= month', PlansKnown',
         \A t \in DOMAIN Tree : plans[t] \subseteq plans'[t]
  PROVE  OverrunInv'
<1>1. ASSUME NEW x \in Requests PROVE CallHolds(x)' /\ (Underway(x)' <=> Underway(x))
  BY DEF OverrunInv, CallHolds, Underway, Job
<1>2. Clique({x \in Requests : Underway(x)})'
  BY <1>1 DEF OverrunInv, Clique
<1>3. ASSUME NEW t \in Tops PROVE Within(t)'
  <2>1. Uses(t)' \subseteq Uses(t)
    BY UsesEase
  <2>2. Out(t)' = Out(t) /\ Tested(t)' = Tested(t)
    BY <1>1 DEF Out, Tested, Job
  <2>3. plans[t] \subseteq plans'[t]
    BY DEF Tops
  <2> QED BY <2>1, <2>2, <2>3, Countable, WithinEases
<1>4. Metered(db')
  BY FS_Subset DEF OverrunInv, Metered, Thins
<1> QED BY <1>1, <1>2, <1>3, <1>4 DEF OverrunInv

\* A deletion takes counters and plans with their tenants.
LEMMA DeleteThins ==
  ASSUME NEW d, TreeHolds(d), NEW t, NEW e, e = DeleteTenant(d, t).db
  PROVE  /\ Thins(d, e)
         /\ DOMAIN e.plans \subseteq DOMAIN d.plans
         /\ \A x \in DOMAIN e.plans : e.plans[x] = d.plans[x]
<1> DEFINE ids == Subtree(d, t)
<1>1. CASE ids = {}
  BY <1>1 DEF DeleteTenant, Returns, Thins
<1>2. CASE ids # {}
  <2> HIDE DEF ids
  <2>1. /\ e.usage = Without(d.usage, Rows(d.usage, ids))
        /\ e.plans = Without(d.plans, Rows(d.plans, ids))
    BY <1>2 DEF DeleteTenant, Returns, Cascade, Tables, TenantTables, ids
  <2> QED BY <2>1 DEF Without, Thins
<1> QED BY <1>1, <1>2

\* A plan that is set is one the tenant has had since.
LEMMA PlanKeeps ==
  ASSUME OverrunInv, ApiInv', NEW t \in DOMAIN Tree, NEW p \in Plans, ChangePlan(t, p)
  PROVE  OverrunInv'
<1>1. /\ TreeHolds(db) /\ UNCHANGED <<month, scene, req, met>> /\ month \in Nat
      /\ plans' = [plans EXCEPT ![t] = @ \cup {p}]
  BY DEF OverrunInv, ApiInv, ChangePlan
<1>2. db' = SetPlan(db, t, p).db
  BY DEF ChangePlan
<1>3. db' = db \/ db' = [db EXCEPT !["plans"] = Put(@, t, [tenant |-> t, name |-> p])]
  BY <1>2 DEF SetPlan, Upsert, Raises, Returns
<1>4. /\ db'.usage = db.usage
      /\ db'.plans = db.plans \/ db'.plans = Put(db.plans, t, [tenant |-> t, name |-> p])
  BY <1>1, <1>3 DEF TreeHolds, Tables, TenantTables
<1>5. Thins(db, db') /\ Falls(db, db')
  <2>1. Falls(db, SetPlan(db, t, p).db)
    BY <1>1, UpsertFalls DEF SetPlan, Raises, Falls, Tables, TenantTables
  <2> QED BY <1>2, <1>4, <2>1 DEF Thins
<1>6. /\ plans' = [x \in DOMAIN Tree |-> plans'[x]] /\ plans'[t] = plans[t] \cup {p}
      /\ \A x \in DOMAIN Tree \ {t} : plans'[x] = plans[x]
  BY <1>1 DEF OverrunInv, PlansKnown
<1>7. ASSUME NEW x \in DOMAIN Tree
      PROVE  /\ "free" \in plans'[x] /\ plans'[x] \subseteq Plans
             /\ x \in DOMAIN db'.plans => db'.plans[x].name \in plans'[x]
  <2>1. /\ "free" \in plans[x] /\ plans[x] \subseteq Plans
        /\ x \in DOMAIN db.plans => db.plans[x].name \in plans[x]
    BY DEF OverrunInv, PlansKnown
  <2>2. x \in DOMAIN db'.plans =>
          \/ db'.plans[x].name = p /\ x = t
          \/ x \in DOMAIN db.plans /\ db'.plans[x] = db.plans[x]
    BY <1>4 DEF Put
  <2> QED BY <1>6, <2>1, <2>2
<1>8. PlansKnown'
  BY <1>6, <1>7 DEF PlansKnown
<1> QED BY <1>1, <1>5, <1>6, <1>8, OthersEase

\* Every step keeps OverrunInv, one case per action.
LEMMA OverrunStep == OverrunInv /\ [Next]_vars => OverrunInv'
<1> SUFFICES ASSUME OverrunInv, [Next]_vars PROVE OverrunInv'
  OBVIOUS
<1>1. ApiInv /\ ApiInv' /\ TreeHolds(db) /\ month \in Nat /\ PlansKnown
  BY ApiStep DEF OverrunInv, ApiInv
<1>2. ASSUME NEW r \in Requests, Handle(r) PROVE OverrunInv'
  <2>1. Falls(db, db')
    <3>1. Moves(r)
      BY <1>1, <1>2, AuthenticateMoves, FindOwnerMoves, GuardWalkMoves, BillWalkMoves, WriteMoves,
         FindTargetMoves, ReadMoves, CountMoves DEF Handle
    <3> QED BY <3>1 DEF Moves
  <2>2. CASE Gate(r)
    BY <1>1, <2>2, GateKeeps
  <2>3. CASE Meter(r)
    BY <1>1, <2>1, <2>3, MeterKeeps
  <2>4. CASE ~Gate(r) /\ ~Meter(r)
    <3>1. Advances(r)
      BY <1>2, <2>4, GuardAdvances, WriteAdvances, BillAdvances, ReadAdvances, RecordAdvances
      DEF Handle
    <3> QED BY <1>1, <2>1, <3>1, AdvanceKeeps
  <2> QED BY <2>2, <2>3, <2>4
<1>3. ASSUME NEW t, Delete(t) PROVE OverrunInv'
  <2>1. UNCHANGED <<month, scene, req, plans, met>> /\ db' = DeleteTenant(db, t).db
    BY <1>3 DEF Delete
  <2>2. Falls(db, db') /\ Thins(db, db')
    BY <1>1, <2>1, DeleteFalls, DeleteThins
  <2>3. PlansKnown'
    BY <1>1, <2>1, DeleteThins DEF PlansKnown
  <2> QED BY <1>1, <2>1, <2>2, <2>3, OthersEase
<1>4. ASSUME NEW t \in DOMAIN Tree, NEW p \in Plans, ChangePlan(t, p) PROVE OverrunInv'
  BY <1>1, <1>4, PlanKeeps
<1>5. CASE NextMonth \/ UNCHANGED vars
  <2>1. UNCHANGED <<db, scene, req, plans, met>> /\ month' \in Nat /\ month <= month'
    BY <1>1, <1>5 DEF NextMonth, vars
  <2>2. Thins(db, db') /\ Falls(db, db') /\ PlansKnown'
    BY <1>1, <2>1 DEF Thins, Falls, PlansKnown
  <2> QED BY <1>1, <2>1, <2>2, OthersEase
<1> QED BY <1>2, <1>3, <1>4, <1>5 DEF Next

\* At the start nothing is underway, and what was counted is within the free plan.
LEMMA OverrunInit == Init => OverrunInv
<1> SUFFICES ASSUME Init PROVE OverrunInv
  OBVIOUS
<1> DEFINE made == scene.made
<1>1. /\ scene \in Scenarios /\ month = 0 /\ req = [r \in Requests |-> Fresh] /\ met = {}
      /\ plans = [t \in DOMAIN Tree |-> {"free"}]
      /\ db.usage = [k \in (DOMAIN made) \X {0} |-> [tenant |-> k[1], requests |-> made[k[1]]]]
      /\ DOMAIN db.plans = {}
  BY DEF Init, NewDatabase, Tables, TenantTables
<1>2. DOMAIN made \subseteq DOMAIN Tree /\ \A t \in DOMAIN made : made[t] \in Nat
  BY <1>1, ApiAssumption DEF ApiAssumption
<1> HIDE DEF made
<1>3. Metered(db)
  <2>1. IsFiniteSet((DOMAIN made) \X {0})
    <3>1. IsFiniteSet(DOMAIN made) /\ IsFiniteSet({0})
      BY <1>2, TreeAssumption, FS_Subset, FS_Singleton DEF TreeAssumption
    <3> QED BY <3>1, FS_Product
  <2> QED BY <1>1, <1>2, <2>1 DEF Metered
<1>4. PlansKnown
  BY <1>1, StoreAssumption DEF PlansKnown, StoreAssumption
<1>5. \A r \in Requests : CallHolds(r) /\ ~Underway(r)
  BY <1>1 DEF CallHolds, Underway, Fresh
<1>6. ASSUME NEW t \in Tops PROVE Within(t)
  <2> DEFINE below == {x \in DOMAIN made : t \in Line[x]}
             B == {<<x, 0, made[x]>> : x \in below}
  <2>1. Limit["free"] # 0 => Cardinality(Counted(B)) <= Limit["free"]
    BY <1>1, ApiAssumption DEF ApiAssumption, Tops, made
  <2>2. ASSUME NEW u
        PROVE  u \in Counted(B) <=> \E x \in below : u \in {<<x, 0>>} \X (1..made[x])
    <3>1. Counted(B) = UNION {{<<b[1], b[2]>>} \X (1..b[3]) : b \in B}
      BY DEF Counted
    <3>2. ASSUME u \in Counted(B) PROVE \E x \in below : u \in {<<x, 0>>} \X (1..made[x])
      <4>1. PICK b \in B : u \in {<<b[1], b[2]>>} \X (1..b[3])
        BY <3>1, <3>2
      <4>2. PICK x \in below : b = <<x, 0, made[x]>>
        BY <4>1
      <4> QED BY <4>1, <4>2
    <3>3. ASSUME NEW x \in below, u \in {<<x, 0>>} \X (1..made[x]) PROVE u \in Counted(B)
      <4> DEFINE b == <<x, 0, made[x]>>
      <4>1. b \in B /\ u \in {<<b[1], b[2]>>} \X (1..b[3])
        BY <3>3
      <4> HIDE DEF b, B
      <4> QED BY <3>1, <4>1
    <3> QED BY <3>2, <3>3
  <2> HIDE DEF B
  <2>3. Uses(t) \subseteq Counted(B)
    <3> SUFFICES ASSUME NEW u \in Uses(t) PROVE u \in Counted(B)
      OBVIOUS
    <3>1. PICK k \in DOMAIN db.usage :
            /\ db.usage[k].tenant \in Paying(db, t)
            /\ u \in {<<k[1], k[2]>>} \X (1..db.usage[k].requests)
      BY SpentIs DEF Uses
    <3>2. k[1] \in below /\ k[2] = 0 /\ db.usage[k].requests = made[k[1]]
      BY <1>1, <3>1 DEF Paying
    <3> QED BY <2>2, <3>1, <3>2
  <2>4. Counted(B) \subseteq Spent(db, below, 0)
    <3> SUFFICES ASSUME NEW u \in Counted(B) PROVE u \in Spent(db, below, 0)
      OBVIOUS
    <3>1. PICK x \in below : u \in {<<x, 0>>} \X (1..made[x])
      BY <2>2
    <3> DEFINE k == <<x, 0>>
    <3>2. /\ k \in DOMAIN db.usage /\ db.usage[k].tenant \in below /\ k[2] >= 0
          /\ u \in {<<k[1], k[2]>>} \X (1..db.usage[k].requests)
      BY <1>1, <3>1
    <3> HIDE DEF k
    <3> QED BY <3>2, SpentIs
  <2>5. /\ Cardinality(Uses(t)) \in Nat /\ Cardinality(Counted(B)) \in Nat
        /\ Cardinality(Uses(t)) <= Cardinality(Counted(B))
    <3>1. IsFiniteSet(Counted(B))
      BY <1>3, <2>4, SpentFinite, FS_Subset
    <3> QED BY <2>3, <3>1, FS_Subset, FS_CardinalityType
  <2>6. Cardinality(Out(t)) = 0
    <3>1. Out(t) = {}
      BY <1>5 DEF Out
    <3> QED BY <3>1, FS_EmptySet
  <2>7. Cardinality(Tested(t)) \in Nat
    <3>1. Tested(t) \in SUBSET Requests
      BY DEF Tested
    <3> QED BY <3>1, FS_Subset, FS_CardinalityType, ApiAssumption DEF ApiAssumption
  <2>8. "free" \in plans[t] /\ Limit["free"] \in Nat
    BY <1>1, ApiAssumption, StoreAssumption DEF Tops, ApiAssumption, StoreAssumption
  <2>9. Limit["free"] # 0 =>
          Cardinality(Uses(t)) + Cardinality(Out(t))
            <= Limit["free"] + Cardinality(Tested(t)) + Spare({})
    BY <2>1, <2>5, <2>6, <2>7, <2>8 DEF Spare
  <2>10. Clique({}) /\ {} \in SUBSET {r \in Requests : req[r].root = t}
    BY DEF Clique
  <2> QED BY <2>8, <2>9, <2>10 DEF Within
<1>7. Clique({r \in Requests : Underway(r)})
  BY <1>5 DEF Clique
<1> QED BY <1>1, <1>3, <1>4, <1>5, <1>6, <1>7, ApiInit DEF OverrunInv

\* "The subtree shares one allowance": a tree's use goes past the best plan it has
\* had by its connection tests, and by one less than the calls that were all
\* underway together, however many come and whatever is deleted or bought.
THEOREM OverrunStaysInFlight == Spec => []OverrunIsInFlight
<1>1. ASSUME OverrunInv,
             NEW t \in Tenants(db) \cap DOMAIN Tree, Tree[t] = None,
             \A x \in Subtree(db, t) : x \in DOMAIN Tree /\ Shallow(x)
      PROVE  \E plan \in plans[t], S \in SUBSET {r \in Requests : req[r].root = t} :
               /\ \A q, r \in S : q # r => {q, r} \in met
               /\ Limit[plan] # 0 =>
                    Used(db, t) <= Limit[plan] + Cardinality(Tested(t))
                                     + (IF S = {} THEN 0 ELSE Cardinality(S) - 1)
  <2>1. TreeHolds(db) /\ t \in Tops
    BY <1>1 DEF OverrunInv, ApiInv, Tops
  <2>2. Paying(db, t) = Subtree(db, t)
    <3>1. Paying(db, t) \subseteq Subtree(db, t)
      BY <2>1, BelowIsFound DEF Paying
    <3>2. \A x \in Subtree(db, t) : t \in Line[x]
      BY <1>1, <2>1, FoundIsBelow
    <3>3. Subtree(db, t) \subseteq Tenants(db)
      BY DEF Subtree
    <3> QED BY <1>1, <3>1, <3>2, <3>3 DEF Paying
  <2>3. Used(db, t) = Cardinality(Uses(t))
    BY <2>2 DEF Used, UsageBuckets, Uses, Spent
  <2>4. PICK plan \in plans[t], S \in SUBSET {r \in Requests : req[r].root = t} :
          /\ Clique(S)
          /\ Limit[plan] # 0 =>
               Cardinality(Uses(t)) + Cardinality(Out(t))
                 <= Limit[plan] + Cardinality(Tested(t)) + Spare(S)
    BY <1>1, <2>1 DEF OverrunInv, Within
  <2>5. Limit[plan] \in Nat /\ Spare(S) \in Nat
    <3>1. plan \in Plans /\ S \in SUBSET Requests
      BY <1>1, <2>1, <2>4, Countable
    <3> QED BY <1>1, <3>1, Countable
  <2>6. Limit[plan] # 0 =>
          Used(db, t) <= Limit[plan] + Cardinality(Tested(t)) + Spare(S)
    BY <1>1, <2>3, <2>4, <2>5, Countable
  <2> QED BY <2>4, <2>6 DEF Clique, Spare
<1>2. OverrunInv => OverrunIsInFlight
  BY <1>1 DEF OverrunIsInFlight
<1> QED BY <1>2, OverrunInit, OverrunStep, PTL DEF Spec
=============================================================================
