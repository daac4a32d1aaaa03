-------------------------------- MODULE Imports --------------------------------
(***************************************************************************)
(* Imported files and saved mappings (apps/api/okwan_api/imports.py over   *)
(* packages/vault/okwan_vault/postgres.py): uploads of a tenant's files,   *)
(* which prune what has expired first, beside deletions, the hourly sweep, *)
(* and layouts being saved and deleted.                                    *)
(*                                                                         *)
(* A request runs statement by statement, in one transaction unless it has *)
(* a single statement.  A DELETE takes its rows one at a time, in whatever *)
(* order its plan finds them; a row another open transaction has written   *)
(* makes it wait, and Postgres fails one of those that wait on each other. *)
(* A file has the name of the upload that stored it.                       *)
(***************************************************************************)
EXTENDS Naturals, FiniteSets

CONSTANTS
  Requests,     \* the requests of a behaviour
  Sweeper,      \* the task that sweeps
  Old,          \* files stored before
  Contents,     \* a file's kind and sha256
  Names,        \* what a layout may be called
  Scenarios,    \* what the requests ask for, and what is stored first
  Chunks,       \* how many inserts a file's rows take
  LayoutsKept,  \* LAYOUTS_KEPT
  PoolSize,     \* the pool's connections
  MaxFailures,  \* bound: sweeps that fail
  None

Files == Old \cup Requests
Procs == Requests \cup {Sweeper}
Kinds == {"upload", "delete", "save", "drop"}

\* An upload carries a file and may name a layout; a deletion names a file; a
\* save or a drop names a layout.
JobType == [kind: Kinds, content: Contents \cup {None}, layout: Names \cup {None},
            file: Files \cup {None}]

ASSUME ImportsAssumption ==
  /\ Old \cap Requests = {} /\ Sweeper \notin Files
  /\ Chunks \in Nat \ {0} /\ LayoutsKept \in Nat \ {0} /\ PoolSize \in Nat \ {0}
  /\ MaxFailures \in Nat /\ IsFiniteSet(Requests) /\ None \notin Nat
  /\ \A s \in Scenarios :
       /\ s.job \in [Requests -> JobType]
       /\ s.old \in [Old -> Contents] /\ s.stored \subseteq Old
       /\ \A f, g \in Old : s.old[f] = s.old[g] => f = g
       /\ s.layouts \subseteq Names /\ IsFiniteSet(s.layouts) /\ Cardinality(s.layouts) <= LayoutsKept

VARIABLES
  job,       \* what each request asks for
  content,   \* [file -> what it holds]
  kept,      \* the import_files table: the files stored
  rows,      \* [file -> inserts of its rows in import_rows]
  expired,   \* the files past their expires_at
  layouts,   \* the import_layouts table: the names saved
  pc,        \* the statement each request, and the sweeper, runs next
  seen,      \* [process -> what had expired at its `now`]
  tx,        \* what each open transaction has written
  answer,    \* [request -> what it was told], None before
  failures   \* how many sweeps have failed

tables == <<kept, rows, layouts>>
vars   == <<job, content, tables, expired, pc, seen, tx, answer, failures>>

\* An open transaction: the files it deleted, the inserts of its own file's rows
\* (None before the file's own row).
NoTx == [takes |-> {}, inserted |-> None]

FirstStep(j) ==
  CASE j.kind = "upload" -> (IF j.layout = None THEN "now" ELSE "layout")
    [] j.kind = "delete" -> "delete"
    [] j.kind = "save"   -> "begin"
    [] j.kind = "drop"   -> "drop"

Init ==
  /\ \E s \in Scenarios :
       /\ job = s.job
       /\ kept = s.stored
       /\ content = [f \in Files |-> IF f \in Old THEN s.old[f] ELSE s.job[f].content]
       /\ layouts = s.layouts
  /\ rows = [f \in Files |-> IF f \in kept THEN Chunks ELSE 0]
  /\ expired = {}
  /\ pc = [p \in Procs |-> IF p = Sweeper THEN "idle" ELSE FirstStep(job[p])]
  /\ seen = [p \in Procs |-> {}]
  /\ tx = [p \in Procs |-> NoTx]
  /\ answer = [r \in Requests |-> None]
  /\ failures = 0

-----------------------------------------------------------------------------
At(p, step)   == pc[p] = step
Goto(p, step) == pc' = [pc EXCEPT ![p] = step]

\* Where a process holds a connection of the pool; one with a single statement
\* takes one and gives it back in a step.
InTx == {"prune", "same", "insert", "rows", "count", "upsert", "commit"}
Steps == InTx \cup {"idle", "layout", "now", "begin", "delete", "drop", "done"}
Open == {p \in Procs : pc[p] \in InTx}
HasConnection == Cardinality(Open) < PoolSize

End(r, told) ==
  /\ Goto(r, "done")
  /\ tx' = [tx EXCEPT ![r] = NoTx]
  /\ answer' = [answer EXCEPT ![r] = told]

Told(kind) == [kind |-> kind, of |-> None]

Taken(p)   == UNION {tx[q].takes : q \in Procs \ {p}}
Visible(p) == kept \ tx[p].takes

\* The files of p's content another open transaction has inserted or deleted.
Disputed(p) ==
  {q \in Requests \ {p} : tx[q].inserted # None /\ content[q] = content[p]}
    \cup {f \in Taken(p) : content[f] = content[p]}

Copies(p) == {f \in Visible(p) : content[f] = content[p]}

Cascade(files) == [f \in Files |-> IF f \in files THEN 0 ELSE rows[f]]

-----------------------------------------------------------------------------
(* POST imports.                                                             *)

\* _mapping_for a saved layout: 404 when there is none of that name.
FindLayout(r) ==
  /\ At(r, "layout")
  /\ HasConnection
  /\ IF job[r].layout \in layouts
     THEN Goto(r, "now") /\ UNCHANGED <<tx, answer>>
     ELSE End(r, Told("no layout"))
  /\ UNCHANGED <<job, content, tables, expired, seen, failures>>

\* add_import: `now` is fixed before a connection is asked for.
FixNow(r) ==
  /\ At(r, "now")
  /\ seen' = [seen EXCEPT ![r] = expired]
  /\ Goto(r, "begin")
  /\ UNCHANGED <<job, content, tables, expired, tx, answer, failures>>

Begin(p) ==
  /\ At(p, "begin")
  /\ HasConnection
  /\ Goto(p, IF p # Sweeper /\ job[p].kind = "save" THEN "count" ELSE "prune")
  /\ UNCHANGED <<job, content, tables, expired, seen, tx, answer, failures>>

Doomed(p) == (kept \cap seen[p]) \ tx[p].takes

TakeExpired(p) ==
  /\ At(p, "prune")
  /\ \E f \in Doomed(p) \ Taken(p) : tx' = [tx EXCEPT ![p].takes = @ \cup {f}]
  /\ UNCHANGED <<job, content, tables, expired, pc, seen, answer, failures>>

EndPrune(r) ==
  /\ At(r, "prune") /\ r # Sweeper
  /\ Doomed(r) = {}
  /\ Goto(r, "same")
  /\ UNCHANGED <<job, content, tables, expired, seen, tx, answer, failures>>

\* DuplicateImport: everything the transaction did is rolled back, the prune too.
\* The answer names the copy, also where the code learns only that there is one.
Refuse(r) == \E f \in Copies(r) : End(r, [kind |-> "duplicate", of |-> f])

CheckSame(r) ==
  /\ At(r, "same")
  /\ IF Copies(r) # {} THEN Refuse(r)
                       ELSE Goto(r, "insert") /\ UNCHANGED <<tx, answer>>
  /\ UNCHANGED <<job, content, tables, expired, seen, failures>>

\* Mutant: no unique index stands behind the check.
InsertFileUnguarded(r) ==
  /\ At(r, "insert")
  /\ tx' = [tx EXCEPT ![r].inserted = 0]
  /\ Goto(r, "rows")
  /\ UNCHANGED <<job, content, tables, expired, seen, answer, failures>>

\* import_files_once_idx: the insert waits for whoever inserted or deleted the
\* same file, and fails when a copy is there after all.
InsertFile(r) ==
  /\ At(r, "insert")
  /\ Disputed(r) = {}
  /\ IF Copies(r) # {}
     THEN Refuse(r)
     ELSE /\ tx' = [tx EXCEPT ![r].inserted = 0]
          /\ Goto(r, "rows")
          /\ UNCHANGED answer
  /\ UNCHANGED <<job, content, tables, expired, seen, failures>>

InsertChunk(r) ==
  /\ At(r, "rows")
  /\ tx[r].inserted < Chunks
  /\ tx' = [tx EXCEPT ![r].inserted = @ + 1]
  /\ UNCHANGED <<job, content, tables, expired, pc, seen, answer, failures>>

Stored(r) ==
  /\ kept' = (kept \ tx[r].takes) \cup {r}
  /\ rows' = [Cascade(tx[r].takes) EXCEPT ![r] = tx[r].inserted]
  /\ End(r, Told("stored"))
  /\ UNCHANGED <<job, content, layouts, expired, seen, failures>>

\* Mutant: each chunk is a transaction of its own.
CommitUploadByChunk(r) == At(r, "rows") /\ tx[r].inserted > 0 /\ Stored(r)

CommitUpload(r) == At(r, "rows") /\ tx[r].inserted = Chunks /\ Stored(r)

-----------------------------------------------------------------------------
\* DELETE imports/{file_id}: one statement; a file that is gone answers 404.
DeleteImport(r) ==
  /\ At(r, "delete")
  /\ HasConnection
  /\ job[r].file \notin Taken(r)
  /\ kept' = kept \ {job[r].file}
  /\ rows' = Cascade({job[r].file})
  /\ End(r, Told(IF job[r].file \in kept THEN "deleted" ELSE "no file"))
  /\ UNCHANGED <<job, content, layouts, expired, seen, failures>>

\* sweeper: a round begins, now or an interval after the last.
Wake ==
  /\ At(Sweeper, "idle")
  /\ expired \cap kept # {}
  /\ seen' = [seen EXCEPT ![Sweeper] = expired]
  /\ Goto(Sweeper, "begin")
  /\ UNCHANGED <<job, content, tables, expired, tx, answer, failures>>

EndSweep ==
  /\ At(Sweeper, "prune")
  /\ Doomed(Sweeper) = {}
  /\ kept' = kept \ tx[Sweeper].takes
  /\ rows' = Cascade(tx[Sweeper].takes)
  /\ tx' = [tx EXCEPT ![Sweeper] = NoTx]
  /\ Goto(Sweeper, "idle")
  /\ UNCHANGED <<job, content, layouts, expired, seen, answer, failures>>

-----------------------------------------------------------------------------
(* PUT and DELETE import-layouts/{name}.                                     *)

Name(r) == job[r].layout

\* Mutant: one mapping too many is let through.
CountLayoutsOneMore(r) ==
  /\ At(r, "count")
  /\ IF Cardinality(layouts \ {Name(r)}) > LayoutsKept
     THEN End(r, Told("too many"))
     ELSE Goto(r, "upsert") /\ UNCHANGED <<tx, answer>>
  /\ UNCHANGED <<job, content, tables, expired, seen, failures>>

CountLayouts(r) ==
  /\ At(r, "count")
  /\ IF Cardinality(layouts \ {Name(r)}) >= LayoutsKept
     THEN End(r, Told("too many"))
     ELSE Goto(r, "upsert") /\ UNCHANGED <<tx, answer>>
  /\ UNCHANGED <<job, content, tables, expired, seen, failures>>

\* The upsert waits for another of the same name.
Upsert(r) ==
  /\ At(r, "upsert")
  /\ \A q \in Requests \ {r} : ~(At(q, "commit") /\ Name(q) = Name(r))
  /\ Goto(r, "commit")
  /\ UNCHANGED <<job, content, tables, expired, seen, tx, answer, failures>>

CommitLayout(r) ==
  /\ At(r, "commit")
  /\ layouts' = layouts \cup {Name(r)}
  /\ End(r, Told("saved"))
  /\ UNCHANGED <<job, content, kept, rows, expired, seen, failures>>

\* The deletion waits for an upsert of the name, like the upsert.
DropLayout(r) ==
  /\ At(r, "drop")
  /\ HasConnection
  /\ \A q \in Requests : ~(At(q, "commit") /\ Name(q) = Name(r))
  /\ layouts' = layouts \ {Name(r)}
  /\ End(r, Told(IF Name(r) \in layouts THEN "deleted" ELSE "no layout"))
  /\ UNCHANGED <<job, content, kept, rows, expired, seen, failures>>

-----------------------------------------------------------------------------
(* Failures, and time.                                                       *)

\* Mutant: a sweep that fails ends the sweeper.
RollBackForGood(p) ==
  IF p = Sweeper
  THEN Goto(p, "done") /\ tx' = [tx EXCEPT ![p] = NoTx] /\ UNCHANGED answer
  ELSE End(p, Told("error"))

\* The transaction rolls back: a request answers 500, a sweep waits a round.
RollBack(p) ==
  IF p = Sweeper
  THEN Goto(p, "idle") /\ tx' = [tx EXCEPT ![p] = NoTx] /\ UNCHANGED answer
  ELSE End(p, Told("error"))

Fail(p) ==
  /\ p \in Open
  /\ IF p = Sweeper THEN failures < MaxFailures /\ failures' = failures + 1
                    ELSE UNCHANGED failures
  /\ RollBack(p)
  /\ UNCHANGED <<job, content, tables, expired, seen>>

\* What p's next statement waits for holds a row of q.
WaitsFor(p, q) ==
  /\ p # q
  /\ \/ At(p, "prune") /\ Doomed(p) # {} /\ Doomed(p) \subseteq Taken(p)
          /\ tx[q].takes \cap Doomed(p) # {}
     \/ At(p, "insert") /\ (q \in Disputed(p) \/ tx[q].takes \cap Disputed(p) # {})

\* Postgres fails one of the transactions that wait on each other.
FailDeadlocked(p) ==
  /\ \E S \in SUBSET Open : p \in S /\ \A x \in S : \E y \in S : WaitsFor(x, y)
  /\ RollBack(p)
  /\ UNCHANGED <<job, content, tables, expired, seen, failures>>

Expire(f) ==
  /\ f \in kept \ expired
  /\ expired' = expired \cup {f}
  /\ UNCHANGED <<job, content, tables, pc, seen, tx, answer, failures>>

Upload(r) ==
  \/ FindLayout(r) \/ FixNow(r) \/ Begin(r) \/ TakeExpired(r) \/ EndPrune(r)
  \/ CheckSame(r) \/ InsertFile(r) \/ InsertChunk(r) \/ CommitUpload(r)

Layout(r) == CountLayouts(r) \/ Upsert(r) \/ CommitLayout(r) \/ DropLayout(r)
Step(r)   == Upload(r) \/ DeleteImport(r) \/ Layout(r) \/ FailDeadlocked(r)

Sweep == Wake \/ Begin(Sweeper) \/ TakeExpired(Sweeper) \/ EndSweep \/ FailDeadlocked(Sweeper)

Next ==
  \/ \E r \in Requests : Step(r)
  \/ Sweep
  \/ \E p \in Procs : Fail(p)
  \/ \E f \in Files : Expire(f)

Spec == Init /\ [][Next]_vars

\* Handlers and the sweeper's loop go on; nothing makes a file expire or fail.
FairSpec == Spec /\ WF_vars(Sweep) /\ \A r \in Requests : WF_vars(Step(r))

-----------------------------------------------------------------------------
\* "The same file twice for the same kind is refused, not doubled": its rows
\* would be read as two payments.
OneCopy == \A f, g \in kept : content[f] = content[g] => f = g

\* What makes OneCopy inductive: past its insert, an upload has deleted every copy
\* there was, and the unique index keeps the others from their inserts.
FileInv ==
  /\ kept \subseteq Files
  /\ pc \in [Procs -> Steps]
  /\ tx \in [Procs -> [takes: SUBSET Files, inserted: Nat \cup {None}]]
  /\ OneCopy
  /\ \A r \in Requests : At(r, "rows") => tx[r].inserted \in Nat /\ Copies(r) = {}
  /\ \A q, r \in Requests :
       At(q, "rows") /\ At(r, "rows") /\ content[q] = content[r] => q = r

\* What an upload was told is true.  "The mapped file and its rows in one
\* transaction": one told it is stored is there, with every row, until it expires
\* or is deleted on request, and a file that is not there has no rows, however it
\* went or failed.  "Reads skip an expired file, an upload prunes": one refused as
\* already imported has a copy that had not expired when it was asked for.
AnswersAreTrue ==
  /\ \A f \in Files : rows[f] = IF f \in kept THEN Chunks ELSE 0
  /\ \A r \in Requests : answer[r] # None =>
       /\ answer[r].kind = "stored" =>
            r \in kept \cup expired \cup {job[q].file : q \in Requests}
       /\ answer[r].kind = "duplicate" => answer[r].of \notin seen[r]

\* Two saves at the limit may both pass it; no more do than the pool lets run.
LayoutsBounded == Cardinality(layouts) <= LayoutsKept + PoolSize - 1

\* What makes LayoutsBounded inductive: a save that passed the count holds one of
\* the pool's connections, and its name is counted with those that are saved.
Passed == {r \in Requests : pc[r] \in {"upsert", "commit"}}
Taking == layouts \cup {Name(r) : r \in Passed}

PoolTyped == pc \in [Procs -> Steps] /\ IsFiniteSet(layouts)
LInv ==
  /\ PoolTyped
  /\ Cardinality(Open) <= PoolSize
  /\ Cardinality(Taking) <= LayoutsKept + PoolSize - 1

\* "A missed sweep delays deletion": an expired file goes in the end, through
\* failed sweeps and whatever the uploads hold.
ExpiredGoes == \A f \in Files : (f \in expired /\ f \in kept) ~> (f \notin kept)
=============================================================================
