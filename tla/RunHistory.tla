------------------------------ MODULE RunHistory ------------------------------
(***************************************************************************)
(* PostgresStore.add_run (packages/vault/okwan_vault/postgres.py): a run's *)
(* insert prunes the history of its tenant, kind and name to the newest    *)
(* RUNS_KEPT, in one transaction.  Runs end on every surface at once, and  *)
(* under read committed an open transaction's insert is invisible to the   *)
(* prune of another.                                                       *)
(*                                                                         *)
(* A run is a number: its place in the order (finished_at, id), which need *)
(* not be the order of the inserts.  One tenant, kind and name.            *)
(***************************************************************************)
EXTENDS Naturals, FiniteSets

CONSTANTS
  Runs,      \* the runs of a behaviour, by when they finished
  RunsKept,  \* RUNS_KEPT
  PoolSize   \* connections in the pool, so transactions open at once

ASSUME HistoryAssumption ==
  /\ Runs \subseteq Nat /\ IsFiniteSet(Runs)
  /\ RunsKept \in Nat \ {0} /\ PoolSize \in Nat \ {0}

VARIABLES
  rows,     \* the committed rows
  ever,     \* every run whose add_run has committed
  pc,       \* "new", "inserted", "pruned", "done", "lost"
  deleted,  \* [run -> the rows its transaction deleted]
  waits     \* [run -> the transactions that had deleted one of them before]

historyVars == <<rows, ever, pc, deleted, waits>>

HistoryInit ==
  /\ rows = {}
  /\ ever = {}
  /\ pc = [r \in Runs |-> "new"]
  /\ deleted = [r \in Runs |-> {}]
  /\ waits = [r \in Runs |-> {}]

Open == {r \in Runs : pc[r] \in {"inserted", "pruned"}}

\* ORDER BY finished_at DESC, id DESC LIMIT RUNS_KEPT.
Newest(S) == {x \in S : Cardinality({y \in S : y > x}) < RunsKept}

Insert(r) ==
  /\ pc[r] = "new"
  /\ Cardinality(Open) < PoolSize
  /\ pc' = [pc EXCEPT ![r] = "inserted"]
  /\ UNCHANGED <<rows, ever, deleted, waits>>

\* Mutant: the prune comes before the insert.
SnapshotBeforeInsert(r) == rows

\* What the prune's snapshot holds: what was committed before it, and its own row.
Snapshot(r) == rows \cup {r}

\* Mutant: one row fewer is kept than the insert leaves.
PruneOneMore(r) ==
  /\ pc[r] = "inserted"
  /\ LET old == {x \in Snapshot(r) : Cardinality({y \in Snapshot(r) : y > x}) + 1 >= RunsKept}
     IN  /\ deleted' = [deleted EXCEPT ![r] = old]
         /\ waits' = [waits EXCEPT ![r] = {q \in Open \ {r} : deleted[q] \cap old # {}}]
  /\ pc' = [pc EXCEPT ![r] = "pruned"]
  /\ UNCHANGED <<rows, ever>>

Prune(r) ==
  /\ pc[r] = "inserted"
  /\ LET old == Snapshot(r) \ Newest(Snapshot(r))
     IN  /\ deleted' = [deleted EXCEPT ![r] = old]
         /\ waits' = [waits EXCEPT ![r] = {q \in Open \ {r} : deleted[q] \cap old # {}}]
  /\ pc' = [pc EXCEPT ![r] = "pruned"]
  /\ UNCHANGED <<rows, ever>>

\* A row another transaction deleted first is waited for.
Commit(r) ==
  /\ pc[r] = "pruned"
  /\ waits[r] \cap Open = {}
  /\ rows' = (rows \cup {r}) \ deleted[r]
  /\ ever' = ever \cup {r}
  /\ pc' = [pc EXCEPT ![r] = "done"]
  /\ UNCHANGED <<deleted, waits>>

\* The transaction fails: record_run logs it, and the run goes unrecorded.
Abort(r) ==
  /\ r \in Open
  /\ pc' = [pc EXCEPT ![r] = "lost"]
  /\ UNCHANGED <<rows, ever, deleted, waits>>

HistoryNext == \E r \in Runs : Insert(r) \/ Prune(r) \/ Commit(r) \/ Abort(r)

HistorySpec == HistoryInit /\ [][HistoryNext]_historyVars

-----------------------------------------------------------------------------
HistoryTyped ==
  /\ rows \in SUBSET Runs /\ ever \in SUBSET Runs
  /\ pc \in [Runs -> {"new", "inserted", "pruned", "done", "lost"}]
  /\ deleted \in [Runs -> SUBSET Runs]
  /\ waits \in [Runs -> SUBSET Runs]

\* "The newest 50 per (tenant, kind, name) are kept": no interleaving of
\* inserts and prunes loses one of the newest RunsKept runs ever recorded.
NewestAreKept == Newest(ever) \subseteq rows

\* The inductive form: an open transaction deleted only what it could see, and
\* nothing among the newest of what will be recorded once it commits.
PrunesOnlyOld ==
  /\ rows \subseteq ever
  /\ \A r \in Open : /\ deleted[r] \subseteq ever \cup {r}
                     /\ deleted[r] \cap Newest(ever \cup {r}) = {}
  /\ \A r \in Runs : pc[r] \in {"new", "inserted"} => deleted[r] = {}

HistoryInv == HistoryTyped /\ NewestAreKept /\ PrunesOnlyOld

\* What concurrent prunes leave behind is bounded by the pool.
OverrunIsBounded == Cardinality(rows) <= RunsKept + PoolSize - 1
=============================================================================
