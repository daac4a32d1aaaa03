----------------------------- MODULE MachineProofs -----------------------------
(***************************************************************************)
(* Nine small machines, each for every value of its constants: the history *)
(* of runs keeps its newest and stays bounded, the HTTP client stays       *)
(* within twice its rate, the rate limiter holds its limits and lifts      *)
(* them, the cache of runs serves a tenant its own, recent ones, the fold  *)
(* across rails reports nothing that no rail took, the pages of a result   *)
(* are one result, the plan is what is paid for, the subset search finds   *)
(* enough, and a settlement is counted in bank days.                       *)
(***************************************************************************)
EXTENDS RunHistory, OkwanClient, RateLimiter, RunReuse, AcrossFold, SubsetSearch, BankDays,
        ResultPages, Billing,
        FiniteSetTheorems, SequenceTheorems, WellFoundedInduction, TLAPS

Lower == {p \in Nat \X Nat : p[1] < p[2]}

\* A set of naturals that is not empty has a least.
LEMMA OldestExists ==
  ASSUME NEW S \in SUBSET Nat, S # {}
  PROVE  \E m \in S : \A x \in S : m <= x
<1>1. IsWellFoundedOn(Lower, Nat)
  BY NatLessThanWellFounded DEF OpToRel, Lower
<1>2. PICK m \in S : \A x \in S : ~(<<x, m>> \in Lower)
  BY <1>1, WFMin
<1>3. ASSUME NEW x \in S PROVE m <= x
  <2>1. <<x, m>> \in Nat \X Nat
    OBVIOUS
  <2>2. ~(x < m)
    BY <1>2, <2>1 DEF Lower
  <2> QED BY <2>1, <2>2
<1> QED BY <1>3

\* The least and the greatest of two.
LEMMA MinMax ==
  ASSUME NEW x \in Int, NEW y \in Int
  PROVE  /\ Min({x, y}) = IF x <= y THEN x ELSE y
         /\ Max({x, y}) = IF x <= y THEN y ELSE x
<1>1. Min({x, y}) = CHOOSE z \in {x, y} : \A w \in {x, y} : z <= w
  BY DEF Min
<1>2. Max({x, y}) = CHOOSE z \in {x, y} : \A w \in {x, y} : z >= w
  BY DEF Max
<1>3. \E z \in {x, y} : \A w \in {x, y} : z <= w
  OBVIOUS
<1>4. \E z \in {x, y} : \A w \in {x, y} : z >= w
  OBVIOUS
<1> QED BY <1>1, <1>2, <1>3, <1>4

-----------------------------------------------------------------------------
(***************************************************************************)
(* The history of runs: concurrent inserts and prunes never lose one of    *)
(* the newest RunsKept runs, and never leave more on top of them than the  *)
(* pool has other connections.                                             *)
(***************************************************************************)
(* A member of a part that is among the newest of the whole is among the    *)
(* newest of the part.                                                      *)
LEMMA NewestOfPart ==
  ASSUME NEW S, NEW T, S \subseteq T, IsFiniteSet(T), NEW x \in S, x \in Newest(T)
  PROVE  x \in Newest(S)
<1> DEFINE newerS == {y \in S : y > x}
           newerT == {y \in T : y > x}
<1>1. newerS \subseteq newerT
  OBVIOUS
<1>2. IsFiniteSet(newerT)
  BY FS_Subset, newerT \subseteq T
<1>3. /\ Cardinality(newerS) <= Cardinality(newerT)
      /\ Cardinality(newerS) \in Nat /\ Cardinality(newerT) \in Nat
  BY <1>1, <1>2, FS_Subset, FS_CardinalityType
<1>4. Cardinality(newerT) < RunsKept
  BY DEF Newest
<1>5. Cardinality(newerS) < RunsKept
  BY <1>3, <1>4, HistoryAssumption
<1> QED
  BY <1>5 DEF Newest

(* Subsets of Runs are finite.                                              *)
LEMMA FiniteRuns == ASSUME NEW S, S \subseteq Runs PROVE IsFiniteSet(S)
  BY HistoryAssumption, FS_Subset

(* At first there is no history.                                            *)
LEMMA HistoryStarts == HistoryInit => HistoryInv
<1> SUFFICES ASSUME HistoryInit PROVE HistoryInv
  OBVIOUS
<1>1. HistoryTyped
  BY DEF HistoryInit, HistoryTyped
<1>2. NewestAreKept
  BY DEF HistoryInit, NewestAreKept, Newest
<1>3. PrunesOnlyOld
  BY DEF HistoryInit, PrunesOnlyOld, Open
<1> QED
  BY <1>1, <1>2, <1>3 DEF HistoryInv

(* The transaction deletes only what is old in its own view, so only what   *)
(* is old in the whole history it will join.                                *)
LEMMA PruneKeepsInvariant ==
  ASSUME HistoryInv, NEW r \in Runs, Prune(r)
  PROVE  HistoryInv'
<1> DEFINE old == Snapshot(r) \ Newest(Snapshot(r))
<1> USE DEF HistoryInv, HistoryTyped
<1>1. old \subseteq Runs /\ deleted' = [deleted EXCEPT ![r] = old]
  BY DEF Prune, Snapshot
<1>2. HistoryTyped'
  <2>1. waits' \in [Runs -> SUBSET Runs]
    BY DEF Prune, Open
  <2>2. pc' \in [Runs -> {"new", "inserted", "pruned", "done", "lost"}]
    BY DEF Prune
  <2> QED
    BY <1>1, <2>1, <2>2 DEF Prune
<1>3. NewestAreKept'
  BY DEF Prune, NewestAreKept, Newest
<1>4. old \cap Newest(ever \cup {r}) = {}
  <2> SUFFICES ASSUME NEW x \in old, x \in Newest(ever \cup {r}) PROVE FALSE
    OBVIOUS
  <2>1. Snapshot(r) \subseteq ever \cup {r}
    BY DEF Snapshot, PrunesOnlyOld
  <2>2. IsFiniteSet(ever \cup {r})
    BY FiniteRuns, ever \cup {r} \subseteq Runs
  <2>3. x \in Newest(Snapshot(r))
    BY <2>1, <2>2, NewestOfPart
  <2> QED
    BY <2>3
<1>5. PrunesOnlyOld'
  <2>1. rows' \subseteq ever'
    BY DEF Prune, PrunesOnlyOld
  <2>2. ASSUME NEW q \in Open'
        PROVE  deleted'[q] \subseteq ever' \cup {q} /\ deleted'[q] \cap Newest(ever' \cup {q}) = {}
    <3>1. CASE q = r
      BY <1>1, <1>4, <3>1 DEF Prune, Newest, Snapshot, PrunesOnlyOld
    <3>2. CASE q # r
      <4>1. q \in Open /\ deleted'[q] = deleted[q]
        BY <1>1, <3>2, <2>2 DEF Prune, Open
      <4> QED
        BY <4>1 DEF Prune, PrunesOnlyOld, Newest
    <3> QED
      BY <3>1, <3>2
  <2>3. ASSUME NEW q \in Runs, pc'[q] \in {"new", "inserted"} PROVE deleted'[q] = {}
    BY <1>1, <2>3 DEF Prune, PrunesOnlyOld
  <2> QED
    BY <2>1, <2>2, <2>3 DEF PrunesOnlyOld
<1> QED
  BY <1>2, <1>3, <1>5

(* The history grows by one; what is newest in it was newest before, and    *)
(* no open transaction has deleted it.                                      *)
LEMMA CommitKeepsInvariant ==
  ASSUME HistoryInv, NEW r \in Runs, Commit(r)
  PROVE  HistoryInv'
<1> USE DEF HistoryInv, HistoryTyped
<1>1. HistoryTyped'
  BY DEF Commit
<1>2. /\ ever' = ever \cup {r} /\ rows' = (rows \cup {r}) \ deleted[r]
      /\ deleted' = deleted /\ pc' = [pc EXCEPT ![r] = "done"] /\ r \in Open
  BY DEF Commit, Open
<1>3. NewestAreKept'
  <2> SUFFICES ASSUME NEW x \in Newest(ever \cup {r}) PROVE x \in rows'
    BY <1>2 DEF NewestAreKept, Newest
  <2>1. x \notin deleted[r]
    BY <1>2 DEF PrunesOnlyOld
  <2>2. CASE x = r
    BY <1>2, <2>1, <2>2
  <2>3. CASE x # r
    <3>1. x \in ever
      BY <2>3 DEF Newest
    <3>2. IsFiniteSet(ever \cup {r})
      BY FiniteRuns, ever \cup {r} \subseteq Runs
    <3>3. x \in Newest(ever)
      BY <3>1, <3>2, NewestOfPart
    <3> QED
      BY <1>2, <2>1, <3>3 DEF NewestAreKept
  <2> QED
    BY <2>2, <2>3
<1>4. ASSUME NEW q \in Open'
      PROVE  deleted'[q] \subseteq ever' \cup {q} /\ deleted'[q] \cap Newest(ever' \cup {q}) = {}
  <2>1. q \in Open /\ deleted[q] \subseteq ever \cup {q}
    BY <1>2, <1>4 DEF Open, PrunesOnlyOld
  <2> SUFFICES ASSUME NEW x \in deleted[q], x \in Newest(ever' \cup {q}) PROVE FALSE
    BY <1>2, <2>1
  <2>2. IsFiniteSet(ever' \cup {q})
    BY <1>2, FiniteRuns, ever' \cup {q} \subseteq Runs DEF Open
  <2>3. x \in Newest(ever \cup {q})
    BY <1>2, <2>1, <2>2, NewestOfPart, ever \cup {q} \subseteq ever' \cup {q}
  <2> QED
    BY <2>1, <2>3 DEF PrunesOnlyOld
<1>5. PrunesOnlyOld'
  <2>1. rows' \subseteq ever'
    BY <1>2 DEF PrunesOnlyOld
  <2>2. ASSUME NEW q \in Runs, pc'[q] \in {"new", "inserted"} PROVE deleted'[q] = {}
    <3>1. pc[q] \in {"new", "inserted"}
      BY <1>2, <2>2
    <3> QED
      BY <1>2, <3>1 DEF PrunesOnlyOld
  <2> QED
    BY <1>4, <2>1, <2>2 DEF PrunesOnlyOld
<1> QED
  BY <1>1, <1>3, <1>5

(* Every step keeps HistoryInv, one case per action.                              *)
LEMMA HistoryStep == HistoryInv /\ [HistoryNext]_historyVars => HistoryInv'
<1> SUFFICES ASSUME HistoryInv, [HistoryNext]_historyVars PROVE HistoryInv'
  OBVIOUS
<1>1. ASSUME NEW r \in Runs, Insert(r) PROVE HistoryInv'
  <2> USE DEF HistoryInv, HistoryTyped
  <2>1. HistoryTyped' /\ NewestAreKept'
    BY <1>1 DEF Insert, NewestAreKept, Newest
  <2>2. \A q \in Open' : /\ deleted'[q] \subseteq ever' \cup {q}
                         /\ deleted'[q] \cap Newest(ever' \cup {q}) = {}
    <3> SUFFICES ASSUME NEW q \in Open'
                 PROVE  /\ deleted[q] \subseteq ever \cup {q}
                        /\ deleted[q] \cap Newest(ever \cup {q}) = {}
      BY <1>1 DEF Insert, Newest
    <3>1. CASE q = r
      BY <1>1, <3>1 DEF Insert, PrunesOnlyOld
    <3>2. CASE q # r
      BY <1>1, <3>2 DEF Insert, PrunesOnlyOld, Open
    <3> QED
      BY <3>1, <3>2
  <2>3. PrunesOnlyOld'
    BY <1>1, <2>2 DEF Insert, PrunesOnlyOld
  <2> QED
    BY <2>1, <2>3
<1>2. ASSUME NEW r \in Runs, Abort(r) PROVE HistoryInv'
  BY <1>2 DEF Abort, HistoryInv, HistoryTyped, NewestAreKept, PrunesOnlyOld, Newest, Open
<1>3. CASE UNCHANGED historyVars
  BY <1>3 DEF historyVars, HistoryInv, HistoryTyped, NewestAreKept, PrunesOnlyOld, Newest, Open
<1> QED
  BY <1>1, <1>2, <1>3, PruneKeepsInvariant, CommitKeepsInvariant DEF HistoryNext

(* "The newest 50 per (tenant, kind, name) are kept": whatever interleaves  *)
(* with an insert, none of the newest RunsKept runs ever recorded is lost.  *)
THEOREM NewestSurvive == HistorySpec => []HistoryInv
  BY HistoryStarts, HistoryStep, PTL DEF HistorySpec
-----------------------------------------------------------------------------
(* The overrun.                                                             *)

(* Sets of runs: parts are no larger, and a run more or less counts one.    *)
LEMMA Sizes ==
  ASSUME NEW S \in SUBSET Runs
  PROVE  /\ IsFiniteSet(S) /\ Cardinality(S) \in Nat
         /\ \A T \in SUBSET S : Cardinality(T) <= Cardinality(S)
         /\ \A x \in Runs \ S : Cardinality(S \cup {x}) = Cardinality(S) + 1
         /\ \A x \in Runs : Cardinality(S \cup {x}) <= Cardinality(S) + 1
         /\ \A x \in S : Cardinality(S \ {x}) = Cardinality(S) - 1
<1>1. IsFiniteSet(S) /\ Cardinality(S) \in Nat
  BY FiniteRuns, FS_CardinalityType
<1>2. \A x : Cardinality(S \cup {x}) = IF x \in S THEN Cardinality(S) ELSE Cardinality(S) + 1
  BY <1>1, FS_AddElement
<1>3. \A x : x \in S => Cardinality(S \ {x}) = Cardinality(S) - 1
  BY <1>1, FS_RemoveElement
<1>4. \A T \in SUBSET S : Cardinality(T) <= Cardinality(S)
  BY <1>1, FS_Subset
<1> QED BY <1>1, <1>2, <1>3, <1>4

(* The newest of a set are no more than RunsKept: those above the oldest of *)
(* them are fewer.                                                          *)
LEMMA NewestAreFew ==
  ASSUME NEW S \in SUBSET Runs
  PROVE  Cardinality(Newest(S)) <= RunsKept
<1>1. Newest(S) \in SUBSET S /\ Newest(S) \in SUBSET Runs /\ Newest(S) \in SUBSET Nat
  BY HistoryAssumption DEF Newest, HistoryAssumption
<1>2. RunsKept \in Nat \ {0}
  BY HistoryAssumption DEF HistoryAssumption
<1>3. CASE Newest(S) = {}
  BY <1>2, <1>3, FS_EmptySet
<1>4. CASE Newest(S) # {}
  <2>1. PICK m \in Newest(S) : \A x \in Newest(S) : m <= x
    BY <1>1, <1>4, OldestExists
  <2> DEFINE above == {y \in S : y > m}
  <2>2. Cardinality(above) < RunsKept
    BY <2>1 DEF Newest
  <2>3. \A x \in Newest(S) : x \in above \cup {m}
    BY <1>1, <2>1
  <2> HIDE DEF above
  <2>4. above \in SUBSET Runs /\ m \in Runs
    BY <1>1, <2>1 DEF above
  <2>5. above \cup {m} \in SUBSET Runs /\ Cardinality(above \cup {m}) <= Cardinality(above) + 1
    BY <2>4, Sizes
  <2>6. Cardinality(Newest(S)) <= Cardinality(above \cup {m})
    BY <2>3, <2>5, Sizes
  <2> QED BY <1>1, <1>2, <2>2, <2>4, <2>5, <2>6, Sizes
<1> QED BY <1>3, <1>4

(* Those between their prune and their commit, and what may be left.        *)
Pruned == {r \in Runs : pc[r] = "pruned"}
Bound == RunsKept + PoolSize - 1

(* The transactions that have pruned, in the order of their prunes: before  *)
(* each, and before the last one that committed, those still open whose     *)
(* row it could not see and may come on top of what it left.                *)
PruneOrdered(before, last) ==
  /\ before \in [Runs -> SUBSET Runs]
  /\ last \subseteq Pruned
  /\ Cardinality(rows) + Cardinality(last) <= Bound
  /\ \A p \in Pruned :
       /\ before[p] \subseteq Pruned \ {p}
       /\ Cardinality((rows \cup {p}) \ deleted[p]) + Cardinality(before[p]) <= Bound
       /\ \A q \in Pruned \ {p} : p \in before[q] \/ q \in before[p]
       /\ \A q \in Pruned : p \in before[q] => before[p] \subseteq before[q]

(* The inductive invariant: such an order of the open transactions exists.  *)
OInv ==
  /\ HistoryTyped
  /\ Cardinality(Open) <= PoolSize
  /\ \E before, last : PruneOrdered(before, last)

(* A prune comes last, and leaves at most RunsKept beside those before it.  *)
LEMMA PruneKeepsOrder ==
  ASSUME OInv, NEW r \in Runs, Prune(r), HistoryTyped'
  PROVE  OInv'
<1>1. PICK before, last : PruneOrdered(before, last)
  BY DEF OInv
<1> DEFINE view == rows \cup {r}
<1>2. /\ pc[r] = "inserted" /\ pc' = [pc EXCEPT ![r] = "pruned"] /\ rows' = rows
      /\ deleted'[r] = view \ Newest(view)
      /\ \A q \in Runs \ {r} : deleted'[q] = deleted[q]
  BY DEF Prune, Snapshot, OInv, HistoryTyped
<1>3. /\ r \in Open /\ r \notin Pruned /\ Open' = Open /\ Pruned' = Pruned \cup {r}
      /\ Pruned \cup {r} \subseteq Open /\ Open \subseteq Runs /\ Pruned \subseteq Runs
  BY <1>2 DEF Open, Pruned, OInv, HistoryTyped
<1>4. Cardinality(Pruned) + 1 <= PoolSize
  BY <1>3, Sizes, HistoryAssumption DEF OInv, HistoryAssumption
<1>5. Cardinality((rows' \cup {r}) \ deleted'[r]) <= RunsKept
  <2>1. view \in SUBSET Runs
    BY DEF OInv, HistoryTyped
  <2>2. (rows' \cup {r}) \ deleted'[r] = Newest(view)
    BY <1>2 DEF Newest
  <2> HIDE DEF view
  <2> QED BY <2>1, <2>2, NewestAreFew
<1>6. Cardinality((rows' \cup {r}) \ deleted'[r]) \in Nat /\ Cardinality(Pruned) \in Nat
  <2>1. (rows' \cup {r}) \ deleted'[r] \in SUBSET Runs
    BY DEF HistoryTyped
  <2> QED BY <1>3, <2>1, Sizes
<1>7. PICK next : next = [before EXCEPT ![r] = Pruned]
  OBVIOUS
<1>8. PruneOrdered(next, last)'
  <2>1. /\ next[r] = Pruned /\ \A q \in Runs \ {r} : next[q] = before[q]
        /\ next \in [Runs -> SUBSET Runs]
    BY <1>1, <1>3, <1>7 DEF PruneOrdered
  <2>2. Cardinality((rows' \cup {r}) \ deleted'[r]) + Cardinality(next[r]) <= Bound
    BY <1>4, <1>5, <1>6, <2>1, HistoryAssumption DEF Bound, HistoryAssumption
  <2>3. ASSUME NEW p \in Pruned
        PROVE  /\ next[p] = before[p] /\ deleted'[p] = deleted[p] /\ p # r
               /\ before[p] \subseteq Pruned \ {p}
    BY <1>1, <1>2, <1>3, <2>1, <2>3 DEF PruneOrdered
  <2>4. ASSUME NEW p \in Pruned'
        PROVE  /\ next[p] \subseteq Pruned' \ {p}
               /\ Cardinality((rows' \cup {p}) \ deleted'[p]) + Cardinality(next[p]) <= Bound
               /\ \A q \in Pruned' \ {p} : p \in next[q] \/ q \in next[p]
               /\ \A q \in Pruned' : p \in next[q] => next[p] \subseteq next[q]
    <3>1. CASE p = r
      BY <1>3, <2>1, <2>2, <2>3, <3>1
    <3>2. CASE p # r
      BY <1>1, <1>2, <1>3, <2>1, <2>3, <2>4, <3>2 DEF PruneOrdered
    <3> QED BY <3>1, <3>2
  <2> QED BY <1>1, <1>2, <1>3, <2>1, <2>4 DEF PruneOrdered
<1> QED BY <1>3, <1>8 DEF OInv

(* A transaction that ends is nobody's elder any more.                      *)
LEMMA EndKeepsOrder ==
  ASSUME OInv, NEW r \in Runs, Commit(r) \/ Abort(r), HistoryTyped'
  PROVE  OInv'
<1>1. PICK before, last : PruneOrdered(before, last)
  BY DEF OInv
<1> DEFINE next == [q \in Runs |-> before[q] \ {r}]
<1>2. /\ Pruned' = Pruned \ {r} /\ Open' \subseteq Open /\ Open \subseteq Runs
      /\ Pruned \subseteq Runs /\ deleted' = deleted
  BY DEF Commit, Abort, Open, Pruned, OInv, HistoryTyped
<1>3. Cardinality(Open') <= PoolSize
  BY <1>2, Sizes, HistoryAssumption DEF OInv, HistoryAssumption
<1>4. /\ next \in [Runs -> SUBSET Runs]
      /\ \A p \in Pruned' :
           /\ next[p] \subseteq Pruned' \ {p}
           /\ \A q \in Pruned' \ {p} : p \in next[q] \/ q \in next[p]
           /\ \A q \in Pruned' : p \in next[q] => next[p] \subseteq next[q]
  BY <1>1, <1>2 DEF PruneOrdered
<1>5. \A p \in Pruned : /\ before[p] \in SUBSET Runs /\ next[p] = before[p] \ {r}
                        /\ Cardinality(before[p]) \in Nat /\ Cardinality(next[p]) \in Nat
                        /\ Cardinality(next[p]) <= Cardinality(before[p])
                        /\ r \in before[p] => Cardinality(next[p]) = Cardinality(before[p]) - 1
  BY <1>1, <1>2, Sizes DEF PruneOrdered
<1> HIDE DEF next
<1>6. rows \subseteq Runs /\ rows' \subseteq Runs /\ last \subseteq Runs /\ Bound \in Nat
  BY <1>1, <1>2, HistoryAssumption DEF OInv, HistoryTyped, PruneOrdered, Bound, HistoryAssumption
<1>7. CASE Abort(r)
  <2>1. rows' = rows
    BY <1>7 DEF Abort
  <2>2. Cardinality(rows) + Cardinality(last \ {r}) <= Bound
    BY <1>1, <1>6, Sizes DEF PruneOrdered
  <2>3. ASSUME NEW p \in Pruned'
        PROVE  Cardinality((rows' \cup {p}) \ deleted'[p]) + Cardinality(next[p]) <= Bound
    <3>1. (rows \cup {p}) \ deleted[p] \in SUBSET Runs
      BY <1>2, <1>6
    <3>2. Cardinality((rows \cup {p}) \ deleted[p]) \in Nat
      BY <3>1, Sizes
    <3>3. Cardinality((rows \cup {p}) \ deleted[p]) + Cardinality(before[p]) <= Bound
      BY <1>1, <1>2 DEF PruneOrdered
    <3> QED BY <1>2, <1>5, <1>6, <2>1, <3>2, <3>3
  <2>4. PruneOrdered(next, last \ {r})'
    BY <1>1, <1>2, <1>4, <2>1, <2>2, <2>3 DEF PruneOrdered
  <2> QED BY <1>3, <2>4 DEF OInv
<1>8. CASE Commit(r)
  <2>1. rows' = (rows \cup {r}) \ deleted[r] /\ r \in Pruned
    BY <1>8 DEF Commit, Pruned
  <2>2. /\ Cardinality(rows') + Cardinality(before[r]) <= Bound
        /\ before[r] \subseteq Pruned'
    BY <1>1, <1>2, <2>1 DEF PruneOrdered
  <2>3. ASSUME NEW p \in Pruned'
        PROVE  Cardinality((rows' \cup {p}) \ deleted'[p]) + Cardinality(next[p]) <= Bound
    <3> DEFINE old == (rows \cup {p}) \ deleted[p]
               new == (rows' \cup {p}) \ deleted'[p]
    <3>1. p \in Pruned /\ p # r /\ old \in SUBSET Runs /\ new \in SUBSET Runs
      BY <1>2, <1>6
    <3>2. Cardinality(old) \in Nat /\ Cardinality(new) \in Nat /\ Cardinality(rows') \in Nat
      BY <1>6, <3>1, Sizes
    <3>3. CASE r \in before[p]
      <4>1. new \subseteq old \cup {r} /\ old \cup {r} \in SUBSET Runs
        BY <1>2, <2>1, <3>1
      <4>2. Cardinality(old) + Cardinality(before[p]) <= Bound
        BY <1>1, <3>1 DEF PruneOrdered
      <4> HIDE DEF old, new
      <4>3. Cardinality(new) <= Cardinality(old) + 1
        <5>1. Cardinality(new) <= Cardinality(old \cup {r})
          BY <4>1, Sizes
        <5>2. Cardinality(old \cup {r}) <= Cardinality(old) + 1 /\ Cardinality(old \cup {r}) \in Nat
          BY <3>1, <4>1, Sizes
        <5> QED BY <3>2, <5>1, <5>2
      <4> QED BY <1>5, <1>6, <3>1, <3>2, <3>3, <4>2, <4>3 DEF new
    <3>4. CASE r \notin before[p]
      <4>1. p \in before[r] /\ before[p] \subseteq before[r] /\ p \notin before[p]
        BY <1>1, <2>1, <3>1, <3>4 DEF PruneOrdered
      <4>2. Cardinality(before[p]) + 1 <= Cardinality(before[r])
        <5>1. before[p] \cup {p} \in SUBSET before[r]
          BY <4>1
        <5>2. Cardinality(before[p] \cup {p}) = Cardinality(before[p]) + 1
          BY <1>2, <1>5, <3>1, <4>1, Sizes
        <5>3. Cardinality(before[p] \cup {p}) <= Cardinality(before[r])
          BY <1>5, <2>1, <5>1, Sizes
        <5> QED BY <5>2, <5>3
      <4>3. Cardinality(new) <= Cardinality(rows') + 1
        <5>1. new \subseteq rows' \cup {p} /\ rows' \cup {p} \in SUBSET Runs
          BY <1>2, <1>6, <3>1
        <5>2. Cardinality(new) <= Cardinality(rows' \cup {p})
          BY <5>1, Sizes
        <5>3. /\ Cardinality(rows' \cup {p}) <= Cardinality(rows') + 1
              /\ Cardinality(rows' \cup {p}) \in Nat
          BY <1>2, <1>6, <3>1, <5>1, Sizes
        <5> HIDE DEF new
        <5> QED BY <3>2, <5>2, <5>3
      <4> HIDE DEF old, new
      <4> QED BY <1>5, <1>6, <2>1, <2>2, <3>1, <3>2, <4>2, <4>3 DEF new
    <3> QED BY <3>3, <3>4
  <2>4. PruneOrdered(next, before[r])'
    BY <1>1, <1>2, <1>4, <2>2, <2>3 DEF PruneOrdered
  <2> QED BY <1>3, <2>4 DEF OInv
<1> QED BY <1>7, <1>8

(* An insert waits for a connection.                                        *)
LEMMA InsertKeepsOrder ==
  ASSUME OInv, NEW r \in Runs, Insert(r), HistoryTyped'
  PROVE  OInv'
<1>1. PICK before, last : PruneOrdered(before, last)
  BY DEF OInv
<1>2. /\ Pruned' = Pruned /\ Open' = Open \cup {r} /\ Open \subseteq Runs /\ rows' = rows
      /\ deleted' = deleted /\ Cardinality(Open) < PoolSize
  BY DEF Insert, Open, Pruned, OInv, HistoryTyped
<1>3. Cardinality(Open') <= PoolSize
  BY <1>2, Sizes, HistoryAssumption DEF HistoryAssumption
<1>4. PruneOrdered(before, last)'
  BY <1>1, <1>2 DEF PruneOrdered
<1> QED BY <1>3, <1>4 DEF OInv

(* Every step keeps OInv, one case per action.                              *)
LEMMA OverrunStep == OInv /\ HistoryTyped' /\ [HistoryNext]_historyVars => OInv'
<1> SUFFICES ASSUME OInv, HistoryTyped', [HistoryNext]_historyVars PROVE OInv'
  OBVIOUS
<1>1. CASE UNCHANGED historyVars
  BY <1>1 DEF historyVars, OInv, PruneOrdered, Pruned, Open
<1> QED
  BY <1>1, PruneKeepsOrder, EndKeepsOrder, InsertKeepsOrder DEF HistoryNext

(* At first there are no rows and no transactions.                          *)
LEMMA OverrunInit == HistoryInit => OInv
<1> SUFFICES ASSUME HistoryInit PROVE OInv
  OBVIOUS
<1>1. Open = {} /\ Pruned = {} /\ rows = {}
  BY DEF HistoryInit, Open, Pruned
<1>2. Cardinality({}) = 0
  BY FS_EmptySet
<1>3. PruneOrdered([r \in Runs |-> {}], {})
  BY <1>1, <1>2, HistoryAssumption DEF PruneOrdered, Bound, HistoryAssumption
<1>4. HistoryTyped
  BY DEF HistoryInit, HistoryTyped
<1> QED BY <1>1, <1>2, <1>3, <1>4, HistoryAssumption DEF OInv, HistoryAssumption

(* What concurrent prunes leave behind is bounded by the pool: a row on top *)
(* of the RunsKept for every other connection, at any length of history.    *)
THEOREM OverrunStaysBounded == HistorySpec => []OverrunIsBounded
<1>1. OInv => OverrunIsBounded
  <2> SUFFICES ASSUME OInv PROVE OverrunIsBounded
    OBVIOUS
  <2>1. PICK before, last : PruneOrdered(before, last)
    BY DEF OInv
  <2>2. rows \in SUBSET Runs /\ last \in SUBSET Runs
    BY <2>1 DEF OInv, HistoryTyped, PruneOrdered, Pruned
  <2> QED BY <2>1, <2>2, Sizes, HistoryAssumption
          DEF PruneOrdered, Bound, OverrunIsBounded, HistoryAssumption
<1>2. HistoryInv => HistoryTyped
  BY DEF HistoryInv
<1> QED BY <1>1, <1>2, OverrunInit, OverrunStep, HistoryStarts, HistoryStep, PTL DEF HistorySpec

-----------------------------------------------------------------------------
(***************************************************************************)
(* The HTTP client: what it sends never runs further ahead of twice its    *)
(* rate than the burst and one request.                                    *)
(*                                                                         *)
(* The argument is a potential.  What was sent ahead and the credit of the *)
(* bucket together stay within the bound while nobody holds the lock: an   *)
(* acquire moves a token from one to the other, a tick takes two from one  *)
(* and adds one to the other.  Whoever sleeps has spent the bucket and     *)
(* will send at no cost but its sleep, which is then credited again by the *)
(* refill: so what is left of the sleep counts for the credit.             *)
(***************************************************************************)
\* Every caller's request is somewhere, and the lock is the sleeper's.
LockHeld ==
  /\ at = [c \in Callers |-> at[c]]
  /\ \A c \in Callers : at[c] = "asleep" => lock = c
  /\ lock # None => lock \in Callers /\ at[lock] = "asleep"

Sound ==
  /\ left \in [Callers -> Nat] /\ attempt \in [Callers -> Nat]
  /\ \A c \in Callers : at[c] \notin {"idle", "ended"} => attempt[c] \in 1..MaxAttempts
  /\ tokens \in 0..Capacity /\ since \in 0..Capacity /\ ahead \in Nat

\* The bound, of what was sent and what may be.
Potential ==
  /\ lock = None => ahead + Refilled <= Capacity + Unit
  /\ lock # None => left[lock] <= Unit /\ ahead + since <= Capacity + left[lock]

ClientInv == Sound /\ LockHeld /\ Potential

\* What the bucket holds once it is refilled.
LEMMA RefilledIs ==
  ASSUME ClientInv
  PROVE  /\ Capacity \in Nat /\ Unit \in Nat \ {0} /\ Unit <= Capacity
         /\ Refilled \in 0..Capacity /\ Refilled <= tokens + since
         /\ Refilled = IF Capacity <= tokens + since THEN Capacity ELSE tokens + since
<1>1. Unit \in Nat \ {0} /\ Burst \in Nat \ {0}
  BY ClientAssumption DEF ClientInv, Sound
<1>2. Capacity \in Nat /\ Unit <= Capacity
  BY <1>1 DEF Capacity
<1>3. tokens \in Nat /\ since \in Nat
  BY <1>2 DEF ClientInv, Sound
<1>4. Refilled = IF Capacity <= tokens + since THEN Capacity ELSE tokens + since
  BY <1>2, <1>3, MinMax DEF Refilled
<1> QED BY <1>1, <1>2, <1>3, <1>4

\* At the start the bucket is full and nothing was sent.
LEMMA ClientInit == Init => ClientInv
<1> SUFFICES ASSUME Init PROVE ClientInv
  OBVIOUS
<1>1. Unit \in Nat \ {0} /\ Burst \in Nat \ {0} /\ Capacity \in Nat
  BY ClientAssumption DEF Capacity
<1>2. Refilled = Capacity
  BY <1>1, MinMax DEF Init, Refilled
<1> QED BY <1>1, <1>2 DEF Init, ClientInv, Sound, LockHeld, Potential

\* A second passes: what is ahead falls by two, the credit grows by one.
LEMMA TickKeeps == ASSUME ClientInv, Tick PROVE ClientInv'
<1>1. /\ Capacity \in Nat /\ Unit \in Nat \ {0} /\ Unit <= Capacity
      /\ tokens \in 0..Capacity /\ since \in 0..Capacity /\ ahead \in Nat
      /\ left \in [Callers -> Nat]
  BY RefilledIs DEF ClientInv, Sound
<1>2. /\ since' = IF Capacity <= since + 1 THEN Capacity ELSE since + 1
      /\ ahead' = IF 0 <= ahead - 2 THEN ahead - 2 ELSE 0
  <2>1. Min({Capacity, since + 1}) = IF Capacity <= since + 1 THEN Capacity ELSE since + 1
    <3>1. Capacity \in Int /\ since + 1 \in Int
      BY <1>1
    <3> QED BY <3>1, MinMax
  <2>2. Max({0, ahead - 2}) = IF 0 <= ahead - 2 THEN ahead - 2 ELSE 0
    <3>1. 0 \in Int /\ ahead - 2 \in Int
      BY <1>1
    <3> QED BY <3>1, MinMax
  <2> QED BY <2>1, <2>2 DEF Tick
<1>3. ASSUME NEW c \in Callers
      PROVE  left'[c] = IF 0 <= left[c] - 1 THEN left[c] - 1 ELSE 0
  <2>1. 0 \in Int /\ left[c] - 1 \in Int
    BY <1>1
  <2>2. Max({0, left[c] - 1}) = IF 0 <= left[c] - 1 THEN left[c] - 1 ELSE 0
    BY <2>1, MinMax
  <2> QED BY <2>2 DEF Tick
<1>4. Sound'
  <2>1. since' \in 0..Capacity /\ ahead' \in Nat
    BY <1>1, <1>2
  <2>2. left' \in [Callers -> Nat]
    <3>1. left' = [c \in Callers |-> left'[c]]
      BY DEF Tick
    <3>2. \A c \in Callers : left'[c] \in Nat
      BY <1>1, <1>3
    <3> QED BY <3>1, <3>2
  <2> QED BY <2>1, <2>2 DEF Tick, ClientInv, Sound, Capacity
<1>5. LockHeld'
  BY DEF Tick, ClientInv, LockHeld
<1>6. Potential'
  <2>1. CASE lock = None
    <3>1. tokens' = tokens /\ lock' = None
      BY <2>1 DEF Tick
    <3>2. Refilled' = IF Capacity <= tokens + since' THEN Capacity ELSE tokens + since'
      <4>1. Refilled' = Min({Capacity, tokens + since'})
        BY <3>1 DEF Refilled, Capacity
      <4> QED BY <1>1, <1>2, <4>1, MinMax
    <3>3. ahead' + Refilled' <= Capacity + Unit
      BY <1>1, <1>2, <2>1, <3>2, RefilledIs DEF ClientInv, Potential
    <3> QED BY <3>1, <3>3 DEF Potential, Capacity
  <2>2. CASE lock # None
    <3>1. lock \in Callers /\ lock' = lock
      BY <2>2 DEF Tick, ClientInv, LockHeld
    <3>2. left[lock] \in Nat /\ left'[lock] = IF 0 <= left[lock] - 1 THEN left[lock] - 1 ELSE 0
      BY <1>1, <1>3, <3>1
    <3>3. left[lock] <= Unit /\ ahead + since <= Capacity + left[lock]
      BY <2>2 DEF ClientInv, Potential
    <3>4. left'[lock] <= Unit /\ ahead' + since' <= Capacity + left'[lock]
      BY <1>1, <1>2, <3>2, <3>3
    <3> QED BY <2>2, <3>1, <3>4 DEF Potential, Capacity
  <2> QED BY <2>1, <2>2
<1> QED BY <1>4, <1>5, <1>6 DEF ClientInv

\* A step of one caller that is not in the lock before or after: it leaves the
\* bucket alone, and the sleeper's time.
LEMMA ElsewhereKeeps ==
  ASSUME ClientInv, NEW c \in Callers, NEW s, at[c] # "asleep", s # "asleep",
         at' = [at EXCEPT ![c] = s],
         left' \in [Callers -> Nat], \A d \in Callers \ {c} : left'[d] = left[d],
         attempt' \in [Callers -> Nat], \A d \in Callers \ {c} : attempt'[d] = attempt[d],
         s \in {"idle", "ended"} \/ attempt'[c] \in 1..MaxAttempts,
         UNCHANGED <<tokens, since, lock, ahead>>
  PROVE  ClientInv'
<1>1. at'[c] = s /\ \A d \in Callers \ {c} : at'[d] = at[d]
  BY DEF ClientInv, LockHeld
<1>2. Sound'
  BY <1>1, ClientAssumption DEF ClientInv, Sound, Capacity
<1>3. LockHeld'
  BY <1>1 DEF ClientInv, LockHeld
<1>4. Potential'
  <2>1. lock # None => left'[lock] = left[lock]
    BY DEF ClientInv, LockHeld
  <2>2. Refilled' = Refilled
    BY DEF Refilled, Capacity
  <2> QED BY <2>1, <2>2 DEF ClientInv, Potential, Capacity
<1> QED BY <1>2, <1>3, <1>4 DEF ClientInv

\* A request that is to be tried again, or was tried often enough.
LEMMA RetryKeeps ==
  ASSUME ClientInv, NEW c \in Callers, at[c] \in {"sent", "told"}, Retry(c),
         UNCHANGED <<tokens, since, lock, ahead>>
  PROVE  ClientInv'
<1>1. left \in [Callers -> Nat] /\ attempt \in [Callers -> Nat]
      /\ attempt[c] \in 1..MaxAttempts /\ MaxAttempts \in Nat \ {0}
  BY ClientAssumption DEF ClientInv, Sound
<1>2. CASE attempt[c] = MaxAttempts
  <2>1. at' = [at EXCEPT ![c] = "ended"] /\ attempt' = attempt /\ left' = left
    BY <1>2 DEF Retry
  <2> QED BY <1>1, <2>1, ElsewhereKeeps
<1>3. CASE attempt[c] # MaxAttempts
  <2>1. /\ at' = [at EXCEPT ![c] = "waiting"]
        /\ attempt' = [attempt EXCEPT ![c] = @ + 1]
        /\ left' = [left EXCEPT ![c] = Backoff[attempt[c]]]
    BY <1>3 DEF Retry
  <2>2. attempt[c] + 1 \in 1..MaxAttempts /\ attempt[c] \in 1..(MaxAttempts - 1)
    BY <1>1, <1>3
  <2>3. Backoff[attempt[c]] \in Nat
    BY <2>2, ClientAssumption DEF ClientInv, Sound
  <2>4. left' \in [Callers -> Nat] /\ \A d \in Callers \ {c} : left'[d] = left[d]
    BY <1>1, <2>1, <2>3
  <2>5. /\ attempt' \in [Callers -> Nat] /\ attempt'[c] \in 1..MaxAttempts
        /\ \A d \in Callers \ {c} : attempt'[d] = attempt[d]
    BY <1>1, <2>1, <2>2
  <2> QED BY <2>1, <2>4, <2>5, ElsewhereKeeps
<1> QED BY <1>2, <1>3

\* A request goes out, or waits for one, with the bucket and the lock alone.
LEMMA QuietKeeps ==
  ASSUME ClientInv, NEW c \in Callers,
         \/ Begin(c) \/ Answered(c) \/ Broken(c) \/ Limited(c)
         \/ LimitedSlept(c) \/ Again(c)
  PROVE  ClientInv'
<1>1. /\ left \in [Callers -> Nat] /\ attempt \in [Callers -> Nat]
      /\ MaxAttempts \in Nat \ {0} /\ RetryAfter \subseteq Nat
      /\ at[c] \notin {"idle", "ended"} => attempt[c] \in 1..MaxAttempts
  BY ClientAssumption DEF ClientInv, Sound
<1>2. CASE Begin(c)
  <2>1. /\ at[c] # "asleep" /\ at' = [at EXCEPT ![c] = "want"] /\ left' = left
        /\ attempt' = [attempt EXCEPT ![c] = 1]
        /\ UNCHANGED <<tokens, since, lock, ahead>>
    BY <1>2 DEF Begin
  <2>2. /\ attempt' \in [Callers -> Nat] /\ attempt'[c] \in 1..MaxAttempts
        /\ \A d \in Callers \ {c} : attempt'[d] = attempt[d]
    BY <1>1, <2>1
  <2> QED BY <1>1, <2>1, <2>2, ElsewhereKeeps
<1>3. CASE Answered(c)
  <2>1. /\ at[c] # "asleep" /\ at' = [at EXCEPT ![c] = "ended"]
        /\ left' = left /\ attempt' = attempt
        /\ UNCHANGED <<tokens, since, lock, ahead>>
    BY <1>3 DEF Answered
  <2> QED BY <1>1, <2>1, ElsewhereKeeps
<1>4. CASE Broken(c) \/ LimitedSlept(c)
  BY <1>4, RetryKeeps DEF Broken, LimitedSlept
<1>5. CASE Limited(c)
  <2>1. /\ at[c] = "sent" /\ at' = [at EXCEPT ![c] = "told"] /\ attempt' = attempt
        /\ UNCHANGED <<tokens, since, lock, ahead>>
    BY <1>5 DEF Limited
  <2>2. left' \in [Callers -> Nat] /\ \A d \in Callers \ {c} : left'[d] = left[d]
    BY <1>1, <1>5 DEF Limited
  <2> QED BY <1>1, <2>1, <2>2, ElsewhereKeeps
<1>6. CASE Again(c)
  <2>1. /\ at[c] = "waiting" /\ at' = [at EXCEPT ![c] = "want"]
        /\ left' = left /\ attempt' = attempt
        /\ UNCHANGED <<tokens, since, lock, ahead>>
    BY <1>6 DEF Again
  <2> QED BY <1>1, <2>1, ElsewhereKeeps
<1> QED BY <1>2, <1>3, <1>4, <1>5, <1>6

\* A token spent: it leaves the bucket and is ahead.
LEMMA AcquireKeeps == ASSUME ClientInv, NEW c \in Callers, Acquire(c) PROVE ClientInv'
<1>1. /\ Capacity \in Nat /\ Unit \in Nat \ {0} /\ Refilled \in 0..Capacity
      /\ ahead \in Nat
  BY RefilledIs DEF ClientInv, Sound
<1>2. /\ lock = None /\ lock' = None /\ Refilled >= Unit /\ since' = 0
      /\ tokens' = Refilled - Unit /\ ahead' = ahead + Unit
      /\ at[c] = "want" /\ at' = [at EXCEPT ![c] = "sent"]
      /\ left' = left /\ attempt' = attempt /\ made' = made
  BY DEF Acquire, Send
<1>3. at'[c] = "sent" /\ \A d \in Callers \ {c} : at'[d] = at[d]
  BY <1>2 DEF ClientInv, LockHeld
<1>4. tokens' \in 0..Capacity /\ since' \in 0..Capacity /\ ahead' \in Nat
  BY <1>1, <1>2
<1>5. Sound'
  BY <1>2, <1>3, <1>4, ClientAssumption DEF ClientInv, Sound, Capacity
<1>6. LockHeld'
  BY <1>2, <1>3 DEF ClientInv, LockHeld
<1>7. Refilled' = Refilled - Unit
  <2>1. Refilled' = Min({Capacity, tokens' + since'})
    BY DEF Refilled, Capacity
  <2>2. Capacity \in Int /\ tokens' + since' \in Int /\ tokens' + since' = Refilled - Unit
    BY <1>1, <1>2
  <2>3. ~ (Capacity <= Refilled - Unit)
    BY <1>1
  <2> QED BY <2>1, <2>2, <2>3, MinMax
<1>8. ahead + Refilled <= Capacity + Unit
  BY <1>2 DEF ClientInv, Potential
<1>9. ahead' + Refilled' <= Capacity + Unit
  BY <1>1, <1>2, <1>7, <1>8
<1> QED BY <1>2, <1>5, <1>6, <1>9 DEF ClientInv, Potential, Capacity

\* Too little for a token: what is missing is slept for.
LEMMA SleepKeeps == ASSUME ClientInv, NEW c \in Callers, Sleep(c) PROVE ClientInv'
<1>1. /\ Capacity \in Nat /\ Unit \in Nat \ {0} /\ Refilled \in 0..Capacity
      /\ ahead \in Nat /\ left \in [Callers -> Nat]
  BY RefilledIs DEF ClientInv, Sound
<1>2. /\ lock = None /\ lock' = c /\ Refilled < Unit /\ since' = 0
      /\ tokens' = Refilled /\ ahead' = ahead
      /\ at[c] = "want" /\ at' = [at EXCEPT ![c] = "asleep"]
      /\ left' = [left EXCEPT ![c] = Unit - Refilled] /\ attempt' = attempt
  BY DEF Sleep
<1>3. at'[c] = "asleep" /\ \A d \in Callers \ {c} : at'[d] = at[d]
  BY <1>2 DEF ClientInv, LockHeld
<1>4. Unit - Refilled \in Nat /\ Unit - Refilled <= Unit
  BY <1>1, <1>2
<1>5. left' \in [Callers -> Nat] /\ left'[c] = Unit - Refilled
  BY <1>1, <1>2, <1>4
<1>6. tokens' \in 0..Capacity /\ since' \in 0..Capacity /\ ahead' \in Nat
  BY <1>1, <1>2
<1>7. Sound'
  BY <1>2, <1>3, <1>5, <1>6, ClientAssumption DEF ClientInv, Sound, Capacity
<1>8. None \notin Callers
  BY ClientAssumption DEF ClientInv, Sound
<1>9. \A d \in Callers : at[d] # "asleep"
  BY <1>2, <1>8 DEF ClientInv, LockHeld
<1>10. LockHeld'
  BY <1>2, <1>3, <1>9 DEF ClientInv, LockHeld
<1>11. ahead + Refilled <= Capacity + Unit
  BY <1>2 DEF ClientInv, Potential
<1>12. left'[c] <= Unit /\ ahead' + since' <= Capacity + left'[c]
  BY <1>1, <1>2, <1>4, <1>5, <1>11
<1>13. c # None
  BY <1>8
<1> QED BY <1>2, <1>7, <1>10, <1>12, <1>13 DEF ClientInv, Potential, Capacity

\* The sleep is over: the request goes out, and what was slept is in the bucket.
LEMMA WakeKeeps == ASSUME ClientInv, NEW c \in Callers, Wake(c) PROVE ClientInv'
<1>1. /\ Capacity \in Nat /\ Unit \in Nat \ {0} /\ since \in 0..Capacity
      /\ ahead \in Nat
  BY RefilledIs DEF ClientInv, Sound
<1>2. /\ at[c] = "asleep" /\ left[c] = 0 /\ tokens' = 0 /\ lock' = None
      /\ at' = [at EXCEPT ![c] = "sent"] /\ ahead' = ahead + Unit
      /\ since' = since /\ left' = left /\ attempt' = attempt
  BY DEF Wake, Send
<1>3. at'[c] = "sent" /\ \A d \in Callers \ {c} : at'[d] = at[d]
  BY <1>2 DEF ClientInv, LockHeld
<1>4. lock = c /\ c # None
  BY <1>2, ClientAssumption DEF ClientInv, LockHeld, Sound
<1>5. tokens' \in 0..Capacity /\ since' \in 0..Capacity /\ ahead' \in Nat
  BY <1>1, <1>2
<1>6. Sound'
  BY <1>2, <1>3, <1>5, ClientAssumption DEF ClientInv, Sound, Capacity
<1>7. \A d \in Callers \ {c} : at[d] # "asleep"
  BY <1>4 DEF ClientInv, LockHeld
<1>8. LockHeld'
  BY <1>2, <1>3, <1>7 DEF ClientInv, LockHeld
<1>9. ahead + since <= Capacity
  BY <1>1, <1>2, <1>4 DEF ClientInv, Potential
<1>10. Refilled' = since
  <2>1. Refilled' = Min({Capacity, tokens' + since'})
    BY DEF Refilled, Capacity
  <2>2. Capacity \in Int /\ tokens' + since' \in Int /\ tokens' + since' = since
    BY <1>1, <1>2
  <2>3. Capacity <= since => Capacity = since
    BY <1>1
  <2> QED BY <2>1, <2>2, <2>3, MinMax
<1>11. ahead' + Refilled' <= Capacity + Unit
  BY <1>1, <1>2, <1>9, <1>10
<1> QED BY <1>2, <1>6, <1>8, <1>11 DEF ClientInv, Potential, Capacity

\* No step of the client breaks the invariant.
LEMMA ClientStep == ASSUME ClientInv, [Next]_vars PROVE ClientInv'
<1>1. CASE Tick
  BY <1>1, TickKeeps
<1>2. ASSUME NEW c \in Callers, Begin(c) \/ Step(c) PROVE ClientInv'
  BY <1>2, QuietKeeps, AcquireKeeps, SleepKeeps, WakeKeeps DEF Step
<1>3. CASE UNCHANGED vars
  BY <1>3 DEF vars, ClientInv, Sound, LockHeld, Potential, Refilled, Capacity
<1> QED BY <1>1, <1>2, <1>3 DEF Next

\* Within the bound, with the lock held or free.
LEMMA PotentialBounds == ASSUME ClientInv PROVE TwiceTheRateAtMost
<1>1. /\ Capacity \in Nat /\ Unit \in Nat \ {0} /\ Refilled \in Nat
      /\ since \in Nat /\ ahead \in Nat
  BY RefilledIs DEF ClientInv, Sound
<1>2. CASE lock = None
  BY <1>1, <1>2 DEF ClientInv, Potential, TwiceTheRateAtMost
<1>3. CASE lock # None
  <2>1. left[lock] \in Nat /\ left[lock] <= Unit /\ ahead + since <= Capacity + left[lock]
    BY <1>3 DEF ClientInv, Sound, LockHeld, Potential
  <2> QED BY <1>1, <2>1 DEF TwiceTheRateAtMost
<1> QED BY <1>2, <1>3

\* Whatever the callers, the rate and the waits: what one client sends over any
\* stretch of time stays within the burst, one request and twice the rate
\* (client.py acquire, which credits its sleep twice).
THEOREM RateIsBounded == Spec => []TwiceTheRateAtMost
<1>1. Init => ClientInv
  BY ClientInit
<1>2. ClientInv /\ [Next]_vars => ClientInv'
  BY ClientStep
<1>3. ClientInv => TwiceTheRateAtMost
  BY PotentialBounds
<1> QED BY <1>1, <1>2, <1>3, PTL DEF Spec

-----------------------------------------------------------------------------
(***************************************************************************)
(* The rate limiter.  `f` is what one key was allowed in the last so many  *)
(* units and `g` what sweeps forgot of it then.  A counter of age a says n *)
(* of it: beyond what was forgotten, what was allowed since the window     *)
(* started is within n, less one before the first attempt of it is         *)
(* reached; what reaches back less than a window before the start belongs  *)
(* to one earlier window, without its first attempt; and nothing was       *)
(* allowed after the window ended.                                         *)
(***************************************************************************)
Grows(f) ==
  /\ f \in [Spans -> Nat] /\ f[0] = 0
  /\ \A v, w \in Spans : v <= w => f[v] <= f[w]

Fits(f, g, a, n, L, W) ==
  \A w \in Spans :
    /\ w <= a + 1 => f[w] <= n + g[w]
    /\ w <= a => f[w] <= n - 1
    /\ w <= a + W => f[w] <= n + L - 1 + g[w]
    /\ w <= a - W + 1 => f[w] = 0

\* No counter: of what is not forgotten nothing yet now, and not the limit in a
\* window.
AtRest(f, g, L, W) == f[1] <= g[1] /\ \A w \in Spans : w <= W => f[w] <= L - 1 + g[w]

Later(f)    == [w \in Spans |-> IF w = 0 THEN 0 ELSE f[w - 1]]
More(f, c)  == [w \in Spans |-> IF w > 0 THEN f[w] + c ELSE f[w]]

LEMMA SpansAre ==
  /\ Longest \in Nat /\ Spans = 0..Longest
  /\ \A w \in Spans : w # 0 => w - 1 \in Spans /\ w - 1 <= w
  BY LimiterAssumption DEF Spans

LEMMA LaterGrows == ASSUME NEW f, Grows(f) PROVE Grows(Later(f))
<1>1. 0 \in Spans /\ \A w \in Spans : w \in Nat
  BY SpansAre
<1>2. \A w \in Spans : Later(f)[w] = IF w = 0 THEN 0 ELSE f[w - 1]
  BY DEF Later
<1>3. Later(f) \in [Spans -> Nat]
  BY SpansAre DEF Grows, Later
<1>4. ASSUME NEW v \in Spans, NEW w \in Spans, v <= w PROVE Later(f)[v] <= Later(f)[w]
  <2>1. CASE v = 0
    BY <1>2, <1>3, <2>1
  <2>2. CASE v # 0
    <3>1. w # 0 /\ v - 1 \in Spans /\ w - 1 \in Spans /\ v - 1 <= w - 1
      BY <1>1, <1>4, <2>2, SpansAre
    <3> QED BY <1>2, <2>2, <3>1 DEF Grows
  <2> QED BY <2>1, <2>2
<1> QED BY <1>1, <1>2, <1>3, <1>4 DEF Grows

LEMMA MoreGrows == ASSUME NEW f, NEW c \in Nat, Grows(f) PROVE Grows(More(f, c))
<1>1. 0 \in Spans /\ \A w \in Spans : w \in Nat
  BY SpansAre
<1>2. \A w \in Spans : More(f, c)[w] = IF w > 0 THEN f[w] + c ELSE f[w]
  BY DEF More
<1>3. More(f, c) \in [Spans -> Nat]
  BY <1>1 DEF Grows, More
<1>4. ASSUME NEW v \in Spans, NEW w \in Spans, v <= w PROVE More(f, c)[v] <= More(f, c)[w]
  <2>1. f[v] <= f[w] /\ f[v] \in Nat /\ f[w] \in Nat /\ (v = 0 => f[v] = 0)
    BY <1>4 DEF Grows
  <2> QED BY <1>1, <1>2, <1>4, <2>1
<1> QED BY <1>1, <1>2, <1>3, <1>4 DEF Grows

LEMMA FitsLater ==
  ASSUME NEW f, NEW g, NEW a \in 0..Longest, NEW b, NEW n \in Nat \ {0}, NEW L \in Nat \ {0},
         NEW W \in 1..Longest, Grows(f), Grows(g), Fits(f, g, a, n, L, W),
         b = IF a + 1 <= Longest THEN a + 1 ELSE Longest
  PROVE  Fits(Later(f), Later(g), b, n, L, W)
<1> SUFFICES ASSUME NEW w \in Spans
             PROVE  /\ w <= b + 1 => Later(f)[w] <= n + Later(g)[w]
                    /\ w <= b => Later(f)[w] <= n - 1
                    /\ w <= b + W => Later(f)[w] <= n + L - 1 + Later(g)[w]
                    /\ w <= b - W + 1 => Later(f)[w] = 0
  BY DEF Fits
<1>1. Longest \in Nat /\ w \in 0..Longest
  BY SpansAre
<1>2. CASE w = 0
  <2>1. Later(f)[w] = 0 /\ Later(g)[w] = 0
    BY <1>2 DEF Later
  <2> QED BY <2>1
<1>3. CASE w # 0
  <2>1. /\ w - 1 \in Spans /\ Later(f)[w] = f[w - 1] /\ f[w - 1] \in Nat
        /\ Later(g)[w] = g[w - 1] /\ g[w - 1] \in Nat
    BY <1>3, SpansAre DEF Later, Grows
  <2>2. /\ w - 1 <= a + 1 => f[w - 1] <= n + g[w - 1]
        /\ w - 1 <= a => f[w - 1] <= n - 1
        /\ w - 1 <= a + W => f[w - 1] <= n + L - 1 + g[w - 1]
        /\ w - 1 <= a - W + 1 => f[w - 1] = 0
    BY <2>1 DEF Fits
  <2> QED BY <1>1, <1>3, <2>1, <2>2
<1> QED BY <1>2, <1>3

LEMMA RestsLater ==
  ASSUME NEW f, NEW g, NEW L \in Nat \ {0}, NEW W \in 1..Longest, Grows(f), Grows(g), AtRest(f, g, L, W)
  PROVE  AtRest(Later(f), Later(g), L, W)
<1>1. W \in Spans /\ 1 \in Spans /\ 0 \in Spans /\ \A w \in Spans : w \in Nat
  BY SpansAre
<1>2. Later(f)[1] <= Later(g)[1]
  <2>1. Later(f)[1] = f[1 - 1] /\ f[0] = 0 /\ Later(g)[1] = g[1 - 1] /\ g[0] = 0
    BY <1>1 DEF Later, Grows
  <2> QED BY <2>1
<1>3. ASSUME NEW w \in Spans, w <= W PROVE Later(f)[w] <= L - 1 + Later(g)[w]
  <2>1. CASE w = 0
    <3>1. Later(f)[w] = 0 /\ Later(g)[w] = 0
      BY <2>1 DEF Later
    <3> QED BY <3>1
  <2>2. CASE w # 0
    <3>1. w - 1 \in Spans /\ w - 1 <= W /\ Later(f)[w] = f[w - 1] /\ Later(g)[w] = g[w - 1]
      BY <1>1, <1>3, <2>2, SpansAre DEF Later
    <3>2. f[w - 1] <= L - 1 + g[w - 1]
      BY <3>1 DEF AtRest
    <3> QED BY <3>1, <3>2
  <2> QED BY <2>1, <2>2
<1> QED BY <1>2, <1>3 DEF AtRest

\* A counter whose window is over says of its key what no counter does.
LEMMA OverRests ==
  ASSUME NEW f, NEW g, NEW a \in 0..Longest, NEW n \in Nat, NEW L \in Nat \ {0}, NEW W \in 1..Longest,
         Grows(f), Grows(g), Fits(f, g, a, n, L, W), a >= W, n <= L
  PROVE  AtRest(f, g, L, W)
<1>1. W \in Spans /\ 1 \in Spans /\ \A w \in Spans : w \in Nat
  BY SpansAre
<1>2. f[1] = 0 /\ g[1] \in Nat
  BY <1>1 DEF Fits, Grows
<1>3. ASSUME NEW w \in Spans, w <= W PROVE f[w] <= L - 1 + g[w]
  <2>1. w <= a
    BY <1>1, <1>3
  <2>2. f[w] <= n - 1 /\ f[w] \in Nat /\ g[w] \in Nat
    BY <2>1 DEF Fits, Grows
  <2> QED BY <2>2
<1> QED BY <1>2, <1>3 DEF AtRest

\* A counter dropped while its window is open: what it held is forgotten.
LEMMA DropRests ==
  ASSUME NEW f, NEW g, NEW a \in 0..Longest, NEW n \in Nat, NEW L \in Nat \ {0}, NEW W \in 1..Longest,
         Grows(f), Grows(g), Fits(f, g, a, n, L, W), n <= L
  PROVE  AtRest(f, More(g, n), L, W)
<1>1. W \in Spans /\ 1 \in Spans /\ \A w \in Spans : w \in Nat
  BY SpansAre
<1>2. f[1] <= More(g, n)[1]
  <2>1. f[1] <= n + g[1] /\ f[1] \in Nat /\ g[1] \in Nat
    BY <1>1 DEF Fits, Grows
  <2>2. More(g, n)[1] = g[1] + n
    BY <1>1 DEF More
  <2> QED BY <2>1, <2>2
<1>3. ASSUME NEW w \in Spans, w <= W PROVE f[w] <= L - 1 + More(g, n)[w]
  <2>1. f[w] <= n + L - 1 + g[w] /\ f[w] \in Nat /\ g[w] \in Nat /\ f[0] = 0 /\ g[0] = 0
    BY <1>1, <1>3 DEF Fits, Grows
  <2>2. More(g, n)[w] = IF w > 0 THEN g[w] + n ELSE g[w]
    BY DEF More
  <2> QED BY <1>1, <2>1, <2>2
<1> QED BY <1>2, <1>3 DEF AtRest

\* The first attempt of a window.
LEMMA FreshFits ==
  ASSUME NEW f, NEW g, NEW c \in Nat \ {0}, NEW L \in Nat \ {0}, NEW W \in 1..Longest,
         Grows(f), Grows(g), AtRest(f, g, L, W)
  PROVE  Fits(More(f, c), g, 0, c, L, W)
<1> SUFFICES ASSUME NEW w \in Spans
             PROVE  /\ w <= 0 + 1 => More(f, c)[w] <= c + g[w]
                    /\ w <= 0 => More(f, c)[w] <= c - 1
                    /\ w <= 0 + W => More(f, c)[w] <= c + L - 1 + g[w]
                    /\ w <= 0 - W + 1 => More(f, c)[w] = 0
  BY DEF Fits
<1>1. Longest \in Nat /\ w \in 0..Longest /\ W \in Spans /\ 1 \in Spans
  BY SpansAre
<1>2. /\ f[w] \in Nat /\ g[w] \in Nat /\ g[1] \in Nat /\ f[0] = 0 /\ f[1] \in Nat /\ f[1] <= g[1]
      /\ w <= W => f[w] <= L - 1 + g[w]
  BY <1>1 DEF Grows, AtRest
<1>3. More(f, c)[w] = IF w > 0 THEN f[w] + c ELSE f[w]
  BY DEF More
<1>4. CASE w = 0
  BY <1>2, <1>3, <1>4
<1>5. CASE w = 1
  BY <1>2, <1>3, <1>5
<1>6. CASE w > 1
  BY <1>1, <1>2, <1>3, <1>6
<1> QED BY <1>1, <1>4, <1>5, <1>6

\* One more within a window.
LEMMA AnotherFits ==
  ASSUME NEW f, NEW g, NEW a \in 0..Longest, NEW n \in Nat \ {0}, NEW c \in Nat \ {0}, NEW L \in Nat \ {0},
         NEW W \in 1..Longest, Grows(f), Grows(g), Fits(f, g, a, n, L, W), a < W
  PROVE  Fits(More(f, c), g, a, n + c, L, W)
<1> SUFFICES ASSUME NEW w \in Spans
             PROVE  /\ w <= a + 1 => More(f, c)[w] <= n + c + g[w]
                    /\ w <= a => More(f, c)[w] <= n + c - 1
                    /\ w <= a + W => More(f, c)[w] <= n + c + L - 1 + g[w]
                    /\ w <= a - W + 1 => More(f, c)[w] = 0
  BY DEF Fits
<1>1. Longest \in Nat /\ w \in 0..Longest
  BY SpansAre
<1>2. More(f, c)[w] = (IF w > 0 THEN f[w] + c ELSE f[w]) /\ f[w] \in Nat /\ f[0] = 0 /\ g[w] \in Nat
  BY DEF More, Grows
<1>3. /\ w <= a + 1 => f[w] <= n + g[w]
      /\ w <= a => f[w] <= n - 1
      /\ w <= a + W => f[w] <= n + L - 1 + g[w]
  BY DEF Fits
<1>4. CASE w = 0
  BY <1>2, <1>4
<1>5. CASE w > 0
  BY <1>1, <1>2, <1>3, <1>5
<1> QED BY <1>1, <1>4, <1>5

-----------------------------------------------------------------------------
\* What the counters say of what was allowed.
KeyIsTrue(k) ==
  IF k \in DOMAIN hits
  THEN Fits(allowed[k], forgotten[k], hits[k].age, hits[k].n, Limit(k), Window(k))
  ELSE AtRest(allowed[k], forgotten[k], Limit(k), Window(k))

LimiterInv ==
  /\ TableIsSmall /\ IsFiniteSet(DOMAIN hits) /\ halved \in BOOLEAN
  /\ \A k \in Keys : Grows(allowed[k]) /\ Grows(forgotten[k]) /\ KeyIsTrue(k)
  /\ \A k \in DOMAIN hits : hits[k].age < Window(k) => hits[k].n <= allowed[k][hits[k].age + 1]
  /\ ListedOutlastSweeps

LEMMA KeysAre ==
  ASSUME NEW k \in Keys
  PROVE  Limit(k) \in Nat \ {0} /\ Window(k) \in 1..Longest /\ Window(k) \in Spans
<1>1. k.rule \in DOMAIN Rules
  BY LimiterAssumption DEF Keys
<1> QED BY <1>1, LimiterAssumption DEF Limit, Window, Spans

LEMMA RequestsAre ==
  ASSUME NEW q \in Requests
  PROVE  /\ q.checks \subseteq Keys /\ q.cost \in Nat \ {0}
         /\ IsFiniteSet(q.checks) /\ Cardinality(q.checks) <= MaxKeys
         /\ \A k \in q.checks : q.cost <= Limit(k)
  BY LimiterAssumption DEF Keys, Limit

LEMMA CurrentIs ==
  ASSUME LimiterInv, NEW k \in Keys
  PROVE  /\ Current(k).age \in 0..(Window(k) - 1) /\ Current(k).n \in 0..Limit(k)
         /\ Current(k).n > 0 => k \in DOMAIN hits /\ hits[k].age < Window(k) /\ Current(k) = hits[k]
<1>1. Limit(k) \in Nat \ {0} /\ Window(k) \in 1..Longest /\ Longest \in Nat
  BY KeysAre, SpansAre
<1>2. CASE k \notin DOMAIN hits \/ hits[k].age >= Window(k)
  <2>1. Current(k) = [age |-> 0, n |-> 0]
    BY <1>2 DEF Current
  <2> QED BY <1>1, <2>1
<1>3. CASE ~(k \notin DOMAIN hits \/ hits[k].age >= Window(k))
  <2>1. Current(k) = hits[k] /\ k \in DOMAIN hits
    BY <1>3 DEF Current
  <2>2. hits[k].age \in 0..Longest /\ hits[k].n \in 1..Limit(k)
    BY <2>1 DEF LimiterInv, TableIsSmall
  <2> QED BY <1>1, <1>3, <2>1, <2>2
<1> QED BY <1>2, <1>3

\* The largest of a bounded set of numbers.
LEMMA MaxIs ==
  ASSUME NEW b \in Nat, NEW S \in SUBSET (0..b), S # {}
  PROVE  Max(S) \in S /\ \A x \in S : x <= Max(S)
<1> DEFINE below == {b - x : x \in S}
<1>1. below \in SUBSET Nat /\ below # {}
  <2>1. \A x \in S : b - x \in Nat
    OBVIOUS
  <2> QED BY <2>1
<1>2. PICK m \in below : \A x \in below : m <= x
  BY <1>1, OldestExists
<1>3. PICK y \in S : m = b - y
  BY <1>2
<1>4. \A x \in S : y >= x
  <2> TAKE x \in S
  <2>1. b - x \in below
    OBVIOUS
  <2>2. b - y <= b - x
    BY <1>2, <1>3, <2>1
  <2> QED BY <2>2
<1>5. Max(S) = CHOOSE x \in S : \A y_1 \in S : x >= y_1
  BY DEF Max
<1>6. Max(S) \in S /\ \A x \in S : Max(S) >= x
  BY <1>3, <1>4, <1>5
<1> QED BY <1>6

\* A wait is no shorter than any refusing window lasts, and there is one only
\* when something refuses.
LEMMA WaitIs ==
  ASSUME LimiterInv, NEW q \in Requests
  PROVE  /\ Wait(q) \in Nat /\ (Wait(q) = 0 <=> Refusing(q) = {})
         /\ \A k \in Refusing(q) : ResetsIn(k) <= Wait(q)
<1>1. ASSUME NEW k \in Refusing(q) PROVE ResetsIn(k) \in 1..Longest
  <2>1. k \in Keys
    BY RequestsAre DEF Refusing
  <2> QED BY <2>1, CurrentIs, KeysAre, SpansAre DEF ResetsIn
<1>2. CASE Refusing(q) = {}
  BY <1>2 DEF Wait
<1>3. CASE Refusing(q) # {}
  <2> DEFINE S == {ResetsIn(k) : k \in Refusing(q)}
  <2>1. S \in SUBSET (0..Longest) /\ S # {} /\ Longest \in Nat /\ \A x \in S : x >= 1
    BY <1>1, <1>3, SpansAre
  <2>2. Wait(q) = Max(S)
    BY <1>3 DEF Wait
  <2>3. \A k \in Refusing(q) : ResetsIn(k) \in S
    OBVIOUS
  <2> HIDE DEF S
  <2>4. Max(S) \in S /\ \A x \in S : x <= Max(S)
    BY <2>1, MaxIs
  <2>5. Wait(q) \in Nat /\ Wait(q) >= 1
    <3>1. PICK w \in S : w = Max(S)
      BY <2>4
    <3>2. w \in 0..Longest /\ w >= 1
      BY <2>1
    <3> QED BY <2>2, <3>1, <3>2
  <2>6. \A k \in Refusing(q) : ResetsIn(k) <= Wait(q)
    BY <2>2, <2>3, <2>4
  <2> QED BY <1>3, <2>5, <2>6
<1> QED BY <1>2, <1>3

LEMMA WaitsSuffice == ASSUME LimiterInv PROVE WaitSuffices
<1> SUFFICES ASSUME NEW q \in Requests, NEW k \in q.checks
             PROVE  \/ Current(k).age + Wait(q) >= Window(k)
                    \/ Current(k).n + q.cost <= Limit(k)
  BY DEF WaitSuffices
<1>1. k \in Keys
  BY RequestsAre
<1>2. /\ Current(k).age \in Nat /\ Current(k).n \in Nat /\ q.cost \in Nat
      /\ Limit(k) \in Nat /\ Window(k) \in Nat
  BY <1>1, CurrentIs, KeysAre, RequestsAre, SpansAre
<1>3. CASE k \in Refusing(q)
  <2>1. ResetsIn(k) <= Wait(q) /\ Wait(q) \in Nat
    BY <1>3, WaitIs
  <2> QED BY <1>2, <2>1 DEF ResetsIn
<1>4. CASE k \notin Refusing(q)
  BY <1>2, <1>4 DEF Refusing
<1> QED BY <1>3, <1>4

LEMMA QuietRefusesNothing == ASSUME LimiterInv PROVE QuietIsFree
<1> SUFFICES ASSUME NEW q \in Requests, \A k \in q.checks : allowed[k][Window(k)] = 0
             PROVE  Wait(q) = 0
  BY DEF QuietIsFree
<1>1. ASSUME NEW k \in q.checks PROVE Current(k).n + q.cost <= Limit(k)
  <2>1. k \in Keys /\ q.cost \in Nat \ {0} /\ q.cost <= Limit(k)
    BY RequestsAre
  <2>2. Current(k).n \in Nat
    BY <2>1, CurrentIs, KeysAre
  <2>3. Current(k).n = 0
    <3> SUFFICES ASSUME Current(k).n > 0 PROVE FALSE
      BY <2>2
    <3>1. k \in DOMAIN hits /\ hits[k].age < Window(k)
      BY <2>1, CurrentIs
    <3>2. /\ hits[k].n <= allowed[k][hits[k].age + 1] /\ hits[k].n \in 1..Limit(k) /\ hits[k].age \in 0..Longest
          /\ Grows(allowed[k])
      BY <2>1, <3>1 DEF LimiterInv, TableIsSmall
    <3>3. /\ hits[k].age + 1 \in Spans /\ Window(k) \in Spans /\ hits[k].age + 1 <= Window(k)
          /\ Limit(k) \in Nat
      BY <2>1, <3>1, <3>2, KeysAre, SpansAre
    <3>4. allowed[k][hits[k].age + 1] <= allowed[k][Window(k)] /\ allowed[k][hits[k].age + 1] \in Nat
      BY <3>2, <3>3 DEF Grows
    <3> QED BY <3>2, <3>3, <3>4
  <2> QED BY <2>1, <2>3, KeysAre
<1>2. Refusing(q) = {}
  <2> SUFFICES ASSUME NEW k \in q.checks, Current(k).n + q.cost > Limit(k) PROVE FALSE
    BY DEF Refusing
  <2>1. k \in Keys /\ q.cost \in Nat /\ Limit(k) \in Nat /\ Current(k).n \in Nat
    BY RequestsAre, KeysAre, CurrentIs
  <2> QED BY <1>1, <2>1
<1> QED BY <1>2 DEF Wait

LEMMA AllLimitsHold == ASSUME LimiterInv PROVE LimitsHold
<1> SUFFICES ASSUME NEW k \in Keys
             PROVE  allowed[k][Window(k)] <= 2 * Limit(k) - 1 + forgotten[k][Window(k)]
  BY DEF LimitsHold
<1>1. KeyIsTrue(k) /\ Grows(allowed[k]) /\ Grows(forgotten[k])
  BY DEF LimiterInv
<1>2. /\ Limit(k) \in Nat \ {0} /\ Window(k) \in 1..Longest /\ Window(k) \in Spans
      /\ allowed[k][Window(k)] \in Nat /\ forgotten[k][Window(k)] \in Nat
  BY <1>1, KeysAre DEF Grows
<1>3. CASE k \in DOMAIN hits
  <2>1. hits[k].age \in 0..Longest /\ hits[k].n \in 1..Limit(k)
    BY <1>3 DEF LimiterInv, TableIsSmall
  <2>2. Window(k) <= hits[k].age + Window(k)
    BY <1>2, <2>1, SpansAre
  <2>3. allowed[k][Window(k)] <= hits[k].n + Limit(k) - 1 + forgotten[k][Window(k)]
    BY <1>1, <1>2, <1>3, <2>2 DEF KeyIsTrue, Fits
  <2> QED BY <1>2, <2>1, <2>3
<1>4. CASE k \notin DOMAIN hits
  <2>1. Window(k) <= Window(k)
    BY <1>2
  <2>2. allowed[k][Window(k)] <= Limit(k) - 1 + forgotten[k][Window(k)]
    BY <1>1, <1>2, <1>4, <2>1 DEF KeyIsTrue, AtRest
  <2> QED BY <1>2, <2>2
<1> QED BY <1>3, <1>4

-----------------------------------------------------------------------------
LEMMA LimiterStarts == LimiterInit => LimiterInv
<1> SUFFICES ASSUME LimiterInit PROVE LimiterInv
  OBVIOUS
<1>1. DOMAIN hits = {} /\ IsFiniteSet(DOMAIN hits) /\ Cardinality(DOMAIN hits) = 0 /\ halved = FALSE
  BY FS_EmptySet DEF LimiterInit
<1>2. TableIsSmall
  BY <1>1, LimiterAssumption DEF TableIsSmall
<1>3. \A k \in Keys : allowed[k] = [w \in Spans |-> 0] /\ forgotten[k] = [w \in Spans |-> 0]
  BY DEF LimiterInit
<1>4. ASSUME NEW k \in Keys
      PROVE  Grows(allowed[k]) /\ Grows(forgotten[k]) /\ AtRest(allowed[k], forgotten[k], Limit(k), Window(k))
  <2>1. Limit(k) \in Nat \ {0} /\ Window(k) \in 1..Longest /\ Window(k) \in Spans /\ 1 \in Spans /\ 0 \in Spans
    BY KeysAre, SpansAre
  <2> QED BY <1>3, <2>1 DEF Grows, AtRest
<1>5. ListedOutlastSweeps
  BY <1>3, SpansAre DEF ListedOutlastSweeps
<1> QED BY <1>1, <1>2, <1>4, <1>5 DEF LimiterInv, KeyIsTrue

LEMMA ElapseKeeps == ASSUME LimiterInv, Elapse PROVE LimiterInv'
<1> DEFINE Aged(a) == IF a + 1 <= Longest THEN a + 1 ELSE Longest
<1>1. ASSUME NEW k \in DOMAIN hits
      PROVE  /\ hits[k].age \in 0..Longest /\ hits[k].n \in 1..Limit(k) /\ k \in Keys
             /\ hits'[k].age = Aged(hits[k].age) /\ hits'[k].n = hits[k].n
  <2>1. hits[k].age \in 0..Longest /\ hits[k].n \in 1..Limit(k) /\ k \in Keys
    BY DEF LimiterInv, TableIsSmall
  <2>2. hits[k].age + 1 \in Int /\ Longest \in Int
    BY <2>1, SpansAre
  <2>3. Min({hits[k].age + 1, Longest}) = Aged(hits[k].age)
    BY <2>2, MinMax
  <2> QED BY <2>1, <2>3 DEF Elapse
<1>2. DOMAIN hits' = DOMAIN hits /\ halved' = halved
  BY DEF Elapse
<1>3. \A k \in Keys : allowed'[k] = Later(allowed[k]) /\ forgotten'[k] = Later(forgotten[k])
  BY DEF Elapse, Later
<1>4. \A k \in Keys : Grows(allowed'[k]) /\ Grows(forgotten'[k])
  BY <1>3, LaterGrows DEF LimiterInv
<1>5. TableIsSmall'
  <2>1. \A k \in DOMAIN hits : hits'[k].age \in 0..Longest /\ hits'[k].n \in 1..Limit(k)
    BY <1>1, SpansAre
  <2> QED BY <1>2, <2>1 DEF LimiterInv, TableIsSmall, Limit
<1>6. ASSUME NEW k \in DOMAIN hits, hits'[k].age < Window(k)
      PROVE  hits'[k].n <= allowed'[k][hits'[k].age + 1]
  <2>1. /\ hits[k].age \in 0..Longest /\ hits[k].n \in 1..Limit(k) /\ k \in Keys
        /\ hits'[k].age = Aged(hits[k].age) /\ hits'[k].n = hits[k].n
    BY <1>1
  <2>2. Window(k) \in 1..Longest /\ Longest \in Nat /\ Limit(k) \in Nat
    BY <2>1, KeysAre, SpansAre
  <2>3. hits'[k].age = hits[k].age + 1 /\ hits[k].age + 1 < Window(k) /\ hits[k].age + 2 \in Spans
    BY <1>6, <2>1, <2>2, SpansAre
  <2>4. hits[k].n <= allowed[k][hits[k].age + 1]
    BY <2>1, <2>2, <2>3 DEF LimiterInv
  <2>5. allowed'[k][hits[k].age + 2] = allowed[k][hits[k].age + 2 - 1] /\ hits[k].age + 2 - 1 = hits[k].age + 1
    <3>1. hits[k].age + 2 # 0 /\ hits[k].age + 2 - 1 = hits[k].age + 1
      BY <2>1, <2>2
    <3>2. \A w \in Spans : w # 0 => Later(allowed[k])[w] = allowed[k][w - 1]
      BY DEF Later
    <3> QED BY <1>3, <2>1, <2>3, <3>1, <3>2
  <2>6. hits'[k].age + 1 = hits[k].age + 2
    BY <2>1, <2>3
  <2> QED BY <2>1, <2>4, <2>5, <2>6
<1>7. ASSUME NEW k \in Keys PROVE KeyIsTrue(k)'
  <2>1. /\ KeyIsTrue(k) /\ Grows(allowed[k]) /\ allowed'[k] = Later(allowed[k])
        /\ Grows(forgotten[k]) /\ forgotten'[k] = Later(forgotten[k])
    BY <1>3 DEF LimiterInv
  <2>2. Limit(k) \in Nat \ {0} /\ Window(k) \in 1..Longest /\ Longest \in Nat
    BY KeysAre, SpansAre
  <2>3. CASE k \in DOMAIN hits
    <3>1. /\ hits[k].age \in 0..Longest /\ hits[k].n \in 1..Limit(k)
          /\ hits'[k].age = Aged(hits[k].age) /\ hits'[k].n = hits[k].n
      BY <1>1, <2>3
    <3>2. hits[k].n \in Nat \ {0}
      BY <2>2, <3>1
    <3>3. Fits(allowed[k], forgotten[k], hits[k].age, hits[k].n, Limit(k), Window(k))
      BY <2>1, <2>3 DEF KeyIsTrue
    <3>4. Fits(Later(allowed[k]), Later(forgotten[k]), Aged(hits[k].age), hits[k].n, Limit(k), Window(k))
      BY <2>1, <2>2, <3>1, <3>2, <3>3, FitsLater
    <3>5. k \in DOMAIN hits'
      BY <1>2, <2>3
    <3>6. Fits(allowed'[k], forgotten'[k], hits'[k].age, hits'[k].n, Limit(k), Window(k))
      BY <2>1, <3>1, <3>4
    <3> QED BY <3>5, <3>6 DEF KeyIsTrue, Fits, Limit, Window
  <2>4. CASE k \notin DOMAIN hits
    <3>1. AtRest(Later(allowed[k]), Later(forgotten[k]), Limit(k), Window(k))
      BY <2>1, <2>2, <2>4, RestsLater DEF KeyIsTrue
    <3> QED BY <1>2, <2>1, <2>4, <3>1 DEF KeyIsTrue, AtRest, Limit, Window
  <2> QED BY <2>3, <2>4
<1>8. IsFiniteSet(DOMAIN hits')
  BY <1>2 DEF LimiterInv
<1>9. \A k \in DOMAIN hits' : hits'[k].age < Window(k) => hits'[k].n <= allowed'[k][hits'[k].age + 1]
  BY <1>2, <1>6
<1>10. halved' \in BOOLEAN
  BY <1>2 DEF LimiterInv
<1>11. ListedOutlastSweeps'
  <2> SUFFICES ASSUME ~halved', NEW k \in Keys, k.rule \in Listed PROVE forgotten'[k][Longest] = 0
    BY DEF ListedOutlastSweeps
  <2>1. forgotten[k][Longest] = 0 /\ Grows(forgotten[k]) /\ forgotten'[k] = Later(forgotten[k])
    BY <1>2, <1>3 DEF LimiterInv, ListedOutlastSweeps
  <2>2. Longest \in Spans /\ (Longest # 0 => Longest - 1 \in Spans /\ Longest - 1 <= Longest)
    BY SpansAre
  <2>3. Later(forgotten[k])[Longest] = IF Longest = 0 THEN 0 ELSE forgotten[k][Longest - 1]
    BY <2>2 DEF Later
  <2>4. Longest # 0 => forgotten[k][Longest - 1] <= 0 /\ forgotten[k][Longest - 1] \in Nat
    BY <2>1, <2>2 DEF Grows
  <2> QED BY <2>1, <2>3, <2>4
<1> QED BY <1>4, <1>5, <1>7, <1>8, <1>9, <1>10, <1>11 DEF LimiterInv, Grows, Window

-----------------------------------------------------------------------------
\* Half of a table that one request grew fits the bound.
LEMMA HalfFits ==
  ASSUME NEW n \in Nat, NEW m \in Nat, n <= 2 * m
  PROVE  n - (n \div 2) <= m /\ n \div 2 \in Nat /\ n \div 2 <= n
  OBVIOUS

\* What a sweep leaves.
LEMMA SweepIs ==
  ASSUME LimiterInv, NEW q \in Requests, NEW K \in Sweep(Counted(q))
  PROVE  /\ K \subseteq DOMAIN hits \cup q.checks
         /\ IsFiniteSet(K) /\ Cardinality(K) <= MaxKeys
         /\ \A k \in (DOMAIN hits \cup q.checks) \ K :
              Unexpired(Counted(q)) \subseteq K /\ k.rule \in Listed => Counted(q)[k].age >= Window(k)
<1> DEFINE keys == DOMAIN hits \cup q.checks
<1>1. DOMAIN Counted(q) = keys
  BY DEF Counted
<1>2. /\ IsFiniteSet(keys) /\ Cardinality(keys) \in Nat /\ MaxKeys \in Nat
      /\ Cardinality(keys) <= 2 * MaxKeys
  <2>1. /\ IsFiniteSet(DOMAIN hits) /\ Cardinality(DOMAIN hits) <= MaxKeys
        /\ IsFiniteSet(q.checks) /\ Cardinality(q.checks) <= MaxKeys
    BY RequestsAre DEF LimiterInv, TableIsSmall
  <2>2. /\ IsFiniteSet(keys)
        /\ Cardinality(keys) = Cardinality(DOMAIN hits) + Cardinality(q.checks) - Cardinality(DOMAIN hits \cap q.checks)
    BY <2>1, FS_Union
  <2>3. IsFiniteSet(DOMAIN hits \cap q.checks)
    BY <2>1, FS_Intersection
  <2>4. /\ Cardinality(DOMAIN hits) \in Nat /\ Cardinality(q.checks) \in Nat
        /\ Cardinality(DOMAIN hits \cap q.checks) \in Nat /\ Cardinality(keys) \in Nat
    BY <2>1, <2>2, <2>3, FS_CardinalityType
  <2>5. MaxKeys \in Nat
    BY LimiterAssumption
  <2> QED BY <2>1, <2>2, <2>4, <2>5
<1> HIDE DEF keys
<1> DEFINE open == Unexpired(Counted(q))
<1>3. open \subseteq keys /\ IsFiniteSet(open) /\ Cardinality(open) \in Nat /\ Cardinality(open) <= Cardinality(keys)
  <2>1. open \subseteq keys
    BY <1>1 DEF Unexpired
  <2> QED BY <1>2, <2>1, FS_Subset, FS_CardinalityType
<1>4. ASSUME NEW k \in keys \ K, open \subseteq K, k.rule \in Listed
      PROVE  Counted(q)[k].age >= Window(k)
  <2>1. k \notin open
    BY <1>4
  <2>2. ~(Counted(q)[k].age < Window(k))
    BY <1>1, <1>4, <2>1 DEF Unexpired
  <2>3. k \in Keys
    BY RequestsAre DEF keys, LimiterInv, TableIsSmall
  <2>4. Counted(q)[k].age = (IF k \in q.checks THEN Current(k).age ELSE hits[k].age)
    BY DEF Counted, keys
  <2>5. Counted(q)[k].age \in Int
    <3>1. CASE k \in q.checks
      BY <2>3, <2>4, <3>1, CurrentIs, KeysAre, SpansAre
    <3>2. CASE k \notin q.checks
      BY <2>4, <3>2, SpansAre DEF keys, LimiterInv, TableIsSmall
    <3> QED BY <3>1, <3>2
  <2> QED BY <2>2, <2>3, <2>5, KeysAre, SpansAre
<1>5. K \subseteq keys /\ IsFiniteSet(K) /\ Cardinality(K) <= MaxKeys
  <2>1. CASE Cardinality(keys) <= MaxKeys
    <3>1. K = keys
      BY <1>1, <2>1 DEF Sweep
    <3> QED BY <1>2, <2>1, <3>1
  <2>2. CASE Cardinality(keys) > MaxKeys /\ Cardinality(open) <= MaxKeys
    <3>1. K = open
      BY <1>1, <1>2, <2>2 DEF Sweep
    <3> QED BY <1>3, <2>2, <3>1
  <2>3. CASE Cardinality(keys) > MaxKeys /\ Cardinality(open) > MaxKeys
    <3>1. PICK D \in Older(Counted(q), open) : K = open \ D
      BY <1>1, <1>2, <1>3, <2>3 DEF Sweep
    <3>2. D \in SUBSET open /\ Cardinality(D) = Cardinality(open) \div 2
      BY <3>1 DEF Older
    <3>3. IsFiniteSet(K) /\ Cardinality(K) = Cardinality(open) - Cardinality(D)
      <4>1. IsFiniteSet(D) /\ open \cap D = D
        BY <1>3, <3>2, FS_Subset
      <4>2. IsFiniteSet(K) /\ Cardinality(K) = Cardinality(open) - Cardinality(open \cap D)
        BY <1>3, <3>1, <4>1, FS_Difference
      <4> QED BY <4>1, <4>2
    <3>4. Cardinality(open) - (Cardinality(open) \div 2) <= MaxKeys
      <4>1. Cardinality(open) <= 2 * MaxKeys
        BY <1>2, <1>3
      <4> HIDE DEF open
      <4> QED BY <1>2, <1>3, <4>1, HalfFits
    <3> QED BY <1>3, <3>1, <3>2, <3>3, <3>4
  <2> QED BY <1>2, <1>3, <2>1, <2>2, <2>3
<1> QED BY <1>4, <1>5 DEF keys

\* A key that an allowed attempt asks about.
LEMMA CountedIs ==
  ASSUME LimiterInv, NEW q \in Requests, Wait(q) = 0, NEW k \in q.checks
  PROVE  /\ Counted(q)[k].age = Current(k).age /\ Counted(q)[k].n = Current(k).n + q.cost
         /\ Counted(q)[k].age \in 0..(Window(k) - 1) /\ Counted(q)[k].n \in 1..Limit(k)
<1>1. k \in Keys /\ q.cost \in Nat \ {0} /\ Refusing(q) = {}
  BY RequestsAre, WaitIs
<1>2. /\ Current(k).age \in 0..(Window(k) - 1) /\ Current(k).n \in 0..Limit(k)
      /\ Limit(k) \in Nat \ {0} /\ Window(k) \in 1..Longest
  BY <1>1, CurrentIs, KeysAre
<1>3. ~(Current(k).n + q.cost > Limit(k))
  BY <1>1 DEF Refusing
<1>4. Counted(q)[k].age = Current(k).age /\ Counted(q)[k].n = Current(k).n + q.cost
  BY DEF Counted
<1> QED BY <1>1, <1>2, <1>3, <1>4

\* The counter of such a key, and what the key is then allowed.
LEMMA CountedFits ==
  ASSUME LimiterInv, NEW q \in Requests, Wait(q) = 0, NEW k \in q.checks
  PROVE  /\ Counted(q)[k].n <= More(allowed[k], q.cost)[Counted(q)[k].age + 1]
         /\ Fits(More(allowed[k], q.cost), forgotten[k], Counted(q)[k].age, Counted(q)[k].n, Limit(k), Window(k))
<1>1. /\ k \in Keys /\ q.cost \in Nat \ {0} /\ Limit(k) \in Nat \ {0}
      /\ Window(k) \in 1..Longest /\ Longest \in Nat
      /\ Grows(allowed[k]) /\ Grows(forgotten[k]) /\ KeyIsTrue(k)
  BY RequestsAre, KeysAre, SpansAre DEF LimiterInv
<1>2. Counted(q)[k].age = Current(k).age /\ Counted(q)[k].n = Current(k).n + q.cost
  BY CountedIs
<1>3. CASE k \notin DOMAIN hits \/ hits[k].age >= Window(k)
  <2>1. Current(k) = [age |-> 0, n |-> 0]
    BY <1>3 DEF Current
  <2>2. Counted(q)[k].age = 0 /\ Counted(q)[k].n = q.cost
    BY <1>1, <1>2, <2>1
  <2>3. 1 \in Spans /\ allowed[k][1] \in Nat
    BY <1>1, SpansAre DEF Grows
  <2>4. More(allowed[k], q.cost)[1] = allowed[k][1] + q.cost
    BY <2>3 DEF More
  <2>5. AtRest(allowed[k], forgotten[k], Limit(k), Window(k))
    <3>1. CASE k \notin DOMAIN hits
      BY <1>1, <3>1 DEF KeyIsTrue
    <3>2. CASE k \in DOMAIN hits
      <4>1. /\ hits[k].age \in 0..Longest /\ hits[k].n \in 1..Limit(k) /\ hits[k].age >= Window(k)
            /\ Fits(allowed[k], forgotten[k], hits[k].age, hits[k].n, Limit(k), Window(k))
        BY <1>1, <1>3, <3>2 DEF KeyIsTrue, LimiterInv, TableIsSmall
      <4>2. hits[k].n \in Nat /\ hits[k].n <= Limit(k)
        BY <1>1, <4>1
      <4> QED BY <1>1, <4>1, <4>2, OverRests
    <3> QED BY <3>1, <3>2
  <2>6. Fits(More(allowed[k], q.cost), forgotten[k], 0, q.cost, Limit(k), Window(k))
    BY <1>1, <2>5, FreshFits
  <2>7. q.cost <= More(allowed[k], q.cost)[0 + 1]
    BY <1>1, <2>3, <2>4
  <2> QED BY <2>2, <2>6, <2>7
<1>4. CASE ~(k \notin DOMAIN hits \/ hits[k].age >= Window(k))
  <2>1. /\ k \in DOMAIN hits /\ Current(k) = hits[k]
        /\ hits[k].age \in 0..Longest /\ hits[k].n \in 1..Limit(k)
    BY <1>4 DEF Current, LimiterInv, TableIsSmall
  <2>2. hits[k].age < Window(k) /\ hits[k].age + 1 \in Spans /\ hits[k].age + 1 > 0 /\ hits[k].n \in Nat \ {0}
    BY <1>1, <1>4, <2>1, SpansAre
  <2>3. hits[k].n <= allowed[k][hits[k].age + 1]
    BY <2>1, <2>2 DEF LimiterInv
  <2>8. allowed[k][hits[k].age + 1] \in Nat
    BY <1>1, <2>2 DEF Grows
  <2>4. More(allowed[k], q.cost)[hits[k].age + 1] = allowed[k][hits[k].age + 1] + q.cost
    BY <2>2 DEF More
  <2>5. Fits(More(allowed[k], q.cost), forgotten[k], hits[k].age, hits[k].n + q.cost, Limit(k), Window(k))
    <3>1. Fits(allowed[k], forgotten[k], hits[k].age, hits[k].n, Limit(k), Window(k))
      BY <1>1, <2>1 DEF KeyIsTrue
    <3> QED BY <1>1, <2>1, <2>2, <3>1, AnotherFits
  <2>6. Counted(q)[k].age = hits[k].age /\ Counted(q)[k].n = hits[k].n + q.cost
    BY <1>2, <2>1
  <2>7. hits[k].n + q.cost <= More(allowed[k], q.cost)[hits[k].age + 1]
    BY <1>1, <2>2, <2>3, <2>4, <2>8
  <2> QED BY <2>5, <2>6, <2>7
<1> QED BY <1>3, <1>4

LEMMA TakeKeeps == ASSUME LimiterInv, NEW q \in Requests, Take(q) PROVE LimiterInv'
<1> DEFINE table == Counted(q)
           keys  == DOMAIN hits \cup q.checks
<1>1. Wait(q) = 0
  BY DEF Take
<1>2. PICK K \in Sweep(table) :
        /\ hits' = Restrict(table, K) /\ halved' = (halved \/ ~(Unexpired(table) \subseteq K))
        /\ forgotten' = [k \in Keys |-> [w \in Spans |->
             IF w > 0 THEN forgotten[k][w] + Lost(table, K, k) ELSE forgotten[k][w]]]
  BY DEF Take
<1>3. /\ K \subseteq keys /\ IsFiniteSet(K) /\ Cardinality(K) <= MaxKeys
      /\ \A k \in keys \ K : Unexpired(table) \subseteq K /\ k.rule \in Listed => table[k].age >= Window(k)
  BY <1>2, SweepIs
<1>4. DOMAIN hits' = K /\ \A k \in K : hits'[k] = table[k]
  BY <1>2 DEF Restrict
<1>5. \A k \in Keys : allowed'[k] = IF k \in q.checks THEN More(allowed[k], q.cost) ELSE allowed[k]
  <2> TAKE k \in Keys
  <2>1. allowed[k] \in [Spans -> Nat] /\ \A w \in Spans : w \in Nat
    BY SpansAre DEF LimiterInv, Grows
  <2>2. allowed'[k] = [w \in Spans |-> IF k \in q.checks /\ w > 0 THEN allowed[k][w] + q.cost ELSE allowed[k][w]]
    BY DEF Take
  <2>3. CASE k \in q.checks
    BY <2>2, <2>3 DEF More
  <2>4. CASE k \notin q.checks
    <3>1. allowed'[k] = [w \in Spans |-> allowed[k][w]]
      BY <2>2, <2>4
    <3> QED BY <2>1, <2>4, <3>1
  <2> QED BY <2>3, <2>4
<1>6. q.cost \in Nat \ {0} /\ q.checks \subseteq Keys /\ keys \subseteq Keys
  BY RequestsAre DEF LimiterInv, TableIsSmall
<1>7. \A k \in Keys : Grows(allowed'[k])
  <2> TAKE k \in Keys
  <2>1. Grows(allowed[k])
    BY DEF LimiterInv
  <2>2. Grows(More(allowed[k], q.cost))
    BY <1>6, <2>1, MoreGrows
  <2> QED BY <1>5, <2>1, <2>2
<1>8. DOMAIN table = keys
  BY DEF Counted
<1>9. \A k \in keys \ q.checks : table[k] = hits[k]
  BY DEF Counted
<1>10. ASSUME NEW k \in keys PROVE table[k].age \in 0..Longest /\ table[k].n \in 1..Limit(k)
  <2>1. CASE k \in q.checks
    <3>1. table[k].age \in 0..(Window(k) - 1) /\ table[k].n \in 1..Limit(k)
      BY <1>1, <2>1, CountedIs
    <3>2. Window(k) \in 1..Longest /\ Longest \in Nat
      BY <1>6, KeysAre, SpansAre
    <3> QED BY <3>1, <3>2
  <2>2. CASE k \notin q.checks
    BY <1>9, <2>2 DEF LimiterInv, TableIsSmall
  <2> QED BY <2>1, <2>2
<1>11. TableIsSmall'
  BY <1>3, <1>4, <1>6, <1>10 DEF TableIsSmall, Limit
<1>12. ASSUME NEW k \in keys, table[k].age < Window(k)
       PROVE  table[k].n <= allowed'[k][table[k].age + 1]
  <2>1. CASE k \in q.checks
    <3>1. table[k].n <= More(allowed[k], q.cost)[table[k].age + 1]
      BY <1>1, <2>1, CountedFits
    <3>2. allowed'[k] = More(allowed[k], q.cost)
      BY <1>5, <1>6, <2>1
    <3> HIDE DEF table
    <3> QED BY <3>1, <3>2
  <2>2. CASE k \notin q.checks
    <3>1. table[k] = hits[k] /\ k \in DOMAIN hits /\ allowed'[k] = allowed[k]
      BY <1>5, <1>6, <1>9, <2>2
    <3>2. hits[k].age < Window(k) => hits[k].n <= allowed[k][hits[k].age + 1]
      BY <3>1 DEF LimiterInv
    <3> HIDE DEF table
    <3> QED BY <1>12, <3>1, <3>2
  <2> QED BY <2>1, <2>2
<1>13. ASSUME NEW k \in keys
       PROVE  Fits(allowed'[k], forgotten[k], table[k].age, table[k].n, Limit(k), Window(k))
  <2>1. CASE k \in q.checks
    <3>1. Fits(More(allowed[k], q.cost), forgotten[k], table[k].age, table[k].n, Limit(k), Window(k))
      BY <1>1, <2>1, CountedFits
    <3>2. allowed'[k] = More(allowed[k], q.cost)
      BY <1>5, <1>6, <2>1
    <3> HIDE DEF table
    <3> QED BY <3>1, <3>2
  <2>2. CASE k \notin q.checks
    <3>1. table[k] = hits[k] /\ k \in DOMAIN hits /\ allowed'[k] = allowed[k]
      BY <1>5, <1>6, <1>9, <2>2
    <3>2. Fits(allowed[k], forgotten[k], hits[k].age, hits[k].n, Limit(k), Window(k))
      BY <1>6, <3>1 DEF KeyIsTrue, LimiterInv
    <3> HIDE DEF table
    <3> QED BY <3>1, <3>2
  <2> QED BY <2>1, <2>2
<1>14. ASSUME NEW k \in Keys
       PROVE  /\ forgotten'[k] = More(forgotten[k], Lost(table, K, k))
              /\ Lost(table, K, k) \in Nat
              /\ Lost(table, K, k) = 0 => forgotten'[k] = forgotten[k]
              /\ Grows(forgotten[k])
  <2>1. forgotten'[k] = More(forgotten[k], Lost(table, K, k))
    BY <1>2 DEF More
  <2>2. Grows(forgotten[k]) /\ forgotten[k] \in [Spans -> Nat]
    BY DEF LimiterInv, Grows
  <2>3. Lost(table, K, k) \in Nat
    <3>1. k \in keys => table[k].n \in Nat
      BY <1>6, <1>10, KeysAre
    <3> HIDE DEF table
    <3> QED BY <1>8, <3>1 DEF Lost
  <2>4. ASSUME Lost(table, K, k) = 0 PROVE forgotten'[k] = forgotten[k]
    <3>1. \A w \in Spans : forgotten[k][w] + 0 = forgotten[k][w]
      BY <2>2
    <3>2. More(forgotten[k], 0) = [w \in Spans |-> forgotten[k][w]]
      BY <3>1 DEF More
    <3> HIDE DEF table
    <3> QED BY <2>1, <2>2, <2>4, <3>2
  <2> QED BY <2>1, <2>2, <2>3, <2>4
<1>15. \A k \in Keys : Grows(forgotten'[k])
  <2> TAKE k \in Keys
  <2> HIDE DEF table
  <2> QED BY <1>14, MoreGrows
<1>16. ASSUME NEW k \in Keys PROVE KeyIsTrue(k)'
  <2>2. CASE k \in K
    <3>1. Fits(allowed'[k], forgotten[k], table[k].age, table[k].n, Limit(k), Window(k))
      BY <1>3, <1>13, <2>2
    <3>2. hits'[k] = table[k] /\ k \in DOMAIN hits'
      BY <1>4, <2>2
    <3>3. forgotten'[k] = forgotten[k]
      <4>1. Lost(table, K, k) = 0
        BY <2>2 DEF Lost
      <4> QED BY <1>14, <4>1
    <3> HIDE DEF table
    <3> QED BY <3>1, <3>2, <3>3 DEF KeyIsTrue, Fits, Limit, Window
  <2>3. CASE k \notin K /\ k \in keys
    <3>1. Fits(allowed'[k], forgotten[k], table[k].age, table[k].n, Limit(k), Window(k))
      BY <1>13, <2>3
    <3>2. /\ table[k].age \in 0..Longest /\ table[k].n \in 1..Limit(k)
          /\ Grows(allowed'[k]) /\ Grows(forgotten[k])
      BY <1>7, <1>10, <1>14, <2>3
    <3>3. Limit(k) \in Nat \ {0} /\ Window(k) \in 1..Longest
      BY KeysAre
    <3>6. Lost(table, K, k) = IF table[k].age < Window(k) THEN table[k].n ELSE 0
      BY <1>8, <2>3 DEF Lost
    <3>7. forgotten'[k] = More(forgotten[k], Lost(table, K, k)) /\ (Lost(table, K, k) = 0 => forgotten'[k] = forgotten[k])
      BY <1>14
    <3> HIDE DEF table
    <3>4. table[k].n \in Nat /\ table[k].n <= Limit(k)
      BY <3>2, <3>3
    <3>5. AtRest(allowed'[k], forgotten'[k], Limit(k), Window(k))
      <4>1. CASE table[k].age < Window(k)
        <5>1. AtRest(allowed'[k], More(forgotten[k], table[k].n), Limit(k), Window(k))
          BY <3>1, <3>2, <3>3, <3>4, DropRests
        <5> QED BY <3>6, <3>7, <4>1, <5>1
      <4>2. CASE ~(table[k].age < Window(k))
        <5>1. table[k].age >= Window(k)
          BY <3>2, <3>3, <4>2, SpansAre
        <5>2. AtRest(allowed'[k], forgotten[k], Limit(k), Window(k))
          BY <3>1, <3>2, <3>3, <3>4, <5>1, OverRests
        <5> QED BY <3>6, <3>7, <4>2, <5>2
      <4> QED BY <4>1, <4>2
    <3> QED BY <1>4, <2>3, <3>5 DEF KeyIsTrue, AtRest, Limit, Window
  <2>4. CASE k \notin keys
    <3>1. k \notin DOMAIN hits /\ k \notin q.checks /\ allowed'[k] = allowed[k]
      BY <1>5, <2>4
    <3>2. AtRest(allowed[k], forgotten[k], Limit(k), Window(k))
      BY <3>1 DEF LimiterInv, KeyIsTrue
    <3>3. k \notin DOMAIN hits'
      BY <1>3, <1>4, <2>4
    <3>4. forgotten'[k] = forgotten[k]
      <4>1. Lost(table, K, k) = 0
        BY <1>8, <2>4 DEF Lost
      <4> QED BY <1>14, <4>1
    <3> QED BY <3>1, <3>2, <3>3, <3>4 DEF KeyIsTrue, AtRest, Limit, Window
  <2> QED BY <1>3, <2>2, <2>3, <2>4
<1>17. ListedOutlastSweeps'
  <2> SUFFICES ASSUME ~halved', NEW k \in Keys, k.rule \in Listed PROVE forgotten'[k][Longest] = 0
    BY DEF ListedOutlastSweeps
  <2>1. ~halved /\ Unexpired(table) \subseteq K
    BY <1>2 DEF LimiterInv
  <2>2. forgotten[k][Longest] = 0
    BY <2>1 DEF LimiterInv, ListedOutlastSweeps
  <2>3. Lost(table, K, k) = 0
    <3>1. CASE k \in keys \ K
      <4>1. table[k].age >= Window(k) /\ table[k].age \in 0..Longest /\ Window(k) \in 1..Longest
        BY <1>3, <1>10, <2>1, <3>1, KeysAre
      <4>2. ~(table[k].age < Window(k))
        BY <4>1, SpansAre
      <4> QED BY <4>2 DEF Lost
    <3>2. CASE k \notin keys \ K
      BY <1>8, <3>2 DEF Lost
    <3> QED BY <3>1, <3>2
  <2> QED BY <1>14, <2>2, <2>3
<1>18. \A k \in DOMAIN hits' : hits'[k].age < Window(k) => hits'[k].n <= allowed'[k][hits'[k].age + 1]
  <2> TAKE k \in DOMAIN hits'
  <2>1. k \in keys /\ hits'[k] = table[k]
    BY <1>3, <1>4
  <2> HIDE DEF table
  <2> QED BY <1>12, <2>1
<1>19. halved' \in BOOLEAN /\ IsFiniteSet(DOMAIN hits')
  BY <1>2, <1>3, <1>4
<1> QED BY <1>7, <1>11, <1>16, <1>18, <1>19, <1>15, <1>17 DEF LimiterInv, Grows, Window

LEMMA LimiterStep == LimiterInv /\ [LimiterNext]_limiterVars => LimiterInv'
<1> SUFFICES ASSUME LimiterInv, [LimiterNext]_limiterVars PROVE LimiterInv'
  OBVIOUS
<1>1. CASE UNCHANGED limiterVars
  <2>1. hits' = hits /\ allowed' = allowed /\ forgotten' = forgotten /\ halved' = halved
    BY <1>1 DEF limiterVars
  <2> QED BY <2>1 DEF LimiterInv, TableIsSmall, ListedOutlastSweeps, KeyIsTrue, Grows, Fits, AtRest, Limit, Window
<1> QED BY <1>1, ElapseKeeps, TakeKeeps DEF LimiterNext

\* For any rules, requests and table size, and under any flood: a key is allowed
\* less than twice its limit and what sweeps forgot of it in any stretch as long
\* as its window, and sweeps forget nothing of a listed rule unless they have
\* halved the table; a key at rest is refused nothing, and who waits as told is
\* let through; and the table keeps to its size (ratelimit.py take, _sweep).
THEOREM LimitsStay == LimiterSpec => []LimitsHoldAndLift
<1>1. LimiterInv => LimitsHoldAndLift
  BY AllLimitsHold, QuietRefusesNothing, WaitsSuffice DEF LimitsHoldAndLift, LimiterInv
<1> QED BY <1>1, LimiterStarts, LimiterStep, PTL DEF LimiterSpec

-----------------------------------------------------------------------------
(***************************************************************************)
(* The cache of runs.  An entry counts how often its tenant's entries had  *)
(* been forgotten when its run ended: as forgetting drops them all, an     *)
(* entry there counts as many as there were, and the credential's version  *)
(* is that many, and one more while a save has not yet forgotten.          *)
(***************************************************************************)
EntryIsTrue(e) ==
  /\ e.tenant \in Tenants /\ e.tenant = job[e.by].tenant
  /\ e.forgets = forgets[e.tenant]
  /\ e.at \in Nat /\ e.at <= now
  /\ e.place \in Nat /\ e.place <= puts

SavesAreCounted ==
  /\ saving \subseteq Tenants
  /\ key \in [Tenants -> Nat] /\ forgets \in [Tenants -> Nat]
  /\ \A t \in Tenants : key[t] = forgets[t] + (IF t \in saving THEN 1 ELSE 0)

ReuseInv ==
  /\ now \in Nat /\ puts \in Nat /\ job \in [Queries -> Jobs]
  /\ SavesAreCounted
  /\ IsFiniteSet(entries) /\ \A e \in entries : EntryIsTrue(e)
  /\ ReuseIsSound

\* Fewer entries keep their order and their bound.
LEMMA FewerEntries ==
  ASSUME ReuseInv, entries' \subseteq entries
  PROVE  IsFiniteSet(entries') /\ OldestGoesFirst'
<1>1. IsFiniteSet(entries') /\ Cardinality(entries') <= Cardinality(entries)
  BY FS_Subset DEF ReuseInv
<1>2. Cardinality(entries') \in Nat /\ Cardinality(entries) \in Nat
  BY <1>1, FS_CardinalityType DEF ReuseInv
<1>3. Cardinality(entries') <= MaxEntries
  BY <1>1, <1>2, ReuseAssumption DEF ReuseInv, ReuseIsSound, OldestGoesFirst
<1> QED BY <1>1, <1>3 DEF ReuseInv, ReuseIsSound, OldestGoesFirst, IsFor

\* What a put leaves.
LEMMA PutKeepsOrder ==
  ASSUME ReuseInv, NEW e, e.at = now, e.place = puts + 1, entries' = AfterPut(e)
  PROVE  IsFiniteSet(entries') /\ OldestGoesFirst' /\ entries' \subseteq entries \cup {e}
<1> DEFINE others == {x \in entries : ~IsFor(x, e.tenant, e.spec)}
           grown  == others \cup {e}
<1>1. IsFiniteSet(others) /\ Cardinality(others) <= Cardinality(entries)
  BY FS_Subset DEF ReuseInv
<1>2. e \notin others
  <2>1. \A x \in entries : x.place # puts + 1
    BY DEF ReuseInv, EntryIsTrue
  <2> QED BY <2>1
<1>3. /\ IsFiniteSet(grown) /\ Cardinality(grown) = Cardinality(others) + 1
      /\ Cardinality(others) \in Nat /\ Cardinality(entries) \in Nat /\ Cardinality(entries) <= MaxEntries
  BY <1>1, <1>2, FS_AddElement, FS_CardinalityType DEF ReuseInv, ReuseIsSound, OldestGoesFirst
<1>4. Cardinality(grown) \in Nat /\ Cardinality(grown) <= MaxEntries + 1 /\ MaxEntries \in Nat
  BY <1>1, <1>3, ReuseAssumption
<1>5. \A x, y \in grown : x # y =>
        /\ x.place # y.place /\ ~IsFor(y, x.tenant, x.spec)
        /\ x.place < y.place => x.at <= y.at
  <2> SUFFICES ASSUME NEW x \in grown, NEW y \in grown, x # y
               PROVE  /\ x.place # y.place /\ ~IsFor(y, x.tenant, x.spec)
                      /\ x.place < y.place => x.at <= y.at
    OBVIOUS
  <2>1. CASE x \in others /\ y \in others
    BY <2>1 DEF ReuseInv, ReuseIsSound, OldestGoesFirst
  <2>2. CASE x \in others /\ y = e
    BY <2>2 DEF ReuseInv, EntryIsTrue, IsFor
  <2>3. CASE x = e /\ y \in others
    BY <2>3 DEF ReuseInv, EntryIsTrue, IsFor
  <2> QED BY <2>1, <2>2, <2>3
<1>6. \A x \in grown : x.place \in Nat
  BY DEF ReuseInv, EntryIsTrue
<1>7. CASE Cardinality(grown) <= MaxEntries
  <2>1. entries' = grown
    BY <1>4, <1>7 DEF AfterPut
  <2> QED BY <1>3, <1>5, <1>7, <2>1 DEF OldestGoesFirst, IsFor
<1>8. CASE Cardinality(grown) > MaxEntries
  <2> DEFINE stays == {x \in grown : \E y \in grown : y.place < x.place}
  <2>1. entries' = stays
    BY <1>4, <1>8 DEF AfterPut
  <2>2. PICK m \in grown : \A y \in grown : m.place <= y.place
    <3> DEFINE places == {x.place : x \in grown}
    <3>1. places \in SUBSET Nat /\ places # {}
      BY <1>6
    <3>2. PICK p \in places : \A z \in places : p <= z
      BY <3>1, OldestExists
    <3> QED BY <3>2
  <2>3. stays \subseteq grown \ {m}
    BY <1>6, <2>2
  <2>4. IsFiniteSet(grown \ {m}) /\ Cardinality(grown \ {m}) = Cardinality(grown) - 1
    BY <1>3, <2>2, FS_RemoveElement
  <2>5. IsFiniteSet(stays) /\ Cardinality(stays) <= Cardinality(grown \ {m}) /\ Cardinality(stays) \in Nat
    BY <2>3, <2>4, FS_Subset, FS_CardinalityType
  <2>6. Cardinality(stays) <= MaxEntries
    BY <1>4, <2>4, <2>5
  <2>7. stays \subseteq grown
    OBVIOUS
  <2> HIDE DEF stays
  <2> QED BY <1>5, <2>1, <2>5, <2>6, <2>7 DEF OldestGoesFirst, IsFor
<1> QED BY <1>4, <1>7, <1>8

LEMMA ReuseStarts == ReuseInit => ReuseInv
<1> SUFFICES ASSUME ReuseInit PROVE ReuseInv
  OBVIOUS
<1>1. IsFiniteSet(entries) /\ Cardinality(entries) = 0 /\ entries = {} /\ reused = {}
  BY FS_EmptySet DEF ReuseInit
<1>2. SavesAreCounted
  BY DEF ReuseInit, SavesAreCounted
<1>3. ReuseIsSound
  BY <1>1, ReuseAssumption DEF ReuseIsSound, OwnRunsOnly, RecentRunsOnly, OldestGoesFirst, NoRunFromBeforeASave
<1> QED BY <1>1, <1>2, <1>3 DEF ReuseInv, ReuseInit

\* The entries a query may read are its tenant's, of its tables, and recent.
LEMMA UsableIsOwn ==
  ASSUME ReuseInv, NEW q \in Queries, NEW e \in Usable(q)
  PROVE  /\ e \in entries /\ ~job[q].fresh /\ e.tenant = job[q].tenant /\ e.spec \in job[q].specs
         /\ e.at <= now /\ now - e.at <= Ttl
<1>1. ~job[q].fresh /\ e \in entries /\ ~Expired(e) /\ \E s \in job[q].specs : IsFor(e, job[q].tenant, s)
  BY DEF Usable, Found
<1>2. e.at \in Nat /\ now \in Nat /\ e.at <= now /\ Ttl \in Nat
  BY <1>1, ReuseAssumption DEF ReuseInv, EntryIsTrue
<1> QED BY <1>1, <1>2 DEF Expired, IsFor

LEMMA PlanIsSound ==
  ASSUME ReuseInv, NEW q \in Queries, Plan(q)
  PROVE  ReuseInv'
<1>1. /\ now' = now /\ puts' = puts /\ job' = job /\ saving' = saving /\ key' = key /\ forgets' = forgets
      /\ entries' \subseteq entries
  BY DEF Plan, AfterGet
<1>2. SavesAreCounted' /\ \A e \in entries' : EntryIsTrue(e)'
  BY <1>1 DEF ReuseInv, SavesAreCounted, EntryIsTrue
<1> DEFINE New(e) == [query |-> q, entry |-> e, at |-> now, key |-> key[job[q].tenant],
                      saving |-> job[q].tenant \in saving]
<1>3. reused' = reused \cup {New(e) : e \in Usable(q)}
  BY DEF Plan
<1>4. ASSUME NEW e \in Usable(q)
      PROVE  /\ job[New(e).entry.by].tenant = job[New(e).query].tenant
             /\ New(e).entry.spec \in job[New(e).query].specs
             /\ ~job[New(e).query].fresh
             /\ New(e).entry.at <= New(e).at /\ New(e).at - New(e).entry.at <= Ttl
             /\ ~New(e).saving => New(e).entry.forgets = New(e).key
  <2>1. New(e).query = q /\ New(e).entry = e /\ New(e).at = now /\ New(e).key = key[job[q].tenant]
    OBVIOUS
  <2>2. New(e).saving <=> job[q].tenant \in saving
    OBVIOUS
  <2>3. /\ e \in entries /\ ~job[q].fresh /\ e.tenant = job[q].tenant /\ e.spec \in job[q].specs
        /\ e.at <= now /\ now - e.at <= Ttl
    BY UsableIsOwn
  <2>4. e.tenant \in Tenants /\ e.tenant = job[e.by].tenant /\ e.forgets = forgets[e.tenant]
    BY <2>3 DEF ReuseInv, EntryIsTrue
  <2>5. job[q].tenant \notin saving => e.forgets = key[job[q].tenant]
    BY <2>3, <2>4 DEF ReuseInv, SavesAreCounted
  <2> HIDE DEF New
  <2> QED BY <2>1, <2>2, <2>3, <2>4, <2>5
<1> HIDE DEF New
<1>5. OwnRunsOnly' /\ RecentRunsOnly' /\ NoRunFromBeforeASave'
  <2> SUFFICES ASSUME NEW u \in reused'
               PROVE  /\ job[u.entry.by].tenant = job[u.query].tenant
                      /\ u.entry.spec \in job[u.query].specs
                      /\ ~job[u.query].fresh
                      /\ u.entry.at <= u.at /\ u.at - u.entry.at <= Ttl
                      /\ ~u.saving => u.entry.forgets = u.key
    BY <1>1 DEF OwnRunsOnly, RecentRunsOnly, NoRunFromBeforeASave
  <2>1. CASE u \in reused
    BY <2>1 DEF ReuseInv, ReuseIsSound, OwnRunsOnly, RecentRunsOnly, NoRunFromBeforeASave
  <2>2. CASE u \notin reused
    <3>1. PICK e \in Usable(q) : u = New(e)
      BY <1>3, <2>2
    <3> QED BY <1>4, <3>1
  <2> QED BY <2>1, <2>2
<1> QED BY <1>1, <1>2, <1>5, FewerEntries DEF ReuseInv, ReuseIsSound

\* A step that reuses nothing keeps what was reused sound.
LEMMA ReusedStays ==
  ASSUME ReuseInv, reused' = reused, job' = job, OldestGoesFirst'
  PROVE  ReuseIsSound'
  BY DEF ReuseInv, ReuseIsSound, OwnRunsOnly, RecentRunsOnly, NoRunFromBeforeASave

LEMMA FinishIsSound ==
  ASSUME ReuseInv, NEW q \in Queries, FinishRun(q)
  PROVE  ReuseInv'
<1> DEFINE Put(s) == [tenant |-> job[q].tenant, spec |-> s, by |-> q, key |-> seen[q],
                      at |-> now, forgets |-> forgets[job[q].tenant], place |-> puts + 1]
<1>1. /\ now' = now /\ puts' = puts + 1 /\ job' = job /\ saving' = saving /\ key' = key /\ forgets' = forgets
      /\ reused' = reused
  BY DEF FinishRun
<1>2. PICK s \in running[q] : entries' = AfterPut(Put(s))
  BY DEF FinishRun
<1>3. PICK e : e = Put(s)
  OBVIOUS
<1>4. job[q].tenant \in Tenants
  BY ReuseAssumption DEF ReuseInv
<1>5. EntryIsTrue(e)'
  <2>1. /\ e.tenant = job[q].tenant /\ e.by = q /\ e.at = now
        /\ e.forgets = forgets[job[q].tenant] /\ e.place = puts + 1
    BY <1>3
  <2> QED BY <1>1, <1>4, <2>1 DEF EntryIsTrue, ReuseInv
<1>6. IsFiniteSet(entries') /\ OldestGoesFirst' /\ entries' \subseteq entries \cup {e}
  <2>1. e.at = now /\ e.place = puts + 1 /\ entries' = AfterPut(e)
    BY <1>2, <1>3
  <2> HIDE DEF Put
  <2> QED BY <2>1, PutKeepsOrder
<1>7. \A x \in entries : EntryIsTrue(x)'
  BY <1>1 DEF ReuseInv, EntryIsTrue
<1>8. SavesAreCounted'
  BY <1>1 DEF ReuseInv, SavesAreCounted
<1>9. \A x \in entries' : EntryIsTrue(x)'
  BY <1>5, <1>6, <1>7
<1>10. now' \in Nat /\ puts' \in Nat /\ job' \in [Queries -> Jobs]
  BY <1>1 DEF ReuseInv
<1> QED BY <1>1, <1>6, <1>8, <1>9, <1>10, ReusedStays DEF ReuseInv

LEMMA SaveIsSound ==
  ASSUME ReuseInv, NEW t \in Tenants, SaveCredential(t) \/ Forget(t)
  PROVE  ReuseInv'
<1>1. now' = now /\ puts' = puts /\ job' = job /\ reused' = reused
  BY DEF SaveCredential, Forget
<1>2. CASE SaveCredential(t)
  <2>1. entries' = entries /\ forgets' = forgets
    BY <1>2 DEF SaveCredential
  <2>2. SavesAreCounted'
    BY <1>2 DEF SaveCredential, ReuseInv, SavesAreCounted
  <2>3. \A e \in entries' : EntryIsTrue(e)'
    BY <1>1, <2>1 DEF ReuseInv, EntryIsTrue
  <2> QED BY <1>1, <2>1, <2>2, <2>3, FewerEntries, ReusedStays DEF ReuseInv
<1>3. CASE Forget(t)
  <2>1. entries' = {e \in entries : e.tenant # t} /\ forgets' = [forgets EXCEPT ![t] = @ + 1]
    BY <1>3 DEF Forget
  <2>2. SavesAreCounted'
    BY <1>3 DEF Forget, ReuseInv, SavesAreCounted
  <2>3. \A e \in entries' : EntryIsTrue(e)'
    BY <1>1, <2>1 DEF ReuseInv, EntryIsTrue, SavesAreCounted
  <2> QED BY <1>1, <2>1, <2>2, <2>3, FewerEntries, ReusedStays DEF ReuseInv
<1> QED BY <1>2, <1>3

LEMMA ReuseStep == ReuseInv /\ [ReuseNext]_reuseVars => ReuseInv'
<1> SUFFICES ASSUME ReuseInv, [ReuseNext]_reuseVars PROVE ReuseInv'
  OBVIOUS
<1>1. ASSUME /\ now' = now \/ now' = now + 1
             /\ entries' \subseteq entries
             /\ UNCHANGED <<puts, job, key, saving, forgets, reused>>
      PROVE  ReuseInv'
  <2>1. SavesAreCounted'
    BY <1>1 DEF ReuseInv, SavesAreCounted
  <2>2. \A e \in entries' : EntryIsTrue(e)'
    BY <1>1 DEF ReuseInv, EntryIsTrue
  <2>3. now' \in Nat /\ puts' \in Nat /\ job' \in [Queries -> Jobs]
    BY <1>1 DEF ReuseInv
  <2> QED BY <1>1, <2>1, <2>2, <2>3, FewerEntries, ReusedStays DEF ReuseInv
<1>2. ASSUME NEW q \in Queries, Resolve(q) \/ Refuse(q) \/ StartRun(q) \/ FailRun(q)
      PROVE  ReuseInv'
  <2>1. /\ now' = now /\ entries' \subseteq entries
        /\ UNCHANGED <<puts, job, key, saving, forgets, reused>>
    BY <1>2 DEF Resolve, Refuse, StartRun, FailRun, AfterGet
  <2> QED BY <1>1, <2>1
<1>3. CASE ClockTick \/ UNCHANGED reuseVars
  <2>1. /\ now' = now \/ now' = now + 1
        /\ entries' \subseteq entries
        /\ UNCHANGED <<puts, job, key, saving, forgets, reused>>
    BY <1>3 DEF ClockTick, reuseVars
  <2> QED BY <1>1, <2>1
<1> QED BY <1>2, <1>3, PlanIsSound, FinishIsSound, SaveIsSound DEF ReuseNext

\* For any tenants, queries and reconciliations, and however a credential is
\* saved beside them: a run served from the cache is the tenant's own, of the
\* table named, no older than the window, and ended after the last save whose
\* entries were forgotten; and the cache gives up its oldest run first.
THEOREM ReuseStaysSound == ReuseSpec => []ReuseIsSound
<1>1. ReuseInv => ReuseIsSound
  BY DEF ReuseInv
<1> QED BY <1>1, ReuseStarts, ReuseStep, PTL DEF ReuseSpec

-----------------------------------------------------------------------------
(***************************************************************************)
(* The fold.  What stands in `said` is what an honest rail may say, a rail *)
(* that said nothing stays None, and the outcomes are decided from what    *)
(* stands.                                                                 *)
(***************************************************************************)
Verdicts == {None} \cup UNION {UNION {MaySay(r, p) : p \in Payments \cup {None}} : r \in RailNames}

FoldInv ==
  /\ rail \in 1..(Len(Rails) + 1)
  /\ said \in [Orders -> [RailNames -> Verdicts]]
  /\ \A o \in Orders : \A r \in RailNames :
       said[o][r] = None \/ said[o][r] \in MaySay(r, took[o][r])
  /\ outcome # None => rail > Len(Rails)
  /\ OutcomesAreTrue

\* What a verdict that stands says of what the rail took.
LEMMA SaidIsHonest ==
  ASSUME FoldInv, NEW o \in Orders, NEW r \in RailNames, said[o][r] # None
  PROVE  /\ said[o][r].status = "unmatched" => took[o][r] = None
         /\ said[o][r].status = "matched" => took[o][r] # None /\ said[o][r].payment = took[o][r]
         /\ said[o][r].status \in {"ambiguous", "unverifiable", "unmatched", "matched"}
<1>1. said[o][r] \in MaySay(r, took[o][r])
  BY DEF FoldInv
<1>2. CASE took[o][r] = None
  BY <1>1, <1>2 DEF MaySay, Says
<1>3. CASE took[o][r] # None
  <2>1. said[o][r] \in {Says("ambiguous", None), Says("unverifiable", None), Says("matched", took[o][r])}
    BY <1>1, <1>3 DEF MaySay, SaysMatched
  <2> QED BY <2>1, <1>3 DEF Says
<1> QED BY <1>2, <1>3

LEMMA RailsAreFinite == IsFiniteSet(RailNames)
<1>1. Len(Rails) \in Nat /\ DOMAIN Rails = 1..Len(Rails)
  BY FoldAssumption
<1>2. Rails \in Surjection(1..Len(Rails), RailNames)
  <2>1. Rails \in [1..Len(Rails) -> RailNames]
    BY <1>1, FoldAssumption DEF RailNames
  <2>2. \A r \in RailNames : \E i \in 1..Len(Rails) : Rails[i] = r
    BY <1>1 DEF RailNames
  <2> QED BY <2>1, <2>2 DEF Surjection
<1>3. IsFiniteSet(1..Len(Rails))
  BY <1>1, FS_Interval
<1> QED BY <1>2, <1>3, FS_Surjection

\* No rail, or one at least, has the order matched.
LEMMA MatchedIsSome ==
  ASSUME NEW o
  PROVE  /\ IsFiniteSet(Matched(o)) /\ Cardinality(Matched(o)) \in Nat /\ Matched(o) \subseteq RailNames
         /\ Matched(o) # {} => Cardinality(Matched(o)) >= 1
<1>1. Matched(o) \subseteq RailNames
  BY DEF Matched, WithStatus
<1> QED BY <1>1, RailsAreFinite, FS_Subset, FS_CardinalityType, FS_EmptySet

LEMMA UncollectedHolds ==
  ASSUME FoldInv, NEW o \in Orders
  PROVE  /\ Decide(o) = "uncollected" => Collectors(o) = {}
         /\ Decide(o) \notin {"uncollected", "unverifiable"} => Collectors(o) # {}
<1>1. ASSUME Decide(o) = "uncollected" PROVE Collectors(o) = {}
  <2>1. ClassifyMulti(o) # "uncollected"
    BY DEF ClassifyMulti
  <2>2. Matched(o) = {} /\ Unverified(o) = {} /\ \A r \in RailNames : said[o][r] # None
    BY <1>1, <2>1 DEF Decide
  <2>3. ASSUME NEW r \in RailNames PROVE took[o][r] = None
    <3>1. said[o][r] # None /\ said[o][r].status \notin {"matched", "unverifiable", "ambiguous"}
      BY <2>2 DEF Matched, Unverified, WithStatus
    <3> QED BY <3>1, SaidIsHonest
  <2> QED BY <2>3 DEF Collectors
<1>2. ASSUME Decide(o) \notin {"uncollected", "unverifiable"} PROVE Collectors(o) # {}
  <2>1. Cardinality(Matched(o)) = 1 \/ Matched(o) # {}
    BY <1>2 DEF Decide
  <2>2. Matched(o) # {}
    BY <2>1, FS_EmptySet
  <2>3. PICK r \in Matched(o) : TRUE
    BY <2>2
  <2>4. r \in RailNames /\ said[o][r] # None /\ said[o][r].status = "matched"
    BY <2>3 DEF Matched, WithStatus
  <2> QED BY <2>4, SaidIsHonest DEF Collectors
<1> QED BY <1>1, <1>2

\* The rails of o that took its total in its currency.
PaidInFull(o) ==
  {r \in Collectors(o) :
    /\ took[o][r].currency = Currency
    /\ took[o][r].amount # None /\ Near(o, took[o][r].amount)}

LEMMA TwiceHolds ==
  ASSUME FoldInv, NEW o \in Orders, Decide(o) = "collected_twice"
  PROVE  Cardinality(PaidInFull(o)) >= 2
<1>2. Cardinality(Matched(o)) # 1 /\ Matched(o) # {} /\ ClassifyMulti(o) = "collected_twice"
  BY DEF Decide
<1>3. \A r \in Matched(o) : AmountOn(o, r) # None /\ CurrencyOn(o, r) = Currency /\ Near(o, AmountOn(o, r))
  BY <1>2 DEF ClassifyMulti
<1>4. Matched(o) \subseteq PaidInFull(o)
  <2> SUFFICES ASSUME NEW r \in Matched(o) PROVE r \in PaidInFull(o)
    OBVIOUS
  <2>1. r \in RailNames /\ said[o][r] # None /\ said[o][r].status = "matched"
    BY DEF Matched, WithStatus
  <2>2. took[o][r] # None /\ said[o][r].payment = took[o][r]
    BY <2>1, SaidIsHonest
  <2> QED BY <1>3, <2>1, <2>2 DEF PaidInFull, Collectors, AmountOn, CurrencyOn
<1>5. Cardinality(Matched(o)) >= 2
  BY <1>2, MatchedIsSome
<1>6. IsFiniteSet(PaidInFull(o))
  BY RailsAreFinite, FS_Subset DEF PaidInFull, Collectors
<1>7. Cardinality(Matched(o)) <= Cardinality(PaidInFull(o)) /\ Cardinality(PaidInFull(o)) \in Nat
  BY <1>4, <1>6, FS_Subset, FS_CardinalityType
<1> QED BY <1>5, <1>7, MatchedIsSome

\* What the rails took is not changed by reading them.
LEMMA FoldKeepsTruth ==
  ASSUME total' = total, took' = took, NEW o
  PROVE  /\ Collectors(o)' = Collectors(o) /\ PaidInFull(o)' = PaidInFull(o)
         /\ UncollectedIsTrue(o)' <=> /\ outcome'[o] = "uncollected" => Collectors(o) = {}
                                      /\ outcome'[o] \notin {"uncollected", "unverifiable"} => Collectors(o) # {}
         /\ TwiceIsTrue(o)' <=> (outcome'[o] = "collected_twice" => Cardinality(PaidInFull(o)) >= 2)
<1>1. Collectors(o)' = Collectors(o)
  BY DEF Collectors
<1>2. \A x : Near(o, x)' <=> Near(o, x)
  BY DEF Near
<1>3. PaidInFull(o)' = PaidInFull(o)
  BY <1>1, <1>2 DEF PaidInFull, Near
<1>4. TwiceIsTrue(o)' <=> (outcome'[o] = "collected_twice" => Cardinality(PaidInFull(o)') >= 2)
  BY DEF TwiceIsTrue, PaidInFull
<1> QED BY <1>1, <1>3, <1>4 DEF UncollectedIsTrue

\* A step of the fold keeps what the verdicts rest on.
LEMMA FoldStep == FoldInv /\ [FoldNext]_foldVars => FoldInv'
<1> SUFFICES ASSUME FoldInv, [FoldNext]_foldVars PROVE FoldInv'
  OBVIOUS
<1>0. Len(Rails) \in Nat /\ DOMAIN Rails = 1..Len(Rails)
  BY FoldAssumption
<1>1. CASE ReadRail
  <2> DEFINE r == Rails[rail]
  <2>1. took' = took /\ outcome' = outcome /\ rail <= Len(Rails) /\ rail' = rail + 1
    BY <1>1 DEF ReadRail
  <2>2. PICK s \in [Orders -> UNION {MaySay(r, p) : p \in Payments \cup {None}}] :
          /\ \A o \in Orders : s[o] \in MaySay(r, took[o][r])
          /\ said' = [o \in Orders |-> [said[o] EXCEPT ![r] = s[o]]]
    BY <1>1 DEF ReadRail
  <2>3. outcome = None /\ rail' \in 1..(Len(Rails) + 1)
    BY <1>0, <2>1 DEF FoldInv
  <2>4. \A o \in Orders : \A x \in RailNames :
          said'[o][x] = IF x = r THEN s[o] ELSE said[o][x]
    BY <2>2 DEF FoldInv
  <2>5. r \in RailNames
    BY <1>0, <2>1 DEF FoldInv, RailNames
  <2>6. UNION {MaySay(r, p) : p \in Payments \cup {None}} \subseteq Verdicts
    BY <2>5 DEF Verdicts
  <2>7. \A o \in Orders : s[o] \in Verdicts
    BY <2>2, <2>6
  <2>8. \A o \in Orders : [said[o] EXCEPT ![r] = s[o]] \in [RailNames -> Verdicts]
    BY <2>7 DEF FoldInv
  <2>9. said' \in [Orders -> [RailNames -> Verdicts]]
    BY <2>2, <2>8
  <2>10. \A o \in Orders : \A x \in RailNames : said'[o][x] = None \/ said'[o][x] \in MaySay(x, took'[o][x])
    BY <2>1, <2>2, <2>4 DEF FoldInv
  <2>11. OutcomesAreTrue'
    BY <2>1, <2>3 DEF OutcomesAreTrue, Folded
  <2>12. outcome' = None
    BY <2>1, <2>3
  <2> QED BY <2>3, <2>9, <2>10, <2>11, <2>12 DEF FoldInv, Verdicts, RailNames, MaySay, Says, SaysMatched
<1>2. CASE Fold
  <2>1. /\ said' = said /\ took' = took /\ rail' = rail /\ total' = total /\ rail > Len(Rails)
        /\ outcome' = [o \in Orders |-> Decide(o)]
    BY <1>2 DEF Fold
  <2>2. ASSUME NEW o \in Orders PROVE UncollectedIsTrue(o)' /\ TwiceIsTrue(o)'
    <3>1. outcome'[o] = Decide(o)
      BY <2>1
    <3> QED BY <2>1, <3>1, FoldKeepsTruth, UncollectedHolds, TwiceHolds
  <2>3. OutcomesAreTrue'
    BY <2>2 DEF OutcomesAreTrue
  <2> QED BY <2>1, <2>3 DEF FoldInv
<1>3. CASE UNCHANGED foldVars
  <2>1. said' = said /\ took' = took /\ rail' = rail /\ outcome' = outcome /\ total' = total
    BY <1>3 DEF foldVars
  <2>2. \A o \in Orders : /\ UncollectedIsTrue(o)' <=> UncollectedIsTrue(o)
                          /\ TwiceIsTrue(o)' <=> TwiceIsTrue(o)
    BY <2>1 DEF UncollectedIsTrue, TwiceIsTrue, Collectors, Near
  <2>3. OutcomesAreTrue'
    BY <2>1, <2>2 DEF FoldInv, OutcomesAreTrue, Folded
  <2> QED BY <2>1, <2>3 DEF FoldInv
<1> QED BY <1>1, <1>2, <1>3 DEF FoldNext

LEMMA FoldStarts == FoldInit => FoldInv
<1> SUFFICES ASSUME FoldInit PROVE FoldInv
  OBVIOUS
<1>1. said = [o \in Orders |-> [r \in RailNames |-> None]] /\ outcome = None /\ rail = 1
  BY DEF FoldInit, Silent
<1>2. Len(Rails) \in Nat
  BY FoldAssumption
<1>3. None \in Verdicts
  BY DEF Verdicts
<1>4. OutcomesAreTrue
  BY <1>1 DEF OutcomesAreTrue, Folded
<1>5. \A o \in Orders : \A r \in RailNames : said[o][r] = None
  BY <1>1
<1>6. said \in [Orders -> [RailNames -> Verdicts]]
  BY <1>1, <1>3
<1> QED BY <1>1, <1>2, <1>4, <1>5, <1>6 DEF FoldInv

\* For every ledger, every set of rails and whatever they say: no rail took a
\* payment for an order reported uncollected, some rail did for one reported
\* collected, and two took its total for one reported collected twice.
THEOREM OutcomesStayTrue == FoldSpec => []OutcomesAreTrue
<1>1. FoldInv => OutcomesAreTrue
  BY DEF FoldInv
<1> QED BY <1>1, FoldStarts, FoldStep, PTL DEF FoldSpec

-----------------------------------------------------------------------------
(***************************************************************************)
(* Paging.  A cursor stands at the end of what its walk has read, and      *)
(* carries the identities of the whole result: what was read is their      *)
(* beginning.                                                              *)
(***************************************************************************)
\* Identities, as a fingerprint lists them, that begin with those of `got`.
Begins(got, f) == \A i \in 1..Len(got) : i \in DOMAIN f /\ Identity(got[i]) = f[i]

IsWalk(w) ==
  /\ \E S : w.got \in Seq(S)
  /\ w.cursor # NoCursor => w.cursor.o = Len(w.got) /\ Begins(w.got, w.cursor.f)

PagesInv ==
  /\ result \in Seq(ResultRows)
  /\ IsWalk(held) /\ IsWalk(kept)
  /\ PagesAreOneResult

LEMMA ViewIsSeq ==
  ASSUME NEW shown \in Seq(ResultRows), NEW verdict
  PROVE  /\ Len(View(shown, verdict)) \in Nat
         /\ DOMAIN View(shown, verdict) = 1..Len(View(shown, verdict))
         /\ \E S : View(shown, verdict) \in Seq(S)
<1> DEFINE S == Shown(shown, verdict)
           n == Cardinality(S)
           At(k) == shown[CHOOSE i \in S : Cardinality({j \in S : j < i}) = k - 1]
<1>1. S \subseteq 1..Len(shown) /\ IsFiniteSet(1..Len(shown))
  BY FS_Interval DEF Shown
<1>2. n \in Nat
  BY <1>1, FS_Subset, FS_CardinalityType
<1>3. View(shown, verdict) = [k \in 1..n |-> At(k)]
  BY DEF View
<1> HIDE DEF n, At
<1> DEFINE seq == [k \in 1..n |-> At(k)]
           T == {At(k) : k \in 1..n}
<1>4. seq \in [1..n -> T]
  OBVIOUS
<1>5. View(shown, verdict) = seq
  BY <1>3
<1> HIDE DEF seq, T
<1>6. seq \in Seq(T)
  BY <1>2, <1>4, SeqDef
<1>7. Len(seq) \in Nat /\ DOMAIN seq = 1..Len(seq)
  BY <1>6, LenProperties
<1> QED BY <1>5, <1>6, <1>7

\* One page served of a cursor that is not stale.
LEMMA PagedIsOneResult ==
  ASSUME PagesInv, NEW limit \in Int, NEW view, NEW from, from \in Cursors, Paged(limit, view, from)
  PROVE  IsWalk(held)' /\ PagesAreOneResult'
<1> DEFINE shown == View(result, view)
           offset == from.cursor.o
           read == IF from.cursor = NoCursor THEN <<>> ELSE from.got
           upto == Min({offset + Clamp(limit), Len(shown)})
           got == read \o SubSeq(shown, offset + 1, upto)
           next == IF upto < Len(shown) THEN [o |-> upto, f |-> Fingerprint(shown), v |-> view] ELSE NoCursor
<1>1. /\ held' = [cursor |-> next, got |-> got]
      /\ answer' = [got |-> got, whole |-> shown, more |-> next # NoCursor]
      /\ ~Stale(from.cursor, shown, view)
  BY DEF Paged, Page
<1>2. Len(shown) \in Nat /\ DOMAIN shown = 1..Len(shown) /\ \E S : shown \in Seq(S)
  BY ViewIsSeq DEF PagesInv
<1>3. Clamp(limit) \in Nat \ {0}
  BY PagesAssumption DEF Clamp
<1> HIDE DEF shown
<1>4. /\ \E S : read \in Seq(S)
      /\ Len(read) = offset /\ offset \in Nat /\ offset <= Len(shown)
      /\ \A i \in 1..offset : Identity(read[i]) = Identity(shown[i])
  <2>1. CASE from.cursor = NoCursor
    <3>1. read = <<>> /\ offset = 0
      BY <2>1 DEF NoCursor
    <3>2. read \in Seq({})
      BY <3>1, EmptySeq
    <3> QED BY <1>2, <3>1, <3>2
  <2>2. CASE from.cursor # NoCursor
    <3>1. from.cursor.o # None /\ from.cursor.f = Fingerprint(shown)
      BY <1>1, <2>2 DEF Stale
    <3>2. from # FromStart /\ from # Torn
      BY <2>2, <3>1 DEF FromStart, Torn
    <3>3. IsWalk(from)
      BY <3>2 DEF Cursors, PagesInv
    <3>4. PICK S : from.got \in Seq(S)
      BY <3>3 DEF IsWalk
    <3>5. read = from.got /\ offset = Len(from.got) /\ Begins(from.got, Fingerprint(shown))
      BY <2>2, <3>1, <3>3 DEF IsWalk
    <3>6. offset \in Nat
      BY <3>4, <3>5
    <3>7. \A i \in 1..offset : i \in 1..Len(shown) /\ Identity(read[i]) = Identity(shown[i])
      BY <1>2, <3>5 DEF Begins, Fingerprint
    <3>8. offset <= Len(shown)
      BY <1>2, <3>6, <3>7
    <3> HIDE DEF read, offset
    <3> QED BY <3>4, <3>5, <3>6, <3>7, <3>8
  <2> QED BY <2>1, <2>2
<1> HIDE DEF read, offset
<1>5. /\ upto \in Nat /\ offset <= upto /\ upto <= Len(shown)
      /\ upto = IF offset + Clamp(limit) <= Len(shown) THEN offset + Clamp(limit) ELSE Len(shown)
  BY <1>2, <1>3, <1>4, MinMax
<1> HIDE DEF upto
<1>5a. offset \in Nat /\ Len(shown) \in Nat /\ \A i \in 1..upto : i \in 1..Len(shown)
  <2>1. \A n, m \in Nat : n <= m => \A i \in 1..n : i \in 1..m
    OBVIOUS
  <2>2. upto \in Nat /\ Len(shown) \in Nat /\ upto <= Len(shown)
    BY <1>2, <1>5
  <2>3. offset \in Nat
    BY <1>4
  <2> HIDE DEF upto
  <2> QED BY <2>1, <2>2, <2>3
<1>6. PICK S : read \in Seq(S)
  BY <1>4
<1>7. PICK T : shown \in Seq(T)
  BY <1>2
<1> DEFINE page == SubSeq(shown, offset + 1, upto)
<1>8. /\ page \in Seq(T) /\ Len(page) = upto - offset
      /\ \A i \in 1..(upto - offset) : page[i] = shown[offset + i]
  <2>1. \A i \in offset + 1..upto : shown[i] \in T
    <3> TAKE i \in offset + 1..upto
    <3>1. i \in 1..Len(shown)
      BY <1>5, <1>5a
    <3> QED BY <1>7, <3>1, ElementOfSeq
  <2>2. /\ page \in Seq(T)
        /\ Len(page) = IF offset + 1 <= upto THEN upto - (offset + 1) + 1 ELSE 0
        /\ \A i \in 1..(upto - (offset + 1) + 1) : page[i] = shown[(offset + 1) + i - 1]
    BY <1>4, <1>5, <2>1, SubSeqProperties
  <2>3. upto - (offset + 1) + 1 = upto - offset
    BY <1>4, <1>5
  <2> HIDE DEF page
  <2>4. Len(page) = upto - offset
    BY <1>4, <1>5, <2>2
  <2>5. \A i \in 1..(upto - offset) : page[i] = shown[offset + i]
    <3> TAKE i \in 1..(upto - offset)
    <3>1. page[i] = shown[(offset + 1) + i - 1]
      BY <2>2, <2>3
    <3>2. (offset + 1) + i - 1 = offset + i
      BY <1>5, <1>5a
    <3> QED BY <3>1, <3>2
  <2> QED BY <2>2, <2>4, <2>5
<1> HIDE DEF page
<1>9. got = read \o page
  BY DEF page
<1>10. read \in Seq(S \cup T) /\ page \in Seq(S \cup T)
  BY <1>6, <1>8, SeqMonotonic
<1>11. /\ got \in Seq(S \cup T) /\ Len(got) = upto
       /\ \A i \in 1..upto : got[i] = IF i <= offset THEN read[i] ELSE page[i - offset]
  <2> HIDE DEF got
  <2>1. Len(read) = offset /\ Len(page) = upto - offset /\ offset + (upto - offset) = upto
    BY <1>4, <1>5, <1>8
  <2>2. /\ got \in Seq(S \cup T)
        /\ Len(got) = Len(read) + Len(page)
        /\ \A i \in 1..(Len(read) + Len(page)) :
             got[i] = IF i <= Len(read) THEN read[i] ELSE page[i - Len(read)]
    BY <1>9, <1>10, ConcatProperties
  <2> QED BY <2>1, <2>2
<1> HIDE DEF got
<1>12. \A i \in 1..upto : Identity(got[i]) = Identity(shown[i])
  <2> TAKE i \in 1..upto
  <2>1. CASE i <= offset
    BY <1>4, <1>5, <1>11, <2>1
  <2>2. CASE ~(i <= offset)
    <3>1. i - offset \in 1..(upto - offset) /\ offset + (i - offset) = i
      BY <1>4, <1>5, <2>2
    <3> QED BY <1>8, <1>11, <2>2, <3>1
  <2> QED BY <2>1, <2>2
<1>13. Begins(got, Fingerprint(shown))
  <2>1. \A i \in 1..upto : i \in DOMAIN shown
    BY <1>2, <1>5a
  <2> QED BY <1>11, <1>12, <2>1 DEF Begins, Fingerprint
<1>14. IsWalk(held')
  <2>1. held'.got = got /\ held'.cursor = next
    BY <1>1
  <2>2. next # NoCursor => next.o = upto /\ next.f = Fingerprint(shown)
    OBVIOUS
  <2> HIDE DEF next
  <2> QED BY <1>11, <1>13, <2>1, <2>2 DEF IsWalk
<1>15. PagesAreOneResult'
  <2>1. answer'.got = got /\ answer'.whole = shown /\ answer'.more = (next # NoCursor)
    BY <1>1
  <2>2. next = NoCursor => upto = Len(shown)
    <3>1. \A c, l \in Nat : c + l = 0 => l = 0
      OBVIOUS
    <3>2. upto < Len(shown) => upto = offset + Clamp(limit) /\ upto # 0
      BY <1>3, <1>5, <1>5a, <3>1
    <3>3. upto < Len(shown) => next.o = upto
      OBVIOUS
    <3>4. upto < Len(shown) => next # NoCursor
      BY <3>2, <3>3 DEF NoCursor
    <3>5. upto < Len(shown) \/ upto = Len(shown)
      BY <1>5, <1>5a
    <3> QED BY <3>4, <3>5
  <2>3. DOMAIN got = 1..upto
    BY <1>11, LenProperties
  <2>4. upto <= Len(shown)
    BY <1>5
  <2> HIDE DEF next
  <2> QED BY <1>11, <1>12, <2>1, <2>2, <2>3, <2>4 DEF PagesAreOneResult
<1> QED BY <1>14, <1>15

LEMMA PagesStart == PagesInit => PagesInv
<1> SUFFICES ASSUME PagesInit PROVE PagesInv
  OBVIOUS
<1>1. <<>> \in Seq({}) /\ Len(<<>>) = 0
  OBVIOUS
<1>2. IsWalk(held) /\ IsWalk(kept)
  BY <1>1 DEF PagesInit, FromStart, IsWalk
<1>3. result \in Seq(ResultRows)
  BY PagesAssumption DEF PagesInit
<1>4. PagesAreOneResult
  BY DEF PagesInit, PagesAreOneResult
<1> QED BY <1>2, <1>3, <1>4 DEF PagesInv

LEMMA PagesStep == PagesInv /\ [PagesNext]_pageVars => PagesInv'
<1> SUFFICES ASSUME PagesInv, [PagesNext]_pageVars PROVE PagesInv'
  OBVIOUS
<1>1. CASE Upstream
  BY <1>1, PagesAssumption DEF Upstream, PagesInv, IsWalk, Begins, PagesAreOneResult
<1>2. CASE Keep \/ UNCHANGED pageVars
  BY <1>2 DEF Keep, pageVars, PagesInv, IsWalk, Begins, PagesAreOneResult
<1>3. ASSUME NEW limit \in Int, NEW view, NEW from \in Cursors,
             Paged(limit, view, from) \/ Refused(view, from)
      PROVE  PagesInv'
  <2>1. CASE Paged(limit, view, from)
    <3>1. result' = result /\ kept' = kept
      BY <2>1 DEF Paged
    <3>2. IsWalk(kept)'
      BY <3>1 DEF PagesInv, IsWalk, Begins
    <3> QED BY <2>1, <3>1, <3>2, PagedIsOneResult DEF PagesInv
  <2>2. CASE Refused(view, from)
    <3>1. held' = FromStart /\ result' = result /\ kept' = kept /\ answer' = answer
      BY <2>2 DEF Refused
    <3>2. <<>> \in Seq({})
      OBVIOUS
    <3>3. IsWalk(held)'
      BY <3>1, <3>2 DEF IsWalk, FromStart
    <3> QED BY <3>1, <3>3 DEF PagesInv, IsWalk, Begins, PagesAreOneResult
  <2> QED BY <1>3, <2>1, <2>2
<1>4. CASE RestPage
  BY <1>3, <1>4, PagesAssumption DEF RestPage
<1>5. CASE ToolPage
  BY <1>3, <1>5, PagesAssumption DEF ToolPage
<1> QED BY <1>1, <1>2, <1>4, <1>5 DEF PagesNext

\* For any result, whatever upstream does to it between two pages, and any
\* cursor a client comes back with: the pages it is served are one result from
\* its start, each row once and in order.
THEOREM PagesStayOneResult == PagesSpec => []PagesAreOneResult
<1>1. PagesInv => PagesAreOneResult
  BY DEF PagesInv
<1> QED BY PagesStart, PagesStep, <1>1, PTL DEF PagesSpec

-----------------------------------------------------------------------------
(***************************************************************************)
(* Billing.  The log tells each subscription's life in turn, and its last  *)
(* event tells what is true now.  Nothing is assumed of the order in which *)
(* events come, of how many are served at once, or of how many             *)
(* subscriptions are open: every event acknowledged is no newer than the   *)
(* newest applied, so when all are, that is the last one sent; and what    *)
(* the record says, and whose plan stands, is told by the histories.       *)
(***************************************************************************)
Changes == [kind: {"checkout", "created", "updated", "deleted"}, sub: Subs,
            status: {"active", "past_due", "unpaid", "canceled"}]

LogTyped == status \in [Subs -> SubStatuses] /\ events \in Seq(Changes)

\* A subscription no event tells of was never paid; the last event tells what is true.
LogIsTrue ==
  /\ \A s \in Subs : status[s] \in {"none", "open"} =>
       \A i \in 1..Len(events) : events[i].sub # s
  /\ IF Len(events) = 0 THEN \A s \in Subs : status[s] \in {"none", "open"}
     ELSE status[events[Len(events)].sub] = events[Len(events)].status

\* Nothing unpaid was told of a subscription before its checkout was.
CheckoutsAreEarly ==
  \A j \in 1..Len(events) : events[j].kind = "checkout" =>
    /\ events[j].status = "active"
    /\ \A i \in 1..Len(events) :
         events[i].sub = events[j].sub /\ events[i].status \notin PAID => j < i

LogInv == LogTyped /\ LogIsTrue /\ CheckoutsAreEarly

\* The record says what some event told, none newer than the newest applied.
RecordIsTold ==
  /\ newest \in 0..Len(events) /\ acked \subseteq 1..newest
  /\ IF newest = 0 THEN record = None /\ plan = "free"
     ELSE \E i \in 1..newest : record = Said(i)

\* A delivery past its look at the record has a checkout only of a subscription
\* that was not ended then; one past its write has an event applied.
ServingIsTrue ==
  /\ doing \in [Handlers -> {"idle", "known", "save", "plan"}]
  /\ serving = [h \in Handlers |-> serving[h]] /\ known = [h \in Handlers |-> known[h]]
  /\ \A h \in Handlers : doing[h] # "idle" =>
       /\ serving[h] \in 1..Len(events)
       /\ doing[h] = "known" => EventOf(h).kind = "checkout"
       /\ doing[h] = "save" /\ EventOf(h).kind = "checkout" =>
            known[h] = None \/ known[h].sub # EventOf(h).sub \/ known[h].status \in PAID
       /\ doing[h] = "plan" => serving[h] <= newest

\* In order, the record says what the newest event applied says of the plan.
RecordIsInTurn ==
  /\ disordered \in BOOLEAN
  /\ ~disordered /\ newest # 0 =>
       /\ record.sub = events[newest].sub
       /\ record.status \in PAID <=> events[newest].status \in PAID

\* Not torn, the plan is the record's, or a delivery that is to set it has it in
\* hand, or one of an event that says the same is still to come.
PlanIsToCome ==
  /\ torn \in BOOLEAN
  /\ ~torn =>
       /\ \A g, h \in Handlers : doing[g] = "plan" /\ doing[h] = "plan" => g = h
       /\ \A h \in Handlers : doing[h] = "plan" => record = Said(serving[h])
       /\ newest # 0 =>
            \/ plan = PlanOf(record)
            \/ \E h \in Handlers : doing[h] = "plan"
            \/ \E i \in 1..Len(events) : i \notin acked /\ record = Said(i)

BillingInv ==
  LogInv /\ RecordIsTold /\ ServingIsTrue /\ RecordIsInTurn /\ PlanIsToCome

-----------------------------------------------------------------------------
LEMMA EventIs ==
  ASSUME LogTyped
  PROVE  /\ Len(events) \in Nat /\ DOMAIN events = 1..Len(events)
         /\ \A i \in 1..Len(events) : events[i] \in Changes
BY LenProperties, ElementOfSeq DEF LogTyped

LEMMA SaidIsNotNone ==
  ASSUME LogTyped, NEW i \in 1..Len(events)
  PROVE  Said(i) # None /\ Said(i).sub = events[i].sub /\ Said(i).status = events[i].status
<1>1. events[i] \in Changes
  BY EventIs
<1>2. Said(i) \in [sub: Subs, status: SubStatuses]
  BY <1>1 DEF Said, Changes, SubStatuses
<1> QED BY <1>2, BillingAssumption DEF Said

\* What an extended log keeps.
LEMMA SentAfter ==
  ASSUME LogTyped, NEW sent \in Seq(Changes), events' = events \o sent
  PROVE  /\ events' \in Seq(Changes) /\ Len(events') = Len(events) + Len(sent)
         /\ \A i \in 1..Len(events) : events'[i] = events[i]
         /\ \A i \in 1..Len(sent) : events'[Len(events) + i] = sent[i]
<1>1. /\ events' \in Seq(Changes) /\ Len(events') = Len(events) + Len(sent)
      /\ \A i \in 1..Len(events) + Len(sent) :
           events'[i] = IF i <= Len(events) THEN events[i] ELSE sent[i - Len(events)]
  BY ConcatProperties DEF LogTyped
<1>2. Len(events) \in Nat /\ Len(sent) \in Nat
  BY LenProperties DEF LogTyped
<1>3. ASSUME NEW i \in 1..Len(events) PROVE events'[i] = events[i]
  <2>1. i \in 1..Len(events) + Len(sent) /\ i <= Len(events)
    BY <1>2
  <2> QED BY <1>1, <2>1
<1>4. ASSUME NEW i \in 1..Len(sent) PROVE events'[Len(events) + i] = sent[i]
  <2>1. /\ Len(events) + i \in 1..Len(events) + Len(sent) /\ ~(Len(events) + i <= Len(events))
        /\ (Len(events) + i) - Len(events) = i
    BY <1>2
  <2> QED BY <1>1, <2>1
<1> QED BY <1>1, <1>3, <1>4

\* A log that tells what becomes of one subscription is still true.
LEMMA LogGrows ==
  ASSUME LogInv, NEW s \in Subs, NEW new \in {"active", "past_due", "unpaid", "canceled"},
         status' = [status EXCEPT ![s] = new],
         NEW sent \in Seq(Changes), sent # <<>>, events' = events \o sent,
         \A i \in 1..Len(sent) :
           /\ sent[i].sub = s /\ sent[i].status = new
           /\ sent[i].kind = "checkout" => new = "active" /\ status[s] = "open"
  PROVE  LogInv'
<1> DEFINE n == Len(events)
           m == Len(sent)
<1>1. /\ events' \in Seq(Changes) /\ Len(events') = n + m
      /\ \A i \in 1..n : events'[i] = events[i]
      /\ \A i \in 1..m : events'[n + i] = sent[i]
  BY SentAfter DEF LogInv
<1>2. n \in Nat /\ m \in Nat /\ m > 0 /\ m \in 1..m
  BY EventIs, EmptySeq, LenProperties DEF LogInv
<1>3. status \in [Subs -> SubStatuses]
  BY DEF LogInv, LogTyped
<1>4. status'[s] = new /\ \A t \in Subs \ {s} : status'[t] = status[t]
  BY <1>3
<1>5. LogTyped'
  BY <1>1, <1>3 DEF LogTyped, SubStatuses
\* Every event is one of the log before, or one of those sent.
<1>6. ASSUME NEW i \in 1..Len(events')
      PROVE  \/ i \in 1..n /\ events'[i] = events[i]
             \/ /\ i > n /\ events'[i].sub = s /\ events'[i].status = new
                /\ events'[i].kind = "checkout" => new = "active" /\ status[s] = "open"
  <2>1. CASE i \in 1..n
    BY <1>1, <2>1
  <2>2. CASE i \notin 1..n
    <3>1. PICK k : k = i - n
      OBVIOUS
    <3>2. i > n /\ k \in 1..m /\ i = n + k
      BY <1>1, <1>2, <2>2, <3>1
    <3> QED BY <1>1, <3>2
  <2> QED BY <2>1, <2>2
<1>7. LogIsTrue'
  <2>1. ASSUME NEW t \in Subs, status'[t] \in {"none", "open"}, NEW i \in 1..Len(events')
        PROVE  events'[i].sub # t
    <3>1. t # s /\ status[t] \in {"none", "open"}
      BY <1>4, <2>1
    <3>2. CASE i \in 1..n /\ events'[i] = events[i]
      BY <3>1, <3>2 DEF LogInv, LogIsTrue
    <3> QED BY <1>6, <3>1, <3>2
  <2>2. n + m \in 1..Len(events') /\ n + m # 0
    BY <1>1, <1>2
  <2>3. events'[n + m].sub = s /\ events'[n + m].status = new
    BY <1>1, <1>2
  <2> QED BY <1>1, <1>4, <2>1, <2>2, <2>3 DEF LogIsTrue
<1>8. CheckoutsAreEarly'
  <2> SUFFICES ASSUME NEW j \in 1..Len(events'), events'[j].kind = "checkout"
               PROVE  /\ events'[j].status = "active"
                      /\ \A i \in 1..Len(events') :
                           events'[i].sub = events'[j].sub /\ events'[i].status \notin PAID => j < i
    BY DEF CheckoutsAreEarly
  <2>1. CASE j \in 1..n /\ events'[j] = events[j]
    <3>1. events[j].status = "active"
      BY <2>1 DEF LogInv, CheckoutsAreEarly
    <3>2. ASSUME NEW i \in 1..Len(events'), events'[i].sub = events'[j].sub, events'[i].status \notin PAID
          PROVE  j < i
      <4>1. CASE i \in 1..n /\ events'[i] = events[i]
        BY <2>1, <3>2, <4>1 DEF LogInv, CheckoutsAreEarly
      <4>2. CASE i > n
        <5>1. j <= n /\ j \in Int /\ i \in Int
          BY <1>1, <1>2, <2>1
        <5> QED BY <1>2, <4>2, <5>1
      <4> QED BY <1>6, <4>1, <4>2
    <3> QED BY <2>1, <3>1, <3>2
  <2>2. CASE ~(j \in 1..n /\ events'[j] = events[j])
    <3>1. events'[j].sub = s /\ events'[j].status = new /\ new = "active" /\ status[s] = "open"
      BY <1>6, <2>2
    <3>2. ASSUME NEW i \in 1..Len(events'), events'[i].sub = s, events'[i].status \notin PAID
          PROVE  FALSE
      <4>1. CASE i \in 1..n /\ events'[i] = events[i]
        BY <3>1, <3>2, <4>1 DEF LogInv, LogIsTrue
      <4>2. CASE events'[i].status = new
        BY <3>1, <3>2, <4>2 DEF PAID
      <4> QED BY <1>6, <4>1, <4>2
    <3> QED BY <3>1, <3>2
  <2> QED BY <2>1, <2>2
<1> QED BY <1>5, <1>7, <1>8 DEF LogInv

\* What was true of the webhook stays so when Stripe has more to tell.
LEMMA TellingKeeps ==
  ASSUME BillingInv, NEW sent \in Seq(Changes), events' = events \o sent,
         UNCHANGED <<acked, serving, doing, known, record, plan, histories>>
  PROVE  RecordIsTold' /\ ServingIsTrue' /\ RecordIsInTurn' /\ PlanIsToCome'
<1> DEFINE n == Len(events)
<1>1. Len(events') = n + Len(sent) /\ \A i \in 1..n : events'[i] = events[i]
  BY SentAfter DEF BillingInv, LogInv
<1>2. n \in Nat /\ Len(sent) \in Nat
  BY EventIs, LenProperties DEF BillingInv, LogInv
<1>3. 1..n \subseteq 1..Len(events')
  BY <1>1, <1>2
<1>4. \A i \in 1..n : Said(i)' = Said(i)
  BY <1>1 DEF Said
<1>5. newest \in 0..n /\ 1..newest \subseteq 1..n /\ UNCHANGED <<newest, disordered, torn>>
  BY <1>2 DEF BillingInv, RecordIsTold, histories
<1>6. RecordIsTold'
  <2>1. newest' \in 0..Len(events') /\ acked' \subseteq 1..newest'
    BY <1>1, <1>2, <1>5 DEF BillingInv, RecordIsTold
  <2>2. CASE newest = 0
    BY <1>5, <2>1, <2>2 DEF BillingInv, RecordIsTold
  <2>3. CASE newest # 0
    <3>1. PICK i \in 1..newest : record = Said(i)
      BY <2>3 DEF BillingInv, RecordIsTold
    <3>2. i \in 1..newest' /\ record' = Said(i)'
      BY <1>4, <1>5, <3>1
    <3> QED BY <1>5, <2>1, <2>3, <3>2 DEF RecordIsTold
  <2> QED BY <2>2, <2>3
<1>7. ServingIsTrue'
  <2>1. ASSUME NEW h \in Handlers, doing[h] # "idle"
        PROVE  /\ serving[h] \in 1..Len(events')
               /\ EventOf(h)' = EventOf(h)
    <3>1. PICK i \in 1..n : i = serving[h]
      BY <2>1 DEF BillingInv, ServingIsTrue
    <3>2. EventOf(h)' = events'[i] /\ EventOf(h) = events[i]
      BY <3>1 DEF EventOf
    <3> QED BY <1>1, <1>3, <3>1, <3>2
  <2> QED BY <1>5, <2>1 DEF BillingInv, ServingIsTrue
<1>8. RecordIsInTurn'
  <2>1. newest # 0 => events'[newest] = events[newest]
    BY <1>1, <1>2, <1>5
  <2> QED BY <1>5, <2>1 DEF BillingInv, RecordIsInTurn
<1>9. PlanIsToCome'
  <2> SUFFICES ASSUME ~torn PROVE PlanIsToCome'
    BY <1>5 DEF BillingInv, PlanIsToCome
  <2>1. ASSUME NEW h \in Handlers, doing[h] = "plan" PROVE record = Said(serving[h])'
    <3>1. PICK i \in 1..n : i = serving[h]
      BY <2>1 DEF BillingInv, ServingIsTrue
    <3>2. record = Said(i)
      BY <2>1, <3>1 DEF BillingInv, PlanIsToCome
    <3>3. Said(serving[h])' = Said(i)'
      BY <3>1 DEF Said
    <3> QED BY <1>4, <3>1, <3>2, <3>3
  <2>2. newest # 0 => \/ plan = PlanOf(record)
                      \/ \E h \in Handlers : doing[h] = "plan"
                      \/ \E i \in 1..Len(events') : i \notin acked /\ record = Said(i)'
    BY <1>3, <1>4 DEF BillingInv, PlanIsToCome
  <2>3. \A g, h \in Handlers : doing[g] = "plan" /\ doing[h] = "plan" => g = h
    BY DEF BillingInv, PlanIsToCome
  <2>4. PlanOf(record)' = PlanOf(record)
    BY DEF PlanOf
  <2> QED BY <1>5, <2>1, <2>2, <2>3, <2>4 DEF BillingInv, PlanIsToCome
<1> QED BY <1>6, <1>7, <1>8, <1>9

LEMMA CheckoutKeeps == ASSUME BillingInv, NEW s \in Subs, Checkout(s) PROVE BillingInv'
<1>1. /\ status[s] = "none" /\ status' = [status EXCEPT ![s] = "open"]
      /\ UNCHANGED <<events, acked, serving, doing, known, record, plan, newest, disordered, torn>>
  BY DEF Checkout, histories
<1>2. status \in [Subs -> SubStatuses] /\ Len(events) \in Nat
  BY EventIs DEF BillingInv, LogInv, LogTyped
<1>3. status'[s] = "open" /\ \A t \in Subs \ {s} : status'[t] = status[t]
  BY <1>1, <1>2
<1>4. LogTyped'
  BY <1>1 DEF BillingInv, LogInv, LogTyped, SubStatuses
<1>5. LogIsTrue'
  <2>1. \A t \in Subs : status'[t] \in {"none", "open"} => status[t] \in {"none", "open"}
    BY <1>1, <1>3
  <2>2. CASE Len(events) = 0
    BY <1>1, <1>3, <2>1, <2>2 DEF BillingInv, LogInv, LogIsTrue
  <2>3. CASE Len(events) # 0
    <3>1. PICK e : e = events[Len(events)]
      OBVIOUS
    <3>2. Len(events) \in 1..Len(events) /\ e \in Changes /\ status[e.sub] = e.status
      BY <1>2, <2>3, <3>1, EventIs DEF BillingInv, LogInv, LogIsTrue
    <3>3. e.sub \in Subs \ {s}
      BY <1>1, <3>2 DEF Changes
    <3>4. status'[e.sub] = e.status
      BY <1>3, <3>2, <3>3
    <3> QED BY <1>1, <2>1, <2>3, <3>1, <3>4 DEF BillingInv, LogInv, LogIsTrue
  <2> QED BY <2>2, <2>3
<1>6. CheckoutsAreEarly'
  BY <1>1 DEF BillingInv, LogInv, CheckoutsAreEarly
<1>7. RecordIsTold' /\ ServingIsTrue' /\ RecordIsInTurn' /\ PlanIsToCome'
  BY <1>1 DEF BillingInv, RecordIsTold, ServingIsTrue, RecordIsInTurn, PlanIsToCome, Said, EventOf, PlanOf
<1> QED BY <1>4, <1>5, <1>6, <1>7 DEF BillingInv, LogInv

LEMMA PayKeeps == ASSUME BillingInv, NEW s \in Subs, Pay(s) PROVE BillingInv'
<1>1. /\ status[s] = "open" /\ status' = [status EXCEPT ![s] = "active"]
      /\ UNCHANGED <<acked, serving, doing, known, record, plan, histories>>
  BY DEF Pay
<1>2. status'[s] = "active"
  BY <1>1 DEF BillingInv, LogInv, LogTyped
<1>3. PICK a, b : /\ {a, b} = {"created", "checkout"}
                  /\ events' = events \o <<[kind |-> a, sub |-> s, status |-> "active"],
                                            [kind |-> b, sub |-> s, status |-> "active"]>>
  <2>1. \/ events' = events \o <<[kind |-> "created", sub |-> s, status |-> status'[s]],
                                 [kind |-> "checkout", sub |-> s, status |-> status'[s]]>>
        \/ events' = events \o <<[kind |-> "checkout", sub |-> s, status |-> status'[s]],
                                 [kind |-> "created", sub |-> s, status |-> status'[s]]>>
    BY DEF Pay, Sends, SentOf
  <2> QED BY <1>2, <2>1
<1>4. PICK one, two : /\ one = [kind |-> a, sub |-> s, status |-> "active"]
                      /\ two = [kind |-> b, sub |-> s, status |-> "active"]
  OBVIOUS
<1>5. one \in Changes /\ two \in Changes
  BY <1>3, <1>4 DEF Changes
<1>6. PICK sent : sent = <<one, two>>
  OBVIOUS
<1>7. /\ sent \in Seq(Changes) /\ sent # <<>>
      /\ \A i \in 1..Len(sent) : sent[i].sub = s /\ sent[i].status = "active"
  <2>1. Len(sent) = 2 /\ sent[1] = one /\ sent[2] = two /\ sent \in Seq(Changes)
    BY <1>5, <1>6
  <2>2. \A i \in 1..Len(sent) : i = 1 \/ i = 2
    BY <2>1
  <2> QED BY <1>4, <1>6, <2>1, <2>2
<1>8. events' = events \o sent
  BY <1>3, <1>4, <1>6
<1>9. LogInv'
  BY <1>1, <1>7, <1>8, LogGrows DEF BillingInv
<1> QED BY <1>1, <1>7, <1>8, <1>9, TellingKeeps DEF BillingInv

LEMMA ChangeKeeps == ASSUME BillingInv, NEW s \in Subs, Change(s) PROVE BillingInv'
<1>1. /\ status[s] \in {"active", "past_due", "unpaid"}
      /\ UNCHANGED <<acked, serving, doing, known, record, plan, histories>>
  BY DEF Change, Becomes
<1>2. PICK new \in {"active", "past_due", "unpaid", "canceled"} :
        /\ status' = [status EXCEPT ![s] = new]
        /\ events' = events \o <<[kind |-> IF new = "canceled" THEN "deleted" ELSE "updated",
                                  sub |-> s, status |-> status'[s]]>>
  <2>1. Becomes[status[s]] \subseteq {"active", "past_due", "unpaid", "canceled"}
    BY <1>1 DEF Becomes
  <2>2. \E new \in Becomes[status[s]] :
          /\ status' = [status EXCEPT ![s] = new]
          /\ events' = events \o <<[kind |-> IF new = "canceled" THEN "deleted" ELSE "updated",
                                    sub |-> s, status |-> status'[s]]>>
    BY DEF Change, Sends, SentOf
  <2> QED BY <2>1, <2>2
<1>3. status'[s] = new
  BY <1>2 DEF BillingInv, LogInv, LogTyped
<1>4. PICK kind \in {"updated", "deleted"} :
        events' = events \o <<[kind |-> kind, sub |-> s, status |-> new]>>
  BY <1>2, <1>3
<1>5. PICK e : e = [kind |-> kind, sub |-> s, status |-> new]
  OBVIOUS
<1>6. e \in Changes /\ events' = events \o <<e>>
  BY <1>4, <1>5 DEF Changes
<1>7. PICK sent : sent = <<e>>
  OBVIOUS
<1>8. /\ sent \in Seq(Changes) /\ sent # <<>> /\ events' = events \o sent
      /\ \A i \in 1..Len(sent) : sent[i].sub = s /\ sent[i].status = new /\ sent[i].kind # "checkout"
  <2>1. Len(sent) = 1 /\ sent[1] = e /\ sent \in Seq(Changes)
    BY <1>6, <1>7
  <2>2. \A i \in 1..Len(sent) : i = 1
    BY <2>1
  <2>3. e.sub = s /\ e.status = new /\ e.kind # "checkout"
    BY <1>5
  <2> QED BY <1>6, <1>7, <2>1, <2>2, <2>3
<1>9. LogInv'
  BY <1>2, <1>8, LogGrows DEF BillingInv
<1> QED BY <1>1, <1>8, <1>9, TellingKeeps DEF BillingInv

-----------------------------------------------------------------------------
\* The log is Stripe's: no delivery touches it.
LEMMA DeliveriesKeepTheLog == ASSUME LogInv, UNCHANGED <<status, events>> PROVE LogInv'
BY DEF LogInv, LogTyped, LogIsTrue, CheckoutsAreEarly

LEMMA ReceiveKeeps == ASSUME BillingInv, NEW h \in Handlers, Receive(h) PROVE BillingInv'
<1>1. /\ doing[h] = "idle"
      /\ UNCHANGED <<status, events, acked, known, record, plan, newest, disordered, torn>>
      /\ DOMAIN events = 1..Len(events)
  BY EventIs DEF Receive, histories, BillingInv, LogInv
<1>2. PICK i \in 1..Len(events) : /\ serving' = [serving EXCEPT ![h] = i]
                                  /\ doing' = [doing EXCEPT ![h] = FirstStep(events[i])]
  BY <1>1 DEF Receive
<1>3. /\ serving'[h] = i /\ doing'[h] = FirstStep(events[i])
      /\ \A g \in Handlers \ {h} : serving'[g] = serving[g] /\ doing'[g] = doing[g]
  BY <1>2 DEF BillingInv, ServingIsTrue
<1>4. EventOf(h)' = events[i] /\ \A g \in Handlers \ {h} : EventOf(g)' = EventOf(g)
  BY <1>1, <1>3 DEF EventOf
<1>5. /\ events[i].kind = "checkout" => doing'[h] = "known"
      /\ events[i].kind # "checkout" => doing'[h] = "save"
  BY <1>3 DEF FirstStep
<1>6. ServingIsTrue'
  <2>1. /\ doing' \in [Handlers -> {"idle", "known", "save", "plan"}]
        /\ serving' = [g \in Handlers |-> serving'[g]] /\ known' = [g \in Handlers |-> known'[g]]
    BY <1>1, <1>2 DEF BillingInv, ServingIsTrue, FirstStep
  <2>2. ASSUME NEW g \in Handlers, doing'[g] # "idle"
        PROVE  /\ serving'[g] \in 1..Len(events')
               /\ doing'[g] = "known" => EventOf(g)'.kind = "checkout"
               /\ doing'[g] = "save" /\ EventOf(g)'.kind = "checkout" =>
                    \/ known'[g] = None \/ known'[g].sub # EventOf(g)'.sub
                    \/ known'[g].status \in PAID
               /\ doing'[g] = "plan" => serving'[g] <= newest'
    <3>1. CASE g = h
      BY <1>1, <1>3, <1>4, <1>5, <3>1
    <3>2. CASE g # h
      BY <1>1, <1>3, <1>4, <2>2, <3>2 DEF BillingInv, ServingIsTrue
    <3> QED BY <3>1, <3>2
  <2> QED BY <2>1, <2>2 DEF ServingIsTrue
<1>7. \A g \in Handlers : doing'[g] = "plan" <=> doing[g] = "plan"
  BY <1>1, <1>3, <1>5
<1>8. PlanIsToCome'
  <2> SUFFICES ASSUME ~torn PROVE PlanIsToCome'
    BY <1>1 DEF BillingInv, PlanIsToCome
  <2>1. ASSUME NEW g \in Handlers, doing[g] = "plan" PROVE record' = Said(serving[g])'
    <3>1. serving'[g] = serving[g] /\ record = Said(serving[g])
      BY <1>1, <1>3, <2>1 DEF BillingInv, PlanIsToCome
    <3> QED BY <1>1, <3>1 DEF Said
  <2> QED BY <1>1, <1>7, <2>1 DEF BillingInv, PlanIsToCome, Said, PlanOf
<1>9. LogInv' /\ RecordIsTold' /\ RecordIsInTurn'
  BY <1>1, DeliveriesKeepTheLog DEF BillingInv, RecordIsTold, RecordIsInTurn, Said
<1> QED BY <1>6, <1>8, <1>9 DEF BillingInv

\* A handler that lets go of its delivery leaves the others theirs.
LEMMA DropKeeps ==
  ASSUME BillingInv, NEW h \in Handlers, Drop(h), UNCHANGED <<status, events, newest>>
  PROVE  /\ ServingIsTrue' /\ doing'[h] = "idle"
         /\ \A g \in Handlers \ {h} : doing'[g] = doing[g] /\ serving'[g] = serving[g]
<1>1. /\ serving' = [serving EXCEPT ![h] = None] /\ doing' = [doing EXCEPT ![h] = "idle"]
      /\ known' = [known EXCEPT ![h] = None]
  BY DEF Drop
<1>2. /\ doing'[h] = "idle"
      /\ \A g \in Handlers \ {h} :
           doing'[g] = doing[g] /\ serving'[g] = serving[g] /\ known'[g] = known[g]
  BY <1>1 DEF BillingInv, ServingIsTrue
<1>3. \A g \in Handlers \ {h} : EventOf(g)' = EventOf(g)
  BY <1>2 DEF EventOf
<1>4. /\ doing' \in [Handlers -> {"idle", "known", "save", "plan"}]
      /\ serving' = [g \in Handlers |-> serving'[g]] /\ known' = [g \in Handlers |-> known'[g]]
  BY <1>1 DEF BillingInv, ServingIsTrue
<1>5. ServingIsTrue'
  BY <1>2, <1>3, <1>4 DEF BillingInv, ServingIsTrue
<1> QED BY <1>2, <1>5

\* A checkout dropped is no newer than the news that its subscription ended, and
\* is never the event that says what the record says.
LEMMA CheckKnownKeeps == ASSUME BillingInv, NEW h \in Handlers, CheckKnown(h) PROVE BillingInv'
<1> DEFINE n == Len(events)
<1>1. /\ doing[h] = "known"
      /\ UNCHANGED <<status, events, record, plan, newest, disordered, torn>>
  BY DEF CheckKnown, histories
<1>2. PICK i \in 1..n : /\ i = serving[h] /\ EventOf(h) = events[i]
                        /\ events[i].kind = "checkout"
  BY <1>1 DEF BillingInv, ServingIsTrue, EventOf
<1>3. /\ n \in Nat /\ newest \in 0..n /\ LogInv' /\ RecordIsInTurn'
      /\ events[i].status = "active"
  BY <1>1, <1>2, EventIs, DeliveriesKeepTheLog
     DEF BillingInv, LogInv, CheckoutsAreEarly, RecordIsTold, RecordIsInTurn
<1>4. CASE record # None /\ record.sub = events[i].sub /\ record.status \notin PAID
  <2>1. acked' = acked \cup {i} /\ Drop(h)
    BY <1>1, <1>2, <1>4 DEF CheckKnown, Acknowledge
  <2>2. newest # 0
    BY <1>4 DEF BillingInv, RecordIsTold
  <2>3. PICK j \in 1..newest : record = Said(j)
    BY <2>2 DEF BillingInv, RecordIsTold
  <2>4. j \in 1..n /\ record.sub = events[j].sub /\ record.status = events[j].status
    <3>1. j \in 1..n
      BY <1>3
    <3> QED BY <2>3, <3>1, SaidIsNotNone DEF BillingInv, LogInv
  <2>5. i < j
    BY <1>2, <1>4, <2>4 DEF BillingInv, LogInv, CheckoutsAreEarly
  <2>6. i \in 1..newest
    BY <1>3, <2>3, <2>5
  <2>7. RecordIsTold'
    BY <1>1, <2>1, <2>6 DEF BillingInv, RecordIsTold, Said
  <2>8. /\ ServingIsTrue' /\ doing'[h] = "idle"
        /\ \A g \in Handlers \ {h} : doing'[g] = doing[g] /\ serving'[g] = serving[g]
    BY <1>1, <2>1, DropKeeps
  <2>9. PlanIsToCome'
    <3> SUFFICES ASSUME ~torn PROVE PlanIsToCome'
      BY <1>1 DEF BillingInv, PlanIsToCome
    <3>1. \A g \in Handlers : doing'[g] = "plan" <=> doing[g] = "plan"
      BY <1>1, <2>8
    <3>2. ASSUME NEW g \in Handlers, doing[g] = "plan" PROVE record' = Said(serving[g])'
      <4>1. serving'[g] = serving[g] /\ record = Said(serving[g])
        BY <1>1, <2>8, <3>2 DEF BillingInv, PlanIsToCome
      <4> QED BY <1>1, <4>1 DEF Said
    <3>3. record # Said(i)
      <4>1. Said(i).status = "active"
        BY <1>3, SaidIsNotNone DEF BillingInv, LogInv
      <4> QED BY <1>4, <4>1 DEF PAID
    <3> QED BY <1>1, <2>1, <3>1, <3>2, <3>3 DEF BillingInv, PlanIsToCome, Said, PlanOf
  <2> QED BY <1>3, <2>7, <2>8, <2>9 DEF BillingInv
<1>5. CASE ~(record # None /\ record.sub = events[i].sub /\ record.status \notin PAID)
  <2>1. /\ doing' = [doing EXCEPT ![h] = "save"] /\ known' = [known EXCEPT ![h] = record]
        /\ UNCHANGED <<acked, serving>>
    BY <1>1, <1>2, <1>5 DEF CheckKnown
  <2>2. /\ doing'[h] = "save" /\ known'[h] = record
        /\ \A g \in Handlers \ {h} : doing'[g] = doing[g] /\ known'[g] = known[g]
    BY <2>1 DEF BillingInv, ServingIsTrue
  <2>3. \A g \in Handlers : EventOf(g)' = EventOf(g)
    BY <1>1, <2>1 DEF EventOf
  <2>4. ServingIsTrue'
    <3>1. /\ doing' \in [Handlers -> {"idle", "known", "save", "plan"}]
          /\ serving' = [g \in Handlers |-> serving'[g]] /\ known' = [g \in Handlers |-> known'[g]]
      BY <2>1 DEF BillingInv, ServingIsTrue
    <3>2. ASSUME NEW g \in Handlers, doing'[g] # "idle"
          PROVE  /\ serving'[g] \in 1..Len(events')
                 /\ doing'[g] = "known" => EventOf(g)'.kind = "checkout"
                 /\ doing'[g] = "save" /\ EventOf(g)'.kind = "checkout" =>
                      \/ known'[g] = None \/ known'[g].sub # EventOf(g)'.sub
                      \/ known'[g].status \in PAID
                 /\ doing'[g] = "plan" => serving'[g] <= newest'
      <4>1. CASE g = h
        BY <1>1, <1>2, <1>5, <2>1, <2>2, <2>3, <4>1
      <4>2. CASE g # h
        BY <1>1, <2>1, <2>2, <2>3, <3>2, <4>2 DEF BillingInv, ServingIsTrue
      <4> QED BY <4>1, <4>2
    <3> QED BY <3>1, <3>2 DEF ServingIsTrue
  <2>5. \A g \in Handlers : doing'[g] = "plan" <=> doing[g] = "plan"
    BY <1>1, <2>2
  <2>6. PlanIsToCome'
    BY <1>1, <2>1, <2>5 DEF BillingInv, PlanIsToCome, Said, PlanOf
  <2>7. RecordIsTold'
    BY <1>1, <2>1 DEF BillingInv, RecordIsTold, Said
  <2> QED BY <1>3, <2>4, <2>6, <2>7 DEF BillingInv
<1> QED BY <1>4, <1>5

\* The record takes what the event says: the newest yet, or a checkout's late
\* word on a record of its own subscription, which was still paid.
LEMMA SaveKeeps == ASSUME BillingInv, NEW h \in Handlers, SaveBilling(h) PROVE BillingInv'
<1> DEFINE n == Len(events)
<1>1. /\ doing[h] = "save" /\ doing' = [doing EXCEPT ![h] = "plan"]
      /\ UNCHANGED <<status, events, acked, serving, known, plan>>
      /\ n \in Nat
  BY EventIs DEF SaveBilling, BillingInv, LogInv
<1>2. PICK i \in 1..n : i = serving[h] /\ EventOf(h) = events[i]
  BY <1>1 DEF BillingInv, ServingIsTrue, EventOf
<1>3. /\ record' = Said(i) /\ newest' = Latest(i)
      /\ disordered' = (~InTurn(h) /\ (Retried(h) => disordered))
      /\ torn' = \E g \in Handlers \ {h} : doing[g] = "plan"
  BY <1>2 DEF SaveBilling
<1>4. /\ newest \in 0..n /\ newest' \in 1..n /\ newest <= newest' /\ i <= newest'
      /\ newest' = newest \/ newest' = i
  BY <1>1, <1>2, <1>3 DEF BillingInv, RecordIsTold, Latest
<1>5. /\ doing'[h] = "plan" /\ \A g \in Handlers \ {h} : doing'[g] = doing[g]
      /\ \A g \in Handlers : EventOf(g)' = EventOf(g)
  BY <1>1 DEF BillingInv, ServingIsTrue, EventOf
<1>6. \A k \in 1..n : Said(k)' = Said(k)
  BY <1>1 DEF Said
<1>7. RecordIsTold'
  <2>1. acked' \subseteq 1..newest'
    BY <1>1, <1>4 DEF BillingInv, RecordIsTold
  <2>2. i \in 1..newest' /\ record' = Said(i)'
    BY <1>2, <1>3, <1>4, <1>6
  <2>3. newest' # 0 /\ newest' \in 0..Len(events')
    BY <1>1, <1>4
  <2> QED BY <2>1, <2>2, <2>3 DEF RecordIsTold
<1>8. ServingIsTrue'
  <2>1. /\ doing' \in [Handlers -> {"idle", "known", "save", "plan"}]
        /\ serving' = [g \in Handlers |-> serving'[g]] /\ known' = [g \in Handlers |-> known'[g]]
    BY <1>1 DEF BillingInv, ServingIsTrue
  <2>2. ASSUME NEW g \in Handlers, doing'[g] # "idle"
        PROVE  /\ serving'[g] \in 1..Len(events')
               /\ doing'[g] = "known" => EventOf(g)'.kind = "checkout"
               /\ doing'[g] = "save" /\ EventOf(g)'.kind = "checkout" =>
                    \/ known'[g] = None \/ known'[g].sub # EventOf(g)'.sub
                    \/ known'[g].status \in PAID
               /\ doing'[g] = "plan" => serving'[g] <= newest'
    <3>1. CASE g = h
      BY <1>1, <1>2, <1>4, <1>5, <3>1
    <3>2. CASE g # h
      <4>1. /\ serving[g] \in 1..n
            /\ doing[g] = "known" => EventOf(g).kind = "checkout"
            /\ doing[g] = "save" /\ EventOf(g).kind = "checkout" =>
                 \/ known[g] = None \/ known[g].sub # EventOf(g).sub
                 \/ known[g].status \in PAID
            /\ doing[g] = "plan" => serving[g] <= newest
        BY <1>5, <2>2, <3>2 DEF BillingInv, ServingIsTrue
      <4>2. doing[g] = "plan" => serving[g] <= newest'
        BY <1>4, <4>1
      <4> QED BY <1>1, <1>5, <3>2, <4>1, <4>2
    <3> QED BY <3>1, <3>2
  <2> QED BY <2>1, <2>2 DEF ServingIsTrue
<1>9. RecordIsInTurn'
  <2>1. disordered' \in BOOLEAN
    BY <1>3
  <2>2. Said(i).sub = events[i].sub /\ Said(i).status = events[i].status
    BY SaidIsNotNone DEF BillingInv, LogInv
  <2>3. ASSUME ~disordered'
        PROVE  /\ record'.sub = events[newest'].sub
               /\ record'.status \in PAID <=> events[newest'].status \in PAID
    <3>1. CASE InTurn(h)
      <4>1. Said(i) = Said(newest')
        BY <1>2, <1>3, <3>1 DEF InTurn
      <4>2. /\ Said(newest').sub = events[newest'].sub
            /\ Said(newest').status = events[newest'].status
        BY <1>4, SaidIsNotNone DEF BillingInv, LogInv
      <4> QED BY <1>3, <4>1, <4>2
    <3>2. CASE ~InTurn(h)
      <4>1. Retried(h) /\ ~disordered
        BY <1>3, <2>3, <3>2
      <4>2. newest' = newest
        BY <1>2, <1>3, <1>4, <3>2 DEF InTurn
      <4>3. /\ events[i].kind = "checkout" /\ record # None
            /\ record.sub = events[i].sub /\ record = known[h]
        BY <1>2, <4>1 DEF Retried
      <4>4. /\ record.sub = events[newest].sub
            /\ record.status \in PAID <=> events[newest].status \in PAID
        BY <1>4, <4>1, <4>2 DEF BillingInv, RecordIsInTurn
      <4>5. record.status \in PAID
        BY <1>1, <1>2, <4>3 DEF BillingInv, ServingIsTrue
      <4>6. events[i].status \in PAID
        BY <4>3 DEF BillingInv, LogInv, CheckoutsAreEarly, PAID
      <4> QED BY <1>3, <2>2, <4>2, <4>3, <4>4, <4>5, <4>6
    <3> QED BY <3>1, <3>2
  <2> QED BY <1>1, <2>1, <2>3 DEF RecordIsInTurn
<1>10. PlanIsToCome'
  <2>1. torn' \in BOOLEAN
    BY <1>3
  <2>2. ASSUME ~torn', NEW g \in Handlers, doing'[g] = "plan" PROVE g = h
    BY <1>3, <1>5, <2>2
  <2>3. record' = Said(serving[h])'
    <3>1. serving'[h] = i
      BY <1>1, <1>2
    <3> QED BY <1>1, <1>2, <1>3, <3>1 DEF Said
  <2> QED BY <1>5, <2>1, <2>2, <2>3 DEF PlanIsToCome
<1> QED BY <1>1, <1>7, <1>8, <1>9, <1>10, DeliveriesKeepTheLog DEF BillingInv

LEMMA SetPlanKeeps == ASSUME BillingInv, NEW h \in Handlers, SetPlan(h) PROVE BillingInv'
<1> DEFINE n == Len(events)
<1>1. /\ doing[h] = "plan" /\ Drop(h)
      /\ UNCHANGED <<status, events, record, newest, disordered, torn>>
  BY DEF SetPlan, Acknowledge, histories
<1>2. PICK i \in 1..n : i = serving[h] /\ EventOf(h) = events[i] /\ i <= newest
  BY <1>1 DEF BillingInv, ServingIsTrue, EventOf
<1>3. acked' = acked \cup {i} /\ plan' = PlanOf(events[i]) /\ newest \in 0..n /\ n \in Nat
  BY <1>2, EventIs DEF SetPlan, Acknowledge, BillingInv, LogInv, RecordIsTold
<1>4. /\ ServingIsTrue' /\ doing'[h] = "idle"
      /\ \A g \in Handlers \ {h} : doing'[g] = doing[g] /\ serving'[g] = serving[g]
  BY <1>1, DropKeeps
<1>5. RecordIsTold'
  <2>1. i \in 1..newest /\ newest # 0
    BY <1>2, <1>3
  <2> QED BY <1>1, <1>3, <2>1 DEF BillingInv, RecordIsTold, Said
<1>6. PlanIsToCome'
  <2> SUFFICES ASSUME ~torn PROVE PlanIsToCome'
    BY <1>1 DEF BillingInv, PlanIsToCome
  <2>1. record = Said(i) /\ \A g \in Handlers : doing[g] = "plan" => g = h
    BY <1>1, <1>2 DEF BillingInv, PlanIsToCome
  <2>2. record.status = events[i].status
    BY <2>1, SaidIsNotNone DEF BillingInv, LogInv
  <2>3. plan' = PlanOf(record')
    BY <1>1, <1>3, <2>2 DEF PlanOf
  <2>4. \A g \in Handlers : doing'[g] # "plan"
    BY <1>4, <2>1
  <2> QED BY <1>1, <2>3, <2>4 DEF PlanIsToCome, BillingInv
<1>7. LogInv' /\ RecordIsInTurn'
  BY <1>1, DeliveriesKeepTheLog DEF BillingInv, RecordIsInTurn
<1> QED BY <1>4, <1>5, <1>6, <1>7 DEF BillingInv

LEMMA FailKeeps == ASSUME BillingInv, NEW h \in Handlers, Fail(h) PROVE BillingInv'
<1>1. /\ doing[h] # "idle" /\ Drop(h)
      /\ torn' = (torn \/ (doing[h] = "plan" /\ serving[h] \in acked))
      /\ UNCHANGED <<status, events, acked, record, plan, newest, disordered>>
  BY DEF Fail
<1>2. /\ ServingIsTrue' /\ doing'[h] = "idle"
      /\ \A g \in Handlers \ {h} : doing'[g] = doing[g] /\ serving'[g] = serving[g]
  BY <1>1, DropKeeps
<1>3. LogInv' /\ RecordIsTold' /\ RecordIsInTurn'
  BY <1>1, DeliveriesKeepTheLog DEF BillingInv, RecordIsTold, RecordIsInTurn, Said
<1>4. PlanIsToCome'
  <2>1. torn' \in BOOLEAN
    BY <1>1 DEF BillingInv, PlanIsToCome
  <2> SUFFICES ASSUME ~torn' PROVE PlanIsToCome'
    BY <2>1 DEF PlanIsToCome
  <2>2. ~torn /\ (doing[h] = "plan" => serving[h] \notin acked)
    BY <1>1 DEF BillingInv, PlanIsToCome
  <2>3. ASSUME NEW g \in Handlers, doing'[g] = "plan"
        PROVE  g # h /\ doing[g] = "plan" /\ record' = Said(serving[g])'
    <3>1. g # h /\ doing[g] = "plan" /\ serving'[g] = serving[g] /\ record = Said(serving[g])
      BY <1>2, <2>2, <2>3 DEF BillingInv, PlanIsToCome
    <3> QED BY <1>1, <3>1 DEF Said
  <2>4. ASSUME newest # 0
        PROVE  \/ plan' = PlanOf(record')
               \/ \E g \in Handlers : doing'[g] = "plan"
               \/ \E i \in 1..Len(events') : i \notin acked' /\ record' = Said(i)'
    <3>1. CASE plan = PlanOf(record)
      BY <1>1, <3>1 DEF PlanOf
    <3>2. CASE \E g \in Handlers : doing[g] = "plan"
      <4>1. PICK g \in Handlers : doing[g] = "plan"
        BY <3>2
      <4>2. CASE g = h
        <5>1. PICK i \in 1..Len(events) : i = serving[h]
          BY <1>1 DEF BillingInv, ServingIsTrue
        <5>2. i \notin acked /\ record = Said(i)
          BY <2>2, <4>1, <4>2, <5>1 DEF BillingInv, PlanIsToCome
        <5> QED BY <1>1, <5>1, <5>2 DEF Said
      <4>3. CASE g # h
        BY <1>2, <4>1, <4>3
      <4> QED BY <4>2, <4>3
    <3>3. CASE \E i \in 1..Len(events) : i \notin acked /\ record = Said(i)
      BY <1>1, <3>3 DEF Said
    <3> QED BY <2>2, <2>4, <3>1, <3>2, <3>3 DEF BillingInv, PlanIsToCome
  <2>5. \A f, g \in Handlers : doing'[f] = "plan" /\ doing'[g] = "plan" => f = g
    BY <2>2, <2>3 DEF BillingInv, PlanIsToCome
  <2> QED BY <1>1, <2>1, <2>3, <2>4, <2>5 DEF PlanIsToCome
<1> QED BY <1>2, <1>3, <1>4 DEF BillingInv

LEMMA BillingStarts == BillingInit => BillingInv
<1> SUFFICES ASSUME BillingInit PROVE BillingInv
  OBVIOUS
<1>1. events = <<>> /\ events \in Seq(Changes) /\ Len(events) = 0
  BY EmptySeq DEF BillingInit
<1>2. 1..Len(events) = {} /\ 1..0 = {}
  BY <1>1
<1>3. LogInv
  BY <1>1, <1>2 DEF BillingInit, LogInv, LogTyped, LogIsTrue, CheckoutsAreEarly, SubStatuses
<1>4. RecordIsTold
  <2>1. newest = 0 /\ acked = {} /\ record = None /\ plan = "free"
    BY DEF BillingInit
  <2>2. newest \in 0..Len(events)
    BY <1>1, <2>1
  <2> QED BY <2>1, <2>2 DEF RecordIsTold
<1>5. ServingIsTrue
  BY DEF BillingInit, ServingIsTrue
<1>6. RecordIsInTurn /\ PlanIsToCome
  BY DEF BillingInit, RecordIsInTurn, PlanIsToCome
<1> QED BY <1>3, <1>4, <1>5, <1>6 DEF BillingInv

LEMMA BillingStep == BillingInv /\ [BillingNext]_billingVars => BillingInv'
<1> SUFFICES ASSUME BillingInv, [BillingNext]_billingVars PROVE BillingInv'
  OBVIOUS
<1>1. CASE UNCHANGED billingVars
  BY <1>1 DEF billingVars, BillingInv, LogInv, LogTyped, LogIsTrue, CheckoutsAreEarly, RecordIsTold,
              ServingIsTrue, RecordIsInTurn, PlanIsToCome, Said, EventOf, PlanOf
<1>2. ASSUME NEW s \in Subs, Checkout(s) \/ Pay(s) \/ Change(s) PROVE BillingInv'
  BY <1>2, CheckoutKeeps, PayKeeps, ChangeKeeps
<1>3. ASSUME NEW h \in Handlers, Webhook(h) PROVE BillingInv'
  BY <1>3, ReceiveKeeps, CheckKnownKeeps, SaveKeeps, SetPlanKeeps, FailKeeps DEF Webhook
<1> QED BY <1>1, <1>2, <1>3 DEF BillingNext

\* When Stripe has told everything, the newest event applied is the last one sent.
LEMMA AllIsApplied ==
  ASSUME BillingInv, Quiet
  PROVE  newest = Len(events) /\ Len(events) \in Nat /\ (record = None <=> newest = 0)
<1>1. Len(events) \in Nat /\ newest \in 0..Len(events)
  BY EventIs DEF BillingInv, LogInv, RecordIsTold
<1>2. 1..Len(events) \subseteq 1..newest
  <2>1. DOMAIN events = 1..Len(events)
    BY EventIs DEF BillingInv, LogInv
  <2> QED BY <2>1 DEF Quiet, BillingInv, RecordIsTold
<1>3. newest = Len(events)
  <2>1. CASE Len(events) = 0
    BY <1>1, <2>1
  <2>2. CASE Len(events) # 0
    <3>1. Len(events) \in 1..Len(events)
      BY <1>1, <2>2
    <3>2. Len(events) \in 1..newest
      BY <1>2, <3>1
    <3> QED BY <1>1, <3>2
  <2> QED BY <2>1, <2>2
<1>4. newest # 0 => record # None
  <2> SUFFICES ASSUME newest # 0 PROVE record # None
    OBVIOUS
  <2>1. PICK i \in 1..newest : record = Said(i)
    BY DEF BillingInv, RecordIsTold
  <2>2. i \in 1..Len(events)
    BY <1>3
  <2> QED BY <2>1, <2>2, SaidIsNotNone DEF BillingInv, LogInv
<1> QED BY <1>1, <1>3, <1>4 DEF BillingInv, RecordIsTold

LEMMA PlanIsTheRecords ==
  ASSUME BillingInv, Quiet, record # None, ~torn
  PROVE  plan = PlanOf(record)
<1>1. newest # 0 /\ DOMAIN events = 1..Len(events)
  BY AllIsApplied, EventIs DEF BillingInv, LogInv
<1>2. /\ \A h \in Handlers : doing[h] # "plan"
      /\ \A i \in 1..Len(events) : i \in acked
  BY <1>1 DEF Quiet
<1> QED BY <1>1, <1>2 DEF BillingInv, PlanIsToCome

LEMMA RecordIsLast ==
  ASSUME BillingInv, Quiet, ~disordered, ~torn
  PROVE  PlanIsPaidFor
<1>1. newest = Len(events) /\ Len(events) \in Nat /\ (record = None <=> newest = 0)
  BY AllIsApplied
<1>2. CASE record = None
  <2>1. plan = "free"
    BY <1>1, <1>2 DEF BillingInv, RecordIsTold
  <2>2. \A s \in Subs : status[s] \in {"none", "open"}
    <3>1. Len(events) = 0
      BY <1>1, <1>2
    <3> QED BY <3>1 DEF BillingInv, LogInv, LogIsTrue
  <2> QED BY <1>2, <2>1, <2>2 DEF PlanIsPaidFor, PAID
<1>3. CASE record # None
  <2>1. PICK e : e = events[Len(events)]
    OBVIOUS
  <2>2. record.sub = e.sub /\ (record.status \in PAID <=> e.status \in PAID)
    BY <1>1, <1>3, <2>1 DEF BillingInv, RecordIsInTurn
  <2>3. status[e.sub] = e.status
    BY <1>1, <1>3, <2>1 DEF BillingInv, LogInv, LogIsTrue
  <2>4. plan = PlanOf(record)
    BY <1>3, PlanIsTheRecords
  <2>5. plan = "pro" <=> record.status \in PAID
    BY <2>4 DEF PlanOf
  <2>6. /\ record.sub = events[Len(events)].sub
        /\ plan = "pro" <=> status[record.sub] \in PAID
    BY <2>1, <2>2, <2>3, <2>5
  <2> QED BY <1>3, <2>6 DEF PlanIsPaidFor
<1> QED BY <1>2, <1>3

\* For any number of subscriptions, open one after the other or together, any
\* number of deliveries at once, in any order and any number of times, any of
\* which may die: once Stripe has told everything, the plan is what the last
\* event's subscription pays for, if the newest news applied was not overwritten
\* with older news, nor the record beside another delivery's plan.
THEOREM PlanStaysPaidFor == BillingSpec => []PlanIsPaidFor
<1>1. BillingInv => PlanIsPaidFor
  <2>1. PlanIsPaidFor \/ (Quiet /\ ~disordered /\ ~torn)
    BY DEF PlanIsPaidFor
  <2> QED BY <2>1, RecordIsLast
<1> QED BY BillingStarts, BillingStep, <1>1, PTL DEF BillingSpec

\* For the same: the record and the plan agree once Stripe has told everything,
\* whatever the order, unless the record was last written beside another
\* delivery's plan or by one that died with its event acknowledged.
THEOREM RecordAndPlanAgree == BillingSpec => []PlanFollowsRecord
<1>1. BillingInv => PlanFollowsRecord
  BY PlanIsTheRecords DEF PlanFollowsRecord
<1> QED BY BillingStarts, BillingStep, <1>1, PTL DEF BillingSpec

-----------------------------------------------------------------------------
(***************************************************************************)
(* The subset search: it finds none when there is none, the one there is,  *)
(* and two when there are two or more, whatever the amounts.               *)
(***************************************************************************)
\* Sets of records are finite.
LEMMA FiniteIds ==
  ASSUME NEW S \in SUBSET Ids
  PROVE  IsFiniteSet(S) /\ Cardinality(S) \in Nat
<1>1. 1 \in Int /\ Members \in Int
  BY SearchAssumption
<1>2. IsFiniteSet(Ids)
  BY <1>1, FS_Interval DEF Ids
<1> QED BY <1>2, FS_Subset, FS_CardinalityType

\* Among sets of records, if there are any, one is of the fewest.
LEMMA SmallestExists ==
  ASSUME NEW C \in SUBSET SUBSET Ids, C # {}
  PROVE  \E S \in C : \A T \in C : Cardinality(S) <= Cardinality(T)
<1> DEFINE sizes == {Cardinality(S) : S \in C}
<1>1. sizes \in SUBSET Nat /\ sizes # {}
  BY FiniteIds
<1>2. PICK n \in sizes : \A k \in sizes : n <= k
  BY <1>1, OldestExists
<1> QED BY <1>2

\* One fewer without one.
LEMMA OneFewer ==
  ASSUME NEW S \in SUBSET Ids, NEW x \in S
  PROVE  /\ S \ {x} \in SUBSET Ids
         /\ Cardinality(S \ {x}) = Cardinality(S) - 1
         /\ Cardinality(S) > 0
<1>1. Cardinality(S \ {x}) = Cardinality(S) - 1
  BY FiniteIds, FS_RemoveElement
<1>2. Cardinality(S \ {x}) \in Nat /\ Cardinality(S) \in Nat
  BY FiniteIds
<1> QED BY <1>1, <1>2

(* A function that adds up as MapThenSumSet's does, for the sets in D.       *)
Any(S) == CHOOSE x \in S : TRUE
AddsOn(f, D) ==
  f = [s \in D |-> IF s = {} THEN 0 ELSE amount[Any(s)] + f[s \ {Any(s)}]]

LEMMA SumIsAdds ==
  ASSUME NEW S
  PROVE  SumOf(S) = (CHOOSE f : AddsOn(f, SUBSET S))[S]
  BY DEF SumOf, MapThenSumSet, MapThenFoldSet, AddsOn, Any

UpTo(n) == {s \in SUBSET Ids : Cardinality(s) <= n}

LEMMA UpToClosed ==
  ASSUME NEW n \in Nat, NEW s \in UpTo(n), s # {}
  PROVE  /\ n > 0 /\ Any(s) \in s /\ s \ {Any(s)} \in UpTo(n - 1)
         /\ s \ {Any(s)} \in UpTo(n)
<1>1. Any(s) \in s /\ s \in SUBSET Ids /\ Cardinality(s) <= n
  BY DEF Any, UpTo
<1>2. /\ s \ {Any(s)} \in SUBSET Ids /\ Cardinality(s) > 0
      /\ Cardinality(s \ {Any(s)}) = Cardinality(s) - 1
  BY <1>1, OneFewer
<1>3. Cardinality(s) \in Nat
  BY <1>1, FiniteIds
<1>4. n > 0 /\ Cardinality(s) - 1 <= n - 1 /\ Cardinality(s) - 1 <= n
  BY <1>1, <1>2, <1>3
<1> QED BY <1>1, <1>2, <1>4 DEF UpTo

(* There is one, for the sets of up to any number of records.               *)
LEMMA AddsUpTo ==
  ASSUME NEW n \in Nat
  PROVE  \E f : AddsOn(f, UpTo(n))
<1> DEFINE bad == {k \in Nat : ~\E f : AddsOn(f, UpTo(k))}
<1> SUFFICES ASSUME bad # {} PROVE FALSE
  OBVIOUS
<1>1. PICK m \in bad : \A k \in bad : m <= k
  BY OldestExists
<1>2. CASE m = 0
  <2> DEFINE g == [s \in UpTo(0) |-> 0]
  <2>1. ASSUME NEW s \in UpTo(0) PROVE s = {}
    <3>1. s # {} => 0 > 0
      BY UpToClosed, 0 \in Nat
    <3> QED BY <3>1
  <2>2. g = [s \in UpTo(0) |-> IF s = {} THEN 0 ELSE amount[Any(s)] + g[s \ {Any(s)}]]
    BY <2>1
  <2> QED BY <1>2, <1>1, <2>2 DEF AddsOn
<1>3. CASE m > 0
  <2>1. m - 1 \in Nat /\ m - 1 \notin bad
    BY <1>1, <1>3
  <2>2. PICK f : AddsOn(f, UpTo(m - 1))
    BY <2>1
  <2> DEFINE g == [s \in UpTo(m) |-> IF s = {} THEN 0 ELSE amount[Any(s)] + f[s \ {Any(s)}]]
  <2>3. ASSUME NEW s \in UpTo(m - 1) PROVE g[s] = f[s]
    <3>1. s \in UpTo(m)
      <4>1. s \in SUBSET Ids /\ Cardinality(s) <= m - 1 /\ Cardinality(s) \in Nat
        BY FiniteIds DEF UpTo
      <4> QED BY <4>1, <1>1 DEF UpTo
    <3>2. f[s] = IF s = {} THEN 0 ELSE amount[Any(s)] + f[s \ {Any(s)}]
      BY <2>2 DEF AddsOn
    <3> QED BY <3>1, <3>2
  <2>4. ASSUME NEW s \in UpTo(m), s # {} PROVE g[s \ {Any(s)}] = f[s \ {Any(s)}]
    BY <1>1, <2>3, <2>4, UpToClosed
  <2>5. g = [s \in UpTo(m) |-> IF s = {} THEN 0 ELSE amount[Any(s)] + g[s \ {Any(s)}]]
    BY <2>4
  <2> QED BY <1>1, <2>5 DEF AddsOn
<1> QED BY <1>1, <1>2, <1>3

LEMMA AddsExists ==
  ASSUME NEW S \in SUBSET Ids
  PROVE  \E f : AddsOn(f, SUBSET S)
<1>1. Cardinality(Ids) \in Nat
  BY FiniteIds
<1>2. PICK f : AddsOn(f, UpTo(Cardinality(Ids)))
  BY <1>1, AddsUpTo
<1> DEFINE g == [s \in SUBSET S |-> f[s]]
<1>3. ASSUME NEW s \in SUBSET S
      PROVE  g[s] = IF s = {} THEN 0 ELSE amount[Any(s)] + g[s \ {Any(s)}]
  <2>1. s \in UpTo(Cardinality(Ids))
    BY FiniteIds, FS_Subset DEF UpTo
  <2>2. f[s] = IF s = {} THEN 0 ELSE amount[Any(s)] + f[s \ {Any(s)}]
    BY <1>2, <2>1 DEF AddsOn
  <2> QED BY <2>2
<1>4. g = [s \in SUBSET S |-> IF s = {} THEN 0 ELSE amount[Any(s)] + g[s \ {Any(s)}]]
  BY <1>3
<1> QED BY <1>4 DEF AddsOn

(* Two of them agree on a set that both add up.                             *)
LEMMA AddsAgree ==
  ASSUME NEW S \in SUBSET Ids, NEW T \in SUBSET S
  PROVE  \A f, g : AddsOn(f, SUBSET S) /\ AddsOn(g, SUBSET T) => f[T] = g[T]
<1> SUFFICES ASSUME NEW f, NEW g, AddsOn(f, SUBSET S), AddsOn(g, SUBSET T)
             PROVE  \A s \in SUBSET T : f[s] = g[s]
  OBVIOUS
<1> DEFINE bad == {s \in SUBSET T : f[s] # g[s]}
<1> SUFFICES ASSUME bad # {} PROVE FALSE
  OBVIOUS
<1>1. bad \in SUBSET SUBSET Ids
  OBVIOUS
<1>2. PICK s \in bad : \A t \in bad : Cardinality(s) <= Cardinality(t)
  BY <1>1, SmallestExists
<1>3. /\ f[s] = IF s = {} THEN 0 ELSE amount[Any(s)] + f[s \ {Any(s)}]
      /\ g[s] = IF s = {} THEN 0 ELSE amount[Any(s)] + g[s \ {Any(s)}]
  BY DEF AddsOn
<1>4. CASE s = {}
  BY <1>3, <1>4
<1>5. CASE s # {}
  <2>1. Any(s) \in s /\ s \in SUBSET Ids /\ Cardinality(s) \in Nat
    BY <1>5, FiniteIds DEF Any
  <2>2. Cardinality(s \ {Any(s)}) = Cardinality(s) - 1
    BY <2>1, OneFewer
  <2>3. s \ {Any(s)} \notin bad
    BY <1>2, <2>1, <2>2
  <2> QED BY <1>3, <2>3
<1> QED BY <1>4, <1>5

(* The sum of no records, and of a set with one taken out.                  *)
LEMMA SumSteps ==
  ASSUME NEW S \in SUBSET Ids
  PROVE  SumOf(S) = IF S = {} THEN 0 ELSE amount[Any(S)] + SumOf(S \ {Any(S)})
<1>1. \A T \in SUBSET Ids : \E f : AddsOn(f, SUBSET T) /\ SumOf(T) = f[T]
  BY AddsExists, SumIsAdds
<1> DEFINE R == S \ {Any(S)}
<1>2. R \in SUBSET Ids /\ R \in SUBSET S
  OBVIOUS
<1>3. PICK f : AddsOn(f, SUBSET S) /\ SumOf(S) = f[S]
  BY <1>1
<1>4. PICK g : AddsOn(g, SUBSET R) /\ SumOf(R) = g[R]
  BY <1>1, <1>2
<1>5. f[R] = g[R]
  <2> HIDE DEF R
  <2>1. AddsOn(f, SUBSET S) /\ AddsOn(g, SUBSET R)
    BY <1>3, <1>4
  <2>2. \A h, k : AddsOn(h, SUBSET S) /\ AddsOn(k, SUBSET R) => h[R] = k[R]
    BY <1>2, AddsAgree
  <2> QED BY <2>1, <2>2
<1>6. f[S] = IF S = {} THEN 0 ELSE amount[Any(S)] + f[R]
  BY <1>3 DEF AddsOn
<1> QED BY <1>3, <1>4, <1>5, <1>6

(* Whichever record is taken out.                                           *)
LEMMA SumWithout ==
  ASSUME amount \in [Ids -> Int], NEW S \in SUBSET Ids
  PROVE  /\ SumOf(S) \in Int
         /\ \A x \in S : SumOf(S) = amount[x] + SumOf(S \ {x})
<1> DEFINE Right(T) == /\ SumOf(T) \in Int
                       /\ \A x \in T : SumOf(T) = amount[x] + SumOf(T \ {x})
           bad == {T \in SUBSET Ids : ~Right(T)}
<1> SUFFICES ASSUME bad # {} PROVE FALSE
  OBVIOUS
<1>1. PICK T \in bad : \A U \in bad : Cardinality(T) <= Cardinality(U)
  BY SmallestExists
<1>2. ASSUME NEW x \in T PROVE Right(T \ {x})
  <2>1. /\ T \ {x} \in SUBSET Ids /\ Cardinality(T \ {x}) = Cardinality(T) - 1
        /\ Cardinality(T) \in Nat
    BY OneFewer, FiniteIds
  <2>2. ~(Cardinality(T) <= Cardinality(T \ {x}))
    BY <2>1
  <2>3. T \ {x} \notin bad
    BY <1>1, <2>2
  <2> QED BY <2>1, <2>3
<1>3. CASE T = {}
  <2>1. SumOf(T) = 0
    BY <1>3, SumSteps
  <2> QED BY <1>3, <2>1
<1>4. CASE T # {}
  <2> DEFINE c == Any(T)
  <2>1. c \in T
    BY <1>4 DEF Any
  <2>2. SumOf(T) = amount[c] + SumOf(T \ {c})
    BY <1>4, SumSteps
  <2> HIDE DEF c
  <2>3. SumOf(T \ {c}) \in Int /\ amount[c] \in Int
    BY <2>1, <1>2
  <2>4. ASSUME NEW x \in T, x # c PROVE SumOf(T) = amount[x] + SumOf(T \ {x})
    <3>1. SumOf(T \ {c}) = amount[x] + SumOf((T \ {c}) \ {x})
      BY <2>1, <2>4, <1>2
    <3>2. SumOf(T \ {x}) = amount[c] + SumOf((T \ {x}) \ {c})
      BY <2>1, <2>4, <1>2
    <3>3. (T \ {x}) \ {c} = (T \ {c}) \ {x}
      OBVIOUS
    <3>4. (T \ {c}) \ {x} \in SUBSET Ids /\ SumOf(T \ {x}) \in Int /\ SumOf(T \ {c}) \in Int
      BY <1>2, <2>1
    <3>5. amount[x] \in Int /\ amount[c] \in Int
      BY <2>1
    <3>6. SumOf((T \ {c}) \ {x}) \in Int
      <4>1. CASE (T \ {c}) \ {x} \in bad
        <5>1. /\ Cardinality(T \ {c}) = Cardinality(T) - 1
              /\ Cardinality((T \ {c}) \ {x}) = Cardinality(T \ {c}) - 1
              /\ Cardinality(T) \in Nat
          <6>1. T \ {c} \in SUBSET Ids /\ x \in T \ {c}
            BY <2>4
          <6> QED BY <2>1, <6>1, OneFewer, FiniteIds
        <5>2. ~(Cardinality(T) <= Cardinality((T \ {c}) \ {x}))
          BY <5>1
        <5> QED BY <1>1, <4>1, <5>2
      <4> QED BY <3>4, <4>1
    <3> HIDE DEF Right, bad
    <3>7. \A a, b, t, u, v, w \in Int : t = a + u /\ u = b + w /\ v = a + w => t = b + v
      OBVIOUS
    <3> QED BY <2>2, <3>1, <3>2, <3>3, <3>4, <3>5, <3>6, <3>7
  <2>5. SumOf(T) \in Int
    BY <2>2, <2>3
  <2>6. \A x \in T : SumOf(T) = amount[x] + SumOf(T \ {x})
    BY <2>2, <2>4
  <2> QED BY <2>5, <2>6
<1> QED BY <1>3, <1>4

(* When no amount is negative, more records come to no less.                *)
LEMMA SumGrows ==
  ASSUME amount \in [Ids -> Int], Positive, NEW S \in SUBSET Ids, NEW T \in SUBSET Ids, S \subseteq T
  PROVE  SumOf(S) <= SumOf(T)
<1> DEFINE bad == {U \in SUBSET Ids : S \subseteq U /\ ~(SumOf(S) <= SumOf(U))}
<1> SUFFICES ASSUME bad # {} PROVE FALSE
  OBVIOUS
<1>1. PICK U \in bad : \A V \in bad : Cardinality(U) <= Cardinality(V)
  BY SmallestExists
<1>2. SumOf(S) \in Int /\ SumOf(U) \in Int
  BY SumWithout
<1>3. S # U
  BY <1>1, <1>2
<1>4. PICK x \in U : x \notin S
  BY <1>1, <1>3
<1>5. /\ U \ {x} \in SUBSET Ids /\ Cardinality(U \ {x}) = Cardinality(U) - 1
      /\ Cardinality(U) \in Nat
  BY <1>4, OneFewer, FiniteIds
<1>6. SumOf(S) <= SumOf(U \ {x})
  BY <1>1, <1>4, <1>5
<1>7. SumOf(U) = amount[x] + SumOf(U \ {x}) /\ SumOf(U \ {x}) \in Int
  BY <1>4, <1>5, SumWithout
<1>8. amount[x] \in Int /\ amount[x] >= 0
  BY <1>4 DEF Positive
<1> QED BY <1>1, <1>2, <1>6, <1>7, <1>8

(* The order of the walk is a total order.                                  *)
LEMMA PrecedesIsOrder ==
  ASSUME amount \in [Ids -> Int]
  PROVE  /\ \A x, y \in Ids : Precedes(x, y) => ~Precedes(y, x) /\ x # y /\ amount[x] <= amount[y]
         /\ \A x, y \in Ids : x # y => Precedes(x, y) \/ Precedes(y, x)
         /\ \A x, y, z \in Ids : Precedes(x, y) /\ Precedes(y, z) => Precedes(x, z)
<1>1. \A x \in Ids : x \in Int /\ amount[x] \in Int
  BY SearchAssumption DEF Ids
<1>2. \A x, y, a, b \in Int :
        a < b \/ (a = b /\ x < y) => ~(b < a \/ (b = a /\ y < x)) /\ a <= b
  OBVIOUS
<1>3. \A x, y, z, a, b, c \in Int :
        (a < b \/ (a = b /\ x < y)) /\ (b < c \/ (b = c /\ y < z)) => a < c \/ (a = c /\ x < z)
  OBVIOUS
<1>4. \A x, y \in Ids : Precedes(x, y) => ~Precedes(y, x) /\ x # y /\ amount[x] <= amount[y]
  <2> SUFFICES ASSUME NEW x \in Ids, NEW y \in Ids, Precedes(x, y)
               PROVE  ~Precedes(y, x) /\ x # y /\ amount[x] <= amount[y]
    OBVIOUS
  <2>1. ~Precedes(y, x) /\ amount[x] <= amount[y]
    BY <1>1, <1>2 DEF Precedes
  <2>2. x # y
    BY <2>1
  <2> QED BY <2>1, <2>2
<1>5. \A x, y \in Ids : x # y => Precedes(x, y) \/ Precedes(y, x)
  <2> SUFFICES ASSUME NEW x \in Ids, NEW y \in Ids, x # y
               PROVE  Precedes(x, y) \/ Precedes(y, x)
    OBVIOUS
  <2>1. x < y \/ y < x
    BY <1>1
  <2>2. amount[x] < amount[y] \/ amount[y] < amount[x] \/ amount[x] = amount[y]
    BY <1>1
  <2> QED BY <2>1, <2>2 DEF Precedes
<1>6. \A x, y, z \in Ids : Precedes(x, y) /\ Precedes(y, z) => Precedes(x, z)
  BY <1>1, <1>3 DEF Precedes
<1> QED BY <1>4, <1>5, <1>6

(* Records, if there are any, have a first and a final one.                 *)
LEMMA FirstIs ==
  ASSUME amount \in [Ids -> Int], NEW S \in SUBSET Ids, S # {}
  PROVE  First(S) \in S /\ \A y \in S \ {First(S)} : Precedes(First(S), y)
<1> DEFINE Least(U) == \E x \in U : \A y \in U \ {x} : Precedes(x, y)
           bad == {U \in SUBSET Ids : U # {} /\ ~Least(U)}
<1>1. bad = {}
  <2> SUFFICES ASSUME bad # {} PROVE FALSE
    OBVIOUS
  <2>1. PICK U \in bad : \A V \in bad : Cardinality(U) <= Cardinality(V)
    BY SmallestExists
  <2>2. PICK x \in U : TRUE
    BY <2>1
  <2>3. /\ U \ {x} \in SUBSET Ids /\ Cardinality(U \ {x}) = Cardinality(U) - 1
        /\ Cardinality(U) \in Nat
    BY <2>2, OneFewer, FiniteIds
  <2>4. U \ {x} \notin bad
    <3>1. ~(Cardinality(U) <= Cardinality(U \ {x}))
      BY <2>3
    <3> QED BY <2>1, <3>1
  <2>5. CASE U \ {x} = {}
    BY <2>1, <2>2, <2>5
  <2>6. CASE U \ {x} # {}
    <3>1. PICK m \in U \ {x} : \A y \in (U \ {x}) \ {m} : Precedes(m, y)
      BY <2>3, <2>4, <2>6
    <3>2. CASE Precedes(m, x)
      BY <2>1, <3>1, <3>2
    <3>3. CASE Precedes(x, m)
      BY <2>1, <2>2, <3>1, <3>3, PrecedesIsOrder
    <3> QED BY <2>1, <2>2, <3>1, <3>2, <3>3, PrecedesIsOrder
  <2> QED BY <2>5, <2>6
<1>2. \E x \in S : \A y \in S \ {x} : Precedes(x, y)
  BY <1>1
<1> QED BY <1>2 DEF First

LEMMA FinalIs ==
  ASSUME amount \in [Ids -> Int], NEW S \in SUBSET Ids, S # {}
  PROVE  Final(S) \in S /\ \A y \in S \ {Final(S)} : Precedes(y, Final(S))
<1> DEFINE Greatest(U) == \E x \in U : \A y \in U \ {x} : Precedes(y, x)
           bad == {U \in SUBSET Ids : U # {} /\ ~Greatest(U)}
<1>1. bad = {}
  <2> SUFFICES ASSUME bad # {} PROVE FALSE
    OBVIOUS
  <2>1. PICK U \in bad : \A V \in bad : Cardinality(U) <= Cardinality(V)
    BY SmallestExists
  <2>2. PICK x \in U : TRUE
    BY <2>1
  <2>3. /\ U \ {x} \in SUBSET Ids /\ Cardinality(U \ {x}) = Cardinality(U) - 1
        /\ Cardinality(U) \in Nat
    BY <2>2, OneFewer, FiniteIds
  <2>4. U \ {x} \notin bad
    <3>1. ~(Cardinality(U) <= Cardinality(U \ {x}))
      BY <2>3
    <3> QED BY <2>1, <3>1
  <2>5. CASE U \ {x} = {}
    BY <2>1, <2>2, <2>5
  <2>6. CASE U \ {x} # {}
    <3>1. PICK m \in U \ {x} : \A y \in (U \ {x}) \ {m} : Precedes(y, m)
      BY <2>3, <2>4, <2>6
    <3>2. CASE Precedes(x, m)
      BY <2>1, <3>1, <3>2
    <3>3. CASE Precedes(m, x)
      BY <2>1, <2>2, <3>1, <3>3, PrecedesIsOrder
    <3> QED BY <2>1, <2>2, <3>1, <3>2, <3>3, PrecedesIsOrder
  <2> QED BY <2>5, <2>6
<1>2. \E x \in S : \A y \in S \ {x} : Precedes(y, x)
  BY <1>1
<1> QED BY <1>2 DEF Final

(* The walk with C chosen and R to try has still to come to T: T goes on    *)
(* from C with a record of R, or from a part of C with a record behind the  *)
(* one that C went on with.                                                 *)
Below(S, p) == {y \in S : Precedes(y, p)}
Ahead(C, R, T) ==
  \E p \in T :
    \/ p \in R /\ Below(T, p) = C
    \/ \E c \in C : Precedes(c, p) /\ Below(T, p) = Below(C, c)

\* What is left to try is all that lies behind, and behind all that is chosen.
Behind(C, R) ==
  /\ \A x \in R, y \in Ids : Precedes(x, y) => y \in R
  /\ \A x \in R, c \in C : Precedes(c, x)

(* It comes to every group in the end, and is never ahead of where it is.   *)
LEMMA AllAhead ==
  ASSUME amount \in [Ids -> Int], NEW T \in SUBSET Ids, T # {}
  PROVE  Ahead({}, Ids, T)
<1>1. First(T) \in T /\ \A y \in T \ {First(T)} : Precedes(First(T), y)
  BY FirstIs
<1>2. Below(T, First(T)) = {}
  BY <1>1, PrecedesIsOrder DEF Below
<1> QED BY <1>1, <1>2 DEF Ahead

LEMMA NotAhead ==
  ASSUME amount \in [Ids -> Int], NEW C \in SUBSET Ids, NEW R \in SUBSET Ids
  PROVE  ~Ahead(C, R, C)
<1> SUFFICES ASSUME NEW p \in C, \/ Below(C, p) = C
                                 \/ \E c \in C : Precedes(c, p) /\ Below(C, p) = Below(C, c)
             PROVE  FALSE
  BY DEF Ahead
<1> QED BY PrecedesIsOrder DEF Below

(* Going down: it comes next to what is chosen with the first to try.       *)
LEMMA Descends ==
  ASSUME amount \in [Ids -> Int], NEW C \in SUBSET Ids, NEW R \in SUBSET Ids, R # {},
         Behind(C, R), NEW T \in SUBSET Ids
  PROVE  LET f == First(R)
         IN  /\ Ahead(C, R, T) => Ahead(C \cup {f}, R \ {f}, T) \/ T = C \cup {f}
             /\ Ahead(C \cup {f}, R \ {f}, T) \/ T = C \cup {f} => Ahead(C, R, T)
             /\ Behind(C \cup {f}, R \ {f})
<1> DEFINE f == First(R)
<1>1. f \in R /\ \A y \in R \ {f} : Precedes(f, y)
  BY FirstIs
<1> HIDE DEF f
<1>2. \A c \in C : Precedes(c, f)
  BY <1>1 DEF Behind
<1>3. Behind(C \cup {f}, R \ {f})
  BY <1>1, <1>2, PrecedesIsOrder DEF Behind
<1>4. Below(C \cup {f}, f) = C
  BY <1>1, <1>2, PrecedesIsOrder DEF Below
<1>5. ASSUME NEW c \in C PROVE Below(C \cup {f}, c) = Below(C, c)
  BY <1>1, <1>2, PrecedesIsOrder DEF Below
<1>6. ASSUME NEW p \in T, p \in R, Below(T, p) = C
      PROVE  Ahead(C \cup {f}, R \ {f}, T) \/ T = C \cup {f}
  <2>1. CASE p # f
    BY <1>1, <1>4, <1>6, <2>1 DEF Ahead
  <2>2. CASE p = f /\ T # C \cup {f}
    <3> DEFINE others == T \ (C \cup {f})
               q == First(others)
    <3>1. C \subseteq T
      BY <1>6 DEF Below
    <3>2. others \in SUBSET Ids /\ others # {}
      BY <2>2, <3>1
    <3>3. q \in others /\ \A y \in others \ {q} : Precedes(q, y)
      <4> HIDE DEF others
      <4> QED BY <3>2, FirstIs
    <3> HIDE DEF q
    <3>4. \A y \in others : Precedes(f, y)
      BY <1>1, <1>6, <2>2, PrecedesIsOrder DEF Below
    <3>5. q \in R \ {f}
      BY <1>1, <3>3, <3>4 DEF Behind
    <3>6. Below(T, q) = C \cup {f}
      <4>1. \A y \in C : Precedes(y, q)
        BY <1>1, <1>2, <3>3, <3>4, PrecedesIsOrder
      <4>2. \A y \in others : ~Precedes(y, q)
        BY <3>3, PrecedesIsOrder
      <4> QED BY <2>2, <3>1, <3>3, <3>4, <4>1, <4>2 DEF Below
    <3> QED BY <3>3, <3>5, <3>6 DEF Ahead
  <2> QED BY <2>1, <2>2
<1>7. ASSUME NEW p \in T, NEW c \in C, Precedes(c, p), Below(T, p) = Below(C, c)
      PROVE  Ahead(C \cup {f}, R \ {f}, T)
  BY <1>5, <1>7 DEF Ahead
<1>8. Ahead(C, R, T) => Ahead(C \cup {f}, R \ {f}, T) \/ T = C \cup {f}
  BY <1>6, <1>7 DEF Ahead
<1>9. T = C \cup {f} => Ahead(C, R, T)
  BY <1>1, <1>4 DEF Ahead
<1>10. ASSUME NEW p \in T, p \in R \ {f}, Below(T, p) = C \cup {f} PROVE Ahead(C, R, T)
  <2>1. f \in T
    BY <1>10 DEF Below
  <2>2. Below(T, f) = C
    BY <1>1, <1>2, <1>10, PrecedesIsOrder DEF Below
  <2> QED BY <1>1, <2>1, <2>2 DEF Ahead
<1>11. ASSUME NEW p \in T, NEW c \in C \cup {f}, Precedes(c, p), Below(T, p) = Below(C \cup {f}, c)
       PROVE  Ahead(C, R, T)
  <2>1. CASE c = f
    BY <1>1, <1>4, <1>11, <2>1 DEF Ahead, Behind
  <2>2. CASE c \in C
    BY <1>5, <1>11, <2>2 DEF Ahead
  <2> QED BY <2>1, <2>2
<1>12. Ahead(C \cup {f}, R \ {f}, T) => Ahead(C, R, T)
  BY <1>10, <1>11 DEF Ahead
<1> QED BY <1>3, <1>8, <1>9, <1>12 DEF f

(* Going up: it goes on behind the final record of what was chosen.         *)
LEMMA Ascends ==
  ASSUME amount \in [Ids -> Int], NEW C \in SUBSET Ids, C # {}, NEW T \in SUBSET Ids
  PROVE  LET l == Final(C)
             R == {x \in Ids : Precedes(l, x)}
         IN  /\ Ahead(C, {}, T) => Ahead(C \ {l}, R, T)
             /\ Ahead(C \ {l}, R, T) => Ahead(C, {}, T)
             /\ Behind(C \ {l}, R)
<1> DEFINE l == Final(C)
           R == {x \in Ids : Precedes(l, x)}
<1>1. l \in C /\ \A y \in C \ {l} : Precedes(y, l)
  BY FinalIs
<1> HIDE DEF l
<1>2. Below(C, l) = C \ {l}
  BY <1>1, PrecedesIsOrder DEF Below
<1>3. ASSUME NEW c \in C PROVE Below(C \ {l}, c) = Below(C, c)
  BY <1>1, PrecedesIsOrder DEF Below
<1>4. Behind(C \ {l}, R)
  BY <1>1, PrecedesIsOrder DEF Behind
<1>5. ASSUME NEW p \in T, NEW c \in C, Precedes(c, p), Below(T, p) = Below(C, c)
      PROVE  Ahead(C \ {l}, R, T)
  <2>1. CASE c = l
    BY <1>2, <1>5, <2>1 DEF Ahead
  <2>2. CASE c # l
    BY <1>3, <1>5, <2>2 DEF Ahead
  <2> QED BY <2>1, <2>2
<1>6. ASSUME NEW p \in T, p \in R, Below(T, p) = C \ {l} PROVE Ahead(C, {}, T)
  BY <1>1, <1>2, <1>6 DEF Ahead
<1>7. ASSUME NEW p \in T, NEW c \in C \ {l}, Precedes(c, p), Below(T, p) = Below(C \ {l}, c)
      PROVE  Ahead(C, {}, T)
  BY <1>3, <1>7 DEF Ahead
<1>8. Ahead(C, {}, T) => Ahead(C \ {l}, R, T)
  BY <1>5 DEF Ahead
<1>9. Ahead(C \ {l}, R, T) => Ahead(C, {}, T)
  BY <1>6, <1>7 DEF Ahead
<1> QED BY <1>4, <1>8, <1>9 DEF l

(* A branch is given up only when no group goes on from it: when it has as  *)
(* many records as a group may have,                                        *)
LEMMA FullEnough ==
  ASSUME amount \in [Ids -> Int], NEW C \in SUBSET Ids, NEW R \in SUBSET Ids,
         Cardinality(C) = MaxMembers, NEW T \in Groups, Ahead(C, R, T)
  PROVE  Ahead(C, {}, T)
<1>1. T \in SUBSET Ids /\ Cardinality(T) <= MaxMembers
  BY DEF Groups
<1>2. ASSUME NEW p \in T, Below(T, p) = C PROVE FALSE
  <2>1. C \subseteq T \ {p}
    BY <1>1, <1>2, PrecedesIsOrder DEF Below
  <2>2. /\ T \ {p} \in SUBSET Ids /\ Cardinality(T \ {p}) = Cardinality(T) - 1
        /\ Cardinality(T) \in Nat
    BY <1>1, OneFewer, FiniteIds
  <2>3. Cardinality(C) <= Cardinality(T \ {p})
    BY <2>1, <2>2, FiniteIds, FS_Subset
  <2>4. MaxMembers \in Nat
    BY SearchAssumption
  <2> QED BY <1>1, <2>2, <2>3, <2>4
<1> QED BY <1>2 DEF Ahead

(* and when the next record overshoots, as then every later one does.       *)
LEMMA OvershotEnough ==
  ASSUME amount \in [Ids -> Int], target \in Int, chosen \in SUBSET Ids, rest \in SUBSET Ids,
         rest # {} => Overshoots, NEW T \in Groups, Ahead(chosen, rest, T)
  PROVE  Ahead(chosen, {}, T)
<1>1. T \in SUBSET Ids /\ SumOf(T) - target \in -SumTolerance..SumTolerance
  BY DEF Groups, AddsUp
<1>2. ASSUME NEW p \in T, p \in rest, Below(T, p) = chosen PROVE FALSE
  <2> DEFINE f == First(rest)
  <2>1. /\ f \in rest /\ Positive /\ SumOf(chosen) + amount[f] > target + SumTolerance
        /\ \A y \in rest \ {f} : Precedes(f, y)
    BY <1>2, FirstIs DEF Overshoots
  <2> HIDE DEF f
  <2>2. amount[f] <= amount[p] /\ amount[f] \in Int /\ amount[p] \in Int
    BY <1>2, <2>1, PrecedesIsOrder
  <2>3. p \notin chosen /\ chosen \cup {p} \subseteq T /\ (chosen \cup {p}) \ {p} = chosen
    BY <1>1, <1>2, PrecedesIsOrder DEF Below
  <2>4. SumOf(chosen \cup {p}) = amount[p] + SumOf(chosen) /\ SumOf(chosen) \in Int
    <3>1. chosen \cup {p} \in SUBSET Ids /\ p \in chosen \cup {p}
      BY <1>2
    <3> QED BY <3>1, <2>3, SumWithout
  <2>5. SumOf(chosen \cup {p}) <= SumOf(T)
    BY <1>1, <2>1, <2>3, SumGrows
  <2>6. SumOf(T) \in Int /\ SumTolerance \in Nat
    BY <1>1, SumWithout, SearchAssumption
  <2> QED BY <1>1, <2>1, <2>2, <2>4, <2>5, <2>6
<1> QED BY <1>2 DEF Ahead

Left == IF phase = "back" THEN {} ELSE rest

\* The walk has still to come to T.
Pending(T) == Ahead(chosen, Left, T) \/ (phase = "enter" /\ T = chosen)
IsFound(T)   == \E k \in DOMAIN found : found[k] = T

SearchTypeOK ==
  /\ amount \in [Ids -> Int] /\ target \in Int
  /\ chosen \in SUBSET Ids /\ rest \in SUBSET Ids
  /\ found \in Seq(SUBSET Ids)
  /\ phase \in {"enter", "loop", "back", "done"}

FoundOnce ==
  \A k \in DOMAIN found : found[k] \in Groups /\ \A j \in DOMAIN found : found[j] = found[k] => j = k

\* A group is either found already, and then only once, or still to come to.
SearchInv ==
  /\ SearchTypeOK
  /\ Behind(chosen, rest)
  /\ Cardinality(chosen) <= MaxMembers
  /\ phase = "loop" => Cardinality(chosen) # MaxMembers
  /\ FoundOnce
  /\ phase # "done" => Len(found) <= 1 /\ \A T \in Groups : Pending(T) <=> ~IsFound(T)
  /\ phase = "done" =>
       Len(found) = IF Cardinality(Groups) >= 2 THEN 2 ELSE Cardinality(Groups)

(* The groups depend on the amounts and the target alone.                   *)
LEMMA GroupsStay ==
  ASSUME UNCHANGED <<amount, target>>
  PROVE  /\ Groups' = Groups
         /\ \A C, R, T : Ahead(C, R, T)' <=> Ahead(C, R, T)
         /\ \A C, R : Behind(C, R)' <=> Behind(C, R)
  BY DEF Groups, AddsUp, SumOf, MapThenSumSet, MapThenFoldSet, Ahead, Below, Behind, Precedes

LEMMA SearchStarts == SearchInit => SearchInv
<1> SUFFICES ASSUME SearchInit PROVE SearchInv
  OBVIOUS
<1>1. SearchTypeOK
  <2>1. amount \in [Ids -> Int] /\ target \in Int
    BY SearchAssumption DEF SearchInit
  <2>2. found \in Seq(SUBSET Ids)
    BY DEF SearchInit
  <2> QED BY <2>1, <2>2 DEF SearchInit, SearchTypeOK
<1>2. Behind(chosen, rest)
  BY DEF SearchInit, Behind
<1>3. Cardinality(chosen) <= MaxMembers
  <2>1. Cardinality({}) = 0
    BY FS_EmptySet
  <2> QED BY <2>1, SearchAssumption DEF SearchInit
<1>4. DOMAIN found = {} /\ Len(found) = 0
  BY DEF SearchInit
<1>5. \A T \in Groups : Pending(T) /\ ~IsFound(T)
  <2> TAKE T \in Groups
  <2>1. T \in SUBSET Ids /\ T # {}
    BY FS_EmptySet DEF Groups
  <2>2. Ahead({}, Ids, T)
    BY <1>1, <2>1, AllAhead DEF SearchTypeOK
  <2> QED BY <1>4, <2>2 DEF SearchInit, Pending, Left, IsFound
<1>6. FoundOnce
  BY <1>4 DEF FoundOnce
<1> QED BY <1>1, <1>2, <1>3, <1>4, <1>5, <1>6 DEF SearchInv, SearchInit

LEMMA EnterKeeps ==
  ASSUME SearchInv, Enter
  PROVE  SearchInv'
<1> USE DEF Enter
<1>1. /\ SearchTypeOK /\ Behind(chosen, rest) /\ Cardinality(chosen) <= MaxMembers
      /\ FoundOnce /\ Len(found) <= 1 /\ \A T \in Groups : Pending(T) <=> ~IsFound(T)
  BY DEF SearchInv
<1>2. /\ Groups' = Groups
      /\ \A C, R, T : Ahead(C, R, T)' <=> Ahead(C, R, T)
      /\ \A C, R : Behind(C, R)' <=> Behind(C, R)
  BY GroupsStay
<1>3. Len(found) \in Nat /\ found \in Seq(SUBSET Ids) /\ DOMAIN found = 1..Len(found)
  BY <1>1, LenProperties DEF SearchTypeOK
<1>4. SearchTypeOK'
  BY <1>1 DEF SearchTypeOK
<1>5. ASSUME chosen # {}, AddsUp(chosen) PROVE chosen \in Groups
  <2>1. IsFiniteSet(chosen) /\ Cardinality(chosen) \in Nat /\ Cardinality(chosen) # 0
    BY <1>1, <1>5, FiniteIds, FS_EmptySet DEF SearchTypeOK
  <2>2. Cardinality(chosen) \in 1..MaxMembers
    BY <1>1, <2>1, SearchAssumption
  <2> QED BY <1>1, <1>5, <2>2 DEF Groups, SearchTypeOK
<1>6. ~(chosen # {} /\ AddsUp(chosen)) => chosen \notin Groups
  BY FS_EmptySet DEF Groups
<1>7. ~Ahead(chosen, rest, chosen)
  BY <1>1, NotAhead DEF SearchTypeOK
<1>8. FoundOnce' /\ \A T \in Groups : IsFound(T)' <=> IsFound(T) \/ T = chosen
  <2>1. CASE chosen # {} /\ AddsUp(chosen)
    <3>1. found' = Append(found, chosen) /\ chosen \in Groups
      BY <1>5, <2>1
    <3>2. ~IsFound(chosen)
      BY <1>1, <3>1 DEF Pending
    <3>3. /\ DOMAIN found' = 1..(Len(found) + 1)
          /\ found'[Len(found) + 1] = chosen
          /\ \A k \in 1..Len(found) : found'[k] = found[k]
      BY <1>3, <3>1, <1>1, AppendProperties DEF SearchTypeOK
    <3>4. DOMAIN found' = DOMAIN found \cup {Len(found) + 1}
      BY <1>3, <3>3
    <3>5. \A T : IsFound(T)' <=> IsFound(T) \/ T = chosen
      BY <1>3, <3>3, <3>4 DEF IsFound
    <3>6. FoundOnce'
      BY <1>1, <1>2, <1>3, <3>1, <3>2, <3>3, <3>4 DEF IsFound, FoundOnce
    <3> QED BY <3>5, <3>6
  <2>2. CASE ~(chosen # {} /\ AddsUp(chosen))
    BY <1>1, <1>2, <1>6, <2>2 DEF IsFound, FoundOnce
  <2> QED BY <2>1, <2>2
<1>9. Len(found') \in Nat /\ Len(found') <= 2
  <2>1. Len(Append(found, chosen)) = Len(found) + 1
    BY <1>1, <1>3, AppendProperties DEF SearchTypeOK
  <2>2. Len(found') = Len(found) \/ Len(found') = Len(found) + 1
    BY <2>1
  <2> HIDE DEF Enter
  <2> QED BY <1>1, <1>3, <2>2
<1>10. ASSUME NEW T \in Groups PROVE Ahead(chosen, rest, T) <=> ~IsFound(T)'
  BY <1>1, <1>7, <1>8, <1>10 DEF Pending, Left
<1>11. CASE Len(found') > 1
  <2>1. Len(found') = 2 /\ DOMAIN found' = 1..2
    <3>1. found' \in Seq(SUBSET Ids)
      BY <1>4 DEF SearchTypeOK
    <3>2. Len(found') = 2
      <4>1. \A n \in Nat : n <= 2 /\ n > 1 => n = 2
        OBVIOUS
      <4> QED BY <1>9, <1>11, <4>1
    <3> QED BY <3>1, <3>2, LenProperties
  <2>2. /\ found'[1] \in Groups /\ found'[2] \in Groups /\ found'[1] # found'[2]
    BY <1>2, <1>8, <2>1 DEF FoundOnce
  <2>3. Cardinality(Groups) >= 2
    <3>1. IsFiniteSet(Groups)
      <4>1. IsFiniteSet(SUBSET Ids) 
        BY FiniteIds, FS_SUBSET
      <4> QED BY <4>1, FS_Subset DEF Groups
    <3>2. {found'[1], found'[2]} \subseteq Groups
      BY <2>2
    <3>3. Cardinality({found'[1], found'[2]}) = 2
      <4> HIDE DEF Enter
      <4>1. \A a, b : a # b => Cardinality({a, b}) = 2
        <5> TAKE a, b
        <5> HAVE a # b
        <5>1. IsFiniteSet({a}) /\ Cardinality({a}) = 1 /\ b \notin {a}
          BY FS_Singleton
        <5>2. Cardinality({a} \cup {b}) = Cardinality({a}) + 1
          BY <5>1, FS_AddElement
        <5>3. {a} \cup {b} = {a, b}
          OBVIOUS
        <5> QED BY <5>1, <5>2, <5>3
      <4> QED BY <2>2, <4>1
    <3>4. Cardinality({found'[1], found'[2]}) <= Cardinality(Groups)
      BY <3>1, <3>2, FS_Subset
    <3>5. Cardinality(Groups) \in Nat
      BY <3>1, FS_CardinalityType
    <3> QED BY <3>3, <3>4, <3>5
  <2>4. phase' = "done"
    BY <1>11
  <2> QED BY <1>1, <1>2, <1>4, <1>8, <2>1, <2>3, <2>4 DEF SearchInv
<1>12. CASE ~(Len(found') > 1) /\ Cardinality(chosen) = MaxMembers
  <2>1. phase' = "back" /\ Len(found') <= 1
    BY <1>9, <1>12
  <2>2. ASSUME NEW T \in Groups PROVE Pending(T)' <=> ~IsFound(T)'
    <3>1. Ahead(chosen, rest, T) <=> Ahead(chosen, {}, T)
      BY <1>1, <1>12, FullEnough DEF Ahead, SearchTypeOK
    <3>2. Pending(T)' <=> Ahead(chosen, {}, T)
      BY <1>2, <2>1 DEF Pending, Left
    <3> QED BY <1>10, <3>1, <3>2
  <2> QED BY <1>1, <1>2, <1>4, <1>8, <2>1, <2>2 DEF SearchInv
<1>13. CASE ~(Len(found') > 1) /\ Cardinality(chosen) # MaxMembers
  <2>1. phase' = "loop" /\ Len(found') <= 1
    BY <1>9, <1>13
  <2>2. ASSUME NEW T \in Groups PROVE Pending(T)' <=> ~IsFound(T)'
    <3>1. Pending(T)' <=> Ahead(chosen, rest, T)
      BY <1>2, <2>1 DEF Pending, Left
    <3> QED BY <1>10, <3>1
  <2> QED BY <1>1, <1>2, <1>4, <1>8, <1>13, <2>1, <2>2 DEF SearchInv
<1> QED BY <1>11, <1>12, <1>13

LEMMA TryKeeps ==
  ASSUME SearchInv, Try
  PROVE  SearchInv'
<1> USE DEF Try
<1> DEFINE f == First(rest)
<1>1. /\ SearchTypeOK /\ Behind(chosen, rest) /\ Cardinality(chosen) <= MaxMembers
      /\ Cardinality(chosen) # MaxMembers
      /\ FoundOnce /\ Len(found) <= 1 /\ \A T \in Groups : Pending(T) <=> ~IsFound(T)
  BY DEF SearchInv
<1>2. /\ Groups' = Groups
      /\ \A C, R, T : Ahead(C, R, T)' <=> Ahead(C, R, T)
      /\ \A C, R : Behind(C, R)' <=> Behind(C, R)
  BY GroupsStay
<1>3. f \in rest
  BY <1>1, FirstIs DEF SearchTypeOK
<1>4. chosen' = chosen \cup {f} /\ rest' = rest \ {f}
  OBVIOUS
<1>5. /\ Behind(chosen \cup {f}, rest \ {f})
      /\ \A T \in SUBSET Ids :
           Ahead(chosen, rest, T) <=> Ahead(chosen \cup {f}, rest \ {f}, T) \/ T = chosen \cup {f}
  BY <1>1, Descends DEF SearchTypeOK
<1> HIDE DEF f
<1>6. SearchTypeOK'
  BY <1>1, <1>3, <1>4 DEF SearchTypeOK
<1>7. Cardinality(chosen') <= MaxMembers
  <2>1. IsFiniteSet(chosen) /\ Cardinality(chosen) \in Nat
    BY <1>1, FiniteIds DEF SearchTypeOK
  <2>2. Cardinality(chosen') <= Cardinality(chosen) + 1 /\ Cardinality(chosen') \in Nat
    BY <1>4, <1>6, <2>1, FS_AddElement, FiniteIds DEF SearchTypeOK
  <2> QED BY <1>1, <2>1, <2>2, SearchAssumption
<1>8. ASSUME NEW T \in Groups PROVE Pending(T)' <=> Pending(T)
  <2>1. T \in SUBSET Ids
    BY DEF Groups
  <2>2. Pending(T)' <=> Ahead(chosen \cup {f}, rest \ {f}, T) \/ T = chosen \cup {f}
    BY <1>2, <1>4 DEF Pending, Left
  <2>3. Pending(T) <=> Ahead(chosen, rest, T)
    BY DEF Pending, Left
  <2> QED BY <1>5, <2>1, <2>2, <2>3
<1>9. FoundOnce' /\ \A T : IsFound(T)' <=> IsFound(T)
  BY <1>1, <1>2 DEF FoundOnce, IsFound
<1>10. Behind(chosen, rest)'
  BY <1>2, <1>4, <1>5 DEF Behind
<1> QED BY <1>1, <1>2, <1>6, <1>7, <1>8, <1>9, <1>10 DEF SearchInv

LEMMA LeaveKeeps ==
  ASSUME SearchInv, Leave
  PROVE  SearchInv'
<1> USE DEF Leave
<1>1. /\ SearchTypeOK /\ Behind(chosen, rest) /\ Cardinality(chosen) <= MaxMembers
      /\ FoundOnce /\ Len(found) <= 1 /\ \A T \in Groups : Pending(T) <=> ~IsFound(T)
  BY DEF SearchInv
<1>2. /\ Groups' = Groups
      /\ \A C, R, T : Ahead(C, R, T)' <=> Ahead(C, R, T)
      /\ \A C, R : Behind(C, R)' <=> Behind(C, R)
  BY GroupsStay
<1>3. SearchTypeOK'
  BY <1>1 DEF SearchTypeOK
<1>4. ASSUME NEW T \in Groups PROVE Pending(T)' <=> Pending(T)
  <2>1. Ahead(chosen, rest, T) => Ahead(chosen, {}, T)
    BY <1>1, OvershotEnough DEF SearchTypeOK
  <2>2. Ahead(chosen, {}, T) => Ahead(chosen, rest, T)
    BY DEF Ahead
  <2> QED BY <1>2, <2>1, <2>2 DEF Pending, Left
<1>5. FoundOnce' /\ \A T : IsFound(T)' <=> IsFound(T)
  BY <1>1, <1>2 DEF FoundOnce, IsFound
<1> QED BY <1>1, <1>2, <1>3, <1>4, <1>5 DEF SearchInv

LEMMA ReturnKeeps ==
  ASSUME SearchInv, Return
  PROVE  SearchInv'
<1> USE DEF Return
<1>1. /\ SearchTypeOK /\ Behind(chosen, rest) /\ Cardinality(chosen) <= MaxMembers
      /\ FoundOnce /\ Len(found) <= 1 /\ \A T \in Groups : Pending(T) <=> ~IsFound(T)
  BY DEF SearchInv
<1>2. /\ Groups' = Groups
      /\ \A C, R, T : Ahead(C, R, T)' <=> Ahead(C, R, T)
      /\ \A C, R : Behind(C, R)' <=> Behind(C, R)
  BY GroupsStay
<1>3. \A T : Pending(T) <=> Ahead(chosen, {}, T)
  BY DEF Pending, Left
<1>4. FoundOnce' /\ \A T : IsFound(T)' <=> IsFound(T)
  BY <1>1, <1>2 DEF FoundOnce, IsFound
<1>5. CASE chosen # {}
  <2> DEFINE l == Final(chosen)
             behind == {x \in Ids : Precedes(l, x)}
  <2>1. l \in chosen
    BY <1>1, <1>5, FinalIs DEF SearchTypeOK
  <2>2. chosen' = chosen \ {l} /\ rest' = behind /\ phase' = "loop"
    BY <1>5
  <2>3. /\ Behind(chosen \ {l}, behind)
        /\ \A T \in SUBSET Ids : Ahead(chosen, {}, T) <=> Ahead(chosen \ {l}, behind, T)
    BY <1>1, <1>5, Ascends DEF SearchTypeOK
  <2>4. behind \in SUBSET Ids
    OBVIOUS
  <2> HIDE DEF l, behind
  <2>5. SearchTypeOK'
    BY <1>1, <2>2, <2>4 DEF SearchTypeOK
  <2>6. Cardinality(chosen') <= MaxMembers /\ Cardinality(chosen') # MaxMembers
    <3>1. Cardinality(chosen') = Cardinality(chosen) - 1 /\ Cardinality(chosen) \in Nat
      BY <1>1, <2>1, <2>2, OneFewer, FiniteIds DEF SearchTypeOK
    <3> QED BY <1>1, <3>1, SearchAssumption
  <2>7. ASSUME NEW T \in Groups PROVE Pending(T)' <=> Pending(T)
    <3>1. T \in SUBSET Ids
      BY DEF Groups
    <3>2. Pending(T)' <=> Ahead(chosen \ {l}, behind, T)
      BY <1>2, <2>2 DEF Pending, Left
    <3> QED BY <1>3, <2>3, <3>1, <3>2
  <2>8. Behind(chosen, rest)'
    BY <2>2, <2>3 DEF Behind, Precedes
  <2> QED BY <1>1, <1>2, <1>4, <2>2, <2>5, <2>6, <2>7, <2>8 DEF SearchInv
<1>6. CASE chosen = {}
  <2>1. \A T \in Groups : IsFound(T)
    BY <1>1, <1>3, <1>6 DEF Ahead
  <2>2. /\ found \in Seq(SUBSET Ids) /\ Len(found) \in Nat
        /\ DOMAIN found = 1..Len(found)
    BY <1>1, LenProperties DEF SearchTypeOK
  <2>3. Len(found) = Cardinality(Groups)
    <3>1. CASE Len(found) = 0
      <4>1. Groups = {}
        BY <2>1, <2>2, <3>1 DEF IsFound
      <4> QED BY <3>1, <4>1, FS_EmptySet
    <3>2. CASE Len(found) = 1
      <4>1. DOMAIN found = {1}
        BY <2>2, <3>2
      <4>2. Groups = {found[1]}
        BY <1>1, <2>1, <4>1 DEF IsFound, FoundOnce
      <4> QED BY <3>2, <4>2, FS_Singleton
    <3> QED BY <1>1, <2>2, <3>1, <3>2
  <2>4. ~(Cardinality(Groups) >= 2)
    BY <1>1, <2>2, <2>3
  <2>5. SearchTypeOK' /\ phase' = "done" /\ UNCHANGED <<chosen, rest, found>>
    BY <1>1, <1>6 DEF SearchTypeOK
  <2> QED BY <1>1, <1>2, <1>4, <2>3, <2>4, <2>5 DEF SearchInv
<1> QED BY <1>5, <1>6

LEMMA SearchRestsKeep ==
  ASSUME SearchInv, UNCHANGED searchVars
  PROVE  SearchInv'
<1>1. /\ Groups' = Groups
      /\ \A C, R, T : Ahead(C, R, T)' <=> Ahead(C, R, T)
      /\ \A C, R : Behind(C, R)' <=> Behind(C, R)
  BY GroupsStay DEF searchVars
<1>2. Behind(chosen, rest)' <=> Behind(chosen, rest)
  BY DEF searchVars, Behind, Precedes
<1>3. \A T : (Pending(T)' <=> Pending(T)) /\ (IsFound(T)' <=> IsFound(T))
  BY DEF searchVars, Pending, Left, Ahead, Below, Precedes, IsFound
<1> QED BY <1>1, <1>2, <1>3 DEF searchVars, SearchInv, SearchTypeOK, FoundOnce

(* _subsets_summing of engine.py: the walk, with its cut-off for amounts     *)
(* that are not negative and its stop at the second group, ends with the one *)
(* group there is, with two of those there are, or with none because there   *)
(* is none, and finds no group twice.                                        *)
THEOREM SearchFindsEnough == SearchSpec => []FindsEnough
<1>1. SearchInit => SearchInv
  BY SearchStarts
<1>2. SearchInv /\ [SearchNext]_searchVars => SearchInv'
  BY EnterKeeps, TryKeeps, LeaveKeeps, ReturnKeeps, SearchRestsKeep DEF SearchNext
<1>3. SearchInv => FindsEnough
  BY DEF SearchInv, FoundOnce, FindsEnough
<1> QED BY <1>1, <1>2, <1>3, PTL DEF SearchSpec

-----------------------------------------------------------------------------
(***************************************************************************)
(* The count of bank days: in every year, the holidays computed are those  *)
(* of the Fed's rules, and T+n is n days the banks were open.              *)
(***************************************************************************)
(* A date is a whole number of days, and so is the day of the week.         *)
LEMMA BeforeMonthType ==
  ASSUME NEW y \in Int, NEW m \in 1..12
  PROVE  BeforeMonth(y, m) \in 0..335
<1>1. m \in {1, 2, 3, 4, 5, 6, 7, 8, 9, 10, 11, 12}
  OBVIOUS
<1> QED BY <1>1 DEF BeforeMonth

LEMMA DateType ==
  ASSUME NEW y \in Int, NEW m \in 1..12, NEW d \in Int
  PROVE  Date(y, m, d) \in Int
<1>1. BeforeMonth(y, m) \in 0..335
  BY BeforeMonthType
<1>2. \A b \in 0..335 :
        (365 * (y - 1)) + ((y - 1) \div 4) - ((y - 1) \div 100) + ((y - 1) \div 400) + b + d \in Int
  OBVIOUS
<1> QED BY <1>1, <1>2 DEF Date

LEMMA WeekdayType == ASSUME NEW d \in Int PROVE Weekday(d) \in 0..6
  BY DEF Weekday

(* A year begins on the day after the one before it ends.                   *)
LEMMA YearsFollow ==
  ASSUME NEW y \in Nat, y >= 1
  PROVE  Date(y + 1, 1, 1) = Date(y, 12, 31) + 1
  BY DEF Date, BeforeMonth, Leap

LEMMA YearsGrow ==
  ASSUME NEW y \in Nat, NEW z \in Nat, y <= z
  PROVE  /\ Date(y, 1, 1) <= Date(z, 1, 1)
         /\ Date(y, 1, 1) \in Int /\ Date(y, 12, 31) \in Int
  BY DEF Date, BeforeMonth

LEMMA YearsBound ==
  ASSUME NEW y \in Nat, y >= 1
  PROVE  Date(y, 1, 1) > 365 * (y - 1) /\ Date(y, 12, 31) <= 366 * y
  BY DEF Date, BeforeMonth

(* Every day is in a year, and in one only.                                 *)
LEMMA YearExists ==
  ASSUME NEW d \in Nat, d >= 1
  PROVE  \E y \in YearsNear(d) : InYear(d, y)
<1> DEFINE later == {y \in Nat : Date(y + 1, 1, 1) > d}
<1>1. d \in later
  <2>1. Date(d + 1, 1, 1) > 365 * ((d + 1) - 1)
    BY YearsBound
  <2>2. Date(d + 1, 1, 1) \in Int
    BY YearsGrow
  <2> QED BY <2>1, <2>2
<1>2. PICK m \in later : \A y \in later : m <= y
  BY <1>1, OldestExists
<1>3. m # 0
  <2>1. Date(0 + 1, 1, 1) = 1
    BY DEF Date, BeforeMonth
  <2> QED BY <1>2, <2>1
<1>4. Date(m, 1, 1) <= d
  <2>1. m - 1 \in Nat /\ m - 1 \notin later
    BY <1>2, <1>3
  <2>2. (m - 1) + 1 = m /\ Date(m, 1, 1) \in Int
    BY YearsGrow
  <2> QED BY <2>1, <2>2
<1>5. d <= Date(m, 12, 31)
  <2>1. Date(m + 1, 1, 1) = Date(m, 12, 31) + 1 /\ Date(m + 1, 1, 1) > d
    BY <1>2, <1>3, YearsFollow
  <2>2. Date(m, 12, 31) \in Int
    BY YearsGrow
  <2> QED BY <2>1, <2>2
<1>6. InYear(d, m)
  BY <1>4, <1>5, YearsGrow DEF InYear
<1>7. m \in YearsNear(d)
  <2>1. d > 365 * (m - 1) /\ d <= 366 * m
    <3>1. m \in Nat /\ m >= 1
      BY <1>2, <1>3
    <3>2. Date(m, 1, 1) > 365 * (m - 1) /\ Date(m, 12, 31) <= 366 * m
      BY <3>1, YearsBound
    <3>3. Date(m, 1, 1) \in Int /\ Date(m, 12, 31) \in Int
      BY <3>1, YearsGrow
    <3>4. \A a, b, c, e \in Int : a > c /\ b <= e /\ a <= d /\ d <= b => d > c /\ d <= e
      OBVIOUS
    <3>5. 365 * (m - 1) \in Int /\ 366 * m \in Int
      BY <3>1
    <3> HIDE DEF later
    <3> QED BY <1>4, <1>5, <3>2, <3>3, <3>4, <3>5
  <2>2. m <= ((d - 1) \div 365) + 1 /\ ((d - 1) \div 366) + 1 <= m
    BY <2>1
  <2> QED BY <2>2 DEF YearsNear
<1> QED BY <1>6, <1>7

LEMMA OneYear ==
  ASSUME NEW d \in Nat, d >= 1, NEW y \in YearsNear(d), InYear(d, y)
  PROVE  y = YearOf(d) /\ y \in Nat /\ y >= 1
<1>1. \A x \in YearsNear(d) : x \in Nat /\ x >= 1
  BY DEF YearsNear
<1>3. ASSUME NEW x \in YearsNear(d), InYear(d, x), NEW z \in YearsNear(d), InYear(d, z), x < z
      PROVE  FALSE
  <2>1. Date(x + 1, 1, 1) <= Date(z, 1, 1)
    BY <1>1, <1>3, YearsGrow
  <2>2. Date(x + 1, 1, 1) = Date(x, 12, 31) + 1
    BY <1>1, <1>3, YearsFollow
  <2>3. Date(z, 1, 1) \in Int /\ Date(x, 12, 31) \in Int /\ d <= Date(x, 12, 31) /\ Date(z, 1, 1) <= d
    BY <1>1, <1>3, YearsGrow DEF InYear
  <2> QED BY <2>1, <2>2, <2>3
<1>4. YearOf(d) \in YearsNear(d) /\ InYear(d, YearOf(d))
  BY DEF YearOf
<1>5. ~(y < YearOf(d)) /\ ~(YearOf(d) < y)
  BY <1>3, <1>4
<1> QED BY <1>1, <1>4, <1>5

(* A month's days are 28 to 31 from its first.                              *)
LEMMA MonthIs ==
  ASSUME NEW y \in Int, NEW m \in 1..12
  PROVE  /\ MonthDays(y, m) \in 28..31 /\ Date(y, m, 1) \in Int
         /\ DaysOf(y, m) = Date(y, m, 1)..(Date(y, m, 1) + MonthDays(y, m) - 1)
<1>1. MonthDays(y, m) \in 28..31
  BY DEF MonthDays
<1>2. Date(y, m, 1) \in Int
  BY DateType, 1 \in Int
<1>3. \A f \in Int, n \in 28..31 : {d \in f..(f + 30) : d < f + n} = f..(f + n - 1)
  OBVIOUS
<1> QED BY <1>1, <1>2, <1>3 DEF DaysOf

(* The n-th weekday of a month, computed, is the one with n - 1 before it.  *)
LEMMA NthIsNth ==
  ASSUME NEW y \in Int, NEW m \in 1..12, NEW w \in 0..6, NEW n \in 1..4, NEW d \in Int
  PROVE  d = NthWeekday(y, m, w, n) <=>
           d \in DaysOf(y, m) /\ Weekday(d) = w /\ Cardinality(EarlierAlike(y, m, d)) = n - 1
<1> DEFINE f == Date(y, m, 1)
           l == MonthDays(y, m)
           k == (w - Weekday(f)) % 7
           E(j) == {e \in f..(f + l - 1) : e < f + k + 7 * j /\ Weekday(e) = w}
<1>1. f \in Int /\ l \in 28..31 /\ DaysOf(y, m) = f..(f + l - 1)
  BY MonthIs
<1>2. NthWeekday(y, m, w, n) = f + k + 7 * (n - 1)
  BY DEF NthWeekday
<1> HIDE DEF f, l
<1>3. k \in 0..6
  BY <1>1 DEF Weekday
<1>4. \A e \in f..(f + 30) : Weekday(e) = w => \E j \in 0..4 : e = f + k + 7 * j
  BY <1>1 DEF Weekday
<1>5. \A j \in 0..4 : Weekday(f + k + 7 * j) = w
  BY <1>1 DEF Weekday
<1> HIDE DEF k
<1>6. E(0) = {}
  BY <1>1, <1>3, <1>4
<1>7. ASSUME NEW j \in 0..3 PROVE E(j + 1) = E(j) \cup {f + k + 7 * j} /\ f + k + 7 * j \notin E(j)
  <2>1. f + k + 7 * j \in f..(f + l - 1) /\ f + k + 7 * j \in Int
    BY <1>1, <1>3
  <2>2. ASSUME NEW e \in f..(f + l - 1), Weekday(e) = w, e < f + k + 7 * (j + 1)
        PROVE  e < f + k + 7 * j \/ e = f + k + 7 * j
    <3>1. e \in f..(f + 30)
      BY <1>1
    <3>2. PICK i \in 0..4 : e = f + k + 7 * i
      BY <1>4, <2>2, <3>1
    <3> QED BY <1>1, <1>3, <2>2, <3>2
  <2>3. f + k + 7 * j < f + k + 7 * (j + 1) /\ \A e \in Int : e < f + k + 7 * j => e < f + k + 7 * (j + 1)
    BY <1>1, <1>3
  <2>4. Weekday(f + k + 7 * j) = w
    BY <1>5
  <2>5. ASSUME NEW e PROVE e \in E(j + 1) <=> e \in E(j) \cup {f + k + 7 * j}
    BY <1>1, <2>1, <2>2, <2>3, <2>4
  <2>6. f + k + 7 * j \notin E(j)
    BY <2>1
  <2> QED BY <2>5, <2>6
<1> HIDE DEF E
<1>8. ASSUME NEW j \in 0..3, IsFiniteSet(E(j)), Cardinality(E(j)) = j
      PROVE  IsFiniteSet(E(j + 1)) /\ Cardinality(E(j + 1)) = j + 1
  <2>1. f + k + 7 * j \notin E(j) /\ E(j + 1) = E(j) \cup {f + k + 7 * j}
    BY <1>7
  <2>2. /\ IsFiniteSet(E(j) \cup {f + k + 7 * j})
        /\ Cardinality(E(j) \cup {f + k + 7 * j}) = Cardinality(E(j)) + 1
    BY <1>8, <2>1, FS_AddElement
  <2> QED BY <1>8, <2>1, <2>2
<1>9. IsFiniteSet(E(0)) /\ Cardinality(E(0)) = 0
  BY <1>6, FS_EmptySet
<1>10. IsFiniteSet(E(1)) /\ Cardinality(E(1)) = 1
  BY <1>8, <1>9, 0 \in 0..3, 0 + 1 = 1
<1>11. IsFiniteSet(E(2)) /\ Cardinality(E(2)) = 2
  BY <1>8, <1>10, 1 \in 0..3, 1 + 1 = 2
<1>12. IsFiniteSet(E(3)) /\ Cardinality(E(3)) = 3
  BY <1>8, <1>11, 2 \in 0..3, 2 + 1 = 3
<1>13. IsFiniteSet(E(4)) /\ Cardinality(E(4)) = 4
  BY <1>8, <1>12, 3 \in 0..3, 3 + 1 = 4
<1>14. \A j \in 0..4 : Cardinality(E(j)) = j
  <2> TAKE j \in 0..4
  <2>1. j = 0 \/ j = 1 \/ j = 2 \/ j = 3 \/ j = 4
    OBVIOUS
  <2> QED BY <2>1, <1>9, <1>10, <1>11, <1>12, <1>13
<1>15. \A j \in 0..4 : EarlierAlike(y, m, f + k + 7 * j) = E(j)
  BY <1>1, <1>5 DEF EarlierAlike, E
<1>16. ASSUME d = NthWeekday(y, m, w, n)
       PROVE  d \in DaysOf(y, m) /\ Weekday(d) = w /\ Cardinality(EarlierAlike(y, m, d)) = n - 1
  <2>1. n - 1 \in 0..3 /\ n - 1 \in 0..4
    OBVIOUS
  <2>2. f + k + 7 * (n - 1) \in f..(f + l - 1)
    BY <1>1, <1>3
  <2> QED BY <1>1, <1>2, <1>5, <1>14, <1>15, <1>16, <2>1, <2>2
<1>17. ASSUME d \in DaysOf(y, m), Weekday(d) = w, Cardinality(EarlierAlike(y, m, d)) = n - 1
       PROVE  d = NthWeekday(y, m, w, n)
  <2>1. d \in f..(f + 30)
    BY <1>1, <1>17
  <2>2. PICK j \in 0..4 : d = f + k + 7 * j
    BY <1>4, <1>17, <2>1
  <2>3. j = n - 1
    BY <1>14, <1>15, <1>17, <2>2
  <2> QED BY <1>2, <2>2, <2>3
<1> QED BY <1>16, <1>17

LEMMA LastIsLast ==
  ASSUME NEW y \in Int, NEW d \in Int
  PROVE  d = NthWeekday(y, 5, 0, -1) <=>
           d \in DaysOf(y, 5) /\ Weekday(d) = 0 /\ LaterAlike(y, 5, d) = {}
<1> DEFINE f == Date(y, 5, 1)
           k == Weekday(f + 30) % 7
<1>1. f \in Int /\ DaysOf(y, 5) = f..(f + 30)
  <2>1. MonthDays(y, 5) = 31
    BY DEF MonthDays
  <2>2. f \in Int /\ f + 31 - 1 = f + 30
    BY MonthIs
  <2> QED BY <2>1, <2>2, MonthIs
<1>2. Date(y, 6, 1) - 1 = f + 30
  BY DEF Date, BeforeMonth
<1>3. NthWeekday(y, 5, 0, -1) = (f + 30) - k
  <2>1. (5 % 12) + 1 = 6 /\ Weekday(f + 30) - 0 = Weekday(f + 30)
    BY <1>1 DEF Weekday
  <2> QED BY <1>2, <2>1 DEF NthWeekday
<1> HIDE DEF f
<1>4. k \in 0..6 /\ Weekday((f + 30) - k) = 0
  BY <1>1 DEF Weekday
<1>5. \A e \in f..(f + 30) : Weekday(e) = 0 => e <= (f + 30) - k
  BY <1>1 DEF Weekday
<1> HIDE DEF k
<1>6. (f + 30) - k \in f..(f + 30)
  BY <1>1, <1>4
<1>7. ASSUME d = NthWeekday(y, 5, 0, -1)
      PROVE  d \in DaysOf(y, 5) /\ Weekday(d) = 0 /\ LaterAlike(y, 5, d) = {}
  <2>1. \A e \in f..(f + 30) : Weekday(e) = 0 => ~(e > (f + 30) - k)
    BY <1>1, <1>4, <1>5
  <2> QED BY <1>1, <1>3, <1>4, <1>6, <1>7, <2>1 DEF LaterAlike
<1>8. ASSUME d \in DaysOf(y, 5), Weekday(d) = 0, LaterAlike(y, 5, d) = {}
      PROVE  d = NthWeekday(y, 5, 0, -1)
  <2>1. ~((f + 30) - k > d)
    BY <1>1, <1>4, <1>6, <1>8 DEF LaterAlike
  <2>2. d <= (f + 30) - k
    BY <1>1, <1>5, <1>8
  <2> QED BY <1>1, <1>3, <1>4, <2>1, <2>2
<1> QED BY <1>7, <1>8

(* On a weekday the computed holidays are the Fed's.                        *)
LEMMA HolidaysAreTheFeds ==
  ASSUME NEW y \in Int, NEW d \in Int, Weekday(d) < 5
  PROVE  d \in UsBankHolidays(y) <=>
           Feast(y, d) \/ Moving(y, d) \/ (Weekday(d) = 0 /\ Feast(y, d - 1))
<1> DEFINE fixed == {Date(y, 1, 1), Date(y, 7, 4), Date(y, 11, 11), Date(y, 12, 25)}
                      \cup (IF y >= 2022 THEN {Date(y, 6, 19)} ELSE {})
           moving == {NthWeekday(y, 1, 0, 3), NthWeekday(y, 2, 0, 3), NthWeekday(y, 5, 0, -1),
                      NthWeekday(y, 9, 0, 1), NthWeekday(y, 10, 0, 2), NthWeekday(y, 11, 3, 4)}
<1> DEFINE moved == UNION {Observed(x) : x \in fixed}
<1>1. UsBankHolidays(y) = moved \cup moving
  BY DEF UsBankHolidays
<1>2. \A x : x \in fixed <=> Feast(y, x)
  BY DEF Feast
<1>3. \A x \in fixed : x \in Int
  <2>1. \A m \in 1..12, e \in Int : Date(y, m, e) \in Int
    BY DateType
  <2>2. /\ 1 \in 1..12 /\ 6 \in 1..12 /\ 7 \in 1..12 /\ 11 \in 1..12 /\ 12 \in 1..12
        /\ 1 \in Int /\ 4 \in Int /\ 11 \in Int /\ 19 \in Int /\ 25 \in Int
    OBVIOUS
  <2>3. /\ Date(y, 1, 1) \in Int /\ Date(y, 7, 4) \in Int /\ Date(y, 11, 11) \in Int
        /\ Date(y, 12, 25) \in Int /\ Date(y, 6, 19) \in Int
    BY <2>1, <2>2, Zenon
  <2> QED BY <2>3
<1>4. d \in moving <=> Moving(y, d)
  <2>1. \A m \in {1, 2} :
          d = NthWeekday(y, m, 0, 3) <=>
            d \in DaysOf(y, m) /\ Weekday(d) = 0 /\ Cardinality(EarlierAlike(y, m, d)) = 2
    BY NthIsNth, 3 - 1 = 2
  <2>2. d = NthWeekday(y, 5, 0, -1) <=> d \in DaysOf(y, 5) /\ Weekday(d) = 0 /\ LaterAlike(y, 5, d) = {}
    BY LastIsLast
  <2>3. d = NthWeekday(y, 9, 0, 1) <=> d \in DaysOf(y, 9) /\ Weekday(d) = 0 /\ EarlierAlike(y, 9, d) = {}
    <3>1. d = NthWeekday(y, 9, 0, 1) <=>
            d \in DaysOf(y, 9) /\ Weekday(d) = 0 /\ Cardinality(EarlierAlike(y, 9, d)) = 0
      BY NthIsNth, 1 - 1 = 0
    <3>2. IsFiniteSet(EarlierAlike(y, 9, d))
      <4>1. Date(y, 9, 1) \in Int
        BY MonthIs
      <4>2. IsFiniteSet(Date(y, 9, 1)..(Date(y, 9, 1) + 30))
        BY <4>1, FS_Interval
      <4>3. EarlierAlike(y, 9, d) \subseteq Date(y, 9, 1)..(Date(y, 9, 1) + 30)
        BY DEF EarlierAlike, DaysOf
      <4> QED BY <4>2, <4>3, FS_Subset
    <3> QED BY <3>1, <3>2, FS_EmptySet
  <2>4. d = NthWeekday(y, 10, 0, 2) <=>
          d \in DaysOf(y, 10) /\ Weekday(d) = 0 /\ Cardinality(EarlierAlike(y, 10, d)) = 1
    BY NthIsNth, 2 - 1 = 1
  <2>5. d = NthWeekday(y, 11, 3, 4) <=>
          d \in DaysOf(y, 11) /\ Weekday(d) = 3 /\ Cardinality(EarlierAlike(y, 11, d)) = 3
    BY NthIsNth, 4 - 1 = 3
  <2> QED BY <2>1, <2>2, <2>3, <2>4, <2>5 DEF Moving
<1> HIDE DEF fixed, moving
<1>5. ASSUME NEW x \in fixed PROVE d \in Observed(x) <=> d = x \/ (Weekday(d) = 0 /\ x = d - 1)
  <2>1. x \in Int
    BY <1>3
  <2>2. Weekday(d) = 0 => Weekday(d - 1) = 6
    BY DEF Weekday
  <2>3. Weekday(x) = 6 => Weekday(x + 1) = 0
    BY <2>1 DEF Weekday
  <2>4. CASE Weekday(x) = 6
    <3>1. Observed(x) = {x + 1}
      BY <2>4 DEF Observed
    <3>2. d # x
      BY <2>4
    <3>3. d = x + 1 <=> Weekday(d) = 0 /\ x = d - 1
      BY <2>1, <2>3, <2>4
    <3> QED BY <3>1, <3>2, <3>3
  <2>5. CASE Weekday(x) = 5
    BY <2>2, <2>5 DEF Observed
  <2>6. CASE Weekday(x) # 6 /\ Weekday(x) # 5
    BY <2>2, <2>6 DEF Observed
  <2> QED BY <2>4, <2>5, <2>6
<1>6. d \in moved <=> d \in fixed \/ (Weekday(d) = 0 /\ d - 1 \in fixed)
  BY <1>5
<1> HIDE DEF moved
<1>7. d \in UsBankHolidays(y) <=> d \in moved \/ d \in moving
  BY <1>1
<1>8. (d \in fixed <=> Feast(y, d)) /\ (d - 1 \in fixed <=> Feast(y, d - 1))
  BY <1>2
<1> QED BY <1>4, <1>6, <1>7, <1>8

LEMMA ShutIsShut ==
  ASSUME NEW d \in Nat, d >= 1
  PROVE  IsBusinessDay(d) <=> ~Shut(d)
<1>1. PICK y \in YearsNear(d) : InYear(d, y)
  BY YearExists
<1>2. y = YearOf(d) /\ y \in Nat
  BY <1>1, OneYear
<1>3. Shut(d) <=> \/ Weekday(d) >= 5
                  \/ Feast(y, d) \/ Moving(y, d)
                  \/ Weekday(d) = 0 /\ Feast(y, d - 1)
  BY <1>1, <1>2, OneYear DEF Shut
<1>4. Weekday(d) \in 0..6
  BY WeekdayType
<1>5. Weekday(d) < 5 <=> ~(Weekday(d) >= 5)
  BY <1>4
<1> QED BY <1>2, <1>3, <1>5, HolidaysAreTheFeds DEF IsBusinessDay

OpenDays(a, b) == {x \in (a + 1)..b : ~Shut(x)}

\* What is counted so far is the days the banks were open so far.
CountInv ==
  /\ start \in Nat /\ start >= 1 /\ end \in Int /\ day \in Nat /\ counted \in BOOLEAN
  /\ end < start => day = start /\ count = IF counted THEN None ELSE 0
  /\ start <= end => /\ start <= day /\ day <= end
                     /\ count = Cardinality(OpenDays(start, day))
                     /\ counted => day = end

LEMMA OpenDaysFinite ==
  ASSUME NEW a \in Int, NEW b \in Int
  PROVE  IsFiniteSet(OpenDays(a, b)) /\ Cardinality(OpenDays(a, b)) \in Nat
<1>1. IsFiniteSet((a + 1)..b)
  BY FS_Interval
<1>2. OpenDays(a, b) \subseteq (a + 1)..b
  BY DEF OpenDays
<1> QED BY <1>1, <1>2, FS_Subset, FS_CardinalityType

LEMMA CountStarts == CountInit => CountInv
<1> SUFFICES ASSUME CountInit PROVE CountInv
  OBVIOUS
<1>1. PICK s \in Starts, n \in Reach, offset \in Offsets, bare \in BOOLEAN :
        /\ start = Date(s[1], s[2], s[3])
        /\ end = IF bare THEN Date(s[1], s[2], s[3]) + n
                 ELSE ((24 * (Date(s[1], s[2], s[3]) + n) + 21 - offset) + offset) \div 24
        /\ day = start /\ count = 0 /\ counted = FALSE
  BY DEF CountInit, AsDate
<1>2. PICK y \in Nat \ {0}, m \in 1..12, d \in 1..31 : s = <<y, m, d>>
  BY BankDaysAssumption
<1>3. n \in Int /\ offset \in Int
  BY BankDaysAssumption
<1>4. start = Date(y, m, d)
  BY <1>1, <1>2
<1>5. start \in Nat /\ start >= 1
  <2>1. BeforeMonth(y, m) \in 0..335
    BY BeforeMonthType
  <2>2. \A b \in 0..335 :
          (365 * (y - 1)) + ((y - 1) \div 4) - ((y - 1) \div 100) + ((y - 1) \div 400) + b + d >= 1
    OBVIOUS
  <2>3. Date(y, m, d) >= 1
    BY <2>1, <2>2 DEF Date
  <2>4. Date(y, m, d) \in Int
    <3>1. y \in Int /\ d \in Int
      OBVIOUS
    <3> QED BY <3>1, DateType
  <2> QED BY <1>4, <2>3, <2>4
<1>6. end \in Int
  <2>1. end = IF bare THEN start + n ELSE ((24 * (start + n) + 21 - offset) + offset) \div 24
    BY <1>1
  <2> QED BY <1>3, <1>5, <2>1
<1>7. Cardinality(OpenDays(start, start)) = 0
  <2>1. OpenDays(start, start) = {}
    BY <1>5 DEF OpenDays
  <2> QED BY <2>1, FS_EmptySet
<1>8. counted = FALSE /\ count = 0 /\ day = start
  BY <1>1
<1>9. end < start => day = start /\ count = IF counted THEN None ELSE 0
  BY <1>8
<1>10. start <= end => /\ start <= day /\ day <= end
                       /\ count = Cardinality(OpenDays(start, day))
                       /\ counted => day = end
  BY <1>5, <1>7, <1>8
<1> QED BY <1>5, <1>6, <1>8, <1>9, <1>10 DEF CountInv

LEMMA CountSteps ==
  ASSUME CountInv, CountDay
  PROVE  CountInv'
<1>1. /\ start \in Nat /\ start >= 1 /\ end \in Int /\ day \in Nat /\ counted \in BOOLEAN
      /\ start <= end /\ start <= day /\ day < end /\ count = Cardinality(OpenDays(start, day))
      /\ counted => day = end
      /\ day' = day + 1 /\ UNCHANGED <<start, end, counted>>
      /\ count' = count + (IF IsBusinessDay(day + 1) THEN 1 ELSE 0)
  BY DEF CountInv, CountDay
<1>2. IsBusinessDay(day + 1) <=> ~Shut(day + 1)
  BY <1>1, ShutIsShut
<1>3. Cardinality(OpenDays(start, day + 1)) = count + (IF IsBusinessDay(day + 1) THEN 1 ELSE 0)
  <2>1. \A x : x \in (start + 1)..(day + 1) <=> x \in (start + 1)..day \/ x = day + 1
    BY <1>1
  <2>2. IsFiniteSet(OpenDays(start, day)) /\ Cardinality(OpenDays(start, day)) \in Nat
    BY <1>1, OpenDaysFinite
  <2>3. CASE IsBusinessDay(day + 1)
    <3>1. OpenDays(start, day + 1) = OpenDays(start, day) \cup {day + 1}
      BY <1>2, <2>1, <2>3 DEF OpenDays
    <3>2. day + 1 \notin OpenDays(start, day)
      BY <1>1 DEF OpenDays
    <3>3. Cardinality(OpenDays(start, day + 1)) = Cardinality(OpenDays(start, day)) + 1
      BY <2>2, <3>1, <3>2, FS_AddElement
    <3> QED BY <1>1, <2>3, <3>3
  <2>4. CASE ~IsBusinessDay(day + 1)
    <3>1. OpenDays(start, day + 1) = OpenDays(start, day)
      BY <1>2, <2>1, <2>4 DEF OpenDays
    <3> QED BY <1>1, <2>2, <2>4, <3>1
  <2> QED BY <2>3, <2>4
<1>4. OpenDays(start, day)' = OpenDays(start, day + 1)
  BY <1>1 DEF OpenDays, Shut, Moving, Feast
<1> QED BY <1>1, <1>3, <1>4 DEF CountInv

LEMMA CountKeeps ==
  ASSUME CountInv, [CountNext]_dayVars
  PROVE  CountInv'
<1>1. ASSUME UNCHANGED <<start, day>> PROVE OpenDays(start, day)' = OpenDays(start, day)
  BY <1>1 DEF OpenDays
<1>2. CASE Precede
  BY <1>2 DEF CountInv, Precede
<1>3. CASE CountDay
  BY <1>3, CountSteps
<1>4. CASE CountEnds
  BY <1>1, <1>4 DEF CountInv, CountEnds
<1>5. CASE UNCHANGED dayVars
  BY <1>1, <1>5 DEF CountInv, dayVars
<1> QED BY <1>2, <1>3, <1>4, <1>5 DEF CountNext

(* business_days_after of calendar.py: the days counted from a batch to its  *)
(* deposit are those the banks were open, in any year and over any distance; *)
(* a deposit before its batch is not a settlement.                           *)
THEOREM SettlementCountsBankDays == CountSpec => []CountIsBankDays
<1>1. CountInv => CountIsBankDays
  BY DEF CountInv, CountIsBankDays, OpenDays
<1> QED BY <1>1, CountStarts, CountKeeps, PTL DEF CountSpec
=============================================================================
