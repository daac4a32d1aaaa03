--------------------------- MODULE ImportsProofs ---------------------------
(***************************************************************************)
(* For every pool, every limit and every set of requests: how far over     *)
(* their limit a tenant's layouts get, that no file is stored twice, and   *)
(* that what an upload was told is true for as long as it can matter.      *)
(* A save that has passed the count holds a connection until it ends, so   *)
(* no more names are on their way than the pool has connections.           *)
(***************************************************************************)
EXTENDS Imports, FiniteSetTheorems, TLAPS

\* An element more makes a finite set larger by at most one.
LEMMA OneMore ==
  ASSUME NEW S, NEW x, IsFiniteSet(S)
  PROVE  IsFiniteSet(S \cup {x}) /\ Cardinality(S \cup {x}) <= Cardinality(S) + 1
<1>1. Cardinality(S) \in Nat
  BY FS_CardinalityType
<1>2. Cardinality(S \cup {x}) = IF x \in S THEN Cardinality(S) ELSE Cardinality(S) + 1
  BY FS_AddElement
<1>3. Cardinality(S \cup {x}) = Cardinality(S) \/ Cardinality(S \cup {x}) = Cardinality(S) + 1
  BY <1>2
<1> QED BY <1>1, <1>3, FS_AddElement

\* There are finitely many processes.
LEMMA FiniteProcs == IsFiniteSet(Procs)
BY FS_AddElement, ImportsAssumption DEF ImportsAssumption, Procs

\* The requests that passed the count are among those that hold a connection.
LEMMA PassedAreOpen == Passed \subseteq Open
BY DEF Passed, Open, InTx, Procs

\* So are those that hold a connection, or passed the count.
LEMMA OpenIsFinite == IsFiniteSet(Open) /\ IsFiniteSet(Passed)
<1>1. Open \subseteq Procs
  BY DEF Open
<1>2. Passed \subseteq Procs
  BY PassedAreOpen, <1>1
<1> QED BY <1>1, <1>2, FiniteProcs, FS_Subset

\* A finite set of requests has no more names than members.
LEMMA NamesOf ==
  ASSUME NEW S, IsFiniteSet(S)
  PROVE  /\ IsFiniteSet({Name(r) : r \in S})
         /\ Cardinality({Name(r) : r \in S}) <= Cardinality(S)
<1> DEFINE N == {Name(r) : r \in S}
           name == [r \in S |-> Name(r)]
<1>1. name \in Surjection(S, N)
  BY DEF Surjection
<1>2. IsFiniteSet(N) /\ Cardinality(N) <= Cardinality(S)
  BY <1>1, FS_Surjection
<1> QED BY <1>2

\* The names saved or on their way are finitely many.
LEMMA TakingIsFinite == ASSUME IsFiniteSet(layouts) PROVE IsFiniteSet(Taking)
<1>1. IsFiniteSet({Name(r) : r \in Passed})
  BY OpenIsFinite, NamesOf
<1> QED BY <1>1, FS_Union DEF Taking

\* At first nobody holds a connection.
LEMMA LayoutsInit == Init => LInv
<1> SUFFICES ASSUME Init PROVE LInv
  OBVIOUS
<1> USE ImportsAssumption DEF ImportsAssumption
<1>1. PICK s \in Scenarios : job = s.job /\ kept = s.stored /\ layouts = s.layouts
  BY DEF Init
<1>2. job \in [Requests -> JobType] /\ IsFiniteSet(layouts) /\ Cardinality(layouts) <= LayoutsKept
  BY <1>1
<1>3. \A r \in Requests : FirstStep(job[r]) \in {"now", "layout", "delete", "begin", "drop"}
  BY <1>2 DEF FirstStep, JobType, Kinds
<1>4. \A p \in Procs : pc[p] \in {"idle", "now", "layout", "delete", "begin", "drop"}
  BY <1>3 DEF Init, Procs, Files
<1>5. PoolTyped
  BY <1>2, <1>4 DEF Init, PoolTyped, Steps
<1>6. Open = {}
  BY <1>4 DEF Open, InTx
<1>7. Taking = layouts
  BY <1>6, PassedAreOpen DEF Taking
<1>8. Cardinality(layouts) \in Nat
  BY <1>2, FS_CardinalityType
<1> QED BY <1>2, <1>5, <1>6, <1>7, <1>8, FS_EmptySet DEF LInv

\* A step that lets nobody into the pool and adds no name keeps the bound.
LEMMA NobodyEnters ==
  ASSUME LInv, PoolTyped', Open' \subseteq Open, Taking' \subseteq Taking
  PROVE  LInv'
<1>1. IsFiniteSet(Open) /\ IsFiniteSet(Taking)
  BY OpenIsFinite, TakingIsFinite DEF LInv, PoolTyped
<1>2. Cardinality(Open') <= Cardinality(Open) /\ Cardinality(Taking') <= Cardinality(Taking)
  BY <1>1, FS_Subset
<1>3. Cardinality(Open) \in Nat /\ Cardinality(Taking) \in Nat
  BY <1>1, FS_CardinalityType
<1>4. IsFiniteSet(Open') /\ IsFiniteSet(Taking')
  BY <1>1, FS_Subset
<1>5. Cardinality(Open') \in Nat /\ Cardinality(Taking') \in Nat
  BY <1>4, FS_CardinalityType
<1> QED BY <1>2, <1>3, <1>5, ImportsAssumption DEF LInv, ImportsAssumption

\* A process that goes on keeps the bound, unless it takes a connection or
\* passes the count.
LEMMA GoesOn ==
  ASSUME LInv, NEW p \in Procs, NEW step \in Steps, Goto(p, step), layouts' = layouts, job' = job,
         step \in InTx => p \in Open,
         step \in {"upsert", "commit"} => p \in Passed
  PROVE  LInv'
<1>1. PoolTyped'
  BY DEF LInv, PoolTyped, Goto
<1>2. Open' \subseteq Open
  BY DEF LInv, PoolTyped, Goto, Open
<1>3. Passed' \subseteq Passed
  BY DEF LInv, PoolTyped, Goto, Passed, Procs
<1>4. Taking' \subseteq Taking
  BY <1>3 DEF Taking, Name
<1> QED BY <1>1, <1>2, <1>4, NobodyEnters

\* So does one that ends.
LEMMA Ends ==
  ASSUME LInv, NEW r \in Requests, NEW told, End(r, told), layouts' = layouts, job' = job
  PROVE  LInv'
<1>1. r \in Procs /\ "done" \in Steps /\ "done" \notin InTx
  BY DEF Procs, Steps, InTx
<1>2. Goto(r, "done")
  BY DEF End
<1> QED BY <1>1, <1>2, GoesOn

\* A process takes a connection only when the pool has one left.
LEMMA BeginKeeps == ASSUME LInv, NEW p \in Procs, Begin(p) PROVE LInv'
<1>1. Open' \subseteq Open \cup {p} /\ Passed' \subseteq Passed
  BY DEF LInv, PoolTyped, Begin, Goto, Open, Passed, Procs
<1>2. PoolTyped'
  BY DEF LInv, PoolTyped, Begin, Goto, Steps, InTx, tables
<1>3. IsFiniteSet(Open) /\ Cardinality(Open) \in Nat
  BY OpenIsFinite, FS_CardinalityType
<1>4. IsFiniteSet(Open \cup {p}) /\ Cardinality(Open \cup {p}) <= Cardinality(Open) + 1
  BY <1>3, OneMore
<1>5. Cardinality(Open') <= Cardinality(Open \cup {p}) /\ IsFiniteSet(Open')
  BY <1>1, <1>4, FS_Subset
<1>6. Cardinality(Open') \in Nat /\ Cardinality(Open \cup {p}) \in Nat
  BY <1>4, <1>5, FS_CardinalityType
<1>7. Cardinality(Open') <= PoolSize
  BY <1>3, <1>4, <1>5, <1>6, ImportsAssumption DEF Begin, HasConnection, ImportsAssumption
<1>8. Taking' \subseteq Taking
  BY <1>1 DEF Taking, Name, Begin, tables
<1>9. IsFiniteSet(Taking) /\ IsFiniteSet(Taking')
  BY <1>8, TakingIsFinite, FS_Subset DEF LInv, PoolTyped
<1>10. Cardinality(Taking') <= Cardinality(Taking)
  BY <1>8, <1>9, FS_Subset
<1>11. Cardinality(Taking') \in Nat /\ Cardinality(Taking) \in Nat
  BY <1>9, FS_CardinalityType
<1> QED BY <1>2, <1>7, <1>10, <1>11, ImportsAssumption DEF LInv, ImportsAssumption

\* A save passes the count when fewer than LayoutsKept other names are saved; the
\* names on their way besides are of the pool's other connections.
LEMMA CountKeeps == ASSUME LInv, NEW r \in Requests, CountLayouts(r) PROVE LInv'
<1>1. CASE Cardinality(layouts \ {Name(r)}) >= LayoutsKept
  BY <1>1, Ends DEF CountLayouts, tables
<1>2. CASE ~(Cardinality(layouts \ {Name(r)}) >= LayoutsKept)
  <2> DEFINE Others == Passed \ {r}
             Coming == {Name(q) : q \in Others}
             Saved  == layouts \ {Name(r)}
  <2>1. Goto(r, "upsert") /\ pc[r] = "count" /\ layouts' = layouts /\ job' = job
    BY <1>2 DEF CountLayouts, At, tables
  <2>2. r \in Open /\ r \notin Passed /\ r \in Procs
    BY <2>1 DEF Open, Passed, InTx, Procs
  <2>3. Open' = Open /\ Passed' = Passed \cup {r} /\ PoolTyped'
    BY <2>1, <2>2 DEF LInv, PoolTyped, Goto, Open, Passed, InTx, Steps
  <2>4. Others \subseteq Open \ {r}
    BY PassedAreOpen
  <2>5. /\ IsFiniteSet(Open) /\ IsFiniteSet(Open \ {r})
        /\ Cardinality(Open \ {r}) = Cardinality(Open) - 1
    BY <2>2, OpenIsFinite, FS_RemoveElement
  <2>6. IsFiniteSet(Others) /\ Cardinality(Others) <= Cardinality(Open) - 1
    BY <2>4, <2>5, FS_Subset
  <2>7. IsFiniteSet(Coming) /\ Cardinality(Coming) <= Cardinality(Others)
    BY <2>6, NamesOf
  <2>8. IsFiniteSet(Saved)
    BY FS_RemoveElement DEF LInv, PoolTyped
  <2>9. /\ IsFiniteSet(Saved \cup Coming)
        /\ Cardinality(Saved \cup Coming) <= Cardinality(Saved) + Cardinality(Coming)
    <3>1. /\ IsFiniteSet(Saved \cup Coming) /\ IsFiniteSet(Saved \cap Coming)
          /\ Cardinality(Saved \cup Coming)
               = Cardinality(Saved) + Cardinality(Coming) - Cardinality(Saved \cap Coming)
      BY <2>7, <2>8, FS_Union, FS_Subset
    <3> QED BY <2>7, <2>8, <3>1, FS_CardinalityType
  <2>10. Taking' \subseteq (Saved \cup Coming) \cup {Name(r)}
    BY <2>1, <2>2, <2>3 DEF Taking, Name
  <2>11. /\ IsFiniteSet((Saved \cup Coming) \cup {Name(r)})
         /\ Cardinality((Saved \cup Coming) \cup {Name(r)}) <= Cardinality(Saved \cup Coming) + 1
    BY <2>9, OneMore
  <2>12. IsFiniteSet(Taking') /\ Cardinality(Taking')
           <= Cardinality((Saved \cup Coming) \cup {Name(r)})
    BY <2>10, <2>11, FS_Subset
  <2>13. /\ Cardinality(Open) \in Nat /\ Cardinality(Others) \in Nat /\ Cardinality(Coming) \in Nat
         /\ Cardinality(Saved) \in Nat /\ Cardinality(Saved \cup Coming) \in Nat
         /\ Cardinality((Saved \cup Coming) \cup {Name(r)}) \in Nat /\ Cardinality(Taking') \in Nat
    BY <2>5, <2>6, <2>7, <2>8, <2>9, <2>11, <2>12, FS_CardinalityType
  <2> HIDE DEF Others, Coming, Saved
  <2>14. Cardinality(Saved) <= LayoutsKept - 1
    BY <1>2, <2>13, ImportsAssumption DEF Saved, ImportsAssumption
  <2>15. Cardinality(Taking') <= LayoutsKept + PoolSize - 1
    BY <2>6, <2>7, <2>9, <2>11, <2>12, <2>13, <2>14, ImportsAssumption DEF LInv, ImportsAssumption
  <2> QED BY <2>3, <2>15 DEF LInv
<1> QED BY <1>1, <1>2

\* A save that commits moves its name from those on their way to those saved.
LEMMA CommitKeeps == ASSUME LInv, NEW r \in Requests, CommitLayout(r) PROVE LInv'
<1>1. pc' = [pc EXCEPT ![r] = "done"] /\ pc[r] = "commit"
  BY DEF CommitLayout, End, Goto, At
<1>2. layouts' = layouts \cup {Name(r)} /\ job' = job /\ r \in Passed
  BY <1>1 DEF CommitLayout, Passed
<1>3. IsFiniteSet(layouts')
  BY <1>2, FS_AddElement DEF LInv, PoolTyped
<1>4. PoolTyped'
  BY <1>1, <1>3 DEF LInv, PoolTyped, Steps, Procs
<1>5. Open' \subseteq Open /\ Passed' \subseteq Passed
  BY <1>1 DEF LInv, PoolTyped, Open, Passed, InTx, Procs
<1>6. Taking' \subseteq Taking
  BY <1>2, <1>5 DEF Taking, Name
<1> QED BY <1>4, <1>5, <1>6, NobodyEnters

\* A name deleted leaves no more than there were.
LEMMA DropKeeps == ASSUME LInv, NEW r \in Requests, DropLayout(r) PROVE LInv'
<1>1. pc' = [pc EXCEPT ![r] = "done"]
  BY DEF DropLayout, End, Goto
<1>2. layouts' = layouts \ {Name(r)} /\ job' = job
  BY DEF DropLayout
<1>3. IsFiniteSet(layouts')
  BY <1>2, FS_RemoveElement DEF LInv, PoolTyped
<1>4. PoolTyped'
  BY <1>1, <1>3 DEF LInv, PoolTyped, Steps, Procs
<1>5. Open' \subseteq Open /\ Passed' \subseteq Passed
  BY <1>1 DEF LInv, PoolTyped, Open, Passed, InTx, Procs
<1>6. Taking' \subseteq Taking
  BY <1>2, <1>5 DEF Taking, Name
<1> QED BY <1>4, <1>5, <1>6, NobodyEnters

\* A transaction that rolls back gives its connection back.
LEMMA RollBackKeeps ==
  ASSUME LInv, NEW p \in Procs, RollBack(p), layouts' = layouts, job' = job PROVE LInv'
<1>1. CASE p = Sweeper
  <2>1. Goto(p, "idle") /\ "idle" \in Steps /\ "idle" \notin InTx
    BY <1>1 DEF RollBack, Steps, InTx
  <2> QED BY <2>1, GoesOn
<1>2. CASE p # Sweeper
  BY <1>2, Ends DEF RollBack, Procs
<1> QED BY <1>1, <1>2

\* Uploads and deletions of files leave the layouts alone.
LEMMA UploadKeeps ==
  ASSUME LInv, NEW r \in Requests,
         \/ FindLayout(r) \/ FixNow(r) \/ TakeExpired(r) \/ EndPrune(r) \/ CheckSame(r)
         \/ InsertFile(r) \/ InsertChunk(r) \/ CommitUpload(r) \/ DeleteImport(r)
  PROVE  LInv'
<1> USE DEF Steps, InTx, tables
<1>1. r \in Procs
  BY DEF Procs
<1>2. \A step \in InTx : pc[r] = step => r \in Open
  BY <1>1 DEF Open
<1>3. CASE FindLayout(r)
  BY <1>1, <1>3, GoesOn, Ends DEF FindLayout
<1>4. CASE FixNow(r)
  BY <1>1, <1>4, GoesOn DEF FixNow
<1>5. CASE TakeExpired(r) \/ InsertChunk(r)
  <2>1. pc' = pc /\ layouts' = layouts /\ job' = job
    BY <1>5 DEF TakeExpired, InsertChunk
  <2> QED BY <2>1, NobodyEnters DEF LInv, PoolTyped, Open, Passed, Taking, Name
<1>6. CASE EndPrune(r)
  BY <1>1, <1>2, <1>6, GoesOn DEF EndPrune, At
<1>7. CASE CheckSame(r)
  BY <1>1, <1>2, <1>7, GoesOn, Ends DEF CheckSame, Refuse, At
<1>8. CASE InsertFile(r)
  BY <1>1, <1>2, <1>8, GoesOn, Ends DEF InsertFile, Refuse, At
<1>9. CASE CommitUpload(r)
  BY <1>9, Ends DEF CommitUpload, Stored
<1>10. CASE DeleteImport(r)
  BY <1>10, Ends DEF DeleteImport
<1> QED BY <1>3, <1>4, <1>5, <1>6, <1>7, <1>8, <1>9, <1>10

\* So does the sweeper.
LEMMA SweepKeeps == ASSUME LInv, Wake \/ TakeExpired(Sweeper) \/ EndSweep PROVE LInv'
<1>1. Sweeper \in Procs /\ {"begin", "idle"} \subseteq Steps /\ {"begin", "idle"} \cap InTx = {}
  BY DEF Procs, Steps, InTx
<1>2. CASE Wake
  BY <1>1, <1>2, GoesOn DEF Wake, tables
<1>3. CASE TakeExpired(Sweeper)
  <2>1. pc' = pc /\ layouts' = layouts /\ job' = job
    BY <1>3 DEF TakeExpired, tables
  <2> QED BY <2>1, NobodyEnters DEF LInv, PoolTyped, Open, Passed, Taking, Name
<1>4. CASE EndSweep
  BY <1>1, <1>4, GoesOn DEF EndSweep
<1> QED BY <1>2, <1>3, <1>4

\* Every step keeps LInv, one case per action.
LEMMA LayoutsStep == LInv /\ [Next]_vars => LInv'
<1> SUFFICES ASSUME LInv, [Next]_vars PROVE LInv'
  OBVIOUS
<1>1. ASSUME NEW r \in Requests, Upload(r) \/ DeleteImport(r) PROVE LInv'
  BY <1>1, UploadKeeps, BeginKeeps DEF Upload, Procs
<1>2. ASSUME NEW r \in Requests, Upsert(r) PROVE LInv'
  <2>1. r \in Open /\ r \in Passed /\ r \in Procs /\ "commit" \in Steps
    BY <1>2 DEF Upsert, At, Open, Passed, InTx, Procs, Steps
  <2> QED BY <1>2, <2>1, GoesOn DEF Upsert, tables
<1>3. ASSUME NEW r \in Requests, Layout(r) PROVE LInv'
  BY <1>2, <1>3, CountKeeps, CommitKeeps, DropKeeps DEF Layout
<1>4. ASSUME NEW p \in Procs, FailDeadlocked(p) \/ Fail(p) PROVE LInv'
  BY <1>4, RollBackKeeps DEF FailDeadlocked, Fail, tables
<1>5. ASSUME Sweep PROVE LInv'
  BY <1>4, <1>5, SweepKeeps, BeginKeeps DEF Sweep, Procs
<1>6. ASSUME NEW f \in Files, Expire(f) PROVE LInv'
  <2>1. pc' = pc /\ layouts' = layouts /\ job' = job
    BY <1>6 DEF Expire, tables
  <2> QED BY <2>1, NobodyEnters DEF LInv, PoolTyped, Open, Passed, Taking, Name
<1>7. CASE UNCHANGED vars
  <2>1. pc' = pc /\ layouts' = layouts /\ job' = job
    BY <1>7 DEF vars, tables
  <2> QED BY <2>1, NobodyEnters DEF LInv, PoolTyped, Open, Passed, Taking, Name
<1>8. ASSUME NEW r \in Requests, Step(r) PROVE LInv'
  BY <1>1, <1>3, <1>4, <1>8 DEF Step, Procs
<1> QED BY <1>4, <1>5, <1>6, <1>7, <1>8 DEF Next

\* The names saved are among those counted by LInv.
LEMMA LInvBounds == LInv => LayoutsBounded
<1> SUFFICES ASSUME LInv PROVE LayoutsBounded
  OBVIOUS
<1>1. IsFiniteSet(Taking) /\ layouts \subseteq Taking
  BY TakingIsFinite DEF LInv, PoolTyped, Taking
<1>2. IsFiniteSet(layouts) /\ Cardinality(layouts) <= Cardinality(Taking)
  BY <1>1, FS_Subset
<1>3. Cardinality(layouts) \in Nat /\ Cardinality(Taking) \in Nat
  BY <1>1, <1>2, FS_CardinalityType
<1> QED BY <1>2, <1>3, ImportsAssumption DEF LInv, LayoutsBounded, ImportsAssumption

\* However saves and deletions of layouts interleave, fail and share the pool,
\* `save_layout` leaves at most a pool less one over LAYOUTS_KEPT.
THEOREM LayoutsStayBounded == Spec => []LayoutsBounded
<1>1. Init => LInv
  BY LayoutsInit
<1>2. LInv /\ [Next]_vars => LInv'
  BY LayoutsStep
<1>3. LInv => LayoutsBounded
  BY LInvBounds
<1> QED BY <1>1, <1>2, <1>3, PTL DEF Spec

-----------------------------------------------------------------------------
(* One copy of a file.                                                       *)

\* An invariant of what FileInv reads, when no upload passes its insert and
\* none is stored.
LEMMA FilesKeep ==
  ASSUME FileInv, content' = content, kept' \subseteq kept,
         pc' \in [Procs -> Steps],
         tx' \in [Procs -> [takes: SUBSET Files, inserted: Nat \cup {None}]],
         \A r \in Requests : pc'[r] = "rows" =>
           pc[r] = "rows" /\ tx[r].takes \subseteq tx'[r].takes /\ tx'[r].inserted \in Nat
  PROVE  FileInv'
<1>1. OneCopy'
  BY DEF FileInv, OneCopy
<1>2. ASSUME NEW r \in Requests, At(r, "rows")' PROVE tx'[r].inserted \in Nat /\ Copies(r)' = {}
  BY <1>2 DEF FileInv, At, Copies, Visible
<1>3. ASSUME NEW q \in Requests, NEW r \in Requests, At(q, "rows")', At(r, "rows")',
             content'[q] = content'[r]
      PROVE  q = r
  BY <1>3 DEF FileInv, At
<1> QED BY <1>1, <1>2, <1>3 DEF FileInv

\* A process that goes on to any other statement keeps FileInv.
LEMMA FilesGoOn ==
  ASSUME FileInv, NEW p \in Procs, NEW step \in Steps, step # "rows", Goto(p, step),
         tx' = tx, content' = content, kept' \subseteq kept
  PROVE  FileInv'
<1>1. pc' \in [Procs -> Steps] /\ \A r \in Requests : pc'[r] = "rows" => pc[r] = "rows"
  BY DEF FileInv, Goto, Procs
<1> QED BY <1>1, FilesKeep DEF FileInv, At

\* So does a request that ends, whatever it deleted.
LEMMA FilesEnd ==
  ASSUME FileInv, NEW r \in Requests, NEW told, End(r, told),
         content' = content, kept' \subseteq kept
  PROVE  FileInv'
<1>1. pc' = [pc EXCEPT ![r] = "done"] /\ tx' = [tx EXCEPT ![r] = NoTx] /\ r \in Procs
  BY DEF End, Goto, Procs
<1>2. pc' \in [Procs -> Steps]
      /\ tx' \in [Procs -> [takes: SUBSET Files, inserted: Nat \cup {None}]]
  BY <1>1 DEF FileInv, Steps, NoTx
<1>3. ASSUME NEW q \in Requests, pc'[q] = "rows" PROVE pc[q] = "rows" /\ tx'[q] = tx[q]
  BY <1>1, <1>3 DEF FileInv, Procs
<1> QED BY <1>2, <1>3, FilesKeep DEF FileInv, At

\* At first no upload is past its insert.
LEMMA FilesInit == Init => FileInv
<1> SUFFICES ASSUME Init PROVE FileInv
  OBVIOUS
<1>1. PICK s \in Scenarios :
        job = s.job /\ kept = s.stored
        /\ content = [f \in Files |-> IF f \in Old THEN s.old[f] ELSE s.job[f].content]
  BY DEF Init
<1>2. job \in [Requests -> JobType] /\ kept \subseteq Old
      /\ \A f, g \in Old : s.old[f] = s.old[g] => f = g
  BY <1>1, ImportsAssumption DEF ImportsAssumption
<1>3. OneCopy
  BY <1>1, <1>2 DEF OneCopy, Files
<1>4. \A r \in Requests : FirstStep(job[r]) \in {"now", "layout", "delete", "begin", "drop"}
  BY <1>2 DEF FirstStep, JobType, Kinds
<1>5. \A p \in Procs : pc[p] \in {"idle", "now", "layout", "delete", "begin", "drop"}
  BY <1>4 DEF Init, Procs
<1>6. pc \in [Procs -> Steps] /\ \A r \in Requests : pc[r] # "rows"
  BY <1>5 DEF Init, Steps, Procs
<1>7. tx \in [Procs -> [takes: SUBSET Files, inserted: Nat \cup {None}]]
  BY DEF Init, NoTx
<1> QED BY <1>1, <1>2, <1>3, <1>6, <1>7 DEF FileInv, At, Files

\* The insert that goes through: nobody holds or has left a copy.
LEMMA InsertKeepsFiles == ASSUME FileInv, NEW r \in Requests, InsertFile(r) PROVE FileInv'
<1>1. CASE Copies(r) # {}
  BY <1>1, FilesEnd DEF InsertFile, Refuse, tables
<1>2. CASE Copies(r) = {}
  <2>1. /\ tx' = [tx EXCEPT ![r].inserted = 0] /\ pc' = [pc EXCEPT ![r] = "rows"]
        /\ content' = content /\ kept' = kept /\ r \in Procs /\ Disputed(r) = {}
    BY <1>2 DEF InsertFile, Goto, Procs, tables
  <2>2. /\ pc' \in [Procs -> Steps]
        /\ tx' \in [Procs -> [takes: SUBSET Files, inserted: Nat \cup {None}]]
    BY <2>1 DEF FileInv, Steps, InTx
  <2>3. \A q \in Requests : q # r => pc'[q] = pc[q] /\ tx'[q] = tx[q]
    BY <2>1 DEF FileInv, Procs
  <2>4. tx'[r].inserted = 0 /\ tx'[r].takes = tx[r].takes
    BY <2>1 DEF FileInv
  <2>5. \A q \in Requests \ {r} : At(q, "rows") => content[q] # content[r]
    BY <2>1, ImportsAssumption DEF FileInv, Disputed, ImportsAssumption
  <2>6. OneCopy'
    BY <2>1 DEF FileInv, OneCopy
  <2>7. ASSUME NEW q \in Requests, At(q, "rows")' PROVE tx'[q].inserted \in Nat /\ Copies(q)' = {}
    BY <1>2, <2>1, <2>3, <2>4, <2>7 DEF FileInv, At, Copies, Visible
  <2>8. ASSUME NEW q \in Requests, NEW x \in Requests, At(q, "rows")', At(x, "rows")',
               content'[q] = content'[x]
        PROVE  q = x
    BY <2>1, <2>3, <2>5, <2>8 DEF FileInv, At
  <2> QED BY <2>1, <2>2, <2>6, <2>7, <2>8 DEF FileInv
<1> QED BY <1>1, <1>2

\* The commit: the copies there were went with it.
LEMMA CommitKeepsFiles == ASSUME FileInv, NEW r \in Requests, CommitUpload(r) PROVE FileInv'
<1>1. /\ pc[r] = "rows" /\ kept' = (kept \ tx[r].takes) \cup {r} /\ content' = content
      /\ pc' = [pc EXCEPT ![r] = "done"] /\ tx' = [tx EXCEPT ![r] = NoTx] /\ r \in Procs
  BY DEF CommitUpload, Stored, End, Goto, At, Procs
<1>2. pc' \in [Procs -> Steps]
      /\ tx' \in [Procs -> [takes: SUBSET Files, inserted: Nat \cup {None}]]
  BY <1>1 DEF FileInv, Steps, NoTx
<1>3. \A f \in kept \ tx[r].takes : content[f] # content[r]
  BY <1>1 DEF FileInv, At, Copies, Visible
<1>4. OneCopy'
  BY <1>1, <1>3 DEF FileInv, OneCopy
<1>5. ASSUME NEW q \in Requests, At(q, "rows")'
      PROVE  q # r /\ pc[q] = "rows" /\ tx'[q] = tx[q] /\ content[q] # content[r]
  BY <1>1, <1>5 DEF FileInv, At, Procs
<1>6. ASSUME NEW q \in Requests, At(q, "rows")' PROVE tx'[q].inserted \in Nat /\ Copies(q)' = {}
  BY <1>1, <1>5, <1>6 DEF FileInv, At, Copies, Visible
<1>7. ASSUME NEW q \in Requests, NEW x \in Requests, At(q, "rows")', At(x, "rows")',
             content'[q] = content'[x]
      PROVE  q = x
  BY <1>1, <1>5, <1>7 DEF FileInv, At
<1>8. kept' \subseteq Files
  BY <1>1 DEF FileInv, Files
<1> QED BY <1>2, <1>4, <1>6, <1>7, <1>8 DEF FileInv

\* A row more deleted, or a chunk more inserted, disturbs nothing.
LEMMA TakesKeepFiles ==
  ASSUME FileInv, NEW p \in Procs, TakeExpired(p) \/ (p \in Requests /\ InsertChunk(p))
  PROVE  FileInv'
<1>1. CASE TakeExpired(p)
  <2>1. PICK f \in Doomed(p) : tx' = [tx EXCEPT ![p].takes = @ \cup {f}]
    BY <1>1 DEF TakeExpired
  <2>2. f \in Files
    BY DEF Doomed, FileInv
  <2>3. content' = content /\ kept' = kept /\ pc' = pc
    BY <1>1 DEF TakeExpired, tables
  <2>4. tx' \in [Procs -> [takes: SUBSET Files, inserted: Nat \cup {None}]]
    BY <2>1, <2>2 DEF FileInv
  <2>5. \A r \in Requests : tx[r].takes \subseteq tx'[r].takes /\ tx'[r].inserted = tx[r].inserted
    BY <2>1 DEF FileInv, Procs
  <2> QED BY <2>3, <2>4, <2>5, FilesKeep DEF FileInv, At
<1>2. CASE p \in Requests /\ InsertChunk(p)
  <2>1. tx' = [tx EXCEPT ![p].inserted = @ + 1] /\ pc[p] = "rows" /\ pc' = pc
        /\ content' = content /\ kept' = kept
    BY <1>2 DEF InsertChunk, At, tables
  <2>2. tx[p].inserted \in Nat
    BY <1>2, <2>1 DEF FileInv, At
  <2>3. tx' \in [Procs -> [takes: SUBSET Files, inserted: Nat \cup {None}]]
    BY <2>1, <2>2 DEF FileInv
  <2>4. \A r \in Requests : pc'[r] = "rows" =>
          tx[r].takes \subseteq tx'[r].takes /\ tx'[r].inserted \in Nat
    BY <2>1, <2>2 DEF FileInv, At, Procs
  <2> QED BY <2>1, <2>3, <2>4, FilesKeep DEF FileInv
<1> QED BY <1>1, <1>2

\* An upload's other statements, and a deletion.
LEMMA UploadKeepsFiles ==
  ASSUME FileInv, NEW r \in Requests,
         FindLayout(r) \/ FixNow(r) \/ EndPrune(r) \/ CheckSame(r) \/ DeleteImport(r)
  PROVE  FileInv'
<1>1. r \in Procs /\ {"now", "begin", "same", "insert"} \subseteq Steps
  BY DEF Procs, Steps, InTx
<1>2. CASE FindLayout(r)
  BY <1>1, <1>2, FilesGoOn, FilesEnd DEF FindLayout, tables
<1>3. CASE FixNow(r)
  BY <1>1, <1>3, FilesGoOn DEF FixNow, tables
<1>4. CASE EndPrune(r)
  BY <1>1, <1>4, FilesGoOn DEF EndPrune, tables
<1>5. CASE CheckSame(r)
  BY <1>1, <1>5, FilesGoOn, FilesEnd DEF CheckSame, Refuse, tables
<1>6. CASE DeleteImport(r)
  BY <1>6, FilesEnd DEF DeleteImport
<1> QED BY <1>2, <1>3, <1>4, <1>5, <1>6

\* Layouts have nothing to do with files.
LEMMA LayoutKeepsFiles == ASSUME FileInv, NEW r \in Requests, Layout(r) PROVE FileInv'
<1>1. r \in Procs /\ {"upsert", "commit"} \subseteq Steps
  BY DEF Procs, Steps, InTx
<1>2. CASE CountLayouts(r)
  BY <1>1, <1>2, FilesGoOn, FilesEnd DEF CountLayouts, tables
<1>3. CASE Upsert(r)
  BY <1>1, <1>3, FilesGoOn DEF Upsert, tables
<1>4. CASE CommitLayout(r) \/ DropLayout(r)
  BY <1>4, FilesEnd DEF CommitLayout, DropLayout
<1> QED BY <1>2, <1>3, <1>4 DEF Layout

\* The sweeper's transaction ends, with its deletions or without.
LEMMA SweeperEndsFiles ==
  ASSUME FileInv, Goto(Sweeper, "idle"), tx' = [tx EXCEPT ![Sweeper] = NoTx],
         content' = content, kept' \subseteq kept
  PROVE  FileInv'
<1>1. Sweeper \in Procs /\ Sweeper \notin Requests /\ "idle" \in Steps
  BY ImportsAssumption DEF ImportsAssumption, Procs, Steps, Files
<1>2. pc' \in [Procs -> Steps]
      /\ tx' \in [Procs -> [takes: SUBSET Files, inserted: Nat \cup {None}]]
  BY <1>1 DEF FileInv, NoTx, Goto
<1>3. \A r \in Requests : pc'[r] = pc[r] /\ tx'[r] = tx[r]
  BY <1>1 DEF FileInv, Goto, Procs
<1> QED BY <1>2, <1>3, FilesKeep DEF FileInv, At

\* A transaction that rolls back leaves the files as they were.
LEMMA RollBackKeepsFiles ==
  ASSUME FileInv, NEW p \in Procs, RollBack(p), content' = content, kept' = kept
  PROVE  FileInv'
<1>1. CASE p = Sweeper
  BY <1>1, SweeperEndsFiles DEF RollBack
<1>2. CASE p # Sweeper
  BY <1>2, FilesEnd DEF RollBack, Procs
<1> QED BY <1>1, <1>2

\* Every step keeps FileInv, one case per action.
LEMMA FilesStep == FileInv /\ [Next]_vars => FileInv'
<1> SUFFICES ASSUME FileInv, [Next]_vars PROVE FileInv'
  OBVIOUS
<1>1. ASSUME NEW p \in Procs, Begin(p) PROVE FileInv'
  <2>1. {"count", "prune"} \subseteq Steps
    BY DEF Steps, InTx
  <2> QED BY <1>1, <2>1, FilesGoOn DEF Begin, tables
<1>2. ASSUME NEW p \in Procs, FailDeadlocked(p) \/ Fail(p) PROVE FileInv'
  BY <1>2, RollBackKeepsFiles DEF FailDeadlocked, Fail, tables
<1>3. ASSUME NEW r \in Requests, Upload(r) PROVE FileInv'
  BY <1>1, <1>3, UploadKeepsFiles, InsertKeepsFiles, CommitKeepsFiles, TakesKeepFiles
     DEF Upload, Procs
<1>4. ASSUME NEW r \in Requests, Step(r) PROVE FileInv'
  BY <1>2, <1>3, <1>4, UploadKeepsFiles, LayoutKeepsFiles DEF Step, Procs
<1>5. ASSUME Sweep PROVE FileInv'
  <2>1. Sweeper \in Procs /\ "begin" \in Steps
    BY DEF Procs, Steps
  <2>2. CASE Wake
    BY <2>1, <2>2, FilesGoOn DEF Wake, tables
  <2>3. CASE EndSweep
    BY <2>3, SweeperEndsFiles DEF EndSweep
  <2> QED BY <1>1, <1>2, <1>5, <2>1, <2>2, <2>3, TakesKeepFiles DEF Sweep
<1>6. ASSUME UNCHANGED vars \/ \E f \in Files : Expire(f) PROVE FileInv'
  <2>1. pc' = pc /\ tx' = tx /\ kept' = kept /\ content' = content
    BY <1>6 DEF Expire, vars, tables
  <2> QED BY <2>1, FilesKeep DEF FileInv, At
<1> QED BY <1>2, <1>4, <1>5, <1>6 DEF Next

\* The same file is never stored twice, however uploads of it, deletions and
\* sweeps interleave and fail.
THEOREM OneCopyStays == Spec => []OneCopy
<1>1. Init => FileInv
  BY FilesInit
<1>2. FileInv /\ [Next]_vars => FileInv'
  BY FilesStep
<1>3. FileInv => OneCopy
  BY DEF FileInv
<1> QED BY <1>1, <1>2, <1>3, PTL DEF Spec

-----------------------------------------------------------------------------
(* What an upload is told.                                                   *)

Told0 == {"no layout", "duplicate", "stored", "deleted", "no file", "too many", "saved", "error"}
Answers == [kind: Told0, of: Files \cup {None}]

\* What makes AnswersAreTrue inductive: a transaction deletes what it saw to have
\* expired, a file nobody has stored yet is neither there nor expired, and past
\* its prune an upload sees no file that had expired at its `now`.
Pruned ==
  /\ \A p \in Procs : seen[p] \subseteq expired /\ tx[p].takes \subseteq seen[p]
  /\ \A r \in Requests : r \in kept \cup expired \/ answer[r] # None => pc[r] = "done"
  /\ \A r \in Requests : pc[r] \in {"same", "insert", "rows"} =>
       \A f \in kept \cap seen[r] : f \in tx[r].takes

AnswersTyped ==
  /\ job \in [Requests -> JobType]
  /\ rows \in [Files -> Nat]
  /\ expired \subseteq Files
  /\ seen \in [Procs -> SUBSET Files]
  /\ answer \in [Requests -> Answers \cup {None}]

TInv == FileInv /\ AnswersTyped /\ Pruned /\ AnswersAreTrue

\* A request ends: what it deletes had expired or was asked for, and it names a
\* copy only when that had not expired at its `now`.
LEMMA ToldEnd ==
  ASSUME TInv, NEW r \in Requests, NEW told \in Answers, End(r, told),
         job' = job, seen' = seen, expired' = expired,
         kept' \subseteq kept, rows' \in [Files -> Nat],
         \A f \in Files : rows'[f] = IF f \in kept' THEN Chunks ELSE 0,
         \A f \in kept \ kept' : f \in expired \/ \E q \in Requests : f = job[q].file,
         told.kind # "stored", told.kind = "duplicate" => told.of \notin seen[r]
  PROVE  (AnswersTyped /\ Pruned /\ AnswersAreTrue)'
<1>1. /\ pc'[r] = "done" /\ tx'[r].takes = {} /\ answer'[r] = told
      /\ \A p \in Procs \ {r} : pc'[p] = pc[p] /\ tx'[p] = tx[p]
      /\ \A q \in Requests \ {r} : answer'[q] = answer[q]
  BY DEF End, Goto, NoTx, TInv, FileInv, AnswersTyped, Procs
<1>2. AnswersTyped'
  BY DEF End, TInv, AnswersTyped
<1>3. Pruned'
  BY <1>1 DEF TInv, Pruned, AnswersTyped, Procs
<1>4. AnswersAreTrue'
  <2>1. ASSUME NEW q \in Requests, answer'[q] # None, answer'[q].kind = "stored"
        PROVE  q \in kept' \cup expired' \cup {job'[x].file : x \in Requests}
    <3>1. q # r /\ answer'[q] = answer[q]
      BY <1>1, <2>1
    <3>2. q \in kept \cup expired \cup {job[x].file : x \in Requests}
      BY <2>1, <3>1 DEF TInv, AnswersAreTrue
    <3> QED BY <3>2
  <2>2. ASSUME NEW q \in Requests, answer'[q] # None, answer'[q].kind = "duplicate"
        PROVE  answer'[q].of \notin seen'[q]
    BY <1>1, <2>2 DEF TInv, AnswersAreTrue
  <2> QED BY <2>1, <2>2 DEF AnswersAreTrue
<1> QED BY <1>2, <1>3, <1>4

\* So does one that deletes nothing, the usual case.
LEMMA ToldNothing ==
  ASSUME TInv, NEW r \in Requests, NEW told \in Answers, End(r, told),
         job' = job, seen' = seen, expired' = expired, kept' = kept, rows' = rows,
         told.kind # "stored", told.kind = "duplicate" => told.of \notin seen[r]
  PROVE  (AnswersTyped /\ Pruned /\ AnswersAreTrue)'
<1>1. rows' \in [Files -> Nat] /\ \A f \in Files : rows'[f] = IF f \in kept' THEN Chunks ELSE 0
  BY DEF TInv, AnswersTyped, AnswersAreTrue
<1> QED BY <1>1, ToldEnd

\* What the handlers tell, but for a duplicate.
LEMMA Tells ==
  /\ \A kind \in Told0 : Told(kind) \in Answers /\ Told(kind).kind = kind
BY DEF Told, Answers

\* A process goes on to its next statement: past the prune when that is done.
LEMMA ToldGoOn ==
  ASSUME TInv, NEW p \in Procs, NEW step \in Steps \ {"done"}, Goto(p, step),
         job' = job, tx' = tx, seen' = seen, expired' = expired, kept' = kept, rows' = rows,
         answer' = answer,
         p \in Requests => pc[p] # "done",
         p \in Requests /\ step \in {"same", "insert", "rows"} =>
           \A f \in kept \cap seen[p] : f \in tx[p].takes
  PROVE  (AnswersTyped /\ Pruned /\ AnswersAreTrue)'
<1>1. pc'[p] = step /\ \A q \in Procs \ {p} : pc'[q] = pc[q]
  BY DEF Goto, TInv, FileInv
<1>2. AnswersTyped'
  BY DEF TInv, AnswersTyped
<1>3. Pruned'
  BY <1>1 DEF TInv, Pruned, AnswersTyped, Procs
<1>4. AnswersAreTrue'
  BY DEF TInv, AnswersAreTrue
<1> QED BY <1>2, <1>3, <1>4

\* A copy that is still there after the prune had not expired at `now`.
LEMMA RefuseTells ==
  ASSUME TInv, NEW r \in Requests, pc[r] \in {"same", "insert"}, Refuse(r),
         job' = job, seen' = seen, expired' = expired, kept' = kept, rows' = rows
  PROVE  (AnswersTyped /\ Pruned /\ AnswersAreTrue)'
<1>1. PICK f \in Copies(r) : End(r, [kind |-> "duplicate", of |-> f])
  BY DEF Refuse
<1>2. f \in kept /\ f \notin tx[r].takes /\ f \in Files
  BY DEF Copies, Visible, TInv, FileInv
<1>3. f \notin seen[r]
  BY <1>2 DEF TInv, Pruned
<1> DEFINE told == [kind |-> "duplicate", of |-> f]
<1>4. told \in Answers /\ told.kind = "duplicate" /\ told.of = f
  BY <1>2 DEF Answers, Told0
<1>5. End(r, told)
  BY <1>1
<1> HIDE DEF told
<1> QED BY <1>3, <1>4, <1>5, ToldNothing

\* The transaction of a process, after it deleted or inserted one row more.
LEMMA ToldTakes ==
  ASSUME TInv, NEW p \in Procs, TakeExpired(p) \/ (p \in Requests /\ InsertChunk(p))
  PROVE  (AnswersTyped /\ Pruned /\ AnswersAreTrue)'
<1>1. UNCHANGED <<job, content, tables, expired, pc, seen, answer, failures>>
  BY DEF TakeExpired, InsertChunk
<1>2. /\ \A q \in Procs \ {p} : tx'[q] = tx[q]
      /\ tx[p].takes \subseteq tx'[p].takes
      /\ \A f \in tx'[p].takes \ tx[p].takes : f \in seen[p]
  <2>1. CASE TakeExpired(p)
    <3>1. PICK f \in Doomed(p) : tx' = [tx EXCEPT ![p].takes = @ \cup {f}]
      BY <2>1 DEF TakeExpired
    <3>2. f \in seen[p] /\ tx'[p].takes = tx[p].takes \cup {f}
      BY <3>1 DEF Doomed, TInv, FileInv
    <3>3. \A q \in Procs \ {p} : tx'[q] = tx[q]
      BY <3>1 DEF TInv, FileInv
    <3> QED BY <3>2, <3>3
  <2>2. CASE InsertChunk(p)
    BY <2>2 DEF InsertChunk, TInv, FileInv
  <2> QED BY <2>1, <2>2
<1>3. AnswersTyped'
  BY <1>1 DEF TInv, AnswersTyped, tables
<1>4. Pruned'
  BY <1>1, <1>2 DEF TInv, Pruned, tables, Procs
<1>5. AnswersAreTrue'
  BY <1>1 DEF TInv, AnswersAreTrue, tables
<1> QED BY <1>3, <1>4, <1>5

\* The insert's row is not stored yet.
LEMMA InsertTells ==
  ASSUME TInv, NEW r \in Requests, InsertFile(r)
  PROVE  (AnswersTyped /\ Pruned /\ AnswersAreTrue)'
<1>1. UNCHANGED <<job, content, tables, expired, seen, failures>> /\ pc[r] = "insert"
  BY DEF InsertFile, At
<1>2. CASE Refuse(r)
  BY <1>1, <1>2, RefuseTells DEF tables
<1>3. CASE ~Refuse(r)
  <2>1. tx' = [tx EXCEPT ![r].inserted = 0] /\ Goto(r, "rows") /\ answer' = answer
    BY <1>3 DEF InsertFile
  <2>2. /\ \A p \in Procs : tx'[p].takes = tx[p].takes
        /\ pc'[r] = "rows" /\ \A p \in Procs \ {r} : pc'[p] = pc[p]
    BY <2>1 DEF Goto, TInv, FileInv, Procs
  <2>3. AnswersTyped' /\ AnswersAreTrue'
    BY <1>1, <2>1 DEF TInv, AnswersTyped, AnswersAreTrue, tables
  <2>4. Pruned'
    BY <1>1, <2>1, <2>2 DEF TInv, Pruned, tables, Procs
  <2> QED BY <2>3, <2>4
<1> QED BY <1>2, <1>3

\* The commit stores every row of the file, and deletes what had expired.
LEMMA CommitTells ==
  ASSUME TInv, NEW r \in Requests, CommitUpload(r)
  PROVE  (AnswersTyped /\ Pruned /\ AnswersAreTrue)'
<1>1. /\ UNCHANGED <<job, content, layouts, expired, seen, failures>>
      /\ kept' = (kept \ tx[r].takes) \cup {r}
      /\ rows' = [Cascade(tx[r].takes) EXCEPT ![r] = Chunks]
      /\ End(r, Told("stored"))
      /\ r \in Procs /\ r \in Files
  BY DEF CommitUpload, Stored, Procs, Files
<1>2. /\ pc'[r] = "done" /\ tx'[r].takes = {} /\ answer'[r] = Told("stored")
      /\ \A p \in Procs \ {r} : pc'[p] = pc[p] /\ tx'[p] = tx[p]
      /\ \A q \in Requests \ {r} : answer'[q] = answer[q]
  BY <1>1 DEF End, Goto, NoTx, TInv, FileInv, AnswersTyped, Procs
<1>3. Told("stored") \in Answers /\ Told("stored").kind = "stored"
  BY Tells DEF Told0
<1>4. /\ rows' \in [Files -> Nat]
      /\ \A f \in Files : rows'[f] = IF f \in kept' THEN Chunks ELSE 0
  BY <1>1, ImportsAssumption DEF Cascade, TInv, AnswersTyped, AnswersAreTrue, ImportsAssumption
<1>5. AnswersTyped'
  BY <1>1, <1>3, <1>4 DEF End, TInv, AnswersTyped
<1>6. r \notin expired /\ tx[r].takes \subseteq expired
  BY <1>1 DEF CommitUpload, At, TInv, Pruned
<1>7. Pruned'
  BY <1>1, <1>2, <1>6 DEF TInv, Pruned, Procs
<1>8. AnswersAreTrue'
  <2>1. ASSUME NEW q \in Requests, answer'[q] # None, answer'[q].kind = "stored"
        PROVE  q \in kept' \cup expired' \cup {job'[x].file : x \in Requests}
    <3>1. CASE q = r
      BY <1>1, <3>1
    <3>2. CASE q # r
      BY <1>1, <1>2, <1>6, <2>1, <3>2 DEF TInv, AnswersAreTrue
    <3> QED BY <3>1, <3>2
  <2>2. ASSUME NEW q \in Requests, answer'[q] # None, answer'[q].kind = "duplicate"
        PROVE  answer'[q].of \notin seen'[q]
    BY <1>1, <1>2, <1>3, <2>2 DEF TInv, AnswersAreTrue
  <2> QED BY <1>4, <2>1, <2>2 DEF AnswersAreTrue
<1> QED BY <1>5, <1>7, <1>8

\* `now` is fixed: what had expired by then, of nobody who was answered.
LEMMA NowTells ==
  ASSUME TInv, NEW p \in Procs, (p = Sweeper /\ Wake) \/ (p \in Requests /\ FixNow(p))
  PROVE  (AnswersTyped /\ Pruned /\ AnswersAreTrue)'
<1>1. /\ UNCHANGED <<job, content, tables, expired, tx, answer, failures>>
      /\ seen' = [seen EXCEPT ![p] = expired] /\ Goto(p, "begin") /\ pc[p] \in {"idle", "now"}
  BY DEF Wake, FixNow, At
<1>2. /\ seen'[p] = expired /\ \A q \in Procs \ {p} : seen'[q] = seen[q] /\ pc'[q] = pc[q]
      /\ pc'[p] = "begin"
  BY <1>1 DEF Goto, TInv, FileInv, AnswersTyped
<1>3. AnswersTyped'
  BY <1>1 DEF TInv, AnswersTyped, tables
<1>4. Pruned'
  BY <1>1, <1>2 DEF TInv, Pruned, tables, Procs
<1>5. AnswersAreTrue'
  BY <1>1, <1>2 DEF TInv, AnswersAreTrue, Pruned, tables, Procs
<1> QED BY <1>3, <1>4, <1>5

\* The sweeper commits what it deleted.
LEMMA SweepTells ==
  ASSUME TInv, EndSweep PROVE (AnswersTyped /\ Pruned /\ AnswersAreTrue)'
<1>1. /\ UNCHANGED <<job, content, layouts, expired, seen, answer, failures>>
      /\ kept' = kept \ tx[Sweeper].takes /\ rows' = Cascade(tx[Sweeper].takes)
      /\ tx' = [tx EXCEPT ![Sweeper] = NoTx] /\ Goto(Sweeper, "idle")
  BY DEF EndSweep
<1>2. Sweeper \in Procs /\ Sweeper \notin Requests
  BY ImportsAssumption DEF ImportsAssumption, Procs, Files
<1>3. /\ tx'[Sweeper].takes = {}
      /\ \A p \in Procs \ {Sweeper} : pc'[p] = pc[p] /\ tx'[p] = tx[p]
  BY <1>1, <1>2 DEF Goto, NoTx, TInv, FileInv
<1>4. /\ rows' \in [Files -> Nat]
      /\ \A f \in Files : rows'[f] = IF f \in kept' THEN Chunks ELSE 0
  BY <1>1 DEF Cascade, TInv, AnswersTyped, AnswersAreTrue
<1>5. tx[Sweeper].takes \subseteq expired
  BY <1>2 DEF TInv, Pruned
<1>6. AnswersTyped'
  BY <1>1, <1>4 DEF TInv, AnswersTyped
<1>7. Pruned'
  BY <1>1, <1>2, <1>3 DEF TInv, Pruned, Procs
<1>8. AnswersAreTrue'
  BY <1>1, <1>4, <1>5 DEF TInv, AnswersAreTrue
<1> QED BY <1>6, <1>7, <1>8

\* A file expires only where it is stored.
LEMMA ExpireTells ==
  ASSUME TInv, NEW f \in Files, Expire(f) PROVE (AnswersTyped /\ Pruned /\ AnswersAreTrue)'
<1>1. /\ UNCHANGED <<job, content, tables, pc, seen, tx, answer, failures>>
      /\ f \in kept /\ expired' = expired \cup {f}
  BY DEF Expire
<1>2. AnswersTyped'
  BY <1>1 DEF TInv, AnswersTyped, tables
<1>3. Pruned'
  BY <1>1 DEF TInv, Pruned, tables
<1>4. AnswersAreTrue'
  BY <1>1 DEF TInv, AnswersAreTrue, tables
<1> QED BY <1>2, <1>3, <1>4

\* A transaction that rolls back tells an error and deletes nothing.
LEMMA RollBackTells ==
  ASSUME TInv, NEW p \in Procs, RollBack(p),
         job' = job, seen' = seen, expired' = expired, kept' = kept, rows' = rows
  PROVE  (AnswersTyped /\ Pruned /\ AnswersAreTrue)'
<1>1. CASE p = Sweeper
  <2>1. Goto(p, "idle") /\ tx' = [tx EXCEPT ![p] = NoTx] /\ answer' = answer
    BY <1>1 DEF RollBack
  <2>2. p \notin Requests
    BY <1>1, ImportsAssumption DEF ImportsAssumption, Files
  <2>3. tx'[p].takes = {} /\ \A q \in Procs \ {p} : pc'[q] = pc[q] /\ tx'[q] = tx[q]
    BY <2>1 DEF Goto, NoTx, TInv, FileInv
  <2>4. AnswersTyped' /\ AnswersAreTrue'
    BY <2>1 DEF TInv, AnswersTyped, AnswersAreTrue
  <2>5. Pruned'
    BY <2>1, <2>2, <2>3 DEF TInv, Pruned, Procs
  <2> QED BY <2>4, <2>5
<1>2. CASE p # Sweeper
  <2>1. End(p, Told("error")) /\ p \in Requests
    BY <1>2 DEF RollBack, Procs
  <2>2. Told("error") \in Answers /\ Told("error").kind = "error"
    BY Tells DEF Told0
  <2> QED BY <2>1, <2>2, ToldNothing
<1> QED BY <1>1, <1>2

\* An upload's other statements.
LEMMA UploadTells ==
  ASSUME TInv, NEW r \in Requests,
         FindLayout(r) \/ EndPrune(r) \/ CheckSame(r) \/ DeleteImport(r)
  PROVE  (AnswersTyped /\ Pruned /\ AnswersAreTrue)'
<1>1. r \in Procs /\ {"now", "same", "insert"} \subseteq Steps \ {"done"}
  BY DEF Procs, Steps, InTx
<1>2. CASE FindLayout(r)
  <2>1. Told("no layout") \in Answers /\ Told("no layout").kind = "no layout"
    BY Tells DEF Told0
  <2> QED BY <1>1, <1>2, <2>1, ToldGoOn, ToldNothing DEF FindLayout, At, tables
<1>3. CASE EndPrune(r)
  <2>1. \A f \in kept \cap seen[r] : f \in tx[r].takes
    BY <1>3 DEF EndPrune, Doomed
  <2> QED BY <1>1, <1>3, <2>1, ToldGoOn DEF EndPrune, At, tables
<1>4. CASE CheckSame(r)
  <2>1. \A f \in kept \cap seen[r] : f \in tx[r].takes
    BY <1>4 DEF CheckSame, At, TInv, Pruned
  <2> QED BY <1>1, <1>4, <2>1, ToldGoOn, RefuseTells DEF CheckSame, At, tables
<1>5. CASE DeleteImport(r)
  <2> DEFINE kind == IF job[r].file \in kept THEN "deleted" ELSE "no file"
  <2>1. Told(kind) \in Answers /\ Told(kind).kind \notin {"stored", "duplicate"}
    BY Tells DEF Told0
  <2>2. /\ rows' \in [Files -> Nat]
        /\ \A f \in Files : rows'[f] = IF f \in kept' THEN Chunks ELSE 0
    BY <1>5 DEF DeleteImport, Cascade, TInv, AnswersTyped, AnswersAreTrue
  <2>3. /\ End(r, Told(kind)) /\ kept' = kept \ {job[r].file}
        /\ job' = job /\ seen' = seen /\ expired' = expired
    BY <1>5 DEF DeleteImport
  <2> QED BY <2>1, <2>2, <2>3, ToldEnd
<1> QED BY <1>2, <1>3, <1>4, <1>5

\* Layouts are told of, and have nothing to do with files.
LEMMA LayoutTells ==
  ASSUME TInv, NEW r \in Requests, Layout(r) PROVE (AnswersTyped /\ Pruned /\ AnswersAreTrue)'
<1>1. r \in Procs /\ {"upsert", "commit"} \subseteq Steps \ {"done", "same", "insert", "rows"}
  BY DEF Procs, Steps, InTx
<1>2. \A kind \in {"too many", "saved", "deleted", "no layout"} :
        Told(kind) \in Answers /\ Told(kind).kind \notin {"stored", "duplicate"}
  BY Tells DEF Told0
<1>3. CASE CountLayouts(r)
  BY <1>1, <1>2, <1>3, ToldGoOn, ToldNothing DEF CountLayouts, At, tables
<1>4. CASE Upsert(r)
  BY <1>1, <1>4, ToldGoOn DEF Upsert, At, tables
<1>5. CASE CommitLayout(r)
  BY <1>2, <1>5, ToldNothing DEF CommitLayout
<1>6. CASE DropLayout(r)
  BY <1>2, <1>6, ToldNothing DEF DropLayout
<1> QED BY <1>3, <1>4, <1>5, <1>6 DEF Layout

\* Every step keeps TInv, one case per action.
LEMMA ToldStep == TInv /\ [Next]_vars => TInv'
<1> SUFFICES ASSUME TInv, [Next]_vars PROVE (AnswersTyped /\ Pruned /\ AnswersAreTrue)'
  BY FilesStep DEF TInv
<1>1. ASSUME NEW p \in Procs, Begin(p) PROVE (AnswersTyped /\ Pruned /\ AnswersAreTrue)'
  <2>1. {"count", "prune"} \subseteq Steps \ {"done", "same", "insert", "rows"}
    BY DEF Steps, InTx
  <2> QED BY <1>1, <2>1, ToldGoOn DEF Begin, At, tables
<1>2. ASSUME NEW p \in Procs, FailDeadlocked(p) \/ Fail(p)
      PROVE  (AnswersTyped /\ Pruned /\ AnswersAreTrue)'
  BY <1>2, RollBackTells DEF FailDeadlocked, Fail, tables
<1>3. ASSUME NEW r \in Requests, Upload(r) PROVE (AnswersTyped /\ Pruned /\ AnswersAreTrue)'
  BY <1>1, <1>3, UploadTells, NowTells, ToldTakes, InsertTells, CommitTells DEF Upload, Procs
<1>4. ASSUME NEW r \in Requests, Step(r) PROVE (AnswersTyped /\ Pruned /\ AnswersAreTrue)'
  BY <1>2, <1>3, <1>4, UploadTells, LayoutTells DEF Step, Procs
<1>5. ASSUME Sweep PROVE (AnswersTyped /\ Pruned /\ AnswersAreTrue)'
  <2>1. Sweeper \in Procs
    BY DEF Procs
  <2>2. CASE Wake
    BY <2>1, <2>2, NowTells
  <2>3. CASE Begin(Sweeper)
    BY <1>1, <2>1, <2>3
  <2>4. CASE TakeExpired(Sweeper)
    BY <2>1, <2>4, ToldTakes
  <2>5. CASE EndSweep
    BY <2>5, SweepTells
  <2>6. CASE FailDeadlocked(Sweeper)
    BY <1>2, <2>1, <2>6
  <2> QED BY <1>5, <2>2, <2>3, <2>4, <2>5, <2>6 DEF Sweep
<1>6. CASE UNCHANGED vars
  BY <1>6 DEF TInv, AnswersTyped, Pruned, AnswersAreTrue, vars, tables
<1> QED BY <1>2, <1>4, <1>5, <1>6, ExpireTells DEF Next

\* At first nobody was answered and nothing has expired.
LEMMA ToldInit == Init => TInv
<1> SUFFICES ASSUME Init PROVE TInv
  OBVIOUS
<1>1. PICK s \in Scenarios : job = s.job /\ kept = s.stored
  BY DEF Init
<1>2. job \in [Requests -> JobType] /\ kept \subseteq Old
  BY <1>1, ImportsAssumption DEF ImportsAssumption
<1>3. AnswersTyped
  BY <1>2, ImportsAssumption DEF Init, AnswersTyped, ImportsAssumption
<1>4. Pruned
  <2>1. \A r \in Requests : r \notin kept \cup expired /\ answer[r] = None
    BY <1>2, ImportsAssumption DEF Init, ImportsAssumption
  <2>2. \A p \in Procs : seen[p] = {} /\ tx[p].takes = {}
    BY DEF Init, NoTx
  <2> QED BY <2>1, <2>2 DEF Pruned, Procs
<1>5. AnswersAreTrue
  BY DEF Init, AnswersAreTrue
<1> QED BY <1>3, <1>4, <1>5, FilesInit DEF TInv

\* "The mapped file and its rows in one transaction", "reads skip an expired file,
\* an upload prunes": an upload told it is stored is there with every row until it
\* expires or is deleted on request, one refused as a duplicate has a copy that had
\* not expired at its `now`, and a file that is not there has no rows; however
\* uploads, deletions, sweeps, failures and deadlocks interleave.
THEOREM AnswersStayTrue == Spec => []AnswersAreTrue
<1>1. Init => TInv
  BY ToldInit
<1>2. TInv /\ [Next]_vars => TInv'
  BY ToldStep
<1>3. TInv => AnswersAreTrue
  BY DEF TInv
<1> QED BY <1>1, <1>2, <1>3, PTL DEF Spec
===============================================================================
