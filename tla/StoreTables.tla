------------------------------ MODULE StoreTables ------------------------------
(***************************************************************************)
(* What the two stores of packages/vault/okwan_vault have in common: a     *)
(* method takes the tables and its arguments, and leaves the tables and an *)
(* answer.  A table is a function from its key to the rest of its row.     *)
(***************************************************************************)
EXTENDS Naturals, FiniteSets

CONSTANTS
  None,
  Idle,         \* SESSION_IDLE
  Touch,        \* SESSION_TOUCH
  RunsKept,     \* RUNS_KEPT
  SupportKept,  \* SUPPORT_KEPT_DAYS
  ImportKept,   \* IMPORT_KEPT_MONTHS
  LayoutsKept,  \* LAYOUTS_KEPT
  Plans         \* the names of PLANS

ASSUME StoreAssumption ==
  /\ {Idle, Touch, SupportKept, ImportKept} \subseteq Nat
  /\ RunsKept \in Nat \ {0}
  /\ LayoutsKept \in Nat \ {0}
  /\ "free" \in Plans

Put(f, k, v)  == [x \in DOMAIN f \cup {k} |-> IF x = k THEN v ELSE f[x]]
Without(f, S) == [x \in DOMAIN f \ S |-> f[x]]
Get(f, k, default) == IF k \in DOMAIN f THEN f[k] ELSE default
Known(a, b) == IF a = None THEN b ELSE a

Returns(d, answer) == [db |-> d, says |-> <<"returned", answer>>]
Raises(d) == [db |-> d, says |-> <<"raised", None>>]

\* Newest first by (finished_at, id): what a listing of n runs holds.
Later(a, i, b, j) == a > b \/ (a = b /\ i > j)
Newest(rows, n) ==
  {i \in DOMAIN rows :
     Cardinality({j \in DOMAIN rows : Later(rows[j].at, j, rows[i].at, i)}) < n}
================================================================================
