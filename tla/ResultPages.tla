------------------------------ MODULE ResultPages ------------------------------
(***************************************************************************)
(* Paging a reconciliation's result (packages/recon/okwan_recon/paging.py) *)
(* on the surfaces that do: the two REST routes, the hosted MCP tool and   *)
(* the local one.  The server keeps nothing: every page runs the           *)
(* reconciliation again, upstream may have changed since the last one, and *)
(* a client may come back with any cursor it was ever given, another       *)
(* filter or another limit.                                                *)
(*                                                                         *)
(* A row is [id, status, detail]: the records it names, its verdict, and   *)
(* the rest, which the fingerprint leaves out.  A run is read at once here *)
(* (FetchSide reads it page by page); the gate and the meter are           *)
(* TenantApi's.                                                            *)
(***************************************************************************)
EXTENDS Absent, Integers, Sequences, FiniteSets, FiniteSetsExt

CONSTANTS
  ResultRows, \* the rows of any run
  Results,    \* what a run may find: sequences of rows
  Statuses,   \* STATUSES, or OUTCOMES
  Limits,     \* what a client may ask for
  MaxRows     \* MAX_ROWS

ASSUME PagesAssumption ==
  /\ MaxRows \in Nat \ {0} /\ Limits \subseteq Int /\ None \notin Nat
  /\ Results \subseteq Seq(ResultRows)

VARIABLES
  result,  \* what a run would find now
  held,    \* the cursor the client was last given, and the rows it has read up to there
  kept,    \* an older one it has kept
  answer   \* the last page served: [got, whole, more]

pageVars == <<result, held, kept, answer>>

\* A client without a cursor asks for the first page.
NoCursor  == [o |-> 0, f |-> None, v |-> None]
FromStart == [cursor |-> NoCursor, got |-> <<>>]

PagesInit ==
  /\ result \in Results
  /\ held = FromStart
  /\ kept = FromStart
  /\ answer = [got |-> <<>>, whole |-> <<>>, more |-> TRUE]

Upstream ==
  /\ result' \in Results
  /\ UNCHANGED <<held, kept, answer>>

Keep ==
  /\ kept' = held
  /\ UNCHANGED <<result, held, answer>>

-----------------------------------------------------------------------------
Identity(row) == <<row.status, row.id>>

\* Mutant: which rows, in whatever order.
FingerprintOfSet(rows) == {Identity(rows[i]) : i \in DOMAIN rows}

Fingerprint(rows) == [i \in DOMAIN rows |-> Identity(rows[i])]

\* The rows of one status, in their order.
Shown(rows, status) == {i \in DOMAIN rows : status = "all" \/ rows[i].status = status}
View(rows, status) ==
  LET S == Shown(rows, status)
  IN  [n \in 1..Cardinality(S) |-> rows[CHOOSE i \in S : Cardinality({j \in S : j < i}) = n - 1]]

Clamp(limit) == IF limit < 1 THEN 1 ELSE IF limit > MaxRows THEN MaxRows ELSE limit

\* A cursor that cannot be read, or was cut from another filter or result.
Stale(cursor, rows, view) ==
  /\ cursor # NoCursor
  /\ \/ cursor.o = None
     \/ cursor.v # view
     \/ cursor.f # Fingerprint(rows)

\* page_rows, of rows already filtered.
Page(rows, limit, cursor, view) ==
  LET end == Min({cursor.o + Clamp(limit), Len(rows)})
  IN  [rows |-> SubSeq(rows, cursor.o + 1, end),
       next |-> IF end < Len(rows) THEN [o |-> end, f |-> Fingerprint(rows), v |-> view]
                ELSE NoCursor]

\* Filter, then page: the cursor and the rows the client has now.
Paged(limit, view, from) ==
  LET rows == View(result, view)
      page == Page(rows, limit, from.cursor, view)
      got  == (IF from.cursor = NoCursor THEN <<>> ELSE from.got) \o page.rows
  IN  /\ ~Stale(from.cursor, rows, view)
      /\ held' = [cursor |-> page.next, got |-> got]
      /\ answer' = [got |-> got, whole |-> rows, more |-> page.next # NoCursor]
      /\ UNCHANGED <<result, kept>>

\* 409, or an error an agent can read; the run was made and metered all the same.
Refused(view, from) ==
  /\ Stale(from.cursor, View(result, view), view)
  /\ held' = FromStart
  /\ UNCHANGED <<result, kept, answer>>

Torn == [cursor |-> [o |-> None, f |-> None, v |-> None], got |-> <<>>]
Cursors == {FromStart, held, kept, Torn}

\* The routes take a limit from 1 to MAX_ROWS and a status they know.
RestPage ==
  \E limit \in Limits \cap 1..MaxRows, view \in Statuses \cup {"all"}, from \in Cursors :
    Paged(limit, view, from) \/ Refused(view, from)

\* The tools take any limit, which is clamped.
ToolPage ==
  \E limit \in Limits, view \in Statuses \cup {"all"}, from \in Cursors :
    Paged(limit, view, from) \/ Refused(view, from)

PagesNext == Upstream \/ Keep \/ RestPage \/ ToolPage

PagesSpec == PagesInit /\ [][PagesNext]_pageVars

-----------------------------------------------------------------------------
\* "An offset into a different result skips or repeats rows without a sign": the
\* pages of a walk, cut from runs made at different times with different limits
\* and any cursor in between, are one result read from its start, each row once
\* and in order, and all of it when there is no next page.
PagesAreOneResult ==
  /\ Len(answer.got) <= Len(answer.whole)
  /\ \A i \in DOMAIN answer.got : Identity(answer.got[i]) = Identity(answer.whole[i])
  /\ answer.more \/ Len(answer.got) = Len(answer.whole)
================================================================================
