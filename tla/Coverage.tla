------------------------------- MODULE Coverage -------------------------------
(***************************************************************************)
(* What one side of a reconciliation says it read                          *)
(* (packages/recon/okwan_recon/coverage.py), and what that lets it say     *)
(* about a record of the other side.                                       *)
(***************************************************************************)
EXTENDS Absent, Integers

\* The caller supplied no coverage.  None is an open bound of a span, and the date
\* of a record without one.
CONSTANT NoCoverage

\* Days is the set of dates; a span may be open at either end.
CoverageOf(Days) ==
  [truncated: BOOLEAN, from: Days \cup {None}, to: Days \cup {None}]

\* Coverage.reads: would a counterpart dated `day` have been fetched?
Reads(c, day) ==
  \/ c = NoCoverage
  \/ /\ ~c.truncated
     /\ \/ c.from = None /\ c.to = None
        \/ /\ day # None
           /\ c.from # None => day >= c.from
           /\ c.to # None => day <= c.to
=============================================================================
