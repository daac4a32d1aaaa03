------------------------------ MODULE AcrossFold ------------------------------
(***************************************************************************)
(* One order ledger against every rail that collects for it                *)
(* (packages/recon/okwan_recon/across.py): run_across matches the ledger   *)
(* against one rail after another, and the fold makes one verdict of what  *)
(* the rails said of each order.                                           *)
(*                                                                         *)
(* What a rail says is nondeterministic, but honest: MatchEngine models    *)
(* how it comes about.  A rail that took the order's payment matches it    *)
(* with the amount it took, or cannot tell; a rail that took nothing has   *)
(* no match, or cannot tell.                                               *)
(***************************************************************************)
EXTENDS Absent, Integers, Sequences, FiniteSets, FiniteSetsExt

CONSTANTS
  Orders,     \* the ledger's rows
  Rails,      \* AcrossRails.rails, in order
  GroupRails, \* those whose declaration groups ledger rows (many = "left")
  Totals,     \* order totals, minor units, or None
  Payments,   \* what a rail may take for an order: an amount and a currency
  Currency,   \* the order's currency
  Tolerance   \* tolerance_bps

ASSUME FoldAssumption ==
  /\ Rails \in Seq(STRING) /\ Len(Rails) >= 2
  /\ GroupRails \subseteq {Rails[i] : i \in DOMAIN Rails}
  /\ Totals \subseteq Nat \cup {None}
  /\ Payments \subseteq [amount: Nat \cup {None}, currency: {Currency, None} \cup STRING]
  /\ Tolerance \in 0..10000

VARIABLES
  total,    \* [order -> its total]
  took,     \* [order -> [rail -> what that rail truly took for it, or None]]
  rail,     \* the place in Rails of the one read next
  said,     \* [order -> [rail -> that rail's verdict, or None]]: _verdicts
  outcome   \* [order -> the outcome], None before the fold

foldVars == <<total, took, rail, said, outcome>>

RailNames == {Rails[i] : i \in DOMAIN Rails}
Silent    == [r \in RailNames |-> None]

FoldInit ==
  /\ total \in [Orders -> Totals]
  /\ took \in [Orders -> [RailNames -> Payments \cup {None}]]
  /\ rail = 1
  /\ said = [o \in Orders |-> Silent]
  /\ outcome = None

-----------------------------------------------------------------------------
Says(status, payment) == [status |-> status, payment |-> payment]

\* A pair whose left side is a group is keyed by the group, so none of its
\* orders gets a verdict.
SaysMatched(r, payment) == IF r \in GroupRails THEN None ELSE Says("matched", payment)

\* What rail r may say of an order it took `payment` for.
MaySay(r, payment) ==
  {Says("ambiguous", None), Says("unverifiable", None),
   IF payment = None THEN Says("unmatched", None) ELSE SaysMatched(r, payment)}

ReadRail ==
  /\ rail <= Len(Rails)
  /\ LET r == Rails[rail]
     IN  \E s \in [Orders -> UNION {MaySay(r, p) : p \in Payments \cup {None}}] :
           /\ \A o \in Orders : s[o] \in MaySay(r, took[o][r])
           /\ said' = [o \in Orders |-> [said[o] EXCEPT ![r] = s[o]]]
  /\ rail' = rail + 1
  /\ UNCHANGED <<total, took, outcome>>

-----------------------------------------------------------------------------
(* _decide and _classify_multi.                                              *)

WithStatus(o, S) == {r \in RailNames : said[o][r] # None /\ said[o][r].status \in S}
Matched(o) == WithStatus(o, {"matched"})

\* unverified_rails: those that could not rule the order in or out.
Unverified(o) == WithStatus(o, {"unverifiable", "ambiguous"})

AmountOn(o, r)   == said[o][r].payment.amount
CurrencyOn(o, r) == said[o][r].payment.currency

Distance(x, y) == IF x >= y THEN x - y ELSE y - x
Near(o, x) == Distance(x, total[o]) * 10000 <= Tolerance * total[o]
SumOn(o, S) == MapThenSumSet(LAMBDA r : AmountOn(o, r), S)

ClassifyMulti(o) ==
  IF \/ total[o] = None \/ \E r \in Matched(o) : AmountOn(o, r) = None
     \/ \E r \in Matched(o) : CurrencyOn(o, r) # Currency
  THEN "collected_inconsistent"
  ELSE IF \A r \in Matched(o) : Near(o, AmountOn(o, r)) THEN "collected_twice"
  ELSE IF Near(o, SumOn(o, Matched(o))) THEN "split_tender"
  ELSE "collected_inconsistent"

\* Mutant: a rail that did not report is no reason for doubt.
DecideOnReported(o) ==
  IF Cardinality(Matched(o)) = 1 THEN "collected"
  ELSE IF Matched(o) # {} THEN ClassifyMulti(o)
  ELSE IF Unverified(o) # {} THEN "unverifiable"
  ELSE "uncollected"

Decide(o) ==
  IF Cardinality(Matched(o)) = 1 THEN "collected"
  ELSE IF Matched(o) # {} THEN ClassifyMulti(o)
  ELSE IF Unverified(o) # {} \/ \E r \in RailNames : said[o][r] = None THEN "unverifiable"
  ELSE "uncollected"

Fold ==
  /\ rail > Len(Rails)
  /\ outcome = None
  /\ outcome' = [o \in Orders |-> Decide(o)]
  /\ UNCHANGED <<total, took, rail, said>>

FoldNext == ReadRail \/ Fold

FoldSpec == FoldInit /\ [][FoldNext]_foldVars

-----------------------------------------------------------------------------
Folded == outcome # None
Collectors(o) == {r \in RailNames : took[o][r] # None}

\* "Uncollected needs every rail to have looked": no rail took a payment for
\* an order reported uncollected, and one reported collected was paid.
UncollectedIsTrue(o) ==
  /\ outcome[o] = "uncollected" => Collectors(o) = {}
  /\ outcome[o] \notin {"uncollected", "unverifiable"} => Collectors(o) # {}

\* Money reported owed back was taken: on an order reported collected twice,
\* two rails at least took its total, to the tolerance, in its currency.
TwiceIsTrue(o) ==
  outcome[o] = "collected_twice" =>
    Cardinality({r \in Collectors(o) :
      /\ took[o][r].currency = Currency
      /\ took[o][r].amount # None /\ Near(o, took[o][r].amount)}) >= 2

\* What the report says of an order is true of what the rails took for it.
OutcomesAreTrue == Folded => \A o \in Orders : UncollectedIsTrue(o) /\ TwiceIsTrue(o)
=============================================================================
