------------------------------ MODULE MatchReport ------------------------------
(***************************************************************************)
(* What a finished match reports (packages/recon/okwan_recon/engine.py):   *)
(* the difference of each pair's figures and the causes that explain it    *)
(* (_score_discrepancies, _explanation), the rows with their statuses      *)
(* (ReconResult.rows), what a cut of them keeps (trimmed_rows), and the    *)
(* match rate (ReconResult.summary).                                       *)
(*                                                                         *)
(* All of it is computed from the engine's result, so it is defined over   *)
(* MatchEngine's variables.  A record here also has                        *)
(*   figures  [field -> amount or None], all the record holds              *)
(* and an input says what its declaration compares:                        *)
(*   declared.amount    the fields compared, [left, right], or None        *)
(*   declared.explains  its causes, in order                               *)
(*   declared.alike     what is no part of the code: the pairs of fields   *)
(*                      that agree when the causes are all that parts the  *)
(*                      two figures; {} when the input does not say        *)
(***************************************************************************)
EXTENDS MatchEngine

CONSTANT MaxParts  \* MAX_EXPLANATION_PARTS

\* A side reads at most Reconciliation.max_records, at most 10,000 records, and
\* None is no number.
ASSUME ReportAssumption == NLeft <= 10000 /\ NRight <= 10000 /\ None \notin Int

VARIABLE declared

ReportInit ==
  /\ Init
  /\ \E input \in Inputs :
       /\ rules = input.keys
       /\ rows.left \in [LeftIds -> input.left]
       /\ rows.right \in [RightIds -> input.right]
       /\ declared = input.declared

ReportSpec == ReportInit /\ [][Next /\ UNCHANGED declared]_<<vars, declared>>

-----------------------------------------------------------------------------
(* The figures of a pair.                                                    *)

\* MatchedPair.value: a record's own field; of a group the sum when every member
\* has the amount, and else the value they share.
Value(p, s, field) ==
  IF \A x \in p[s] : rows[s][x].figures[field] # None
  THEN MapThenSumSet(LAMBDA x : rows[s][x].figures[field], p[s])
  ELSE None

Currencies(p, s) == {rows[s][x].cur : x \in p[s]}

Currency(p, s) ==
  IF Cardinality(Currencies(p, s)) = 1 THEN CHOOSE cur \in Currencies(p, s) : TRUE ELSE None

CurrenciesDiffer(p) ==
  /\ Currency(p, "left") # None /\ Currency(p, "right") # None
  /\ Currency(p, "left") # Currency(p, "right")

\* discrepancy_minor, None when the two sides cannot be compared.
Difference(p) ==
  IF declared.amount = None \/ CurrenciesDiffer(p) THEN None
  ELSE LET l == Value(p, "left", declared.amount.left)
           r == Value(p, "right", declared.amount.right)
       IN  IF l = None \/ r = None THEN None ELSE l - r

-----------------------------------------------------------------------------
(* Its explanation.                                                          *)

\* Explains.figure: the sum of the fields it names, of those that are there.
Figure(p, cause) ==
  LET present == {field \in cause.fields : Value(p, cause.side, field) # None}
  IN  IF present = {} THEN None
      ELSE MapThenSumSet(LAMBDA field : Value(p, cause.side, field), present)

\* Explains.allows: an amount, and the gap runs the way the cause's sign says.
Allows(cause, amount, gap) ==
  /\ amount \notin {None, 0}
  /\ cause.sign = "positive" => gap > 0
  /\ cause.sign = "negative" => gap < 0

Magnitude(n) == IF n < 0 THEN -n ELSE n

\* Mutant: a figure counts with the sign its rail gives it.
AddUpSigned(p, causes, gap) ==
  MapThenSumSet(LAMBDA i : Figure(p, declared.explains[i]), causes) = Magnitude(gap)

\* Magnitudes: rails state a fee with signs of their own.
AddUp(p, causes, gap) ==
  MapThenSumSet(LAMBDA i : Magnitude(Figure(p, declared.explains[i])), causes) = Magnitude(gap)

Stated(p, gap) ==
  {i \in DOMAIN declared.explains :
     LET cause == declared.explains[i] IN Allows(cause, Figure(p, cause), gap)}

\* The combinations that account for the difference to the unit.
Accounts(p) ==
  LET gap == Difference(p)
  IN  IF gap \in {None, 0} THEN {}
      ELSE {causes \in SUBSET Stated(p, gap) :
              Cardinality(causes) \in 1..MaxParts /\ AddUp(p, causes, gap)}

\* Of two combinations the smaller is tried first, of one size the one with the
\* earlier cause.
TriedBefore(C, D) ==
  \/ Cardinality(C) < Cardinality(D)
  \/ Cardinality(C) = Cardinality(D) /\ Min((C \ D) \cup (D \ C)) \in C

\* explained_by, as the causes it names; {} when nothing explains the pair.
Explanation(p) ==
  IF Accounts(p) = {} THEN {}
  ELSE CHOOSE C \in Accounts(p) : \A D \in Accounts(p) \ {C} : TriedBefore(C, D)

-----------------------------------------------------------------------------
(* The rows.                                                                 *)

PairStatus(p) ==
  IF Difference(p) \in {None, 0} THEN "matched"
  ELSE IF Explanation(p) # {} THEN "matched_explained"
  ELSE "matched_discrepant"

Row(status, left, right) == [status |-> status, left |-> left, right |-> right]

\* One record's row, on its side.
RowOf(status, s, x) ==
  IF s = "left" THEN Row(status, {x}, {}) ELSE Row(status, {}, {x})

MissedStatus == [left |-> "unmatched_left", right |-> "unmatched_right"]
UnreadStatus == [left |-> "unverifiable_left", right |-> "unverifiable_right"]

\* The rows of the records reported on their own.
SingleRows(records, status) == UNION {{RowOf(status[s], s, x) : x \in records[s]} : s \in Sides}

Rows ==
  {Row(PairStatus(p), p.left, p.right) : p \in pairs}
    \cup {RowOf("ambiguous", a.side, a.rec) : a \in ambiguous}
    \cup SingleRows(missed, MissedStatus) \cup SingleRows(unread, UnreadStatus)

PAIR_DISPLAY_ORDER ==
  <<"matched_discrepant", "unmatched_left", "unmatched_right", "ambiguous", "matched_explained",
    "unverifiable_left", "unverifiable_right", "matched">>

Rank(row) == CHOOSE i \in DOMAIN PAIR_DISPLAY_ORDER : PAIR_DISPLAY_ORDER[i] = row.status

\* trimmed_rows: what a cut at `limit` may keep, rows of one rank in any order.
Trimmed(limit) ==
  {kept \in kSubset(limit, Rows) : \A row \in kept, cut \in Rows \ kept : Rank(row) <= Rank(cut)}

\* match_rate in ten-thousandths, None while anything is unverifiable.
MatchRate ==
  LET total == Cardinality(pairs) + Cardinality(missed["left"])
  IN  IF unread["left"] # {} \/ unread["right"] # {} THEN None
      ELSE IF total = 0 THEN 0
      ELSE (10000 * Cardinality(pairs) + total \div 2) \div total

-----------------------------------------------------------------------------
\* Every record read is in exactly one row.
EveryRecordOnce ==
  /\ \A x \in LeftIds  : Cardinality({row \in Rows : x \in row.left}) = 1
  /\ \A y \in RightIds : Cardinality({row \in Rows : y \in row.right}) = 1

\* "A cut at `limit` drops clean matches, not breaks": of what a person must look
\* at nothing is dropped while a clean match is kept.
CutsDropCleanMatches ==
  \A limit \in 0..Cardinality(Rows) : \A kept \in Trimmed(limit) :
    (\E row \in kept : row.status = "matched") =>
      \A cut \in Rows \ kept : cut.status = "matched"

\* A rate of one leaves no left record missed and nothing unread.
FullRateIsFull ==
  MatchRate = 10000 => missed["left"] = {} /\ \A s \in Sides : unread[s] = {}

\* A difference of two records is a number of one currency.
DifferenceIsOneCurrency ==
  \A p \in pairs :
    Cardinality(p.left) = 1 /\ Cardinality(p.right) = 1 /\ Difference(p) # None =>
      Cardinality((Currencies(p, "left") \cup Currencies(p, "right")) \ {None}) <= 1

\* A pair that only its declared causes part, in one currency.
PartedByCauses(p) ==
  /\ declared.alike # {}
  /\ ~CurrenciesDiffer(p)
  /\ \A fields \in declared.alike :
       Value(p, "left", fields.left) # None
         /\ Value(p, "left", fields.left) = Value(p, "right", fields.right)

\* What a fee and a refund account for is not reported as a break: "unexplained,
\* it trains people to ignore the number".
KnownCausesExplain == \A p \in pairs : PartedByCauses(p) => PairStatus(p) # "matched_discrepant"

\* A finished match's rows are its records, its breaks come first, its rate does
\* not say more than was read, and its differences are of one currency.
RowsAreTrue ==
  pc = "done" =>
    EveryRecordOnce /\ CutsDropCleanMatches /\ FullRateIsFull /\ DifferenceIsOneCurrency

\* And of the declarations shipped, a difference with a known cause is explained.
ReportIsTrue == RowsAreTrue /\ (pc = "done" => KnownCausesExplain)
================================================================================
