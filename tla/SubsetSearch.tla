------------------------------ MODULE SubsetSearch ------------------------------
(***************************************************************************)
(* _subsets_summing of packages/recon/okwan_recon/engine.py: the search a  *)
(* GroupSum makes for groups of records whose amounts add up to a target.  *)
(* It goes depth first through the records in order of amount, gives up a  *)
(* branch that can only overshoot, and stops at the second group found,    *)
(* which is enough to know that the choice is not the rule's to make.      *)
(***************************************************************************)
EXTENDS Integers, Sequences, FiniteSets, FiniteSetsExt

CONSTANTS
  Members,       \* how many records are searched
  Amounts,       \* what one may amount to, minor units
  Targets,       \* what they may have to add up to
  SumTolerance,  \* amount_tolerance_minor
  MaxMembers     \* max_members

ASSUME SearchAssumption ==
  Members \in Nat /\ Amounts \subseteq Int /\ Targets \subseteq Int
  /\ SumTolerance \in Nat /\ MaxMembers \in Nat \ {0}

Ids == 1..Members

VARIABLES
  amount,  \* [record -> its amount]
  target,
  chosen,  \* the records of the branch the walk is in
  rest,    \* those its loop has still to try
  found,   \* the groups found, in turn
  phase    \* "enter", a call of walk; "loop", inside one; "back", at its end; "done"

searchVars == <<amount, target, chosen, rest, found, phase>>

SearchInit ==
  /\ amount \in [Ids -> Amounts]
  /\ target \in Targets
  /\ chosen = {}
  /\ rest = Ids
  /\ found = <<>>
  /\ phase = "enter"

\* `order`: Python's sort is stable.
Precedes(x, y) == amount[x] < amount[y] \/ (amount[x] = amount[y] /\ x < y)
First(S) == CHOOSE x \in S : \A y \in S \ {x} : Precedes(x, y)
Final(S) == CHOOSE x \in S : \A y \in S \ {x} : Precedes(y, x)

SumOf(S) == MapThenSumSet(LAMBDA x : amount[x], S)

\* Mutant: the amounts are taken to be non-negative.
PositiveAlways == TRUE

Positive == \A x \in Ids : amount[x] >= 0

AddsUp(S) == SumOf(S) - target \in -SumTolerance..SumTolerance

Enter ==
  /\ phase = "enter"
  /\ found' = IF chosen # {} /\ AddsUp(chosen) THEN Append(found, chosen) ELSE found
  /\ phase' = IF Len(found') > 1 THEN "done"
              ELSE IF Cardinality(chosen) = MaxMembers THEN "back" ELSE "loop"
  /\ UNCHANGED <<amount, target, chosen, rest>>

\* Every later record is at least as large, so it overshoots too.
Overshoots == Positive /\ SumOf(chosen) + amount[First(rest)] > target + SumTolerance

Try ==
  /\ phase = "loop"
  /\ rest # {}
  /\ ~Overshoots
  /\ chosen' = chosen \cup {First(rest)}
  /\ rest' = rest \ {First(rest)}
  /\ phase' = "enter"
  /\ UNCHANGED <<amount, target, found>>

Leave ==
  /\ phase = "loop"
  /\ rest # {} => Overshoots
  /\ phase' = "back"
  /\ UNCHANGED <<amount, target, chosen, rest, found>>

\* The call returns to the loop that made it, which goes on behind its record.
Return ==
  /\ phase = "back"
  /\ IF chosen = {}
     THEN phase' = "done" /\ UNCHANGED <<chosen, rest>>
     ELSE /\ phase' = "loop"
          /\ rest' = {x \in Ids : Precedes(Final(chosen), x)}
          /\ chosen' = chosen \ {Final(chosen)}
  /\ UNCHANGED <<amount, target, found>>

SearchNext == Enter \/ Try \/ Leave \/ Return

SearchSpec == SearchInit /\ [][SearchNext]_searchVars

-----------------------------------------------------------------------------
\* The groups there are: of no more than max_members records, their sum within
\* the tolerance of the target (what MatchEngine's SumFits takes).
Groups == {S \in SUBSET Ids : Cardinality(S) \in 1..MaxMembers /\ AddsUp(S)}

\* "Two is enough to know it is ambiguous": the search ends with the one group
\* there is, with two of those there are, or with none because there is none,
\* and finds no group twice.
FindsEnough ==
  /\ \A k \in DOMAIN found : found[k] \in Groups /\ \A j \in DOMAIN found : found[j] = found[k] => j = k
  /\ phase = "done" =>
    Len(found) = IF Cardinality(Groups) >= 2 THEN 2 ELSE Cardinality(Groups)
=============================================================================
