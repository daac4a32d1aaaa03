---------------------------- MODULE ReconVerdicts ----------------------------
(***************************************************************************)
(* What a two-sided reconciliation promises about its records, whatever    *)
(* its rules: every record read from either side ends in exactly one       *)
(* bucket of ReconResult (packages/recon/okwan_recon/engine.py), a claim   *)
(* is never withdrawn, and no record is claimed twice.                     *)
(*                                                                         *)
(* MatchEngine refines this module, rule by rule.                          *)
(***************************************************************************)
EXTENDS FiniteSets

CONSTANTS
  LeftIds,   \* the records of the left side (the ledger)
  RightIds   \* the records of the right side (the rail)

Sides == {"left", "right"}
Ids(s) == IF s = "left" THEN LeftIds ELSE RightIds

(***************************************************************************)
(* A claim is one record of a side against one or several of the other.    *)
(***************************************************************************)
Claims == [left: SUBSET LeftIds, right: SUBSET RightIds]

VARIABLES
  open,     \* [side -> records not judged yet]
  pairs,    \* the claims made
  aside,    \* [side -> records found ambiguous]
  missed,   \* [side -> records reported unmatched]
  unread    \* [side -> records reported unverifiable]

vars == <<open, pairs, aside, missed, unread>>

Claimed(s) == UNION {p[s] : p \in pairs}

-----------------------------------------------------------------------------
TypeOK ==
  /\ open   \in [Sides -> SUBSET (LeftIds \cup RightIds)]
  /\ pairs  \in SUBSET Claims
  /\ aside  \in [Sides -> SUBSET (LeftIds \cup RightIds)]
  /\ missed \in [Sides -> SUBSET (LeftIds \cup RightIds)]
  /\ unread \in [Sides -> SUBSET (LeftIds \cup RightIds)]

Init ==
  /\ open   = [s \in Sides |-> Ids(s)]
  /\ pairs  = {}
  /\ aside  = [s \in Sides |-> {}]
  /\ missed = [s \in Sides |-> {}]
  /\ unread = [s \in Sides |-> {}]

Claim(L, R) ==
  /\ L # {} /\ L \subseteq open["left"]
  /\ R # {} /\ R \subseteq open["right"]
  /\ (\E x \in L : L = {x}) \/ (\E y \in R : R = {y})
  /\ pairs' = pairs \cup {[left |-> L, right |-> R]}
  /\ open' = [s \in Sides |-> open[s] \ (IF s = "left" THEN L ELSE R)]
  /\ UNCHANGED <<aside, missed, unread>>

SetAside(s, x) ==
  /\ x \in open[s]
  /\ open'  = [open EXCEPT ![s] = @ \ {x}]
  /\ aside' = [aside EXCEPT ![s] = @ \cup {x}]
  /\ UNCHANGED <<pairs, missed, unread>>

\* The end of the run: what is left over was missed, or was never looked for.
Settle ==
  \E U \in [Sides -> SUBSET (LeftIds \cup RightIds)] :
    /\ \A s \in Sides : U[s] \subseteq open[s]
    /\ unread' = [s \in Sides |-> unread[s] \cup U[s]]
    /\ missed' = [s \in Sides |-> missed[s] \cup (open[s] \ U[s])]
    /\ open'   = [s \in Sides |-> {}]
    /\ UNCHANGED <<pairs, aside>>

Next ==
  \/ \E L \in SUBSET LeftIds, R \in SUBSET RightIds : Claim(L, R)
  \/ \E s \in Sides : \E x \in Ids(s) : SetAside(s, x)
  \/ Settle

Spec == Init /\ [][Next]_vars

-----------------------------------------------------------------------------
\* A record of either side belongs to at most one claim (the `consumed` sets
\* of engine.py), so no payment settles two orders.
ClaimedOnce ==
  \A p \in pairs, q \in pairs : p # q => \A s \in Sides : p[s] \cap q[s] = {}

\* Every record of a side is in exactly one place: still in play, claimed,
\* ambiguous, unmatched or unverifiable.  Nothing the rules do loses a record
\* or reports it twice.
JudgedOnce ==
  \A s \in Sides :
    /\ Ids(s) = open[s] \cup Claimed(s) \cup aside[s] \cup missed[s] \cup unread[s]
    /\ open[s] \cap (Claimed(s) \cup aside[s] \cup missed[s] \cup unread[s]) = {}
    /\ Claimed(s) \cap (aside[s] \cup missed[s] \cup unread[s]) = {}
    /\ aside[s] \cap (missed[s] \cup unread[s]) = {}
    /\ missed[s] \cap unread[s] = {}

\* A claim names at least one record of each side and several of at most one.
ClaimShape ==
  \A p \in pairs :
    /\ p.left # {} /\ p.right # {}
    /\ (\E x \in p.left : p.left = {x}) \/ (\E y \in p.right : p.right = {y})

Inv == TypeOK /\ ClaimedOnce /\ JudgedOnce /\ ClaimShape
=============================================================================
