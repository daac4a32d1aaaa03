----------------------------- MODULE MatchEngine -----------------------------
(***************************************************************************)
(* The match engine of packages/recon/okwan_recon/engine.py: `match` runs  *)
(* the declared rules in order over two lists of records; each rule goes   *)
(* through the records of its one side in list order and claims, sets      *)
(* aside as ambiguous, or leaves each one for the next rule.               *)
(*                                                                         *)
(* A record is a position in its list.  Its fields are reduced to what the *)
(* rules compare, already normalised by _ref_key, _minor and _as_dt:       *)
(*   ref    the reference a rule joins on, or None                         *)
(*   agree  [field -> value or None], the fields the Agree guards compare   *)
(*   phones the set of E.164 forms MSISDN.candidates reads, {} when absent *)
(*   cur    the currency, None when blank                                  *)
(*   amt    the amount in minor units, or None                             *)
(*   day    its date as a business-day number, or None                     *)
(*   mid    what a GroupSum `share` field holds                            *)
(* A declaration names each of these once; all its rules read them.        *)
(***************************************************************************)
EXTENDS Coverage, Sequences, FiniteSets, FiniteSetsExt

CONSTANTS
  NLeft, NRight,  \* how many records each side read
  Inputs          \* what `match` may be given: the keys of a declaration, the
                  \* records its left and its right side may hold, and what each
                  \* may have read (NoCoverage, or a Coverage)

LeftIds  == 1..NLeft
RightIds == 1..NRight
Sides    == {"left", "right"}
Ids(s)   == IF s = "left" THEN LeftIds ELSE RightIds
Other(s) == IF s = "left" THEN "right" ELSE "left"

ReferenceKinds == {"exact", "group_ref"}
Kinds == ReferenceKinds \cup {"fuzzy", "group_sum"}

RuleType ==
  [kind: Kinds, many: Sides, tol: Nat, win: Nat, lag: BOOLEAN, min: Nat, max: Nat,
   forward: BOOLEAN, members: Nat, candidates: Nat]

ASSUME CountAssumption == NLeft \in Nat /\ NRight \in Nat
Declarations == {input.keys : input \in Inputs}

ASSUME RulesAssumption ==
  \A keys \in Declarations :
    /\ keys \in Seq(RuleType)
    /\ \A i \in DOMAIN keys : keys[i].kind \in {"exact", "fuzzy"} => keys[i].many = "right"

VARIABLES
  rules,      \* Reconciliation.keys, in declaration order
  rows,       \* [side -> [position -> record]], what the two sides read
  coverage,   \* [side -> Coverage or NoCoverage]
  ruleNo,     \* the rule being applied
  todo,       \* the records of its one side it has not come to yet
  open,       \* [side -> records no rule has judged]: `left`, `right` in match
  pairs,      \* ReconResult.matched
  ambiguous,  \* ReconResult.ambiguous
  missed,     \* [side -> records]: unmatched_left, unmatched_right
  unread,     \* [side -> records]: unverifiable_left, unverifiable_right
  pc          \* "rules", between two rules; "records", inside one; "done"

vars == <<rules, rows, coverage, ruleNo, todo, open, pairs, ambiguous, missed, unread, pc>>

-----------------------------------------------------------------------------
(* What the rules compare.  l is a record of the left side, r of the right. *)

SameRef(l, r) == l.ref # None /\ l.ref = r.ref

\* Two phone numbers disagree when both are readable and share no form.
PhonesDisagree(l, r) == l.phones # {} /\ r.phones # {} /\ l.phones \cap r.phones = {}

\* A guarded field contradicts when both records carry it and it differs.
FieldsDisagree(l, r) ==
  \E field \in DOMAIN l.agree :
    l.agree[field] # None /\ r.agree[field] # None /\ l.agree[field] # r.agree[field]

\* SettlementLag.admits: business days from the earlier side to the later one.
LagAdmits(rule, l, r) ==
  /\ l.day # None /\ r.day # None
  /\ LET days == IF rule.forward THEN r.day - l.day ELSE l.day - r.day
     IN  days >= 0 /\ rule.min <= days /\ days <= rule.max

\* The symmetric window admits what it cannot date.
WindowAdmits(rule, l, r) ==
  \/ l.day = None \/ r.day = None
  \/ l.day - r.day \in -rule.win..rule.win

InTime(rule, l, r) == IF rule.lag THEN LagAdmits(rule, l, r) ELSE WindowAdmits(rule, l, r)

FuzzyFits(rule, l, r) ==
  /\ l.amt # None /\ r.amt # None
  /\ l.cur = r.cur
  /\ r.amt - l.amt \in -rule.tol..rule.tol
  /\ ~PhonesDisagree(l, r)
  /\ ~FieldsDisagree(l, r)
  /\ InTime(rule, l, r)

-----------------------------------------------------------------------------
(* What a rule offers the record o of its one side, of the records `free`    *)
(* of its many side that nothing has claimed.                                *)

Many(rule) == rule.many
One(rule)  == Other(rule.many)

\* Record o of the one side beside record m of the many side.
LeftOf(rule, o, m)  == IF One(rule) = "left" THEN rows.left[o] ELSE rows.left[m]
RightOf(rule, o, m) == IF One(rule) = "left" THEN rows.right[m] ELSE rows.right[o]

\* Mutant: the index keeps one record per reference.
BucketOfTheFirst(rule, o, free) ==
  {m \in free :
    /\ SameRef(LeftOf(rule, o, m), RightOf(rule, o, m))
    /\ \A n \in Ids(Many(rule)) :
         SameRef(LeftOf(rule, o, n), RightOf(rule, o, n)) => m <= n}

Bucket(rule, o, free) ==
  {m \in free : SameRef(LeftOf(rule, o, m), RightOf(rule, o, m))}

FuzzyCandidates(rule, o, free) ==
  {m \in free : FuzzyFits(rule, LeftOf(rule, o, m), RightOf(rule, o, m))}

\* A GroupSum's pool, split by the fields its members must share.
SumPool(rule, o, free) ==
  {m \in free :
    /\ rows[One(rule)][o].amt # None /\ rows[Many(rule)][m].amt # None
    /\ rows[Many(rule)][m].cur = rows[One(rule)][o].cur
    /\ InTime(rule, LeftOf(rule, o, m), RightOf(rule, o, m))}

ShareGroups(rule, o, free) ==
  LET pool == SumPool(rule, o, free)
  IN  {{m \in pool : rows[Many(rule)][m].mid = rows[Many(rule)][n].mid} : n \in pool}

Crowded(rule, o, free) ==
  \E G \in ShareGroups(rule, o, free) : Cardinality(G) > rule.candidates

Total(records, S) == MapThenSumSet(LAMBDA x : records[x].amt, S)

\* What _subsets_summing finds in the groups small enough to search
\* (SubsetSearch models the search).
SumFits(rule, o, free) ==
  LET searched == {G \in ShareGroups(rule, o, free) : Cardinality(G) <= rule.candidates}
  IN  {M \in UNION {SUBSET G : G \in searched} :
        /\ Cardinality(M) \in 1..rule.members
        /\ Total(rows[Many(rule)], M) - rows[One(rule)][o].amt \in -rule.tol..rule.tol}

\* ExactRef takes the earliest record of the bucket, GroupRef all of it.
Fits(rule, o, free) ==
  LET bucket == Bucket(rule, o, free)
  IN  IF rule.kind = "exact" THEN {{m} : m \in {b \in bucket : \A x \in bucket : b <= x}}
      ELSE IF rule.kind = "fuzzy" THEN {{m} : m \in FuzzyCandidates(rule, o, free)}
      ELSE IF rule.kind = "group_ref" THEN {bucket} \ {{}}
      ELSE SumFits(rule, o, free)

\* Mutant: two fitting groups are no reason to refuse.
RefusesOnlyCrowds(rule, o, free) ==
  \/ rule.kind = "group_ref" /\ Cardinality(Bucket(rule, o, free)) > rule.members
  \/ rule.kind = "group_sum" /\ Crowded(rule, o, free)

\* The record has counterparts, and the rule will not choose among them.
Refuses(rule, o, free) ==
  \/ rule.kind = "group_ref" /\ Cardinality(Bucket(rule, o, free)) > rule.members
  \/ rule.kind = "group_sum" /\ Crowded(rule, o, free)
  \/ Cardinality(Fits(rule, o, free)) > 1

-----------------------------------------------------------------------------
Init ==
  /\ \E input \in Inputs :
       /\ rules = input.keys
       /\ rows \in {[left |-> L, right |-> R] : L \in [LeftIds -> input.left],
                                                R \in [RightIds -> input.right]}
       /\ coverage \in [Sides -> input.coverages]
  /\ ruleNo = 1
  /\ todo = {}
  /\ open = [s \in Sides |-> Ids(s)]
  /\ pairs = {}
  /\ ambiguous = {}
  /\ missed = [s \in Sides |-> {}]
  /\ unread = [s \in Sides |-> {}]
  /\ pc = "rules"

Rule == rules[ruleNo]
Free == open[Many(Rule)]

BeginRule ==
  /\ pc = "rules"
  /\ ruleNo <= Len(rules)
  /\ open["left"] # {} /\ open["right"] # {}
  /\ todo' = open[One(Rule)]
  /\ pc' = "records"
  /\ UNCHANGED <<rules, rows, coverage, ruleNo, open, pairs, ambiguous, missed, unread>>

\* Mutant: the sides of the pair are exchanged.
PairOfSwapped(o, M) ==
  [left  |-> IF One(Rule) = "left" THEN M ELSE {o},
   right |-> IF One(Rule) = "left" THEN {o} ELSE M,
   rule  |-> ruleNo]

\* The claim (o against the group M) as a pair of sets of positions.
PairOf(o, M) ==
  [left  |-> IF One(Rule) = "left" THEN {o} ELSE M,
   right |-> IF One(Rule) = "left" THEN M ELSE {o},
   rule  |-> ruleNo]

\* The loop body's three outcomes for the next record in list order.
IsNext(o) == pc = "records" /\ o \in todo /\ \A x \in todo : o <= x

\* Mutant: the records claimed on the many side stay available.
ClaimWithoutConsuming(o) ==
  /\ IsNext(o)
  /\ ~Refuses(Rule, o, Free)
  /\ \E M \in Fits(Rule, o, Free) : pairs' = pairs \cup {PairOf(o, M)}
  /\ open' = [open EXCEPT ![One(Rule)] = @ \ {o}]
  /\ todo' = todo \ {o}
  /\ UNCHANGED <<rules, rows, coverage, ruleNo, ambiguous, missed, unread, pc>>

Claim(o) ==
  /\ IsNext(o)
  /\ ~Refuses(Rule, o, Free)
  /\ \E M \in Fits(Rule, o, Free) :
       /\ pairs' = pairs \cup {PairOf(o, M)}
       /\ open' = [s \in Sides |-> open[s] \ (IF s = One(Rule) THEN {o} ELSE M)]
  /\ todo' = todo \ {o}
  /\ UNCHANGED <<rules, rows, coverage, ruleNo, ambiguous, missed, unread, pc>>

SetAside(o) ==
  /\ IsNext(o)
  /\ Refuses(Rule, o, Free)
  /\ ambiguous' = ambiguous \cup {[side |-> One(Rule), rec |-> o, rule |-> ruleNo]}
  /\ open' = [open EXCEPT ![One(Rule)] = @ \ {o}]
  /\ todo' = todo \ {o}
  /\ UNCHANGED <<rules, rows, coverage, ruleNo, pairs, missed, unread, pc>>

LeaveOpen(o) ==
  /\ IsNext(o)
  /\ ~Refuses(Rule, o, Free)
  /\ Fits(Rule, o, Free) = {}
  /\ todo' = todo \ {o}
  /\ UNCHANGED <<rules, rows, coverage, ruleNo, open, pairs, ambiguous, missed, unread, pc>>

EndRule ==
  /\ pc = "records"
  /\ todo = {}
  /\ ruleNo' = ruleNo + 1
  /\ pc' = "rules"
  /\ UNCHANGED <<rules, rows, coverage, todo, open, pairs, ambiguous, missed, unread>>

\* _split_unread on both sides, once the rules are done or a side is used up.
\* A declaration with neither a Fuzzy nor a GroupSum rule dates nothing.
Dated == \E i \in DOMAIN rules : rules[i].kind \in {"fuzzy", "group_sum"}

Unread(s) ==
  {x \in open[s] : ~Reads(coverage[Other(s)], IF Dated THEN rows[s][x].day ELSE None)}

Settle ==
  /\ pc = "rules"
  /\ ruleNo > Len(rules) \/ open["left"] = {} \/ open["right"] = {}
  /\ unread' = [s \in Sides |-> Unread(s)]
  /\ missed' = [s \in Sides |-> open[s] \ Unread(s)]
  /\ open' = [s \in Sides |-> {}]
  /\ pc' = "done"
  /\ UNCHANGED <<rules, rows, coverage, ruleNo, todo, pairs, ambiguous>>

JudgeRecord == \E o \in LeftIds \cup RightIds : Claim(o) \/ SetAside(o) \/ LeaveOpen(o)

Next == BeginRule \/ JudgeRecord \/ EndRule \/ Settle

Spec == Init /\ [][Next]_vars

-----------------------------------------------------------------------------
TypeOK ==
  /\ rules \in Declarations
  /\ ruleNo \in 1..(Len(rules) + 1)
  /\ todo \in SUBSET (LeftIds \cup RightIds)
  /\ open \in [Sides -> SUBSET (LeftIds \cup RightIds)]
  /\ pairs \in SUBSET [left: SUBSET LeftIds, right: SUBSET RightIds, rule: DOMAIN rules]
  /\ ambiguous \in SUBSET [side: Sides, rec: LeftIds \cup RightIds, rule: DOMAIN rules]
  /\ missed \in [Sides -> SUBSET (LeftIds \cup RightIds)]
  /\ unread \in [Sides -> SUBSET (LeftIds \cup RightIds)]
  /\ pc \in {"rules", "records", "done"}

Claimed(s)  == UNION {p[s] : p \in pairs}
Aside(s)    == {a.rec : a \in {b \in ambiguous : b.side = s}}
Leftover(s) == missed[s] \cup unread[s]

\* Every record ends in exactly one bucket, claimed at most once: the engine
\* implements ReconVerdicts, one claim, refusal or verdict at a time.
Verdicts == INSTANCE ReconVerdicts WITH
  pairs <- {[left |-> p.left, right |-> p.right] : p \in pairs},
  aside <- [s \in Sides |-> Aside(s)]

ImplementsVerdicts == Verdicts!Spec

\* Between two steps of the loop: the records still to come are open, nothing is
\* reported before the end, and nothing is open after it.
RunShape ==
  /\ pc = "records" => ruleNo \in DOMAIN rules /\ todo \subseteq open[One(Rule)]
  /\ \A s \in Sides : open[s] \subseteq Ids(s)
  /\ pc # "done" => \A s \in Sides : missed[s] = {} /\ unread[s] = {}
  /\ pc = "done" => \A s \in Sides : open[s] = {}

\* The inductive invariant: the engine's own shape, and every record in exactly
\* one bucket and at most one claim (ReconVerdicts).
IInv == TypeOK /\ RunShape /\ Verdicts!Inv

\* Asked again at the end, with what is left over, each rule would decide as it
\* did.  A miss is mutual: of the records reported unmatched or unverifiable, no
\* rule would offer one to another, so a counterpart claimed or refused in the
\* meantime never comes back.  And a claim was no choice: given its members and
\* everything left over, its rule would make the same claim and no other.
VerdictsStand ==
  pc = "done" =>
    /\ \A i \in DOMAIN rules : \A o \in Leftover(One(rules[i])) :
         LET free == Leftover(Many(rules[i]))
         IN  Fits(rules[i], o, free) = {} /\ ~Refuses(rules[i], o, free)
    /\ \A p \in pairs :
         LET rule    == rules[p.rule]
             members == p[Many(rule)]
             free    == members \cup Leftover(Many(rule))
         IN  \A o \in p[One(rule)] :
               Fits(rule, o, free) = {members} /\ ~Refuses(rule, o, free)

\* A reference outranks everything after it: of two records that share an
\* ExactRef's key, one at least was judged by that rule or an earlier one.
ReferenceExhausted ==
  pc = "done" =>
    \A i \in DOMAIN rules : \A l \in LeftIds, r \in RightIds :
      rules[i].kind = "exact" /\ SameRef(rows.left[l], rows.right[r]) =>
        \/ \E p \in pairs : p.rule <= i /\ (l \in p.left \/ r \in p.right)
        \/ \E a \in ambiguous :
             a.rule < i /\ <<a.side, a.rec>> \in {<<"left", l>>, <<"right", r>>}
=============================================================================
