-------------------------- MODULE MatchEngineProofs --------------------------
(***************************************************************************)
(* The match engine implements ReconVerdicts, for every declaration and    *)
(* every pair of record lists; its decisions stand when the run is over,   *)
(* a reference outranks every later rule, and the report is true of them.  *)
(***************************************************************************)
EXTENDS MatchReport, FiniteSetTheorems, WellFoundedInduction, TLAPS

LEMMA RuleTypes ==
  ASSUME rules \in Declarations, NEW i \in DOMAIN rules
  PROVE  /\ Many(rules[i]) \in Sides /\ One(rules[i]) \in Sides
         /\ One(rules[i]) # Many(rules[i])
         /\ rules[i].kind \in Kinds /\ rules[i].members \in Nat
<1>1. rules[i] \in RuleType
  BY RulesAssumption
<1>2. rules[i].many \in Sides /\ rules[i].kind \in Kinds /\ rules[i].members \in Nat
  BY <1>1 DEF RuleType
<1> QED BY <1>2 DEF Many, One, Other, Sides

(***************************************************************************)
(* Whatever a rule offers is a non-empty group of the free records.        *)
(***************************************************************************)
LEMMA FitsAreFree ==
  ASSUME NEW rule, rule.kind \in Kinds, rule.members \in Nat,
         NEW o, NEW free, NEW M \in Fits(rule, o, free)
  PROVE  M \subseteq free /\ M # {}
<1>1. Bucket(rule, o, free) \subseteq free
  BY DEF Bucket
<1>2. FuzzyCandidates(rule, o, free) \subseteq free
  BY DEF FuzzyCandidates
<1>3. \A G \in ShareGroups(rule, o, free) : G \subseteq free
  BY DEF ShareGroups, SumPool
<1>4. \A S \in SumFits(rule, o, free) : S \subseteq free /\ S # {}
  <2> SUFFICES ASSUME NEW S \in SumFits(rule, o, free) PROVE S \subseteq free /\ S # {}
    OBVIOUS
  <2>1. Cardinality(S) \in 1..rule.members /\ \E G \in ShareGroups(rule, o, free) : S \subseteq G
    BY DEF SumFits
  <2>2. S # {}
    BY <2>1, FS_EmptySet
  <2> QED BY <2>1, <2>2, <1>3
<1>5. CASE rule.kind = "exact"
  BY <1>5, <1>1 DEF Fits
<1>6. CASE rule.kind = "fuzzy"
  BY <1>6, <1>2 DEF Fits
<1>7. CASE rule.kind = "group_ref"
  BY <1>7, <1>1 DEF Fits
<1>8. CASE rule.kind = "group_sum"
  BY <1>8, <1>4 DEF Fits
<1> QED BY <1>5, <1>6, <1>7, <1>8 DEF Kinds, ReferenceKinds

LEMMA EngineInit == Init => TypeOK /\ RunShape
<1> SUFFICES ASSUME Init PROVE TypeOK /\ RunShape
  OBVIOUS
<1>1. rules \in Declarations /\ rules \in Seq(RuleType)
  BY RulesAssumption DEF Init, Declarations
<1> QED BY <1>1, CountAssumption DEF Init, TypeOK, RunShape, Sides, Ids, LeftIds, RightIds

(***************************************************************************)
(* The claim a step makes, in the terms of both modules.                   *)
(***************************************************************************)
LEMMA ClaimStep ==
  ASSUME TypeOK, RunShape, NEW o, Claim(o)
  PROVE  \E L \in SUBSET LeftIds, R \in SUBSET RightIds :
           /\ L # {} /\ L \subseteq open["left"]
           /\ R # {} /\ R \subseteq open["right"]
           /\ (\E x \in L : L = {x}) \/ (\E y \in R : R = {y})
           /\ pairs' = pairs \cup {[left |-> L, right |-> R, rule |-> ruleNo]}
           /\ open' = [s \in Sides |-> open[s] \ (IF s = "left" THEN L ELSE R)]
           /\ (IF One(Rule) = "left" THEN L ELSE R) = {o}
<1>1. ruleNo \in DOMAIN rules /\ o \in open[One(Rule)]
  BY DEF Claim, IsNext, RunShape
<1>2. /\ Many(Rule) \in Sides /\ One(Rule) \in Sides /\ One(Rule) # Many(Rule)
      /\ Rule.kind \in Kinds /\ Rule.members \in Nat
  BY <1>1, RuleTypes DEF Rule, TypeOK
<1>3. PICK M \in Fits(Rule, o, Free) :
        /\ pairs' = pairs \cup {PairOf(o, M)}
        /\ open' = [s \in Sides |-> open[s] \ (IF s = One(Rule) THEN {o} ELSE M)]
  BY DEF Claim
<1>4. M \subseteq open[Many(Rule)] /\ M # {}
  BY <1>2, FitsAreFree DEF Free
<1>5. open["left"] \subseteq LeftIds /\ open["right"] \subseteq RightIds
  BY DEF RunShape, Sides, Ids
<1>6. CASE One(Rule) = "left"
  <2>1. Many(Rule) = "right"
    BY <1>6, <1>2 DEF Sides
  <2>2. {o} \in SUBSET LeftIds /\ M \in SUBSET RightIds
    BY <1>1, <1>4, <1>5, <1>6, <2>1
  <2>3. /\ pairs' = pairs \cup {[left |-> {o}, right |-> M, rule |-> ruleNo]}
        /\ open' = [s \in Sides |-> open[s] \ (IF s = "left" THEN {o} ELSE M)]
    BY <1>3, <1>6 DEF PairOf
  <2> QED BY <1>1, <1>4, <1>6, <2>1, <2>2, <2>3
<1>7. CASE One(Rule) = "right"
  <2>1. Many(Rule) = "left"
    BY <1>7, <1>2 DEF Sides
  <2>2. M \in SUBSET LeftIds /\ {o} \in SUBSET RightIds
    BY <1>1, <1>4, <1>5, <1>7, <2>1
  <2>3. pairs' = pairs \cup {[left |-> M, right |-> {o}, rule |-> ruleNo]}
    BY <1>3, <1>7 DEF PairOf
  <2>4. open' = [s \in Sides |-> open[s] \ (IF s = "left" THEN M ELSE {o})]
    BY <1>3, <1>7 DEF Sides
  <2> QED BY <1>1, <1>4, <1>7, <2>1, <2>2, <2>3, <2>4
<1> QED BY <1>2, <1>6, <1>7 DEF Sides
(***************************************************************************)
(* The types and the shape of a run are an invariant of their own: every   *)
(* step keeps them.                                                        *)
(***************************************************************************)
Shaped == TypeOK /\ RunShape

LEMMA RuleRange ==
  ASSUME rules \in Declarations
  PROVE  DOMAIN rules = 1..Len(rules) /\ Len(rules) \in Nat
  BY RulesAssumption

LEMMA ClaimShaped == ASSUME Shaped, NEW o, Claim(o) PROVE Shaped'
<1>1. PICK L \in SUBSET LeftIds, R \in SUBSET RightIds :
        /\ L # {} /\ L \subseteq open["left"]
        /\ R # {} /\ R \subseteq open["right"]
        /\ (\E x \in L : L = {x}) \/ (\E y \in R : R = {y})
        /\ pairs' = pairs \cup {[left |-> L, right |-> R, rule |-> ruleNo]}
        /\ open' = [s \in Sides |-> open[s] \ (IF s = "left" THEN L ELSE R)]
        /\ (IF One(Rule) = "left" THEN L ELSE R) = {o}
  <2> TypeOK /\ RunShape
    BY DEF Shaped
  <2> QED BY ClaimStep
<1>2. /\ pc = "records" /\ ruleNo \in DOMAIN rules
      /\ todo' = todo \ {o}
      /\ UNCHANGED <<rules, rows, coverage, ruleNo, ambiguous, missed, unread, pc>>
  BY DEF Claim, IsNext, Shaped, RunShape
<1>3. Rule' = Rule /\ One(Rule) \in Sides
  BY <1>2, RuleTypes DEF Rule, Shaped, TypeOK
<1>4. TypeOK'
  BY <1>1, <1>2 DEF Shaped, TypeOK
<1>5. todo' \subseteq open'[One(Rule)]
  BY <1>1, <1>2, <1>3 DEF Shaped, RunShape
<1>6. RunShape'
  BY <1>1, <1>2, <1>3, <1>5 DEF Shaped, RunShape
<1> QED BY <1>4, <1>6 DEF Shaped

LEMMA SetAsideShaped == ASSUME Shaped, NEW o, SetAside(o) PROVE Shaped'
<1>1. /\ pc = "records" /\ ruleNo \in DOMAIN rules
      /\ o \in todo /\ todo \subseteq open[One(Rule)] /\ todo' = todo \ {o}
      /\ open' = [open EXCEPT ![One(Rule)] = @ \ {o}]
      /\ ambiguous' = ambiguous \cup {[side |-> One(Rule), rec |-> o, rule |-> ruleNo]}
      /\ UNCHANGED <<rules, rows, coverage, ruleNo, pairs, missed, unread, pc>>
  BY DEF SetAside, IsNext, Shaped, RunShape
<1>2. Rule' = Rule /\ One(Rule) \in Sides
  BY <1>1, RuleTypes DEF Rule, Shaped, TypeOK
<1>3. TypeOK'
  BY <1>1, <1>2 DEF Shaped, TypeOK
<1>4. RunShape'
  BY <1>1, <1>2 DEF Shaped, TypeOK, RunShape
<1> QED BY <1>3, <1>4 DEF Shaped

LEMMA SettleShaped == ASSUME Shaped, Settle PROVE Shaped'
<1>1. \A s \in Sides : Unread(s) \subseteq open[s]
  BY DEF Unread
<1>2. TypeOK'
  BY <1>1 DEF Settle, Shaped, TypeOK
<1>3. RunShape'
  BY DEF Settle, Shaped, RunShape
<1> QED BY <1>2, <1>3 DEF Shaped

LEMMA StepShaped == Shaped /\ [Next]_vars => Shaped'
<1> SUFFICES ASSUME Shaped, [Next]_vars PROVE Shaped'
  OBVIOUS
<1>1. CASE BeginRule
  <2>1. ruleNo \in DOMAIN rules /\ Rule' = Rule
    BY <1>1, RuleRange DEF BeginRule, Shaped, TypeOK, Rule
  <2>2. One(Rule) \in Sides
    BY <2>1, RuleTypes DEF Rule, Shaped, TypeOK
  <2> QED BY <1>1, <2>1, <2>2 DEF BeginRule, Shaped, TypeOK, RunShape
<1>2. ASSUME NEW o, Claim(o) PROVE Shaped'
  BY <1>2, ClaimShaped
<1>3. ASSUME NEW o, SetAside(o) PROVE Shaped'
  BY <1>3, SetAsideShaped
<1>4. ASSUME NEW o, LeaveOpen(o) PROVE Shaped'
  BY <1>4 DEF LeaveOpen, IsNext, Shaped, TypeOK, RunShape, Rule
<1>5. CASE EndRule
  <2>1. ruleNo' \in 1..(Len(rules) + 1)
    BY <1>5, RuleRange DEF EndRule, Shaped, RunShape
  <2> QED BY <1>5, <2>1 DEF EndRule, Shaped, TypeOK, RunShape
<1>6. CASE Settle
  BY <1>6, SettleShaped
<1>7. CASE UNCHANGED vars
  BY <1>7 DEF vars, Shaped, TypeOK, RunShape, Rule
<1> QED BY <1>1, <1>2, <1>3, <1>4, <1>5, <1>6, <1>7 DEF Next, JudgeRecord

(***************************************************************************)
(* The engine's variables keep their types for every declaration and every *)
(* pair of record lists: a rule only ever claims records that are open.    *)
(***************************************************************************)
THEOREM EngineIsTyped == Spec => []TypeOK
<1>1. Init => Shaped
  BY EngineInit DEF Shaped
<1>2. Shaped => TypeOK
  BY DEF Shaped
<1> QED BY <1>1, <1>2, StepShaped, PTL DEF Spec
(***************************************************************************)
(* The refinement: what each step of the engine is to ReconVerdicts.       *)
(***************************************************************************)
LEMMA InitRefines == Init => Verdicts!Init
  BY DEF Init, Verdicts!Init, Aside, Sides, Verdicts!Sides, Ids, Verdicts!Ids

LEMMA ClaimRefines == ASSUME Shaped, NEW o, Claim(o) PROVE Verdicts!Next
<1>1. PICK L \in SUBSET LeftIds, R \in SUBSET RightIds :
        /\ L # {} /\ L \subseteq open["left"]
        /\ R # {} /\ R \subseteq open["right"]
        /\ (\E x \in L : L = {x}) \/ (\E y \in R : R = {y})
        /\ pairs' = pairs \cup {[left |-> L, right |-> R, rule |-> ruleNo]}
        /\ open' = [s \in Sides |-> open[s] \ (IF s = "left" THEN L ELSE R)]
        /\ (IF One(Rule) = "left" THEN L ELSE R) = {o}
  BY ClaimStep DEF Shaped
<1>2. {[left |-> p.left, right |-> p.right] : p \in pairs'}
        = {[left |-> p.left, right |-> p.right] : p \in pairs} \cup {[left |-> L, right |-> R]}
  <2> DEFINE n == [left |-> L, right |-> R, rule |-> ruleNo]
  <2>1. {[left |-> p.left, right |-> p.right] : p \in pairs \cup {n}}
          = {[left |-> p.left, right |-> p.right] : p \in pairs} \cup {[left |-> n.left, right |-> n.right]}
    OBVIOUS
  <2>2. n.left = L /\ n.right = R
    OBVIOUS
  <2>3. pairs' = pairs \cup {n}
    BY <1>1
  <2> HIDE DEF n
  <2> QED BY <2>1, <2>2, <2>3
<1>3. /\ missed' = missed /\ unread' = unread
      /\ [s \in Sides |-> Aside(s)]' = [s \in Sides |-> Aside(s)]
  BY DEF Claim, Aside
<1>4. Verdicts!Claim(L, R)
  BY <1>1, <1>2, <1>3 DEF Verdicts!Claim, Verdicts!Sides, Sides
<1> QED BY <1>4 DEF Verdicts!Next

LEMMA SetAsideRefines == ASSUME Shaped, NEW o, SetAside(o) PROVE Verdicts!Next
<1> DEFINE s == One(Rule)
<1>1. /\ o \in open[s] /\ s \in Sides /\ open[s] \subseteq Ids(s)
  BY RuleTypes DEF SetAside, IsNext, Shaped, TypeOK, RunShape, Rule
<1>2. /\ open' = [open EXCEPT ![s] = @ \ {o}]
      /\ ambiguous' = ambiguous \cup {[side |-> s, rec |-> o, rule |-> ruleNo]}
      /\ pairs' = pairs /\ missed' = missed /\ unread' = unread
  BY DEF SetAside
<1>3. \A t \in Sides : Aside(t)' = IF t = s THEN Aside(t) \cup {o} ELSE Aside(t)
  <2> DEFINE a == [side |-> s, rec |-> o, rule |-> ruleNo]
  <2>1. a.side = s /\ a.rec = o /\ ambiguous' = ambiguous \cup {a}
    BY <1>2
  <2> HIDE DEF a
  <2> TAKE t \in Sides
  <2>2. CASE t = s
    BY <2>1, <2>2 DEF Aside
  <2>3. CASE t # s
    BY <2>1, <2>3 DEF Aside
  <2> QED BY <2>2, <2>3
<1>4. [t \in Sides |-> Aside(t)]'
        = [[t \in Sides |-> Aside(t)] EXCEPT ![s] = @ \cup {o}]
  BY <1>1, <1>3
<1>5. Verdicts!SetAside(s, o)
  BY <1>1, <1>2, <1>4 DEF Verdicts!SetAside
<1> QED BY <1>1, <1>5 DEF Verdicts!Next, Sides, Verdicts!Sides, Ids, Verdicts!Ids

LEMMA SettleRefines == ASSUME Shaped, Settle PROVE Verdicts!Next
<1> DEFINE U == [s \in Sides |-> Unread(s)]
<1>1. /\ open \in [Sides -> SUBSET (LeftIds \cup RightIds)]
      /\ \A s \in Sides : missed[s] = {} /\ unread[s] = {}
  BY DEF Shaped, TypeOK, RunShape, Settle
<1>2. \A s \in Sides : Unread(s) \subseteq open[s]
  BY DEF Unread
<1>3. U \in [Sides -> SUBSET (LeftIds \cup RightIds)]
  BY <1>1, <1>2
<1>4. /\ unread' = [s \in Sides |-> unread[s] \cup U[s]]
      /\ missed' = [s \in Sides |-> missed[s] \cup (open[s] \ U[s])]
      /\ open' = [s \in Sides |-> {}]
  BY <1>1 DEF Settle
<1>5. pairs' = pairs /\ [s \in Sides |-> Aside(s)]' = [s \in Sides |-> Aside(s)]
  BY DEF Settle, Aside
<1>6. Verdicts!Settle
  BY <1>2, <1>3, <1>4, <1>5 DEF Verdicts!Settle, Verdicts!Sides, Sides
<1> QED BY <1>6 DEF Verdicts!Next

LEMMA StepRefines == Shaped /\ [Next]_vars => [Verdicts!Next]_(Verdicts!vars)
<1> SUFFICES ASSUME Shaped, [Next]_vars PROVE [Verdicts!Next]_(Verdicts!vars)
  OBVIOUS
<1>1. CASE BeginRule
  BY <1>1 DEF BeginRule, Verdicts!vars, Aside
<1>2. ASSUME NEW o, Claim(o) \/ SetAside(o) PROVE Verdicts!Next
  BY <1>2, ClaimRefines, SetAsideRefines
<1>3. ASSUME NEW o, LeaveOpen(o) PROVE UNCHANGED (Verdicts!vars)
  BY <1>3 DEF LeaveOpen, Verdicts!vars, Aside
<1>4. CASE EndRule
  BY <1>4 DEF EndRule, Verdicts!vars, Aside
<1>5. CASE Settle
  BY <1>5, SettleRefines
<1>6. CASE UNCHANGED vars
  BY <1>6 DEF vars, Verdicts!vars, Aside
<1> QED BY <1>1, <1>2, <1>3, <1>4, <1>5, <1>6 DEF Next, JudgeRecord

(***************************************************************************)
(* The engine implements ReconVerdicts, whatever the declaration: a claim  *)
(* is only ever of records nothing has judged, and nothing a rule decided  *)
(* is undone.                                                              *)
(***************************************************************************)
THEOREM EngineImplementsVerdicts == Spec => ImplementsVerdicts
<1>1. Init => Shaped
  BY EngineInit DEF Shaped
<1> QED BY <1>1, InitRefines, StepShaped, StepRefines, PTL DEF Spec, ImplementsVerdicts, Verdicts!Spec

(***************************************************************************)
(* What ReconVerdictsProofs proves of the verdicts, read in the engine's   *)
(* variables.                                                              *)
(***************************************************************************)
Safe == INSTANCE ReconVerdictsProofs WITH
  pairs <- {[left |-> p.left, right |-> p.right] : p \in pairs},
  aside <- [s \in Sides |-> Aside(s)]

(***************************************************************************)
(* The engine's inductive invariant holds throughout every run: nothing is *)
(* lost, claimed twice or reported in two buckets.                         *)
(***************************************************************************)
THEOREM EngineIsSafe == Spec => []IInv
<1>1. Init => Shaped
  BY EngineInit DEF Shaped
<1>2. Verdicts!Init => Safe!Init
  BY DEF Verdicts!Init, Safe!Init, Verdicts!Sides, Safe!Sides, Verdicts!Ids, Safe!Ids
<1>3. [Verdicts!Next]_(Verdicts!vars) => [Safe!Next]_(Safe!vars)
  BY DEF Verdicts!Next, Safe!Next, Verdicts!vars, Safe!vars, Verdicts!Claim, Safe!Claim,
     Verdicts!SetAside, Safe!SetAside, Verdicts!Settle, Safe!Settle, Verdicts!Sides,
     Safe!Sides, Verdicts!Ids, Safe!Ids
<1>4. Safe!Inv => Verdicts!Inv
  BY DEF Safe!Inv, Verdicts!Inv, Safe!TypeOK, Verdicts!TypeOK, Safe!Claims, Verdicts!Claims,
     Safe!ClaimedOnce, Verdicts!ClaimedOnce, Safe!JudgedOnce, Verdicts!JudgedOnce,
     Safe!ClaimShape, Verdicts!ClaimShape, Safe!Claimed, Verdicts!Claimed,
     Safe!Sides, Verdicts!Sides, Safe!Ids, Verdicts!Ids
<1>5. Shaped /\ Verdicts!Inv => IInv
  BY DEF Shaped, IInv
<1> QED BY <1>1, <1>2, <1>3, <1>4, <1>5, StepShaped, EngineImplementsVerdicts,
           Safe!VerdictsAreSafe, PTL
        DEF Spec, ImplementsVerdicts, Verdicts!Spec, Safe!Spec

(***************************************************************************)
(* A non-empty set of positions has an earliest one.                       *)
(***************************************************************************)
Earlier == {p \in Nat \X Nat : p[1] < p[2]}

LEMMA EarliestExists ==
  ASSUME NEW S \in SUBSET Nat, S # {}
  PROVE  \E m \in S : \A x \in S : m <= x
<1>1. IsWellFoundedOn(Earlier, Nat)
  BY NatLessThanWellFounded DEF OpToRel, Earlier
<1>2. PICK m \in S : \A x \in S : ~(<<x, m>> \in Earlier)
  BY <1>1, WFMin
<1>3. ASSUME NEW x \in S PROVE m <= x
  <2>1. <<x, m>> \in Nat \X Nat
    OBVIOUS
  <2>2. ~(x < m)
    BY <1>2, <2>1 DEF Earlier
  <2> QED BY <2>1, <2>2
<1> QED BY <1>3

(***************************************************************************)
(* What a rule offers of fewer free records.                               *)
(***************************************************************************)
\* A group that shares a mid of fewer records is part of one of them all.
LEMMA GroupsNarrow ==
  ASSUME NEW rule, NEW o, NEW free, NEW fewer \in SUBSET free,
         NEW G \in ShareGroups(rule, o, fewer)
  PROVE  \E H \in ShareGroups(rule, o, free) : G \subseteq H
<1> DEFINE Alike(n) == {m \in SumPool(rule, o, free) : rows[Many(rule)][m].mid = rows[Many(rule)][n].mid}
<1>1. PICK n \in SumPool(rule, o, fewer) :
        G = {m \in SumPool(rule, o, fewer) : rows[Many(rule)][m].mid = rows[Many(rule)][n].mid}
  BY DEF ShareGroups
<1>2. SumPool(rule, o, fewer) \subseteq SumPool(rule, o, free)
  BY DEF SumPool
<1>3. Alike(n) \in ShareGroups(rule, o, free) /\ G \subseteq Alike(n)
  BY <1>1, <1>2 DEF ShareGroups
<1> QED BY <1>3

LEMMA CrowdsThin ==
  ASSUME NEW rule, rule.candidates \in Nat, NEW o, NEW free, IsFiniteSet(free),
         NEW fewer \in SUBSET free, ~Crowded(rule, o, free)
  PROVE  ~Crowded(rule, o, fewer)
<1> SUFFICES ASSUME NEW G \in ShareGroups(rule, o, fewer), Cardinality(G) > rule.candidates
             PROVE  FALSE
  BY DEF Crowded
<1>1. PICK H \in ShareGroups(rule, o, free) : G \subseteq H
  BY GroupsNarrow
<1>2. H \subseteq free
  BY DEF ShareGroups, SumPool
<1>3. IsFiniteSet(H) /\ IsFiniteSet(G) /\ Cardinality(G) <= Cardinality(H)
  BY <1>1, <1>2, FS_Subset
<1>4. Cardinality(H) > rule.candidates
  BY <1>3, FS_CardinalityType
<1> QED BY <1>4 DEF Crowded

LEMMA SumsNarrow ==
  ASSUME NEW rule, rule.candidates \in Nat, NEW o, NEW free, IsFiniteSet(free),
         NEW fewer \in SUBSET free, ~Crowded(rule, o, free)
  PROVE  \A M : M \in SumFits(rule, o, fewer) <=> M \in SumFits(rule, o, free) /\ M \subseteq fewer
<1> DEFINE Sums(M) == /\ Cardinality(M) \in 1..rule.members
                      /\ Total(rows[Many(rule)], M) - rows[One(rule)][o].amt \in -rule.tol..rule.tol
<1>0. \A S \in SUBSET free : \A G \in ShareGroups(rule, o, S) : G \subseteq free
  BY DEF ShareGroups, SumPool
<1>1. \A S \in SUBSET free : \A G \in ShareGroups(rule, o, S) : Cardinality(G) <= rule.candidates
  <2> SUFFICES ASSUME NEW S \in SUBSET free, NEW G \in ShareGroups(rule, o, S)
               PROVE  Cardinality(G) <= rule.candidates
    OBVIOUS
  <2>1. Cardinality(G) \in Nat
    BY <1>0, FS_Subset, FS_CardinalityType
  <2>2. ~(Cardinality(G) > rule.candidates)
    BY CrowdsThin DEF Crowded
  <2> QED BY <2>1, <2>2
<1>2. \A S \in SUBSET free : \A M :
        M \in SumFits(rule, o, S) <=> (\E G \in ShareGroups(rule, o, S) : M \subseteq G) /\ Sums(M)
  BY <1>1 DEF SumFits
<1>3. ASSUME NEW M \in SumFits(rule, o, fewer)
      PROVE  M \in SumFits(rule, o, free) /\ M \subseteq fewer
  <2>1. PICK G \in ShareGroups(rule, o, fewer) : M \subseteq G
    BY <1>2
  <2>2. \E H \in ShareGroups(rule, o, free) : M \subseteq H
    BY <2>1, GroupsNarrow
  <2>3. G \subseteq fewer
    BY DEF ShareGroups, SumPool
  <2> QED BY <1>2, <1>3, <2>1, <2>2, <2>3
<1>4. ASSUME NEW M \in SumFits(rule, o, free), M \subseteq fewer
      PROVE  M \in SumFits(rule, o, fewer)
  <2>1. PICK G \in ShareGroups(rule, o, free) : M \subseteq G
    BY <1>2
  <2>2. Sums(M) /\ Cardinality(M) # 0
    BY <1>2
  <2>3. PICK n \in M : TRUE
    BY <2>2, FS_EmptySet
  <2>4. PICK k \in SumPool(rule, o, free) :
          G = {m \in SumPool(rule, o, free) : rows[Many(rule)][m].mid = rows[Many(rule)][k].mid}
    BY DEF ShareGroups
  <2>5. M \subseteq SumPool(rule, o, fewer)
    BY <2>1, <2>4, <1>4 DEF SumPool
  <2> DEFINE H == {m \in SumPool(rule, o, fewer) : rows[Many(rule)][m].mid = rows[Many(rule)][n].mid}
  <2>6. H \in ShareGroups(rule, o, fewer)
    BY <2>3, <2>5 DEF ShareGroups
  <2>7. M \subseteq H
    BY <2>1, <2>3, <2>4, <2>5
  <2> HIDE DEF H
  <2> QED BY <1>2, <2>2, <2>6, <2>7
<1> QED BY <1>3, <1>4

LEMMA AtMostOne ==
  ASSUME NEW S, IsFiniteSet(S), ~(Cardinality(S) > 1)
  PROVE  \A x, y \in S : x = y
<1>1. Cardinality(S) = 0 \/ Cardinality(S) = 1
  BY FS_CardinalityType
<1> QED BY <1>1, FS_EmptySet, FS_Singleton

LEMMA FitsFinite ==
  ASSUME NEW rule \in RuleType, NEW o, NEW free, IsFiniteSet(free)
  PROVE  IsFiniteSet(Fits(rule, o, free))
<1>1. Fits(rule, o, free) \in SUBSET SUBSET free
  BY FitsAreFree DEF RuleType
<1> QED BY <1>1, FS_SUBSET, FS_Subset

\* A rule offers one group at most of a bucket.
LEMMA BucketFits ==
  ASSUME NEW rule \in RuleType, rule.kind \in ReferenceKinds, NEW o, NEW free \in SUBSET Nat
  PROVE  /\ Fits(rule, o, free) = {} <=> Bucket(rule, o, free) = {}
         /\ \A M \in Fits(rule, o, free) : Fits(rule, o, free) = {M}
<1> DEFINE B == Bucket(rule, o, free)
<1>1. B \in SUBSET Nat
  BY DEF Bucket
<1>2. B # {} => \E m \in B : \A x \in B : m <= x
  BY <1>1, EarliestExists
<1>3. \A x, y \in {b \in B : \A x \in B : b <= x} : x = y
  BY <1>1
<1> HIDE DEF B
<1>4. CASE rule.kind = "exact"
  <2>1. Fits(rule, o, free) = {{m} : m \in {b \in B : \A x \in B : b <= x}}
    BY <1>4 DEF Fits, B
  <2>2. Fits(rule, o, free) = {} <=> B = {}
    BY <2>1, <1>2
  <2>3. \A M, N \in Fits(rule, o, free) : M = N
    BY <2>1, <1>3
  <2> QED BY <2>2, <2>3 DEF B
<1>5. CASE rule.kind = "group_ref"
  <2>1. Fits(rule, o, free) = {B} \ {{}}
    BY <1>5 DEF Fits, B
  <2> QED BY <2>1 DEF B
<1> QED BY <1>4, <1>5 DEF ReferenceKinds

(***************************************************************************)
(* What a rule decided about a record it would decide again with fewer     *)
(* records to choose from, as long as those it claimed are among them.     *)
(***************************************************************************)
LEMMA MissStands ==
  ASSUME NEW rule \in RuleType, NEW o, NEW free \in SUBSET Nat, IsFiniteSet(free),
         NEW fewer \in SUBSET free,
         Fits(rule, o, free) = {}, ~Refuses(rule, o, free)
  PROVE  Fits(rule, o, fewer) = {} /\ ~Refuses(rule, o, fewer)
<1>0. rule.kind \in Kinds /\ rule.members \in Nat /\ rule.candidates \in Nat
  BY DEF RuleType
<1>1. Cardinality({}) = 0
  BY FS_EmptySet
<1>2. CASE rule.kind \in ReferenceKinds
  <2>1. Bucket(rule, o, fewer) = {}
    BY <1>2, BucketFits DEF Bucket
  <2>2. Fits(rule, o, fewer) = {}
    BY <1>2, <2>1, BucketFits
  <2> QED BY <1>0, <1>1, <1>2, <2>1, <2>2 DEF Refuses, ReferenceKinds
<1>3. CASE rule.kind = "fuzzy"
  <2>1. Fits(rule, o, fewer) = {}
    BY <1>3 DEF Fits, FuzzyCandidates
  <2> QED BY <1>1, <1>3, <2>1 DEF Refuses
<1>4. CASE rule.kind = "group_sum"
  <2>1. ~Crowded(rule, o, free)
    BY <1>4 DEF Refuses
  <2>2. ~Crowded(rule, o, fewer)
    BY <1>0, <2>1, CrowdsThin
  <2>3. \A N : N \in SumFits(rule, o, fewer) <=> N \in SumFits(rule, o, free) /\ N \subseteq fewer
    BY <1>0, <2>1, SumsNarrow
  <2>4. Fits(rule, o, fewer) = {}
    BY <1>4, <2>3 DEF Fits
  <2> QED BY <1>1, <1>4, <2>2, <2>4 DEF Refuses
<1> QED BY <1>0, <1>2, <1>3, <1>4 DEF Kinds, ReferenceKinds

LEMMA ClaimStands ==
  ASSUME NEW rule \in RuleType, NEW o, NEW free \in SUBSET Nat, IsFiniteSet(free),
         NEW fewer \in SUBSET free, ~Refuses(rule, o, free),
         NEW M \in Fits(rule, o, free), M \subseteq fewer
  PROVE  Fits(rule, o, fewer) = {M} /\ ~Refuses(rule, o, fewer)
<1>0. rule.kind \in Kinds /\ rule.members \in Nat /\ rule.candidates \in Nat
  BY DEF RuleType
<1>1. \A N \in Fits(rule, o, free) : N = M
  BY FitsFinite, AtMostOne DEF Refuses
<1>2. Cardinality({M}) = 1
  BY FS_Singleton
<1>3. CASE rule.kind = "exact"
  <2>1. PICK m \in Bucket(rule, o, free) : M = {m} /\ \A x \in Bucket(rule, o, free) : m <= x
    BY <1>3 DEF Fits
  <2>2. /\ m \in Bucket(rule, o, fewer)
        /\ \A x \in Bucket(rule, o, fewer) : x \in Bucket(rule, o, free)
    BY <2>1 DEF Bucket
  <2>3. M \in Fits(rule, o, fewer)
    BY <1>3, <2>1, <2>2 DEF Fits
  <2>4. Fits(rule, o, fewer) = {M}
    BY <1>3, <2>3, BucketFits DEF ReferenceKinds
  <2> QED BY <1>2, <1>3, <2>4 DEF Refuses
<1>4. CASE rule.kind = "group_ref"
  <2>1. M = Bucket(rule, o, free) /\ M # {}
    BY <1>4 DEF Fits
  <2>2. Bucket(rule, o, fewer) = M
    BY <2>1 DEF Bucket
  <2>3. Fits(rule, o, fewer) = {M}
    BY <1>4, <2>1, <2>2 DEF Fits
  <2> QED BY <1>2, <1>4, <2>1, <2>2, <2>3 DEF Refuses
<1>5. CASE rule.kind = "fuzzy"
  <2>1. /\ FuzzyCandidates(rule, o, fewer) \subseteq FuzzyCandidates(rule, o, free)
        /\ \A m \in FuzzyCandidates(rule, o, free) : m \in fewer => m \in FuzzyCandidates(rule, o, fewer)
    BY DEF FuzzyCandidates
  <2>2. Fits(rule, o, fewer) = {M}
    BY <1>1, <1>5, <2>1 DEF Fits
  <2> QED BY <1>2, <1>5, <2>2 DEF Refuses
<1>6. CASE rule.kind = "group_sum"
  <2>1. ~Crowded(rule, o, free) /\ M \in SumFits(rule, o, free)
    BY <1>6 DEF Refuses, Fits
  <2>2. ~Crowded(rule, o, fewer)
    BY <1>0, <2>1, CrowdsThin
  <2>3. \A N : N \in SumFits(rule, o, fewer) <=> N \in SumFits(rule, o, free) /\ N \subseteq fewer
    BY <1>0, <2>1, SumsNarrow
  <2>4. Fits(rule, o, fewer) = {M}
    BY <1>1, <1>6, <2>1, <2>3 DEF Fits
  <2> QED BY <1>2, <1>6, <2>2, <2>4 DEF Refuses
<1> QED BY <1>0, <1>3, <1>4, <1>5, <1>6 DEF Kinds, ReferenceKinds

\* With nothing to choose from there is nothing to offer and nothing to refuse.
LEMMA NothingOffered ==
  ASSUME NEW rule \in RuleType, NEW o
  PROVE  Fits(rule, o, {}) = {} /\ ~Refuses(rule, o, {})
<1>0. rule.kind \in Kinds /\ rule.members \in Nat /\ rule.candidates \in Nat
  BY DEF RuleType
<1>1. Fits(rule, o, {}) = {}
  BY <1>0, FitsAreFree
<1>2. Bucket(rule, o, {}) = {} /\ ShareGroups(rule, o, {}) = {}
  BY DEF Bucket, ShareGroups, SumPool
<1> QED BY <1>0, <1>1, <1>2, FS_EmptySet DEF Refuses, Crowded

(***************************************************************************)
(* The decisions that stand: what a rule leaves it would leave again, and  *)
(* what it claims it would claim again, of any of the records that nothing *)
(* has claimed or refused since.                                           *)
(***************************************************************************)
Unclaimed(s) == open[s] \cup Leftover(s)

\* Rule i has come to record o, or the run ended before it did.
Passed(i, o) == pc = "done" \/ i < ruleNo \/ (i = ruleNo /\ pc = "records" /\ o \notin todo)

Leaves(rule, o, free)   == Fits(rule, o, free) = {} /\ ~Refuses(rule, o, free)
Takes(rule, o, free, M) == Fits(rule, o, free) = {M} /\ ~Refuses(rule, o, free)

MissesStand ==
  \A i \in DOMAIN rules : \A rule \in {rules[i]} : \A o \in Unclaimed(One(rule)) :
    Passed(i, o) => \A free \in SUBSET Unclaimed(Many(rule)) : Leaves(rule, o, free)

ClaimsStand ==
  \A p \in pairs : \A rule \in {rules[p.rule]} : \A M \in {p[Many(rule)]} : \A o \in p[One(rule)] :
    \A free \in SUBSET (M \cup Unclaimed(Many(rule))) : M \subseteq free => Takes(rule, o, free, M)

Standing == MissesStand /\ ClaimsStand

LEMMA SameRowsSameRules ==
  ASSUME rows' = rows
  PROVE  /\ \A rule, o, free : Leaves(rule, o, free)' = Leaves(rule, o, free)
         /\ \A rule, o, free, M : Takes(rule, o, free, M)' = Takes(rule, o, free, M)
<1>1. ASSUME NEW rule, NEW o, NEW free
      PROVE  /\ Fits(rule, o, free)' = Fits(rule, o, free)
             /\ Refuses(rule, o, free)' = Refuses(rule, o, free)
  <2>1. /\ Bucket(rule, o, free)' = Bucket(rule, o, free)
        /\ FuzzyCandidates(rule, o, free)' = FuzzyCandidates(rule, o, free)
    BY DEF Bucket, FuzzyCandidates, LeftOf, RightOf
  <2>2. SumPool(rule, o, free)' = SumPool(rule, o, free)
    BY DEF SumPool, LeftOf, RightOf
  <2>3. ShareGroups(rule, o, free)' = ShareGroups(rule, o, free)
    BY <2>2 DEF ShareGroups
  <2>4. Crowded(rule, o, free)' = Crowded(rule, o, free)
    BY <2>3 DEF Crowded
  <2>5. SumFits(rule, o, free)' = SumFits(rule, o, free)
    BY <2>3 DEF SumFits
  <2>6. Fits(rule, o, free)' = Fits(rule, o, free)
    BY <2>1, <2>5 DEF Fits
  <2> QED BY <2>1, <2>4, <2>6 DEF Refuses
<1>2. ASSUME NEW rule, NEW o, NEW free, NEW M
      PROVE  /\ Leaves(rule, o, free)' = Leaves(rule, o, free)
             /\ Takes(rule, o, free, M)' = Takes(rule, o, free, M)
  BY <1>1 DEF Leaves, Takes
<1> QED BY <1>2

\* Standing claims and misses imply the property, once nothing is open.
LEMMA StandingIsEnough == Shaped /\ Standing => VerdictsStand
<1> SUFFICES ASSUME Shaped, Standing, pc = "done" PROVE VerdictsStand
  BY DEF VerdictsStand
<1>1. \A s \in Sides : open[s] = {} /\ Unclaimed(s) = Leftover(s)
  BY DEF Shaped, RunShape, Unclaimed
<1>2. ASSUME NEW i \in DOMAIN rules, NEW o \in Leftover(One(rules[i]))
      PROVE  LET free == Leftover(Many(rules[i]))
             IN  Fits(rules[i], o, free) = {} /\ ~Refuses(rules[i], o, free)
  <2>1. Many(rules[i]) \in Sides /\ One(rules[i]) \in Sides
    BY RuleTypes DEF Shaped, TypeOK
  <2>2. Leaves(rules[i], o, Leftover(Many(rules[i])))
    BY <1>1, <2>1 DEF Standing, MissesStand, Passed
  <2> QED BY <2>2 DEF Leaves
<1>3. ASSUME NEW p \in pairs, NEW o \in p[One(rules[p.rule])]
      PROVE  LET rule    == rules[p.rule]
                 members == p[Many(rule)]
                 free    == members \cup Leftover(Many(rule))
             IN  Fits(rule, o, free) = {members} /\ ~Refuses(rule, o, free)
  <2> DEFINE rule == rules[p.rule]
             members == p[Many(rule)]
             free == members \cup Leftover(Many(rule))
  <2>1. p.rule \in DOMAIN rules
    BY DEF Shaped, TypeOK
  <2>2. Many(rule) \in Sides
    BY <2>1, RuleTypes DEF Shaped, TypeOK
  <2>3. Takes(rule, o, free, members)
    BY <1>1, <2>2 DEF Standing, ClaimsStand
  <2> QED BY <2>3 DEF Takes
<1> QED BY <1>2, <1>3 DEF VerdictsStand

\* A step that opens no record and comes to no new one keeps what stands.
LEMMA StandingKept ==
  ASSUME Shaped, Standing, rows' = rows, rules' = rules,
         \A s \in Sides : Unclaimed(s)' \subseteq Unclaimed(s)
  PROVE  /\ \A i \in DOMAIN rules : \A rule \in {rules[i]} : \A o \in Unclaimed(One(rule))' :
              Passed(i, o) => \A free \in SUBSET (Unclaimed(Many(rule))') : Leaves(rule, o, free)'
         /\ \A p \in pairs : \A rule \in {rules[p.rule]} : \A M \in {p[Many(rule)]} : \A o \in p[One(rule)] :
              \A free \in SUBSET (M \cup (Unclaimed(Many(rule))')) :
                M \subseteq free => Takes(rule, o, free, M)'
<1>1. /\ \A rule, o, free : Leaves(rule, o, free)' = Leaves(rule, o, free)
      /\ \A rule, o, free, M : Takes(rule, o, free, M)' = Takes(rule, o, free, M)
  BY SameRowsSameRules
<1>2. ASSUME NEW i \in DOMAIN rules, NEW rule \in {rules[i]}, NEW o \in Unclaimed(One(rule))', Passed(i, o),
             NEW free \in SUBSET (Unclaimed(Many(rule))')
      PROVE  Leaves(rule, o, free)'
  <2>1. Many(rule) \in Sides /\ One(rule) \in Sides
    BY RuleTypes DEF Shaped, TypeOK
  <2>2. o \in Unclaimed(One(rule)) /\ free \subseteq Unclaimed(Many(rule))
    BY <2>1
  <2>3. Leaves(rule, o, free)
    BY <1>2, <2>2 DEF Standing, MissesStand
  <2> QED BY <1>1, <2>3
<1>3. ASSUME NEW p \in pairs, NEW rule \in {rules[p.rule]}, NEW M \in {p[Many(rule)]}, NEW o \in p[One(rule)],
             NEW free \in SUBSET (M \cup (Unclaimed(Many(rule))')), M \subseteq free
      PROVE  Takes(rule, o, free, M)'
  <2>1. p.rule \in DOMAIN rules
    BY DEF Shaped, TypeOK
  <2>2. Many(rule) \in Sides
    BY <2>1, RuleTypes DEF Shaped, TypeOK
  <2>3. free \subseteq M \cup Unclaimed(Many(rule))
    BY <2>2
  <2>4. Takes(rule, o, free, M)
    BY <1>3, <2>3 DEF Standing, ClaimsStand
  <2> QED BY <1>1, <2>4
<1> QED BY <1>2, <1>3

LEMMA OpenIsFinite ==
  ASSUME Shaped, NEW s \in Sides
  PROVE  open[s] \in SUBSET Nat /\ IsFiniteSet(open[s])
<1>1. open[s] \subseteq Ids(s) /\ Ids(s) \subseteq Nat
  BY CountAssumption DEF Shaped, RunShape, Ids, LeftIds, RightIds
<1>2. IsFiniteSet(Ids(s))
  BY CountAssumption, FS_Interval DEF Ids, LeftIds, RightIds
<1> QED BY <1>1, <1>2, FS_Subset

LEMMA NothingReportedYet ==
  ASSUME Shaped, pc # "done", NEW s \in Sides
  PROVE  Unclaimed(s) = open[s]
  BY DEF Shaped, RunShape, Unclaimed, Leftover

\* Steps that make no claim and come to no record keep what stands.
LEMMA QuietStanding ==
  ASSUME Shaped, Standing, rows' = rows, rules' = rules, pairs' = pairs,
         \A s \in Sides : Unclaimed(s)' \subseteq Unclaimed(s),
         \A i \in DOMAIN rules : \A s \in {One(rules[i])} : \A o \in Unclaimed(s)' :
           Passed(i, o)' => Passed(i, o)
  PROVE  Standing'
<1>1. MissesStand'
  BY StandingKept DEF MissesStand
<1>2. ClaimsStand'
  BY StandingKept DEF ClaimsStand
<1> QED BY <1>1, <1>2 DEF Standing

LEMMA BeginRuleStanding == ASSUME Shaped, Standing, BeginRule PROVE Standing'
<1>1. /\ pc = "rules" /\ pc' = "records" /\ todo' = open[One(Rule)]
      /\ UNCHANGED <<rules, rows, ruleNo, open, pairs, missed, unread>>
  BY DEF BeginRule
<1>2. \A s \in Sides : Unclaimed(s)' = Unclaimed(s) /\ Unclaimed(s) = open[s]
  BY <1>1, NothingReportedYet DEF Unclaimed, Leftover
<1>3. ASSUME NEW i \in DOMAIN rules, NEW s \in {One(rules[i])}, NEW o \in Unclaimed(s)', Passed(i, o)'
      PROVE  Passed(i, o)
  <2>1. s \in Sides
    BY RuleTypes DEF Shaped, TypeOK
  <2>2. o \in open[s]
    BY <1>2, <2>1
  <2> QED BY <1>1, <1>3, <2>2 DEF Passed, Rule
<1> QED BY <1>1, <1>2, <1>3, QuietStanding

LEMMA SetAsideStanding == ASSUME Shaped, Standing, NEW x, SetAside(x) PROVE Standing'
<1>1. /\ pc = "records" /\ x \in todo /\ todo' = todo \ {x}
      /\ open' = [open EXCEPT ![One(Rule)] = @ \ {x}]
      /\ UNCHANGED <<rules, rows, ruleNo, pairs, missed, unread, pc>>
      /\ ruleNo \in DOMAIN rules
  BY DEF SetAside, IsNext, Shaped, RunShape
<1>2. One(Rule) \in Sides /\ open \in [Sides -> SUBSET (LeftIds \cup RightIds)]
  BY <1>1, RuleTypes DEF Rule, Shaped, TypeOK
<1>3. \A s \in Sides : /\ Unclaimed(s) = open[s]
                       /\ Unclaimed(s)' = IF s = One(Rule) THEN open[s] \ {x} ELSE open[s]
  BY <1>1, <1>2, NothingReportedYet DEF Unclaimed, Leftover, Shaped, RunShape
<1>4. ASSUME NEW i \in DOMAIN rules, NEW s \in {One(rules[i])}, NEW o \in Unclaimed(s)', Passed(i, o)'
      PROVE  Passed(i, o)
  <2>1. s \in Sides
    BY RuleTypes DEF Shaped, TypeOK
  <2>2. i = ruleNo => o # x
    BY <1>3, <2>1 DEF Rule
  <2> QED BY <1>1, <1>4, <2>2 DEF Passed
<1> QED BY <1>1, <1>3, <1>4, QuietStanding

LEMMA EndRuleStanding == ASSUME Shaped, Standing, EndRule PROVE Standing'
<1>1. /\ pc = "records" /\ pc' = "rules" /\ todo = {} /\ ruleNo' = ruleNo + 1
      /\ UNCHANGED <<rules, rows, open, pairs, missed, unread>>
      /\ ruleNo \in DOMAIN rules
  BY DEF EndRule, Shaped, RunShape
<1>2. DOMAIN rules = 1..Len(rules) /\ Len(rules) \in Nat
  BY RuleRange DEF Shaped, TypeOK
<1>3. \A i \in DOMAIN rules : \A o : Passed(i, o)' => Passed(i, o)
  BY <1>1, <1>2 DEF Passed
<1>4. \A s \in Sides : Unclaimed(s)' = Unclaimed(s)
  BY <1>1 DEF Unclaimed, Leftover
<1> QED BY <1>1, <1>3, <1>4, QuietStanding

\* What a rule leaves it leaves for good.
LEMMA LeaveOpenStanding == ASSUME Shaped, Standing, NEW x, LeaveOpen(x) PROVE Standing'
<1>1. /\ pc = "records" /\ todo' = todo \ {x}
      /\ ~Refuses(Rule, x, Free) /\ Fits(Rule, x, Free) = {}
      /\ UNCHANGED <<rules, rows, ruleNo, open, pairs, missed, unread, pc>>
      /\ ruleNo \in DOMAIN rules
  BY DEF LeaveOpen, IsNext, Shaped, RunShape
<1>2. /\ Many(Rule) \in Sides /\ One(Rule) \in Sides /\ Rule \in RuleType
      /\ \A i \in DOMAIN rules : Many(rules[i]) \in Sides /\ One(rules[i]) \in Sides
  BY <1>1, RuleTypes, RulesAssumption DEF Rule, Shaped, TypeOK
<1>3. \A s \in Sides : Unclaimed(s) = open[s] /\ Unclaimed(s)' = Unclaimed(s)
  BY <1>1, NothingReportedYet DEF Unclaimed, Leftover
<1>4. \A free \in SUBSET open[Many(Rule)] : Leaves(Rule, x, free)
  BY <1>1, <1>2, OpenIsFinite, MissStands DEF Leaves, Free
<1>5. \A rule, o, free : Leaves(rule, o, free)' = Leaves(rule, o, free)
  BY <1>1, SameRowsSameRules
<1>6. MissesStand'
  <2> SUFFICES ASSUME NEW i \in DOMAIN rules, NEW rule \in {rules[i]}, NEW o \in Unclaimed(One(rule))',
                      Passed(i, o)', NEW free \in SUBSET (Unclaimed(Many(rule))')
               PROVE  Leaves(rule, o, free)'
    BY <1>1 DEF MissesStand
  <2>1. CASE Passed(i, o)
    BY <1>1, <1>3, <2>1, StandingKept
  <2>2. CASE ~Passed(i, o)
    <3>1. i = ruleNo /\ o = x
      BY <1>1, <2>2 DEF Passed
    <3>2. rule = Rule /\ free \in SUBSET open[Many(Rule)]
      BY <1>2, <1>3, <3>1 DEF Rule
    <3> QED BY <1>4, <1>5, <3>1, <3>2
  <2> QED BY <2>1, <2>2
<1>7. ClaimsStand'
  BY <1>1, <1>3, StandingKept DEF ClaimsStand
<1> QED BY <1>6, <1>7 DEF Standing

\* What a rule claims it would claim again, and no other.
LEMMA ClaimStanding == ASSUME Shaped, Standing, NEW x, Claim(x) PROVE Standing'
<1>1. /\ pc = "records" /\ x \in todo /\ todo' = todo \ {x} /\ ~Refuses(Rule, x, Free)
      /\ UNCHANGED <<rules, rows, ruleNo, missed, unread, pc>>
      /\ ruleNo \in DOMAIN rules
  BY DEF Claim, IsNext, Shaped, RunShape
<1>2. PICK M \in Fits(Rule, x, Free) :
        /\ pairs' = pairs \cup {PairOf(x, M)}
        /\ open' = [s \in Sides |-> open[s] \ (IF s = One(Rule) THEN {x} ELSE M)]
  BY DEF Claim
<1>3. /\ Many(Rule) \in Sides /\ One(Rule) \in Sides /\ One(Rule) # Many(Rule)
      /\ Rule.kind \in Kinds /\ Rule.members \in Nat /\ Rule \in RuleType
      /\ \A i \in DOMAIN rules : Many(rules[i]) \in Sides /\ One(rules[i]) \in Sides
  BY <1>1, RuleTypes, RulesAssumption DEF Rule, Shaped, TypeOK
<1>4. \A s \in Sides : /\ Unclaimed(s) = open[s]
                       /\ Unclaimed(s)' = open[s] \ (IF s = One(Rule) THEN {x} ELSE M)
  BY <1>1, <1>2, NothingReportedYet DEF Unclaimed, Leftover, Shaped, RunShape
<1>5. M \subseteq open[Many(Rule)]
  BY <1>3, FitsAreFree DEF Free
<1>6. \A free \in SUBSET open[Many(Rule)] : M \subseteq free => Takes(Rule, x, free, M)
  BY <1>1, <1>3, OpenIsFinite, ClaimStands DEF Takes, Free
<1>7. \A rule, o, free, N : Takes(rule, o, free, N)' = Takes(rule, o, free, N)
  BY <1>1, SameRowsSameRules
<1>8. MissesStand'
  <2> SUFFICES ASSUME NEW i \in DOMAIN rules, NEW rule \in {rules[i]}, NEW o \in Unclaimed(One(rule))',
                      Passed(i, o)', NEW free \in SUBSET (Unclaimed(Many(rule))')
               PROVE  Leaves(rule, o, free)'
    BY <1>1 DEF MissesStand
  <2>1. i = ruleNo => o # x
    BY <1>3, <1>4 DEF Rule
  <2>2. Passed(i, o)
    BY <1>1, <2>1 DEF Passed
  <2> QED BY <1>1, <1>4, <2>2, StandingKept
<1>9. ClaimsStand'
  <2> SUFFICES ASSUME NEW p \in pairs', NEW rule \in {rules[p.rule]}, NEW N \in {p[Many(rule)]},
                      NEW o \in p[One(rule)],
                      NEW free \in SUBSET (N \cup (Unclaimed(Many(rule))')), N \subseteq free
               PROVE  Takes(rule, o, free, N)'
    BY <1>1 DEF ClaimsStand
  <2>1. CASE p \in pairs
    BY <1>1, <1>4, <2>1, StandingKept
  <2>2. CASE p = PairOf(x, M)
    <3>1. /\ p.rule = ruleNo /\ rule = Rule
      BY <2>2 DEF PairOf, Rule
    <3>2. p[One(Rule)] = {x} /\ p[Many(Rule)] = M
      BY <1>3, <2>2 DEF PairOf, Sides
    <3>3. o = x /\ N = M /\ free \subseteq open[Many(Rule)]
      BY <1>3, <1>4, <1>5, <3>1, <3>2
    <3> QED BY <1>6, <1>7, <3>1, <3>3
  <2> QED BY <1>2, <2>1, <2>2
<1> QED BY <1>8, <1>9 DEF Standing

\* A side used up ends the rules early: there is nothing left to offer.
LEMMA SettleStanding == ASSUME Shaped, Standing, Settle PROVE Standing'
<1>1. /\ pc = "rules"
      /\ ruleNo > Len(rules) \/ open["left"] = {} \/ open["right"] = {}
      /\ UNCHANGED <<rules, rows, ruleNo, pairs>>
  BY DEF Settle
<1>2. \A s \in Sides : Unclaimed(s) = open[s] /\ Unclaimed(s)' = open[s]
  <2>1. \A s \in Sides : Unread(s) \subseteq open[s]
    BY DEF Unread
  <2> QED BY <1>1, <2>1, NothingReportedYet DEF Settle, Unclaimed, Leftover
<1>3. DOMAIN rules = 1..Len(rules) /\ Len(rules) \in Nat /\ ruleNo \in Nat
  BY RuleRange DEF Shaped, TypeOK
<1>4. \A rule, o, free : Leaves(rule, o, free)' = Leaves(rule, o, free)
  BY <1>1, SameRowsSameRules
<1>5. MissesStand'
  <2> SUFFICES ASSUME NEW i \in DOMAIN rules, NEW rule \in {rules[i]}, NEW o \in Unclaimed(One(rule))',
                      NEW free \in SUBSET (Unclaimed(Many(rule))')
               PROVE  Leaves(rule, o, free)'
    BY <1>1 DEF MissesStand
  <2>1. /\ Many(rule) \in Sides /\ One(rule) \in Sides /\ One(rule) # Many(rule)
        /\ rule \in RuleType
    BY RuleTypes, RulesAssumption DEF Shaped, TypeOK
  <2>2. CASE ruleNo > Len(rules)
    <3>1. Passed(i, o)
      BY <1>3, <2>2 DEF Passed
    <3> QED BY <1>1, <1>2, <3>1, StandingKept
  <2>3. CASE open["left"] = {} \/ open["right"] = {}
    <3>1. free = {}
      BY <1>2, <2>1, <2>3 DEF Sides
    <3> QED BY <1>4, <2>1, <3>1, NothingOffered DEF Leaves
  <2> QED BY <1>1, <2>2, <2>3
<1>6. ClaimsStand'
  BY <1>1, <1>2, StandingKept DEF ClaimsStand
<1> QED BY <1>5, <1>6 DEF Standing

LEMMA StepStanding == Shaped /\ Standing /\ [Next]_vars => Standing'
<1> SUFFICES ASSUME Shaped, Standing, [Next]_vars PROVE Standing'
  OBVIOUS
<1>1. ASSUME UNCHANGED vars PROVE Standing'
  <2>1. UNCHANGED <<rules, rows, ruleNo, open, pairs, missed, unread, pc, todo>>
    BY <1>1 DEF vars
  <2>2. \A s \in Sides : Unclaimed(s)' = Unclaimed(s)
    BY <2>1 DEF Unclaimed, Leftover
  <2>3. \A i, o : Passed(i, o)' = Passed(i, o)
    BY <2>1 DEF Passed
  <2> QED BY <2>1, <2>2, <2>3, QuietStanding
<1> QED BY <1>1, BeginRuleStanding, ClaimStanding, SetAsideStanding, LeaveOpenStanding,
           EndRuleStanding, SettleStanding DEF Next, JudgeRecord

LEMMA InitStanding == Init => Standing
<1> SUFFICES ASSUME Init PROVE Standing
  OBVIOUS
<1>1. pairs = {} /\ ruleNo = 1 /\ pc = "rules" /\ rules \in Declarations
  BY DEF Init, Declarations
<1>2. \A i \in DOMAIN rules : \A o : ~Passed(i, o)
  BY <1>1, RuleRange DEF Passed
<1> QED BY <1>1, <1>2 DEF Standing, MissesStand, ClaimsStand

(***************************************************************************)
(* Whatever the declaration and the records, every decision of a match     *)
(* stands at its end: a record left over fits no other that is left over,  *)
(* and a pair is the only one its rule would have made of its members and  *)
(* of what is left.                                                        *)
(***************************************************************************)
THEOREM DecisionsStand == Spec => []VerdictsStand
<1>1. Init => Shaped /\ Standing
  BY EngineInit, InitStanding DEF Shaped
<1> QED BY <1>1, StepShaped, StepStanding, StandingIsEnough, PTL DEF Spec

(***************************************************************************)
(* Of two records that share a reference one at least was judged before    *)
(* the rule that joins on it was through with them.                        *)
(***************************************************************************)
JudgedBy(i, l, r) ==
  \/ \E p \in pairs : p.rule <= i /\ (l \in p.left \/ r \in p.right)
  \/ \E a \in ambiguous : a.rule < i /\ <<a.side, a.rec>> \in {<<"left", l>>, <<"right", r>>}

Joins(i, l, r) == rules[i].kind = "exact" /\ SameRef(rows.left[l], rows.right[r])

ReferenceFirst ==
  \A i \in DOMAIN rules : \A l \in LeftIds, r \in RightIds :
    Joins(i, l, r) /\ Passed(i, l) => JudgedBy(i, l, r)

\* No decision is dated after the rule being applied, and an ExactRef refuses
\* nothing.
RuleOrder ==
  /\ \A p \in pairs : p.rule <= ruleNo /\ (pc = "rules" => p.rule < ruleNo)
  /\ \A a \in ambiguous :
       /\ a.rule <= ruleNo /\ (pc = "rules" => a.rule < ruleNo)
       /\ rules[a.rule].kind # "exact"

Referred == RuleOrder /\ ReferenceFirst

LEMMA RuleNumbers ==
  ASSUME Shaped
  PROVE  /\ DOMAIN rules = 1..Len(rules) /\ Len(rules) \in Nat /\ ruleNo \in Nat
         /\ \A p \in pairs : p.rule \in DOMAIN rules /\ p.rule \in Nat
         /\ \A a \in ambiguous : a.rule \in DOMAIN rules /\ a.rule \in Nat
  BY RuleRange DEF Shaped, TypeOK

LEMMA ExactSides ==
  ASSUME Shaped, NEW i \in DOMAIN rules, rules[i].kind = "exact"
  PROVE  One(rules[i]) = "left" /\ Many(rules[i]) = "right"
<1>1. rules[i].many = "right"
  BY RulesAssumption DEF Shaped, TypeOK
<1> QED BY <1>1 DEF One, Many, Other

LEMMA ExactNeverRefuses ==
  ASSUME NEW rule \in RuleType, rule.kind = "exact", NEW o, NEW free \in SUBSET Nat
  PROVE  ~Refuses(rule, o, free)
<1>1. CASE Fits(rule, o, free) = {}
  BY <1>1, FS_EmptySet DEF Refuses
<1>2. CASE Fits(rule, o, free) # {}
  <2>1. PICK M : Fits(rule, o, free) = {M}
    BY <1>2, BucketFits DEF ReferenceKinds
  <2>2. Cardinality(Fits(rule, o, free)) = 1
    BY <2>1, FS_Singleton
  <2> QED BY <2>2 DEF Refuses
<1> QED BY <1>1, <1>2

\* Whatever is not open has been claimed or set aside.
LEMMA JudgedIsRecorded ==
  ASSUME IInv, pc # "done", NEW s \in Sides, NEW x \in Ids(s), x \notin open[s]
  PROVE  \/ \E p \in pairs : x \in p[s]
         \/ \E a \in ambiguous : a.side = s /\ a.rec = x
<1>1. Ids(s) = Verdicts!Ids(s) /\ s \in Verdicts!Sides
  BY DEF Ids, Verdicts!Ids, Sides, Verdicts!Sides
<1>a. Verdicts!JudgedOnce
  BY DEF IInv, Verdicts!Inv
<1>b. Verdicts!Ids(s) = open[s] \cup Verdicts!Claimed(s) \cup [t \in Sides |-> Aside(t)][s]
                          \cup missed[s] \cup unread[s]
  BY <1>a, <1>1 DEF Verdicts!JudgedOnce
<1>2. x \in Verdicts!Claimed(s) \/ x \in [t \in Sides |-> Aside(t)][s] \/ x \in missed[s] \/ x \in unread[s]
  BY <1>1, <1>b
<1>3. x \in Verdicts!Claimed(s) \/ x \in Aside(s)
  BY <1>2 DEF IInv, RunShape
<1>4. CASE x \in Verdicts!Claimed(s)
  <2>1. PICK p \in pairs : x \in [left |-> p.left, right |-> p.right][s]
    BY <1>4 DEF Verdicts!Claimed
  <2>2. x \in p[s]
    BY <2>1 DEF Sides
  <2> QED BY <2>2
<1>5. CASE x \in Aside(s)
  BY <1>5 DEF Aside
<1> QED BY <1>3, <1>4, <1>5

\* A pair of records of which one is not open was judged by an earlier rule than
\* an ExactRef being applied, or by that rule's own claims.
LEMMA ClosedIsJudged ==
  ASSUME IInv, RuleOrder, pc # "done", NEW i \in DOMAIN rules, rules[i].kind = "exact", ruleNo <= i,
         NEW l \in LeftIds, NEW r \in RightIds, l \notin open["left"] \/ r \notin open["right"]
  PROVE  JudgedBy(i, l, r)
<1>0. Shaped
  BY DEF IInv, Shaped
<1>1. \/ \E p \in pairs : l \in p["left"] \/ r \in p["right"]
      \/ \E a \in ambiguous : <<a.side, a.rec>> \in {<<"left", l>>, <<"right", r>>}
  BY JudgedIsRecorded DEF Sides, Ids
<1>2. \A p \in pairs : p.rule <= i
  BY <1>0, RuleNumbers DEF RuleOrder
<1>3. \A a \in ambiguous : a.rule < i
  BY <1>0, RuleNumbers DEF RuleOrder
<1> QED BY <1>1, <1>2, <1>3 DEF JudgedBy

LEMMA JudgedStays ==
  ASSUME pairs \subseteq pairs', ambiguous \subseteq ambiguous', NEW i, NEW l, NEW r, JudgedBy(i, l, r)
  PROVE  JudgedBy(i, l, r)'
  BY DEF JudgedBy

\* A step that comes to no new record of an ExactRef's left side.
LEMMA ReferenceKept ==
  ASSUME ReferenceFirst, rules' = rules, rows' = rows,
         pairs \subseteq pairs', ambiguous \subseteq ambiguous',
         \A i \in DOMAIN rules : \A l \in LeftIds, r \in RightIds :
           Joins(i, l, r) /\ Passed(i, l)' /\ ~Passed(i, l) => JudgedBy(i, l, r)'
  PROVE  ReferenceFirst'
<1> SUFFICES ASSUME NEW i \in DOMAIN rules, NEW l \in LeftIds, NEW r \in RightIds,
                    Joins(i, l, r)', Passed(i, l)'
             PROVE  JudgedBy(i, l, r)'
  BY DEF ReferenceFirst
<1>1. Joins(i, l, r)
  BY DEF Joins
<1>2. CASE Passed(i, l)
  BY <1>1, <1>2, JudgedStays DEF ReferenceFirst
<1>3. CASE ~Passed(i, l)
  BY <1>1, <1>3
<1> QED BY <1>2, <1>3

LEMMA BeginRuleReferred == ASSUME IInv, Referred, BeginRule PROVE Referred'
<1>0. Shaped /\ RuleOrder /\ ReferenceFirst
  BY DEF IInv, Shaped, Referred
<1>1. /\ pc = "rules" /\ pc' = "records" /\ todo' = open[One(Rule)] /\ ruleNo <= Len(rules)
      /\ UNCHANGED <<rules, rows, ruleNo, open, pairs, ambiguous>>
  BY DEF BeginRule
<1>2. RuleOrder'
  BY <1>0, <1>1 DEF RuleOrder
<1>3. ASSUME NEW i \in DOMAIN rules, NEW l \in LeftIds, NEW r \in RightIds,
             Joins(i, l, r), Passed(i, l)', ~Passed(i, l)
      PROVE  JudgedBy(i, l, r)'
  <2>1. i = ruleNo /\ l \notin open[One(Rule)]
    BY <1>1, <1>3 DEF Passed
  <2>2. rules[i].kind = "exact" /\ l \notin open["left"]
    BY <1>0, <1>3, <2>1, ExactSides DEF Joins, Rule
  <2>3. JudgedBy(i, l, r)
    BY <1>0, <1>1, <2>1, <2>2, ClosedIsJudged, RuleNumbers
  <2> QED BY <1>1, <2>3, JudgedStays
<1> QED BY <1>0, <1>1, <1>2, <1>3, ReferenceKept DEF Referred

LEMMA ClaimReferred == ASSUME IInv, Referred, NEW x, Claim(x) PROVE Referred'
<1>0. Shaped /\ RuleOrder /\ ReferenceFirst
  BY DEF IInv, Shaped, Referred
<1>1. /\ pc = "records" /\ todo' = todo \ {x} /\ ruleNo \in DOMAIN rules
      /\ UNCHANGED <<rules, rows, ruleNo, ambiguous, pc>>
  BY <1>0 DEF Claim, IsNext, Shaped, RunShape
<1>2. PICK M : pairs' = pairs \cup {PairOf(x, M)}
  BY DEF Claim
<1>3. PairOf(x, M).rule = ruleNo
  BY DEF PairOf
<1>4. RuleOrder'
  BY <1>0, <1>1, <1>2, <1>3, RuleNumbers DEF RuleOrder
<1>5. ASSUME NEW i \in DOMAIN rules, NEW l \in LeftIds, NEW r \in RightIds,
             Joins(i, l, r), Passed(i, l)', ~Passed(i, l)
      PROVE  JudgedBy(i, l, r)'
  <2>1. i = ruleNo /\ l = x
    BY <1>1, <1>5 DEF Passed
  <2>2. One(Rule) = "left"
    BY <1>0, <1>5, <2>1, ExactSides DEF Joins, Rule
  <2>3. l \in PairOf(x, M).left
    BY <2>1, <2>2 DEF PairOf
  <2>4. PairOf(x, M) \in pairs' /\ PairOf(x, M).rule <= i
    BY <1>0, <1>2, <1>3, <2>1, RuleNumbers
  <2> QED BY <2>3, <2>4 DEF JudgedBy
<1> QED BY <1>0, <1>1, <1>2, <1>4, <1>5, ReferenceKept DEF Referred

LEMMA SetAsideReferred == ASSUME IInv, Referred, NEW x, SetAside(x) PROVE Referred'
<1>0. Shaped /\ RuleOrder /\ ReferenceFirst
  BY DEF IInv, Shaped, Referred
<1> DEFINE a == [side |-> One(Rule), rec |-> x, rule |-> ruleNo]
<1>1. /\ pc = "records" /\ todo' = todo \ {x} /\ ruleNo \in DOMAIN rules
      /\ ambiguous' = ambiguous \cup {a} /\ Refuses(Rule, x, Free)
      /\ UNCHANGED <<rules, rows, ruleNo, pairs, pc>>
  BY <1>0 DEF SetAside, IsNext, Shaped, RunShape
<1>2. Rule.kind # "exact"
  <2>1. Rule \in RuleType /\ Many(Rule) \in Sides
    BY <1>0, <1>1, RuleTypes, RulesAssumption DEF Rule, Shaped, TypeOK
  <2> QED BY <1>0, <1>1, <2>1, OpenIsFinite, ExactNeverRefuses DEF Free
<1>3. a.rule = ruleNo
  OBVIOUS
<1> HIDE DEF a
<1>4. RuleOrder'
  BY <1>0, <1>1, <1>2, <1>3, RuleNumbers DEF RuleOrder, Rule
<1>5. ASSUME NEW i \in DOMAIN rules, NEW l \in LeftIds, NEW r \in RightIds,
             Joins(i, l, r), Passed(i, l)', ~Passed(i, l)
      PROVE  JudgedBy(i, l, r)'
  BY <1>1, <1>2, <1>5 DEF Passed, Joins, Rule
<1> QED BY <1>0, <1>1, <1>4, <1>5, ReferenceKept DEF Referred

LEMMA LeaveOpenReferred == ASSUME IInv, Referred, NEW x, LeaveOpen(x) PROVE Referred'
<1>0. Shaped /\ RuleOrder /\ ReferenceFirst
  BY DEF IInv, Shaped, Referred
<1>1. /\ pc = "records" /\ todo' = todo \ {x} /\ ruleNo \in DOMAIN rules
      /\ Fits(Rule, x, Free) = {}
      /\ UNCHANGED <<rules, rows, ruleNo, pairs, ambiguous, pc>>
  BY <1>0 DEF LeaveOpen, IsNext, Shaped, RunShape
<1>2. RuleOrder'
  BY <1>0, <1>1 DEF RuleOrder
<1>3. ASSUME NEW i \in DOMAIN rules, NEW l \in LeftIds, NEW r \in RightIds,
             Joins(i, l, r), Passed(i, l)', ~Passed(i, l)
      PROVE  JudgedBy(i, l, r)'
  <2>1. i = ruleNo /\ l = x /\ Rule = rules[i] /\ Rule.kind = "exact"
    BY <1>1, <1>3 DEF Passed, Joins, Rule
  <2>2. One(Rule) = "left" /\ Many(Rule) = "right" /\ Rule \in RuleType
    BY <1>0, <2>1, ExactSides, RulesAssumption DEF Shaped, TypeOK
  <2>3. Bucket(Rule, x, Free) = {}
    BY <1>0, <1>1, <2>1, <2>2, OpenIsFinite, BucketFits DEF Free, Sides, ReferenceKinds
  <2>4. r \notin open["right"]
    BY <1>3, <2>1, <2>2, <2>3 DEF Bucket, Joins, LeftOf, RightOf, Free
  <2>5. JudgedBy(i, l, r)
    BY <1>0, <1>1, <2>1, <2>4, ClosedIsJudged, RuleNumbers
  <2> QED BY <1>1, <2>5, JudgedStays
<1> QED BY <1>0, <1>1, <1>2, <1>3, ReferenceKept DEF Referred

LEMMA EndRuleReferred == ASSUME IInv, Referred, EndRule PROVE Referred'
<1>0. Shaped /\ RuleOrder /\ ReferenceFirst
  BY DEF IInv, Shaped, Referred
<1>1. /\ pc = "records" /\ pc' = "rules" /\ todo = {} /\ ruleNo' = ruleNo + 1
      /\ UNCHANGED <<rules, rows, pairs, ambiguous>>
  BY DEF EndRule
<1>2. RuleOrder'
  BY <1>0, <1>1, RuleNumbers DEF RuleOrder
<1>3. \A i \in DOMAIN rules : \A l : Passed(i, l)' => Passed(i, l)
  BY <1>0, <1>1, RuleNumbers DEF Passed
<1> QED BY <1>0, <1>1, <1>2, <1>3, ReferenceKept DEF Referred

LEMMA SettleReferred == ASSUME IInv, Referred, Settle PROVE Referred'
<1>0. Shaped /\ RuleOrder /\ ReferenceFirst
  BY DEF IInv, Shaped, Referred
<1>1. /\ pc = "rules" /\ pc' = "done"
      /\ ruleNo > Len(rules) \/ open["left"] = {} \/ open["right"] = {}
      /\ UNCHANGED <<rules, rows, ruleNo, pairs, ambiguous>>
  BY DEF Settle
<1>2. RuleOrder'
  BY <1>0, <1>1 DEF RuleOrder
<1>3. ASSUME NEW i \in DOMAIN rules, NEW l \in LeftIds, NEW r \in RightIds,
             Joins(i, l, r), Passed(i, l)', ~Passed(i, l)
      PROVE  JudgedBy(i, l, r)'
  <2>1. ruleNo <= i /\ rules[i].kind = "exact"
    BY <1>0, <1>3, RuleNumbers DEF Passed, Joins
  <2>2. open["left"] = {} \/ open["right"] = {}
    BY <1>0, <1>1, <2>1, RuleNumbers
  <2>3. JudgedBy(i, l, r)
    BY <1>0, <1>1, <2>1, <2>2, ClosedIsJudged
  <2> QED BY <1>1, <2>3, JudgedStays
<1> QED BY <1>0, <1>1, <1>2, <1>3, ReferenceKept DEF Referred

LEMMA StepReferred == IInv /\ Referred /\ [Next]_vars => Referred'
<1> SUFFICES ASSUME IInv, Referred, [Next]_vars PROVE Referred'
  OBVIOUS
<1>1. CASE UNCHANGED vars
  BY <1>1 DEF vars, Referred, RuleOrder, ReferenceFirst, Joins, Passed, JudgedBy
<1> QED BY <1>1, BeginRuleReferred, ClaimReferred, SetAsideReferred, LeaveOpenReferred,
           EndRuleReferred, SettleReferred DEF Next, JudgeRecord

LEMMA InitReferred == Init => Referred
<1> SUFFICES ASSUME Init PROVE Referred
  OBVIOUS
<1>1. pairs = {} /\ ambiguous = {} /\ ruleNo = 1 /\ pc = "rules" /\ rules \in Declarations
  BY DEF Init, Declarations
<1>2. \A i \in DOMAIN rules : \A o : ~Passed(i, o)
  BY <1>1, RuleRange DEF Passed
<1> QED BY <1>1, <1>2 DEF Referred, RuleOrder, ReferenceFirst

(***************************************************************************)
(* A reference outranks every later rule, in every declaration: of two     *)
(* records that share an ExactRef's key one at least was judged by that    *)
(* rule or by an earlier one.                                              *)
(***************************************************************************)
THEOREM ReferencesComeFirst == Spec => []ReferenceExhausted
<1>1. Referred => ReferenceExhausted
  BY DEF Referred, ReferenceFirst, Passed, Joins, JudgedBy, ReferenceExhausted
<1> QED BY <1>1, InitReferred, StepReferred, EngineIsSafe, PTL DEF Spec

-----------------------------------------------------------------------------
(***************************************************************************)
(* A finished match's report is true of every declaration: its rows are    *)
(* the records read, each once; a cut of them drops clean matches before   *)
(* breaks; a full rate hides no miss; a difference is of one currency.     *)
(***************************************************************************)

LEMMA IdsAreFinite == ASSUME NEW s \in Sides PROVE IsFiniteSet(Ids(s))
  BY CountAssumption, FS_Interval DEF Ids, LeftIds, RightIds

\* What the report reads of a finished match: every record in one bucket, and
\* claims that share no record.
Finished ==
  /\ \A s \in Sides : \A x \in Ids(s) :
       x \in Claimed(s) \/ x \in Aside(s) \/ x \in missed[s] \/ x \in unread[s]
  /\ \A s \in Sides :
       /\ Claimed(s) \cap (Aside(s) \cup missed[s] \cup unread[s]) = {}
       /\ Aside(s) \cap (missed[s] \cup unread[s]) = {}
       /\ missed[s] \cap unread[s] = {}
  /\ \A s \in Sides : missed[s] \subseteq Ids(s) /\ Claimed(s) \subseteq Ids(s)
  /\ \A p \in pairs : p.left # {} /\ p.right # {}
  /\ \A a \in ambiguous : a.side \in Sides

LEMMA SafeIsFinished == IInv /\ pc = "done" => Finished
<1> SUFFICES ASSUME IInv, pc = "done" PROVE Finished
  OBVIOUS
<1> DEFINE V(p) == [left |-> p.left, right |-> p.right]
           VP == {V(p) : p \in pairs}
<1>0. /\ Sides = Verdicts!Sides /\ \A s \in Sides : Ids(s) = Verdicts!Ids(s)
      /\ \A s \in Sides : open[s] = {} /\ [t \in Sides |-> Aside(t)][s] = Aside(s)
  BY DEF Ids, Verdicts!Ids, Sides, Verdicts!Sides, IInv, RunShape
<1>1. \A p : \A s \in Sides : V(p)[s] = p[s]
  BY DEF Sides
<1>2. \A s \in Sides : Verdicts!Claimed(s) = Claimed(s)
  <2> SUFFICES ASSUME NEW s \in Sides PROVE Verdicts!Claimed(s) = Claimed(s)
    OBVIOUS
  <2>1. Verdicts!Claimed(s) = UNION {q[s] : q \in VP}
    BY DEF Verdicts!Claimed
  <2>2. \A p \in pairs : V(p) \in VP /\ V(p)[s] = p[s]
    BY <1>1
  <2>3. \A q \in VP : \E p \in pairs : q[s] = p[s]
    BY <1>1
  <2> HIDE DEF V, VP
  <2> QED BY <2>1, <2>2, <2>3 DEF Claimed
<1>3. Verdicts!JudgedOnce /\ Verdicts!ClaimShape
  BY DEF IInv, Verdicts!Inv
<1>4. \A s \in Sides :
        /\ Ids(s) = open[s] \cup Claimed(s) \cup Aside(s) \cup missed[s] \cup unread[s]
        /\ Claimed(s) \cap (Aside(s) \cup missed[s] \cup unread[s]) = {}
        /\ Aside(s) \cap (missed[s] \cup unread[s]) = {}
        /\ missed[s] \cap unread[s] = {}
        /\ missed[s] \subseteq Ids(s) /\ Claimed(s) \subseteq Ids(s)
  BY <1>0, <1>2, <1>3 DEF Verdicts!JudgedOnce
<1>7. \A p \in pairs : p.left # {} /\ p.right # {}
  <2>1. \A q \in VP : q.left # {} /\ q.right # {}
    BY <1>3 DEF Verdicts!ClaimShape
  <2>2. \A p \in pairs : V(p) \in VP /\ V(p).left = p.left /\ V(p).right = p.right
    OBVIOUS
  <2> QED BY <2>1, <2>2
<1>8. \A a \in ambiguous : a.side \in Sides
  BY DEF IInv, TypeOK
<1> HIDE DEF V
<1> QED BY <1>0, <1>4, <1>7, <1>8 DEF Finished

(***************************************************************************)
(* Two claims share no record, whichever rules made them: a claim takes    *)
(* open records, and a claimed record is not open.                         *)
(***************************************************************************)
Disjoint == \A p, q \in pairs : p # q => \A s \in Sides : p[s] \cap q[s] = {}

LEMMA ClaimedIsClosed ==
  ASSUME IInv, NEW p \in pairs, NEW s \in Sides
  PROVE  p[s] \cap open[s] = {}
<1> DEFINE v == [left |-> p.left, right |-> p.right]
           VP == {[left |-> q.left, right |-> q.right] : q \in pairs}
<1>1. v \in VP /\ v[s] = p[s]
  BY DEF Sides
<1>2. Verdicts!Claimed(s) = UNION {q[s] : q \in VP}
  BY DEF Verdicts!Claimed
<1>3. open[s] \cap Verdicts!Claimed(s) = {}
  BY DEF IInv, Verdicts!Inv, Verdicts!JudgedOnce, Sides, Verdicts!Sides
<1> HIDE DEF v, VP
<1> QED BY <1>1, <1>2, <1>3

LEMMA StepDisjoint == IInv /\ Disjoint /\ [Next]_vars => Disjoint'
<1> SUFFICES ASSUME IInv, Disjoint, [Next]_vars PROVE Disjoint'
  OBVIOUS
<1>1. ASSUME NEW o, Claim(o) PROVE Disjoint'
  <2>1. PICK L \in SUBSET LeftIds, R \in SUBSET RightIds :
          /\ L \subseteq open["left"] /\ R \subseteq open["right"]
          /\ pairs' = pairs \cup {[left |-> L, right |-> R, rule |-> ruleNo]}
    BY <1>1, ClaimStep DEF IInv
  <2> DEFINE n == [left |-> L, right |-> R, rule |-> ruleNo]
  <2>2. \A s \in Sides : n[s] \subseteq open[s]
    BY <2>1 DEF Sides
  <2>3. \A p \in pairs : \A s \in Sides : p[s] \cap n[s] = {}
    BY <2>2, ClaimedIsClosed
  <2>4. pairs' = pairs \cup {n}
    BY <2>1
  <2> HIDE DEF n
  <2> QED BY <2>3, <2>4 DEF Disjoint
<1>2. CASE pairs' = pairs
  BY <1>2 DEF Disjoint
<1> QED BY <1>1, <1>2 DEF Next, JudgeRecord, BeginRule, SetAside, LeaveOpen, EndRule, Settle, vars

(***************************************************************************)
(* Every record read is in exactly one row.                                *)
(***************************************************************************)
LEMMA OneElement ==
  ASSUME NEW S, NEW f \in S, \A g \in S : g = f
  PROVE  Cardinality(S) = 1
<1>1. S = {f}
  OBVIOUS
<1> QED BY <1>1, FS_Singleton

\* The rows of a bucket that hold a record are that record's own row.
LEMMA BucketRow ==
  ASSUME NEW status, NEW s \in Sides, NEW x, NEW t \in Sides, NEW y, x \in RowOf(status, t, y)[s]
  PROVE  t = s /\ y = x
<1>1. \A st, L, R : Row(st, L, R)["left"] = L /\ Row(st, L, R)["right"] = R
  BY DEF Row
<1>2. RowOf(status, t, y)[s] = IF t = s THEN {y} ELSE {}
  BY <1>1 DEF RowOf, Sides
<1> QED BY <1>2

LEMMA RowHolds ==
  ASSUME NEW status, NEW s \in Sides, NEW x
  PROVE  x \in RowOf(status, s, x)[s]
<1>1. \A st, L, R : Row(st, L, R)["left"] = L /\ Row(st, L, R)["right"] = R
  BY DEF Row
<1> QED BY <1>1 DEF RowOf, Sides

LEMMA SingleRow ==
  ASSUME NEW records, NEW status
  PROVE  \A row : row \in SingleRows(records, status)
                   <=> \E s \in Sides : \E x \in records[s] : row = RowOf(status[s], s, x)
  BY DEF SingleRows

LEMMA RowsOfRecord ==
  ASSUME Finished, NEW s \in Sides, NEW x, NEW row \in Rows, x \in row[s]
  PROVE  \/ \E p \in pairs : x \in p[s] /\ row = Row(PairStatus(p), p.left, p.right)
         \/ x \in Aside(s)  /\ row = RowOf("ambiguous", s, x)
         \/ x \in missed[s] /\ row = RowOf(MissedStatus[s], s, x)
         \/ x \in unread[s] /\ row = RowOf(UnreadStatus[s], s, x)
<1>1. CASE row \in {Row(PairStatus(p), p.left, p.right) : p \in pairs}
  <2>1. PICK p \in pairs : row = Row(PairStatus(p), p.left, p.right)
    BY <1>1
  <2>2. row[s] = p[s]
    BY <2>1 DEF Row, Sides
  <2> QED BY <2>1, <2>2
<1>2. CASE row \in {RowOf("ambiguous", a.side, a.rec) : a \in ambiguous}
  <2>1. PICK a \in ambiguous : row = RowOf("ambiguous", a.side, a.rec)
    BY <1>2
  <2>2. a.side = s /\ a.rec = x
    BY <2>1, BucketRow DEF Finished
  <2> QED BY <2>1, <2>2 DEF Aside
<1>3. CASE row \in SingleRows(missed, MissedStatus)
  <2>1. PICK t \in Sides : \E y \in missed[t] : row = RowOf(MissedStatus[t], t, y)
    BY <1>3, SingleRow
  <2>2. PICK y \in missed[t] : row = RowOf(MissedStatus[t], t, y)
    BY <2>1
  <2>3. t = s /\ y = x
    BY <2>2, BucketRow
  <2> QED BY <2>2, <2>3
<1>4. CASE row \in SingleRows(unread, UnreadStatus)
  <2>1. PICK t \in Sides : \E y \in unread[t] : row = RowOf(UnreadStatus[t], t, y)
    BY <1>4, SingleRow
  <2>2. PICK y \in unread[t] : row = RowOf(UnreadStatus[t], t, y)
    BY <2>1
  <2>3. t = s /\ y = x
    BY <2>2, BucketRow
  <2> QED BY <2>2, <2>3
<1> QED BY <1>1, <1>2, <1>3, <1>4 DEF Rows

LEMMA RowOfEach ==
  ASSUME Finished, Disjoint, NEW s \in Sides, NEW x \in Ids(s)
  PROVE  Cardinality({row \in Rows : x \in row[s]}) = 1
<1> DEFINE S == {row \in Rows : x \in row[s]}
<1>1. CASE x \in Claimed(s)
  <2>1. PICK p \in pairs : x \in p[s]
    BY <1>1 DEF Claimed
  <2>2. Row(PairStatus(p), p.left, p.right) \in S
    BY <2>1 DEF Rows, Row, Sides
  <2>3. \A q \in pairs : x \in q[s] => q = p
    BY <2>1 DEF Disjoint
  <2>4. x \notin Aside(s) /\ x \notin missed[s] /\ x \notin unread[s]
    BY <1>1 DEF Finished
  <2>5. \A row \in S : row = Row(PairStatus(p), p.left, p.right)
    BY <2>3, <2>4, RowsOfRecord
  <2> QED BY <2>2, <2>5, OneElement
<1>2. CASE x \in Aside(s)
  <2>1. \E a \in ambiguous : a.side = s /\ a.rec = x
    BY <1>2 DEF Aside
  <2>2. RowOf("ambiguous", s, x) \in Rows
    BY <2>1 DEF Rows
  <2>3. x \notin Claimed(s) /\ x \notin missed[s] /\ x \notin unread[s]
    BY <1>2 DEF Finished
  <2>4. \A row \in S : row = RowOf("ambiguous", s, x)
    BY <2>3, RowsOfRecord DEF Claimed
  <2> QED BY <2>2, <2>4, OneElement, RowHolds
<1>3. CASE x \in missed[s]
  <2>1. RowOf(MissedStatus[s], s, x) \in Rows
    BY <1>3, SingleRow DEF Rows
  <2>2. x \notin Claimed(s) /\ x \notin Aside(s) /\ x \notin unread[s]
    BY <1>3 DEF Finished
  <2>3. \A row \in S : row = RowOf(MissedStatus[s], s, x)
    BY <2>2, RowsOfRecord DEF Claimed
  <2> QED BY <2>1, <2>3, OneElement, RowHolds
<1>4. CASE x \in unread[s]
  <2>1. RowOf(UnreadStatus[s], s, x) \in Rows
    BY <1>4, SingleRow DEF Rows
  <2>2. x \notin Claimed(s) /\ x \notin Aside(s) /\ x \notin missed[s]
    BY <1>4 DEF Finished
  <2>3. \A row \in S : row = RowOf(UnreadStatus[s], s, x)
    BY <2>2, RowsOfRecord DEF Claimed
  <2> QED BY <2>1, <2>3, OneElement, RowHolds
<1> QED BY <1>1, <1>2, <1>3, <1>4 DEF Finished

LEMMA RowsAreRecords == Finished /\ Disjoint => EveryRecordOnce
<1> SUFFICES ASSUME Finished, Disjoint PROVE EveryRecordOnce
  OBVIOUS
<1>1. \A x \in LeftIds : Cardinality({row \in Rows : x \in row["left"]}) = 1
  BY RowOfEach DEF Sides, Ids
<1>2. \A x \in RightIds : Cardinality({row \in Rows : x \in row["right"]}) = 1
  BY RowOfEach DEF Sides, Ids
<1> QED BY <1>1, <1>2 DEF EveryRecordOnce

(***************************************************************************)
(* A cut drops clean matches first: they alone have the last rank.         *)
(***************************************************************************)
Statuses == {PAIR_DISPLAY_ORDER[i] : i \in DOMAIN PAIR_DISPLAY_ORDER}

LEMMA RankOrders ==
  ASSUME NEW row, row.status \in Statuses
  PROVE  Rank(row) \in 1..8 /\ (Rank(row) = 8 <=> row.status = "matched")
<1>1. DOMAIN PAIR_DISPLAY_ORDER = 1..8
  BY DEF PAIR_DISPLAY_ORDER
<1>2. Rank(row) \in DOMAIN PAIR_DISPLAY_ORDER /\ PAIR_DISPLAY_ORDER[Rank(row)] = row.status
  BY DEF Rank, Statuses
<1>3. PAIR_DISPLAY_ORDER[8] = "matched" /\ \A i \in 1..7 : PAIR_DISPLAY_ORDER[i] # "matched"
  BY DEF PAIR_DISPLAY_ORDER
<1> QED BY <1>1, <1>2, <1>3

LEMMA RowStatuses == ASSUME NEW row \in Rows PROVE row.status \in Statuses
<1>1. Statuses = {"matched_discrepant", "unmatched_left", "unmatched_right", "ambiguous",
                  "matched_explained", "unverifiable_left", "unverifiable_right", "matched"}
  BY DEF Statuses, PAIR_DISPLAY_ORDER
<1>2. \A st, L, R : Row(st, L, R).status = st
  BY DEF Row
<1>3. \A st, s, x : RowOf(st, s, x).status = st
  BY <1>2 DEF RowOf
<1>4. CASE row \in {Row(PairStatus(p), p.left, p.right) : p \in pairs}
  BY <1>1, <1>2, <1>4 DEF PairStatus
<1>5. CASE row \in {RowOf("ambiguous", a.side, a.rec) : a \in ambiguous}
  BY <1>1, <1>3, <1>5
<1>6. CASE row \in SingleRows(missed, MissedStatus)
  BY <1>1, <1>3, <1>6, SingleRow DEF MissedStatus, Sides
<1>7. CASE row \in SingleRows(unread, UnreadStatus)
  BY <1>1, <1>3, <1>7, SingleRow DEF UnreadStatus, Sides
<1> QED BY <1>4, <1>5, <1>6, <1>7 DEF Rows

LEMMA CutsAreOrdered == CutsDropCleanMatches
<1> SUFFICES ASSUME NEW limit \in 0..Cardinality(Rows), NEW kept \in Trimmed(limit),
                    NEW row \in kept, row.status = "matched", NEW cut \in Rows \ kept
             PROVE  cut.status = "matched"
  BY DEF CutsDropCleanMatches
<1>1. kept \subseteq Rows /\ Rank(row) <= Rank(cut)
  BY DEF Trimmed, kSubset
<1>2. row.status \in Statuses /\ cut.status \in Statuses
  BY <1>1, RowStatuses
<1> QED BY <1>1, <1>2, RankOrders

(***************************************************************************)
(* A difference of two records is of one currency.                         *)
(***************************************************************************)
LEMMA DifferencesAreOneCurrency == Finished => DifferenceIsOneCurrency
<1> SUFFICES ASSUME Finished, NEW p \in pairs, Cardinality(p.left) = 1, Cardinality(p.right) = 1,
                    Difference(p) # None
             PROVE  Cardinality((Currencies(p, "left") \cup Currencies(p, "right")) \ {None}) <= 1
  BY DEF DifferenceIsOneCurrency
<1>1. ~CurrenciesDiffer(p)
  BY DEF Difference
<1>2. IsFiniteSet(p.left) /\ IsFiniteSet(p.right)
  <2>1. p.left \subseteq LeftIds /\ p.right \subseteq RightIds
    BY DEF Finished, Claimed, Sides, Ids
  <2> QED BY <2>1, IdsAreFinite, FS_Subset DEF Sides, Ids
<1>3a. PICK a : p.left = {a}
  BY <1>2, FS_Singleton
<1>3b. PICK b : p.right = {b}
  BY <1>2, FS_Singleton
<1>3. p["left"] = {a} /\ p["right"] = {b}
  BY <1>3a, <1>3b
<1> DEFINE cl == rows["left"][a].cur
           cr == rows["right"][b].cur
<1>4. Currencies(p, "left") = {cl} /\ Currencies(p, "right") = {cr}
  BY <1>3 DEF Currencies
<1> HIDE DEF cl, cr
<1>5. Currency(p, "left") = cl /\ Currency(p, "right") = cr
  BY <1>4, FS_Singleton DEF Currency
<1>6. cl = None \/ cr = None \/ cl = cr
  BY <1>1, <1>5 DEF CurrenciesDiffer
<1>7. \E S \in (SUBSET {cl}) \cup (SUBSET {cr}) :
        (Currencies(p, "left") \cup Currencies(p, "right")) \ {None} = S
  BY <1>4, <1>6
<1>8. \A c : IsFiniteSet({c}) /\ Cardinality({c}) = 1
  BY FS_Singleton
<1>9. ASSUME NEW c, NEW S \in SUBSET {c} PROVE Cardinality(S) <= 1
  <2>1. Cardinality(S) <= Cardinality({c})
    BY <1>8, FS_Subset
  <2> QED BY <1>8, <2>1
<1> QED BY <1>7, <1>9

(***************************************************************************)
(* A rate of one is of a match that missed nothing: rates are rounded to   *)
(* ten-thousandths, and no side reads enough records for one miss to       *)
(* round away.                                                             *)
(***************************************************************************)
LEMMA ClaimsAndMisses ==
  ASSUME Finished, Disjoint
  PROVE  /\ Cardinality(pairs) \in Nat /\ Cardinality(missed["left"]) \in Nat
         /\ IsFiniteSet(missed["left"])
         /\ Cardinality(pairs) + Cardinality(missed["left"]) <= NLeft
<1> DEFINE Taken == LeftIds \ missed["left"]
           f == [p \in pairs |-> CHOOSE x \in p.left : TRUE]
<1>1. missed["left"] \subseteq LeftIds /\ IsFiniteSet(LeftIds) /\ Cardinality(LeftIds) = NLeft
  BY CountAssumption, FS_Interval DEF Finished, Sides, Ids, LeftIds
<1>2. IsFiniteSet(missed["left"]) /\ IsFiniteSet(Taken)
  BY <1>1, FS_Subset
<1>3. Cardinality(Taken) = NLeft - Cardinality(missed["left"])
  <2>1. LeftIds \cap missed["left"] = missed["left"]
    BY <1>1
  <2> QED BY <1>1, <2>1, FS_Difference
<1>4. \A p \in pairs : f[p] \in p["left"]
  BY DEF Finished
<1>5. \A p \in pairs : p["left"] \subseteq Taken
  BY DEF Finished, Claimed, Sides, Ids
<1>6. f \in [pairs -> Taken]
  BY <1>4, <1>5
<1>7. \A p, q \in pairs : f[p] = f[q] => p = q
  BY <1>4 DEF Disjoint, Sides
<1>8. f \in Injection(pairs, Taken)
  BY <1>6, <1>7 DEF Injection, IsInjective
<1>9. IsFiniteSet(pairs) /\ Cardinality(pairs) <= Cardinality(Taken)
  BY <1>2, <1>8, FS_Injection
<1> QED BY <1>2, <1>3, <1>9, FS_CardinalityType, CountAssumption

LEMMA FullRatesAreFull == Finished /\ Disjoint => FullRateIsFull
<1> SUFFICES ASSUME Finished, Disjoint, MatchRate = 10000
             PROVE  missed["left"] = {} /\ \A s \in Sides : unread[s] = {}
  BY DEF FullRateIsFull
<1> DEFINE P == Cardinality(pairs)
           M == Cardinality(missed["left"])
           T == P + M
<1>1. /\ P \in Nat /\ M \in Nat /\ T <= 10000 /\ IsFiniteSet(missed["left"])
  BY ClaimsAndMisses, CountAssumption, ReportAssumption
<1>2. /\ unread["left"] = {} /\ unread["right"] = {}
      /\ T # 0 /\ (10000 * P + T \div 2) \div T = 10000
  BY ReportAssumption DEF MatchRate
<1> HIDE DEF P, M
<1>3. T \in Nat /\ T > 0
  BY <1>1, <1>2
<1>4. M = 0
  <2> DEFINE n == 10000 * P + T \div 2
  <2>1. n \in Nat /\ 2 * (T \div 2) <= T
    BY <1>1, <1>3
  <2>2. n >= 10000 * T
    <3>0. n \div T = 10000
      BY <1>2
    <3> HIDE DEF n, T
    <3>1. n = T * (n \div T) + (n % T) /\ (n % T) >= 0
      BY <1>3, <2>1
    <3> QED BY <1>3, <2>1, <3>0, <3>1
  <2> QED BY <1>1, <1>3, <2>1, <2>2
<1>5. missed["left"] = {}
  BY <1>1, <1>4, FS_EmptySet DEF M
<1> QED BY <1>2, <1>5 DEF Sides

(***************************************************************************)
(* What a finished match reports is true, for every declaration and every  *)
(* pair of record lists.                                                   *)
(***************************************************************************)
THEOREM ReportsAreTrue == ReportSpec => []RowsAreTrue
<1>1. ReportInit => Init /\ Disjoint
  <2>1. Init => pairs = {}
    BY DEF Init
  <2> QED BY <2>1 DEF ReportInit, Disjoint
<1>2. [Next /\ UNCHANGED declared]_<<vars, declared>> => [Next]_vars
  OBVIOUS
<1>3. IInv /\ Disjoint => RowsAreTrue
  BY SafeIsFinished, RowsAreRecords, CutsAreOrdered, FullRatesAreFull, DifferencesAreOneCurrency
     DEF RowsAreTrue
<1> QED BY <1>1, <1>2, <1>3, StepDisjoint, EngineIsSafe, PTL DEF ReportSpec, Spec
=============================================================================
