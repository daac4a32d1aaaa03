------------------------- MODULE ReconVerdictsProofs -------------------------
(***************************************************************************)
(* Every record is judged once, whatever the two sides hold.               *)
(***************************************************************************)
EXTENDS ReconVerdicts, TLAPS

(***************************************************************************)
(* The records two claims hold, once a claim is added.                     *)
(***************************************************************************)
LEMMA ClaimedGrows ==
  ASSUME NEW P, NEW p, NEW s
  PROVE  UNION {x[s] : x \in P \cup {p}} = (UNION {x[s] : x \in P}) \cup p[s]
  OBVIOUS

LEMMA InitInv == Init => Inv
  BY DEF Init, Inv, TypeOK, ClaimedOnce, JudgedOnce, ClaimShape, Claimed, Sides, Ids

LEMMA ClaimInv ==
  ASSUME Inv, NEW L \in SUBSET LeftIds, NEW R \in SUBSET RightIds, Claim(L, R)
  PROVE  Inv'
<1> DEFINE n == [left |-> L, right |-> R]
           N(s) == IF s = "left" THEN L ELSE R
<1>1. n \in Claims /\ \A s \in Sides : n[s] = N(s) /\ N(s) \subseteq open[s]
  BY DEF Claim, Claims, Sides
<1>2. /\ pairs' = pairs \cup {n}
      /\ open' = [s \in Sides |-> open[s] \ N(s)]
      /\ aside' = aside /\ missed' = missed /\ unread' = unread
  BY DEF Claim
<1>3. \A s \in Sides : Claimed(s)' = Claimed(s) \cup N(s)
  <2> TAKE s \in Sides
  <2>1. Claimed(s)' = Claimed(s) \cup n[s]
    BY <1>2, ClaimedGrows DEF Claimed
  <2> QED BY <2>1, <1>1
<1>4. TypeOK'
  BY <1>1, <1>2 DEF Inv, TypeOK, Sides
<1>5. ClaimedOnce'
  <2> SUFFICES ASSUME NEW p \in pairs', NEW q \in pairs', p # q, NEW s \in Sides
               PROVE  p[s] \cap q[s] = {}
    BY DEF ClaimedOnce
  <2>1. \A x \in pairs : x[s] \subseteq Claimed(s)
    BY DEF Claimed
  <2>2. Claimed(s) \cap n[s] = {}
    BY <1>1 DEF Inv, JudgedOnce
  <2>3. CASE p \in pairs /\ q \in pairs
    BY <2>3 DEF Inv, ClaimedOnce
  <2>4. CASE p = n \/ q = n
    BY <2>4, <2>1, <2>2, <1>2
  <2> QED BY <2>3, <2>4, <1>2
<1>6. JudgedOnce'
  BY <1>1, <1>2, <1>3 DEF Inv, JudgedOnce, TypeOK, Ids
<1>7. ClaimShape'
  BY <1>2 DEF Inv, ClaimShape, Claim
<1> QED BY <1>4, <1>5, <1>6, <1>7 DEF Inv

LEMMA SetAsideInv ==
  ASSUME Inv, NEW s \in Sides, NEW x \in Ids(s), SetAside(s, x)
  PROVE  Inv'
<1>1. /\ pairs' = pairs
      /\ \A t \in Sides : Claimed(t)' = Claimed(t)
  BY DEF SetAside, Claimed
<1>2. TypeOK'
  BY DEF Inv, TypeOK, SetAside, Ids
<1>3. JudgedOnce'
  BY <1>1 DEF Inv, TypeOK, JudgedOnce, SetAside, Ids
<1> QED BY <1>1, <1>2, <1>3 DEF Inv, ClaimedOnce, ClaimShape

LEMMA SettleInv == ASSUME Inv, Settle PROVE Inv'
<1>1. /\ pairs' = pairs /\ aside' = aside
      /\ \A t \in Sides : Claimed(t)' = Claimed(t)
  BY DEF Settle, Claimed
<1>2. TypeOK'
  BY DEF Inv, TypeOK, Settle
<1>3. JudgedOnce'
  BY <1>1 DEF Inv, TypeOK, JudgedOnce, Settle, Ids
<1> QED BY <1>1, <1>2, <1>3 DEF Inv, ClaimedOnce, ClaimShape

(***************************************************************************)
(* Every record of both sides is in exactly one bucket at every moment of  *)
(* a run, and in at most one claim.                                        *)
(***************************************************************************)
THEOREM VerdictsAreSafe == Spec => []Inv
<1>1. Inv /\ UNCHANGED vars => Inv'
  BY DEF Inv, TypeOK, ClaimedOnce, JudgedOnce, ClaimShape, Claimed, vars
<1>2. Inv /\ [Next]_vars => Inv'
  BY <1>1, ClaimInv, SetAsideInv, SettleInv DEF Next
<1> QED BY InitInv, <1>2, PTL DEF Spec
=============================================================================
