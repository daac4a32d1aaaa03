------------------------------ MODULE RateLimiter ------------------------------
(***************************************************************************)
(* The fixed-window limiter of apps/api/okwan_api/ratelimit.py: `take`     *)
(* counts a request against every rule it names, or against none, and      *)
(* sweeps its table when too many keys are in it.                          *)
(*                                                                         *)
(* A key is a rule's name and a subject (an address, a tenant).  Time is   *)
(* in whole units and is kept as ages: how long ago a window started, how  *)
(* long ago an attempt was allowed.  A take is atomic, as it awaits        *)
(* nothing and the API is one worker.                                      *)
(***************************************************************************)
EXTENDS Integers, FiniteSets, FiniteSetsExt, Functions

CONSTANTS
  Rules,     \* [rule name -> [limit, window]]
  Listed,    \* the names in _RULES, whose windows a sweep knows
  Longest,   \* the longest window of Rules
  Requests,  \* what may be asked: a set of keys, and a cost
  MaxKeys,   \* MAX_KEYS
  MaxAllowed \* bound on what one key is allowed in the longest window

Keys == UNION {q.checks : q \in Requests}

ASSUME LimiterAssumption ==
  /\ Longest \in Nat
  /\ \A n \in DOMAIN Rules : Rules[n].limit \in Nat \ {0} /\ Rules[n].window \in 1..Longest
  /\ Listed \subseteq DOMAIN Rules
  /\ \A q \in Requests :
       /\ \A k \in q.checks : k.rule \in DOMAIN Rules
       /\ q.cost \in Nat \ {0}
       /\ IsFiniteSet(q.checks) /\ Cardinality(q.checks) <= MaxKeys
       /\ \A k \in q.checks : q.cost <= Rules[k.rule].limit
  /\ MaxKeys \in Nat \ {0} /\ MaxAllowed \in Nat

VARIABLES
  hits,      \* [key -> [age, n]] for the keys in the table: _hits, age = now - start
  allowed,   \* history: [key -> [w -> the cost allowed in the last w units]]
  forgotten, \* history: [key -> [w -> what open counters held that sweeps dropped then]]
  halved     \* history: a sweep has dropped the older half of open, listed counters

limiterVars == <<hits, allowed, forgotten, halved>>

Limit(k)  == Rules[k.rule].limit
Window(k) == Rules[k.rule].window
Spans     == 0..Longest

LimiterInit ==
  /\ hits = [k \in {} |-> [age |-> 0, n |-> 0]]
  /\ allowed = [k \in Keys |-> [w \in Spans |-> 0]]
  /\ forgotten = [k \in Keys |-> [w \in Spans |-> 0]]
  /\ halved = FALSE

-----------------------------------------------------------------------------
(* take.                                                                     *)

\* The counter a check reads: a fresh one once the window is over.
Current(k) ==
  IF k \notin DOMAIN hits \/ hits[k].age >= Window(k)
  THEN [age |-> 0, n |-> 0]
  ELSE hits[k]

Refusing(q) == {k \in q.checks : Current(k).n + q.cost > Limit(k)}

ResetsIn(k) == Window(k) - Current(k).age

\* What a refusal answers, 0 for an attempt that is allowed.
Wait(q) == IF Refusing(q) = {} THEN 0 ELSE Max({ResetsIn(k) : k \in Refusing(q)})

\* Mutant: an attempt counts once whatever it costs.
CountedOnce(q) ==
  [k \in DOMAIN hits \cup q.checks |->
    IF k \in q.checks THEN [age |-> Current(k).age, n |-> Current(k).n + 1] ELSE hits[k]]

Counted(q) ==
  [k \in DOMAIN hits \cup q.checks |->
    IF k \in q.checks THEN [age |-> Current(k).age, n |-> Current(k).n + q.cost] ELSE hits[k]]

\* _sweep, first: counters whose window is over go, and so do those of a rule
\* _RULES does not list, whose window reads as 0.
Unexpired(table) ==
  {k \in DOMAIN table : k.rule \in Listed /\ table[k].age < Window(k)}

\* Then, if that is still too many, the older half, ties in table order (here
\* in any order).
Older(table, K) ==
  {D \in SUBSET K :
    /\ Cardinality(D) = Cardinality(K) \div 2
    /\ \A d \in D, k \in K \ D : table[d].age >= table[k].age}

\* The keys that may be left in the table.
Sweep(table) ==
  IF Cardinality(DOMAIN table) <= MaxKeys THEN {DOMAIN table}
  ELSE IF Cardinality(Unexpired(table)) <= MaxKeys THEN {Unexpired(table)}
  ELSE {Unexpired(table) \ D : D \in Older(table, Unexpired(table))}

\* What was counted of a key whose counter goes before its window is over.
Lost(table, K, k) ==
  IF k \in DOMAIN table \ K /\ table[k].age < Window(k) THEN table[k].n ELSE 0

Take(q) ==
  /\ \A k \in q.checks : allowed[k][Longest] + q.cost <= MaxAllowed
  /\ Wait(q) = 0
  /\ \E K \in Sweep(Counted(q)) :
       /\ hits' = Restrict(Counted(q), K)
       /\ forgotten' = [k \in Keys |-> [w \in Spans |->
            IF w > 0 THEN forgotten[k][w] + Lost(Counted(q), K, k) ELSE forgotten[k][w]]]
       /\ halved' = (halved \/ ~(Unexpired(Counted(q)) \subseteq K))
  /\ allowed' = [k \in Keys |-> [w \in Spans |->
       IF k \in q.checks /\ w > 0 THEN allowed[k][w] + q.cost ELSE allowed[k][w]]]

\* A refused attempt counts nowhere: `take` leaves everything as it was.  An age
\* beyond the longest window is no different from that window.
Elapse ==
  /\ hits' = [k \in DOMAIN hits |-> [age |-> Min({hits[k].age + 1, Longest}), n |-> hits[k].n]]
  /\ allowed' = [k \in Keys |-> [w \in Spans |-> IF w = 0 THEN 0 ELSE allowed[k][w - 1]]]
  /\ forgotten' = [k \in Keys |-> [w \in Spans |-> IF w = 0 THEN 0 ELSE forgotten[k][w - 1]]]
  /\ UNCHANGED halved

LimiterNext == Elapse \/ \E q \in Requests : Take(q)

LimiterSpec == LimiterInit /\ [][LimiterNext]_limiterVars

-----------------------------------------------------------------------------
\* What is in the table was allowed, and no more than the limit; the table
\* never holds more than MAX_KEYS counters.
TableIsSmall ==
  /\ DOMAIN hits \subseteq Keys
  /\ \A k \in DOMAIN hits : hits[k].age \in 0..Longest /\ hits[k].n \in 1..Limit(k)
  /\ Cardinality(DOMAIN hits) <= MaxKeys

\* A fixed window admits two limits, less one, back to back, and of what a
\* sweep forgets while its window is open as much again, and no more: so much at
\* most is a key allowed in any stretch as long as its window, also under a
\* flood that has the table swept over and over.
LimitsHold ==
  \A k \in Keys : allowed[k][Window(k)] <= 2 * Limit(k) - 1 + forgotten[k][Window(k)]

\* Of the rules _RULES lists a sweep forgets nothing while their open counters
\* fit the table.
ListedOutlastSweeps ==
  ~halved => \A k \in Keys : k.rule \in Listed => forgotten[k][Longest] = 0

\* "A client that backs off is not punished": keys that were allowed nothing
\* for a whole window refuse nothing.
QuietIsFree ==
  \A q \in Requests :
    (\A k \in q.checks : allowed[k][Window(k)] = 0) => Wait(q) = 0

\* Retry-After is enough: were nothing else asked, the same attempt would be
\* allowed once it has passed.
WaitSuffices ==
  \A q \in Requests : Wait(q) > 0 =>
    \A k \in q.checks :
      \/ Current(k).age + Wait(q) >= Window(k)
      \/ Current(k).n + q.cost <= Limit(k)

\* The limiter refuses enough and not too much: beyond the fixed-window bound a
\* key is allowed only what sweeps forgot of it, and of a listed rule they
\* forget nothing unless they halve the table; keys at rest refuse nothing; and
\* whoever waits as long as told is let through.
LimitsHoldAndLift ==
  TableIsSmall /\ LimitsHold /\ ListedOutlastSweeps /\ QuietIsFree /\ WaitSuffices
=============================================================================
