------------------------------- MODULE MCMachines -------------------------------
(***************************************************************************)
(* Eight small machines that share nothing, each in the executions of its  *)
(* own part, the others at rest: the history of runs, the fold across      *)
(* rails, the subset search, the count of bank days, a result's pages, the *)
(* HTTP client, the rate limiter, and the reuse of runs.                   *)
(*                                                                         *)
(* history: five runs, a history that keeps two, a pool of three.          *)
(* across: an order of 100, or of no stated total, on three rails, one of  *)
(* which groups ledger rows; payments at the total, at the edge of the     *)
(* tolerance, of half, in another currency, and without an amount.         *)
(* search: four amounts from -2 to 3 against small targets, one of them    *)
(* negative, as a payout of more refunds than sales is.                    *)
(* days: every day from November to January, and around the other bank     *)
(* holidays, of years in which they fall on every day of the week.         *)
(* pages: up to three rows, which upstream reorders, grows, and corrects.  *)
(* client: two callers, a burst of two, three ticks to a token, and two    *)
(* requests each, of two attempts.                                         *)
(* limiter: an address and a client under one request, each with its limit, *)
(* and a rule that _RULES does not list, over a table of two keys.         *)
(* reuse: three queries of two tenants and two reconciliations, over a     *)
(* cache of two runs, beside the saving of a credential.                   *)
(***************************************************************************)
EXTENDS RunHistory, AcrossFold, SubsetSearch, BankDays, ResultPages,
        OkwanClient, RateLimiter, RunReuse

CONSTANTS o1, a, b, t1, t2, s1, s2

VARIABLE part

-----------------------------------------------------------------------------
Paid(value, currency) == [amount |-> value, currency |-> currency]

TotalsDef   == {100, None}
PaymentsDef == {Paid(100, "USD"), Paid(99, "USD"), Paid(50, "USD"), Paid(100, "EUR"), Paid(None, "USD")}
RailsDef    == <<"stripe", "paypal", "square">>

AmountsDef == -2..3
TargetsDef == {-4, 0, 1, 3}

StartsDef ==
  {<<y, 12, d>> : y \in 2021..2027, d \in 22..31}
    \cup {<<y, m, d>> : y \in {2021, 2022, 2024, 2026, 2027}, m \in {2, 5, 11}, d \in {10, 20, 28}}
    \cup {<<y, m, 30>> : y \in {2021, 2022, 2023, 2026}, m \in {6, 8, 9}}
    \cup {<<2021, 6, 17>>, <<2022, 6, 17>>, <<2023, 1, 12>>, <<2026, 1, 15>>}
ReachDef   == {-1, 0, 5, 20}
OffsetsDef == {-8, 0, 9}

Row(id, verdict, detail) == [id |-> id, status |-> verdict, detail |-> detail]
ResultRowsDef == {Row(id, verdict, detail) : id \in 1..3, verdict \in {"matched", "unmatched"}, detail \in 1..2}
ResultsDef == {
  <<>>, <<Row(1, "matched", 1)>>, <<Row(1, "matched", 2), Row(2, "matched", 1)>>,
  <<Row(1, "matched", 1), Row(2, "unmatched", 1)>>,
  <<Row(2, "matched", 1), Row(1, "matched", 1), Row(3, "matched", 1)>>,
  <<Row(1, "matched", 1), Row(2, "matched", 1), Row(3, "matched", 1)>>,
  <<Row(1, "matched", 1), Row(2, "matched", 1), Row(3, "unmatched", 1)>>}

-----------------------------------------------------------------------------
BackoffDef == <<1>>

Key(rule, subject) == [rule |-> rule, subject |-> subject]
RulesDef == [address |-> [limit |-> 1, window |-> 2],
             ip |-> [limit |-> 2, window |-> 3],
             unlock |-> [limit |-> 1, window |-> 2]]
RequestsDef == {
  [checks |-> {Key("address", "x"), Key("ip", "1")}, cost |-> 1],
  [checks |-> {Key("ip", "1")}, cost |-> 2],
  [checks |-> {Key("address", "y")}, cost |-> 1],
  [checks |-> {Key("unlock", "x")}, cost |-> 1]}

JobOf(tenant, specs, fresh) == [tenant |-> tenant, specs |-> specs, fresh |-> fresh]
JobList == <<JobOf(t1, {s1}, FALSE), JobOf(t1, {s1, s2}, FALSE),
             JobOf(t2, {s1}, FALSE), JobOf(t1, {s2}, TRUE)>>
JobsDef == {JobList[i] : i \in DOMAIN JobList}

-----------------------------------------------------------------------------
\* Which jobs are asked together.
Together == {<<1, 1, 4>>, <<1, 3, 4>>, <<1, 2, 3>>}

-----------------------------------------------------------------------------
\* The fold at rest: an order whose ledger no rail has been read for.
AcrossRests ==
  /\ total = [o \in Orders |-> None]
  /\ took = [o \in Orders |-> Silent]
  /\ rail = 1
  /\ said = [o \in Orders |-> Silent]
  /\ outcome = None
\* The search at rest: nothing to find, and not begun.
SearchRests == amount = [x \in Ids |-> 0] /\ target = 3
\* The count at rest: of no days, on 1 January of year 1.
DaysRests == start = 1 /\ end = 1 /\ day = 1 /\ count = 0 /\ counted = FALSE
PagesRest == result = <<>>

MachinesInit ==
  /\ part \in {"history", "across", "search", "days", "pages", "client", "limiter", "reuse"}
  /\ HistoryInit /\ Init /\ LimiterInit
  /\ IF part = "across" THEN FoldInit ELSE AcrossRests
  /\ part # "search" => SearchRests
  /\ SearchInit
  /\ IF part = "days" THEN CountInit ELSE DaysRests
  /\ part # "pages" => PagesRest
  /\ PagesInit
  /\ \E js \in IF part = "reuse" THEN Together ELSE {<<1, 1, 1>>} :
       job = [q \in Queries |-> JobList[js[q]]]
  /\ ReuseInit

verdictVars == <<historyVars, foldVars, searchVars, dayVars, pageVars>>
limitVars   == <<vars, limiterVars, reuseVars>>

OfClient(A) == part = "client" /\ A /\ UNCHANGED <<part, verdictVars, limiterVars, reuseVars>>

MachinesNext ==
  \/ part = "history" /\ HistoryNext
     /\ UNCHANGED <<part, foldVars, searchVars, dayVars, pageVars, limitVars>>
  \/ part = "across" /\ FoldNext
     /\ UNCHANGED <<part, historyVars, searchVars, dayVars, pageVars, limitVars>>
  \/ part = "search" /\ SearchNext
     /\ UNCHANGED <<part, historyVars, foldVars, dayVars, pageVars, limitVars>>
  \/ part = "days" /\ CountNext
     /\ UNCHANGED <<part, historyVars, foldVars, searchVars, pageVars, limitVars>>
  \/ part = "pages" /\ PagesNext
     /\ UNCHANGED <<part, historyVars, foldVars, searchVars, dayVars, limitVars>>
  \/ OfClient(Next)
  \/ part = "limiter" /\ LimiterNext /\ UNCHANGED <<part, verdictVars, vars, reuseVars>>
  \/ part = "reuse" /\ ReuseNext /\ UNCHANGED <<part, verdictVars, vars, limiterVars>>

\* The fairness of OkwanClient's FairSpec; nothing else is promised to happen.
MachinesSpec ==
  /\ MachinesInit
  /\ [][MachinesNext]_<<part, verdictVars, limitVars>>
  /\ WF_vars(OfClient(Tick))
  /\ \A c \in Callers : WF_vars(OfClient(Step(c)))
=================================================================================
