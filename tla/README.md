# okwan in TLA+

okwan reads a merchant's systems (Stripe, PayPal, Square, Shopify, bank files, a
Postgres ledger) through typed connectors and reconciles them: every record of a
ledger against every record of the rails that collect for it. This directory
holds TLA+ modules translated from that code, TLC configurations that check them
on small instances, and proofs that TLAPS checks for every instance.

Line numbers are of the repository's files; `PROJECT.json` maps every definition
to the lines it models.

## 1. Inventory

| Component (source) | State | Operations | Hard behaviour | What makes it right |
|---|---|---|---|---|
| Match engine (`packages/recon/okwan_recon/engine.py`, `declaration.py`, `declarations.py`) | the two lists still open, pairs, ambiguities, misses, unverifiables | `match`: one rule after another, each through one list in order; then the report of it | verdicts depend on order; rules share leftovers; coverage decides what a miss means; figures of several currencies and signs | one verdict per record, no record claimed twice, misses mutual, claims no choice, a report that says so |
| Subset search (`engine.py` `_subsets_summing`) | the branch being walked, groups found | recursive depth-first search with a cut-off | negative amounts, stop at two | finds none, the one, or two |
| Coverage (`coverage.py`) | span, truncation | `reads` | open bounds, undated records | never "does not exist" for "was not read" |
| Business calendar (`calendar.py`) | none | holidays, business days, a timestamp's date | holidays on weekends and over New Year, time zones | T+n is n days the banks were open |
| Side fetch (`fetch.py`) and list handlers (`packages/connectors/*`) | rows, cursor, cap | page loop; nine list operations of five kinds | shrinking page size, arrivals mid-walk, filtered pages, empty slices, the cap | nothing read twice; coverage honest; ends |
| Fold across rails (`across.py`) | one verdict per rail and order | `run_across`, `fold`, `_decide`, `_classify_multi` | rails that cannot tell, missing amounts, currencies, tolerance | uncollected and collected-twice verdicts are true |
| Result paging (`paging.py`, its four surfaces) | a cursor with a fingerprint | `page_rows` | every page runs the reconciliation again | the pages are one result, each row once |
| Self-serve accounts (`apps/api/okwan_api/signup.py`, `packages/vault/okwan_vault/postgres.py`) | `signups`, `tenants`, `accounts`, `sessions` | signup, verify, sign in, reset, add login, delete tenant | statements of several transactions interleave; crash anywhere; row and advisory locks | never a tenant without owner or owner without tenant; token used once; sessions end with the password |
| Session timing (`accounts.py`, `postgres.py`) | last seen, expiry, operator until | use, sign out, unlock | idle clock moved at most once per touch, absolute limit | ends when it should, not before |
| Tenant tree and authorisation (`authz.py`, `admin.py`, `auth.py`) | parents, keys, credentials | guard, administration routes | walks the tree one read per await while tenants are deleted | let in exactly from above |
| Metering and quota (`usage.py`, `auth.py`) | hourly counters, plan | walk to the payer, check, work, meter | check then act, month boundary, plan changes, deletions | overrun only by what is in flight, held to whoever pays |
| Billing (`apps/api/okwan_api/billing.py`) | billing row, plan | checkout, webhook | events late, twice, out of order; two writes | plan follows the subscription |
| Run reuse (`recon_reuse.py`, `packages/query/okwan_query/session.py`, `rest.py`) | LRU cache of runs | plan, run, keep, save credential, forget | awaits between load, run, keep and forget | only own, recent runs, none kept from before a save |
| Run history (`postgres.py` `add_run`, `runs.py`) | rows per tenant, kind and name | insert and prune | concurrent prunes under read committed | newest kept, bounded |
| Rate limiter (`ratelimit.py`) | counter per rule and subject | `take`, `_sweep` | several checks, cost, sweeping open windows | what a key is allowed is bounded, waits suffice |
| HTTP client (`packages/core/okwan_core/client.py`) | token bucket, lock, attempts | `request`, `acquire` | sleep under a lock, retries, `Retry-After` | rate bounded, requests end |
| Imports and layouts (`imports.py`, `postgres.py`) | files, rows, layouts | upload, read, delete, sweep, save layout | expiry against sweep, duplicates, rows locked by other prunes, count then insert | one copy of a file, whole or not at all; expired data goes |
| File reading (`packages/connectors/files/okwan_files/`) | none | parse CSV, XLSX, OFX; card guard; mapping; preview | preambles, gaps, signs, grouped card numbers, overlapping statements | rows carry the file's figures under its row numbers; no card number is kept; a line keeps its id |
| Support assistant and operator console (`support.py`, `ops.py`, `mail.py`, `totp.py`) | conversations, tickets, the replay guard | message, tool rounds, escalate; unlock, reply, close | mail and store in separate awaits, concurrent messages, codes posted twice, restarts | opened by a code of its own; the correspondence is what happened |
| The two stores (`postgres.py`, `store.py`, `schema.sql`) | every table | every method of the protocol | one is SQL with cascades and upserts, the other dictionaries | alike to a caller |

How they interact: the API (one uvicorn worker, one event loop) resolves a
caller, limits it (rate limiter), gates it (quota), and runs a reconciliation:
`runner` fixes the window, `fetch_side` walks each side through a connector
whose HTTP client throttles and retries, `match` judges, `across.fold` combines
rails, `record_run` stores the outcome (run history), the SQL surface keeps it
for reuse and paging serves it. Files reach the rails through imports. Accounts
and billing decide who the tenant is and its plan. All durable state is in
Postgres (pool of five connections, read committed); tests run on the memory
store.

The properties this list calls for are the `hazards` of `PROJECT.json`, each at
its line.

## 2. Modules

### Reconciliation

* `ReconVerdicts` is the abstract promise: records leave `open` by a claim (one
  record against one or several), by being set aside, or at the end. Its `Inv`
  says that each record is in exactly one place and in at most one claim.
* `MatchEngine` is `match`. One action per loop event: `BeginRule`, then for the
  next record in list order `Claim`, `SetAside` or `LeaveOpen`, `EndRule`, and
  `Settle` (`_split_unread` on both sides). `Fits` is what a rule offers,
  `Refuses` when it will not choose; both are parameterised by the free records,
  so the properties can ask at the end what a rule would have done. Records
  carry only what rules compare, already normalised. The declaration is an input
  of `match`: `rules` is chosen from `Inputs` with the records it may be given.
  `Verdicts!Spec` (INSTANCE with a refinement mapping) is a property of it.
* `MatchReport` is what is computed from the result: differences
  (`_score_discrepancies`), explanations (`_explanation`), rows, a cut of them
  (`trimmed_rows`) and the match rate, as operators over the engine's variables.
  `trimmed_rows` sorts by status; rows of one status are left in any order.
* `ShippedDeclarations` holds the ten reconciliations of `declarations.py` as
  values, one definition each, the computed fields of the records they read, and
  `View`, which reduces a record to what the rules compare.
* `SubsetSearch` is the recursion of `_subsets_summing`: the branch is the set
  `chosen` and what its loop has left the set `rest` (the order of the walk is
  that of the amounts, `Precedes`); `MatchEngine.SumFits` uses what it is proved
  to find.
* `Coverage` is `coverage.py`, shared by the engine and the fetch.
* `BankDays` is `calendar.py`: a count of business days, one day a step, and the
  date a timestamp falls on in a zone (a fixed offset). Its reference, `Shut`,
  looks through the days of a month instead of computing one.
* `FetchSide` is `fetch_side` over five kinds of list operation, each translated
  from the connectors that page that way. Upstream may gain records mid-walk. A
  listing is a set of records in the order they were created, or the other way
  round, so a page is the part of it between two places (`Part`), and a walk
  past empty slices is the first slice at which the handler stops.
* `AcrossFold` takes each rail's answer nondeterministically but honestly (what
  `MatchEngine` can give) and models the fold to outcomes and the match rate.
* `ResultPages` is `page_rows` under the surfaces that call it: a client follows
  cursors while upstream changes the result between two pages.
* `FileReading` takes an upload (grids of abstract cells, or an OFX document) to
  stored rows: header and preamble, the card guard, the mapping and its signs,
  row numbers, and the ids of bank lines, for one upload and an overlapping one.
  Its reference for a figure is stated from the text alone (`Expected`): brackets,
  a dash before or after, DR or CR say which way money went, and a cell marked
  twice says so of its magnitude only.

### The service

* `Accounts`: a request is a handler or operator command whose SQL statements
  are actions. `tx` holds what an open transaction has read, locked, deleted and
  written; a statement that meets another's row waits (`FreeToken`,
  `FreeAccount`, `FreeTenant`); writes land at commit; `Crash` rolls back.
* `Billing`: Stripe (external) sends events with a snapshot and again until
  acknowledged, and perhaps after, in any order and several at once; the webhook's
  check, two writes and answer are separate actions, and it may fail between any
  two. The owner may pay a second checkout while the first subscription runs.
  Histories: `newest` is the newest event applied, `disordered` that older news
  was written over newer, `torn` that the record was last written beside another
  delivery's plan, or by one that died after another had acknowledged its event.
* `RunReuse`: a step is the code between two awaits. `Forget` is a separate step
  from `SaveCredential` because the store is awaited between them. The cache is a
  set of entries, each with its place in the order they were put, the time its run
  ended and the credential the run was read with.
* `RunHistory`: insert, prune, commit or abort of each transaction; the prune
  sees what was committed before it and its own row.
* `Imports`: uploads, deletions, the hourly sweep and layouts, statement by
  statement through the pool. A transaction's `takes` are the rows its DELETE
  holds, `inserted` the inserts of its own file; a statement that meets another's
  row waits, the unique index makes one insert wait for the other, and
  `FailDeadlocked` is Postgres ending a cycle of waits. `Fail` may end any open
  transaction. `seen` is what had expired at the `now` each call fixed before it
  asked for a connection.
* `RateLimiter`: `take` is atomic (no await). Time is kept as ages, so the state
  space is finite without a clock bound. `allowed` and `forgotten` are history
  variables: what a key was allowed, and what of it sweeps took from the table
  before its window was over, in the last so many units; `halved`, that a sweep
  had to drop counters of the listed rules that were open.
* `OkwanClient`: callers, the bucket, the lock held across a sleep, retries and
  429s; time as what is left and what has passed. `ahead` is a history variable:
  the most by which what was sent runs ahead of twice the rate.
* `StoreTables` has what the stores keep as one record of tables, and the rows
  and time limits of `models.py`. `MemoryStore` and `PostgresStore` are the
  methods of the protocol as functions from a database to an answer and a
  database, each translated from its own source: dictionaries in one, keys,
  foreign keys, cascades and upserts (`schema.sql`) in the other. `Stores` calls
  both alike, in every order.
* `TenantApi`: requests of keys over a tree of tenants, one await a step, over
  `PostgresStore`'s methods: the guard's walk up the tree, the administration
  routes, and the gate, work and meter of a call, beside deletions, a plan change
  and a month's turn. Its history `met` holds the pairs of requests that were past
  the gate at one time.
* `OperatorConsole` (sessions, the unlock, tickets and replies) and
  `SupportDesk` (a customer's message, the model's tool rounds, escalation) step
  at awaits over the same methods; `Desk` composes them over one database.

* `Absent` declares the one value for what is not there, for the modules that are
  checked or proved about side by side.

Operators marked "Mutant" are plausible bugs of the definition that follows
them; `PROJECT.json` pairs each property with one that breaks it. `MCIntake`
and `MCMachines` hold several machines that share nothing; in a behaviour one of
them runs (`part`) and the others rest. `SampleRails` and `SampleUploads` are the
rails and the uploads that `MCIntake` is given.

## 3. Runs

| Run | Bounds | What it shows |
|---|---|---|
| `match` | three records a side of two to four kinds, under each of the ten shipped declarations, and under two more: a pair declaration with phone numbers, three coverages a side and two causes, and groups (GroupRef, then a many-left GroupSum with a lag) | `IInv`, refinement of `ReconVerdicts`; `VerdictsStand`: asked again at the end every rule would claim, refuse or leave as it did; references exhausted; `ReportIsTrue`: each record in one row, breaks kept before clean matches by any cut, a full rate only when no left record is missing and none unread, differences of one currency, known causes explain |
| `intake` | fetch: four records, one arrival, pages of two, caps inside, on and past a page, slices of one day, two of them to a call; Stripe, Shopify, files, Clover, Paystack, PayPal and Postgres tables. Reading: seven rows by seven columns at most; a report under a preamble with an empty row and every form of date and sign, two marks of a sign on one cell among them, impossible dates, missing figures and a mapped net left blank, as CSV and as a workbook; a card number in each part of a report; two overlapping statements, as CSV and OFX. Billing: two subscriptions, four events, two handlers | `ReadOnce`, `CoverageIsHonest`, `TruncationIsReal`, `Terminates`; `RowsAreTrue`, `CardsNeverKept`, `FitidsTell`; record and plan agree once every event is answered, in any order (`PlanFollowsRecord`), and are those of the last event's subscription unless older news overwrote newer (`PlanIsPaidFor`) |
| `machines` | history: five runs, two kept, a pool of three; fold: one order, three rails (one of which groups orders), five payments; search: four amounts in -2..3, at most three members; calendar: days around every holiday and year end of years that start on every weekday; paging: results of up to three rows, limits 0, 1 and 3; client: two callers, two requests each of two attempts, a burst of two, three ticks to a token; limiter: four keys of three rules, a table of two; reuse: three queries, two tenants, two reconciliations, a cache of two, one save | newest kept and bounded overrun; truth of the fold's verdicts; `FindsEnough`; `CountIsBankDays`; `PagesAreOneResult`; twice the rate at most, though sleeps overrun, and requests end; a key is allowed at most the fixed-window bound and what sweeps forgot of it, of a listed rule nothing until the table is halved, and limits lift when they say; reused runs are own, recent and not kept from before a save |
| `accounts` | four requests, two tokens, two addresses, six scenarios | no orphan, one token one tenant, own password, only an in-flight sign-in survives a reset, no deadlock |
| `imports` | two uploads and a deletion over two old files, five scenarios; two chunks, a pool of two, one failed sweep, at most one layout | `OneCopy`, `AnswersAreTrue` (a refusal names a live copy, an answer a whole file), `LayoutsBounded`, `ExpiredGoes` |
| `stores` | three tenants, two keys, sessions, addresses and runs; ten groups of methods, clocks of up to three | the two stores answer and read alike, but for five calls |
| `tenants` | a tree of three and a stranger; three calls in flight, two of them beside a connection test, or two requests beside the deletion of any tenant; three plans | `BoundaryIsExact`, `HeldToThePayer`; `OverrunIsInFlight`: what a tree uses over its best plan is its connection tests, and one less than the calls that were underway together |
| `desk` | an operator, a customer, two sessions, two messages; one tool round, three turns kept; unlock for 2, idle 3, touch 1, sessions 5, conversations 2 ticks; four scenes | `OpenedByACode`, `IdleIsAccurate`, `AnsweredIsKept`, `CorrespondenceIsTrue` |
| `container_cut` | Postgres `sql.query`, cap past the end | finding: a cut reply is reported whole |
| `late_event` | the billing part of `intake`, one subscription, three events, one handler | finding: a `created` delivered after the `deleted` sets Pro again |
| `old_key` | the reuse part of `machines` | finding: a run read with the old credential is served after the save |
| `refund_unexplained` | `shopify_paypal`, one kind of order, refunded in part | finding: a refund and a fee read as an unexplained break |

Why the bounds are enough. An engine defect needs a contested record: two
records on one side that fit one on the other, plus one that is taken earlier,
which three by three rows of overlapping kinds contain; each shipped declaration
has records at the edge of its window or lag and figures its causes part. A
fetch walk needs a page before, at and after the cap and one slice boundary.
Accounts needs two tokens of one address, since an account has one address and
at most one login, and one operator command; every statement may be the last one
before a crash. Run history's overrun grows by one per concurrent transaction,
so three show its form; its safety is proved for all. Two old files are the
fewest whose prunes can wait for each other, two chunks the fewest that can be
half in. The limiter's table of two with four keys sweeps both by expiry and by
halving. A walk up a tree of depth two has a tenant to lose below, at and above
where it reads; three calls in flight are two more than the limit has room for,
and a connection test beside two shows that it counts without passing the gate.
The stores' calls touch at most a root, its child and one other, and each group
of methods touches tables the others only cascade into, so the groups are
explored one at a time beside tenants coming and going. A session needs a use
before, at and after its touch and its idle limit. The named bounds
(`MaxArrivals`, `MaxEvents`, `MaxClock`, `MaxSaves`, `MaxAllowed`,
`MaxRequests`, `MaxFailures`, `MaxRounds`) cap only how long a behaviour goes
on; `StillPagers` and `Listed` say how well behaved the surroundings are
(`PagesAreWhole` and `SpansAreStated` name the same for the proofs). Four events
are a payment and two changes after it, or two payments side by side, and two
handlers can hold any two of them between their writes; the proofs are for any
number of all three. Every run may stop (`CHECK_DEADLOCK FALSE`): the computations
of `match` end, a walk and a reading end, and the requests of the others are used
up; where something can block, that every request ends is a property of
its own.

### Where the code and its words part

Four sentences of the repository are checked as runs of their own and TLC finds
them violated (`findings` in `PROJECT.json` quotes them):

* a container operation that takes a `limit` is sent one page's worth, returns
  that much, and the walk reports that nothing was cut (`container_cut`);
* `shopify_paypal` declares the refund as a cause so that a refunded order does
  not read as unexplained, but it compares a figure already less the refund with
  one that is not, so the refund makes the difference negative where the cause
  allows positive ones only (`refund_unexplained`). In `match` the orders PayPal
  collected have no refund; those Stripe collected, and those of
  `shopify_orders`, do, and there the declared causes explain;
* a query that resolved a credential before it was replaced keeps its result after
  the save has emptied the cache, and later queries are served it, where
  `recon_reuse.py` says a fixed key is read at once (`old_key`; `ReuseIsSound` says
  of a served run only when it ended);
* the webhook writes what an event carries whatever newer event was applied, so
  that a `created` or `updated` delivered after the `deleted` leaves an ended
  subscription on Pro (`late_event`).

Others were met while modelling. The properties are stated so as to say what the
code does hold to, and the `hazards` entries say where it stops:

* a record reported ambiguous may have one unclaimed counterpart left, or none;
  of two left records that fit one right record the first in the list claims it;
* `_split_unread` asks the other side's coverage about the record's own date,
  not about the dates a window or a lag would admit;
* a group of payments in several currencies is summed and compared all the same
  (one-currency differences are claimed for pairs of single records), and
  `net_discrepancy_minor` adds differences of all currencies;
* the match rate counts pairs against pairs and left misses, so it is 1 while
  records are ambiguous; a pair whose figures cannot be compared reads `matched`;
* page-numbered walks count pages in sizes that change on the last request when
  the cap cuts it (`intake` keeps to caps that do not), and a page-numbered,
  newest-first rail repeats records when one arrives (`PagesAreWhole` excludes
  both);
* Square's windowed list states no span, so its coverage claims too much (it is
  not among the rails of `intake`, and `SpansAreStated` excludes it);
* the fold's `match_rate` counts an order matched on one rail for less than its
  total;
* a token verified after its address gained an account is consumed for nothing;
* a sign-in that checked its password before a reset committed may open its
  session after it (`OwnPassword` says that only such a one may);
* two saves of a layout at the limit both pass the count (`LayoutsBounded` says
  how far over the limit they get);
* with two subscriptions open the record and the plan are those of the last event,
  so the end of one frees an account that still pays for the other
  (`PlanIsPaidFor` speaks of the last event's subscription); two deliveries
  between their writes at once may leave the record of one and the plan of the
  other (`torn`);
* two concurrent `add_run`s may leave more than `RUNS_KEPT` rows
  (`OverrunIsBounded` says by how many);
* `_sweep` drops the open counters of rules `_RULES` omits, and the older half of
  the listed ones when more than `MAX_KEYS` are open: under such a flood no rule
  holds to its limit (`LimitsHoldAndLift` bounds a key by its limit and what was
  so forgotten of it); `take` answers with the latest of the resets where its
  docstring says the earliest (`LimitsHoldAndLift` shows why the latest is right);
* the time slept for a token is credited again by the next refill
  (`TwiceTheRateAtMost`);
* the stores part on five calls (`Parting` in `Stores`): a revoked key revoked
  again; usage, a session or a reply for a tenant that is gone; the deletion of
  an expired file;
* a tree deeper than `MAX_DEPTH`, which the command line can build, is billed to
  a tenant that is not its root;
* concurrent calls pass the quota together; what is in flight when it is reached
  runs over it. A cursor refused as stale (409) is metered all the same, a query
  that read its rails and then fails in SQL is not;
* the replay guard of one-time codes is in memory: after a restart the last code
  works again while it is current;
* a reply is mailed before it is stored, so when its account goes in between the
  operator is answered 500 and nothing says it was sent; a ticket is mailed
  before it is stored; a message cut short after it raised a ticket leaves a
  ticket that points at no conversation; of two messages of one conversation in
  flight the one that saves last drops the other;
* a number cell of a workbook is searched for a card in the fifteen digits
  shown; `parse_money` turns the sign at every mark, so (-12.00), -12.00 DR and
  12.00- DR are stored as money in (`RowsAreTrue` says of a cell marked twice
  only how large it is); a deduction whose mapping also negates it, which
  `check` allows, is stored negative, where `schemas.py` says positive
  magnitudes (`RowsAreTrue` takes `negate` at its word); of two identical bank
  lines in overlapping statements the order decides which keeps which id, and
  identical lines of two accounts get one id, since `_fitid` leaves the account
  out (`FitidsTell` is of one account).

## 4. Fairness

`fetch_side` and the client's loop are coroutines with nothing to wait for but
the clock and upstream answers bounded by the HTTP timeout: weak fairness of
their own steps. `Arrive` gets none, upstream owes nothing. In `Accounts` a
request is a coroutine that runs whenever no lock makes it wait: weak fairness
of each request's `Step`, none for `Crash` or `Expire`. `OkwanClient` also needs
time to pass (`WF(Tick)`); asyncio's lock is first come first served and a bucket
with `Unit` ticks is never taken back, so strong fairness is not needed there
with a bounded number of requests. In `Imports` requests and the sweeper's loop
run (weak fairness each), the loop goes on after a failed sweep (`sweeper` catches
everything), and sweeps fail at most `MaxFailures` times; nothing makes a file
expire or a request fail. The other modules claim safety only: a customer owes
no message, an operator no answer, and a model call may end in an error at any
round.

## 5. Proofs

Thirty-three results, for every value of the constants that meets the named
assumptions, each from an inductive invariant stronger than the property it is
for.

### Reconciliation

* `ReconVerdictsProofs`: `VerdictsAreSafe` is `Spec => []Inv`, with no assumption
  on the two sets of records. `Inv` is inductive as it stands.
* `MatchEngineProofs`, for every rule list that meets `RulesAssumption`:
  - `EngineIsTyped`, `EngineImplementsVerdicts`, and through the refinement
    `EngineIsSafe`. `Shaped` adds to `TypeOK` that the records still to come are
    open and that nothing is reported before the end. Key lemma: `FitsAreFree`,
    whatever a rule offers is a non-empty set of free records.
  - `DecisionsStand` (`VerdictsStand`). The property speaks of the end; `Standing`
    says at every step that a rule would leave each record it has passed, and make
    each claim it made, with any part of what is unclaimed. It lasts because what
    is unclaimed only shrinks; it starts because no kind of rule offers from fewer
    records what it did not from more.
  - `ReferencesComeFirst` (`ReferenceExhausted`). `Referred`: no decision is dated
    after the rule being applied, an `ExactRef` refuses nothing, and of two records
    that share a key, one has been judged once that rule has passed.
  - `ReportsAreTrue` is `ReportSpec => []RowsAreTrue`, the part of `ReportIsTrue`
    that needs no search. Every record lies in one bucket (`EngineIsSafe`), hence
    in one row. The match rate is rounded to four decimals, so a rate of 1 shows
    that nothing was missed only while the lists are short enough for one miss to
    show: that is the cap of 10,000 records a side (`ReportAssumption`, from
    `Reconciliation.max_records`); from 20,000 records on one miss would be
    rounded away.
* `FetchSideProofs`, for every set of rails, ledger, page size, cap, slice width
  and number of arrivals: `CutsAreReal`, with no further assumption;
  `CoverageStaysHonest` under `SpansAreStated`; `EveryRecordOnce` under
  `PagesAreWhole`. The two hypotheses are about the rails alone, name what the
  code does not hold to without them, and are met by every rail the `intake` run
  reads. `PageHolds` is the contract of one reply, the same for the five kinds of
  rail (`PagesHold`): the items are of the listing and were not behind the
  cursor, and the next cursor has behind it just what this one had and the page.
  `Past` gives a cursor of any kind its meaning: a record, a page number, or a
  place in a slice. `WalkInv` says that every record that is behind the cursor
  and existed at the start was read, and that a rail which names its last page
  has one more record ahead; it lasts through arrivals because a new record lies
  ahead of an oldest-first walk and above a newest-first one (`ArrivalIsAhead`).
  `OnceInv` adds that nothing else was read.

### The service

* `AccountsProofs`: `OwnersHaveTenants`, `PasswordsAreOwn`. `AInv` has four parts.
  `TokensHold`: nobody verifies a token before it is stored, two transactions
  never hold one row, a verification carries its row's password, and only one
  gets past the delete. `RowsHold`: who holds a lock finds the account or tenant
  as it left it (`Written`, `Held`), so `Owners` survives each commit.
  `SessionsHold`: a session's password is its login's unless a reset has committed
  since it was read (`Stands`); it needs that a reset deletes before it commits
  (`ResetsInOrder`) and that what it did not see was opened after its delete
  (`DropsSeen`). The attempt sharpened the property: it used to excuse a session
  by any reset after its read, and now only by one of the same login that had
  deleted, but not yet committed, when it was opened (`drops`, `resets`).
* `ImportsProofs`: `OneCopyStays` and `LayoutsStayBounded` assume only that
  requests and the layouts first saved are finitely many and no more than
  `LayoutsKept`. `FileInv` adds to `OneCopy` that an upload past its insert has
  every earlier copy among the rows it deleted, and that no two uploads of one
  file are past it (`InsertKeepsFiles`, where the unique index works). `LInv`
  counts the names of the saves that passed the count with those that are saved;
  a save past the count holds a connection, of which there are `PoolSize`
  (`CountKeeps`). `AnswersStayTrue`: `TInv` adds that a transaction deletes what
  had expired or was asked for, and that past its prune an upload sees no file
  that had expired at its `now`.
* `TenantApiProofs`: `BoundaryHolds`, `PayerIsTheTop`, `OverrunStaysInFlight`, for
  every finite tree (`TreeAssumption`: no cycle, which the insert path ensures). A
  tenant only goes with all those below it (`TreeHolds`, `Falls`), so a target that is there has
  its line there. `ApiInv` says of each walk that the line below where it reads
  is what it has collected (`Guarding`, `Climbing`), and the rest by counting the
  reads left. The properties speak of targets the walk can reach the top from in
  `MAX_DEPTH` reads (`Shallow`); no bound is set on insertion.
  `OverrunStaysInFlight` assumes that what was counted before is within the free
  plan, and no bound on the requests. Use alone is not inductive: a call that was
  let through will be counted whatever others were since. `Within` adds the calls
  underway to what was counted, so that the meter moves a call from one side to
  the other (`MeterKeeps`; its root is the top of its target by `Paid`), only a
  connection test adds to the sum without the gate, and the gate bounds it anew by
  the plan it read and the calls it lets through beside (`GatePasses`). What the
  gate counts holds all that pay with the top (`BelowIsFound`); the two are one
  set where the property speaks (`FoundIsBelow`). The attempt sharpened the
  property: it used to allow as many requests over the limit as there are, which
  says little once they are many, and which connection tests at the limit break.
* `MachineProofs`, the machines that `machines` runs side by side, and billing:
  - run history: `NewestSurvive` (`HistoryInv`). `PrunesOnlyOld` says that the
    rows an open transaction will delete hold none of the newest of what will
    be recorded when it commits; the newest of a larger history that lie in a
    smaller one are among the newest of that (`NewestOfPart`).
    `OverrunStaysBounded`: an open transaction may have counted without the
    rows of the others. `OInv` says there is an order of the transactions that
    have pruned (the order of the prunes, which no variable holds) in which
    each leaves at most the bound together with those before it; a prune comes
    last, and a commit or an abort leaves an order of the rest.
  - HTTP client: `RateIsBounded` (`TwiceTheRateAtMost`), for any callers, rate,
    burst and waits. The bound says nothing of the credit left, so it is not
    inductive. `Potential` adds to what was sent ahead the credit in the bucket
    while the lock is free, and while it is held what is left of the sleep: the
    sleeper has emptied the bucket and will send at no cost but its sleep,
    which the next refill credits again. `LockHeld` says that only the lock's
    holder sleeps.
  - rate limiter: `LimitsStay`, the four parts of `LimitsHoldAndLift` at once,
    for any rules, costs and table. A counter says how much was allowed since
    its window began; `Fits` says what else it bounds: what was allowed in any
    stretch of time that ends now, by how far it reaches into this window, the
    one before it, or past both. The bound of two limits less one rests on a
    window being opened by an attempt that is counted in it. A key without a
    counter is at rest (`AtRest`) but for what sweeps forgot of it; `forgotten`
    carries that as `allowed` carries what was let through, so the bound holds
    through every sweep, of listed rules and others, halving ones included
    (`DropRests`, `AllLimitsHold`). Of listed rules nothing is forgotten until a
    sweep halves the table (`SweepIs`). It assumes of a request
    that it names at most `MAX_KEYS` keys and costs at most the limit of each.
  - run reuse: `ReuseStaysSound`. An entry of the cache counts how often its
    tenant's entries had been forgotten when it was put; forgetting drops them
    all, so each that is there counts as many as there were, and the
    credential's version is that many and one more between the save and its
    forgetting (`SavesAreCounted`). `PutKeepsOrder`: what a full cache gives up
    is its oldest.
  - across fold: `OutcomesStayTrue`, for any orders, rails, payments and
    tolerance, given that each rail is honest (`MaySay`). Nothing is said for a
    rail that was not read, and the fold happens once all were (`FoldInv`); two
    matched rails that are each near the total took it twice (`TwiceHolds`).
  - result paging: `PagesStayOneResult`, for any results and limits. A cursor
    the client holds stands at the end of what its walk has read and carries a
    fingerprint that begins with just those rows (`IsWalk`); a page is served
    only against a result of that fingerprint, so it continues it
    (`PagedIsOneResult`). Fingerprints are taken to differ when the rows'
    identities do (sixteen hex digits of SHA-256 in the code).
  - subset search: `SearchFindsEnough`, for any amounts, of either sign. The walk
    is ahead of a group (`Ahead`) when the group goes on from what is chosen with
    a record left to try, or from a part of it with a later one. `SearchInv`: a
    group is found, once, exactly when the walk is neither ahead of it nor at it.
    Going down and up keep this for every set (`Descends`, `Ascends`); a branch
    is given up only when no group goes on from it (`FullEnough`,
    `OvershotEnough`, which is where the sorted order and non-negative amounts
    are needed). That a sum is the same whichever record is taken out of it
    first (`SumWithout`) is proved from the fold's definition by a least
    counterexample.
  - bank days: `SettlementCountsBankDays`, from year 1 on. Years follow each
    other without a gap (`YearsFollow`, `YearExists`, `OneYear`), the n-th
    weekday computed is the one with n - 1 alike before it in its month
    (`NthIsNth`, `LastIsLast`), and on a weekday the computed holidays are those
    the rules name (`HolidaysAreTheFeds`).
  - billing: `PlanStaysPaidFor` and `RecordAndPlanAgree`, for any number of
    subscriptions, open in turn or together, and any deliveries: any order, any
    number at once, repeated, failing. Nothing is assumed of Stripe but that an
    event carries the subscription as it was when sent. `LogInv`: the last event
    is true now, and nothing unpaid was told of a subscription before its
    checkout. `RecordIsTold`: every event acknowledged is no newer than the newest
    applied, also a checkout that was dropped, since the record that had it
    dropped tells of a later event; so when all are acknowledged the newest
    applied is the last one sent. `RecordIsInTurn`: in order, the record says of
    the plan what that event says; a checkout saved late was of a record still
    paid (`ServingIsTrue`). `PlanIsToCome`: not torn, the plan is the record's, or
    the one delivery past its write has it in hand, or an event that says the same
    is still to be acknowledged.
* `DeskProofs`: `CodesOpen`, `IdleStaysAccurate`, `AnsweredStaysKept`,
  `CorrespondenceStaysTrue`, assuming that a tenant has one login, that what is
  there at the start belongs to one, and that minted ids are new
  (`LoginAssumption`, `DeskAssumption`). Three invariants, each inductive given
  those before it. `DeskInv`: the codes accepted in this life are at or before the
  guard's last of their login; an unlock lies within its code's; a session's
  `last_used_at` is at most a touch behind its use. `ReplyInv`: what was mailed and
  is not stored has a request about to store it; a ticket is answered only after
  a reply or a status. `TalkInv`: a conversation is of one tenant; a message in
  flight has itself in what it will save (`TalkHolds`); one answered is kept, or
  another of the same conversation that it met is (`Answering`, `Meeting`). A step
  of one part is seen by the others only as what it does to the tables: rows go
  with their tenant and only so (`Falls`, `Fades`, `Drifts`), and the messages in
  flight are the same or fewer (`Calms`).

### Only model-checked

* Liveness (`Terminates`, `EveryRequestEnds`, `ExpiredGoes`): the prover does
  neither fairness nor ENABLED.
* What is true of given data and not of all: `KnownCausesExplain` speaks of the
  declarations shipped and of the fields their own records carry (an input may
  declare causes that explain nothing), and the reading of files (`RowsAreTrue`,
  `CardsNeverKept`, `FitidsTell`: columns of amounts summed by `FileReading`'s
  folds, over uploads given as data).
* `SameAnswers` and `SameReads`, the comparison of the two stores. It is a
  relation between two databases kept by each of some fifty methods, and it holds
  only of calls whose effects `Stores` enumerates; nothing in it is beyond the
  provers, but the relation has not been written down.

## 6. Not modelled

What a field's text means (date and amount formats, encodings, the Luhn check),
money formatting, confidence figures, evidence and the summaries written for
groups (they change no verdict); what support tools and console pages show;
vault cryptography (library calls); the operator factor's row and enrolment;
migrations and row level security roles; the import-time connector registry and
the surfaces generated from it, but for their paging, gate and meter; the
dashboard and the site.

## 7. Plan

1. Done: everything above.
2. `ReconRun`: FetchSide, MatchEngine and Coverage composed, so that a miss is
   judged against what upstream really holds.
3. Proofs: `Stores`, one group of methods after another, starting with tenants and
   keys; then `ReconRun`'s miss, from `CoverageStaysHonest` and `DecisionsStand`.
