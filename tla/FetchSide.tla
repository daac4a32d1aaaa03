------------------------------- MODULE FetchSide -------------------------------
(***************************************************************************)
(* fetch_side (packages/recon/okwan_recon/fetch.py): one side of a         *)
(* reconciliation is read page by page through a connector's list          *)
(* operation, and the walk says what it covered.  The pages are what the   *)
(* connectors' handlers return; the upstream they page over may gain       *)
(* records while it is read.                                               *)
(*                                                                         *)
(* Records are numbered in the order they were created, and a rail lists   *)
(* them in that order or the other way round, so a page is a set: those at *)
(* some places of the listing.  A rail says how its list operation pages:  *)
(*   keyed      resumes after a record (Stripe, Square, Shopify, files)    *)
(*   numbered   page numbers (Paystack)                                    *)
(*   sliced     page numbers inside slices of the window (PayPal)          *)
(*   offset     offsets inside slices of the window (Clover)               *)
(*   container  no pages: one RowSet or list (Postgres)                    *)
(***************************************************************************)
EXTENDS Coverage, FiniteSets, FiniteSetsExt

CONSTANTS
  Rails,        \* the list operations a side may name, and the cap it is read to
  PageSize,     \* PAGE_SIZE
  Start,        \* how many records upstream holds when the walk begins
  MaxArrivals,  \* bound: how many it gains while the walk runs
  StillPagers,  \* bound: the kinds of rail that gain none
  Width,        \* days in one slice of a sliced or offset walk
  MaxSlices,    \* MAX_SLICES_PER_CALL: slices one call of an offset walk reads
  From, To,     \* the days of the window resolve_window fixed for the run
  Horizon       \* the day a sliced rail says its own ledger is current to

Pagers == {"keyed", "numbered", "sliced", "offset", "container"}

\* The ends of the operation's window, and whether its pages state the span read.
RailType ==
  [pager: Pagers, window: {"none", "from", "both"}, states: BOOLEAN, newest: BOOLEAN,
   filtered: BOOLEAN, limited: BOOLEAN, cap: Nat \ {0}]

ASSUME FetchAssumption ==
  /\ PageSize \in Nat \ {0} /\ Width \in Nat \ {0} /\ MaxSlices \in Nat \ {0}
  /\ Start \in Nat /\ MaxArrivals \in Nat
  /\ From \in Nat /\ To \in Nat /\ From < To /\ Horizon \in Nat /\ Horizon >= From

\* Only a window with two ends is cut into slices.
ASSUME RailsAssumption ==
  /\ Rails \subseteq RailType
  /\ \A r \in Rails : r.pager \in {"sliced", "offset"} => r.window = "both"

\* None is no cursor and no day, and a walk's coverage is not the lack of one.
ASSUME NoneAssumption ==
  /\ None \notin Nat /\ None \notin [slice: Nat, page: Nat] /\ None \notin [slice: Nat, skip: Nat]
  /\ \A c \in BOOLEAN, f, t \in {None, From, To, Horizon} : NoCoverage # [truncated |-> c, from |-> f, to |-> t]

Records == 1..(Start + MaxArrivals)
Days    == 0..(To + 1)

VARIABLES
  rail,      \* the list operation read
  held,      \* how many records upstream holds
  day,       \* [record -> day]
  wanted,    \* the records the operation's own filter keeps
  rows,      \* the records read so far
  read,      \* how many rows they came in: len(rows)
  cursor,    \* where to continue, None for the first page
  pc,        \* "walking", then "done"
  coverage   \* what the walk says it read, NoCoverage until done

vars == <<rail, held, day, wanted, rows, read, cursor, pc, coverage>>

-----------------------------------------------------------------------------
(* The connectors' list handlers.                                            *)

\* What the operation lists.  Records past a sliced rail's horizon have not
\* landed yet.
Listed ==
  {x \in 1..held :
    /\ rail.window # "none" => day[x] >= From
    /\ rail.window = "both" => day[x] <= To
    /\ rail.pager = "sliced" => day[x] <= Horizon}

\* The order it lists them in, and the place of x in the list of S.
Before(x, y) == IF rail.newest THEN x > y ELSE x < y
Rank(x, S)   == Cardinality({y \in S : Before(y, x)}) + 1

\* What follows the first `skip` of S, at most `limit` of them.
Part(S, skip, limit) == {x \in S : Rank(x, S) \in (skip + 1)..(skip + limit)}

\* The cursor names the last record of the page as the rail returned it; the
\* filter runs after.
After(at) == {x \in Listed : at = None \/ Before(at, x)}
KeyedReplies(limit, at) ==
  LET page == Part(After(at), 0, limit) \cap wanted
  IN  IF Cardinality(After(at)) > limit
      THEN {[items |-> page, more |-> TRUE, next |-> x] : x \in Part(After(at), limit - 1, 1)}
      ELSE {[items |-> page, more |-> FALSE, next |-> None]}

\* The cursor is a page number, counted in pages of this request's size.
NumberedReply(limit, at) ==
  LET page == IF at = None THEN 1 ELSE at
      more == page * limit < Cardinality(Listed)
  IN  [items |-> Part(Listed, (page - 1) * limit, limit), more |-> more,
       next |-> IF more THEN page + 1 ELSE None]

\* Mutant: a slice holds the first day of the next one.
SliceClosed(k) == {x \in Listed : day[x] \in (From + k * Width)..(From + (k + 1) * Width)}

Slice(k) == {x \in Listed : day[x] \in (From + k * Width)..(From + (k + 1) * Width - 1)}
LastSlice(k, end) == From + (k + 1) * Width > end

\* Mutant: the page number of one slice is carried into the next.
SlicedRepliesCarried(limit, at) ==
  LET begin    == IF at = None THEN [slice |-> 0, page |-> 1] ELSE at
      Items(k) == Part(Slice(k), (begin.page - 1) * limit, limit)
      Pages(k) == begin.page * limit < Cardinality(Slice(k))
      Final(k) == LastSlice(k, Min({To, Horizon}))
      Stop(k)  == Pages(k) \/ Items(k) # {} \/ Final(k)
  IN  {[items |-> Items(k), more |-> Pages(k) \/ ~Final(k),
        next |-> IF Pages(k) THEN [slice |-> k, page |-> begin.page + 1]
                 ELSE IF ~Final(k) THEN [slice |-> k + 1, page |-> begin.page] ELSE None] :
        k \in {j \in begin.slice..To : Stop(j) /\ \A i \in begin.slice..(j - 1) : ~Stop(i)}}

\* A slice page by page, then the next slice; slices with nothing in them are
\* walked past inline, up to the end of the window or the rail's horizon.
SlicedReplies(limit, at) ==
  LET begin    == IF at = None THEN [slice |-> 0, page |-> 1] ELSE at
      Page(k)  == IF k = begin.slice THEN begin.page ELSE 1
      Items(k) == Part(Slice(k), (Page(k) - 1) * limit, limit)
      Pages(k) == Page(k) * limit < Cardinality(Slice(k))
      Final(k) == LastSlice(k, Min({To, Horizon}))
      Stop(k)  == Pages(k) \/ Items(k) # {} \/ Final(k)
  IN  {[items |-> Items(k), more |-> Pages(k) \/ ~Final(k),
        next |-> IF Pages(k) THEN [slice |-> k, page |-> Page(k) + 1]
                 ELSE IF ~Final(k) THEN [slice |-> k + 1, page |-> 1] ELSE None] :
        k \in {j \in begin.slice..To : Stop(j) /\ \A i \in begin.slice..(j - 1) : ~Stop(i)}}

\* Mutant: a slice read to its end is read again.
OffsetRepliesStuck(limit, at) ==
  LET begin == IF at = None THEN [slice |-> 0, skip |-> 0] ELSE at
      Raw   == Part(Slice(begin.slice), begin.skip, limit)
  IN  {[items |-> Raw \cap wanted, more |-> TRUE,
        next |-> [slice |-> begin.slice, skip |-> begin.skip + Cardinality(Raw)]]}

\* The offset grows by what was returned, so the size of a page is free to
\* change.  A call gives up after so many slices with nothing in them.
OffsetReplies(limit, at) ==
  LET begin   == IF at = None THEN [slice |-> 0, skip |-> 0] ELSE at
      Skip(k) == IF k = begin.slice THEN begin.skip ELSE 0
      Raw(k)  == Part(Slice(k), Skip(k), limit)
      Full(k) == Cardinality(Raw(k)) >= limit
      Ends(k) == LastSlice(k, To)
      Stop(k) == Full(k) \/ Raw(k) \cap wanted # {} \/ Ends(k) \/ k + 1 = begin.slice + MaxSlices
  IN  {[items |-> Raw(k) \cap wanted, more |-> Full(k) \/ ~Ends(k),
        next |-> IF Full(k) THEN [slice |-> k, skip |-> Skip(k) + Cardinality(Raw(k))]
                 ELSE IF ~Ends(k) THEN [slice |-> k + 1, skip |-> 0] ELSE None] :
        k \in {j \in begin.slice..To : Stop(j) /\ \A i \in begin.slice..(j - 1) : ~Stop(i)}}

\* One reply, cut to the limit when the operation takes one.
ContainerReply(limit) ==
  [items |-> IF rail.limited THEN Part(Listed, 0, limit) ELSE Listed, more |-> FALSE, next |-> None]

\* What the handler replies: one reply, in a set.
Replies(limit, at) ==
  CASE rail.pager = "keyed"     -> KeyedReplies(limit, at)
    [] rail.pager = "numbered"  -> {NumberedReply(limit, at)}
    [] rail.pager = "sliced"    -> SlicedReplies(limit, at)
    [] rail.pager = "offset"    -> OffsetReplies(limit, at)
    [] rail.pager = "container" -> {ContainerReply(limit)}

-----------------------------------------------------------------------------
Init ==
  /\ rail \in Rails
  /\ held = Start
  /\ day \in {d \in [Records -> Days] :
                /\ \A x \in 1..(Start - 1) : d[x] <= d[x + 1]
                /\ \A x \in Records : x <= Start <=> d[x] <= To}
  /\ wanted \in IF rail.filtered THEN {W \cup (Records \ 1..Start) : W \in SUBSET (1..Start)}
                                ELSE {Records}
  /\ rows = {}
  /\ read = 0
  /\ cursor = None
  /\ pc = "walking"
  /\ coverage = NoCoverage

\* The reply to the next request: the page size shrinks to what the cap leaves.
Answers == Replies(Min({PageSize, rail.cap - read}), cursor)

\* len(rows) with the reply's items.
Length(reply) == read + Cardinality(reply.items)

\* A container cannot say whether upstream held more.
More(reply) == IF rail.pager = "container" THEN Length(reply) >= rail.cap ELSE reply.more

Stops(reply) == rail.pager = "container" \/ ~More(reply) \/ Length(reply) >= rail.cap

NextPage ==
  /\ pc = "walking"
  /\ \E reply \in Answers :
       /\ ~Stops(reply)
       /\ rows' = rows \cup reply.items
       /\ read' = Length(reply)
       /\ cursor' = reply.next
  /\ UNCHANGED <<rail, held, day, wanted, pc, coverage>>

\* The span the last page stated; None on both when the list states none.
SpanStart == IF rail.states THEN From ELSE None
SpanEnd   == IF ~rail.states \/ rail.window = "from" THEN None
             ELSE IF rail.pager = "sliced" THEN Min({To, Horizon}) ELSE To

\* Mutant: a walk that stops at the cap is cut, whatever upstream holds.
TruncatedAtCap(reply) == Length(reply) >= rail.cap

Truncated(reply) ==
  Length(reply) > rail.cap \/ (Length(reply) >= rail.cap /\ More(reply))

LastPage ==
  /\ pc = "walking"
  /\ \E reply \in Answers :
       /\ Stops(reply)
       /\ rows' = rows \cup Part(reply.items, 0, rail.cap - read)
       /\ read' = Min({rail.cap, Length(reply)})
       /\ coverage' = [truncated |-> Truncated(reply), from |-> SpanStart, to |-> SpanEnd]
  /\ pc' = "done"
  /\ UNCHANGED <<rail, held, day, wanted, cursor>>

\* Upstream takes a payment between two pages, after the window's end.
Arrive ==
  /\ pc = "walking"
  /\ rail.pager \notin StillPagers
  /\ held < Start + MaxArrivals
  /\ held' = held + 1
  /\ UNCHANGED <<rail, day, wanted, rows, read, cursor, pc, coverage>>

Next == NextPage \/ LastPage \/ Arrive

Spec == Init /\ [][Next]_vars

\* The loop awaits one page after another; upstream owes it nothing.
FairSpec == Spec /\ WF_vars(NextPage \/ LastPage)

-----------------------------------------------------------------------------
\* The reads whose page numbers count pages of one size: upstream gains nothing
\* a page would move, and the cap never cuts a page.
PagesAreWhole ==
  \A r \in Rails :
    /\ r.pager = "numbered" => r.pager \in StillPagers /\ \E n \in 1..r.cap : r.cap = n * PageSize
    /\ r.pager = "sliced" => r.cap >= Start + PageSize

\* The rails that can say what they read: a windowed list states its span, and a
\* container is not cut below the cap.
SpansAreStated ==
  \A r \in Rails :
    /\ r.window # "none" => r.states
    /\ r.pager = "container" => ~r.limited

\* No record is read twice: to the match engine a record read twice is two
\* payments, and the second one has no order.
ReadOnce == Cardinality(rows) = read

\* "No payment was read" is never reported as "no payment exists": a record
\* that existed before the walk, that the filter keeps and whose day the
\* coverage says was read, was read.
CoverageIsHonest ==
  pc = "done" =>
    \A x \in wanted : x <= Start /\ Reads(coverage, day[x]) => x \in rows

\* "The cap was reached while upstream still had more": where the rail's own
\* answer says whether a page was the last, a truncated walk left a record unread.
TruncationIsReal ==
  pc = "done" /\ coverage.truncated /\ rail.pager \in {"keyed", "numbered"} =>
    \E x \in Listed : x \notin rows

\* The walk ends, however many empty slices and filtered pages it meets.
Terminates == <>(pc = "done")
=============================================================================
