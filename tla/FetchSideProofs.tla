---------------------------- MODULE FetchSideProofs ----------------------------
(***************************************************************************)
(* A walk through a rail's pages reads no record twice, says of no record  *)
(* that it was read when it was not, and says it was cut only when it was. *)
(***************************************************************************)
EXTENDS FetchSide, FiniteSetTheorems, WellFoundedInduction, TLAPS

(***************************************************************************)
(* Places in a listing.                                                    *)
(***************************************************************************)
Earlier == {p \in Nat \X Nat : p[1] < p[2]}

LEMMA LeastExists ==
  ASSUME NEW S \in SUBSET Nat, S # {}
  PROVE  \E m \in S : \A x \in S : m <= x
<1>1. IsWellFoundedOn(Earlier, Nat)
  BY NatLessThanWellFounded DEF OpToRel, Earlier
<1>2. PICK m \in S : \A x \in S : ~(<<x, m>> \in Earlier)
  BY <1>1, WFMin
<1>3. ASSUME NEW x \in S PROVE m <= x
  <2>1. <<x, m>> \in Nat \X Nat
    OBVIOUS
  <2>2. ~(x < m)
    BY <1>2, <2>1 DEF Earlier
  <2> QED BY <2>1, <2>2
<1> QED BY <1>3

LEMMA MinIs ==
  ASSUME NEW x \in Int, NEW y \in Int
  PROVE  Min({x, y}) = IF x <= y THEN x ELSE y
<1>1. Min({x, y}) = CHOOSE z \in {x, y} : \A w \in {x, y} : z <= w
  BY DEF Min
<1>2. \E z \in {x, y} : \A w \in {x, y} : z <= w
  OBVIOUS
<1> QED BY <1>1, <1>2

LEMMA BeforeIsOrder ==
  /\ \A x, y \in Nat : Before(x, y) => ~Before(y, x)
  /\ \A x, y \in Nat : x # y => Before(x, y) \/ Before(y, x)
  /\ \A x, y, z \in Nat : Before(x, y) /\ Before(y, z) => Before(x, z)
  BY DEF Before

\* A place is counted from one, and no further than there are records.
LEMMA RankType ==
  ASSUME NEW S \in SUBSET Nat, IsFiniteSet(S), NEW x \in S
  PROVE  Rank(x, S) \in 1..Cardinality(S)
<1> DEFINE T == {y \in S : Before(y, x)}
<1>1. T \subseteq S \ {x}
  BY BeforeIsOrder
<1>2. IsFiniteSet(S \ {x}) /\ Cardinality(S \ {x}) = Cardinality(S) - 1
  BY FS_RemoveElement
<1>3. Cardinality(S) \in Nat
  BY FS_CardinalityType
<1>4. IsFiniteSet(T) /\ Cardinality(T) <= Cardinality(S \ {x})
  BY <1>1, <1>2, FS_Subset
<1>5. Cardinality(T) \in Nat
  BY <1>4, FS_CardinalityType
<1>6. Rank(x, S) = Cardinality(T) + 1
  BY DEF Rank
<1> QED BY <1>2, <1>3, <1>4, <1>5, <1>6

\* Places follow the order of the listing.
LEMMA RankGrows ==
  ASSUME NEW S \in SUBSET Nat, IsFiniteSet(S), NEW x \in S, NEW y \in S, Before(x, y)
  PROVE  Rank(x, S) < Rank(y, S)
<1> DEFINE T == {z \in S : Before(z, x)}
           U == {z \in S : Before(z, y)}
<1>1. T \subseteq U /\ x \in U /\ x \notin T
  BY BeforeIsOrder
<1>2. IsFiniteSet(T) /\ IsFiniteSet(U)
  BY FS_Subset
<1>3. Cardinality(T) <= Cardinality(U) /\ Cardinality(T) # Cardinality(U)
  BY <1>1, <1>2, FS_Subset
<1>4. Cardinality(T) \in Nat /\ Cardinality(U) \in Nat
  BY <1>2, FS_CardinalityType
<1>5. Rank(x, S) = Cardinality(T) + 1 /\ Rank(y, S) = Cardinality(U) + 1
  BY DEF Rank
<1> QED BY <1>3, <1>4, <1>5

\* More records in a list put none of them further to the front.
LEMMA RankOfMore ==
  ASSUME NEW S \in SUBSET Nat, NEW T \in SUBSET S, IsFiniteSet(S), NEW x \in T
  PROVE  Rank(x, T) <= Rank(x, S)
<1> DEFINE A == {z \in T : Before(z, x)}
           B == {z \in S : Before(z, x)}
<1>1. IsFiniteSet(B) /\ A \subseteq B
  BY FS_Subset
<1>2. IsFiniteSet(A) /\ Cardinality(A) <= Cardinality(B)
  BY <1>1, FS_Subset
<1>3. Cardinality(A) \in Nat /\ Cardinality(B) \in Nat
  BY <1>1, <1>2, FS_CardinalityType
<1>4. Rank(x, T) = Cardinality(A) + 1 /\ Rank(x, S) = Cardinality(B) + 1
  BY DEF Rank
<1> QED BY <1>2, <1>3, <1>4

LEMMA RankIsOwn ==
  ASSUME NEW S \in SUBSET Nat, IsFiniteSet(S), NEW x \in S, NEW y \in S, Rank(x, S) = Rank(y, S)
  PROVE  x = y
<1> SUFFICES ASSUME x # y PROVE FALSE
  OBVIOUS
<1>1. Rank(x, S) \in Nat /\ Rank(y, S) \in Nat
  BY RankType, FS_CardinalityType
<1>2. Rank(x, S) < Rank(y, S) \/ Rank(y, S) < Rank(x, S)
  BY RankGrows, BeforeIsOrder
<1> QED BY <1>1, <1>2

\* Every place up to the last is some record's.
LEMMA RankOnto ==
  ASSUME NEW S \in SUBSET Nat, IsFiniteSet(S), NEW n \in 1..Cardinality(S)
  PROVE  \E x \in S : Rank(x, S) = n
<1> DEFINE f == [x \in S |-> Rank(x, S)]
           T == 1..Cardinality(S)
<1>1. f \in [S -> T]
  BY RankType
<1>2. \A x, y \in S : f[x] = f[y] => x = y
  BY RankIsOwn
<1>3. f \in Injection(S, T)
  BY <1>1, <1>2 DEF Injection, IsInjective
<1>4. Cardinality(S) \in Nat
  BY FS_CardinalityType
<1>5. IsFiniteSet(T) /\ Cardinality(T) = Cardinality(S)
  BY <1>4, FS_Interval
<1>6. f \in Surjection(S, T)
  BY <1>3, <1>5, FS_Injection
<1> QED BY <1>6 DEF Surjection

(***************************************************************************)
(* A page is of the size asked for, unless the list ends in it.            *)
(***************************************************************************)
LEMMA PartSize ==
  ASSUME NEW S \in SUBSET Nat, IsFiniteSet(S), NEW skip \in Nat, NEW limit \in Nat
  PROVE  /\ Part(S, skip, limit) \subseteq S /\ IsFiniteSet(Part(S, skip, limit))
         /\ Cardinality(Part(S, skip, limit)) \in 0..limit
         /\ skip + limit <= Cardinality(S) => Cardinality(Part(S, skip, limit)) = limit
<1> DEFINE P == Part(S, skip, limit)
           T == (skip + 1)..(skip + limit)
           f == [x \in P |-> Rank(x, S)]
<1>1. P \subseteq S /\ \A x \in P : Rank(x, S) \in T
  BY DEF Part
<1>2. IsFiniteSet(P)
  BY <1>1, FS_Subset
<1>3. IsFiniteSet(T) /\ Cardinality(T) = limit
  BY FS_Interval
<1>4. f \in Injection(P, T)
  <2>1. f \in [P -> T]
    BY <1>1
  <2>2. \A x, y \in P : f[x] = f[y] => x = y
    BY <1>1, RankIsOwn
  <2> QED BY <2>1, <2>2 DEF Injection, IsInjective
<1>5. Cardinality(P) <= limit /\ (Cardinality(P) = limit <=> f \in Surjection(P, T))
  BY <1>3, <1>4, FS_Injection
<1>6. Cardinality(P) \in Nat /\ Cardinality(S) \in Nat
  BY <1>2, FS_CardinalityType
<1>7. ASSUME skip + limit <= Cardinality(S) PROVE f \in Surjection(P, T)
  <2>1. \A t \in T : \E x \in P : f[x] = t
    <3> TAKE t \in T
    <3>1. t \in 1..Cardinality(S)
      BY <1>6, <1>7
    <3>2. PICK x \in S : Rank(x, S) = t
      BY <3>1, RankOnto
    <3>3. x \in P
      BY <3>2 DEF Part
    <3> QED BY <3>2, <3>3
  <2> QED BY <2>1, <1>1 DEF Surjection
<1> QED BY <1>1, <1>2, <1>5, <1>6, <1>7

\* A page that is short is the last of its list.
LEMMA PartShort ==
  ASSUME NEW S \in SUBSET Nat, IsFiniteSet(S), NEW skip \in Nat, NEW limit \in Nat,
         Cardinality(Part(S, skip, limit)) < limit, NEW x \in S
  PROVE  Rank(x, S) <= skip + limit
<1>1. Cardinality(S) \in Nat /\ Rank(x, S) \in 1..Cardinality(S)
  BY RankType, FS_CardinalityType
<1>2. ~(skip + limit <= Cardinality(S))
  BY PartSize
<1> QED BY <1>1, <1>2

\* A list no longer than the page is in it.
LEMMA PartWhole ==
  ASSUME NEW S \in SUBSET Nat, IsFiniteSet(S), NEW limit \in Nat, Cardinality(S) <= limit
  PROVE  Part(S, 0, limit) = S
<1>1. Cardinality(S) \in Nat
  BY FS_CardinalityType
<1>2. \A x \in S : Rank(x, S) \in (0 + 1)..(0 + limit)
  BY <1>1, RankType
<1> QED BY <1>2 DEF Part

LEMMA LastExists ==
  ASSUME NEW S \in SUBSET Nat, IsFiniteSet(S), S # {}
  PROVE  \E x \in S : \A y \in S : ~Before(x, y)
<1>1. Cardinality(S) \in Nat /\ Cardinality(S) # 0
  BY FS_CardinalityType, FS_EmptySet
<1>2. PICK x \in S : Rank(x, S) = Cardinality(S)
  BY <1>1, RankOnto
<1>3. ASSUME NEW y \in S, Before(x, y) PROVE FALSE
  <2>1. Rank(y, S) \in 1..Cardinality(S) /\ Rank(x, S) < Rank(y, S)
    BY <1>3, RankType, RankGrows
  <2> QED BY <1>1, <1>2, <2>1
<1> QED BY <1>3

\* The last of a list has the last place in it.
LEMMA LastRank ==
  ASSUME NEW S \in SUBSET Nat, IsFiniteSet(S), NEW x \in S, \A y \in S : ~Before(x, y)
  PROVE  Rank(x, S) = Cardinality(S)
<1>1. Cardinality(S) \in Nat /\ Rank(x, S) \in 1..Cardinality(S)
  BY RankType, FS_CardinalityType
<1>2. PICK y \in S : Rank(y, S) = Cardinality(S)
  BY <1>1, RankOnto
<1>3. ~Before(y, x)
  <2> SUFFICES ASSUME Before(y, x) PROVE FALSE
    OBVIOUS
  <2>1. Rank(y, S) < Rank(x, S)
    BY RankGrows
  <2> QED BY <1>1, <1>2, <2>1
<1> QED BY <1>2, <1>3, BeforeIsOrder

(***************************************************************************)
(* How far a cursor is into the listing, and what a state of a walk is.    *)
(***************************************************************************)
Cursors ==
  CASE rail.pager = "keyed"     -> Listed
    [] rail.pager = "numbered"  -> Nat \ {0}
    [] rail.pager = "sliced"    -> [slice: Nat, page: Nat \ {0}]
    [] rail.pager = "offset"    -> [slice: Nat, skip: Nat]
    [] rail.pager = "container" -> {}

\* The first n of a slice, and all of the slices before it.
SlicesBefore(k, n) ==
  {x \in Listed : day[x] < From + k * Width \/ (x \in Slice(k) /\ Rank(x, Slice(k)) <= n)}

\* The records a walk that continues at `at` has behind it.
Past(at) ==
  IF at = None THEN {}
  ELSE CASE rail.pager = "keyed"     -> {x \in Listed : ~Before(at, x)}
         [] rail.pager = "numbered"  -> {x \in Listed : Rank(x, Listed) <= (at - 1) * PageSize}
         [] rail.pager = "sliced"    -> SlicesBefore(at.slice, (at.page - 1) * PageSize)
         [] rail.pager = "offset"    -> SlicesBefore(at.slice, at.skip)
         [] rail.pager = "container" -> {}

\* Upstream, the reading of it so far, and the days of what it holds.
FetchTyped ==
  /\ rail \in Rails
  /\ held \in Start..(Start + MaxArrivals)
  /\ day \in [Records -> Days]
  /\ \A x \in Records : x <= Start <=> day[x] <= To
  /\ wanted \subseteq Records
  /\ rows \subseteq Listed
  /\ read \in Nat
  /\ cursor \in Cursors \cup {None}
  /\ pc \in {"walking", "done"}

\* What one reply may be relied on for, to a request for `limit` from `at`.
PageHolds(reply, limit, at) ==
  /\ reply.items \subseteq Listed /\ Cardinality(reply.items) <= limit
  /\ reply.more \in BOOLEAN
  /\ ~reply.more => Listed \cap wanted \subseteq Past(at) \cup reply.items
  /\ reply.more => reply.next \in Cursors /\ reply.next # None
  /\ reply.more /\ (limit = PageSize \/ Cardinality(reply.items) < limit) =>
       Past(reply.next) \cap wanted \subseteq Past(at) \cup reply.items
  /\ (rail.pager \in {"numbered", "sliced"} => limit = PageSize) =>
       /\ reply.items \cap Past(at) = {}
       /\ reply.more => Past(at) \cup reply.items \subseteq Past(reply.next)
  /\ reply.more /\ rail.pager \in {"keyed", "numbered"} =>
       /\ Listed # {}
       /\ \A x \in reply.items : \E y \in Listed : Before(x, y)
  /\ reply.more /\ rail.pager = "numbered" =>
       /\ reply.next = (IF at = None THEN 1 ELSE at) + 1
       /\ Cardinality(reply.items) = limit

LEMMA ListedIs ==
  ASSUME FetchTyped
  PROVE  /\ Listed \in SUBSET Nat /\ IsFiniteSet(Listed) /\ Listed \subseteq Records
         /\ \A x \in Listed : x \in 1..held /\ day[x] \in Nat
         /\ \A S \in SUBSET Listed : S \in SUBSET Nat /\ IsFiniteSet(S)
         /\ None \notin Listed
<1>1. 1..held \subseteq Records /\ 1..held \subseteq Nat /\ IsFiniteSet(1..held)
  BY FetchAssumption, FS_Interval DEF FetchTyped, Records
<1>2. Listed \subseteq 1..held
  BY DEF Listed
<1>3. \A x \in Records : day[x] \in Nat
  BY FetchAssumption DEF FetchTyped, Days
<1>4. Listed \in SUBSET Nat /\ IsFiniteSet(Listed)
  BY <1>1, <1>2, FS_Subset
<1>5. \A S \in SUBSET Listed : IsFiniteSet(S)
  BY <1>4, FS_Subset
<1> QED BY <1>1, <1>2, <1>3, <1>4, <1>5, NoneAssumption

LEMMA RailIs ==
  ASSUME FetchTyped
  PROVE  /\ rail \in RailType /\ rail.pager \in Pagers /\ rail.cap \in Nat \ {0}
         /\ rail.pager \in {"sliced", "offset"} => rail.window = "both"
<1>1. rail \in RailType
  BY RailsAssumption DEF FetchTyped
<1> QED BY <1>1, RailsAssumption DEF FetchTyped, RailType

(***************************************************************************)
(* A page that resumes after a record.                                     *)
(***************************************************************************)
LEMMA KeyedPage ==
  ASSUME FetchTyped, rail.pager = "keyed", NEW limit \in 1..PageSize,
         NEW at \in Cursors \cup {None}, NEW reply \in KeyedReplies(limit, at)
  PROVE  PageHolds(reply, limit, at)
<1> DEFINE A == After(at)
           P == Part(A, 0, limit)
<1>1. /\ Cursors = Listed
      /\ \A c : c # None => Past(c) = {x \in Listed : ~Before(c, x)}
      /\ Past(None) = {}
  BY DEF Cursors, Past
<1>2. /\ Listed \in SUBSET Nat /\ A \subseteq Listed /\ A \in SUBSET Nat /\ IsFiniteSet(A)
      /\ None \notin Listed /\ limit \in Nat /\ Cardinality(A) \in Nat
  <2>1. A \subseteq Listed
    BY DEF After
  <2>2. A \in SUBSET Nat /\ IsFiniteSet(A)
    BY <2>1, ListedIs
  <2> QED BY <2>1, <2>2, ListedIs, FetchAssumption, FS_CardinalityType
<1>3. \A x \in Listed : x \in A \/ x \in Past(at)
  BY <1>1 DEF After
<1>4. A \cap Past(at) = {}
  BY <1>1, <1>2 DEF After
<1>5. P \subseteq A /\ IsFiniteSet(P) /\ Cardinality(P) \in 0..limit
  BY <1>2, PartSize
<1>6. \A x \in A : x \in P <=> Rank(x, A) \in 1..limit
  BY <1>2 DEF Part
<1>7. reply.items = P \cap wanted
  BY DEF KeyedReplies
<1>8. /\ reply.items \subseteq Listed /\ Cardinality(reply.items) <= limit
      /\ reply.items \cap Past(at) = {}
  <2>1. Cardinality(P \cap wanted) <= Cardinality(P) /\ IsFiniteSet(P \cap wanted)
    BY <1>5, FS_Subset
  <2>2. Cardinality(P \cap wanted) \in Nat
    BY <2>1, FS_CardinalityType
  <2> QED BY <1>2, <1>4, <1>5, <1>7, <2>1, <2>2
<1>9. CASE ~(Cardinality(A) > limit)
  <2>1. reply.more = FALSE
    BY <1>9 DEF KeyedReplies
  <2>2. P = A
    BY <1>2, <1>9, PartWhole
  <2> QED BY <1>3, <1>7, <1>8, <2>1, <2>2 DEF PageHolds
<1>10. CASE Cardinality(A) > limit
  <2>1. PICK x \in Part(A, limit - 1, 1) : reply.next = x /\ reply.more = TRUE
    BY <1>10 DEF KeyedReplies
  <2>2. x \in A /\ Rank(x, A) = limit /\ x \in Listed /\ x # None
    BY <1>2, <2>1 DEF Part
  <2>3. Past(x) \cap wanted \subseteq Past(at) \cup reply.items
    <3> SUFFICES ASSUME NEW z \in Listed, ~Before(x, z), z \in wanted, z \in A PROVE z \in P
      BY <1>1, <1>3, <1>7, <2>2
    <3>1. Rank(z, A) \in 1..Cardinality(A)
      BY <1>2, RankType
    <3>2. z = x \/ Rank(z, A) < Rank(x, A)
      BY <1>2, <2>2, RankGrows, BeforeIsOrder
    <3> QED BY <1>2, <1>6, <2>2, <3>1, <3>2
  <2>4. Past(at) \subseteq Past(x)
    BY <1>1, <1>2, <2>2, BeforeIsOrder DEF After
  <2>5. reply.items \subseteq Past(x)
    <3> SUFFICES ASSUME NEW z \in P, Before(x, z) PROVE FALSE
      BY <1>1, <1>2, <1>5, <1>7, <2>2
    <3>1. Rank(x, A) < Rank(z, A)
      BY <1>2, <1>5, <2>2, RankGrows
    <3>2. Rank(z, A) \in 1..limit
      BY <1>5, <1>6
    <3> QED BY <1>2, <2>2, <3>1, <3>2
  <2>6. ASSUME NEW z \in reply.items PROVE \E y \in Listed : Before(z, y)
    <3> SUFFICES ASSUME \A y \in Listed : ~Before(z, y) PROVE FALSE
      OBVIOUS
    <3>1. z \in A /\ Rank(z, A) \in 1..limit
      BY <1>5, <1>6, <1>7
    <3>2. Rank(z, A) = Cardinality(A)
      BY <1>2, <3>1, LastRank
    <3> QED BY <1>2, <1>10, <3>1, <3>2
  <2> QED BY <1>1, <1>8, <2>1, <2>2, <2>3, <2>4, <2>5, <2>6 DEF PageHolds
<1> QED BY <1>9, <1>10

(***************************************************************************)
(* A page by its number.                                                   *)
(***************************************************************************)
LEMMA NumberedPage ==
  ASSUME FetchTyped, rail.pager = "numbered", NEW limit \in 1..PageSize,
         NEW at \in Cursors \cup {None}
  PROVE  PageHolds(NumberedReply(limit, at), limit, at)
<1> DEFINE page == IF at = None THEN 1 ELSE at
           skip == (page - 1) * limit
           seen == (page - 1) * PageSize
           P == Part(Listed, skip, limit)
           reply == NumberedReply(limit, at)
<1>1. /\ Cursors = Nat \ {0}
      /\ \A c : c # None => Past(c) = {x \in Listed : Rank(x, Listed) <= (c - 1) * PageSize}
      /\ Past(None) = {}
  BY DEF Cursors, Past
<1>2. /\ Listed \in SUBSET Nat /\ IsFiniteSet(Listed) /\ None \notin Nat
      /\ Cardinality(Listed) \in Nat /\ limit \in Nat \ {0} /\ PageSize \in Nat /\ limit <= PageSize
  BY ListedIs, FetchAssumption, NoneAssumption, FS_CardinalityType
<1>3. page \in Nat \ {0}
  BY <1>1
<1>3b. page * limit = skip + limit /\ page * PageSize = seen + PageSize
  <2>1. \A n, a \in Nat : (n - 1) * a + a = n * a
    OBVIOUS
  <2> QED BY <1>2, <1>3, <2>1
<1>4. skip \in Nat /\ seen \in Nat /\ skip <= seen /\ (limit = PageSize => skip = seen)
  <2>1. page - 1 \in Nat
    BY <1>3
  <2>2. \A n, a, b \in Nat : a <= b => n * a \in Nat /\ n * b \in Nat /\ n * a <= n * b
    OBVIOUS
  <2> QED BY <1>2, <2>1, <2>2
<1>5. /\ reply.items = P /\ reply.more \in BOOLEAN
      /\ reply.more <=> skip + limit < Cardinality(Listed)
  <2>1. /\ reply.items = P /\ reply.more \in BOOLEAN
        /\ reply.more <=> page * limit < Cardinality(Listed)
    <3>1. reply.items = P /\ reply.more = (page * limit < Cardinality(Listed))
      BY DEF NumberedReply
    <3>2. (page * limit < Cardinality(Listed)) \in BOOLEAN
      OBVIOUS
    <3> HIDE DEF reply, P, page
    <3> QED BY <3>1, <3>2, Zenon
  <2>2. page * limit < Cardinality(Listed) <=> skip + limit < Cardinality(Listed)
    BY <1>3b
  <2> HIDE DEF reply, P, page, skip
  <2> QED BY <2>1, <2>2
<1>6. Past(at) = {x \in Listed : Rank(x, Listed) <= seen}
  <2>1. \A x \in Listed : Rank(x, Listed) \in Nat \ {0}
    BY <1>2, RankType
  <2>2. CASE at = None
    <3>1. seen = 0
      BY <1>2, <2>2
    <3> HIDE DEF seen
    <3> QED BY <1>1, <2>1, <2>2, <3>1
  <2>3. CASE at # None
    BY <1>1, <2>3
  <2> QED BY <2>2, <2>3
<1>7. reply.more => reply.next = page + 1
  BY DEF NumberedReply
<1>8. page + 1 # None /\ Past(page + 1) = {x \in Listed : Rank(x, Listed) <= seen + PageSize}
  <2>1. page + 1 # None /\ page + 1 \in Nat /\ (page + 1) - 1 = page
    BY <1>2, <1>3
  <2> QED BY <1>1, <1>3b, <2>1
<1>9. page = IF at = None THEN 1 ELSE at
  OBVIOUS
<1> HIDE DEF page, skip, seen, reply
<1>10. \A x \in Listed : Rank(x, Listed) \in Nat \ {0} /\ Rank(x, Listed) <= Cardinality(Listed)
  BY <1>2, RankType
<1>11. P \subseteq Listed /\ Cardinality(P) \in 0..limit
      /\ (skip + limit <= Cardinality(Listed) => Cardinality(P) = limit)
  BY <1>2, <1>4, PartSize
<1>12. \A x \in Listed : x \in P <=> Rank(x, Listed) > skip /\ Rank(x, Listed) <= skip + limit
  BY <1>2, <1>4, <1>10 DEF Part
<1> HIDE DEF P
<1>13. limit = PageSize => reply.items \cap Past(at) = {}
  <2> SUFFICES ASSUME limit = PageSize, NEW x \in P, x \in Past(at) PROVE FALSE
    BY <1>5
  <2>1. x \in Listed /\ Rank(x, Listed) > skip
    BY <1>11, <1>12
  <2>2. Rank(x, Listed) <= seen /\ skip = seen
    BY <1>4, <1>6
  <2> QED BY <1>4, <1>10, <2>1, <2>2
<1>14. CASE ~reply.more
  <2>1. Listed \subseteq Past(at) \cup P
    BY <1>2, <1>4, <1>5, <1>6, <1>10, <1>12, <1>14
  <2>2. Listed \cap wanted \subseteq Past(at) \cup reply.items
    BY <1>5, <2>1
  <2>3. reply.items \subseteq Listed /\ Cardinality(reply.items) <= limit
    BY <1>2, <1>5, <1>11
  <2> QED BY <1>5, <1>13, <1>14, <2>2, <2>3 DEF PageHolds, reply
<1>15. CASE reply.more
  <2>1. skip + limit < Cardinality(Listed) /\ Cardinality(P) = limit
    BY <1>2, <1>4, <1>5, <1>11, <1>15
  <2>2. limit = PageSize => Past(page + 1) = Past(at) \cup P
    <3> SUFFICES ASSUME limit = PageSize, NEW x \in Listed
                 PROVE  x \in Past(page + 1) <=> x \in Past(at) \/ x \in P
      BY <1>6, <1>8, <1>11
    <3> QED BY <1>2, <1>4, <1>6, <1>8, <1>10, <1>12
  <2>3. ASSUME NEW x \in reply.items PROVE \E y \in Listed : Before(x, y)
    <3> SUFFICES ASSUME \A y \in Listed : ~Before(x, y) PROVE FALSE
      OBVIOUS
    <3>1. x \in Listed /\ Rank(x, Listed) = Cardinality(Listed)
      BY <1>2, <1>5, <1>11, LastRank
    <3> QED BY <1>2, <1>4, <1>5, <1>12, <2>1, <3>1
  <2>4. Listed # {}
    BY <1>2, <1>4, <2>1, FS_EmptySet
  <2>5. page + 1 \in Cursors /\ page + 1 = (IF at = None THEN 1 ELSE at) + 1
    BY <1>1, <1>3, <1>9
  <2> QED BY <1>2, <1>5, <1>7, <1>8, <1>11, <1>13, <1>15, <2>1, <2>2, <2>3, <2>4, <2>5 DEF PageHolds, reply
<1> QED BY <1>5, <1>14, <1>15 DEF reply

(***************************************************************************)
(* The slices of a window.                                                 *)
(***************************************************************************)
\* The day slice k begins on.
Edge(k) == From + k * Width

LEMMA EdgeGrows ==
  /\ Edge(0) = From
  /\ \A k \in Nat : Edge(k) \in Nat /\ Edge(k + 1) = Edge(k) + Width
  /\ \A j, k \in Nat : j < k => Edge(j + 1) <= Edge(k)
<1>1. From \in Nat /\ Width \in Nat \ {0}
  BY FetchAssumption
<1>2. \A a, b, w \in Nat : a <= b => a * w \in Nat /\ a * w <= b * w
  OBVIOUS
<1>3. \A k \in Nat : k * Width \in Nat /\ (k + 1) * Width = k * Width + Width
  BY <1>1
<1>4. ASSUME NEW j \in Nat, NEW k \in Nat, j < k PROVE (j + 1) * Width <= k * Width
  BY <1>1, <1>2, <1>4
<1>5. 0 * Width = 0
  BY <1>1
<1>6. ASSUME NEW j \in Nat, NEW k \in Nat, j < k PROVE Edge(j + 1) <= Edge(k)
  <2>1. (j + 1) * Width \in Nat /\ k * Width \in Nat
    BY <1>3
  <2> QED BY <1>1, <1>4, <1>6, <2>1 DEF Edge
<1>7. ASSUME NEW k \in Nat PROVE Edge(k) \in Nat /\ Edge(k + 1) = Edge(k) + Width
  BY <1>1, <1>3 DEF Edge
<1> QED BY <1>1, <1>5, <1>6, <1>7 DEF Edge

LEMMA SliceIs ==
  ASSUME FetchTyped, rail.window = "both", NEW k \in Nat
  PROVE  /\ Slice(k) \in SUBSET Listed /\ Slice(k) \in SUBSET Nat /\ IsFiniteSet(Slice(k))
         /\ \A x \in Listed : x \in Slice(k) <=> Edge(k) <= day[x] /\ day[x] < Edge(k + 1)
         /\ \A x \in Listed : day[x] \in Nat /\ From <= day[x] /\ day[x] <= To
         /\ \A n : SlicesBefore(k, n) =
              {x \in Listed : day[x] < Edge(k) \/ (x \in Slice(k) /\ Rank(x, Slice(k)) <= n)}
         /\ \A end : LastSlice(k, end) <=> Edge(k + 1) > end
<1>1. \A x \in Listed : day[x] \in Nat /\ From <= day[x] /\ day[x] <= To
  BY ListedIs, FetchAssumption DEF Listed
<1>2. Slice(k) \in SUBSET Listed
  BY DEF Slice
<1>3. Edge(k) \in Nat /\ Edge(k + 1) \in Nat
  BY EdgeGrows
<1>4. \A x \in Listed : x \in Slice(k) <=> day[x] \in Edge(k)..(Edge(k + 1) - 1)
  <2>1. Edge(k) = From + k * Width /\ Edge(k + 1) = From + (k + 1) * Width
    BY DEF Edge
  <2>2. \A x \in Listed : x \in Slice(k) <=> day[x] \in (From + k * Width)..(From + (k + 1) * Width - 1)
    BY Zenon DEF Slice
  <2>3. (From + k * Width)..(From + (k + 1) * Width - 1) = Edge(k)..(Edge(k + 1) - 1)
    <3>1. From \in Int /\ k * Width \in Int /\ (k + 1) * Width \in Int
      BY FetchAssumption
    <3> QED BY <2>1, <3>1, <1>3
  <2> QED BY <2>2, <2>3
<1>5. \A x \in Listed : x \in Slice(k) <=> Edge(k) <= day[x] /\ day[x] < Edge(k + 1)
  BY <1>1, <1>3, <1>4
<1>6. Slice(k) \in SUBSET Nat /\ IsFiniteSet(Slice(k))
  BY <1>2, ListedIs
<1> QED BY <1>1, <1>2, <1>5, <1>6 DEF SlicesBefore, LastSlice, Edge

\* The slice has no more than m records.
WithinPage(k, m) == \A x \in Slice(k) : Rank(x, Slice(k)) <= m

\* What a page of a slice adds to the records before it.
PageAdds(k, n, limit) ==
  LET page == Part(Slice(k), n, limit) IN
  /\ page \subseteq Slice(k) /\ page \subseteq Listed
  /\ page \cap SlicesBefore(k, n) = {}
  /\ SlicesBefore(k, n + limit) = SlicesBefore(k, n) \cup page
  /\ WithinPage(k, n + limit) => SlicesBefore(k + 1, 0) = SlicesBefore(k, n) \cup page

LEMMA SlicePage ==
  ASSUME FetchTyped, rail.window = "both", NEW k \in Nat, NEW n \in Nat, NEW limit \in Nat
  PROVE  PageAdds(k, n, limit)
<1> DEFINE page == Part(Slice(k), n, limit)
           S == Slice(k)
<1>1. /\ S \subseteq Listed /\ S \in SUBSET Nat /\ IsFiniteSet(S)
      /\ \A x \in Listed : x \in S <=> Edge(k) <= day[x] /\ day[x] < Edge(k + 1)
      /\ \A x \in Listed : day[x] \in Nat
      /\ \A m : SlicesBefore(k, m) = {x \in Listed : day[x] < Edge(k) \/ (x \in S /\ Rank(x, S) <= m)}
  BY SliceIs
<1>2. k + 1 \in Nat /\ Edge(k) \in Nat /\ Edge(k + 1) \in Nat /\ Edge(k) <= Edge(k + 1)
  BY EdgeGrows, FetchAssumption
<1>3. \A x \in S : Rank(x, S) \in Nat
  BY <1>1, RankType
<1>4. \A x : x \in page <=> x \in S /\ n < Rank(x, S) /\ Rank(x, S) <= n + limit
  BY <1>3 DEF Part
<1>5. SlicesBefore(k + 1, 0) = {x \in Listed : day[x] < Edge(k + 1)}
  <2>1. \A m : SlicesBefore(k + 1, m) =
          {x \in Listed : day[x] < Edge(k + 1) \/ (x \in Slice(k + 1) /\ Rank(x, Slice(k + 1)) <= m)}
    BY <1>2, SliceIs
  <2>2. Slice(k + 1) \in SUBSET Nat /\ IsFiniteSet(Slice(k + 1))
    BY <1>2, SliceIs
  <2>3. \A x \in Slice(k + 1) : Rank(x, Slice(k + 1)) \in Nat \ {0}
    BY <2>2, RankType
  <2> QED BY <2>1, <2>3
<1> HIDE DEF page, S
<1>6. page \subseteq S /\ page \subseteq Listed
  BY <1>1, <1>4
<1>7. page \cap SlicesBefore(k, n) = {}
  <2> SUFFICES ASSUME NEW x \in page, x \in SlicesBefore(k, n) PROVE FALSE
    OBVIOUS
  <2>1. x \in S /\ n < Rank(x, S) /\ Rank(x, S) \in Nat /\ Edge(k) <= day[x] /\ x \in Listed
    BY <1>1, <1>3, <1>4
  <2> QED BY <1>1, <1>2, <2>1
<1>8. SlicesBefore(k, n + limit) = SlicesBefore(k, n) \cup page
  <2>1. ASSUME NEW x \in Listed
        PROVE  x \in SlicesBefore(k, n + limit) <=> x \in SlicesBefore(k, n) \cup page
    <3>1. CASE x \notin S
      BY <1>1, <1>4, <3>1
    <3>2. CASE x \in S
      BY <1>1, <1>3, <1>4, <3>2
    <3> QED BY <3>1, <3>2
  <2> QED BY <1>1, <1>6, <2>1
<1>9. (\A x \in S : Rank(x, S) <= n + limit) => SlicesBefore(k + 1, 0) = SlicesBefore(k, n) \cup page
  <2> HAVE \A x \in S : Rank(x, S) <= n + limit
  <2>1. ASSUME NEW x \in Listed
        PROVE  x \in SlicesBefore(k + 1, 0) <=> x \in SlicesBefore(k, n) \cup page
    <3>1. CASE x \notin S
      BY <1>1, <1>2, <1>4, <1>5, <3>1
    <3>2. CASE x \in S
      BY <1>1, <1>2, <1>3, <1>4, <1>5, <3>2
    <3> QED BY <3>1, <3>2
  <2> QED BY <1>1, <1>5, <1>6, <2>1
<1> QED BY <1>6, <1>7, <1>8, <1>9 DEF page, S, WithinPage, PageAdds

LEMMA SlicesGrow ==
  ASSUME FetchTyped, rail.window = "both", NEW k \in Nat, NEW n \in Nat, NEW m \in Nat, n <= m
  PROVE  SlicesBefore(k, n) \subseteq SlicesBefore(k, m)
<1>1. \A x \in Slice(k) : Rank(x, Slice(k)) \in Nat
  BY SliceIs, RankType
<1> QED BY <1>1 DEF SlicesBefore

LEMMA NoneBeforeTheFirst ==
  ASSUME FetchTyped, rail.window = "both"
  PROVE  SlicesBefore(0, 0) = {}
<1>1. /\ SlicesBefore(0, 0) = {x \in Listed : day[x] < Edge(0) \/ (x \in Slice(0) /\ Rank(x, Slice(0)) <= 0)}
      /\ \A x \in Listed : day[x] \in Nat /\ From <= day[x]
      /\ Slice(0) \in SUBSET Nat /\ IsFiniteSet(Slice(0))
  BY SliceIs
<1>2. \A x \in Slice(0) : Rank(x, Slice(0)) \in Nat \ {0}
  BY <1>1, RankType
<1> QED BY <1>1, <1>2, EdgeGrows, FetchAssumption

\* Slices walked past: what lies before a later slice lies before an earlier
\* one or in a slice between.
LEMMA SlicesBetween ==
  ASSUME FetchTyped, rail.window = "both", NEW b \in Nat, NEW k \in Nat, b < k, NEW n \in Nat
  PROVE  /\ SlicesBefore(b, n) \subseteq SlicesBefore(k, 0)
         /\ \A x \in SlicesBefore(k, 0) :
              x \in SlicesBefore(b, n) \/ \E i \in b..(k - 1) : x \in Slice(i)
<1>1. /\ \A x \in Listed : day[x] \in Nat
      /\ \A i \in Nat, x \in Listed : x \in Slice(i) <=> Edge(i) <= day[x] /\ day[x] < Edge(i + 1)
      /\ SlicesBefore(b, n) = {x \in Listed : day[x] < Edge(b) \/ (x \in Slice(b) /\ Rank(x, Slice(b)) <= n)}
      /\ SlicesBefore(k, 0) = {x \in Listed : day[x] < Edge(k) \/ (x \in Slice(k) /\ Rank(x, Slice(k)) <= 0)}
  BY SliceIs
<1>2. \A x \in Slice(k) : Rank(x, Slice(k)) \in Nat \ {0}
  BY SliceIs, RankType
<1>3. SlicesBefore(k, 0) = {x \in Listed : day[x] < Edge(k)}
  BY <1>1, <1>2
<1>4. \A i \in Nat : Edge(i) \in Nat
  BY EdgeGrows
<1>5. Edge(b) <= Edge(b + 1) /\ Edge(b + 1) <= Edge(k)
  BY EdgeGrows, FetchAssumption
<1>6. SlicesBefore(b, n) \subseteq SlicesBefore(k, 0)
  BY <1>1, <1>3, <1>4, <1>5
<1>7. ASSUME NEW x \in Listed, day[x] < Edge(k), ~(day[x] < Edge(b))
      PROVE  \E i \in b..(k - 1) : x \in Slice(i)
  <2> DEFINE E == {i \in Nat : day[x] < Edge(i + 1)}
  <2>1. k - 1 \in Nat /\ (k - 1) + 1 = k
    OBVIOUS
  <2>2. k - 1 \in E
    BY <1>7, <2>1
  <2>3. PICK i \in E : \A j \in E : i <= j
    <3>1. E \in SUBSET Nat /\ E # {}
      BY <2>2
    <3> QED BY <3>1, LeastExists
  <2>4. i \in Nat /\ i <= k - 1 /\ day[x] < Edge(i + 1)
    BY <2>2, <2>3
  <2>5. b <= i
    <3> SUFFICES ASSUME i < b PROVE FALSE
      BY <2>4
    <3>1. Edge(i + 1) <= Edge(b)
      BY <2>4, EdgeGrows
    <3>2. Edge(i + 1) \in Nat /\ Edge(b) \in Nat /\ day[x] \in Nat
      BY <1>1, <1>4, <2>4
    <3> QED BY <1>7, <2>4, <3>1, <3>2
  <2>6. Edge(i) <= day[x]
    <3>1. CASE i = b
      BY <1>1, <1>4, <1>7, <3>1
    <3>2. CASE i # b
      <4>1. i - 1 \in Nat /\ (i - 1) + 1 = i /\ ~(i <= i - 1)
        BY <2>4, <2>5, <3>2
      <4>2. i - 1 \notin E
        BY <2>3, <4>1
      <4>3. ~(day[x] < Edge(i))
        BY <4>1, <4>2
      <4> QED BY <1>1, <1>4, <2>4, <4>3
    <3> QED BY <3>1, <3>2
  <2>7. x \in Slice(i)
    BY <1>1, <2>4, <2>6
  <2>8. i \in b..(k - 1)
    BY <2>1, <2>4, <2>5
  <2> QED BY <2>7, <2>8
<1>8. ASSUME NEW x \in SlicesBefore(k, 0)
      PROVE  x \in SlicesBefore(b, n) \/ \E i \in b..(k - 1) : x \in Slice(i)
  BY <1>1, <1>3, <1>7
<1> QED BY <1>6, <1>8

(***************************************************************************)
(* A page of a slice, by its number.                                       *)
(***************************************************************************)
LEMMA SlicedPage ==
  ASSUME FetchTyped, rail.pager = "sliced", NEW limit \in 1..PageSize,
         NEW at \in Cursors \cup {None}, NEW reply \in SlicedReplies(limit, at)
  PROVE  PageHolds(reply, limit, at)
<1> DEFINE begin    == IF at = None THEN [slice |-> 0, page |-> 1] ELSE at
           Page(k)  == IF k = begin.slice THEN begin.page ELSE 1
           Items(k) == Part(Slice(k), (Page(k) - 1) * limit, limit)
           Pages(k) == Page(k) * limit < Cardinality(Slice(k))
           Final(k) == LastSlice(k, Min({To, Horizon}))
           Stop(k)  == Pages(k) \/ Items(k) # {} \/ Final(k)
<1>1. PICK k \in begin.slice..To :
        /\ \A i \in begin.slice..(k - 1) : ~Stop(i)
        /\ reply = [items |-> Items(k), more |-> Pages(k) \/ ~Final(k),
                    next |-> IF Pages(k) THEN [slice |-> k, page |-> Page(k) + 1]
                             ELSE IF ~Final(k) THEN [slice |-> k + 1, page |-> 1] ELSE None]
  BY DEF SlicedReplies
<1>2. /\ rail.window = "both" /\ Cursors = [slice: Nat, page: Nat \ {0}]
      /\ \A c : c # None => Past(c) = SlicesBefore(c.slice, (c.page - 1) * PageSize)
      /\ Past(None) = {}
  BY RailIs DEF Cursors, Past
<1>3. /\ limit \in Nat \ {0} /\ PageSize \in Nat /\ limit <= PageSize /\ To \in Nat /\ Horizon \in Nat
      /\ None \notin [slice: Nat, page: Nat]
  BY FetchAssumption, NoneAssumption
<1>4. begin \in [slice: Nat, page: Nat \ {0}] /\ begin.slice \in Nat /\ begin.page \in Nat \ {0}
  BY <1>2
<1>5. k \in Nat /\ begin.slice <= k
  BY <1>3, <1>4
<1>6. \A i \in Nat : Page(i) \in Nat \ {0}
  BY <1>4
<1> HIDE DEF begin, Page
<1> DEFINE Skip(i) == (Page(i) - 1) * limit
           Seen(i) == (Page(i) - 1) * PageSize
<1>7. ASSUME NEW i \in Nat
      PROVE  /\ Skip(i) \in Nat /\ Seen(i) \in Nat /\ Skip(i) <= Seen(i)
             /\ limit = PageSize => Skip(i) = Seen(i)
  <2>1. \A n, a, b \in Nat : a <= b => n * a \in Nat /\ n * b \in Nat /\ n * a <= n * b
    OBVIOUS
  <2>2. Page(i) - 1 \in Nat
    BY <1>6
  <2> QED BY <1>3, <2>1, <2>2
<1>7b. ASSUME NEW i \in Nat
       PROVE  Page(i) * limit = Skip(i) + limit /\ Page(i) * PageSize = Seen(i) + PageSize
  <2>1. \A n \in Nat \ {0}, a \in Nat : n * a = (n - 1) * a + a
    OBVIOUS
  <2>2. Page(i) \in Nat \ {0}
    BY <1>6
  <2> QED BY <1>3, <2>1, <2>2
<1>8. \A i \in Nat : i # begin.slice => Skip(i) = 0 /\ Seen(i) = 0
  BY <1>3 DEF Page
<1>9. Past(at) = SlicesBefore(begin.slice, Seen(begin.slice))
  <2>1. Page(begin.slice) = begin.page
    BY DEF Page
  <2>2. CASE at = None
    <3>1. begin.slice = 0 /\ begin.page = 1
      BY <2>2 DEF begin
    <3>2. Seen(begin.slice) = 0
      BY <1>3, <2>1, <3>1
    <3> QED BY <1>2, <2>2, <3>1, <3>2, NoneBeforeTheFirst
  <2>3. CASE at # None
    BY <1>2, <2>1, <2>3 DEF begin
  <2> QED BY <2>2, <2>3
<1> DEFINE Q == SlicesBefore(k, Seen(k))
           S == Slice(k)
<1>10. \A i \in Nat : Slice(i) \in SUBSET Nat /\ IsFiniteSet(Slice(i)) /\ Slice(i) \in SUBSET Listed
  BY <1>2, SliceIs
<1>11. \A i \in Nat : /\ Cardinality(Slice(i)) \in Nat
                      /\ \A x \in Slice(i) : /\ Rank(x, Slice(i)) \in Nat \ {0}
                                             /\ Rank(x, Slice(i)) <= Cardinality(Slice(i))
  <2> SUFFICES ASSUME NEW i \in Nat
               PROVE  /\ Cardinality(Slice(i)) \in Nat
                      /\ \A x \in Slice(i) : Rank(x, Slice(i)) \in 1..Cardinality(Slice(i))
    OBVIOUS
  <2>1. Slice(i) \in SUBSET Nat /\ IsFiniteSet(Slice(i))
    BY <1>10
  <2> QED BY <2>1, RankType, FS_CardinalityType
<1>12. \A i \in Nat : Items(i) = {x \in Slice(i) : Skip(i) < Rank(x, Slice(i))
                                                     /\ Rank(x, Slice(i)) <= Skip(i) + limit}
  <2> SUFFICES ASSUME NEW i \in Nat, NEW x \in Slice(i)
               PROVE  Rank(x, Slice(i)) \in (Skip(i) + 1)..(Skip(i) + limit)
                        <=> Skip(i) < Rank(x, Slice(i)) /\ Rank(x, Slice(i)) <= Skip(i) + limit
    BY DEF Part
  <2>1. Skip(i) \in Nat /\ Rank(x, Slice(i)) \in Nat
    BY <1>7, <1>11
  <2> HIDE DEF Skip
  <2> QED BY <1>3, <2>1
<1>13. \A i \in Nat : Pages(i) <=> Skip(i) + limit < Cardinality(Slice(i))
  BY <1>7b
<1>14. \A i \in begin.slice..(k - 1) : i \in Nat /\ ~Pages(i) /\ Items(i) = {}
  BY <1>1, <1>4
<1> HIDE DEF Skip, Seen, Items, Pages
<1>15. ASSUME NEW i \in begin.slice..(k - 1), NEW x \in Slice(i)
       PROVE  i = begin.slice /\ Rank(x, Slice(i)) <= Seen(i)
  <2>1. /\ i \in Nat /\ Rank(x, Slice(i)) \in Nat \ {0} /\ Rank(x, Slice(i)) <= Cardinality(Slice(i))
        /\ Skip(i) \in Nat /\ Seen(i) \in Nat /\ Skip(i) <= Seen(i) /\ Cardinality(Slice(i)) \in Nat
    BY <1>7, <1>11, <1>14
  <2>2. Cardinality(Slice(i)) <= Skip(i) + limit
    BY <1>3, <1>13, <1>14, <2>1
  <2>3. ~(Skip(i) < Rank(x, Slice(i)) /\ Rank(x, Slice(i)) <= Skip(i) + limit)
    BY <1>12, <1>14
  <2>4. Rank(x, Slice(i)) <= Skip(i)
    BY <1>3, <2>1, <2>2, <2>3
  <2>5. Skip(i) # 0
    BY <2>1, <2>4
  <2>6. i = begin.slice
    BY <1>8, <2>1, <2>5
  <2> QED BY <2>1, <2>4, <2>6
<1>16. Past(at) = Q
  <2>1. CASE k = begin.slice
    BY <1>9, <2>1
  <2>2. CASE k # begin.slice
    <3> DEFINE b == begin.slice
               B == SlicesBefore(b, Seen(b))
    <3>1. b \in Nat /\ b < k /\ Seen(b) \in Nat /\ Seen(k) = 0
      BY <1>4, <1>5, <1>7, <1>8, <2>2
    <3>2. /\ B \subseteq SlicesBefore(k, 0)
          /\ \A x \in SlicesBefore(k, 0) : x \in B \/ \E i \in b..(k - 1) : x \in Slice(i)
      BY <1>2, <1>5, <3>1, SlicesBetween
    <3>3. \A i \in b..(k - 1) : \A x \in Slice(i) : x \in B
      BY <1>10, <1>15, <3>1 DEF SlicesBefore
    <3> QED BY <1>9, <3>1, <3>2, <3>3
  <2> QED BY <2>1, <2>2
<1> DEFINE P == Items(k)
<1>17. /\ Skip(k) \in Nat /\ Seen(k) \in Nat /\ Skip(k) <= Seen(k)
       /\ limit = PageSize => Skip(k) = Seen(k)
       /\ P = Part(S, Skip(k), limit)
  BY <1>5, <1>7 DEF Items, Skip
<1>18. /\ P \subseteq Listed /\ P \subseteq S /\ P \cap SlicesBefore(k, Skip(k)) = {}
       /\ SlicesBefore(k, Skip(k) + limit) = SlicesBefore(k, Skip(k)) \cup P
       /\ WithinPage(k, Skip(k) + limit) => SlicesBefore(k + 1, 0) = SlicesBefore(k, Skip(k)) \cup P
  <2>1. PageAdds(k, Skip(k), limit)
    BY <1>2, <1>3, <1>5, <1>17, SlicePage
  <2> HIDE DEF P
  <2> QED BY <1>17, <2>1 DEF PageAdds
<1>19. SlicesBefore(k, Skip(k)) \subseteq Q
  BY <1>2, <1>5, <1>17, SlicesGrow
<1>20. /\ Cardinality(P) \in 0..limit
       /\ Skip(k) + limit <= Cardinality(S) => Cardinality(P) = limit
  BY <1>3, <1>5, <1>10, <1>17, PartSize
<1>21. /\ reply.items = P /\ reply.more \in BOOLEAN
       /\ reply.more <=> Pages(k) \/ ~Final(k)
       /\ reply.next = IF Pages(k) THEN [slice |-> k, page |-> Page(k) + 1]
                       ELSE IF ~Final(k) THEN [slice |-> k + 1, page |-> 1] ELSE None
  <2>1. (Pages(k) \/ ~Final(k)) \in BOOLEAN
    OBVIOUS
  <2>2. reply.more = (Pages(k) \/ ~Final(k))
    BY <1>1 DEF Items, Pages, Skip
  <2>3. reply.more \in BOOLEAN /\ (reply.more <=> Pages(k) \/ ~Final(k))
    BY Zenon, <2>1, <2>2
  <2> QED BY <1>1, <2>3 DEF Items, Pages, Skip
<1>22. reply.items \subseteq Listed /\ Cardinality(reply.items) <= limit
  BY <1>3, <1>18, <1>20, <1>21
<1>23. limit = PageSize => reply.items \cap Past(at) = {}
  BY <1>16, <1>17, <1>18, <1>21
<1>24. rail.pager \notin {"keyed", "numbered"}
  OBVIOUS
<1>25. CASE Pages(k)
  <2> DEFINE nx == [slice |-> k, page |-> Page(k) + 1]
  <2>1. nx \in Cursors /\ nx # None
    BY <1>2, <1>3, <1>5, <1>6
  <2>2. reply.more /\ reply.next = nx
    BY <1>21, <1>25
  <2>3. Past(nx) = SlicesBefore(k, Seen(k) + PageSize)
    <3>1. Page(k) \in Nat /\ (Page(k) + 1) - 1 = Page(k) /\ Page(k) * PageSize = Seen(k) + PageSize
      BY <1>5, <1>6, <1>7b
    <3>2. Past(nx) = SlicesBefore(nx.slice, (nx.page - 1) * PageSize)
      BY <1>2, <2>1
    <3> QED BY <3>1, <3>2
  <2>4. Cardinality(P) = limit
    BY <1>3, <1>5, <1>11, <1>13, <1>17, <1>20, <1>25
  <2>5. limit = PageSize => Past(nx) = Past(at) \cup P
    BY <1>16, <1>17, <1>18, <2>3
  <2> HIDE DEF nx, P
  <2>6. ~(Cardinality(reply.items) < limit)
    BY <1>3, <1>21, <2>4
  <2> QED BY <1>21, <1>22, <1>23, <1>24, <2>1, <2>2, <2>5, <2>6 DEF PageHolds
<1>26. CASE ~Pages(k)
  <2>1. WithinPage(k, Skip(k) + limit)
    BY <1>3, <1>5, <1>11, <1>13, <1>17, <1>26 DEF WithinPage
  <2>2. SlicesBefore(k + 1, 0) = SlicesBefore(k, Skip(k)) \cup P
    BY <1>18, <2>1
  <2>3. SlicesBefore(k + 1, 0) \subseteq Past(at) \cup P
    BY <1>16, <1>19, <2>2
  <2>4. CASE ~Final(k)
    <3> DEFINE nx == [slice |-> k + 1, page |-> 1]
    <3>1. nx \in Cursors /\ nx # None
      BY <1>2, <1>3, <1>5
    <3>2. reply.more /\ reply.next = nx
      BY <1>21, <1>26, <2>4
    <3>3. Past(nx) = SlicesBefore(k + 1, 0)
      <4>1. Past(nx) = SlicesBefore(nx.slice, (nx.page - 1) * PageSize)
        BY <1>2, <3>1
      <4>2. (1 - 1) * PageSize = 0
        BY <1>3
      <4> QED BY <4>1, <4>2
    <3>4. limit = PageSize => Past(at) \cup P \subseteq Past(nx)
      BY <1>16, <1>17, <2>2, <3>3
    <3> HIDE DEF nx, P
    <3> QED BY <1>3, <1>21, <1>22, <1>23, <1>24, <2>3, <3>1, <3>2, <3>3, <3>4 DEF PageHolds
  <2>5. CASE Final(k)
    <3>1. Edge(k + 1) > Min({To, Horizon})
      BY <1>2, <1>5, <2>5, SliceIs
    <3>2. Min({To, Horizon}) = IF To <= Horizon THEN To ELSE Horizon
      <4>1. To \in Int /\ Horizon \in Int
        BY <1>3
      <4> QED BY <4>1, MinIs
    <3>3. \A x \in Listed : day[x] \in Nat /\ day[x] <= To /\ day[x] <= Horizon
      BY <1>2, SliceIs DEF Listed
    <3>4. k + 1 \in Nat /\ Edge(k + 1) \in Nat
      BY <1>5, EdgeGrows
    <3>5. \A x \in Listed : day[x] < Edge(k + 1)
      BY <1>3, <3>1, <3>2, <3>3, <3>4
    <3>6. Listed \subseteq SlicesBefore(k + 1, 0)
      BY <3>5 DEF SlicesBefore, Edge
    <3>7. ~reply.more
      BY <1>21, <1>26, <2>5
    <3> HIDE DEF P
    <3> QED BY <1>21, <1>22, <1>23, <2>3, <3>6, <3>7 DEF PageHolds
  <2> QED BY <2>4, <2>5
<1> QED BY <1>25, <1>26

(***************************************************************************)
(* A page of a slice, by how much of it was returned.                      *)
(***************************************************************************)
LEMMA OffsetPage ==
  ASSUME FetchTyped, rail.pager = "offset", NEW limit \in 1..PageSize,
         NEW at \in Cursors \cup {None}, NEW reply \in OffsetReplies(limit, at)
  PROVE  PageHolds(reply, limit, at)
<1> DEFINE begin   == IF at = None THEN [slice |-> 0, skip |-> 0] ELSE at
           Skip(k) == IF k = begin.slice THEN begin.skip ELSE 0
           Raw(k)  == Part(Slice(k), Skip(k), limit)
           Full(k) == Cardinality(Raw(k)) >= limit
           Ends(k) == LastSlice(k, To)
           Stop(k) == Full(k) \/ Raw(k) \cap wanted # {} \/ Ends(k) \/ k + 1 = begin.slice + MaxSlices
<1>1. PICK k \in begin.slice..To :
        /\ \A i \in begin.slice..(k - 1) : ~Stop(i)
        /\ reply = [items |-> Raw(k) \cap wanted, more |-> Full(k) \/ ~Ends(k),
                    next |-> IF Full(k) THEN [slice |-> k, skip |-> Skip(k) + Cardinality(Raw(k))]
                             ELSE IF ~Ends(k) THEN [slice |-> k + 1, skip |-> 0] ELSE None]
  BY DEF OffsetReplies
<1>2. /\ rail.window = "both" /\ Cursors = [slice: Nat, skip: Nat]
      /\ \A c : c # None => Past(c) = SlicesBefore(c.slice, c.skip)
      /\ Past(None) = {}
  BY RailIs DEF Cursors, Past
<1>3. /\ limit \in Nat \ {0} /\ To \in Nat /\ None \notin [slice: Nat, skip: Nat]
  BY FetchAssumption, NoneAssumption
<1>4. begin \in [slice: Nat, skip: Nat] /\ begin.slice \in Nat /\ begin.skip \in Nat
  BY <1>2
<1>5. k \in Nat /\ begin.slice <= k
  BY <1>3, <1>4
<1>6. \A i \in Nat : Skip(i) \in Nat /\ (i # begin.slice => Skip(i) = 0)
  BY <1>4
<1>7. Past(at) = SlicesBefore(begin.slice, Skip(begin.slice))
  <2>1. CASE at = None
    BY <1>2, <2>1, NoneBeforeTheFirst
  <2>2. CASE at # None
    BY <1>2, <2>2
  <2> QED BY <2>1, <2>2
<1>8. \A i \in Nat : Slice(i) \in SUBSET Nat /\ IsFiniteSet(Slice(i)) /\ Slice(i) \in SUBSET Listed
  BY <1>2, SliceIs
<1>9. \A i \in begin.slice..(k - 1) : i \in Nat /\ ~Full(i) /\ Raw(i) \cap wanted = {}
  BY <1>1, <1>4
<1> HIDE DEF begin, Skip
<1>10. ASSUME NEW i \in Nat
       PROVE  /\ IsFiniteSet(Raw(i)) /\ Cardinality(Raw(i)) \in 0..limit
              /\ ~Full(i) => WithinPage(i, Skip(i) + limit)
  <2>1. Slice(i) \in SUBSET Nat /\ IsFiniteSet(Slice(i)) /\ Skip(i) \in Nat /\ limit \in Nat
    BY <1>3, <1>6, <1>8
  <2>2. IsFiniteSet(Raw(i)) /\ Cardinality(Raw(i)) \in 0..limit
    BY <2>1, PartSize
  <2>3. ~Full(i) => Cardinality(Raw(i)) < limit
    BY <2>1, <2>2
  <2>4. Cardinality(Raw(i)) < limit => WithinPage(i, Skip(i) + limit)
    BY <2>1, PartShort DEF WithinPage
  <2> QED BY <2>2, <2>3, <2>4
<1>11. ASSUME NEW i \in begin.slice..(k - 1), NEW x \in Slice(i) \cap wanted
       PROVE  i = begin.slice /\ Rank(x, Slice(i)) <= Skip(i)
  <2>1. i \in Nat /\ ~Full(i) /\ x \notin Raw(i) /\ Skip(i) \in Nat
    BY <1>6, <1>9
  <2>2. Rank(x, Slice(i)) <= Skip(i) + limit
    BY <1>10, <2>1 DEF WithinPage
  <2>3. Rank(x, Slice(i)) \in Nat \ {0}
    <3>1. Slice(i) \in SUBSET Nat /\ IsFiniteSet(Slice(i))
      BY <1>8, <2>1
    <3> QED BY <3>1, RankType
  <2>4. Rank(x, Slice(i)) \notin (Skip(i) + 1)..(Skip(i) + limit)
    BY <2>1 DEF Part
  <2>5. Rank(x, Slice(i)) <= Skip(i)
    BY <1>3, <2>1, <2>2, <2>3, <2>4
  <2>6. Skip(i) # 0
    BY <2>1, <2>3, <2>5
  <2> QED BY <1>6, <2>1, <2>5, <2>6
<1> DEFINE Q == SlicesBefore(k, Skip(k))
           P == Raw(k)
<1>12. Past(at) \subseteq Q /\ Q \cap wanted \subseteq Past(at)
  <2>1. CASE k = begin.slice
    BY <1>7, <2>1
  <2>2. CASE k # begin.slice
    <3> DEFINE b == begin.slice
               B == SlicesBefore(b, Skip(b))
    <3>1. b \in Nat /\ b < k /\ Skip(b) \in Nat /\ Skip(k) = 0
      BY <1>4, <1>5, <1>6, <2>2
    <3>2. /\ B \subseteq SlicesBefore(k, 0)
          /\ \A x \in SlicesBefore(k, 0) : x \in B \/ \E i \in b..(k - 1) : x \in Slice(i)
      BY <1>2, <1>5, <3>1, SlicesBetween
    <3>3. \A i \in b..(k - 1) : \A x \in Slice(i) \cap wanted : x \in B
      BY <1>8, <1>11, <3>1 DEF SlicesBefore
    <3> QED BY <1>7, <3>1, <3>2, <3>3
  <2> QED BY <2>1, <2>2
<1>13. PageAdds(k, Skip(k), limit)
  BY <1>2, <1>3, <1>5, <1>6, SlicePage
<1>14. /\ IsFiniteSet(P) /\ Cardinality(P) \in 0..limit
       /\ ~Full(k) => WithinPage(k, Skip(k) + limit)
  BY <1>5, <1>10
<1>15. /\ P \subseteq Listed /\ P \cap Q = {}
       /\ SlicesBefore(k, Skip(k) + limit) = Q \cup P
       /\ ~Full(k) => SlicesBefore(k + 1, 0) = Q \cup P
  BY <1>13, <1>14 DEF PageAdds
<1>16. /\ reply.items = P \cap wanted /\ reply.more \in BOOLEAN
       /\ reply.more <=> Full(k) \/ ~Ends(k)
       /\ reply.next = IF Full(k) THEN [slice |-> k, skip |-> Skip(k) + Cardinality(P)]
                       ELSE IF ~Ends(k) THEN [slice |-> k + 1, skip |-> 0] ELSE None
  <2>1. (Full(k) \/ ~Ends(k)) \in BOOLEAN
    OBVIOUS
  <2>2. reply.more = (Full(k) \/ ~Ends(k))
    BY <1>1 DEF Skip
  <2>3. reply.more \in BOOLEAN /\ (reply.more <=> Full(k) \/ ~Ends(k))
    BY Zenon, <2>1, <2>2
  <2> QED BY <1>1, <2>3 DEF Skip
<1>17. reply.items \subseteq Listed /\ Cardinality(reply.items) <= limit
  <2>1. P \cap wanted \in SUBSET P
    OBVIOUS
  <2>2. IsFiniteSet(P \cap wanted) /\ Cardinality(P \cap wanted) <= Cardinality(P)
    BY <1>14, <2>1, FS_Subset
  <2>3. Cardinality(P \cap wanted) \in Nat
    BY <2>2, FS_CardinalityType
  <2> HIDE DEF P
  <2> QED BY <1>3, <1>14, <1>15, <1>16, <2>2, <2>3
<1>18. reply.items \cap Past(at) = {}
  BY <1>12, <1>15, <1>16
<1>19. rail.pager \notin {"keyed", "numbered"}
  OBVIOUS
<1>20. CASE Full(k)
  <2> DEFINE nx == [slice |-> k, skip |-> Skip(k) + limit]
  <2>1. Cardinality(P) = limit
    BY <1>3, <1>14, <1>20
  <2>2. nx \in Cursors /\ nx # None
    BY <1>2, <1>3, <1>5, <1>6
  <2>3. reply.more /\ reply.next = nx
    BY <1>16, <1>20, <2>1
  <2>4. Past(nx) = Q \cup P
    BY <1>2, <1>15, <2>2
  <2> HIDE DEF nx, P, Q
  <2>5. /\ Past(nx) \cap wanted \subseteq Past(at) \cup reply.items
        /\ Past(at) \cup reply.items \subseteq Past(nx)
    BY <1>12, <1>16, <2>4
  <2> QED BY <1>16, <1>17, <1>18, <1>19, <2>2, <2>3, <2>5 DEF PageHolds
<1>21. CASE ~Full(k) /\ ~Ends(k)
  <2> DEFINE nx == [slice |-> k + 1, skip |-> 0]
  <2>1. nx \in Cursors /\ nx # None
    BY <1>2, <1>3, <1>5
  <2>2. reply.more /\ reply.next = nx
    BY <1>16, <1>21
  <2>3. Past(nx) = Q \cup P
    BY <1>2, <1>15, <1>21, <2>1
  <2> HIDE DEF nx, P, Q
  <2>4. /\ Past(nx) \cap wanted \subseteq Past(at) \cup reply.items
        /\ Past(at) \cup reply.items \subseteq Past(nx)
    BY <1>12, <1>16, <2>3
  <2> QED BY <1>16, <1>17, <1>18, <1>19, <2>1, <2>2, <2>4 DEF PageHolds
<1>22. CASE ~Full(k) /\ Ends(k)
  <2>1. Edge(k + 1) > To
    BY <1>2, <1>5, <1>22, SliceIs
  <2>2. \A x \in Listed : day[x] \in Nat /\ day[x] <= To
    BY <1>2, SliceIs
  <2>3. k + 1 \in Nat /\ Edge(k + 1) \in Nat
    BY <1>5, EdgeGrows
  <2>4. Listed \subseteq SlicesBefore(k + 1, 0)
    BY <1>3, <2>1, <2>2, <2>3 DEF SlicesBefore, Edge
  <2>5. ~reply.more
    BY <1>16, <1>22
  <2> HIDE DEF P, Q
  <2>6. Listed \cap wanted \subseteq Past(at) \cup reply.items
    BY <1>12, <1>15, <1>16, <1>22, <2>4
  <2> QED BY <1>16, <1>17, <1>18, <2>5, <2>6 DEF PageHolds
<1> QED BY <1>20, <1>21, <1>22

\* Whatever a rail's pager, its page holds.
LEMMA PagesHold ==
  ASSUME FetchTyped, rail.pager # "container", NEW limit \in 1..PageSize,
         NEW at \in Cursors \cup {None}, NEW reply \in Replies(limit, at)
  PROVE  PageHolds(reply, limit, at)
<1>1. CASE rail.pager = "keyed"
  <2>1. reply \in KeyedReplies(limit, at)
    BY <1>1 DEF Replies
  <2> QED BY <1>1, <2>1, KeyedPage
<1>2. CASE rail.pager = "numbered"
  <2>1. reply = NumberedReply(limit, at)
    BY <1>2 DEF Replies
  <2> QED BY <1>2, <2>1, NumberedPage
<1>3. CASE rail.pager = "sliced"
  <2>1. reply \in SlicedReplies(limit, at)
    BY <1>3 DEF Replies
  <2> QED BY <1>3, <2>1, SlicedPage
<1>4. CASE rail.pager = "offset"
  <2>1. reply \in OffsetReplies(limit, at)
    BY <1>4 DEF Replies
  <2> QED BY <1>4, <2>1, OffsetPage
<1> QED BY <1>1, <1>2, <1>3, <1>4, RailIs DEF Pagers

(***************************************************************************)
(* A walk in one of its states: what it has behind it was read, and of a   *)
(* listing that names its last page the last record is not.                *)
(***************************************************************************)
WalkInv ==
  /\ FetchTyped
  /\ pc = "walking" =>
       /\ read < rail.cap
       /\ \A x \in Past(cursor) : x \in wanted /\ x <= Start => x \in rows
       /\ rail.pager \in {"keyed", "numbered"} => \A x \in rows : \E y \in Listed : Before(x, y)

LEMMA StillUpstream ==
  ASSUME rail' = rail, held' = held, day' = day
  PROVE  /\ Listed' = Listed /\ Cursors' = Cursors
         /\ \A c : c = cursor' => Past(cursor)' = Past(c)
         /\ \A x, y : Before(x, y)' <=> Before(x, y)
<1>1. Listed' = Listed
  BY DEF Listed
<1>2. Cursors' = Cursors
  BY <1>1 DEF Cursors
<1>3. \A x, y : Before(x, y)' <=> Before(x, y)
  BY DEF Before
<1>4. ASSUME NEW c, c = cursor' PROVE Past(cursor)' = Past(c)
  BY <1>1, <1>4 DEF Past, Before, SlicesBefore, Slice, Rank
<1> QED BY <1>1, <1>2, <1>3, <1>4

\* A record that arrives comes after the window, and in front of or behind all
\* that was there.
LEMMA ArrivalIsNew ==
  ASSUME FetchTyped, Arrive
  PROVE  /\ Listed \subseteq Listed' /\ Listed' \subseteq Listed \cup {held + 1}
         /\ rail.window = "both" => Listed' = Listed
         /\ held + 1 \in Records /\ held + 1 > Start
<1>1. /\ held \in Nat /\ Start \in Nat /\ MaxArrivals \in Nat /\ Start <= held
      /\ held' = held + 1 /\ rail' = rail /\ day' = day /\ held < Start + MaxArrivals
  BY FetchAssumption DEF FetchTyped, Arrive
<1>2. held + 1 \in Records /\ held + 1 > Start
  BY <1>1 DEF Records
<1>3. ~(day[held + 1] <= To)
  BY <1>1, <1>2 DEF FetchTyped
<1>4. \A x : x \in 1..(held + 1) <=> x \in 1..held \/ x = held + 1
  BY <1>1
<1>5. Listed \subseteq Listed' /\ Listed' \subseteq Listed \cup {held + 1}
  BY <1>1, <1>4 DEF Listed
<1>6. rail.window = "both" => Listed' = Listed
  BY <1>1, <1>3, <1>4 DEF Listed
<1> QED BY <1>2, <1>5, <1>6

\* It puts no record that was there behind a cursor.
LEMMA ArrivalIsAhead ==
  ASSUME FetchTyped, Arrive
  PROVE  /\ FetchTyped' /\ cursor' = cursor
         /\ \A x \in Past(cursor)' : x <= Start => x \in Past(cursor)
         /\ rail.pager # "numbered" => Past(cursor) \subseteq Past(cursor)'
<1>1. /\ Listed \subseteq Listed' /\ Listed' \subseteq Listed \cup {held + 1}
      /\ rail.window = "both" => Listed' = Listed
      /\ held + 1 \in Records /\ held + 1 > Start
  BY ArrivalIsNew
<1>2. /\ rail' = rail /\ day' = day /\ wanted' = wanted /\ rows' = rows /\ read' = read
      /\ cursor' = cursor /\ pc' = pc /\ held' = held + 1 /\ held < Start + MaxArrivals
  BY DEF Arrive
<1>3. FetchTyped'
  <2>1. held' \in Start..(Start + MaxArrivals)
    BY <1>2, FetchAssumption DEF FetchTyped
  <2>2. cursor' \in Cursors' \cup {None}
    BY <1>1, <1>2, RailIs DEF FetchTyped, Cursors, Pagers
  <2> QED BY <1>1, <1>2, <2>1, <2>2 DEF FetchTyped
<1>4. \A x \in Listed' : x <= Start => x \in Listed
  BY <1>1, FetchAssumption DEF FetchTyped, Records
<1>5. CASE rail.pager = "keyed"
  <2>1. CASE cursor = None
    BY <1>2, <1>3, <2>1 DEF Past
  <2>2. CASE cursor # None
    <3>1. Past(cursor) = {x \in Listed : ~Before(cursor, x)}
      BY <1>5, <2>2 DEF Past
    <3>2. Past(cursor)' = {x \in Listed' : ~Before(cursor, x)}
      BY <1>2, <1>5, <2>2 DEF Past, Before
    <3> QED BY <1>1, <1>2, <1>3, <1>4, <3>1, <3>2
  <2> QED BY <1>2, <1>3, <2>1, <2>2
<1>6. CASE rail.pager = "numbered"
  <2>1. CASE cursor = None
    BY <1>2, <1>3, <1>6, <2>1 DEF Past
  <2>2. CASE cursor # None
    <3>1. Past(cursor) = {x \in Listed : Rank(x, Listed) <= (cursor - 1) * PageSize}
      BY <1>6, <2>2 DEF Past
    <3>2. Past(cursor)' = {x \in Listed' : Rank(x, Listed') <= (cursor - 1) * PageSize}
      BY <1>2, <1>6, <2>2 DEF Past, Rank, Before
    <3>3. Listed' \in SUBSET Nat /\ IsFiniteSet(Listed')
      <4>1. IsFiniteSet(Listed) /\ Listed \in SUBSET Nat
        BY ListedIs
      <4>2. IsFiniteSet(Listed \cup {held + 1}) /\ held + 1 \in Nat
        BY <4>1, FS_AddElement, FetchAssumption DEF FetchTyped
      <4> QED BY <1>1, <4>1, <4>2, FS_Subset
    <3>4. \A x \in Listed : Rank(x, Listed) <= Rank(x, Listed')
      BY <1>1, <3>3, RankOfMore
    <3>5. ASSUME NEW x \in Past(cursor)', x <= Start PROVE x \in Past(cursor)
      <4>1. x \in Listed /\ x \in Listed'
        BY <1>4, <3>2, <3>5
      <4>2. Rank(x, Listed) \in Nat /\ Rank(x, Listed') \in Nat
        <5>1. Rank(x, Listed) \in 1..Cardinality(Listed) /\ Cardinality(Listed) \in Nat
          BY <4>1, ListedIs, RankType, FS_CardinalityType
        <5>2. Rank(x, Listed') \in 1..Cardinality(Listed') /\ Cardinality(Listed') \in Nat
          BY <3>3, <4>1, RankType, FS_CardinalityType
        <5> QED BY <5>1, <5>2
      <4>3. cursor \in Nat
        BY <1>6, <2>2 DEF FetchTyped, Cursors
      <4>4. (cursor - 1) * PageSize \in Int
        BY <4>3, FetchAssumption
      <4>5. Rank(x, Listed') <= (cursor - 1) * PageSize
        BY <3>2
      <4>6. Rank(x, Listed) <= (cursor - 1) * PageSize
        BY <3>4, <4>1, <4>2, <4>4, <4>5
      <4> QED BY <3>1, <4>1, <4>6
    <3> QED BY <1>2, <1>3, <1>6, <3>5
  <2> QED BY <1>2, <1>3, <1>6, <2>1, <2>2
<1>7. CASE rail.pager \in {"sliced", "offset", "container"}
  <2>1. Past(cursor)' = Past(cursor)
    <3>1. CASE rail.pager = "container"
      BY <1>2, <3>1 DEF Past
    <3>2. CASE rail.pager \in {"sliced", "offset"}
      <4>1. Listed' = Listed
        BY <1>1, <3>2, RailIs
      <4> QED BY <1>2, <4>1 DEF Past, SlicesBefore, Slice, Rank, Before
    <3> QED BY <1>7, <3>1, <3>2
  <2> QED BY <1>2, <1>3, <2>1
<1> QED BY <1>5, <1>6, <1>7, RailIs DEF Pagers

LEMMA WalkInit == Init => WalkInv
<1> SUFFICES ASSUME Init PROVE WalkInv
  OBVIOUS
<1>1. rail \in RailType /\ rail.cap \in Nat \ {0}
  BY RailsAssumption DEF Init, RailType
<1>2. held = Start /\ held \in Start..(Start + MaxArrivals)
  BY FetchAssumption DEF Init
<1>3. wanted \subseteq Records
  <2>1. 1..Start \subseteq Records
    BY FetchAssumption DEF Records
  <2>2. CASE rail.filtered
    <3>1. PICK W \in SUBSET (1..Start) : wanted = W \cup (Records \ 1..Start)
      BY <2>2 DEF Init
    <3> QED BY <2>1, <3>1
  <2>3. CASE ~rail.filtered
    BY <2>3 DEF Init
  <2> QED BY <2>2, <2>3
<1>4. Past(cursor) = {}
  BY DEF Past, Init
<1> QED BY <1>1, <1>2, <1>3, <1>4 DEF Init, WalkInv, FetchTyped

\* The size of the next page.
Asked == Min({PageSize, rail.cap - read})

LEMMA AskedIs ==
  ASSUME WalkInv, pc = "walking"
  PROVE  /\ Asked \in 1..PageSize /\ Asked \in Nat \ {0} /\ Asked <= rail.cap - read
         /\ Asked = PageSize \/ Asked = rail.cap - read
         /\ rail.cap - read \in Nat \ {0}
<1>1. rail.cap - read \in Nat \ {0} /\ PageSize \in Nat \ {0}
  BY RailIs, FetchAssumption DEF WalkInv, FetchTyped
<1>2. Asked = IF PageSize <= rail.cap - read THEN PageSize ELSE rail.cap - read
  <2>1. PageSize \in Int /\ rail.cap - read \in Int
    BY <1>1
  <2> QED BY <2>1, MinIs DEF Asked
<1> QED BY <1>1, <1>2

\* What a reply says, and how long the walk's rows are with it.
LEMMA AnswerHolds ==
  ASSUME WalkInv, pc = "walking", NEW reply \in Answers
  PROVE  /\ reply.items \subseteq Listed /\ IsFiniteSet(reply.items)
         /\ Cardinality(reply.items) \in Nat
         /\ Length(reply) = read + Cardinality(reply.items)
         /\ rail.pager # "container" =>
              /\ PageHolds(reply, Asked, cursor)
              /\ Length(reply) <= rail.cap
              /\ More(reply) <=> reply.more
         /\ rail.pager = "container" =>
              /\ ~rail.limited => reply.items = Listed
              /\ cursor = None
              /\ More(reply) <=> Length(reply) >= rail.cap
<1>1. reply \in Replies(Asked, cursor) /\ FetchTyped /\ cursor \in Cursors \cup {None}
  BY DEF Answers, Asked, WalkInv, FetchTyped
<1>2. Length(reply) = read + Cardinality(reply.items)
  BY DEF Length
<1>3. CASE rail.pager = "container"
  <2>1. reply = ContainerReply(Asked)
    BY <1>1, <1>3 DEF Replies
  <2>2. reply.items \subseteq Listed /\ (~rail.limited => reply.items = Listed)
    BY <2>1 DEF ContainerReply, Part
  <2>3. IsFiniteSet(reply.items) /\ Cardinality(reply.items) \in Nat
    BY <1>1, <2>2, ListedIs, FS_Subset, FS_CardinalityType
  <2>4. cursor = None
    BY <1>1, <1>3 DEF Cursors
  <2> QED BY <1>2, <1>3, <2>2, <2>3, <2>4 DEF More
<1>4. CASE rail.pager # "container"
  <2>1. PageHolds(reply, Asked, cursor)
    BY <1>1, <1>4, AskedIs, PagesHold
  <2>2. reply.items \subseteq Listed /\ Cardinality(reply.items) <= Asked
    BY <2>1 DEF PageHolds
  <2>3. IsFiniteSet(reply.items) /\ Cardinality(reply.items) \in Nat
    BY <1>1, <2>2, ListedIs, FS_Subset, FS_CardinalityType
  <2>4. read \in Nat /\ rail.cap \in Nat
    BY <1>1, RailIs DEF FetchTyped
  <2>5. Length(reply) <= rail.cap
    BY <1>2, <2>2, <2>3, <2>4, AskedIs
  <2>6. More(reply) = reply.more
    BY <1>4 DEF More
  <2> QED BY <1>2, <1>4, <2>1, <2>2, <2>3, <2>5, <2>6
<1> QED BY <1>3, <1>4

LEMMA NextPageKeeps == ASSUME WalkInv, NextPage PROVE WalkInv'
<1>1. pc = "walking" /\ pc' = pc /\ rail' = rail /\ held' = held /\ day' = day /\ wanted' = wanted
  BY DEF NextPage
<1>2. PICK reply \in Answers :
        /\ ~Stops(reply) /\ rows' = rows \cup reply.items /\ read' = Length(reply)
        /\ cursor' = reply.next
  BY DEF NextPage
<1>3. /\ rail.pager # "container" /\ More(reply) /\ ~(Length(reply) >= rail.cap)
  BY <1>2 DEF Stops
<1>4. /\ reply.items \subseteq Listed /\ Cardinality(reply.items) \in Nat
      /\ Length(reply) = read + Cardinality(reply.items)
      /\ PageHolds(reply, Asked, cursor) /\ reply.more
  BY <1>1, <1>3, AnswerHolds
<1>5. read \in Nat /\ rail.cap \in Nat
  BY RailIs DEF WalkInv, FetchTyped
<1>6. read' \in Nat /\ read' < rail.cap
  BY <1>2, <1>3, <1>4, <1>5
<1>7. Asked = PageSize \/ Cardinality(reply.items) < Asked
  BY <1>1, <1>3, <1>4, <1>5, AskedIs
<1>8. /\ Listed' = Listed /\ Cursors' = Cursors
      /\ \A c : c = cursor' => Past(cursor)' = Past(c)
      /\ \A x, y : Before(x, y)' <=> Before(x, y)
  BY <1>1, StillUpstream
<1>9. /\ cursor' \in Cursors /\ Past(reply.next) \cap wanted \subseteq Past(cursor) \cup reply.items
  BY <1>2, <1>4, <1>7 DEF PageHolds
<1>10. Past(cursor)' = Past(reply.next)
  BY <1>2, <1>8
<1>11. FetchTyped'
  BY <1>1, <1>2, <1>4, <1>6, <1>8, <1>9 DEF WalkInv, FetchTyped
<1>12. \A x \in Past(cursor)' : x \in wanted' /\ x <= Start => x \in rows'
  BY <1>1, <1>2, <1>9, <1>10 DEF WalkInv
<1>13. rail.pager \in {"keyed", "numbered"} => \A x \in rows' : \E y \in Listed : Before(x, y)
  BY <1>1, <1>2, <1>4 DEF PageHolds, WalkInv
<1> QED BY <1>1, <1>6, <1>8, <1>11, <1>12, <1>13 DEF WalkInv

LEMMA ArriveKeeps == ASSUME WalkInv, Arrive PROVE WalkInv'
<1>1. /\ FetchTyped' /\ \A x \in Past(cursor)' : x <= Start => x \in Past(cursor)
      /\ Listed \subseteq Listed'
  BY ArrivalIsAhead, ArrivalIsNew DEF WalkInv
<1>2. /\ pc = "walking" /\ pc' = pc /\ rail' = rail /\ wanted' = wanted /\ rows' = rows /\ read' = read
  BY DEF Arrive
<1>3. \A x, y : Before(x, y)' <=> Before(x, y)
  BY <1>2 DEF Before
<1> QED BY <1>1, <1>2, <1>3 DEF WalkInv

\* What the last page leaves in the rows.
LEMMA LastPageReads ==
  ASSUME WalkInv, LastPage
  PROVE  /\ pc = "walking" /\ pc' = "done"
         /\ UNCHANGED <<rail, held, day, wanted, cursor>>
         /\ \E reply \in Answers :
              /\ Stops(reply)
              /\ coverage' = [truncated |-> Truncated(reply), from |-> SpanStart, to |-> SpanEnd]
              /\ read' = Min({rail.cap, Length(reply)})
              /\ rows \subseteq rows' /\ rows' \subseteq rows \cup reply.items
              /\ Length(reply) <= rail.cap => rows' = rows \cup reply.items
              /\ rows' = rows \cup Part(reply.items, 0, rail.cap - read)
<1>1. pc = "walking" /\ pc' = "done" /\ UNCHANGED <<rail, held, day, wanted, cursor>>
  BY DEF LastPage
<1>2. PICK reply \in Answers :
        /\ Stops(reply)
        /\ rows' = rows \cup Part(reply.items, 0, rail.cap - read)
        /\ read' = Min({rail.cap, Length(reply)})
        /\ coverage' = [truncated |-> Truncated(reply), from |-> SpanStart, to |-> SpanEnd]
  BY DEF LastPage
<1>3. /\ reply.items \subseteq Listed /\ IsFiniteSet(reply.items)
      /\ Cardinality(reply.items) \in Nat
      /\ Length(reply) = read + Cardinality(reply.items)
  BY <1>1, AnswerHolds
<1>4. reply.items \in SUBSET Nat
  BY <1>3, ListedIs DEF WalkInv
<1>5. read \in Nat /\ rail.cap \in Nat /\ rail.cap - read \in Nat
  BY <1>1, AskedIs, RailIs DEF WalkInv, FetchTyped
<1>6. Part(reply.items, 0, rail.cap - read) \subseteq reply.items
  BY DEF Part
<1>7. Length(reply) <= rail.cap => Part(reply.items, 0, rail.cap - read) = reply.items
  <2> HAVE Length(reply) <= rail.cap
  <2>1. Cardinality(reply.items) <= rail.cap - read
    BY <1>3, <1>5
  <2> QED BY <1>3, <1>4, <1>5, <2>1, PartWhole
<1> QED BY <1>1, <1>2, <1>6, <1>7

LEMMA LastPageKeeps == ASSUME WalkInv, LastPage PROVE WalkInv'
<1>1. PICK reply \in Answers : /\ read' = Min({rail.cap, Length(reply)})
                               /\ rows' \subseteq rows \cup reply.items
  BY LastPageReads
<1>2. pc = "walking" /\ pc' = "done" /\ UNCHANGED <<rail, held, day, wanted, cursor>>
  BY LastPageReads
<1>3. /\ reply.items \subseteq Listed /\ Cardinality(reply.items) \in Nat
      /\ Length(reply) = read + Cardinality(reply.items)
  BY <1>2, AnswerHolds
<1>4. read \in Nat /\ rail.cap \in Nat
  BY RailIs DEF WalkInv, FetchTyped
<1>5. Length(reply) \in Int /\ rail.cap \in Int /\ Length(reply) \in Nat
  BY <1>3, <1>4
<1>6. read' \in Nat
  BY <1>1, <1>4, <1>5, MinIs
<1>7. Listed' = Listed /\ Cursors' = Cursors
  BY <1>2, StillUpstream
<1> QED BY <1>1, <1>2, <1>3, <1>6, <1>7 DEF WalkInv, FetchTyped

LEMMA WalkStep == WalkInv /\ [Next]_vars => WalkInv'
<1> SUFFICES ASSUME WalkInv, [Next]_vars PROVE WalkInv'
  OBVIOUS
<1>1. CASE UNCHANGED vars
  <2>1. rail' = rail /\ held' = held /\ day' = day
    BY <1>1 DEF vars
  <2>2. /\ Listed' = Listed /\ Cursors' = Cursors
        /\ \A c : c = cursor' => Past(cursor)' = Past(c)
        /\ \A x, y : Before(x, y)' <=> Before(x, y)
    BY <2>1, StillUpstream
  <2> QED BY <1>1, <2>2 DEF WalkInv, FetchTyped, vars
<1> QED BY <1>1, NextPageKeeps, LastPageKeeps, ArriveKeeps DEF Next

(***************************************************************************)
(* A walk reported as cut left a record unread, whatever the rail holds,   *)
(* gains and is read to.                                                   *)
(***************************************************************************)
LEMMA LastPageIsReal == ASSUME WalkInv, LastPage PROVE TruncationIsReal'
<1>1. PICK reply \in Answers :
        /\ coverage' = [truncated |-> Truncated(reply), from |-> SpanStart, to |-> SpanEnd]
        /\ rows' \subseteq rows \cup reply.items
  BY LastPageReads
<1>2. pc = "walking" /\ UNCHANGED <<rail, held, day>>
  BY LastPageReads
<1> SUFFICES ASSUME coverage'.truncated, rail.pager \in {"keyed", "numbered"}
             PROVE  \E x \in Listed : x \notin rows'
  BY <1>2, StillUpstream DEF TruncationIsReal
<1>3. /\ Length(reply) <= rail.cap /\ (More(reply) <=> reply.more) /\ PageHolds(reply, Asked, cursor)
      /\ Length(reply) = read + Cardinality(reply.items) /\ Cardinality(reply.items) \in Nat
  BY <1>2, AnswerHolds
<1>4. Truncated(reply)
  BY <1>1
<1>5. reply.more
  BY <1>3, <1>4, RailIs DEF Truncated, WalkInv, FetchTyped
<1>6. Listed # {} /\ \A x \in reply.items : \E y \in Listed : Before(x, y)
  BY <1>3, <1>5 DEF PageHolds
<1>7. PICK x \in Listed : \A y \in Listed : ~Before(x, y)
  BY <1>6, ListedIs, LastExists DEF WalkInv
<1>8. x \notin rows /\ x \notin reply.items
  BY <1>2, <1>6, <1>7 DEF WalkInv
<1> QED BY <1>1, <1>7, <1>8

LEMMA RealStep == WalkInv /\ TruncationIsReal /\ [Next]_vars => TruncationIsReal'
<1> SUFFICES ASSUME WalkInv, TruncationIsReal, [Next]_vars PROVE TruncationIsReal'
  OBVIOUS
<1>1. CASE NextPage \/ Arrive
  BY <1>1 DEF NextPage, Arrive, TruncationIsReal
<1>2. CASE UNCHANGED vars
  BY <1>2, StillUpstream DEF vars, TruncationIsReal
<1> QED BY <1>1, <1>2, LastPageIsReal DEF Next

\* For any rails, any pages and whatever arrives meanwhile: where the rail's answer
\* tells the last page, a read that says it was cut left out a listed record.
THEOREM CutsAreReal == Spec => []TruncationIsReal
<1>1. Init => TruncationIsReal
  BY DEF Init, TruncationIsReal
<1> QED BY WalkInit, WalkStep, <1>1, RealStep, PTL DEF Spec

(***************************************************************************)
(* What a walk's coverage says was read, was read.                         *)
(***************************************************************************)
\* A record the coverage claims is one the operation lists.
LEMMA ClaimedIsListed ==
  ASSUME SpansAreStated, FetchTyped, NEW cut \in BOOLEAN, NEW x \in wanted, x <= Start,
         Reads([truncated |-> cut, from |-> SpanStart, to |-> SpanEnd], day[x])
  PROVE  x \in Listed /\ cut = FALSE
<1> DEFINE c == [truncated |-> cut, from |-> SpanStart, to |-> SpanEnd]
<1>1. x \in Records /\ x \in 1..held /\ day[x] \in Nat /\ day[x] # None
  BY FetchAssumption, NoneAssumption DEF FetchTyped, Records, Days
<1>2. From \in Nat /\ To \in Nat /\ Horizon \in Nat /\ None \notin Nat
  BY FetchAssumption, NoneAssumption
<1>3. Min({To, Horizon}) = IF To <= Horizon THEN To ELSE Horizon
  <2>1. To \in Int /\ Horizon \in Int
    BY <1>2
  <2> QED BY <2>1, MinIs
<1>4. SpanStart \in {None, From, To, Horizon} /\ SpanEnd \in {None, From, To, Horizon}
  BY <1>3 DEF SpanStart, SpanEnd
<1>5. c # NoCoverage
  BY <1>4, NoneAssumption
<1>6. /\ cut = FALSE
      /\ \/ SpanStart = None /\ SpanEnd = None
         \/ (SpanStart # None => day[x] >= SpanStart) /\ (SpanEnd # None => day[x] <= SpanEnd)
  <2>1. c.truncated = cut /\ c.from = SpanStart /\ c.to = SpanEnd
    OBVIOUS
  <2>2. /\ ~c.truncated
        /\ \/ c.from = None /\ c.to = None
           \/ (c.from # None => day[x] >= c.from) /\ (c.to # None => day[x] <= c.to)
    BY <1>5 DEF Reads
  <2> HIDE DEF c
  <2> QED BY <2>1, <2>2
<1>7. rail \in RailType /\ (rail.window # "none" => rail.states)
      /\ (rail.pager \in {"sliced", "offset"} => rail.window = "both")
  BY RailIs DEF SpansAreStated, FetchTyped
<1>8. CASE rail.window = "none"
  BY <1>1, <1>6, <1>7, <1>8 DEF Listed
<1>9. CASE rail.window = "from"
  <2>1. SpanStart = From /\ SpanStart # None
    BY <1>2, <1>7, <1>9 DEF SpanStart
  <2> QED BY <1>1, <1>6, <1>7, <1>9, <2>1 DEF Listed
<1>10. CASE rail.window = "both"
  <2>1. SpanStart = From /\ SpanStart # None
    BY <1>2, <1>7, <1>10 DEF SpanStart
  <2>2. SpanEnd = IF rail.pager = "sliced" THEN Min({To, Horizon}) ELSE To
    BY <1>7, <1>10 DEF SpanEnd
  <2>3. SpanEnd # None
    BY <1>2, <1>3, <2>2
  <2>4. day[x] >= From /\ day[x] <= SpanEnd
    BY <1>6, <2>1, <2>3
  <2>5. day[x] <= To /\ (rail.pager = "sliced" => day[x] <= Horizon)
    BY <1>1, <1>2, <1>3, <2>2, <2>4
  <2> QED BY <1>1, <1>6, <2>4, <2>5 DEF Listed
<1> QED BY <1>7, <1>8, <1>9, <1>10 DEF RailType

LEMMA LastPageIsHonest == ASSUME SpansAreStated, WalkInv, LastPage PROVE CoverageIsHonest'
<1>1. PICK reply \in Answers :
        /\ Stops(reply)
        /\ coverage' = [truncated |-> Truncated(reply), from |-> SpanStart, to |-> SpanEnd]
        /\ Length(reply) <= rail.cap => rows' = rows \cup reply.items
  BY LastPageReads
<1>2. pc = "walking" /\ UNCHANGED <<rail, held, day, wanted>>
  BY LastPageReads
<1> SUFFICES ASSUME NEW x \in wanted, x <= Start, Reads(coverage', day[x]) PROVE x \in rows'
  BY <1>2 DEF CoverageIsHonest, Reads
<1>3. Truncated(reply) \in BOOLEAN
  BY DEF Truncated
<1>4. x \in Listed /\ ~Truncated(reply)
  BY <1>1, <1>3, ClaimedIsListed DEF WalkInv
<1>5. /\ Cardinality(reply.items) \in Nat /\ Length(reply) = read + Cardinality(reply.items)
      /\ read \in Nat /\ rail.cap \in Nat
  BY <1>2, AnswerHolds, RailIs DEF WalkInv, FetchTyped
<1>6. Length(reply) <= rail.cap /\ rows' = rows \cup reply.items
  BY <1>1, <1>4, <1>5 DEF Truncated
<1>7. CASE rail.pager = "container"
  <2>1. ~rail.limited
    BY <1>7 DEF SpansAreStated, WalkInv, FetchTyped
  <2> QED BY <1>2, <1>4, <1>6, <1>7, <2>1, AnswerHolds
<1>8. CASE rail.pager # "container"
  <2>1. PageHolds(reply, Asked, cursor) /\ (More(reply) <=> reply.more)
    BY <1>2, <1>8, AnswerHolds
  <2>2. ~reply.more
    BY <1>1, <1>4, <1>5, <1>6, <1>8, <2>1 DEF Stops, Truncated
  <2>3. x \in Past(cursor) \/ x \in reply.items
    BY <1>4, <2>1, <2>2 DEF PageHolds
  <2> QED BY <1>2, <1>6, <2>3 DEF WalkInv
<1> QED BY <1>7, <1>8

LEMMA HonestStep == SpansAreStated /\ WalkInv /\ CoverageIsHonest /\ [Next]_vars => CoverageIsHonest'
<1> SUFFICES ASSUME SpansAreStated, WalkInv, CoverageIsHonest, [Next]_vars PROVE CoverageIsHonest'
  OBVIOUS
<1>1. CASE NextPage \/ Arrive
  BY <1>1 DEF NextPage, Arrive, CoverageIsHonest
<1>2. CASE UNCHANGED vars
  BY <1>2 DEF vars, CoverageIsHonest, Reads
<1> QED BY <1>1, <1>2, LastPageIsHonest DEF Next

\* Wherever a windowed list states its span and a container is not cut below the
\* cap: whatever the coverage says was read, was.
THEOREM CoverageStaysHonest == SpansAreStated => (Spec => []CoverageIsHonest)
<1>1. Init => CoverageIsHonest
  BY DEF Init, CoverageIsHonest
<1>2. SpansAreStated /\ WalkInv /\ CoverageIsHonest /\ [Next]_vars => CoverageIsHonest'
  BY HonestStep
<1> SUFFICES ASSUME SpansAreStated PROVE Spec => []CoverageIsHonest
  OBVIOUS
<1>3. WalkInv /\ CoverageIsHonest /\ [Next]_vars => CoverageIsHonest'
  BY <1>2
<1> QED BY WalkInit, WalkStep, <1>1, <1>3, PTL DEF Spec

(***************************************************************************)
(* No record is read twice: what a page adds was not behind the cursor.    *)
(***************************************************************************)
PageNo == IF cursor = None THEN 1 ELSE cursor

OnceInv ==
  /\ Cardinality(rows) = read
  /\ pc = "walking" =>
       /\ rows \subseteq Past(cursor)
       /\ rail.pager = "numbered" => read = (PageNo - 1) * PageSize

\* The pages counted by number are all of one size.
LEMMA PagesOfOneSize ==
  ASSUME PagesAreWhole, WalkInv, OnceInv, pc = "walking"
  PROVE  rail.pager \in {"numbered", "sliced"} => Asked = PageSize
<1>1. /\ rail \in Rails /\ rail.cap \in Nat \ {0} /\ read \in Nat /\ PageSize \in Nat \ {0}
      /\ Start \in Nat /\ rail.cap - read \in Int /\ read < rail.cap
  BY RailIs, FetchAssumption DEF WalkInv, FetchTyped
<1>2. Asked = IF PageSize <= rail.cap - read THEN PageSize ELSE rail.cap - read
  <2>1. PageSize \in Int /\ rail.cap - read \in Int
    BY <1>1
  <2> QED BY <2>1, MinIs DEF Asked
<1>3. CASE rail.pager = "numbered"
  <2>1. PICK n \in 1..rail.cap : rail.cap = n * PageSize
    BY <1>1, <1>3 DEF PagesAreWhole
  <2>2. PageNo \in Nat \ {0} /\ PageNo - 1 \in Nat
    BY <1>3 DEF PageNo, WalkInv, FetchTyped, Cursors
  <2>3. read = (PageNo - 1) * PageSize
    BY <1>3 DEF OnceInv
  <2>4. \A a, b, w \in Nat : a * w < b * w => a < b
    OBVIOUS
  <2>5. PageNo - 1 < n
    BY <1>1, <2>1, <2>2, <2>3, <2>4
  <2>6. \A a, b, w \in Nat : a < b => a * w + w <= b * w
    <3> TAKE a, b, w \in Nat
    <3> HAVE a < b
    <3>1. \A c \in Nat : c * w \in Nat
      OBVIOUS
    <3>2. b - a - 1 \in Nat /\ (b - a - 1) * w \in Nat
      BY <3>1
    <3>3. (b - a - 1) * w = b * w - a * w - w
      OBVIOUS
    <3> QED BY <3>1, <3>2, <3>3
  <2>7. read + PageSize <= rail.cap
    BY <1>1, <2>1, <2>2, <2>3, <2>5, <2>6
  <2> QED BY <1>1, <1>2, <2>7
<1>4. CASE rail.pager = "sliced"
  <2>1. rail.cap >= Start + PageSize
    BY <1>1, <1>4 DEF PagesAreWhole
  <2>2. Listed \subseteq 1..Start
    <3>1. FetchTyped /\ rail.window = "both"
      BY <1>4, RailIs DEF WalkInv
    <3>2. \A x \in Listed : x \in Records /\ x \in 1..held /\ day[x] <= To
      BY <3>1, ListedIs DEF Listed
    <3>3. \A x \in Listed : x <= Start
      BY <3>1, <3>2 DEF FetchTyped
    <3> QED BY <1>1, <3>2, <3>3
  <2>3. IsFiniteSet(1..Start) /\ Cardinality(1..Start) = Start /\ rows \in SUBSET (1..Start)
    <3>1. 1 \in Int /\ Start \in Int /\ Start - 1 + 1 = Start
      BY <1>1
    <3>2. IsFiniteSet(1..Start) /\ Cardinality(1..Start) = IF 1 > Start THEN 0 ELSE Start - 1 + 1
      BY <3>1, FS_Interval
    <3>3. rows \subseteq Listed
      BY DEF WalkInv, FetchTyped
    <3> QED BY <1>1, <2>2, <3>2, <3>3
  <2>4. Cardinality(rows) <= Start
    BY <2>3, FS_Subset
  <2>5. read <= Start
    BY <2>4 DEF OnceInv
  <2> QED BY <1>1, <1>2, <2>1, <2>5
<1> QED BY <1>3, <1>4

\* Rows and a page that share nothing.
LEMMA Joined ==
  ASSUME NEW S, NEW T, IsFiniteSet(S), IsFiniteSet(T), S \cap T = {}
  PROVE  Cardinality(S \cup T) = Cardinality(S) + Cardinality(T)
<1>1. Cardinality(S \cap T) = 0
  BY FS_EmptySet
<1>2. Cardinality(S) \in Nat /\ Cardinality(T) \in Nat
  BY FS_CardinalityType
<1>3. Cardinality(S \cup T) = Cardinality(S) + Cardinality(T) - Cardinality(S \cap T)
  BY FS_Union
<1> QED BY <1>1, <1>2, <1>3

LEMMA PageIsFresh ==
  ASSUME PagesAreWhole, WalkInv, OnceInv, pc = "walking", NEW reply \in Answers
  PROVE  reply.items \cap rows = {} /\ IsFiniteSet(rows)
<1>1. IsFiniteSet(rows) /\ rows \subseteq Past(cursor)
  BY ListedIs DEF WalkInv, FetchTyped, OnceInv
<1>2. CASE rail.pager = "container"
  <2>1. Past(cursor) = {}
    BY <1>2, AnswerHolds DEF Past
  <2> QED BY <1>1, <2>1
<1>3. CASE rail.pager # "container"
  <2>1. PageHolds(reply, Asked, cursor)
    BY <1>3, AnswerHolds
  <2>2. reply.items \cap Past(cursor) = {}
    BY <2>1, PagesOfOneSize DEF PageHolds
  <2> QED BY <1>1, <2>2
<1> QED BY <1>2, <1>3

LEMMA NextPageOnce == ASSUME PagesAreWhole, WalkInv, OnceInv, NextPage PROVE OnceInv'
<1>1. pc = "walking" /\ pc' = pc /\ rail' = rail /\ held' = held /\ day' = day
  BY DEF NextPage
<1>2. PICK reply \in Answers :
        /\ ~Stops(reply) /\ rows' = rows \cup reply.items /\ read' = Length(reply)
        /\ cursor' = reply.next
  BY DEF NextPage
<1>3. /\ rail.pager # "container" /\ More(reply) /\ ~(Length(reply) >= rail.cap)
  BY <1>2 DEF Stops
<1>4. /\ IsFiniteSet(reply.items) /\ Cardinality(reply.items) \in Nat
      /\ Length(reply) = read + Cardinality(reply.items)
      /\ PageHolds(reply, Asked, cursor) /\ reply.more
  BY <1>1, <1>3, AnswerHolds
<1>5. reply.items \cap rows = {} /\ IsFiniteSet(rows)
  BY <1>1, PageIsFresh
<1>6. rail.pager \in {"numbered", "sliced"} => Asked = PageSize
  BY <1>1, PagesOfOneSize
<1>7. Cardinality(rows') = read'
  BY <1>2, <1>4, <1>5, Joined DEF OnceInv
<1>8. Past(cursor)' = Past(reply.next)
  BY <1>1, <1>2, StillUpstream
<1>9. rows' \subseteq Past(cursor)'
  <2>1. rows \subseteq Past(cursor)
    BY <1>1 DEF OnceInv
  <2>2. Past(cursor) \cup reply.items \subseteq Past(reply.next)
    BY <1>4, <1>6 DEF PageHolds
  <2> QED BY <1>2, <1>8, <2>1, <2>2
<1>10. rail.pager = "numbered" => read' = (PageNo' - 1) * PageSize
  <2> HAVE rail.pager = "numbered"
  <2>1. PageNo \in Nat \ {0} /\ PageSize \in Nat /\ read = (PageNo - 1) * PageSize
    BY <1>1, FetchAssumption DEF PageNo, WalkInv, FetchTyped, Cursors, OnceInv
  <2>2. cursor' = PageNo + 1 /\ Cardinality(reply.items) = PageSize
    BY <1>2, <1>4, <1>6 DEF PageHolds, PageNo
  <2>3. PageNo' = PageNo + 1
    BY <2>1, <2>2, NoneAssumption DEF PageNo
  <2>4. read' = (PageNo - 1) * PageSize + PageSize
    BY <1>2, <1>4, <2>1, <2>2
  <2>5. ((PageNo + 1) - 1) * PageSize = (PageNo - 1) * PageSize + PageSize
    BY <2>1
  <2> QED BY <2>3, <2>4, <2>5
<1> QED BY <1>1, <1>7, <1>9, <1>10 DEF OnceInv

LEMMA ArriveOnce == ASSUME PagesAreWhole, WalkInv, OnceInv, Arrive PROVE OnceInv'
<1>1. /\ pc = "walking" /\ pc' = pc /\ rail' = rail /\ rows' = rows /\ read' = read
      /\ cursor' = cursor /\ rail.pager \notin StillPagers
  BY DEF Arrive
<1>2. rail.pager # "numbered"
  BY <1>1 DEF PagesAreWhole, WalkInv, FetchTyped
<1>3. Past(cursor) \subseteq Past(cursor)'
  BY <1>2, ArrivalIsAhead DEF WalkInv
<1> QED BY <1>1, <1>2, <1>3 DEF OnceInv

LEMMA LastPageOnce == ASSUME PagesAreWhole, WalkInv, OnceInv, LastPage PROVE OnceInv'
<1>1. pc = "walking" /\ pc' = "done"
  BY LastPageReads
<1>2. PICK reply \in Answers :
        /\ read' = Min({rail.cap, Length(reply)})
        /\ rows' = rows \cup Part(reply.items, 0, rail.cap - read)
  BY LastPageReads
<1>3. /\ reply.items \subseteq Listed /\ IsFiniteSet(reply.items) /\ Cardinality(reply.items) \in Nat
      /\ Length(reply) = read + Cardinality(reply.items)
      /\ reply.items \cap rows = {} /\ IsFiniteSet(rows)
  BY <1>1, AnswerHolds, PageIsFresh
<1>4. /\ read \in Nat /\ rail.cap \in Nat /\ rail.cap - read \in Nat /\ Cardinality(rows) = read
      /\ reply.items \in SUBSET Nat
  BY <1>1, <1>3, AskedIs, RailIs, ListedIs DEF WalkInv, FetchTyped, OnceInv
<1>5. read' = IF rail.cap <= Length(reply) THEN rail.cap ELSE Length(reply)
  <2>1. rail.cap \in Int /\ Length(reply) \in Int
    BY <1>3, <1>4
  <2> QED BY <1>2, <2>1, MinIs
<1> DEFINE page == Part(reply.items, 0, rail.cap - read)
<1>6. /\ page \subseteq reply.items /\ IsFiniteSet(page)
      /\ 0 + (rail.cap - read) <= Cardinality(reply.items) => Cardinality(page) = rail.cap - read
  <2>1. 0 \in Nat
    OBVIOUS
  <2> QED BY <1>3, <1>4, <2>1, PartSize
<1>7. Cardinality(reply.items) <= rail.cap - read => page = reply.items
  BY <1>3, <1>4, PartWhole
<1> HIDE DEF page
<1>8. Cardinality(rows \cup page) = read + Cardinality(page)
  BY <1>3, <1>4, <1>6, Joined
<1>9. read' = read + Cardinality(page)
  BY <1>3, <1>4, <1>5, <1>6, <1>7
<1>10. rows' = rows \cup page
  BY <1>2 DEF page
<1> QED BY <1>1, <1>8, <1>9, <1>10 DEF OnceInv

LEMMA OnceStep == PagesAreWhole /\ WalkInv /\ OnceInv /\ [Next]_vars => OnceInv'
<1> SUFFICES ASSUME PagesAreWhole, WalkInv, OnceInv, [Next]_vars PROVE OnceInv'
  OBVIOUS
<1>1. CASE UNCHANGED vars
  <2>1. rail' = rail /\ held' = held /\ day' = day
    BY <1>1 DEF vars
  <2>2. \A c : c = cursor' => Past(cursor)' = Past(c)
    BY <2>1, StillUpstream
  <2>3. Past(cursor)' = Past(cursor)
    BY <1>1, <2>2 DEF vars
  <2> QED BY <1>1, <2>3 DEF OnceInv, PageNo, vars
<1> QED BY <1>1, NextPageOnce, ArriveOnce, LastPageOnce DEF Next

\* Wherever page numbers count pages of one size: a walk reads no record twice,
\* whatever arrives behind its cursor.
THEOREM EveryRecordOnce == PagesAreWhole => (Spec => []ReadOnce)
<1> SUFFICES ASSUME PagesAreWhole PROVE Spec => []ReadOnce
  OBVIOUS
<1>1. Init => OnceInv
  <2> SUFFICES ASSUME Init PROVE OnceInv
    OBVIOUS
  <2>1. (1 - 1) * PageSize = 0
    BY FetchAssumption
  <2> QED BY <2>1, FS_EmptySet DEF Init, OnceInv, Past, PageNo
<1>2. WalkInv /\ OnceInv /\ [Next]_vars => OnceInv'
  BY OnceStep
<1>3. OnceInv => ReadOnce
  BY DEF OnceInv, ReadOnce
<1> QED BY WalkInit, WalkStep, <1>1, <1>2, <1>3, PTL DEF Spec
=============================================================================
