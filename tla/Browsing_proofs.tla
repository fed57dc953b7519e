------------------------- MODULE Browsing_proofs -------------------------
(***************************************************************************)
(* What holds of paging for any number of rows, any size of page and of    *)
(* window, any searches, and any number of requests in flight: the types,  *)
(* that a list built page by page is exact, and that the timeline has no   *)
(* hole.  The inductive invariant relates what a client shows to the       *)
(* cursor it holds, and the answer in flight to the rows past that cursor. *)
(***************************************************************************)
EXTENDS Browsing, FiniteSetTheorems, SequenceTheorems, TLAPS

Dirs == {"forward", "backward"}
Lists == {"chats", "people", "search"}
Agents == {"tools", "conversation"}
Cursors == Cursor \union {None}
Queries == [filter : Filter, cursor : Cursors, dir : Dirs]
Pages == [kind : {"idle", "loading", "ready", "empty", "error", "unauthorized"},
          items : Seq(Row), next : Cursors, newer : Cursors, more : BOOLEAN, busy : BOOLEAN]
PageReplies == [kind : {"page"}, items : Seq(Row), more : BOOLEAN, next : Cursors]
Refusals == [kind : {"unauthorized", "error"}]
Asking == [stage : {"sent"}, query : Queries]
Reading == [stage : {"candidates"}, query : Queries, ids : Seq(Row)]
Served == [stage : {"answered"}, query : Queries, reply : PageReplies \union Refusals]
Calls == {Quiet} \union Asking \union Reading \union Served

Types ==
    /\ row \in [Row -> {"absent", "shown", "private", "retired"}]
    /\ view \in Listings \union Messages
    /\ dir \in Dirs
    /\ page \in Pages
    /\ active \in Filter
    /\ calls \in [Slot -> Calls]
    /\ epoch \in {0, 1}
    /\ signedIn \in BOOLEAN
    /\ steady \in SUBSET Row
    /\ mixed \in BOOLEAN
    /\ left \in [changes : Nat, asks : Nat, faults : Nat]

Ahead(d, a, b) == IF d = "forward" THEN a < b ELSE b < a
InOrder(d, items) == \A i, j \in DOMAIN items : i < j => Ahead(d, items[i], items[j])

\* How a client v pages, in direction d, and which clients search for an f.
ViewShape(v, d, f) ==
    /\ v = "timeline" => d = "backward"
    /\ v \in Lists => d = "forward"
    /\ v \notin {"people", "search"} => f = NoSearch

\* What a page p of any client looks like.
PageShape(v, d, p) ==
    /\ p.more <=> p.next # None
    /\ p.next # None => p.next.dir = d
    /\ p.newer # None => p.newer.dir = d
    /\ v = "timeline" => Len(p.items) <= Retain
    /\ v \in Lists => IF p.kind = "ready" THEN p.items # <<>>
                                         ELSE p.items = <<>> /\ p.next = None

\* A request follows the direction of its client, or is the one that asks the
\* timeline for newer messages, which the server refuses.
Astray(v, q) == v = "timeline" /\ q.dir = "forward" /\ q.cursor # None /\ q.cursor.dir = "backward"

ReplyShape(v, d, q, reply) ==
    reply.kind = "page" =>
        /\ q.dir = d
        /\ reply.more <=> reply.next # None
        /\ reply.next # None => reply.next.dir = d
        /\ v = "search" /\ q.filter = NoSearch => reply.items = <<>> /\ reply.next = None

CallShape(v, d, c) ==
    /\ c.stage # "idle" => c.query.dir = d \/ Astray(v, c.query)
    /\ c.stage = "candidates" => c.query.dir = d /\ v \in Messages
    /\ c.stage = "answered" => ReplyShape(v, d, c.query, c.reply)

Shape ==
    /\ ViewShape(view, dir, active)
    /\ PageShape(view, dir, page)
    /\ \A s \in Slot : CallShape(view, dir, calls[s])
    /\ steady \subseteq Readable \intersect Found(active)

-----------------------------------------------------------------------------
(* While the requests of the listing have not been mixed *)

OneCall(cs) == \A s, t \in Slot : cs[s].stage # "idle" /\ cs[t].stage # "idle" => s = t

\* The request in flight continues what the page p of the search f shows, or
\* starts it.
Continues(d, f, p, q) ==
    /\ q.filter = f
    /\ q.dir = d /\ q.cursor # None => q.cursor = p.next
    /\ q.cursor = None => p.items = <<>> /\ p.next = None /\ p.kind # "ready"

\* The candidates are the first readable rows past the cursor; S are the rows
\* that were there all along.
CandidatesComplete(d, S, q, ids) ==
    /\ \A x \in Range(ids) : x \in Past(q)
    /\ \A r \in S \intersect Past(q) :
          r \in Range(ids) \/ \A x \in Range(ids) : Ahead(d, x, r)

\* A page holds the rows between its cursor and the next, and nothing else.
ReplyComplete(v, d, S, q, reply) ==
    reply.kind = "page" =>
        /\ InOrder(d, reply.items)
        /\ \A x \in Range(reply.items) : x \in Past(q)
        /\ reply.next # None =>
              /\ reply.next.after \in Range(reply.items)
              /\ \A x \in Range(reply.items) : ~Ahead(d, reply.next.after, x)
              /\ \A r \in S \intersect Past(q) :
                    r \in Range(reply.items) \/ Ahead(d, reply.next.after, r)
        /\ reply.next = None =>
              \A r \in S \intersect Past(q) :
                 \/ r \in Range(reply.items)
                 \/ v \in Messages /\ \A x \in Range(reply.items) : Ahead(d, x, r)
                 \/ v = "search" /\ q.filter = NoSearch

CallComplete(v, d, f, p, S, c) ==
    /\ c.stage # "idle" => Continues(d, f, p, c.query)
    /\ c.stage = "candidates" => CandidatesComplete(d, S, c.query, c.ids)
    /\ c.stage = "answered" => ReplyComplete(v, d, S, c.query, c.reply)

\* What a list shows is every row that was there all along, up to its cursor.
ListComplete(v, d, f, p, S) ==
    /\ InOrder(d, p.items)
    /\ p.next # None =>
          /\ \A x \in Range(p.items) : ~Ahead(d, p.next.after, x)
          /\ \A r \in S : r \in Range(p.items) \/ Ahead(d, p.next.after, r)
          /\ v = "search" => f # NoSearch
    /\ p.next = None /\ p.kind = "ready" =>
          \A r \in S :
             \/ r \in Range(p.items)
             \/ v = "conversation" /\ \A x \in Range(p.items) : Ahead(d, x, r)

\* A row that was there all along and is not in the window is newer than every
\* dated message in it, or older than all that has been fetched.
Dropped(items, r) == \A x \in Range(items) \ Undated : x < r

WindowComplete(p, S) ==
    /\ p.next # None =>
          /\ \A x \in Range(p.items) : p.next.after <= x
          /\ \A r \in S : p.next.after <= r => r \in Range(p.items) \/ Dropped(p.items, r)
    /\ p.next = None /\ p.kind = "ready" =>
          \A r \in S :
             r \in Range(p.items) \/ Dropped(p.items, r) \/ \A x \in Range(p.items) : r < x

PageComplete(v, d, f, p, S) ==
    IF v = "timeline" THEN WindowComplete(p, S) ELSE ListComplete(v, d, f, p, S)

Complete ==
    /\ OneCall(calls)
    /\ \A s \in Slot : CallComplete(view, dir, active, page, steady, calls[s])
    /\ PageComplete(view, dir, active, page, steady)

Invariant == Types /\ Shape /\ (~mixed => Complete)

-----------------------------------------------------------------------------
(* Sorting *)

StrictOrder(S, R) ==
    /\ \A x \in S : <<x, x>> \notin R
    /\ \A x, y, z \in S : <<x, y>> \in R /\ <<y, z>> \in R => <<x, z>> \in R
    /\ \A x, y \in S : x = y \/ <<x, y>> \in R \/ <<y, x>> \in R

Below(S, R, r) == {x \in S : <<x, r>> \in R}

\* The rank of a row grows with the row, so every rank is taken exactly once.
LEMMA RankTaken ==
  ASSUME NEW S, IsFiniteSet(S), NEW R, StrictOrder(S, R)
  PROVE  /\ \A r \in S : Cardinality(Below(S, R, r)) \in 0 .. Cardinality(S) - 1
         /\ \A x, y \in S : <<x, y>> \in R
               => Cardinality(Below(S, R, x)) < Cardinality(Below(S, R, y))
         /\ \A i \in 1 .. Cardinality(S) :
               \E r \in S : Cardinality(Below(S, R, r)) = i - 1
<1>1. Cardinality(S) \in Nat
  BY FS_CardinalityType
<1>2. ASSUME NEW r \in S
      PROVE  /\ IsFiniteSet(Below(S, R, r))
             /\ Cardinality(Below(S, R, r)) \in 0 .. Cardinality(S) - 1
  <2>1. Below(S, R, r) \in SUBSET S
    BY DEF Below
  <2>2. /\ IsFiniteSet(Below(S, R, r))
        /\ Cardinality(Below(S, R, r)) <= Cardinality(S)
        /\ Cardinality(S) = Cardinality(Below(S, R, r)) => S = Below(S, R, r)
    BY <2>1, FS_Subset
  <2>3. r \notin Below(S, R, r)
    BY DEF Below, StrictOrder
  <2>4. Cardinality(Below(S, R, r)) # Cardinality(S)
    BY <2>2, <2>3
  <2>5. Cardinality(Below(S, R, r)) \in Nat
    BY <2>2, FS_CardinalityType
  <2> QED BY <1>1, <2>2, <2>4, <2>5
<1>3. ASSUME NEW x \in S, NEW y \in S, <<x, y>> \in R
      PROVE  Cardinality(Below(S, R, x)) < Cardinality(Below(S, R, y))
  <2>1. Below(S, R, x) \in SUBSET Below(S, R, y)
    BY <1>3 DEF Below, StrictOrder
  <2>2. x \in Below(S, R, y) /\ x \notin Below(S, R, x)
    BY <1>3 DEF Below, StrictOrder
  <2>3. IsFiniteSet(Below(S, R, y)) /\ IsFiniteSet(Below(S, R, x))
    BY <1>2
  <2>4. /\ Cardinality(Below(S, R, x)) <= Cardinality(Below(S, R, y))
        /\ Cardinality(Below(S, R, y)) # Cardinality(Below(S, R, x))
    BY <2>1, <2>2, <2>3, FS_Subset
  <2>5. Cardinality(Below(S, R, x)) \in Nat /\ Cardinality(Below(S, R, y)) \in Nat
    BY <2>3, FS_CardinalityType
  <2> QED BY <2>4, <2>5
<1>4. ASSUME NEW i \in 1 .. Cardinality(S)
      PROVE  \E r \in S : Cardinality(Below(S, R, r)) = i - 1
  <2> DEFINE T == 0 .. Cardinality(S) - 1
             rank == [r \in S |-> Cardinality(Below(S, R, r))]
  <2>1. rank \in [S -> T]
    BY <1>2
  <2>2. ASSUME NEW x \in S, NEW y \in S, rank[x] = rank[y]
        PROVE  x = y
    <3>1. Cardinality(Below(S, R, x)) = Cardinality(Below(S, R, y))
      BY <2>2
    <3>2. Cardinality(Below(S, R, x)) \in Nat
      BY <1>2, <1>1
    <3>3. ~(<<x, y>> \in R) /\ ~(<<y, x>> \in R)
      BY <1>3, <3>1, <3>2
    <3> QED BY <3>3 DEF StrictOrder
  <2>3. rank \in Injection(S, T)
    <3> HIDE DEF rank
    <3> QED BY <2>1, <2>2 DEF Injection, IsInjective
  <2>4. IsFiniteSet(T) /\ Cardinality(T) = Cardinality(S)
    <3>1. 0 \in Int /\ Cardinality(S) - 1 \in Int
      BY <1>1
    <3>2. /\ IsFiniteSet(T)
          /\ Cardinality(T) = IF 0 > Cardinality(S) - 1 THEN 0
                              ELSE (Cardinality(S) - 1) - 0 + 1
      BY <3>1, FS_Interval
    <3> QED BY <3>2, <1>1
  <2>5. rank \in Surjection(S, T)
    <3> HIDE DEF rank, T
    <3> QED BY <2>3, <2>4, FS_Injection
  <2>6. i - 1 \in T
    BY <1>1
  <2>7. \E r \in S : rank[r] = i - 1
    <3> HIDE DEF rank, T
    <3> QED BY <2>5, <2>6 DEF Surjection
  <2> QED BY <2>7
<1> QED BY <1>2, <1>3, <1>4

\* What Sorted returns: the rows of the set, each once, in the order.
LEMMA SortedRows ==
  ASSUME NEW S, IsFiniteSet(S), NEW R, StrictOrder(S, R)
  PROVE  /\ Sorted(S, R) \in Seq(S)
         /\ Len(Sorted(S, R)) = Cardinality(S)
         /\ \A i, j \in 1 .. Cardinality(S) :
               i < j => <<Sorted(S, R)[i], Sorted(S, R)[j]>> \in R
         /\ \A x \in S : \E i \in 1 .. Cardinality(S) : Sorted(S, R)[i] = x
<1> DEFINE n == Cardinality(S)
           f == Sorted(S, R)
<1>1. n \in Nat
  BY FS_CardinalityType
<1>2. ASSUME NEW i \in 1 .. n
      PROVE  f[i] \in S /\ Cardinality(Below(S, R, f[i])) = i - 1
  <2>1. f[i] = CHOOSE r \in S : Cardinality({x \in S : <<x, r>> \in R}) = i - 1
    BY DEF Sorted
  <2>2. PICK r \in S : Cardinality(Below(S, R, r)) = i - 1
    BY RankTaken
  <2>3. Cardinality({x \in S : <<x, r>> \in R}) = i - 1
    BY <2>2 DEF Below
  <2> QED BY <2>1, <2>3 DEF Below
<1>3. f \in [1 .. n -> S]
  <2> DEFINE at(i) == CHOOSE r \in S : Cardinality({x \in S : <<x, r>> \in R}) = i - 1
  <2>1. f = [i \in 1 .. n |-> at(i)]
    BY DEF Sorted
  <2>2. \A i \in 1 .. n : at(i) = f[i]
    BY <2>1
  <2>3. \A i \in 1 .. n : at(i) \in S
    <3> HIDE DEF f, at
    <3> QED BY <1>2, <2>2
  <2> HIDE DEF f, at
  <2> QED BY <2>1, <2>3
<1>4. f \in Seq(S) /\ Len(f) = n
  <2> HIDE DEF f, n
  <2> QED BY <1>1, <1>3
<1>5. ASSUME NEW i \in 1 .. n, NEW j \in 1 .. n, i < j
      PROVE  <<f[i], f[j]>> \in R
  <2>1. f[i] \in S /\ f[j] \in S
    BY <1>2
  <2>2. Cardinality(Below(S, R, f[i])) = i - 1 /\ Cardinality(Below(S, R, f[j])) = j - 1
    BY <1>2
  <2>3. f[i] # f[j]
    BY <2>2, <1>5
  <2>4. ~(<<f[j], f[i]>> \in R)
    <3> HIDE DEF f, n
    <3>1. <<f[j], f[i]>> \in R => j - 1 < i - 1
      BY <2>1, <2>2, RankTaken
    <3> QED BY <3>1, <1>5, <1>1
  <2> HIDE DEF f
  <2> QED BY <2>1, <2>3, <2>4 DEF StrictOrder
<1>6. ASSUME NEW x \in S
      PROVE  \E i \in 1 .. n : f[i] = x
  <2> DEFINE k == Cardinality(Below(S, R, x))
  <2>1. k \in 0 .. n - 1
    BY RankTaken
  <2>2. k + 1 \in 1 .. n /\ (k + 1) - 1 = k
    <3> HIDE DEF k, n
    <3> QED BY <2>1, <1>1
  <2>3. f[k + 1] \in S /\ Cardinality(Below(S, R, f[k + 1])) = k
    <3> HIDE DEF k, n, f
    <3> QED BY <1>2, <2>2
  <2>4. ~(<<f[k + 1], x>> \in R) /\ ~(<<x, f[k + 1]>> \in R)
    <3> HIDE DEF f
    <3>1. k \in Nat
      BY <2>1
    <3> QED BY <2>3, <3>1, RankTaken
  <2>5. f[k + 1] = x
    <3> HIDE DEF k, f
    <3> QED BY <2>3, <2>4 DEF StrictOrder
  <2> HIDE DEF k, f, n
  <2> QED BY <2>2, <2>5
<1> HIDE DEF f, n
<1> QED BY <1>1, <1>4, <1>5, <1>6 DEF f, n

LEMMA RowsAreFinite ==
  ASSUME NEW S \in SUBSET Row
  PROVE  IsFiniteSet(S) /\ Cardinality(S) \in Nat
<1>1. IsFiniteSet(Row)
  BY FS_Interval, BoundsAssumption DEF Row
<1> QED BY <1>1, FS_Subset, FS_CardinalityType

LEMMA ListingOrder ==
  ASSUME NEW d \in Dirs, NEW S \in SUBSET Row
  PROVE  StrictOrder(S, Order(d))
BY BoundsAssumption DEF StrictOrder, Order, Ascending, Descending, Dirs, Row

LEMMA TimelineOrder ==
  ASSUME NEW S \in SUBSET Row
  PROVE  StrictOrder(S, ClientOrder)
BY BoundsAssumption DEF StrictOrder, ClientOrder, Row

LEMMA ItemsOfSeq ==
  ASSUME NEW S, NEW s \in Seq(S)
  PROVE  /\ DOMAIN s = 1 .. Len(s)
         /\ Range(s) \in SUBSET S
         /\ Range(s) = {s[i] : i \in 1 .. Len(s)}
<1>1. DOMAIN s = 1 .. Len(s) /\ \A i \in 1 .. Len(s) : s[i] \in S
  BY LenProperties, ElementOfSeq
<1>2. Range(s) = {s[i] : i \in 1 .. Len(s)}
  BY <1>1 DEF Range
<1>3. Range(s) \in SUBSET S
  BY <1>1, <1>2
<1> QED BY <1>1, <1>2, <1>3

\* The order of a listing is the one its client shows.
LEMMA SameOrder ==
  ASSUME NEW d \in Dirs, NEW q \in Queries, q.dir = d, NEW x \in Row, NEW y \in Row
  PROVE  /\ <<x, y>> \in Order(q.dir) <=> Ahead(d, x, y)
         /\ x \in Past(q) <=> q.cursor = None \/ Ahead(d, q.cursor.after, x)
<1>1. q.dir = d
  OBVIOUS
<1>2. <<x, y>> \in Order(q.dir) <=> Ahead(d, x, y)
  BY <1>1 DEF Order, Ascending, Descending, Ahead
<1>3. x \in Past(q) <=> q.cursor = None \/ Ahead(d, q.cursor.after, x)
  BY <1>1, BoundsAssumption DEF Past, Ahead, Row
<1> QED BY <1>2, <1>3

\* Two rows of a listing compare as their places do.
LEMMA AheadOrders ==
  ASSUME NEW d \in Dirs
  PROVE  /\ \A x \in Row : ~Ahead(d, x, x)
         /\ \A x, y, z \in Row : Ahead(d, x, y) /\ Ahead(d, y, z) => Ahead(d, x, z)
         /\ \A x, y \in Row : x = y \/ Ahead(d, x, y) \/ Ahead(d, y, x)
         /\ \A x, y \in Row : ~(Ahead(d, x, y) /\ Ahead(d, y, x))
BY BoundsAssumption DEF Ahead, Row, Dirs

\* A sorted set of rows, as a client sees it.
LEMMA SortedListing ==
  ASSUME NEW d \in Dirs, NEW q \in Queries, q.dir = d, NEW S \in SUBSET Row
  PROVE  LET s == Sorted(S, Order(q.dir))
         IN  /\ s \in Seq(Row)
             /\ Len(s) = Cardinality(S)
             /\ InOrder(d, s)
             /\ Range(s) = S
<1> DEFINE s == Sorted(S, Order(q.dir))
<1>1. q.dir \in Dirs
  BY DEF Queries
<1>2. StrictOrder(S, Order(q.dir)) /\ IsFiniteSet(S)
  BY <1>1, ListingOrder, RowsAreFinite
<1>3. /\ s \in Seq(S)
      /\ Len(s) = Cardinality(S)
      /\ \A i, j \in 1 .. Cardinality(S) : i < j => <<s[i], s[j]>> \in Order(q.dir)
      /\ \A x \in S : \E i \in 1 .. Cardinality(S) : s[i] = x
  BY <1>2, SortedRows
<1> HIDE DEF s
<1>4. s \in Seq(Row)
  BY <1>3, SeqMonotonic
<1>5. DOMAIN s = 1 .. Len(s) /\ Range(s) = {s[i] : i \in 1 .. Len(s)}
  BY <1>4, ItemsOfSeq
<1>6. \A i \in 1 .. Len(s) : s[i] \in S
  BY <1>3, ElementOfSeq
<1>7. Range(s) = S
  BY <1>3, <1>5, <1>6
<1>8. InOrder(d, s)
  <2> SUFFICES ASSUME NEW i \in DOMAIN s, NEW j \in DOMAIN s, i < j
               PROVE  Ahead(d, s[i], s[j])
    BY DEF InOrder
  <2>1. s[i] \in Row /\ s[j] \in Row
    BY <1>5, <1>6
  <2>2. <<s[i], s[j]>> \in Order(q.dir)
    BY <1>3, <1>5
  <2> QED BY <2>1, <2>2, SameOrder
<1> QED BY <1>3, <1>4, <1>7, <1>8 DEF s

\* The first rows of a sorted sequence: what is cut off comes after what is kept.
LEMMA FirstRows ==
  ASSUME NEW d \in Dirs, NEW s \in Seq(Row), InOrder(d, s), NEW n \in 0 .. Len(s)
  PROVE  LET t == SubSeq(s, 1, n)
         IN  /\ t \in Seq(Row)
             /\ Len(t) = n
             /\ \A i \in 1 .. n : t[i] = s[i]
             /\ InOrder(d, t)
             /\ Range(t) \in SUBSET Range(s)
             /\ \A r \in Range(s) : r \in Range(t) \/ \A x \in Range(t) : Ahead(d, x, r)
<1> DEFINE t == SubSeq(s, 1, n)
<1>1. Len(s) \in Nat /\ n \in Nat /\ n <= Len(s)
  BY LenProperties
<1>2. \A i \in 1 .. n : s[i] \in Row
  BY <1>1, ElementOfSeq
<1>3. t \in Seq(Row) /\ Len(t) = n /\ \A i \in 1 .. n : t[i] = s[i]
  <2>1. /\ t \in Seq(Row)
        /\ Len(t) = IF 1 <= n THEN n - 1 + 1 ELSE 0
        /\ \A i \in 1 .. n - 1 + 1 : t[i] = s[1 + i - 1]
    BY <1>1, <1>2, SubSeqProperties
  <2> HIDE DEF t
  <2>2. \A i \in 1 .. n : i \in 1 .. n - 1 + 1 /\ 1 + i - 1 = i
    BY <1>1
  <2> QED BY <2>1, <2>2, <1>1
<1> HIDE DEF t
<1>4. /\ DOMAIN s = 1 .. Len(s) /\ Range(s) = {s[i] : i \in 1 .. Len(s)}
      /\ DOMAIN t = 1 .. n /\ Range(t) = {t[i] : i \in 1 .. n}
  BY <1>3, ItemsOfSeq
<1>5. InOrder(d, t)
  BY <1>1, <1>3, <1>4 DEF InOrder
<1>6. Range(t) \in SUBSET Range(s)
  BY <1>1, <1>3, <1>4
<1>7. ASSUME NEW r \in Range(s), r \notin Range(t), NEW x \in Range(t)
      PROVE  Ahead(d, x, r)
  <2>1. PICK j \in 1 .. Len(s) : s[j] = r
    BY <1>4
  <2>2. PICK i \in 1 .. n : t[i] = x
    BY <1>4
  <2>3. ~(j <= n)
    BY <1>3, <1>4, <1>7, <2>1
  <2>4. i < j /\ i \in 1 .. Len(s)
    BY <2>3, <1>1
  <2> QED BY <1>3, <1>4, <2>1, <2>2, <2>4 DEF InOrder
<1> QED BY <1>3, <1>5, <1>6, <1>7 DEF t

\* What a query with a keyset predicate and a limit returns.
LEMMA WindowRows ==
  ASSUME NEW d \in Dirs, NEW q \in Queries, q.dir = d, NEW S \in SUBSET Row
  PROVE  LET w == Window(S, q)
         IN  /\ w \in Seq(Row)
             /\ InOrder(d, w)
             /\ Range(w) \in SUBSET (S \intersect Past(q))
             /\ \A r \in S \intersect Past(q) :
                   r \in Range(w) \/ (Len(w) > Limit /\ \A x \in Range(w) : Ahead(d, x, r))
<1> DEFINE T == S \intersect Past(q)
           o == Sorted(T, Order(q.dir))
           n == IF Len(o) > Limit THEN Limit + 1 ELSE Len(o)
           w == SubSeq(o, 1, n)
<1>1. T \in SUBSET Row
  OBVIOUS
<1>2. o \in Seq(Row) /\ InOrder(d, o) /\ Range(o) = T
  BY <1>1, SortedListing
<1>3. Window(S, q) = w
  BY DEF Window
<1> HIDE DEF T, o
<1>4. Len(o) \in Nat /\ Limit \in Nat
  BY <1>2, LenProperties, BoundsAssumption
<1>5. n \in 0 .. Len(o)
  BY <1>4
<1>6. /\ w \in Seq(Row) /\ InOrder(d, w) /\ Range(w) \in SUBSET Range(o)
      /\ Len(w) = n /\ \A i \in 1 .. n : w[i] = o[i]
      /\ \A r \in Range(o) : r \in Range(w) \/ \A x \in Range(w) : Ahead(d, x, r)
  <2> HIDE DEF n
  <2> QED BY <1>2, <1>5, FirstRows
<1>7. ASSUME NEW r \in T, r \notin Range(w)
      PROVE  Len(w) > Limit
  <2>1. SUFFICES ASSUME ~(Len(o) > Limit)
                 PROVE  FALSE
    BY <1>6, <1>4
  <2>2. n = Len(o)
    BY <2>1
  <2>3. PICK i \in 1 .. Len(o) : o[i] = r
    BY <1>2, ItemsOfSeq
  <2> HIDE DEF n, w
  <2>4. w[i] = r /\ i \in 1 .. Len(w)
    BY <1>6, <2>2, <2>3
  <2> QED BY <1>6, <1>7, <2>4, ItemsOfSeq
<1> HIDE DEF n, w
<1> QED BY <1>2, <1>3, <1>6, <1>7 DEF T

-----------------------------------------------------------------------------
(* Pages *)

LEMMA CursorTypes ==
  /\ None.after = 0
  /\ \A c \in Cursors : c # None =>
        /\ c \in Cursor /\ c.after \in Row /\ c.dir \in Dirs
        /\ c.filter \in Filter /\ c.epoch \in {0, 1}
  /\ \A c \in Cursor : c # None /\ c \in Cursors
<1>1. \A c \in Cursor : c.after \in Row /\ c.dir \in Dirs /\ c.filter \in Filter /\ c.epoch \in {0, 1}
  BY DEF Cursor, Dirs
<1>2. None.after = 0 /\ 0 \notin Row
  BY BoundsAssumption DEF None, Row
<1>3. \A c \in Cursor : c # None
  BY <1>1, <1>2
<1> QED BY <1>1, <1>2, <1>3 DEF Cursors

\* How a page relates to the rows it was cut from.
PageHolds(d, reply, rows) ==
    /\ reply \in PageReplies
    /\ reply.more <=> reply.next # None
    /\ InOrder(d, reply.items)
    /\ Range(reply.items) \in SUBSET Range(rows)
    /\ reply.next # None =>
          /\ reply.next.dir = d
          /\ reply.next.after \in Range(reply.items)
          /\ \A x \in Range(reply.items) : ~Ahead(d, reply.next.after, x)
          /\ \A r \in Range(rows) : r \in Range(reply.items) \/ Ahead(d, reply.next.after, r)
    /\ reply.next = None => reply.items = rows /\ ~(Len(rows) > Limit)

LEMMA PageOfRows ==
  ASSUME epoch \in {0, 1}, NEW d \in Dirs, NEW q \in Queries, q.dir = d,
         NEW rows \in Seq(Row), InOrder(d, rows)
  PROVE  PageHolds(d, PageOf(q, rows), rows)
<1> DEFINE reply == PageOf(q, rows)
           t == SubSeq(rows, 1, Limit)
           c == CursorAt(q, rows[Limit])
<1>1. Len(rows) \in Nat /\ Limit \in Nat \ {0}
  BY LenProperties, BoundsAssumption
<1>2. CASE Len(rows) > Limit
  <2>1. reply = [kind |-> "page", items |-> t, more |-> TRUE, next |-> c]
    BY <1>2 DEF PageOf
  <2>2. Limit \in 0 .. Len(rows) /\ Limit \in 1 .. Len(rows)
    BY <1>1, <1>2
  <2>3. /\ t \in Seq(Row) /\ Len(t) = Limit /\ InOrder(d, t) /\ Range(t) \in SUBSET Range(rows)
        /\ \A i \in 1 .. Limit : t[i] = rows[i]
        /\ \A r \in Range(rows) : r \in Range(t) \/ \A x \in Range(t) : Ahead(d, x, r)
    BY <2>2, FirstRows
  <2>4. rows[Limit] \in Row
    BY <2>2, ElementOfSeq
  <2>5. c \in Cursor /\ c.after = rows[Limit] /\ c.dir = d
    BY <2>4 DEF CursorAt, Cursor, Queries, Dirs
  <2>6. c # None /\ c \in Cursors
    BY <2>5, CursorTypes
  <2> HIDE DEF t, c, reply
  <2>7. DOMAIN t = 1 .. Limit /\ Range(t) = {t[i] : i \in 1 .. Limit}
    BY <2>3, ItemsOfSeq
  <2>8. c.after = t[Limit] /\ Limit \in 1 .. Limit /\ c.after \in Range(t)
    BY <1>1, <2>3, <2>5, <2>7
  <2>9. ASSUME NEW x \in Range(t)
        PROVE  ~Ahead(d, c.after, x)
    <3>1. PICK i \in 1 .. Limit : x = t[i]
      BY <2>7
    <3>2. x \in Row /\ c.after \in Row
      BY <2>3, <2>5, <2>4, <3>1, ElementOfSeq
    <3>3. CASE i = Limit
      BY <3>1, <3>2, <3>3, <2>8, AheadOrders
    <3>4. CASE i < Limit
      <4>1. Ahead(d, x, c.after)
        BY <3>1, <3>4, <2>3, <2>7, <2>8 DEF InOrder
      <4> QED BY <4>1, <3>2, AheadOrders
    <3> QED BY <3>3, <3>4, <1>1
  <2>10. \A r \in Range(rows) : r \in Range(t) \/ Ahead(d, c.after, r)
    BY <2>3, <2>8
  <2>11. /\ reply \in PageReplies
         /\ reply.items = t /\ reply.next = c /\ reply.more = TRUE
    BY <2>1, <2>3, <2>6 DEF PageReplies
  <2>12. /\ InOrder(d, reply.items) /\ Range(reply.items) \in SUBSET Range(rows)
         /\ reply.next.dir = d /\ reply.next.after \in Range(reply.items)
         /\ \A x \in Range(reply.items) : ~Ahead(d, reply.next.after, x)
         /\ \A r \in Range(rows) : r \in Range(reply.items) \/ Ahead(d, reply.next.after, r)
    BY <2>3, <2>5, <2>8, <2>9, <2>10, <2>11
  <2>13. reply.next # None /\ (reply.more <=> reply.next # None)
    BY <2>6, <2>11
  <2>14. PageHolds(d, reply, rows)
    BY <2>11, <2>12, <2>13 DEF PageHolds
  <2> QED BY <2>14 DEF reply
<1>3. CASE ~(Len(rows) > Limit)
  <2>0. (Len(rows) > Limit) = FALSE
    BY <1>3
  <2>1. reply = [kind |-> "page", items |-> rows, more |-> FALSE, next |-> None]
    BY <2>0, Zenon DEF PageOf
  <2> HIDE DEF reply
  <2>2. /\ reply \in PageReplies
        /\ reply.items = rows /\ reply.next = None /\ reply.more = FALSE
    BY <2>1 DEF PageReplies, Cursors
  <2>3. PageHolds(d, reply, rows)
    BY <1>3, <2>2 DEF PageHolds
  <2> QED BY <2>3 DEF reply
<1> QED BY <1>2, <1>3

\* A page of a listing is complete whatever the rows: its query is one statement.
LEMMA ListingPage ==
  ASSUME epoch \in {0, 1}, NEW d \in Dirs, NEW q \in Queries, q.dir = d,
         NEW S \in SUBSET Row, steady \subseteq S
  PROVE  LET reply == PageOf(q, Window(S, q))
         IN  /\ PageHolds(d, reply, Window(S, q))
             /\ ReplyComplete(view, d, steady, q, reply)
<1> DEFINE w == Window(S, q)
           reply == PageOf(q, w)
<1>1. /\ w \in Seq(Row) /\ InOrder(d, w)
      /\ Range(w) \in SUBSET (S \intersect Past(q))
      /\ \A r \in S \intersect Past(q) :
            r \in Range(w) \/ (Len(w) > Limit /\ \A x \in Range(w) : Ahead(d, x, r))
  BY WindowRows
<1> HIDE DEF w
<1>2. PageHolds(d, reply, w)
  BY <1>1, PageOfRows
<1> HIDE DEF reply
<1>3. ReplyComplete(view, d, steady, q, reply)
  <2>1. InOrder(d, reply.items) /\ \A x \in Range(reply.items) : x \in Past(q)
    BY <1>1, <1>2 DEF PageHolds
  <2>2. ASSUME reply.next # None
        PROVE  /\ reply.next.after \in Range(reply.items)
               /\ \A x \in Range(reply.items) : ~Ahead(d, reply.next.after, x)
               /\ \A r \in steady \intersect Past(q) :
                     r \in Range(reply.items) \/ Ahead(d, reply.next.after, r)
    BY <1>1, <1>2, <2>2 DEF PageHolds
  <2>3. ASSUME reply.next = None, NEW r \in steady \intersect Past(q)
        PROVE  r \in Range(reply.items)
    BY <1>1, <1>2, <2>3 DEF PageHolds
  <2> QED BY <2>1, <2>2, <2>3 DEF ReplyComplete
<1> QED BY <1>2, <1>3 DEF reply, w

\* Candidates are complete at the query that finds them ...
LEMMA CandidatesFound ==
  ASSUME NEW d \in Dirs, NEW q \in Queries, q.dir = d, NEW S \in SUBSET Row, steady \subseteq S
  PROVE  LET ids == Window(S, q)
         IN  ids \in Seq(Row) /\ CandidatesComplete(d, steady, q, ids)
<1> DEFINE w == Window(S, q)
<1>1. /\ w \in Seq(Row)
      /\ Range(w) \in SUBSET (S \intersect Past(q))
      /\ \A r \in S \intersect Past(q) :
            r \in Range(w) \/ (Len(w) > Limit /\ \A x \in Range(w) : Ahead(d, x, r))
  BY WindowRows
<1> HIDE DEF w
<1>2. CandidatesComplete(d, steady, q, w)
  BY <1>1 DEF CandidatesComplete
<1> QED BY <1>1, <1>2 DEF w

\* ... and make a page when they are read, without those retired meanwhile.
LEMMA MessagePage ==
  ASSUME epoch \in {0, 1}, NEW d \in Dirs, NEW q \in Queries, q.dir = d, NEW ids \in Seq(Row)
  PROVE  LET reply == ListMessages(q, ids)
         IN  /\ PageHolds(d, reply, HydratedRows(q, ids))
             /\ view \in Messages /\ steady \subseteq Materialized /\ CandidatesComplete(d, steady, q, ids)
                   => ReplyComplete(view, d, steady, q, reply)
<1> DEFINE S == Range(ids) \intersect Materialized
           rows == HydratedRows(q, ids)
           reply == ListMessages(q, ids)
<1>1. Range(ids) \in SUBSET Row
  BY ItemsOfSeq
<1>2. S \in SUBSET Row
  BY <1>1
<1>3. rows = Sorted(S, Order(q.dir)) /\ reply = PageOf(q, rows)
  BY DEF HydratedRows, ListMessages
<1> HIDE DEF S, rows, reply
<1>4. rows \in Seq(Row) /\ InOrder(d, rows) /\ Range(rows) = S
  BY <1>2, <1>3, SortedListing
<1>5. PageHolds(d, reply, rows)
  BY <1>3, <1>4, PageOfRows
<1>6. ASSUME view \in Messages, steady \subseteq Materialized, CandidatesComplete(d, steady, q, ids)
      PROVE  ReplyComplete(view, d, steady, q, reply)
  <2>1. /\ \A x \in S : x \in Past(q)
        /\ \A r \in steady \intersect Past(q) : r \in S \/ \A x \in S : Ahead(d, x, r)
    BY <1>6 DEF CandidatesComplete, S
  <2>2. InOrder(d, reply.items) /\ \A x \in Range(reply.items) : x \in Past(q)
    BY <1>4, <1>5, <2>1 DEF PageHolds
  <2>3. ASSUME reply.next # None
        PROVE  /\ reply.next.after \in Range(reply.items)
               /\ \A x \in Range(reply.items) : ~Ahead(d, reply.next.after, x)
               /\ \A r \in steady \intersect Past(q) :
                     r \in Range(reply.items) \/ Ahead(d, reply.next.after, r)
    BY <1>4, <1>5, <2>1, <2>3 DEF PageHolds
  <2>4. ASSUME reply.next = None, NEW r \in steady \intersect Past(q)
        PROVE  r \in Range(reply.items) \/ \A x \in Range(reply.items) : Ahead(d, x, r)
    BY <1>4, <1>5, <2>1, <2>4 DEF PageHolds
  <2> QED BY <1>6, <2>2, <2>3, <2>4 DEF ReplyComplete
<1> QED BY <1>5, <1>6 DEF reply, rows

-----------------------------------------------------------------------------
(* The answers of the server *)

LEMMA CallParts ==
  ASSUME NEW c \in Calls
  PROVE  /\ c.stage \in {"idle", "sent", "candidates", "answered"}
         /\ c.stage = "idle" => c = Quiet
         /\ c.stage # "idle" => c.query \in Queries
         /\ c.stage = "candidates" => c.ids \in Seq(Row)
         /\ c.stage = "answered" => c.reply \in PageReplies \union Refusals
<1>1. CASE c = Quiet
  BY <1>1 DEF Quiet
<1>2. CASE c \in Asking
  BY <1>2 DEF Asking
<1>3. CASE c \in Reading
  BY <1>3 DEF Reading
<1>4. CASE c \in Served
  BY <1>4 DEF Served
<1> QED BY <1>1, <1>2, <1>3, <1>4 DEF Calls

LEMMA SentParts ==
  ASSUME NEW q \in Queries
  PROVE  Sent(q) \in Calls /\ Sent(q).stage = "sent" /\ Sent(q).query = q
BY DEF Sent, Calls, Asking

LEMMA AnsweredParts ==
  ASSUME NEW q \in Queries, NEW reply \in PageReplies \union Refusals
  PROVE  LET c == Answered(q, reply)
         IN  c \in Calls /\ c.stage = "answered" /\ c.query = q /\ c.reply = reply
BY DEF Answered, Calls, Served

LEMMA RefusalParts ==
  /\ Unauthorized \in Refusals /\ Failed \in Refusals
  /\ \A reply \in Refusals : reply.kind \in {"unauthorized", "error"} /\ reply.kind # "page"
  /\ \A reply \in PageReplies :
        /\ reply.kind = "page" /\ reply.items \in Seq(Row)
        /\ reply.more \in BOOLEAN /\ reply.next \in Cursors
BY DEF Unauthorized, Failed, Refusals, PageReplies

\* An answer, or a step towards it, leaves everything but its call alone.
LEMMA AnswerKeeps ==
  ASSUME Invariant, NEW s \in Slot, NEW c \in Calls, calls[s].stage # "idle",
         calls' = [calls EXCEPT ![s] = c],
         c.stage # "idle", c.query = calls[s].query,
         UNCHANGED <<row, view, dir, page, active, epoch, signedIn, steady, mixed>>,
         left' \in [changes : Nat, asks : Nat, faults : Nat],
         CallShape(view, dir, c),
         ~mixed => /\ c.stage = "candidates" => CandidatesComplete(dir, steady, c.query, c.ids)
                   /\ c.stage = "answered" => ReplyComplete(view, dir, steady, c.query, c.reply)
  PROVE  Invariant'
<1>1. Types'
  BY DEF Invariant, Types
<1>2. \A t \in Slot : calls'[t] = IF t = s THEN c ELSE calls[t]
  BY DEF Invariant, Types
<1>3. Shape'
  <2>1. \A t \in Slot : CallShape(view, dir, calls'[t])
    BY <1>2 DEF Invariant, Shape
  <2> QED BY <2>1 DEF Invariant, Shape, Readable
<1>4. ASSUME ~mixed
      PROVE  Complete'
  <2>1. Complete
    BY <1>4 DEF Invariant
  <2>2. OneCall(calls')
    BY <1>2, <2>1 DEF Complete, OneCall
  <2>3. CallComplete(view, dir, active, page, steady, c)
    <3>1. Continues(dir, active, page, c.query)
      BY <2>1 DEF Complete, CallComplete
    <3> QED BY <1>4, <3>1 DEF CallComplete
  <2>4. \A t \in Slot : CallComplete(view, dir, active, page, steady, calls'[t])
    BY <1>2, <2>1, <2>3 DEF Complete
  <2> QED BY <2>1, <2>2, <2>4 DEF Complete
<1> QED BY <1>1, <1>3, <1>4 DEF Invariant

\* A reply is refused by the route, or the service's.
LEMMA GuardedReplies ==
  ASSUME signedIn \in BOOLEAN, NEW q, NEW reply
  PROVE  Guarded(q, reply) \in {Unauthorized, Failed, reply}
BY DEF Guarded

\* What a refusal leaves to show.
LEMMA RefusalsAreSound ==
  ASSUME NEW q, NEW reply \in Refusals
  PROVE  ReplyShape(view, dir, q, reply) /\ ReplyComplete(view, dir, steady, q, reply)
BY RefusalParts DEF ReplyShape, ReplyComplete

\* What a query over a set of rows leaves to show.
LEMMA PagesAreSound ==
  ASSUME Invariant, NEW q \in Queries, q.dir = dir, NEW S \in SUBSET Row,
         view = "search" => q.filter # NoSearch
  PROVE  LET reply == PageOf(q, Window(S, q))
         IN  /\ reply \in PageReplies
             /\ ReplyShape(view, dir, q, reply)
             /\ steady \subseteq S => ReplyComplete(view, dir, steady, q, reply)
<1> DEFINE w == Window(S, q)
           reply == PageOf(q, w)
<1>1. dir \in Dirs /\ epoch \in {0, 1}
  BY DEF Invariant, Types
<1>2. w \in Seq(Row) /\ InOrder(dir, w)
  BY <1>1, WindowRows
<1>3. PageHolds(dir, reply, w)
  <2> HIDE DEF w
  <2> QED BY <1>1, <1>2, PageOfRows
<1>4. steady \subseteq S => ReplyComplete(view, dir, steady, q, reply)
  BY <1>1, ListingPage
<1> HIDE DEF w, reply
<1>5. reply \in PageReplies /\ ReplyShape(view, dir, q, reply)
  BY <1>3 DEF PageHolds, ReplyShape
<1> QED BY <1>4, <1>5 DEF reply, w

\* A search for nothing.
LEMMA NothingFound ==
  ASSUME Invariant, NEW q \in Queries, q.dir = dir, q.filter = NoSearch
  PROVE  LET reply == PageOf(q, <<>>)
         IN  /\ reply \in PageReplies
             /\ ReplyShape(view, dir, q, reply)
             /\ view = "search" => ReplyComplete(view, dir, steady, q, reply)
<1> DEFINE none == <<>>
           reply == PageOf(q, none)
<1>1. dir \in Dirs /\ epoch \in {0, 1}
  BY DEF Invariant, Types
<1>2. none \in Seq(Row) /\ Len(none) = 0 /\ InOrder(dir, none) /\ Range(none) = {}
  <2>1. none \in Seq(Row) /\ Len(none) = 0
    BY EmptySeq
  <2>2. DOMAIN none = {}
    OBVIOUS
  <2> HIDE DEF none
  <2>3. InOrder(dir, none)
    BY <2>2 DEF InOrder
  <2>4. Range(none) = {}
    BY <2>2 DEF Range
  <2> QED BY <2>1, <2>3, <2>4
<1> HIDE DEF none
<1>3. PageHolds(dir, reply, none)
  BY <1>1, <1>2, PageOfRows
<1> HIDE DEF reply
<1>4. reply \in PageReplies /\ reply.next = None /\ reply.items = none
  BY <1>2, <1>3, BoundsAssumption DEF PageHolds
<1>5. ReplyShape(view, dir, q, reply)
  BY <1>3, <1>4 DEF PageHolds, ReplyShape, none
<1>6. view = "search" => ReplyComplete(view, dir, steady, q, reply)
  BY <1>2, <1>4 DEF ReplyComplete
<1> QED BY <1>4, <1>5, <1>6 DEF reply, none

\* What the server answers a listing.
LEMMA ListingReplies ==
  ASSUME Invariant, NEW q \in Queries, view \in Listings, q.dir = dir, NEW reply \in Replies(q)
  PROVE  /\ reply \in PageReplies \union Refusals
         /\ ReplyShape(view, dir, q, reply)
         /\ q.filter = active => ReplyComplete(view, dir, steady, q, reply)
<1> DEFINE Sound(r) == /\ r \in PageReplies \union Refusals
                       /\ ReplyShape(view, dir, q, r)
                       /\ q.filter = active => ReplyComplete(view, dir, steady, q, r)
<1>1. /\ signedIn \in BOOLEAN /\ active \in Filter /\ steady \in SUBSET Row
      /\ steady \subseteq Readable \intersect Found(active)
  BY DEF Invariant, Types, Shape
<1>2. Readable \in SUBSET Row /\ Readable \intersect Found(q.filter) \in SUBSET Row
  BY DEF Readable
<1>3. Sound(Unauthorized) /\ Sound(Failed)
  BY RefusalParts, RefusalsAreSound
<1>4. ASSUME NEW r, Sound(r), reply = Guarded(q, r)
      PROVE  Sound(reply)
  <2>1. reply \in {Unauthorized, Failed, r}
    BY <1>1, <1>4, GuardedReplies
  <2> HIDE DEF Sound
  <2> QED BY <1>3, <1>4, <2>1
<1>5. Sound(PageOf(q, Window(Readable, q))) \/ view = "search"
  BY <1>1, <1>2, PagesAreSound
<1>6. (view = "search" => q.filter # NoSearch) => Sound(PageOf(q, Window(Readable \intersect Found(q.filter), q)))
  BY <1>1, <1>2, PagesAreSound
<1>7. CASE view = "chats"
  <2>1. reply = Guarded(q, PageOf(q, Window(Readable, q)))
    BY <1>7 DEF Replies, ConversationsRoute, ListConversations, ConversationRows
  <2> HIDE DEF Sound
  <2>2. Sound(reply)
    BY <1>4, <1>5, <1>7, <2>1
  <2> QED BY <2>2 DEF Sound
<1>8. CASE view = "people"
  <2>1. reply = Guarded(q, PageOf(q, Window(Readable \intersect Found(q.filter), q)))
    BY <1>8 DEF Replies, PeopleRoute, ListPeople, PersonRows
  <2> HIDE DEF Sound
  <2>2. Sound(reply)
    BY <1>4, <1>6, <1>8, <2>1
  <2> QED BY <2>2 DEF Sound
<1>9. CASE view = "search"
  <2>1. reply = Guarded(q, Search(q))
    BY <1>9 DEF Replies, SearchRoute
  <2>2. Sound(Search(q))
    <3>1. CASE q.filter = NoSearch
      <4>1. Search(q) = PageOf(q, <<>>)
        BY <3>1 DEF Search
      <4>2. Sound(PageOf(q, <<>>))
        BY <1>9, <3>1, NothingFound
      <4> QED BY <4>1, <4>2
    <3>2. CASE q.filter # NoSearch
      <4>1. Search(q) = PageOf(q, Window(Readable \intersect Found(q.filter), q))
        BY <3>2 DEF Search, SearchRows
      <4> HIDE DEF Sound
      <4> QED BY <1>6, <3>2, <4>1
    <3> QED BY <3>1, <3>2
  <2> HIDE DEF Sound
  <2>3. Sound(reply)
    BY <1>4, <2>1, <2>2
  <2> QED BY <2>3 DEF Sound
<1>10. CASE view = "tools"
  <2>1. reply = Guarded(q, PageOf(q, Window(Readable, q)))
    BY <1>10 DEF Replies, ToolReplies, ListConversations, ConversationRows, ListMedia, MediaRows,
                 ListTimeline, EventRows
  <2> HIDE DEF Sound
  <2>2. Sound(reply)
    BY <1>4, <1>5, <1>10, <2>1
  <2> QED BY <2>2 DEF Sound
<1> QED BY <1>7, <1>8, <1>9, <1>10 DEF Listings

LEMMA ServeStep ==
  ASSUME Invariant, NEW s \in Slot, Serve(s)
  PROVE  Invariant'
<1> DEFINE q == calls[s].query
<1>1. calls[s] \in Calls /\ calls[s].stage = "sent" /\ view \in Listings
  BY DEF Invariant, Types, Serve
<1>2. q \in Queries
  BY <1>1, CallParts
<1>3. q.dir = dir
  BY <1>1 DEF Invariant, Shape, CallShape, Astray, Listings
<1>4. PICK reply \in Replies(q) : calls' = [calls EXCEPT ![s] = Answered(q, reply)]
  BY DEF Serve
<1>5. PICK p \in Queries : p = q
  BY <1>2
<1>6. /\ reply \in PageReplies \union Refusals
      /\ ReplyShape(view, dir, p, reply)
      /\ p.filter = active => ReplyComplete(view, dir, steady, p, reply)
  BY <1>1, <1>3, <1>4, <1>5, ListingReplies
<1>7. PICK c \in Calls : c = Answered(p, reply) /\ c.stage = "answered" /\ c.query = p /\ c.reply = reply
  BY <1>6, AnsweredParts
<1>8. CallShape(view, dir, c)
  BY <1>3, <1>5, <1>6, <1>7 DEF CallShape
<1>9. ~mixed => p.filter = active
  BY <1>1, <1>5 DEF Invariant, Complete, CallComplete, Continues
<1>10. calls' = [calls EXCEPT ![s] = c]
  BY <1>4, <1>5, <1>7
<1>11. /\ UNCHANGED <<row, view, dir, page, active, epoch, signedIn, steady, mixed>>
       /\ left' \in [changes : Nat, asks : Nat, faults : Nat]
  BY DEF Serve, Invariant, Types
<1> HIDE DEF q
<1>12. calls[s].stage # "idle" /\ c.query = calls[s].query /\ c.stage # "idle"
  BY <1>1, <1>5, <1>7 DEF q
<1>13. ~mixed => /\ c.stage = "candidates" => CandidatesComplete(dir, steady, c.query, c.ids)
                 /\ c.stage = "answered" => ReplyComplete(view, dir, steady, c.query, c.reply)
  BY <1>6, <1>7, <1>9
<1> QED BY <1>8, <1>10, <1>11, <1>12, <1>13, AnswerKeeps

LEMMA CandidatesStep ==
  ASSUME Invariant, NEW s \in Slot, Candidates(s)
  PROVE  Invariant'
<1>1. calls[s] \in Calls /\ calls[s].stage = "sent" /\ view \in Messages
  BY DEF Invariant, Types, Candidates
<1>2. PICK q \in Queries : q = calls[s].query
  BY <1>1, CallParts
<1>3. dir \in Dirs /\ steady \in SUBSET Row /\ steady \subseteq Readable /\ Readable \in SUBSET Row
  BY DEF Invariant, Types, Shape, Readable
<1>4. q.dir = dir \/ Astray(view, q)
  BY <1>1, <1>2 DEF Invariant, Shape, CallShape
<1>5. /\ UNCHANGED <<row, view, dir, page, active, epoch, signedIn, steady, mixed>>
      /\ left' \in [changes : Nat, asks : Nat, faults : Nat]
  BY DEF Candidates, Invariant, Types
<1>6. CASE signedIn /\ Accepted(q)
  <2>1. q.dir = dir
    BY <1>4, <1>6 DEF Astray, Accepted
  <2>2. PICK ids \in Seq(Row) : ids = CandidateRows(q) /\ CandidatesComplete(dir, steady, q, ids)
    BY <1>3, <2>1, CandidatesFound DEF CandidateRows
  <2> DEFINE k == [stage |-> "candidates", query |-> q, ids |-> ids]
  <2>3. k \in Calls /\ k.stage = "candidates" /\ k.query = q /\ k.ids = ids
    BY DEF Calls, Reading
  <2>4. calls' = [calls EXCEPT ![s] = k]
    BY <1>2, <1>6, <2>2 DEF Candidates
  <2> HIDE DEF k
  <2>5. CallShape(view, dir, k)
    BY <1>1, <2>1, <2>3 DEF CallShape
  <2>6. calls[s].stage # "idle" /\ k.query = calls[s].query /\ k.stage # "idle"
    BY <1>1, <1>2, <2>3
  <2>7. ~mixed => /\ k.stage = "candidates" => CandidatesComplete(dir, steady, k.query, k.ids)
                  /\ k.stage = "answered" => ReplyComplete(view, dir, steady, k.query, k.reply)
    BY <2>2, <2>3
  <2>8. PICK c \in Calls : c = k
    BY <2>3
  <2> QED BY <1>5, <2>4, <2>5, <2>6, <2>7, <2>8, AnswerKeeps
<1>7. CASE ~(signedIn /\ Accepted(q))
  <2>1. PICK reply \in Refusals : reply = Guarded(q, Failed)
    BY RefusalParts, GuardedReplies DEF Invariant, Types
  <2>2. PICK c \in Calls : c = Answered(q, reply) /\ c.stage = "answered" /\ c.query = q /\ c.reply = reply
    BY AnsweredParts
  <2>3. calls' = [calls EXCEPT ![s] = c]
    BY <1>2, <1>7, <2>1, <2>2 DEF Candidates
  <2>4. CallShape(view, dir, c)
    BY <1>4, <2>2, RefusalsAreSound DEF CallShape
  <2>5. calls[s].stage # "idle" /\ c.query = calls[s].query /\ c.stage # "idle"
    BY <1>1, <1>2, <2>2
  <2>6. ~mixed => /\ c.stage = "candidates" => CandidatesComplete(dir, steady, c.query, c.ids)
                  /\ c.stage = "answered" => ReplyComplete(view, dir, steady, c.query, c.reply)
    BY <2>2, RefusalsAreSound
  <2> QED BY <1>5, <2>3, <2>4, <2>5, <2>6, AnswerKeeps
<1> QED BY <1>6, <1>7

LEMMA HydrateStep ==
  ASSUME Invariant, NEW s \in Slot, Hydrate(s)
  PROVE  Invariant'
<1>1. calls[s] \in Calls /\ calls[s].stage = "candidates"
  BY DEF Invariant, Types, Hydrate
<1>2. PICK q \in Queries, ids \in Seq(Row) : q = calls[s].query /\ ids = calls[s].ids
  BY <1>1, CallParts
<1>3. /\ dir \in Dirs /\ epoch \in {0, 1} /\ steady \subseteq Materialized
      /\ q.dir = dir /\ view \in Messages
  BY <1>1, <1>2 DEF Invariant, Types, Shape, CallShape, Readable, Materialized
<1>4. /\ UNCHANGED <<row, view, dir, page, active, epoch, signedIn, steady, mixed>>
      /\ left' \in [changes : Nat, asks : Nat, faults : Nat]
  BY DEF Hydrate, Invariant, Types
<1>5. /\ PageHolds(dir, ListMessages(q, ids), HydratedRows(q, ids))
      /\ CandidatesComplete(dir, steady, q, ids)
           => ReplyComplete(view, dir, steady, q, ListMessages(q, ids))
  BY <1>3, MessagePage
<1>6. PICK reply \in PageReplies : reply = ListMessages(q, ids)
  BY <1>5 DEF PageHolds
<1>7. ReplyShape(view, dir, q, reply)
  BY <1>3, <1>5, <1>6 DEF PageHolds, ReplyShape, Messages
<1>8. PICK c \in Calls : c = Answered(q, reply) /\ c.stage = "answered" /\ c.query = q /\ c.reply = reply
  BY AnsweredParts
<1>9. calls' = [calls EXCEPT ![s] = c]
  BY <1>2, <1>6, <1>8 DEF Hydrate
<1>10. CallShape(view, dir, c)
  BY <1>3, <1>7, <1>8 DEF CallShape
<1>11. ~mixed => CandidatesComplete(dir, steady, q, ids)
  BY <1>1, <1>2 DEF Invariant, Complete, CallComplete
<1>12. ~mixed => /\ c.stage = "candidates" => CandidatesComplete(dir, steady, c.query, c.ids)
                 /\ c.stage = "answered" => ReplyComplete(view, dir, steady, c.query, c.reply)
  BY <1>5, <1>6, <1>8, <1>11
<1>13. calls[s].stage # "idle" /\ c.query = calls[s].query /\ c.stage # "idle"
  BY <1>1, <1>2, <1>8
<1> QED BY <1>4, <1>9, <1>10, <1>12, <1>13, AnswerKeeps

LEMMA FailStep ==
  ASSUME Invariant, NEW s \in Slot, Fail(s)
  PROVE  Invariant'
<1>1. calls[s] \in Calls /\ calls[s].stage \in {"sent", "candidates"}
  BY DEF Invariant, Types, Fail
<1>2. PICK q \in Queries : q = calls[s].query
  BY <1>1, CallParts
<1>3. UNCHANGED <<row, view, dir, page, active, epoch, signedIn, steady, mixed>>
  BY DEF Fail
<1>4. left' \in [changes : Nat, asks : Nat, faults : Nat]
  BY DEF Fail, Invariant, Types
<1>5. PICK c \in Calls : c = Answered(q, Failed) /\ c.stage = "answered" /\ c.query = q /\ c.reply = Failed
  BY AnsweredParts, RefusalParts
<1>6. calls' = [calls EXCEPT ![s] = c]
  BY <1>2, <1>5 DEF Fail
<1>7. CallShape(view, dir, c)
  BY <1>1, <1>2, <1>5, RefusalParts, RefusalsAreSound DEF CallShape, Invariant, Shape
<1>8. ~mixed => /\ c.stage = "candidates" => CandidatesComplete(dir, steady, c.query, c.ids)
                /\ c.stage = "answered" => ReplyComplete(view, dir, steady, c.query, c.reply)
  BY <1>5, RefusalParts, RefusalsAreSound
<1>9. calls[s].stage # "idle" /\ c.query = calls[s].query /\ c.stage # "idle"
  BY <1>1, <1>2, <1>5
<1> QED BY <1>3, <1>4, <1>6, <1>7, <1>8, <1>9, AnswerKeeps

-----------------------------------------------------------------------------
(* The requests of the clients *)

\* A client that shows nothing owes nothing.
LEMMA NothingShown ==
  ASSUME NEW v, NEW d, NEW f, NEW S, NEW p \in Pages,
         p.items = <<>>, p.next = None, p.kind # "ready"
  PROVE  PageComplete(v, d, f, p, S)
<1>1. DOMAIN p.items = {}
  <2>1. DOMAIN <<>> = {}
    OBVIOUS
  <2> QED BY <2>1
<1>2. InOrder(d, p.items)
  BY <1>1 DEF InOrder
<1> QED BY <1>2 DEF PageComplete, WindowComplete, ListComplete

\* Of a page only the rows, the cursor and whether it is shown matter.
LEMMA SamePage ==
  ASSUME NEW v, NEW d, NEW f, NEW S, NEW p, NEW o,
         p.items = o.items, p.next = o.next, p.kind = o.kind, PageComplete(v, d, f, o, S)
  PROVE  PageComplete(v, d, f, p, S)
<1>1. WindowComplete(o, S) => WindowComplete(p, S)
  BY DEF WindowComplete
<1>2. ListComplete(v, d, f, o, S) => ListComplete(v, d, f, p, S)
  BY DEF ListComplete
<1> QED BY <1>1, <1>2 DEF PageComplete

LEMMA SendKeeps ==
  ASSUME Invariant, NEW q \in Queries, NEW n \in {1, 2}, Send(q, n),
         left' \in [changes : Nat, asks : Nat, faults : Nat],
         NEW p \in Pages, page' = p, NEW f \in Filter, active' = f,
         ViewShape(view, dir, f), PageShape(view, dir, p),
         q.dir = dir \/ Astray(view, q),
         q.filter = f,
         q.cursor = None => p.items = <<>> /\ p.next = None /\ p.kind # "ready",
         q.cursor # None =>
            /\ f = active
            /\ p.items = page.items /\ p.next = page.next /\ p.kind = page.kind
            /\ q.dir = dir => q.cursor = page.next
  PROVE  Invariant'
<1>1. PICK slots \in SUBSET FreeSlots :
         /\ Cardinality(slots) = n
         /\ calls' = [s \in Slot |-> IF s \in slots THEN Sent(q) ELSE calls[s]]
  BY DEF Send
<1>2. UNCHANGED <<row, view, dir, epoch, signedIn>>
  BY DEF Send
<1>3. PICK c \in Calls : c = Sent(q) /\ c.stage = "sent" /\ c.query = q
  BY SentParts
<1>4. \A s \in Slot : calls'[s] = IF s \in slots THEN c ELSE calls[s]
  BY <1>1, <1>3
<1>5. /\ mixed' = (n > 1 \/ FreeSlots # Slot \/ (mixed /\ q.cursor # None))
      /\ steady' = IF q.cursor = None THEN Readable \intersect Found(q.filter) ELSE steady
  BY DEF Send
<1>6. steady' \subseteq Readable \intersect Found(f)
  <2>1. steady \subseteq Readable \intersect Found(active)
    BY DEF Invariant, Shape
  <2>2. CASE q.cursor = None
    BY <1>5, <2>2
  <2>3. CASE q.cursor # None
    BY <1>5, <2>1, <2>3
  <2> QED BY <2>2, <2>3
<1>7. Readable \in SUBSET Row
  BY DEF Readable
<1>8. Types'
  <2>1. calls' \in [Slot -> Calls]
    BY <1>1, <1>3 DEF Invariant, Types
  <2>2. steady' \in SUBSET Row
    BY <1>6, <1>7
  <2>3. mixed' \in BOOLEAN
    BY <1>5
  <2> QED BY <1>2, <2>1, <2>2, <2>3 DEF Invariant, Types
<1>9. Shape'
  <2>1. CallShape(view, dir, c)
    BY <1>3 DEF CallShape
  <2>2. \A s \in Slot : CallShape(view, dir, calls'[s])
    BY <1>4, <2>1 DEF Invariant, Shape
  <2>3. Readable' = Readable
    BY <1>2 DEF Readable
  <2> QED BY <1>2, <1>6, <2>2, <2>3 DEF Shape
<1>10. ASSUME ~mixed'
       PROVE  Complete'
  <2>0. ~(n > 1) /\ FreeSlots = Slot /\ (q.cursor # None => ~mixed)
    BY <1>5, <1>10, Zenon
  <2>1. n = 1 /\ FreeSlots = Slot /\ (q.cursor # None => ~mixed)
    BY <2>0
  <2>2. \A s \in Slot : calls[s].stage = "idle"
    <3>1. FreeSlots = {s \in Slot : calls[s].stage = "idle"}
      BY DEF FreeSlots
    <3> QED BY <2>1, <3>1
  <2>3. PICK t : slots = {t}
    <3>1. IsFiniteSet(slots)
      BY <2>1, FS_Subset, BoundsAssumption
    <3> QED BY <1>1, <2>1, <3>1, FS_Singleton
  <2>4. OneCall(calls')
    BY <1>4, <2>2, <2>3 DEF OneCall
  <2>5. Continues(dir, f, p, q)
    BY DEF Continues
  <2>6. \A s \in Slot : CallComplete(view, dir, f, p, steady', calls'[s])
    BY <1>3, <1>4, <2>2, <2>5 DEF CallComplete
  <2>7. PageComplete(view, dir, f, p, steady')
    <3>1. CASE q.cursor = None
      BY <3>1, NothingShown
    <3>2. CASE q.cursor # None
      <4>1. PageComplete(view, dir, active, page, steady)
        BY <2>1, <3>2 DEF Invariant, Complete
      <4>2. steady' = steady /\ f = active
        BY <1>5, <3>2
      <4> QED BY <3>2, <4>1, <4>2, SamePage
    <3> QED BY <3>1, <3>2
  <2> QED BY <1>2, <2>4, <2>6, <2>7 DEF Complete
<1> QED BY <1>8, <1>9, <1>10 DEF Invariant

LEMMA QueryParts ==
  ASSUME NEW f \in Filter, NEW c \in Cursors, NEW d \in Dirs
  PROVE  LET q == Query(f, c, d)
         IN  q \in Queries /\ q.filter = f /\ q.cursor = c /\ q.dir = d
BY DEF Query, Queries

\* A page that shows nothing.
Blank(p) ==
    /\ p \in Pages /\ p.items = <<>> /\ p.kind # "ready"
    /\ p.next = None /\ p.newer = None /\ p.more = FALSE

LEMMA BareParts ==
  ASSUME NEW k \in {"idle", "loading", "empty", "error", "unauthorized"}, NEW b \in BOOLEAN
  PROVE  Blank(Bare(k)) /\ Blank([Bare(k) EXCEPT !.busy = b])
<1>1. <<>> \in Seq(Row)
  OBVIOUS
<1>2. None \in Cursors
  BY DEF Cursors
<1> DEFINE p == Bare(k)
           o == [p EXCEPT !.busy = b]
<1>3. /\ p \in Pages /\ p.items = <<>> /\ p.kind = k
      /\ p.next = None /\ p.newer = None /\ p.more = FALSE
  BY <1>1, <1>2 DEF Bare, Pages
<1> HIDE DEF p
<1>4. /\ o \in Pages /\ o.items = <<>> /\ o.kind = k
      /\ o.next = None /\ o.newer = None /\ o.more = FALSE
  BY <1>3 DEF Pages
<1> HIDE DEF o
<1>5. Blank(p) /\ Blank(o)
  BY <1>3, <1>4 DEF Blank
<1> QED BY <1>5 DEF o, p

LEMMA BlankShape ==
  ASSUME NEW v, NEW d, NEW p, Blank(p)
  PROVE  PageShape(v, d, p)
<1>1. Len(p.items) = 0 /\ Retain \in Nat
  BY EmptySeq, BoundsAssumption DEF Blank
<1>2. Len(p.items) <= Retain
  BY <1>1
<1> QED BY <1>2 DEF Blank, PageShape

\* Asking for a first page.
LEMMA FreshAsk ==
  ASSUME Invariant, NEW f \in Filter, NEW n \in {1, 2}, Ask(Query(f, None, dir), n),
         NEW p, Blank(p), page' = p, active' = f, ViewShape(view, dir, f)
  PROVE  Invariant'
<1>1. dir \in Dirs /\ None \in Cursors
  BY DEF Invariant, Types, Cursors
<1>2. PICK q \in Queries : q = Query(f, None, dir) /\ q.filter = f /\ q.cursor = None /\ q.dir = dir
  BY <1>1, QueryParts
<1>3. Send(q, n)
  BY <1>2 DEF Ask
<1>4. left' \in [changes : Nat, asks : Nat, faults : Nat]
  BY DEF Ask, Invariant, Types
<1>5. p \in Pages /\ p.items = <<>> /\ p.next = None /\ p.kind # "ready"
  BY DEF Blank
<1>6. PageShape(view, dir, p)
  BY BlankShape
<1> QED BY <1>2, <1>3, <1>4, <1>5, <1>6, SendKeeps

\* Asking for a page that continues what is shown, or goes astray.
LEMMA NextAsk ==
  ASSUME Invariant, NEW c \in Cursors, c # None, NEW d \in Dirs,
         Ask(Query(active, c, d), 1),
         NEW b \in BOOLEAN, page' = page \/ page' = [page EXCEPT !.busy = b],
         active' = active,
         (d = dir /\ c = page.next) \/ Astray(view, Query(active, c, d))
  PROVE  Invariant'
<1>1. active \in Filter /\ page \in Pages
  BY DEF Invariant, Types
<1>2. PICK q \in Queries : q = Query(active, c, d) /\ q.filter = active /\ q.cursor = c /\ q.dir = d
  BY <1>1, QueryParts
<1>3. Send(q, 1)
  BY <1>2 DEF Ask
<1>4. left' \in [changes : Nat, asks : Nat, faults : Nat]
  BY DEF Ask, Invariant, Types
<1>5. PICK p \in Pages :
         /\ p = page'
         /\ p.items = page.items /\ p.next = page.next /\ p.kind = page.kind
         /\ p.newer = page.newer /\ p.more = page.more
  BY <1>1 DEF Pages
<1>6. PageShape(view, dir, p)
  BY <1>5 DEF Invariant, Shape, PageShape
<1>7. ViewShape(view, dir, active)
  BY DEF Invariant, Shape
<1>8. q.dir = dir \/ Astray(view, q)
  BY <1>2
<1>9. Astray(view, q) => q.dir # dir
  BY <1>7 DEF Astray, ViewShape
<1>10. q.dir = dir => q.cursor = page.next
  BY <1>2, <1>9
<1>11. PICK f \in Filter : f = active
  BY <1>1
<1> QED BY <1>2, <1>3, <1>4, <1>5, <1>6, <1>7, <1>8, <1>10, <1>11, SendKeeps

LEMMA ClientStep ==
  ASSUME Invariant,
         \/ LoadMore \/ RetryConversations \/ RetryPeople
         \/ \E f \in Filter : SubmitPeople(f) \/ PopState(f) \/ SubmitSearch(f)
         \/ LoadOlder \/ LoadNewer \/ Regroup \/ CallTool
  PROVE  Invariant'
<1>1. /\ page \in Pages /\ active \in Filter /\ dir \in Dirs
      /\ page.busy \in BOOLEAN /\ page.next \in Cursors /\ page.newer \in Cursors
  BY DEF Invariant, Types, Pages
<1>2. ViewShape(view, dir, active) /\ PageShape(view, dir, page)
  BY DEF Invariant, Shape
<1>3. NoSearch \in Filter
  BY DEF Filter
<1>4. CASE LoadMore
  <2>1. dir = "forward"
    BY <1>2, <1>4 DEF LoadMore, ViewShape, Lists
  <2>2. page' = [page EXCEPT !.busy = TRUE] /\ active' = active /\ page.next # None
    BY <1>4 DEF LoadMore
  <2>3. Ask(Query(active, page.next, dir), 1)
    BY <1>4, <2>1 DEF LoadMore
  <2>4. PICK c \in Cursors, d \in Dirs : c = page.next /\ d = dir
    BY <1>1
  <2> QED BY <1>1, <2>2, <2>3, <2>4, NextAsk
<1>5. CASE RetryConversations
  <2>1. dir = "forward" /\ active = NoSearch
    BY <1>2, <1>5 DEF RetryConversations, ViewShape, Lists
  <2>2. PICK p : p = [Bare("loading") EXCEPT !.busy = page.busy]
    OBVIOUS
  <2>3. Blank(p)
    BY <1>1, <2>2, BareParts
  <2>4. Ask(Query(NoSearch, None, dir), 1) /\ page' = p /\ active' = NoSearch
    BY <1>5, <2>1, <2>2 DEF RetryConversations
  <2>5. ViewShape(view, dir, NoSearch)
    BY <1>2, <2>1
  <2> QED BY <1>3, <2>3, <2>4, <2>5, FreshAsk
<1>6. CASE RetryPeople
  <2>1. /\ dir = "forward" /\ page' = page /\ active' = active
        /\ page.kind # "ready" /\ page.items = <<>> /\ page.next = None
    BY <1>2, <1>6 DEF RetryPeople, ViewShape, PageShape, Lists
  <2>2. Ask(Query(active, None, dir), 1)
    BY <1>6, <2>1 DEF RetryPeople
  <2>3. None \in Cursors
    BY DEF Cursors
  <2>4. PICK q \in Queries :
           q = Query(active, None, dir) /\ q.filter = active /\ q.cursor = None /\ q.dir = dir
    BY <1>1, <2>3, QueryParts
  <2>5. Send(q, 1) /\ left' \in [changes : Nat, asks : Nat, faults : Nat]
    BY <2>2, <2>4 DEF Ask, Invariant, Types
  <2>6. PICK f \in Filter, p \in Pages : f = active /\ p = page
    BY <1>1
  <2> QED BY <1>2, <2>1, <2>4, <2>5, <2>6, SendKeeps
<1>7. ASSUME NEW f \in Filter, SubmitPeople(f)
      PROVE  Invariant'
  <2>1. dir = "forward" /\ ViewShape(view, dir, f)
    BY <1>2, <1>7 DEF SubmitPeople, ViewShape, Lists
  <2>2. PICK p : p = [Bare("loading") EXCEPT !.busy = page.busy]
    OBVIOUS
  <2>3. Blank(p)
    BY <1>1, <2>2, BareParts
  <2>4. Ask(Query(f, None, dir), 1) /\ page' = p /\ active' = f
    BY <1>7, <2>1, <2>2 DEF SubmitPeople
  <2> QED BY <2>1, <2>3, <2>4, FreshAsk
<1>8. ASSUME NEW f \in Filter, PopState(f)
      PROVE  Invariant'
  <2>1. dir = "forward" /\ ViewShape(view, dir, f)
    BY <1>2, <1>8 DEF PopState, ViewShape, Lists
  <2>2. PICK p : p = [Bare("idle") EXCEPT !.busy = page.busy]
    OBVIOUS
  <2>3. Blank(p)
    BY <1>1, <2>2, BareParts
  <2>4. Ask(Query(f, None, dir), 1) /\ page' = p /\ active' = f
    BY <1>8, <2>1, <2>2 DEF PopState
  <2> QED BY <2>1, <2>3, <2>4, FreshAsk
<1>9. ASSUME NEW f \in Filter, SubmitSearch(f)
      PROVE  Invariant'
  <2>1. dir = "forward" /\ ViewShape(view, dir, f)
    BY <1>2, <1>9 DEF SubmitSearch, ViewShape, Lists
  <2>2. PICK p : p = [Bare("loading") EXCEPT !.busy = page.busy]
    OBVIOUS
  <2>3. Blank(p)
    BY <1>1, <2>2, BareParts
  <2>4. page' = p /\ active' = f
    BY <1>9, <2>2 DEF SubmitSearch
  <2>5. PICK n \in {1, 2} : Ask(Query(f, None, dir), n)
    BY <1>9, <2>1 DEF SubmitSearch
  <2> QED BY <2>1, <2>3, <2>4, <2>5, FreshAsk
<1>10. CASE LoadOlder
  <2>1. dir = "backward" /\ active = NoSearch
    BY <1>2, <1>10 DEF LoadOlder, ViewShape
  <2>2. page' = [page EXCEPT !.busy = TRUE] /\ active' = active /\ page.next # None
    BY <1>10 DEF LoadOlder
  <2>3. Ask(Query(active, page.next, dir), 1)
    BY <1>10, <2>1 DEF LoadOlder
  <2>4. PICK c \in Cursors, d \in Dirs : c = page.next /\ d = dir
    BY <1>1
  <2> QED BY <1>1, <2>2, <2>3, <2>4, NextAsk
<1>11. CASE LoadNewer
  <2>1. dir = "backward" /\ active = NoSearch /\ view = "timeline"
    BY <1>2, <1>11 DEF LoadNewer, ViewShape
  <2>2. page' = [page EXCEPT !.busy = TRUE] /\ active' = active /\ page.newer # None
    BY <1>11 DEF LoadNewer
  <2>3. Ask(Query(active, page.newer, "forward"), 1)
    BY <1>11, <2>1 DEF LoadNewer
  <2>4. PICK c \in Cursors, d \in Dirs : c = page.newer /\ d = "forward"
    BY <1>1 DEF Dirs
  <2>5. c.dir = "backward"
    BY <1>2, <2>1, <2>2, <2>4 DEF PageShape
  <2>6. Astray(view, Query(active, c, d))
    BY <1>1, <2>1, <2>2, <2>4, <2>5, QueryParts DEF Astray
  <2> QED BY <1>1, <2>2, <2>3, <2>4, <2>6, NextAsk
<1>12. CASE Regroup
  <2>1. dir = "backward" /\ active = NoSearch
    BY <1>2, <1>12 DEF Regroup, ViewShape
  <2>2. PICK p : p = [Bare("loading") EXCEPT !.busy = TRUE]
    OBVIOUS
  <2>3. Blank(p)
    BY <2>2, BareParts
  <2>4. Ask(Query(NoSearch, None, dir), 1) /\ page' = p /\ active' = NoSearch
    BY <1>12, <2>1, <2>2 DEF Regroup
  <2>5. ViewShape(view, dir, NoSearch)
    BY <1>2, <2>1
  <2> QED BY <1>3, <2>3, <2>4, <2>5, FreshAsk
<1>13. CASE CallTool
  <2>1. active = NoSearch /\ active' = active
    BY <1>2, <1>13 DEF CallTool, ViewShape
  <2>2. CASE page.next # None /\ Ask(Query(NoSearch, page.next, dir), 1) /\ page' = page
    <3>1. PICK c \in Cursors, d \in Dirs : c = page.next /\ d = dir
      BY <1>1
    <3> QED BY <1>1, <2>1, <2>2, <3>1, NextAsk
  <2>3. CASE page' = Bare("loading") /\ Ask(Query(NoSearch, None, dir), 1)
    <3>1. Blank(Bare("loading"))
      BY BareParts
    <3>2. PICK p : p = Bare("loading")
      OBVIOUS
    <3>3. Blank(p) /\ page' = p /\ active' = NoSearch /\ ViewShape(view, dir, NoSearch)
      BY <1>2, <2>1, <2>3, <3>1, <3>2
    <3> QED BY <1>3, <2>3, <3>3, FreshAsk
  <2> QED BY <1>13, <2>2, <2>3 DEF CallTool
<1> QED BY <1>4, <1>5, <1>6, <1>7, <1>8, <1>9, <1>10, <1>11, <1>12, <1>13

-----------------------------------------------------------------------------
(* What goes on meanwhile *)

\* Rows that are no longer counted on ask for less.
LEMMA FewerRows ==
  ASSUME NEW v, NEW d, NEW f, NEW p, NEW S, NEW W \in SUBSET S
  PROVE  /\ PageComplete(v, d, f, p, S) => PageComplete(v, d, f, p, W)
         /\ \A c : CallComplete(v, d, f, p, S, c) => CallComplete(v, d, f, p, W, c)
<1>1. WindowComplete(p, S) => WindowComplete(p, W)
  BY DEF WindowComplete
<1>2. ListComplete(v, d, f, p, S) => ListComplete(v, d, f, p, W)
  BY DEF ListComplete
<1>3. \A q, ids : CandidatesComplete(d, S, q, ids) => CandidatesComplete(d, W, q, ids)
  BY DEF CandidatesComplete
<1>4. \A q, reply : ReplyComplete(v, d, S, q, reply) => ReplyComplete(v, d, W, q, reply)
  BY DEF ReplyComplete
<1>5. ASSUME NEW c, CallComplete(v, d, f, p, S, c)
      PROVE  CallComplete(v, d, f, p, W, c)
  BY <1>3, <1>4, <1>5 DEF CallComplete
<1> QED BY <1>1, <1>2, <1>5 DEF PageComplete

LEMMA ChangeStep ==
  ASSUME Invariant, Change
  PROVE  Invariant'
<1>0. PICK r \in Row : \E to \in Succeeds(row[r]) :
         /\ row' = [x \in Row |-> IF x \in Affected(r, to) THEN to ELSE row[x]]
         /\ steady' = steady \ Affected(r, to)
  BY DEF Change
<1>1. PICK to \in Succeeds(row[r]) :
         /\ row' = [x \in Row |-> IF x \in Affected(r, to) THEN to ELSE row[x]]
         /\ steady' = steady \ Affected(r, to)
  BY <1>0
<1>2. UNCHANGED <<view, dir, page, active, calls, epoch, signedIn, mixed>>
  BY DEF Change
<1>3. row \in [Row -> {"absent", "shown", "private", "retired"}] /\ steady \in SUBSET Row
  BY DEF Invariant, Types
<1>4. to \in {"shown", "private", "retired"}
  <2>1. row[r] \in {"absent", "shown", "private", "retired"}
    BY <1>3
  <2> QED BY <1>1, <2>1 DEF Succeeds
<1>5. row' \in [Row -> {"absent", "shown", "private", "retired"}]
  BY <1>1, <1>3, <1>4
<1>6. left' \in [changes : Nat, asks : Nat, faults : Nat]
  BY DEF Change, Invariant, Types
<1>7. steady' \in SUBSET steady
  BY <1>1
<1>8. Types'
  BY <1>2, <1>3, <1>5, <1>6, <1>7 DEF Invariant, Types
<1>9. Shape'
  <2>1. ASSUME NEW x \in steady'
        PROVE  row'[x] = "shown" /\ x \in Found(active)
    BY <1>1, <1>3, <2>1 DEF Invariant, Shape, Readable
  <2>2. steady' \subseteq (Readable \intersect Found(active))'
    BY <1>2, <1>3, <1>7, <2>1 DEF Readable
  <2> QED BY <1>2, <2>2 DEF Invariant, Shape
<1>10. ASSUME ~mixed
       PROVE  Complete'
  <2>1. Complete
    BY <1>10 DEF Invariant
  <2>2. PICK W \in SUBSET steady : W = steady'
    BY <1>7
  <2>3. PageComplete(view, dir, active, page, W)
    BY <2>1, FewerRows DEF Complete
  <2>4. \A s \in Slot : CallComplete(view, dir, active, page, W, calls[s])
    BY <2>1, FewerRows DEF Complete
  <2> QED BY <1>2, <2>1, <2>2, <2>3, <2>4 DEF Complete
<1> QED BY <1>2, <1>8, <1>9, <1>10 DEF Invariant

LEMMA OtherSteps ==
  ASSUME Invariant, CursorsExpire \/ SessionEnds
  PROVE  Invariant'
<1>1. UNCHANGED <<row, view, dir, page, active, calls, steady, mixed>>
  BY DEF CursorsExpire, SessionEnds
<1>2. epoch' \in {0, 1} /\ signedIn' \in BOOLEAN
  BY DEF CursorsExpire, SessionEnds, Invariant, Types
<1>3. left' \in [changes : Nat, asks : Nat, faults : Nat]
  BY DEF CursorsExpire, SessionEnds, Invariant, Types
<1>4. Types'
  BY <1>1, <1>2, <1>3 DEF Invariant, Types
<1>5. Shape'
  BY <1>1 DEF Invariant, Shape, Readable
<1>6. ~mixed => Complete'
  BY <1>1 DEF Invariant, Complete
<1> QED BY <1>1, <1>4, <1>5, <1>6 DEF Invariant

LEMMA InitInvariant ==
  ASSUME Init
  PROVE  Invariant
<1>1. view \in Listings \union Messages
  BY BoundsAssumption DEF Init, Listings, Messages
<1>2. /\ dir \in Dirs /\ active \in Filter
      /\ ViewShape(view, dir, active)
  <2>1. active \in Filter /\ (view # "search" => active = NoSearch)
    BY DEF Init, Filter
  <2>2. view = "timeline" => dir = "backward"
    BY DEF Init
  <2>3. view \in {"tools", "conversation"} => dir \in Dirs
    BY DEF Init, Dirs
  <2>4. view \in Lists => dir = "forward"
    BY DEF Init, Lists
  <2> QED BY <1>1, <2>1, <2>2, <2>3, <2>4 DEF ViewShape, Dirs, Lists, Listings, Messages
<1>3. Blank(page)
  <2>1. PICK k \in {"idle", "loading"}, b \in BOOLEAN : page = [Bare(k) EXCEPT !.busy = b]
    <3>1. page = [Bare(IF view = "search" THEN "idle" ELSE "loading") EXCEPT !.busy = view = "timeline"]
      BY DEF Init
    <3> QED BY <3>1
  <2> QED BY <2>1, BareParts
<1>4. PageShape(view, dir, page) /\ page \in Pages
  BY <1>3, BlankShape DEF Blank
<1>5. PICK c \in Calls :
         /\ c = Opening(view, dir, active)
         /\ CallShape(view, dir, c)
         /\ c.stage # "idle" => Continues(dir, active, page, c.query)
         /\ c.stage \in {"idle", "sent"}
  <2>1. CASE view = "search" /\ active = NoSearch
    <3>1. Opening(view, dir, active) = Quiet
      BY <2>1 DEF Opening
    <3>2. Quiet \in Calls /\ Quiet.stage = "idle"
      BY DEF Quiet, Calls
    <3>3. CallShape(view, dir, Quiet)
      BY <3>2 DEF CallShape
    <3> QED BY <3>1, <3>2, <3>3
  <2>2. CASE ~(view = "search" /\ active = NoSearch)
    <3>1. None \in Cursors
      BY DEF Cursors
    <3>2. PICK q \in Queries :
             q = Query(active, None, dir) /\ q.filter = active /\ q.cursor = None /\ q.dir = dir
      BY <1>2, <3>1, QueryParts
    <3>3. Opening(view, dir, active) = Sent(q)
      BY <2>2, <3>2 DEF Opening
    <3>4. PICK c \in Calls : c = Sent(q) /\ c.stage = "sent" /\ c.query = q
      BY SentParts
    <3>5. CallShape(view, dir, c)
      BY <3>2, <3>4 DEF CallShape
    <3>6. Continues(dir, active, page, q)
      BY <1>3, <3>2 DEF Continues, Blank
    <3> QED BY <3>3, <3>4, <3>5, <3>6
  <2> QED BY <2>1, <2>2
<1>6. PICK first \in Slot : calls = [s \in Slot |-> IF s = first THEN c ELSE Quiet]
  BY <1>5 DEF Init
<1>7. Quiet \in Calls /\ Quiet.stage = "idle"
  BY DEF Quiet, Calls
<1>8. \A s \in Slot : calls[s] = IF s = first THEN c ELSE Quiet
  BY <1>6
<1>9. calls \in [Slot -> Calls]
  BY <1>6, <1>7
<1>10. steady = Readable \intersect Found(active) /\ Readable \in SUBSET Row
  BY DEF Init, Readable
<1>11. Types
  <2>1. row \in [Row -> {"absent", "shown", "private", "retired"}]
    BY DEF Init
  <2>2. left \in [changes : Nat, asks : Nat, faults : Nat]
    BY BoundsAssumption DEF Init
  <2>3. epoch \in {0, 1} /\ signedIn \in BOOLEAN /\ mixed \in BOOLEAN
    BY DEF Init
  <2>4. steady \in SUBSET Row
    BY <1>10
  <2> QED BY <1>1, <1>2, <1>4, <1>9, <2>1, <2>2, <2>3, <2>4 DEF Types
<1>12. Shape
  <2>1. \A s \in Slot : CallShape(view, dir, calls[s])
    BY <1>5, <1>7, <1>8 DEF CallShape
  <2> QED BY <1>2, <1>4, <1>10, <2>1 DEF Shape
<1>13. Complete
  <2>1. OneCall(calls)
    BY <1>7, <1>8 DEF OneCall
  <2>2. \A s \in Slot : CallComplete(view, dir, active, page, steady, calls[s])
    BY <1>5, <1>7, <1>8 DEF CallComplete
  <2>3. PageComplete(view, dir, active, page, steady)
    <3>1. PICK p \in Pages : p = page /\ p.items = <<>> /\ p.next = None /\ p.kind # "ready"
      BY <1>3 DEF Blank
    <3> QED BY <3>1, NothingShown
  <2> QED BY <2>1, <2>2, <2>3 DEF Complete
<1> QED BY <1>11, <1>12, <1>13 DEF Invariant

-----------------------------------------------------------------------------
(* What an answer makes of a list *)

LEMMA Joined ==
  ASSUME NEW d, NEW s \in Seq(Row), NEW t \in Seq(Row)
  PROVE  /\ s \o t \in Seq(Row)
         /\ Range(s \o t) = Range(s) \union Range(t)
         /\ InOrder(d, s) /\ InOrder(d, t)
            /\ (\A x \in Range(s), y \in Range(t) : Ahead(d, x, y)) => InOrder(d, s \o t)
<1> DEFINE u == s \o t
<1>1. /\ u \in Seq(Row) /\ Len(u) = Len(s) + Len(t)
      /\ \A i \in 1 .. Len(s) + Len(t) : u[i] = IF i <= Len(s) THEN s[i] ELSE t[i - Len(s)]
  BY ConcatProperties
<1> HIDE DEF u
<1>2. Len(s) \in Nat /\ Len(t) \in Nat
  BY LenProperties
<1>3. /\ DOMAIN s = 1 .. Len(s) /\ Range(s) = {s[i] : i \in 1 .. Len(s)}
      /\ DOMAIN t = 1 .. Len(t) /\ Range(t) = {t[i] : i \in 1 .. Len(t)}
      /\ DOMAIN u = 1 .. Len(u) /\ Range(u) = {u[i] : i \in 1 .. Len(u)}
  BY <1>1, ItemsOfSeq
<1>4. \A i \in 1 .. Len(s) : i \in 1 .. Len(u) /\ u[i] = s[i]
  BY <1>1, <1>2
<1>5. \A i \in 1 .. Len(t) : i + Len(s) \in 1 .. Len(u) /\ u[i + Len(s)] = t[i]
  <2>1. ASSUME NEW i \in 1 .. Len(t)
        PROVE  i + Len(s) \in 1 .. Len(u) /\ ~(i + Len(s) <= Len(s)) /\ (i + Len(s)) - Len(s) = i
    BY <1>1, <1>2
  <2> QED BY <1>1, <2>1
<1>6. \A i \in 1 .. Len(u) :
         \/ i \in 1 .. Len(s) /\ u[i] = s[i]
         \/ i - Len(s) \in 1 .. Len(t) /\ u[i] = t[i - Len(s)] /\ Len(s) < i
  BY <1>1, <1>2
<1>7. Range(u) = Range(s) \union Range(t)
  <2>1. Range(u) \subseteq Range(s) \union Range(t)
    BY <1>3, <1>6
  <2>2. Range(s) \subseteq Range(u)
    BY <1>3, <1>4
  <2>3. Range(t) \subseteq Range(u)
    BY <1>3, <1>5
  <2> QED BY <2>1, <2>2, <2>3
<1>8. ASSUME InOrder(d, s), InOrder(d, t), \A x \in Range(s), y \in Range(t) : Ahead(d, x, y)
      PROVE  InOrder(d, u)
  <2> SUFFICES ASSUME NEW i \in 1 .. Len(u), NEW j \in 1 .. Len(u), i < j
               PROVE  Ahead(d, u[i], u[j])
    BY <1>3 DEF InOrder
  <2>1. CASE i \in 1 .. Len(s) /\ j \in 1 .. Len(s)
    BY <1>3, <1>4, <1>8, <2>1 DEF InOrder
  <2>2. CASE i \in 1 .. Len(s) /\ j \notin 1 .. Len(s)
    <3>1. u[i] \in Range(s) /\ u[j] \in Range(t)
      BY <1>3, <1>4, <1>6, <2>2
    <3> QED BY <1>8, <3>1
  <2>3. CASE i \notin 1 .. Len(s)
    <3>1. Len(s) < i /\ Len(s) < j
      BY <1>1, <1>2, <2>3
    <3>2. /\ i - Len(s) \in 1 .. Len(t) /\ u[i] = t[i - Len(s)]
          /\ j - Len(s) \in 1 .. Len(t) /\ u[j] = t[j - Len(s)]
      BY <1>2, <1>6, <3>1
    <3>3. i - Len(s) < j - Len(s)
      BY <1>1, <1>2
    <3> QED BY <1>3, <1>8, <3>2, <3>3 DEF InOrder
  <2> QED BY <2>1, <2>2, <2>3
<1> QED BY <1>1, <1>7, <1>8 DEF u

\* A page put after what is shown makes the list longer and leaves it complete.
LEMMA Appended ==
  ASSUME NEW v \in Listings \union Messages, v # "timeline", NEW d \in Dirs, NEW f,
         NEW S \in SUBSET Row, NEW o \in Pages, NEW p \in Pages,
         NEW q \in Queries, q.dir = d, NEW reply \in PageReplies,
         ~(v = "search" /\ f = NoSearch),
         p.items = o.items \o reply.items, p.next = reply.next,
         PageComplete(v, d, f, o, S), Continues(d, f, o, q),
         ReplyComplete(v, d, S, q, reply)
  PROVE  PageComplete(v, d, f, p, S)
<1> DEFINE old == o.items
           new == reply.items
<1>1. old \in Seq(Row) /\ new \in Seq(Row) /\ o.next \in Cursors /\ reply.next \in Cursors
  BY DEF Pages, PageReplies
<1>2. ListComplete(v, d, f, o, S)
  BY DEF PageComplete
<1>3. /\ InOrder(d, new)
      /\ \A x \in Range(new) : x \in Past(q)
      /\ reply.next # None =>
            /\ reply.next.after \in Range(new)
            /\ \A x \in Range(new) : ~Ahead(d, reply.next.after, x)
            /\ \A r \in S \intersect Past(q) : r \in Range(new) \/ Ahead(d, reply.next.after, r)
      /\ reply.next = None =>
            \A r \in S \intersect Past(q) :
               \/ r \in Range(new)
               \/ v \in Messages /\ \A x \in Range(new) : Ahead(d, x, r)
               \/ v = "search" /\ q.filter = NoSearch
  BY RefusalParts DEF ReplyComplete
<1>4. q.filter = f
  BY DEF Continues
<1>5. Range(old) \in SUBSET Row /\ Range(new) \in SUBSET Row
  BY <1>1, ItemsOfSeq
<1>6. CASE q.cursor = None
  <2>1. old = <<>> /\ Past(q) = Row
    BY <1>6 DEF Continues, Past
  <2>2. p.items = new
    BY <1>1, <2>1, ConcatEmptySeq
  <2>3. InOrder(d, p.items)
    BY <1>3, <2>2
  <2>4. ASSUME reply.next # None
        PROVE  /\ \A x \in Range(p.items) : ~Ahead(d, p.next.after, x)
               /\ \A r \in S : r \in Range(p.items) \/ Ahead(d, p.next.after, r)
    BY <1>3, <2>1, <2>2, <2>4
  <2>5. ASSUME reply.next = None, NEW r \in S
        PROVE  \/ r \in Range(p.items)
               \/ v = "conversation" /\ \A x \in Range(p.items) : Ahead(d, x, r)
    BY <1>3, <1>4, <2>1, <2>2, <2>5 DEF Messages
  <2> QED BY <2>3, <2>4, <2>5 DEF PageComplete, ListComplete
<1>7. CASE q.cursor # None
  <2> DEFINE c == q.cursor.after
  <2>1. q.cursor = o.next /\ c \in Row
    BY <1>1, <1>7, CursorTypes DEF Continues
  <2>2. \A r \in Row : r \in Past(q) <=> Ahead(d, c, r)
    BY <1>7, SameOrder
  <2>3. /\ InOrder(d, old)
        /\ \A x \in Range(old) : ~Ahead(d, c, x)
        /\ \A r \in S : r \in Range(old) \/ Ahead(d, c, r)
    BY <1>2, <1>7, <2>1 DEF ListComplete
  <2> HIDE DEF c, old, new
  <2>4. \A x \in Range(old) : x = c \/ Ahead(d, x, c)
    BY <1>5, <2>1, <2>3, AheadOrders
  <2>5. \A y \in Range(new) : Ahead(d, c, y)
    BY <1>3, <1>5, <2>2
  <2>6. \A x \in Range(old), y \in Row : Ahead(d, c, y) => Ahead(d, x, y)
    BY <1>5, <2>1, <2>4, AheadOrders
  <2>7. \A x \in Range(old), y \in Range(new) : Ahead(d, x, y)
    BY <1>5, <2>5, <2>6
  <2>8. p.items = old \o new
    BY DEF old, new
  <2>9. InOrder(d, p.items) /\ Range(p.items) = Range(old) \union Range(new)
    BY <1>1, <1>3, <2>3, <2>7, <2>8, Joined
  <2>10. ASSUME reply.next # None
         PROVE  /\ \A x \in Range(p.items) : ~Ahead(d, p.next.after, x)
                /\ \A r \in S : r \in Range(p.items) \/ Ahead(d, p.next.after, r)
    <3>1. \A x \in Range(old) : ~Ahead(d, p.next.after, x)
      BY <1>3, <1>5, <2>7, <2>10, AheadOrders
    <3>2. \A r \in S : r \in Range(p.items) \/ Ahead(d, p.next.after, r)
      BY <1>3, <2>2, <2>3, <2>9, <2>10
    <3> QED BY <1>3, <2>9, <2>10, <3>1, <3>2
  <2>11. ASSUME reply.next = None, NEW r \in S
         PROVE  \/ r \in Range(p.items)
                \/ v = "conversation" /\ \A x \in Range(p.items) : Ahead(d, x, r)
    <3>1. CASE Ahead(d, c, r)
      <4>1. \A x \in Range(old) : Ahead(d, x, r)
        BY <2>6, <3>1
      <4>2. r \in S \intersect Past(q)
        BY <2>2, <3>1
      <4> QED BY <1>3, <1>4, <2>9, <2>11, <4>1, <4>2 DEF Messages
    <3>2. CASE ~Ahead(d, c, r)
      BY <2>3, <2>9, <3>2
    <3> QED BY <3>1, <3>2
  <2> QED BY <2>9, <2>10, <2>11 DEF PageComplete, ListComplete
<1> QED BY <1>6, <1>7

-----------------------------------------------------------------------------
(* What an answer makes of the timeline *)

\* The window paged backward keeps the first rows of the client's order.
LEMMA KeptRows ==
  ASSUME NEW M \in SUBSET Row
  PROVE  LET k == Kept(Sorted(M, ClientOrder), "backward")
         IN  /\ k \in Seq(Row) /\ Len(k) <= Retain
             /\ Range(k) \in SUBSET M
             /\ \A r \in M : r \in Range(k) \/ \A x \in Range(k) : <<x, r>> \in ClientOrder
<1> DEFINE s == Sorted(M, ClientOrder)
           n == IF Len(s) <= Retain THEN Len(s) ELSE Retain
           t == SubSeq(s, 1, n)
           k == Kept(s, "backward")
<1>1. IsFiniteSet(M) /\ StrictOrder(M, ClientOrder)
  BY RowsAreFinite, TimelineOrder
<1>2. /\ s \in Seq(M)
      /\ Len(s) = Cardinality(M)
      /\ \A i, j \in 1 .. Cardinality(M) : i < j => <<s[i], s[j]>> \in ClientOrder
      /\ \A x \in M : \E i \in 1 .. Cardinality(M) : s[i] = x
  BY <1>1, SortedRows
<1> HIDE DEF s
<1>3. Len(s) \in Nat /\ Retain \in Nat \ {0}
  BY <1>2, LenProperties, BoundsAssumption
<1>4. n \in 0 .. Len(s) /\ n <= Retain
  BY <1>3
<1>5. k = IF Len(s) <= Retain THEN s ELSE t
  BY DEF Kept
<1>6. \A i \in 1 .. Len(s) : s[i] \in M
  BY <1>2, ElementOfSeq
<1>7. \A i \in 1 .. n : s[i] \in M
  BY <1>3, <1>4, <1>6
<1> HIDE DEF n
<1>8. t \in Seq(M) /\ Len(t) = n /\ \A i \in 1 .. n : t[i] = s[i]
  <2>1. n \in Int /\ 1 \in Int
    BY <1>3, <1>4
  <2>2. /\ t \in Seq(M)
        /\ Len(t) = IF 1 <= n THEN n - 1 + 1 ELSE 0
        /\ \A i \in 1 .. n - 1 + 1 : t[i] = s[1 + i - 1]
    BY <1>7, <2>1, SubSeqProperties
  <2>3. (IF 1 <= n THEN n - 1 + 1 ELSE 0) = n /\ n - 1 + 1 = n
    BY <1>3, <1>4
  <2>4. \A i \in 1 .. n : 1 + i - 1 = i
    BY <1>3, <1>4
  <2> QED BY <2>2, <2>3, <2>4
<1>9. k \in Seq(M) /\ Len(k) = n /\ \A i \in 1 .. n : k[i] = s[i]
  BY <1>2, <1>5, <1>8 DEF n
<1> HIDE DEF k, t
<1>10. Range(k) \in SUBSET M /\ Range(k) = {k[i] : i \in 1 .. n}
  BY <1>9, ItemsOfSeq
<1>11. k \in Seq(Row)
  <2>1. \A i \in 1 .. n : k[i] \in Row
    BY <1>7, <1>9
  <2>2. n \in Nat
    BY <1>3, <1>4
  <2> QED BY <1>9, <2>1, <2>2, SeqDef
<1>12. ASSUME NEW r \in M, r \notin Range(k), NEW x \in Range(k)
       PROVE  <<x, r>> \in ClientOrder
  <2>1. PICK j \in 1 .. Len(s) : s[j] = r
    BY <1>2
  <2>2. PICK i \in 1 .. n : s[i] = x
    BY <1>9, <1>10
  <2>3. ~(j \in 1 .. n)
    BY <1>9, <1>10, <1>12, <2>1
  <2>4. i \in 1 .. Len(s) /\ i < j
    BY <1>3, <1>4, <2>3
  <2> QED BY <1>2, <2>1, <2>2, <2>4
<1> QED BY <1>4, <1>9, <1>10, <1>11, <1>12 DEF k, s

\* A page of older messages leaves no hole in the window.
LEMMA MergedComplete ==
  ASSUME NEW f, NEW S \in SUBSET Row, NEW o \in Pages, NEW p \in Pages,
         NEW q \in Queries, q.dir = "backward", NEW reply \in PageReplies,
         NEW M, M = Range(o.items) \union Range(reply.items),
         Range(p.items) \in SUBSET M,
         \A r \in M : r \in Range(p.items) \/ \A x \in Range(p.items) : <<x, r>> \in ClientOrder,
         p.next = reply.next,
         WindowComplete(o, S), Continues("backward", f, o, q),
         ReplyComplete("timeline", "backward", S, q, reply)
  PROVE  WindowComplete(p, S)
<1> DEFINE old == Range(o.items)
           new == Range(reply.items)
           shown == Range(p.items)
<1>1. o.items \in Seq(Row) /\ reply.items \in Seq(Row) /\ o.next \in Cursors /\ reply.next \in Cursors
  BY DEF Pages, PageReplies
<1>2. old \in SUBSET Row /\ new \in SUBSET Row /\ shown \in SUBSET Row
  BY <1>1, ItemsOfSeq
<1>3. /\ \A x \in new : x \in Past(q)
      /\ reply.next # None =>
            /\ reply.next.after \in new
            /\ \A x \in new : ~Ahead("backward", reply.next.after, x)
            /\ \A r \in S \intersect Past(q) : r \in new \/ Ahead("backward", reply.next.after, r)
      /\ reply.next = None =>
            \A r \in S \intersect Past(q) : r \in new \/ \A x \in new : Ahead("backward", x, r)
  BY RefusalParts DEF ReplyComplete
<1>4. ASSUME NEW r \in M
      PROVE  r \in shown \/ Dropped(p.items, r)
  <2>1. CASE r \notin shown
    <3>1. \A x \in shown : <<x, r>> \in ClientOrder
      BY <2>1
    <3>2. \A x \in shown : x \notin Undated => x < r
      BY <3>1 DEF ClientOrder
    <3> QED BY <3>2 DEF Dropped
  <2> QED BY <2>1
<1>5. CASE q.cursor = None
  <2>1. old = {} /\ Past(q) = Row
    <3>1. DOMAIN <<>> = {}
      OBVIOUS
    <3>2. o.items = <<>>
      BY <1>5 DEF Continues
    <3> QED BY <1>5, <3>1, <3>2 DEF Past, Range
  <2>2. M = new
    BY <2>1
  <2>3. ASSUME p.next # None
        PROVE  /\ \A x \in shown : p.next.after <= x
               /\ \A r \in S : p.next.after <= r => r \in shown \/ Dropped(p.items, r)
    <3>1. p.next.after \in Row
      BY <1>1, <2>3, CursorTypes
    <3>2. \A x \in Row : Ahead("backward", p.next.after, x) <=> x < p.next.after
      BY DEF Ahead
    <3>3. \A x \in Row : ~(x < p.next.after) <=> p.next.after <= x
      BY <3>1, BoundsAssumption DEF Row
    <3>4. \A x \in shown : p.next.after <= x
      BY <1>2, <1>3, <2>2, <2>3, <3>2, <3>3
    <3>5. \A r \in S : p.next.after <= r => r \in M
      BY <1>3, <2>1, <2>2, <2>3, <3>2, <3>3
    <3> QED BY <1>4, <3>4, <3>5
  <2>4. ASSUME p.next = None, NEW r \in S
        PROVE  r \in shown \/ Dropped(p.items, r) \/ \A x \in shown : r < x
    <3>1. r \in M \/ \A x \in M : Ahead("backward", x, r)
      BY <1>3, <2>1, <2>2, <2>4
    <3> QED BY <1>4, <3>1 DEF Ahead
  <2> QED BY <2>3, <2>4 DEF WindowComplete
<1>6. CASE q.cursor # None
  <2> DEFINE c == q.cursor.after
  <2>1. q.cursor = o.next /\ c \in Row
    BY <1>1, <1>6, CursorTypes DEF Continues
  <2>2. \A r \in Row : r \in Past(q) <=> r < c
    BY <1>6, SameOrder DEF Dirs, Ahead
  <2>3. /\ \A x \in old : c <= x
        /\ \A r \in S : c <= r => r \in old \/ Dropped(o.items, r)
    BY <1>6, <2>1 DEF WindowComplete
  <2> HIDE DEF c
  <2>4. \A x \in new : x < c
    BY <1>2, <1>3, <2>2
  <2>5. ASSUME NEW r \in S, c <= r
        PROVE  r \in shown \/ Dropped(p.items, r)
    <3>1. CASE r \in old
      BY <1>4, <3>1
    <3>2. CASE Dropped(o.items, r)
      <4>1. \A x \in old \ Undated : x < r
        BY <3>2 DEF Dropped
      <4>2. \A x \in new : x < r
        BY <1>2, <2>1, <2>4, <2>5, BoundsAssumption DEF Row
      <4>3. \A x \in shown \ Undated : x < r
        BY <4>1, <4>2
      <4> QED BY <4>3 DEF Dropped
    <3> QED BY <2>3, <2>5, <3>1, <3>2
  <2>6. \A r \in S : c <= r \/ (r < c /\ r \in S \intersect Past(q))
    BY <2>1, <2>2, BoundsAssumption DEF Row
  <2>7. ASSUME p.next # None
        PROVE  /\ \A x \in shown : p.next.after <= x
               /\ \A r \in S : p.next.after <= r => r \in shown \/ Dropped(p.items, r)
    <3> DEFINE n == p.next.after
    <3>1. n \in Row /\ n \in new
      BY <1>1, <1>3, <2>7, CursorTypes
    <3>2. \A x \in Row : Ahead("backward", n, x) <=> x < n
      BY DEF Ahead
    <3>3. (\A x \in new : ~Ahead("backward", n, x)) /\ \A r \in S \intersect Past(q) : r \in new \/ Ahead("backward", n, r)
      BY <1>3, <2>7
    <3> HIDE DEF n
    <3>4. \A x \in Row : ~(x < n) <=> n <= x
      BY <3>1, BoundsAssumption DEF Row
    <3>5. n < c
      BY <2>4, <3>1
    <3>6. \A x \in old : n <= x
      BY <1>2, <2>1, <2>3, <3>1, <3>5, BoundsAssumption DEF Row
    <3>7. \A x \in new : n <= x
      BY <1>2, <3>2, <3>3, <3>4
    <3>8. \A r \in S : n <= r => r \in shown \/ Dropped(p.items, r)
      <4> SUFFICES ASSUME NEW r \in S, n <= r
                   PROVE  r \in shown \/ Dropped(p.items, r)
        OBVIOUS
      <4>1. CASE c <= r
        BY <2>5, <4>1
      <4>2. CASE r \in S \intersect Past(q)
        <5>1. r \in Row /\ ~(r < n)
          BY <3>4
        <5>2. r \in new
          BY <3>2, <3>3, <4>2, <5>1
        <5> QED BY <1>4, <5>2
      <4> QED BY <2>6, <4>1, <4>2
    <3> QED BY <3>6, <3>7, <3>8 DEF n
  <2>8. ASSUME p.next = None, NEW r \in S
        PROVE  r \in shown \/ Dropped(p.items, r) \/ \A x \in shown : r < x
    <3>1. CASE c <= r
      BY <2>5, <3>1
    <3>2. CASE r < c /\ r \in S \intersect Past(q)
      <4>1. CASE r \in new
        BY <1>4, <4>1
      <4>2. CASE \A x \in new : Ahead("backward", x, r)
        <5>1. \A x \in new : r < x
          BY <4>2 DEF Ahead
        <5>2. \A x \in old : r < x
          BY <1>2, <2>1, <2>3, <3>2, BoundsAssumption DEF Row
        <5> QED BY <5>1, <5>2
      <4>3. reply.next = None
        BY <2>8
      <4> QED BY <1>3, <3>2, <4>1, <4>2, <4>3
    <3> QED BY <2>6, <3>1, <3>2
  <2> QED BY <2>7, <2>8 DEF WindowComplete
<1> QED BY <1>5, <1>6

-----------------------------------------------------------------------------
(* What an answer makes of any page *)

\* The answer is one to this client's request, and complete if nothing was mixed.
Answers(q, reply) ==
    /\ ReplyShape(view, dir, q, reply)
    /\ ~mixed => /\ Continues(dir, active, page, q)
                 /\ ReplyComplete(view, dir, steady, q, reply)

\* A page as this client may show it.
Sound(p) ==
    /\ p \in Pages
    /\ PageShape(view, dir, p)
    /\ ~mixed => PageComplete(view, dir, active, p, steady)

LEMMA BlankSound ==
  ASSUME NEW p, Blank(p)
  PROVE  Sound(p)
<1>1. p \in Pages /\ p.items = <<>> /\ p.next = None /\ p.kind # "ready"
  BY DEF Blank
<1>2. PageComplete(view, dir, active, p, steady)
  BY <1>1, NothingShown
<1> QED BY <1>1, <1>2, BlankShape DEF Sound

LEMMA PageParts ==
  ASSUME NEW p \in Pages
  PROVE  /\ p.kind \in {"idle", "loading", "ready", "empty", "error", "unauthorized"}
         /\ p.items \in Seq(Row) /\ p.next \in Cursors /\ p.newer \in Cursors
         /\ p.more \in BOOLEAN /\ p.busy \in BOOLEAN
BY DEF Pages

\* A list shows a first page, or puts a page after what it shows.
LEMMA ListAnswered ==
  ASSUME Invariant, view \in Lists, NEW q \in Queries, NEW reply \in PageReplies,
         Answers(q, reply)
  PROVE  Sound(ListAfter(q, reply))
<1> DEFINE p == ListAfter(q, reply)
<1>1. /\ page \in Pages /\ dir \in Dirs /\ steady \in SUBSET Row
      /\ view \in Listings \union Messages /\ view # "timeline"
  BY DEF Invariant, Types, Lists, Listings, Messages
<1>2. /\ page.items \in Seq(Row) /\ page.newer \in Cursors
      /\ page.newer # None => page.newer.dir = dir
      /\ page.kind = "ready" => page.items # <<>>
      /\ page.kind # "ready" => page.items = <<>> /\ page.next = None
  BY <1>1, PageParts DEF Invariant, Shape, PageShape
<1>3. /\ reply.kind = "page" /\ reply.items \in Seq(Row)
      /\ reply.more \in BOOLEAN /\ reply.next \in Cursors
  BY RefusalParts
<1>4. /\ q.dir = dir
      /\ reply.more <=> reply.next # None
      /\ reply.next # None => reply.next.dir = dir
      /\ view = "search" /\ q.filter = NoSearch => reply.items = <<>> /\ reply.next = None
  BY <1>3 DEF Answers, ReplyShape
<1>5. ASSUME ~mixed
      PROVE  /\ Continues(dir, active, page, q)
             /\ ReplyComplete(view, dir, steady, q, reply)
             /\ PageComplete(view, dir, active, page, steady)
             /\ q.filter = active
             /\ q.cursor # None => q.cursor = page.next
             /\ q.cursor = None => page.items = <<>>
  BY <1>4, <1>5 DEF Answers, Invariant, Complete, Continues
<1>6. CASE (q.cursor = None \/ page.kind # "ready") /\ reply.items = <<>>
  <2>1. p = Bare("empty")
    BY <1>6 DEF ListAfter
  <2> QED BY <2>1, BareParts, BlankSound
<1>7. CASE (q.cursor = None \/ page.kind # "ready") /\ reply.items # <<>>
  <2>1. p = [Bare("ready") EXCEPT !.items = reply.items, !.next = reply.next, !.more = reply.more]
    BY <1>7 DEF ListAfter
  <2>2. p = [kind |-> "ready", items |-> reply.items, next |-> reply.next, newer |-> None,
             more |-> reply.more, busy |-> FALSE]
    BY <2>1 DEF Bare
  <2>3. None \in Cursors
    BY DEF Cursors
  <2>4. /\ p \in Pages /\ p.kind = "ready" /\ p.items = reply.items /\ p.next = reply.next
        /\ p.newer = None /\ p.more = reply.more
    BY <1>3, <2>2, <2>3 DEF Pages
  <2> HIDE DEF p
  <2>5. PageShape(view, dir, p)
    BY <1>1, <1>4, <1>7, <2>4 DEF PageShape
  <2>6. ASSUME ~mixed
        PROVE  PageComplete(view, dir, active, p, steady)
    <3>1. page.items = <<>>
      BY <1>2, <1>5, <1>7, <2>6
    <3>2. p.items = page.items \o reply.items
      BY <1>3, <2>4, <3>1, ConcatEmptySeq
    <3>3. ~(view = "search" /\ active = NoSearch)
      BY <1>4, <1>5, <1>7, <2>6
    <3>4. PICK v \in Listings \union Messages, d \in Dirs, S \in SUBSET Row, o \in Pages :
             v = view /\ d = dir /\ S = steady /\ o = page
      BY <1>1
    <3>5. PageComplete(v, d, active, p, S)
      BY <1>1, <1>4, <1>5, <2>4, <2>6, <3>2, <3>3, <3>4, Appended
    <3> QED BY <3>4, <3>5
  <2> QED BY <2>4, <2>5, <2>6 DEF Sound, p
<1>8. CASE q.cursor # None /\ page.kind = "ready"
  <2>1. p = [page EXCEPT !.items = @ \o reply.items, !.next = reply.next, !.more = reply.more,
                         !.busy = FALSE]
    BY <1>8 DEF ListAfter
  <2>2. page.items \o reply.items \in Seq(Row)
    BY <1>2, <1>3, ConcatProperties
  <2>3. /\ p \in Pages /\ p.kind = "ready" /\ p.items = page.items \o reply.items
        /\ p.next = reply.next /\ p.newer = page.newer /\ p.more = reply.more
    BY <1>1, <1>3, <1>8, <2>1, <2>2 DEF Pages
  <2> HIDE DEF p
  <2>4. p.items # <<>>
    <3>1. PICK m \in Nat, n \in Nat : m = Len(page.items) /\ n = Len(reply.items)
      BY <1>2, <1>3, LenProperties
    <3>2. m # 0
      BY <1>2, <1>8, <3>1, EmptySeq
    <3>3. Len(p.items) = m + n
      BY <1>2, <1>3, <2>3, <3>1, ConcatProperties
    <3>4. m + n # 0
      BY <3>2
    <3> QED BY <3>3, <3>4, EmptySeq
  <2>5. PageShape(view, dir, p)
    BY <1>1, <1>2, <1>4, <2>3, <2>4 DEF PageShape
  <2>6. ASSUME ~mixed
        PROVE  PageComplete(view, dir, active, p, steady)
    <3>1. ~(view = "search" /\ active = NoSearch)
      BY <1>1, <1>5, <1>8, <2>6 DEF PageComplete, ListComplete
    <3>2. PICK v \in Listings \union Messages, d \in Dirs, S \in SUBSET Row, o \in Pages :
             v = view /\ d = dir /\ S = steady /\ o = page
      BY <1>1
    <3>3. PageComplete(v, d, active, p, S)
      BY <1>1, <1>4, <1>5, <2>3, <2>6, <3>1, <3>2, Appended
    <3> QED BY <3>2, <3>3
  <2> QED BY <2>3, <2>5, <2>6 DEF Sound, p
<1> QED BY <1>6, <1>7, <1>8

\* The agent puts every page after what it has, and keeps it when it is refused.
LEMMA AgentAnswered ==
  ASSUME Invariant, view \in Agents, NEW q \in Queries, NEW reply \in PageReplies \union Refusals,
         Answers(q, reply)
  PROVE  Sound(AgentAfter(q, reply))
<1> DEFINE p == AgentAfter(q, reply)
<1>1. /\ page \in Pages /\ dir \in Dirs /\ steady \in SUBSET Row
      /\ view \in Listings \union Messages /\ view # "timeline" /\ view \notin Lists /\ view # "search"
  BY DEF Invariant, Types, Lists, Agents, Listings, Messages
<1>2. page.items \in Seq(Row)
  BY <1>1, PageParts
<1>3. /\ page.more <=> page.next # None
      /\ page.next # None => page.next.dir = dir
      /\ page.newer # None => page.newer.dir = dir
  BY DEF Invariant, Shape, PageShape
<1>4. ASSUME ~mixed
      PROVE  /\ Continues(dir, active, page, q)
             /\ ReplyComplete(view, dir, steady, q, reply)
             /\ PageComplete(view, dir, active, page, steady)
  BY <1>4 DEF Answers, Invariant, Complete
<1>5. CASE reply.kind # "page"
  <2>1. reply.kind \in {"unauthorized", "error"}
    BY <1>5, RefusalParts
  <2>2. p = [page EXCEPT !.kind = reply.kind]
    BY <1>5 DEF AgentAfter
  <2>3. /\ p \in Pages /\ p.kind # "ready" /\ p.items = page.items
        /\ p.next = page.next /\ p.newer = page.newer /\ p.more = page.more
    BY <1>1, <2>1, <2>2 DEF Pages
  <2> HIDE DEF p
  <2>4. PageShape(view, dir, p)
    BY <1>1, <1>3, <2>3 DEF PageShape
  <2>5. ASSUME ~mixed
        PROVE  PageComplete(view, dir, active, p, steady)
    BY <1>1, <1>4, <2>3, <2>5 DEF PageComplete, ListComplete
  <2> QED BY <2>3, <2>4, <2>5 DEF Sound, p
<1>6. CASE reply.kind = "page"
  <2>1. /\ reply \in PageReplies /\ reply.items \in Seq(Row)
        /\ reply.more \in BOOLEAN /\ reply.next \in Cursors
    BY <1>6, RefusalParts
  <2>2. p = [page EXCEPT !.kind = "ready", !.items = @ \o reply.items,
                         !.next = reply.next, !.more = reply.more]
    BY <1>6 DEF AgentAfter
  <2>3. page.items \o reply.items \in Seq(Row)
    BY <1>2, <2>1, ConcatProperties
  <2>4. /\ p \in Pages /\ p.kind = "ready" /\ p.items = page.items \o reply.items
        /\ p.next = reply.next /\ p.newer = page.newer /\ p.more = reply.more
    BY <1>1, <2>1, <2>2, <2>3 DEF Pages
  <2> HIDE DEF p
  <2>5. /\ q.dir = dir
        /\ reply.more <=> reply.next # None
        /\ reply.next # None => reply.next.dir = dir
    BY <1>6 DEF Answers, ReplyShape
  <2>6. PageShape(view, dir, p)
    BY <1>1, <1>3, <2>4, <2>5 DEF PageShape
  <2>7. ASSUME ~mixed
        PROVE  PageComplete(view, dir, active, p, steady)
    <3>1. PICK v \in Listings \union Messages, d \in Dirs, S \in SUBSET Row, o \in Pages :
             v = view /\ d = dir /\ S = steady /\ o = page
      BY <1>1
    <3>2. PageComplete(v, d, active, p, S)
      BY <1>1, <1>4, <2>1, <2>4, <2>5, <2>7, <3>1, Appended
    <3> QED BY <3>1, <3>2
  <2> QED BY <2>4, <2>6, <2>7 DEF Sound, p
<1> QED BY <1>5, <1>6

\* The timeline merges a page into its window, and keeps it when it is refused.
LEMMA TimelineAnswered ==
  ASSUME Invariant, view = "timeline", NEW q \in Queries, NEW reply \in PageReplies \union Refusals,
         Answers(q, reply)
  PROVE  Sound(TimelineAfter(q, reply))
<1> DEFINE p == TimelineAfter(q, reply)
<1>1. page \in Pages /\ dir = "backward" /\ steady \in SUBSET Row
  BY DEF Invariant, Types, Shape, ViewShape
<1>2. page.items \in Seq(Row) /\ page.newer \in Cursors /\ page.next \in Cursors
  BY <1>1, PageParts
<1>3. /\ page.more <=> page.next # None
      /\ page.next # None => page.next.dir = dir
      /\ page.newer # None => page.newer.dir = dir
      /\ Len(page.items) <= Retain
  BY DEF Invariant, Shape, PageShape
<1>4. ASSUME ~mixed
      PROVE  /\ Continues(dir, active, page, q)
             /\ ReplyComplete(view, dir, steady, q, reply)
             /\ WindowComplete(page, steady)
  BY <1>4 DEF Answers, Invariant, Complete, PageComplete
<1>5. view \notin Lists
  BY DEF Lists
<1>6. CASE reply.kind # "page"
  <2>1. reply.kind \in {"unauthorized", "error"}
    BY <1>6, RefusalParts
  <2>2. p = [page EXCEPT !.kind = reply.kind, !.busy = FALSE]
    BY <1>6 DEF TimelineAfter
  <2>3. /\ p \in Pages /\ p.kind # "ready" /\ p.items = page.items
        /\ p.next = page.next /\ p.newer = page.newer /\ p.more = page.more
    BY <1>1, <2>1, <2>2 DEF Pages
  <2> HIDE DEF p
  <2>4. PageShape(view, dir, p)
    BY <1>3, <1>5, <2>3 DEF PageShape
  <2>5. ASSUME ~mixed
        PROVE  PageComplete(view, dir, active, p, steady)
    BY <1>4, <2>3, <2>5 DEF PageComplete, WindowComplete
  <2> QED BY <2>3, <2>4, <2>5 DEF Sound, p
<1>7. CASE reply.kind = "page"
  <2> DEFINE M == Range(page.items) \union Range(reply.items)
             k == Kept(Sorted(M, ClientOrder), "backward")
             w == IF reply.next # None /\ page.items = <<>> THEN reply.next ELSE page.newer
  <2>1. /\ reply \in PageReplies /\ reply.items \in Seq(Row)
        /\ reply.more \in BOOLEAN /\ reply.next \in Cursors
    BY <1>7, RefusalParts
  <2>2. /\ q.dir = "backward"
        /\ reply.more <=> reply.next # None
        /\ reply.next # None => reply.next.dir = dir
    BY <1>1, <1>7 DEF Answers, ReplyShape
  <2>3. M \in SUBSET Row
    BY <1>2, <2>1, ItemsOfSeq
  <2>4. /\ k \in Seq(Row) /\ Len(k) <= Retain
        /\ Range(k) \in SUBSET M
        /\ \A r \in M : r \in Range(k) \/ \A x \in Range(k) : <<x, r>> \in ClientOrder
    <3> HIDE DEF M
    <3> QED BY <2>3, KeptRows
  <2>5. MergeTimelinePage(q, reply) =
           [[page EXCEPT !.items = k] EXCEPT !.next = reply.next, !.more = reply.more, !.newer = w]
    <3>1. w = IF reply.next # None /\ page.items = <<>> THEN reply.next
              ELSE [page EXCEPT !.items = k].newer
      <4> HIDE DEF k
      <4> QED BY <1>1 DEF Pages
    <3> QED BY <2>2, <3>1 DEF MergeTimelinePage
  <2>6. w \in Cursors /\ (w # None => w.dir = dir)
    BY <1>2, <1>3, <2>1, <2>2
  <2> HIDE DEF k, w
  <2>7. p = [MergeTimelinePage(q, reply) EXCEPT !.kind = "ready", !.busy = FALSE]
    BY <1>7 DEF TimelineAfter
  <2> DEFINE a == [page EXCEPT !.items = k]
             b == [a EXCEPT !.next = reply.next, !.more = reply.more, !.newer = w]
  <2>8. a \in Pages /\ a.items = k
    BY <1>1, <2>4 DEF Pages
  <2> HIDE DEF a
  <2>9. /\ b \in Pages /\ b.items = k /\ b.next = reply.next
        /\ b.more = reply.more /\ b.newer = w
    BY <2>1, <2>6, <2>8 DEF Pages
  <2>10. MergeTimelinePage(q, reply) = b
    BY <2>5 DEF a
  <2> HIDE DEF b
  <2>11. /\ p \in Pages /\ p.items = k /\ p.next = reply.next
         /\ p.more = reply.more /\ p.newer = w
    BY <2>7, <2>9, <2>10 DEF Pages
  <2> HIDE DEF p
  <2>12. PageShape(view, dir, p)
    BY <1>5, <2>2, <2>4, <2>6, <2>11 DEF PageShape
  <2>13. ASSUME ~mixed
         PROVE  PageComplete(view, dir, active, p, steady)
    <3>1. PICK S \in SUBSET Row, o \in Pages, t \in PageReplies, e \in Pages :
             S = steady /\ o = page /\ t = reply /\ e = p
      BY <1>1, <2>1, <2>11
    <3>2. /\ Continues("backward", active, o, q)
          /\ ReplyComplete("timeline", "backward", S, q, t)
          /\ WindowComplete(o, S)
      BY <1>1, <1>4, <2>13, <3>1
    <3>3. /\ M = Range(o.items) \union Range(t.items)
          /\ Range(e.items) \in SUBSET M /\ e.next = t.next
          /\ \A r \in M : r \in Range(e.items) \/ \A x \in Range(e.items) : <<x, r>> \in ClientOrder
      BY <2>4, <2>11, <3>1
    <3> HIDE DEF M
    <3>4. WindowComplete(e, S)
      BY <2>2, <3>2, <3>3, MergedComplete
    <3> QED BY <3>1, <3>4 DEF PageComplete
  <2> QED BY <2>11, <2>12, <2>13 DEF Sound, p
<1> QED BY <1>6, <1>7

LEMMA PageAnswered ==
  ASSUME Invariant, NEW q \in Queries, NEW reply \in PageReplies \union Refusals,
         Answers(q, reply)
  PROVE  Sound(PageAfter(q, reply))
<1>1. view \in Listings \union Messages
  BY DEF Invariant, Types
<1>2. CASE view \in Lists /\ reply.kind = "page"
  <2>1. reply \in PageReplies
    BY <1>2, RefusalParts
  <2>2. PageAfter(q, reply) = ListAfter(q, reply)
    BY <1>2 DEF PageAfter, ConversationsAfter, PeopleAfter, SearchAfter, Lists
  <2> QED BY <1>2, <2>1, <2>2, ListAnswered
<1>3. CASE view \in Lists /\ reply.kind # "page"
  <2>1. reply.kind \in {"unauthorized", "error"}
    BY <1>3, RefusalParts
  <2>2. PageAfter(q, reply) = Bare(reply.kind) \/ PageAfter(q, reply) = Bare("error")
    BY <1>3 DEF PageAfter, ConversationsAfter, PeopleAfter, SearchAfter, Lists
  <2>3. Blank(Bare(reply.kind)) /\ Blank(Bare("error"))
    BY <2>1, BareParts
  <2> QED BY <2>2, <2>3, BlankSound
<1>4. CASE view = "timeline"
  <2>1. PageAfter(q, reply) = TimelineAfter(q, reply)
    BY <1>4 DEF PageAfter
  <2> QED BY <1>4, <2>1, TimelineAnswered
<1>5. CASE view \in Agents
  <2>1. PageAfter(q, reply) = AgentAfter(q, reply)
    BY <1>5 DEF PageAfter, Agents
  <2> QED BY <1>5, <2>1, AgentAnswered
<1> QED BY <1>1, <1>2, <1>3, <1>4, <1>5 DEF Lists, Agents, Listings, Messages

LEMMA ReceiveStep ==
  ASSUME Invariant, NEW s \in Slot, Receive(s)
  PROVE  Invariant'
<1>1. calls[s] \in Calls /\ calls[s].stage = "answered"
  BY DEF Invariant, Types, Receive
<1>2. PICK q \in Queries, reply \in PageReplies \union Refusals :
         q = calls[s].query /\ reply = calls[s].reply
  BY <1>1, CallParts
<1>3. Answers(q, reply)
  <2>1. ReplyShape(view, dir, q, reply)
    BY <1>1, <1>2 DEF Invariant, Shape, CallShape
  <2>2. ASSUME ~mixed
        PROVE  Continues(dir, active, page, q) /\ ReplyComplete(view, dir, steady, q, reply)
    BY <1>1, <1>2, <2>2 DEF Invariant, Complete, CallComplete
  <2> QED BY <2>1, <2>2 DEF Answers
<1>4. page' = PageAfter(q, reply)
  BY <1>2 DEF Receive
<1>5. PICK p : p = PageAfter(q, reply)
  OBVIOUS
<1>6. Sound(p) /\ page' = p
  BY <1>3, <1>4, <1>5, PageAnswered
<1>7. /\ calls' = [calls EXCEPT ![s] = Quiet]
      /\ UNCHANGED <<row, view, dir, active, epoch, signedIn, steady, mixed, left>>
  BY DEF Receive
<1>8. Quiet \in Calls /\ Quiet.stage = "idle"
  BY DEF Quiet, Calls
<1>9. calls \in [Slot -> Calls] /\ \A t \in Slot : calls'[t] = IF t = s THEN Quiet ELSE calls[t]
  BY <1>7 DEF Invariant, Types
<1>10. Types'
  <2>1. calls' \in [Slot -> Calls]
    BY <1>7, <1>8, <1>9
  <2>2. page' \in Pages
    BY <1>6 DEF Sound
  <2> QED BY <1>7, <2>1, <2>2 DEF Invariant, Types
<1>11. Shape'
  <2>1. \A t \in Slot : CallShape(view, dir, calls'[t])
    BY <1>8, <1>9 DEF Invariant, Shape, CallShape
  <2>2. PageShape(view, dir, page')
    BY <1>6 DEF Sound
  <2>3. /\ ViewShape(view, dir, active)
        /\ steady \subseteq Readable \intersect Found(active)
        /\ Readable' = Readable
    BY <1>7 DEF Invariant, Shape, Readable
  <2> QED BY <1>7, <2>1, <2>2, <2>3 DEF Shape
<1>12. ASSUME ~mixed'
       PROVE  Complete'
  <2>1. ~mixed
    BY <1>7, <1>12
  <2>2. OneCall(calls)
    BY <2>1 DEF Invariant, Complete
  <2>3. \A t \in Slot : calls'[t].stage = "idle"
    <3> SUFFICES ASSUME NEW t \in Slot PROVE calls'[t].stage = "idle"
      OBVIOUS
    <3>1. CASE t = s
      BY <1>8, <1>9, <3>1
    <3>2. CASE t # s
      <4>1. calls[s].stage # "idle"
        BY <1>1
      <4>2. calls[t].stage = "idle"
        BY <2>2, <3>2, <4>1 DEF OneCall
      <4> QED BY <1>9, <3>2, <4>2
    <3> QED BY <3>1, <3>2
  <2>4. OneCall(calls')
    BY <2>3 DEF OneCall
  <2>5. \A t \in Slot : CallComplete(view, dir, active, page', steady, calls'[t])
    BY <2>3 DEF CallComplete
  <2>6. PageComplete(view, dir, active, page', steady)
    BY <1>6, <2>1 DEF Sound
  <2> QED BY <1>7, <2>4, <2>5, <2>6 DEF Complete
<1> QED BY <1>10, <1>11, <1>12 DEF Invariant

-----------------------------------------------------------------------------
(* The theorems *)

LEMMA StepInvariant ==
  ASSUME Invariant, [Next]_vars
  PROVE  Invariant'
<1>1. CASE UNCHANGED vars
  BY <1>1 DEF vars, Invariant, Types, Shape, Complete, Readable
<1>2. ASSUME NEW s \in Slot, Serve(s) PROVE Invariant'
  BY <1>2, ServeStep
<1>3. ASSUME NEW s \in Slot, Candidates(s) PROVE Invariant'
  BY <1>3, CandidatesStep
<1>4. ASSUME NEW s \in Slot, Hydrate(s) PROVE Invariant'
  BY <1>4, HydrateStep
<1>5. ASSUME NEW s \in Slot, Fail(s) PROVE Invariant'
  BY <1>5, FailStep
<1>6. ASSUME NEW s \in Slot, Receive(s) PROVE Invariant'
  BY <1>6, ReceiveStep
<1>7. CASE \/ LoadMore \/ RetryConversations \/ RetryPeople
           \/ \E f \in Filter : SubmitPeople(f) \/ PopState(f) \/ SubmitSearch(f)
           \/ LoadOlder \/ LoadNewer \/ Regroup \/ CallTool
  BY <1>7, ClientStep
<1>8. CASE Change
  BY <1>8, ChangeStep
<1>9. CASE CursorsExpire \/ SessionEnds
  BY <1>9, OtherSteps
<1> QED BY <1>1, <1>2, <1>3, <1>4, <1>5, <1>6, <1>7, <1>8, <1>9 DEF Next

THEOREM InvariantHolds == Spec => []Invariant
<1>1. Init => Invariant
  BY InitInvariant
<1>2. Invariant /\ [Next]_vars => Invariant'
  BY StepInvariant
<1> QED BY <1>1, <1>2, PTL DEF Spec

\* Whatever the answers bring and in whatever order they come, what a client
\* shows and every cursor it holds are well-formed, the timeline never outgrows
\* its window (message-timeline.tsx mergeTimelinePage), and a list is only shown
\* as loaded with its first page (conversation-list.tsx load, search-panel.tsx load).
THEOREM TypeCorrect == Spec => []TypeOK
<1>1. ASSUME Invariant
      PROVE  TypeOK
  <2>1. page \in Pages /\ row \in [Row -> {"absent", "shown", "private", "retired"}]
    BY <1>1 DEF Invariant, Types
  <2>2. PageShape(view, dir, page)
    BY <1>1 DEF Invariant, Shape
  <2>3. \A s \in Slot : calls[s] \in Calls
    BY <1>1 DEF Invariant, Types
  <2>4. \A s \in Slot : calls[s].stage \in {"idle", "sent", "candidates", "answered"}
    BY <2>3, CallParts
  <2>5. {page.next, page.newer} \subseteq Cursor \union {None}
    BY <2>1, PageParts DEF Cursors
  <2>6. view = "timeline" => Len(page.items) <= Retain
    BY <2>2 DEF PageShape
  <2>7. view \in {"chats", "people", "search"} /\ page.kind = "ready" => page.items # <<>>
    BY <2>2 DEF PageShape, Lists
  <2> QED BY <2>1, <2>4, <2>5, <2>6, <2>7, PageParts DEF TypeOK
<1> QED BY <1>1, InvariantHolds, PTL

\* A list shows its rows in order, each once, and no page ever skips a row that
\* was there all along; when it says that there is no more, all of them are
\* shown - for every page size, every search and every interleaving of the
\* changes with the two queries of a page, provided the client's requests were
\* not in flight together (reads.ts page, prisma-persistence.ts keyset queries).
THEOREM ListsAreExact == Spec => []ListExact
<1>1. ASSUME Invariant
      PROVE  ListExact
  <2> SUFFICES ASSUME view # "timeline", page.kind = "ready", ~mixed
               PROVE  /\ \A i, j \in DOMAIN page.items :
                            i < j => Before(page.items[i], page.items[j])
                      /\ \A r \in steady :
                            \/ r \in Range(page.items)
                            \/ \A i \in DOMAIN page.items : Before(page.items[i], r)
                      /\ ~page.more /\ view \in Listings => steady \subseteq Range(page.items)
    BY DEF ListExact
  <2>1. /\ page \in Pages /\ dir \in Dirs /\ steady \in SUBSET Row
        /\ PageShape(view, dir, page)
    BY <1>1 DEF Invariant, Types, Shape
  <2>2. page.items \in Seq(Row) /\ page.next \in Cursors /\ Range(page.items) \in SUBSET Row
    BY <2>1, PageParts, ItemsOfSeq
  <2>3. ListComplete(view, dir, active, page, steady)
    BY <1>1 DEF Invariant, Complete, PageComplete
  <2>4. \A a, b : Before(a, b) <=> Ahead(dir, a, b)
    BY DEF Before, Ahead
  <2>5. \A i, j \in DOMAIN page.items : i < j => Before(page.items[i], page.items[j])
    BY <2>3, <2>4 DEF ListComplete, InOrder
  <2>6. \A i \in DOMAIN page.items : page.items[i] \in Range(page.items)
    BY DEF Range
  <2>7. ASSUME NEW r \in steady, r \notin Range(page.items)
        PROVE  \A x \in Range(page.items) : Ahead(dir, x, r)
    <3>1. CASE page.next # None
      <4>1. PICK n \in Row : n = page.next.after
        BY <2>2, <3>1, CursorTypes
      <4>2. Ahead(dir, n, r) /\ \A x \in Range(page.items) : ~Ahead(dir, n, x)
        BY <2>3, <2>7, <3>1, <4>1 DEF ListComplete
      <4>3. \A x \in Range(page.items) : x = n \/ Ahead(dir, x, n)
        BY <2>1, <2>2, <4>1, <4>2, AheadOrders
      <4>4. r \in Row
        BY <2>1
      <4> QED BY <2>1, <2>2, <4>1, <4>2, <4>3, <4>4, AheadOrders
    <3>2. CASE page.next = None
      BY <2>3, <2>7, <3>2 DEF ListComplete
    <3> QED BY <3>1, <3>2
  <2>8. \A r \in steady : r \in Range(page.items) \/ \A i \in DOMAIN page.items : Before(page.items[i], r)
    BY <2>4, <2>6, <2>7
  <2>9. ASSUME ~page.more, view \in Listings
        PROVE  steady \subseteq Range(page.items)
    <3>1. page.next = None /\ view # "conversation"
      BY <2>1, <2>9 DEF PageShape, Listings
    <3> QED BY <2>3, <3>1 DEF ListComplete
  <2> QED BY <2>5, <2>8, <2>9
<1> QED BY <1>1, InvariantHolds, PTL

\* A message that was there all along and lies between two dated messages of the
\* timeline is shown between them, whatever the size of the window, although
\* paging back cuts messages off and the client sorts by another key than the
\* server (message-timeline.tsx mergeTimelinePage, compareMessages).
THEOREM TimelineHasNoHole == Spec => []TimelineContiguous
<1>1. ASSUME Invariant
      PROVE  TimelineContiguous
  <2> SUFFICES ASSUME view = "timeline", page.kind = "ready", ~mixed,
                      NEW r \in steady,
                      NEW a \in Range(page.items) \ Undated, NEW b \in Range(page.items) \ Undated,
                      a < r, r < b
               PROVE  r \in Range(page.items)
    BY DEF TimelineContiguous
  <2>1. page \in Pages /\ steady \in SUBSET Row
    BY <1>1 DEF Invariant, Types
  <2>2. page.items \in Seq(Row) /\ page.next \in Cursors /\ Range(page.items) \in SUBSET Row
    BY <2>1, PageParts, ItemsOfSeq
  <2>3. WindowComplete(page, steady)
    BY <1>1 DEF Invariant, Complete, PageComplete
  <2>4. a \in Row /\ b \in Row /\ r \in Row
    BY <2>1, <2>2
  <2>5. ~Dropped(page.items, r)
    <3>1. ~(b < r)
      BY <2>4, BoundsAssumption DEF Row
    <3> QED BY <3>1 DEF Dropped
  <2>6. CASE page.next # None
    <3>1. PICK n \in Row : n = page.next.after
      BY <2>2, <2>6, CursorTypes
    <3>2. n <= a
      BY <2>3, <2>6, <3>1 DEF WindowComplete
    <3>3. n <= r
      BY <2>4, <3>1, <3>2, BoundsAssumption DEF Row
    <3> QED BY <2>3, <2>5, <2>6, <3>1, <3>3 DEF WindowComplete
  <2>7. CASE page.next = None
    <3>1. ~(r < a)
      BY <2>4, BoundsAssumption DEF Row
    <3> QED BY <2>3, <2>5, <2>7, <3>1 DEF WindowComplete
  <2> QED BY <2>6, <2>7
<1> QED BY <1>1, InvariantHolds, PTL
=============================================================================
