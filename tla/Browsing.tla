------------------------------ MODULE Browsing ------------------------------
(***************************************************************************)
(* Paging through the archive: the keyset cursors of the read service, the *)
(* queries behind them, and the clients that string pages together - the   *)
(* chat list, the people list, the search panel, the message timeline and  *)
(* an MCP agent - while imports, exclusions and privacy decisions change   *)
(* the rows between two pages, and several answers are in flight at once.  *)
(*                                                                         *)
(* A row is its place in the listing's sort order (the sort key with the   *)
(* id that breaks ties); a row whose key changes leaves one place and      *)
(* appears at another.  One client is on the screen: `view` never changes. *)
(***************************************************************************)
EXTENDS Integers, Sequences, FiniteSets, Functions

CONSTANTS N,            \* places in the sort order
          Limit,        \* rows of a page (the clients ask for 50)
          Retain,       \* MAX_RETAINED_MESSAGES of the timeline (300)
          Undated,      \* messages without sentAt: sorted by createdAt
          Matches,      \* search text -> the rows it finds
          Views,        \* the clients to explore
          Slot,         \* requests in flight at most
          MaxChanges,   \* changes of a row's state
          MaxAsks,      \* requests after the first
          MaxFaults     \* failed requests, ended sessions, expired cursors

ASSUME BoundsAssumption ==
    /\ N \in Nat /\ Limit \in Nat \ {0} /\ Retain \in Nat \ {0}
    /\ Undated \subseteq 1 .. N
    /\ IsFiniteSet(Slot) /\ MaxChanges \in Nat /\ MaxAsks \in Nat /\ MaxFaults \in Nat
    /\ \A f \in DOMAIN Matches : Matches[f] \subseteq 1 .. N
    /\ Views \subseteq {"chats", "people", "search", "timeline", "tools", "conversation"}

Row == 1 .. N
NoSearch == ""
Filter == {NoSearch} \union DOMAIN Matches
None == [after |-> 0]

VARIABLES row,      \* absent, shown, private (policy) or retired (materialized = false)
          view,     \* the client on the screen
          dir,      \* the direction in which it pages
          page,     \* its state: kind, items, next cursor, newer cursor, more, busy
          active,   \* the search it shows (activeSearch, activeFilters)
          calls,    \* its requests in flight
          epoch,    \* how many cursor lifetimes have passed
          signedIn, \* the owner's session lives
          steady,   \* ghost: rows shown ever since the first page was asked for
          mixed,    \* ghost: two requests of this listing were in flight together
          left      \* what remains of the bounds

vars == <<row, view, dir, page, active, calls, epoch, signedIn, steady, mixed, left>>

Quiet == [stage |-> "idle"]

\* What the client shows while it has no page.
Bare(kind) == [kind |-> kind, items |-> <<>>, next |-> None, newer |-> None,
               more |-> FALSE, busy |-> FALSE]

Listings == {"chats", "people", "search", "tools"}
Messages == {"timeline", "conversation"}

-----------------------------------------------------------------------------
(* The database *)

Readable == {r \in Row : row[r] = "shown"}
Materialized == {r \in Row : row[r] \in {"shown", "private"}}

Found(f) == IF f = NoSearch THEN Row ELSE Matches[f]

\* ORDER BY of the listing, in the direction asked for.
Ascending == {p \in Row \X Row : p[1] < p[2]}
Descending == {p \in Row \X Row : p[2] < p[1]}
Order(d) == IF d = "forward" THEN Ascending ELSE Descending

\* The rows of a set, each at its rank in the order.
Sorted(rows, order) ==
    [i \in 1 .. Cardinality(rows) |->
        CHOOSE r \in rows : Cardinality({x \in rows : <<x, r>> \in order}) = i - 1]

\* A mutated form: the row of the cursor is read again.
PastOrAt(q) ==
    IF q.cursor = None THEN Row
    ELSE {r \in Row : IF q.dir = "forward" THEN r >= q.cursor.after ELSE r <= q.cursor.after}

\* The keyset predicate: the rows strictly past the cursor.
Past(q) ==
    IF q.cursor = None THEN Row
    ELSE {r \in Row : IF q.dir = "forward" THEN r > q.cursor.after ELSE r < q.cursor.after}

\* ORDER BY in the direction asked for, LIMIT one more than the page.
Window(rows, q) ==
    LET ordered == Sorted(rows \intersect Past(q), Order(q.dir))
    IN  SubSeq(ordered, 1, IF Len(ordered) > Limit THEN Limit + 1 ELSE Len(ordered))

ConversationRows(q) == Window(Readable, q)

PersonRows(q) == Window(Readable \intersect Found(q.filter), q)

SearchRows(q) == Window(Readable \intersect Found(q.filter), q)

MediaRows(q) == Window(Readable, q)

EventRows(q) == Window(Readable, q)

\* The first of the two message queries, and the second, which reads the rows
\* the first one named, checks nothing but that they are materialized, and sorts
\* what it found again.
CandidateRows(q) == Window(Readable, q)

HydratedRows(q, ids) == Sorted(Range(ids) \intersect Materialized, Order(q.dir))

-----------------------------------------------------------------------------
(* The read service *)

\* What a cursor is bound to: the read, the direction and the read context.
CursorAt(q, r) == [after |-> r, dir |-> q.dir, filter |-> q.filter, epoch |-> epoch]

\* A cursor is refused after its lifetime, in the other direction or for another read.
Accepted(q) ==
    q.cursor # None =>
        /\ q.cursor.epoch = epoch
        /\ q.cursor.dir = q.dir
        /\ q.cursor.filter = q.filter

Unauthorized == [kind |-> "unauthorized"]
Failed == [kind |-> "error"]

\* A mutated form: the cursor is the row that was only looked ahead at.
PageAtLookahead(q, rows) ==
    LET more == Len(rows) > Limit
    IN  [kind  |-> "page",
         items |-> IF more THEN SubSeq(rows, 1, Limit) ELSE rows,
         more  |-> more,
         next  |-> IF more THEN CursorAt(q, rows[Len(rows)]) ELSE None]

\* The lookahead row only says that there is more; the cursor is the last row shown.
PageOf(q, rows) ==
    LET more == Len(rows) > Limit
    IN  [kind  |-> "page",
         items |-> IF more THEN SubSeq(rows, 1, Limit) ELSE rows,
         more  |-> more,
         next  |-> IF more THEN CursorAt(q, rows[Limit]) ELSE None]

ListConversations(q) == PageOf(q, ConversationRows(q))

ListPeople(q) == PageOf(q, PersonRows(q))

\* A search for nothing is a deterministic empty page.
Search(q) == IF q.filter = NoSearch THEN PageOf(q, <<>>) ELSE PageOf(q, SearchRows(q))

ListMedia(q) == PageOf(q, MediaRows(q))

ListTimeline(q) == PageOf(q, EventRows(q))

ListMessages(q, ids) == PageOf(q, HydratedRows(q, ids))

-----------------------------------------------------------------------------
(* The routes: what a request that the session and the cursor let through is *)
(* answered with.  A failing query is Fail, below.                           *)

Guarded(q, reply) ==
    CASE ~signedIn    -> Unauthorized
      [] ~Accepted(q) -> Failed
      [] OTHER        -> reply

ConversationsRoute(q) == Guarded(q, ListConversations(q))

PeopleRoute(q) == Guarded(q, ListPeople(q))

SearchRoute(q) == Guarded(q, Search(q))

\* The list tools of the MCP server, all bound to what a policy lets an agent
\* read; a failing audit write does not fail the call.
ToolReplies(q) ==
    {Guarded(q, reply) : reply \in {ListConversations(q), ListMedia(q), ListTimeline(q)}}

Replies(q) ==
    CASE view = "chats"  -> {ConversationsRoute(q)}
      [] view = "people" -> {PeopleRoute(q)}
      [] view = "search" -> {SearchRoute(q)}
      [] view = "tools"  -> ToolReplies(q)

Answered(q, reply) == [stage |-> "answered", query |-> q, reply |-> reply]

\* The server answers a request for a listing: one statement, one snapshot.
Serve(s) ==
    /\ calls[s].stage = "sent" /\ view \in Listings
    /\ \E reply \in Replies(calls[s].query) :
          calls' = [calls EXCEPT ![s] = Answered(@.query, reply)]
    /\ UNCHANGED <<row, view, dir, page, active, epoch, signedIn, steady, mixed, left>>

\* The messages route (and the tool get_conversation) reads the candidates...
Candidates(s) ==
    LET q == calls[s].query IN
    /\ calls[s].stage = "sent" /\ view \in Messages
    /\ calls' = [calls EXCEPT ![s] =
                   IF signedIn /\ Accepted(q)
                   THEN [stage |-> "candidates", query |-> q, ids |-> CandidateRows(q)]
                   ELSE Answered(q, Guarded(q, Failed))]
    /\ UNCHANGED <<row, view, dir, page, active, epoch, signedIn, steady, mixed, left>>

\* ... and then their contents, in a statement of its own.
Hydrate(s) ==
    LET q == calls[s].query IN
    /\ calls[s].stage = "candidates"
    /\ calls' = [calls EXCEPT ![s] = Answered(q, ListMessages(q, @.ids))]
    /\ UNCHANGED <<row, view, dir, page, active, epoch, signedIn, steady, mixed, left>>

\* A query fails (500), or the browser's fetch does.
Fail(s) ==
    /\ calls[s].stage \in {"sent", "candidates"} /\ left.faults > 0
    /\ calls' = [calls EXCEPT ![s] = Answered(@.query, Failed)]
    /\ left' = [left EXCEPT !.faults = @ - 1]
    /\ UNCHANGED <<row, view, dir, page, active, epoch, signedIn, steady, mixed>>

-----------------------------------------------------------------------------
(* The clients *)

FreeSlots == {s \in Slot : calls[s].stage = "idle"}

Query(f, cursor, d) == [filter |-> f, cursor |-> cursor, dir |-> d]

Sent(q) == [stage |-> "sent", query |-> q]

\* Sends a query, n times at once, in free slots; a first page restarts the
\* ghosts when nothing else is in flight.
Send(q, n) ==
    /\ \E slots \in SUBSET FreeSlots :
          /\ Cardinality(slots) = n
          /\ calls' = [s \in Slot |-> IF s \in slots THEN Sent(q) ELSE calls[s]]
    /\ LET quiet == FreeSlots = Slot
           fresh == q.cursor = None
       IN  /\ mixed' = (n > 1 \/ ~quiet \/ (mixed /\ ~fresh))
           /\ steady' = IF fresh THEN Readable \intersect Found(q.filter) ELSE steady
    /\ UNCHANGED <<row, view, dir, epoch, signedIn>>

Ask(q, n) ==
    /\ left.asks > 0
    /\ left' = [left EXCEPT !.asks = @ - 1]
    /\ Send(q, n)

\* "Load more": one page further, the button disabled while it loads.
LoadMore ==
    /\ view \in {"chats", "people", "search"}
    /\ page.kind = "ready" /\ page.more /\ page.next # None /\ ~page.busy
    /\ page' = [page EXCEPT !.busy = TRUE]
    /\ Ask(Query(active, page.next, "forward"), 1)
    /\ UNCHANGED active

\* "Try again" of the chat list.
RetryConversations ==
    /\ view = "chats" /\ page.kind = "error"
    /\ page' = [Bare("loading") EXCEPT !.busy = page.busy]
    /\ Ask(Query(NoSearch, None, "forward"), 1)
    /\ UNCHANGED active

\* "Try again" of the people list leaves the error, and the button, on the screen.
RetryPeople ==
    /\ view = "people" /\ page.kind = "error"
    /\ Ask(Query(active, None, "forward"), 1)
    /\ UNCHANGED <<page, active>>

SubmitPeople(f) ==
    /\ view = "people" /\ page.kind \in {"ready", "empty"}
    /\ active' = f
    /\ page' = [Bare("loading") EXCEPT !.busy = page.busy]
    /\ Ask(Query(f, None, "forward"), 1)

\* Going through the browser's history restores a search from the URL.
PopState(f) ==
    /\ view = "search" /\ f # NoSearch
    /\ active' = f
    /\ page' = [Bare("idle") EXCEPT !.busy = page.busy]
    /\ Ask(Query(f, None, "forward"), 1)

\* Submitting raises popstate by hand, whose listener loads, and loads again.
SubmitSearch(f) ==
    /\ view = "search"
    /\ active' = f
    /\ page' = [Bare("loading") EXCEPT !.busy = page.busy]
    /\ Ask(Query(f, None, "forward"), IF f = NoSearch THEN 1 ELSE 2)

LoadOlder ==
    /\ view = "timeline"
    /\ page.kind = "ready" /\ page.more /\ page.next # None /\ ~page.busy
    /\ page' = [page EXCEPT !.busy = TRUE]
    /\ Ask(Query(NoSearch, page.next, "backward"), 1)
    /\ UNCHANGED active

LoadNewer ==
    /\ view = "timeline"
    /\ page.kind = "ready" /\ page.newer # None /\ ~page.busy
    /\ page' = [page EXCEPT !.busy = TRUE]
    /\ Ask(Query(NoSearch, page.newer, "forward"), 1)
    /\ UNCHANGED active

\* The grouping controls report a merge or an unmerge: the timeline starts over,
\* whatever is in flight, and whatever it shows by the time they have their answer.
\* They came with the timeline, and one that has asked for more has been shown.
Regroup ==
    /\ view = "timeline" /\ (page.kind = "ready" \/ left.asks < MaxAsks)
    /\ page' = [Bare("loading") EXCEPT !.busy = TRUE]
    /\ Ask(Query(NoSearch, None, "backward"), 1)
    /\ UNCHANGED active

\* The agent follows the cursor, or starts over; one call at a time.
CallTool ==
    /\ view \in {"tools", "conversation"} /\ FreeSlots = Slot
    /\ \/ /\ page.next # None
          /\ Ask(Query(NoSearch, page.next, dir), 1)
          /\ UNCHANGED page
       \/ /\ page.kind # "loading"
          /\ page' = Bare("loading")
          /\ Ask(Query(NoSearch, None, dir), 1)
    /\ UNCHANGED active

\* A list takes a page for the first one when it was asked for without a cursor,
\* and when it shows no page to append to.
ListAfter(q, reply) ==
    IF q.cursor = None \/ page.kind # "ready"
    THEN IF reply.items = <<>> THEN Bare("empty")
         ELSE [Bare("ready") EXCEPT !.items = reply.items, !.next = reply.next, !.more = reply.more]
    ELSE [page EXCEPT !.items = @ \o reply.items, !.next = reply.next, !.more = reply.more,
                      !.busy = FALSE]

ConversationsAfter(q, reply) ==
    IF reply.kind = "page" THEN ListAfter(q, reply) ELSE Bare(reply.kind)

PeopleAfter(q, reply) ==
    IF reply.kind = "page" THEN ListAfter(q, reply) ELSE Bare("error")

SearchAfter(q, reply) ==
    IF reply.kind = "page" THEN ListAfter(q, reply) ELSE Bare(reply.kind)

\* compareMessages: by sentAt, and a message without one comes first.
ClientOrder ==
    {p \in Row \X Row : IF p[1] \in Undated THEN p[2] \notin Undated \/ p[1] < p[2]
                                          ELSE p[2] \notin Undated /\ p[1] < p[2]}

\* A mutated form: everything is kept.
KeptAll(ordered, d) == ordered

\* The window keeps the side that was paged to.
Kept(ordered, d) ==
    IF Len(ordered) <= Retain THEN ordered
    ELSE IF d = "backward" THEN SubSeq(ordered, 1, Retain)
    ELSE SubSeq(ordered, Len(ordered) - Retain + 1, Len(ordered))

MergeTimelinePage(q, reply) ==
    LET ordered == Sorted(Range(page.items) \union Range(reply.items), ClientOrder)
        merged  == [page EXCEPT !.items = Kept(ordered, q.dir)]
    IN  IF q.dir = "backward"
        THEN [merged EXCEPT !.next = reply.next, !.more = reply.more,
                            !.newer = IF reply.next # None /\ page.items = <<>> THEN reply.next ELSE @]
        ELSE [merged EXCEPT !.newer = reply.next]

TimelineAfter(q, reply) ==
    IF reply.kind = "page"
    THEN [MergeTimelinePage(q, reply) EXCEPT !.kind = "ready", !.busy = FALSE]
    ELSE [page EXCEPT !.kind = reply.kind, !.busy = FALSE]

\* The agent keeps what it has and its cursor when a call fails.
AgentAfter(q, reply) ==
    IF reply.kind # "page" THEN [page EXCEPT !.kind = reply.kind]
    ELSE [page EXCEPT !.kind = "ready", !.items = @ \o reply.items,
                      !.next = reply.next, !.more = reply.more]

PageAfter(q, reply) ==
    CASE view = "chats"    -> ConversationsAfter(q, reply)
      [] view = "people"   -> PeopleAfter(q, reply)
      [] view = "search"   -> SearchAfter(q, reply)
      [] view = "timeline" -> TimelineAfter(q, reply)
      [] OTHER             -> AgentAfter(q, reply)

\* An answer reaches the client, in whatever order the answers come.
Receive(s) ==
    /\ calls[s].stage = "answered"
    /\ page' = PageAfter(calls[s].query, calls[s].reply)
    /\ calls' = [calls EXCEPT ![s] = Quiet]
    /\ UNCHANGED <<row, view, dir, active, epoch, signedIn, steady, mixed, left>>

-----------------------------------------------------------------------------
(* What goes on meanwhile *)

Succeeds(from) ==
    CASE from = "absent"  -> {"shown"}             \* an import back-fills it
      [] from = "shown"   -> {"private", "retired"} \* a policy, an exclusion
      [] from = "private" -> {"shown"}
      [] from = "retired" -> {"shown"}

\* A policy covers the whole conversation, so all of its messages.
Affected(r, to) == IF view \in Messages /\ "private" \in {row[r], to}
                   THEN {x \in Row : row[x] = row[r]} ELSE {r}

Change ==
    /\ left.changes > 0
    /\ \E r \in Row : \E to \in Succeeds(row[r]) :
          /\ row' = [x \in Row |-> IF x \in Affected(r, to) THEN to ELSE row[x]]
          /\ steady' = steady \ Affected(r, to)
    /\ left' = [left EXCEPT !.changes = @ - 1]
    /\ UNCHANGED <<view, dir, page, active, calls, epoch, signedIn, mixed>>

\* A day passes: every cursor issued so far is too old.
CursorsExpire ==
    /\ left.faults > 0 /\ epoch = 0
    /\ epoch' = 1
    /\ left' = [left EXCEPT !.faults = @ - 1]
    /\ UNCHANGED <<row, view, dir, page, active, calls, signedIn, steady, mixed>>

SessionEnds ==
    /\ left.faults > 0 /\ signedIn
    /\ signedIn' = FALSE
    /\ left' = [left EXCEPT !.faults = @ - 1]
    /\ UNCHANGED <<row, view, dir, page, active, calls, epoch, steady, mixed>>

-----------------------------------------------------------------------------

\* A client asks for its first page when it appears; a search panel only when
\* the URL it was opened with holds a search.
Opening(v, d, f) ==
    IF v = "search" /\ f = NoSearch THEN Quiet ELSE Sent(Query(f, None, d))

Init ==
    /\ row \in [Row -> {"absent", "shown"}]
    /\ view \in Views
    /\ dir \in CASE view = "timeline"               -> {"backward"}
               [] view \in {"tools", "conversation"} -> {"forward", "backward"}
               [] OTHER                              -> {"forward"}
    /\ active \in IF view = "search" THEN Filter ELSE {NoSearch}
    /\ page = [Bare(IF view = "search" THEN "idle" ELSE "loading") EXCEPT !.busy = view = "timeline"]
    /\ \E first \in Slot :
          calls = [s \in Slot |-> IF s = first THEN Opening(view, dir, active) ELSE Quiet]
    /\ epoch = 0 /\ signedIn = TRUE
    /\ steady = Readable \intersect Found(active)
    /\ mixed = FALSE
    /\ left = [changes |-> MaxChanges, asks |-> MaxAsks, faults |-> MaxFaults]

Next ==
    \/ \E s \in Slot : Serve(s) \/ Candidates(s) \/ Hydrate(s) \/ Fail(s) \/ Receive(s)
    \/ LoadMore
    \/ RetryConversations
    \/ RetryPeople
    \/ \E f \in Filter : SubmitPeople(f) \/ PopState(f) \/ SubmitSearch(f)
    \/ LoadOlder
    \/ LoadNewer
    \/ Regroup
    \/ CallTool
    \/ Change
    \/ CursorsExpire
    \/ SessionEnds

Spec == Init /\ [][Next]_vars

-----------------------------------------------------------------------------
(* Properties *)

Cursor == [after : Row, dir : {"forward", "backward"}, filter : Filter, epoch : {0, 1}]

\* Every variable has its type; the timeline never holds more than its window,
\* and a list that shows something shows the first page at least.
TypeOK ==
    /\ row \in [Row -> {"absent", "shown", "private", "retired"}]
    /\ page.kind \in {"idle", "loading", "ready", "empty", "error", "unauthorized"}
    /\ page.items \in Seq(Row)
    /\ {page.next, page.newer} \subseteq Cursor \union {None}
    /\ view = "timeline" => Len(page.items) <= Retain
    /\ view \in {"chats", "people", "search"} /\ page.kind = "ready" => page.items # <<>>
    /\ \A s \in Slot : calls[s].stage \in {"idle", "sent", "candidates", "answered"}

Before(a, b) == IF dir = "forward" THEN a < b ELSE b < a

\* A list built page by page shows no row twice and in the order of the listing;
\* it skips no row that was there all along, and when it says that there is no
\* more, every such row is in it.  The clients' requests must not have been in
\* flight together (reads.ts page, conversation-list.tsx load, tools.ts pageArgs).
\* Where messages are read by two queries, the end may be announced too early.
ListExact ==
    view # "timeline" /\ page.kind = "ready" /\ ~mixed =>
        /\ \A i, j \in DOMAIN page.items : i < j => Before(page.items[i], page.items[j])
        /\ \A r \in steady :
              \/ r \in Range(page.items)
              \/ \A i \in DOMAIN page.items : Before(page.items[i], r)
        /\ ~page.more /\ view \in Listings => steady \subseteq Range(page.items)

\* The timeline's window has no hole: a message that was there all along and
\* lies between two dated messages on the screen is on the screen, whatever was
\* paged to, cut off, imported or excluded (message-timeline.tsx
\* mergeTimelinePage), unless the timeline was started over during a request.
TimelineContiguous ==
    view = "timeline" /\ page.kind = "ready" /\ ~mixed =>
        \A r \in steady : \A a, b \in Range(page.items) \ Undated :
            a < r /\ r < b => r \in Range(page.items)

\* "paging both directions has no duplicate/skip" (docs/stories/EH-07.md:37):
\* the cursor a page came with is good for the next request it is sent with.
CursorsFollowable ==
    \A s \in Slot :
        (/\ calls[s].stage = "sent" /\ calls[s].query.cursor # None
         /\ calls[s].query.cursor.epoch = epoch) => Accepted(calls[s].query)
=============================================================================
