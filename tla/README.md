# EchoHoard: a TLA+ model of its queues, its owner's decisions and its readers

EchoHoard archives WhatsApp conversations. A web process (Next.js) takes uploads,
signed live events, sign-ins and requests of an owner; one or more worker
processes decrypt and import uploaded snapshots and normalise live events; a
sidecar (`container/wacli/control.mjs`) holds the linked devices. They share
PostgreSQL and a disk and talk through nothing else but one signed HTTP endpoint
and the sidecar's control endpoint.

The source is read at `src/src/` (TypeScript), `src/prisma/` and `src/container/`;
all paths below are relative to `src/src/` unless they begin with `prisma/`,
`docs/` or `container/`.

## 1. Inventory

| Part | State it keeps | Operations | What is hard | What makes it correct |
|---|---|---|---|---|
| Import queue (`application/intake.ts`, `infrastructure/db/worker-persistence.ts`, `worker/composition.ts`) | `ImportJob.status, leaseId, leaseExpiresAt, retryable`; work directories; in each process the current run | list, acquire, renew, mark*, release, recoverExpired; prepare, decrypt, adapt, import, cleanup | several workers; leases that expire under a live runner; abandoned operations; crashes between any two statements; failing statements | one commit per job; the lease in force is respected; no job and no plaintext is forgotten |
| Live inbox (`application/live-event-intake.ts`, `infrastructure/db/prisma-persistence.ts` 150-380, `worker/composition.ts` 87-148) | `LiveEventInbox.status, claimId, claimExpiresAt, attempts` | enqueue, claimPending, normalize, failClaim | one unrenewed claim for a batch; attempts counted at the claim; poison receipts | one import per receipt; verdicts justified; every receipt settles |
| Import transaction (`infrastructure/db/text-import.ts`) | observations, messages, links, attachments, `materialized` flags | import of a snapshot or of one live event | fences inside the transaction; eligibility of an earlier exclusion read while it changes | the rows shown are those some eligible job still observes |
| Import exclusion (`application/import-exclusion.ts`, `infrastructure/db/import-exclusion.ts`) | `ImportJob.eligibility`, `MaterializationRun`, `materialized` flags, preferred observations | plan, apply (exclude or restore) | applies of two jobs at once; retries under one idempotency key; failures recorded outside the transaction | a flag is true exactly when an eligible observation remains |
| Conversation grouping (`application/conversation-grouping.ts`, `infrastructure/db/conversation-grouping.ts`) | `unifiedConversationId` of each source chat, `groupingVersion`, audit | merge, unmerge | concurrent merges of one source; retries looked up outside the transaction; imports of a chat that is merged meanwhile | each decision is applied once, on the version it was made for; the audit explains the groups |
| Privacy policy (`application/conversation-privacy.ts`, `infrastructure/db/prisma-persistence.ts` 432-518, `infrastructure/db/ui-privacy.ts`) | `uiVisibility, mcpAccess` of a conversation, audit | set, and the predicates of every read | a policy set before, during and after a merge; read-modify-write under READ COMMITTED | what is merged should be as private as its most private part (a chain of merges is not, section 3) |
| Owner deletion (`application/owner-deletion.ts`, `infrastructure/db/owner-deletion.ts`) | tombstones, versions and audit | delete, restore | replay check before the lock | one deletion per key, and a retry gets its answer |
| Sign-in and sessions (`infrastructure/auth/oidc.ts`, `infrastructure/auth/sessions.ts`, `delivery/web/auth.ts`) | sessions, admitted identities and their roles | callback, approve, logout, expiry | two first sign-ins | one administrator; a session only for an admitted identity |
| Step-up unlock (`application/auth.ts`, `infrastructure/auth/unlocks.ts`) | challenges, grants | begin, callback, relock, expire, logout, guarded reads | awaits between consuming a challenge and creating a grant; callbacks that arrive twice | one grant per challenge; nothing is read by a grant that a relock or a logout ended |
| Pairing (`application/account-pairing.ts`, `container/wacli/control.mjs`) | pairing sessions, account locks; in the sidecar the pairing process and the cancellation in progress; followers, `liveEnabled` | begin, status, prune, expire; pair, cancel; pause, resume, startFollow, stopFollow | awaits in two processes; client timeouts of calls that go on; restarts | a session shown as expired cannot link any more; nobody waits for ever; one follower per account |
| Reads (`application/reads.ts`, `infrastructure/db/prisma-persistence.ts` 640-1328) and the clients that page (`delivery/web/components/`, `delivery/mcp/tools.ts`) | signed cursors; in the client the rows shown, two cursors, requests in flight | list conversations, people, messages, media, events; search; load more, older, newer, retry, regroup | rows that come, go and are hidden between two pages; answers out of order; a window that drops rows | no row skipped or doubled; no hole in the timeline |
| Transcription (`application/transcription-catalog.ts`, `infrastructure/litellm/`) | the cached catalog, the selected model; of a call its directory, converter, connection and timer | read and select the model; transcribe | timers against late answers; overlapping discoveries; a name that resolves differently | a call ends and leaves nothing; connections are private; the cache is fresh |
| Intake (`application/echohoard.ts`, `infrastructure/files/index.ts`) | inbox files, claimed copies, published snapshots, jobs | settle, claim, create | two creators of one hash; sources that change | one job per hash; no published half file |
| MCP sessions (`delivery/mcp/index.ts`) | transports by session, an admission chain | open, use, expire, evict, close | a session evicted with a request in flight; a close that hangs | the limit holds; a live session is not closed |
| Statistics, health, adapters, media, configuration | none | queries, parsing, content-addressed files | — | — |

How they interact: a chat that is imported resolves the conversation it is grouped
under; exclusions, policies, groupings and deletions rewrite or filter the same rows; reads are
filtered by the policy of the group and by the grants of the session; a live
feed exists for an account that was paired. All of it goes through rows, so the
modules meet in the rows they name: `Materialization` and `Curation` in `Conversation`,
`Curation` and `Access` in the predicates of `ui-privacy.ts`, `Browsing` in the changes
its rows undergo.

## 2. The modules

| Module | Models |
|---|---|
| `ImportJobLifecycle` | abstract: what the queue promises about a job, with no lease, worker or file: the table of transitions, and the requeue by recovery that leaves it |
| `ImportJobQueue` | the import queue: rows, disk, workers, abandoned operations |
| `MCImportJobQueue` | its instance for TLC (symmetry) |
| `ImportJobQueue_proofs` | the theorems about it |
| `LiveInbox` | the live inbox and the loops that normalise it |
| `MCLiveInbox` | its instance for TLC |
| `LiveInbox_proofs` | the theorems about it |
| `Materialization` | the rows of one source conversation: import transactions and exclusions under row locks |
| `MCMaterialization` | its instances for TLC (records, requests, symmetry) |
| `Materialization_proofs` | the theorems about it |
| `Pairing` | pairing sessions of the web process, composed with the pairing calls of the sidecar |
| `Curation` | grouping, policies, owner deletion and the disclosure they lead to, with imports meanwhile |
| `Access` | admission, sessions, unlock challenges and grants, relock, logout, guarded reads |
| `Browsing` | cursors, queries and paging clients over rows that change |
| `Transcription` | the model catalog and its settings; a transcription, its resources and timers |
| `MCPairing`, `MCCuration`, `MCAccess`, `MCBrowsing`, `MCTranscription` | their instances for TLC |
| `Pairing_proofs`, `Curation_proofs`, `Access_proofs`, `Browsing_proofs`, `Transcription_proofs` | the theorems about them |

### ImportJobQueue

*Atomicity.* One SQL statement or one transaction of the code is one step. Each of
them is fenced in its own WHERE clause, so nothing finer can be seen. An `await`
in a worker is the boundary of two steps.

*Rows.* `status`, `lease` and `retryable` are the columns. `leaseExpiresAt` only
matters as "later than the clock": `live`. The count of committed outcomes,
`effects`, is history the import transaction (or `markCompleted` of the
decrypt-only runner) increments.

*A run.* `pc[w]` is the statement the worker does next. `RowStep` is every fenced
statement: `From` and `To` are the WHERE and SET clauses of `mark*` and of the
import's own fence. A statement that finds the fence closed throws
`LeaseFenceError`, which ends the run (`Go(w, "cleanup")`).

*The life cycle.* `ImportJobLifecycle` has the eight statuses and the table
`jobTransitions` (`application/echohoard.ts:95-104`) as `Move`. `recoverExpired`
(`worker-persistence.ts:271-285`) does not keep to that table: it requeues a job
from every active status, the table lets only a leased or a failed one go back to
queued. That step is an action of its own, `Requeue`, so that `ImplementsLifecycle`
says what is true: each step of the queue is one of the table, or recovery's.
That the table alone is not kept is `FollowsJobTransitions` in section 3.

*LeaseMonitor.* The heartbeat is not an action of its own: with the default
configuration (a lease of 300 s, a heartbeat of 30 s) a heartbeat that is not
disturbed keeps the lease live, so `Expire(j)` requires that nobody supervises
the lease, except under the disturbance "stall". A refused renewal and its late
answer are `RenewRefused` and `Lose`. `Promise.race` abandons what the runner
was awaiting: `Lose` moves it to `orphans`, from which `OrphanActs` or
`OrphanDies` may take effect at any later time.

*Recovery.* `RecoverExpired` requeues every expired active row, `Sweep` removes
the directories one at a time and may fail between them; both happen once, at
`Start`, as in `DecryptQueueLoop.start`. Who removes a work directory removes the job's
own directory too once it is empty, perhaps between the two `mkdir`s of another worker's `prepare`:
`SiblingRemoved` is this reason for `prepare` to fail, besides "fs".

*The environment.* `Disturbances` names what it may do, so that each run chooses
and the properties that hold only without some disturbance say so:
`crash`, `restart` (a worker back before the killed one's lease has run out),
`stop`, `stall`, `db`, `fs`, `job`.

*Abstraction.* The content of databases and messages, progress counters, error
codes (only their being retryable), and logging are left out. Lease ids are
reused once nobody can remember them (`FreshLeases`), which keeps the state
finite without a bound on the number of leases.

### LiveInbox

`status`, `attempts`, `claim` and `current` ("claimExpiresAt is later than the
clock") are the columns; `Enqueue` is the intake with its duplicate check and its
bound; `ClaimPending` is the UPDATE of `claimPending` and `ReadClaims` the SELECT
that follows it; `Normalize` and `Import` are the two halves of `normalize` that
a claim can change hands between; `FailClaim` is `failClaim`. `Poison` are the
receipts that do not parse. An expired claim may be taken over even from a worker
that is still at its batch (`slow`), since nothing renews a claim. `NormalizeFails` is the SELECT of
`normalize` failing, which is retryable even for a poison receipt. `attempts`
stops at one more than the maximum, which no guard tells from any larger number.

### Materialization

An import (`infrastructure/db/text-import.ts`) is one transaction of many
statements, applying an exclusion or a re-enabling
(`infrastructure/db/import-exclusion.ts`) a lookup, a statement, a transaction and,
if that fails, another statement. PostgreSQL runs the transactions under READ COMMITTED, so the
module has the statements between which another transaction's commit, or a wait for a lock, can
be seen, and groups those between which it cannot.

*State.* `eligible` is `ImportJob.eligibility`; `observed[j]` the observation rows of
job `j`, all of one eligibility; `conversation` and `rows` the
`Conversation` and `Message` rows with their `materialized` flag, the import their body is
from, and whether they are source-deleted; `runs` and `decisions` the
`MaterializationRun` and `ImportEligibilityDecision` rows of each idempotency
key. `pending` and `draft` are a transaction's uncommitted rows, `seen` the eligible
jobs it has read.

*Locks*, each held from the statement that takes it until the transaction ends:

| Row | An import takes it | A decision takes it |
|---|---|---|
| `Conversation` | with its upsert, if it inserts or is eligible (`text-import.ts:711`) | with its update (`import-exclusion.ts:379`) |
| `SourceConversation` | with its upsert (`text-import.ts:729`) | — |
| `ImportJob` | shared, with the first observation it inserts, through its foreign key (`text-import.ts:752`) | `FOR UPDATE`, first (`import-exclusion.ts:138`) |

`WaitsFor` is this table. A cycle of waits ends as PostgreSQL ends it, by one of the
transactions failing (`Deadlocked`), and the two orders in which imports and
decisions take the locks do produce cycles.

*A call.* `FindRun` and `StartRun` are outside the transaction; `LockJob` to
`CommitApply` are in it; `Answered` and `Unanswered` tell whether the caller learns of the commit;
`Catch` is the statement of the `catch` block. `Preferred` is
`selectPreferredObservation`: a backup before a live source, then the later
one. `Rebuilt` is what `rematerializeMessages` writes.

*Environment.* `error` fails a statement or transaction, `crash` kills a process, `silence` loses
the answer to a commit. A failed import is tried again.

*Abstraction.* One source conversation, imported at most once successfully by each job, each
job saying one thing of a message: nothing, a body, no body, or a tombstone
(without a body). Rows have one field besides the flags, the body; titles, senders,
times, revisions, reactions, attachment links and digests are left out.
Writing all messages of a job is one step although there are many
statements: `OneWriter` says that nobody else is at a message of that conversation meanwhile, and what is
uncommitted nobody reads. Two assumptions about what is not in the repository: an upsert
with an empty `update` locks no existing row, and the isolation level is PostgreSQL's
default, since no code sets another.

### Pairing

The web process serialises the requests of an account with a chain of promises (`lock`: who is
queued, in order), which its first request leaves by a return or a throw (`Leave`). The sidecar
serialises nothing: `pair` and `cancelPairing` run as `call`s, interleaved at each
`await`, whether or not their client still waits. `Expire` shares the cancellation another request
of the web process awaits; `RunCancel` joins the one that runs in the sidecar. These two ways
of sharing, with `canc`, `cancelled` and `pairProc`, are where the orders differ.

| Code | Model |
|---|---|
| `begin`, `status`: lock, prune, health, expire own sessions, pair, follow | `Begin`, `Status`, then `RequestStep` |
| `pair`: stop, wait, cancel, prepare, spawn, read the QR code | `Pair`, `PairCheck`, `Spawn`, `QrRead` |
| `cancelPairing`, `cancelPairingNow` | `Cancel`, `RunCancel`, `CloseSeen`, `Verify`, `EndCancel` |
| the client's ten seconds | `Timeout`: the request fails, the call goes on |
| the process gets the account linked, also one told to end, until it has ended (`terminate` gives it five seconds) | `Link`, `Close` |
| both processes die and come back | `WebRestart`, `SidecarRestart` |

The age of a session counts lifetimes: over one it is overdue, over two it is
dropped. Health and follower calls only answer or fail. *Not modelled*: followers,
pause, resume and `liveEnabled`. `overlap` is a ghost: a client that gave up on a `pair` and asked
again has two running in the sidecar, each of which spawns a process although one field is kept.
`ExpiredMeansStopped` does not speak of behaviours in which that happened.

### Curation

`row` has the policy, `groupingVersion` and the deletion of a conversation; `group` says under
which conversation a chat is presented, `holds` to which conversations its messages
were written. `Presentation`, `PolicyGroup`, `OrdinaryReads`, `McpReads` and `MayGroup` are the
SQL predicates of `ui-privacy.ts`, with the join they go through.

A request is the statements of the code: a grouping looks its key up
(`GroupLookup`), locks and reads (`GroupRead`), and commits (`GroupCommit`); a policy is read and
written back (`PolicyRead`, `PolicyWrite`); a deletion is looked up, committed, and after
a failure looked up again (`DeleteLookup`, `DeleteCommit`, `AfterFailure`). An import resolves the
conversation of a chat and writes to it later (`ImportRead`, `ImportWrite`). Whoever holds a conversation
row makes the others wait (`RowFree`), imports too. A transaction may abort at any statement.

`GroupRead` locks the row of the target alone. The statement names the chats' ids
too (`conversation-grouping.ts:103-108`), but looks them up in `Conversation`, and these are ids of
`SourceConversation`: names hashed with "source-conversation" (`text-import.ts:740-745`) or random ones
(`prisma/migrations`), so that no row has them. The model reads the chats' groups unlocked, which is
what makes the overlap of two merges of one chat interesting. `groupingLocked` is checked and set nowhere.

The bound `Mixes` names the operations a behaviour consists of, as all of them together
are too many states: groupings among themselves; policies and deletions among themselves;
and groupings beside imports. The last has "alone", one request of the owner at a time: what is at
stake there is a grouping and an import that overlap (with two requests it holds as well, 1.8 million
states, but takes longer than a run should).

### Access

`slot` are the requests the web process serves, a step each query or
transaction. `admission` is the advisory lock of `lockAdmission`. A challenge is open, consumed or dead,
a grant of it live or dead; "dead" is expired, revoked or deleted, which no
query tells apart. `shut` is history: the challenges, with the grants made of them, that a relock, a logout
or a restart of the process (`runtimeId`) has ended. `UnlockCallback`, `ConsumeChallenge`,
`GrantCheck` (first the session, then the policy) and `CreateGrant` are the awaits of `completeUnlock`
between which another request may do any of that. The exchange with the identity provider may yield any identity or fail; what
it signs is not modelled. The run has one session (a named bound): grants are compared with the
session they belong to, in one place (`Covers`).

### Browsing

A row is its place in the listing's order, so that a cursor is a place and the
keyset predicate a comparison; the run takes five places and pages of two, which has a page with
and without a successor on either side of a cursor. `Change` is what an import, an exclusion or
a policy does to a row. Messages are read in two queries (`Candidates`, `Hydrate`), between which
rows change, everything else in one. `CursorAt` and `Accepted` are `CursorCodec`: a cursor
is bound to the direction, the read and a lifetime.

The clients are the components: what a button sends and when it is enabled
(`LoadMore`, `LoadOlder`, `RetryPeople`, ...), and what an answer makes of the state (`ListAfter`,
`MergeTimelinePage`). Answers come in any order. The timeline keeps `Retain` rows (three,
300 in the code), sorted on the client by `sentAt`, where a message without one comes first.
`Regroup` starts over whatever is in flight or failed, once the timeline has been shown.
A request takes any free slot, so slots are interchangeable (the symmetry of `MCBrowsing`).

ORDER BY and the client's sort are `Sorted`, which puts each row of a set at its rank in the
order: a definition without recursion, of which the proofs show that it does sort. The
second message query finds its rows in no particular order and sorts them again
(`HydratedRows`), as `prisma-persistence.ts:1089` does.

`mixed` is a ghost: requests of one listing in flight together. The search panel submits
twice, the people list's retry can be pressed twice, and a regrouping starts over beside a page
in flight; what is shown then may be a mixture, and the two list properties say nothing of it. `steady` are the rows that were
shown since the first page was asked for: what a reader may count on.

### Transcription

A call is a settings request or a transcription, `pc` the await it is at. `GetSelected` is the
read of the row together with the synchronous look at the cache; `Lookup`, `Connect`,
`Respond`, `Body` are the request both kinds make, the one in `catalog.ts` under
`AbortSignal.timeout`, the other in a race with a timer (`Timeout`). A transcription
has a directory, a converter and a connection, each a field of its record, which the
`finally` block, `runProcess` and the abort handler end. An answer that is refused by its status or
its length is not read and its connection not closed: "unread", until the server ends it (`LinkEnds`).
A catalog is what the server lists when it writes the body (`Listing`), which may be after the
headers; JSON that is no catalog is read as an empty one and cached like any other (`Body`, `catalog.ts:81-89`). The resolver answers with any set
of addresses at any time: all have to be private, and the connection goes to the one
that was checked.

Two named bounds: a transcription is the only call of its behaviour (`Apart`), because it shares
nothing with a settings request; two faults. `was` and `since` are history for
`CatalogFresh`. Nothing in the repository's composition calls the adapter
yet, only its tests; the catalog and the settings are in use. *Not modelled*: the
precedence of manual transcripts, and a crash of the process, after which
directories remain.

## 3. The runs

| Run | Bounds | Question | Result |
|---|---|---|---|
| `jobs_takeover` | 2 workers, 1 job, 2 leases; crash, restart, stall, fs, job | can a stale runner, an abandoned operation or a recovery commit twice, strand a job, or leave the life cycle (the table, or a requeue by recovery)? | no |
| `jobs_database` | 2 workers, 1 job, decrypt only; stall, stop, db, job | is the lease in force left alone when statements fail or commit without an answer? does a fence error mean that the lease was lost? | yes; but for `markFailed` after a failed `markLeased`; no plaintext is orphaned without a crash |
| `jobs_recovery` | 1 worker, 4 jobs, the oldest without a snapshot, batches of 2; crash (one at a time, `KilledApart`), stop; fair | is every queued job taken up, although one fails for ever? is every active job moved on? | yes |
| `inbox_claims` | 2 workers, 2 receipts (one poison), 2 claims, 2 attempts; crash, slow, transient, db | can two holders import twice, or a verdict be unjustified? | no |
| `inbox_progress` | 1 worker, 2 receipts (the older poison), 2 attempts, batches of 1; crash, transient, stop; fair | is every accepted receipt settled? | yes |
| `exclusion` | a backup and a live import, 2 messages, 2 callers, 3 requests; error, crash, silence | do messages show what the eligible imports observed, whatever overlaps, fails and is retried? | yes |
| `pairing` | 1 account, 2 requests, 2 sessions, 2 processes, 2 calls, 1 fault or restart | can a session shown as expired still link? does anybody wait for ever? | no |
| `curation` | 2 conversations, 2 requests, 2 keys of each kind, 1 policy change | do the logs explain the state? is a chat only where a merge put it? is a retried deletion answered? | yes |
| `access` | 2 people, 1 session, 2 challenges, 2 requests, 1 restart | one administrator? one grant per challenge? is what was shut still read? | yes, yes, no |
| `browsing` | 5 rows, pages of 2, a window of 3, 2 requests in flight, 3 requests after the first, 1 change, 1 fault; six clients | is a row skipped or doubled, has the timeline a hole? | no |
| `browsing_newer` | the same, the timeline only | can the newer side be fetched again? | **violated** |
| `transcription` | 2 calls, 2 models (1 allowed), 2 addresses (1 private), 2 moments and a time to live of 1, 1 change of the list, 2 faults; fair | does every call end, leave nothing, connect privately? is the cache fresh? | yes |

Two workers are enough for every conflict the code has, since every conflict is
between the holder of a lease and one other actor; jobs share nothing but the
batch, so more than one is there only in the run about liveness. Two
lease ids are one in force and one remembered by somebody who lost it. In `jobs_recovery` four jobs
compete for two places in a batch, and one of them takes a place in each for ever: the most that
`QueueProgress` allows. With a second worker beside the failing job and without crashes, three jobs and three
leases, it holds as well (0.1 million states). A worker is killed there as often as it likes, but in a run
only if what an earlier one left is gone (`KilledApart`).

In `exclusion` the three requests exclude the backup, take that back, and exclude the
live import: two decisions about one job, two about jobs that share messages, and an
import in progress beside each. A second backup (`ThreeSources`) adds the choice between two
preferred bodies and a record without content; that instance has 0.8 million states
without "error" and holds as well, but takes longer than a run should.

In `pairing` two requests and two calls are what sharing needs: one that runs and one that joins, with
the second session the one that replaces an expired one. In `curation` two requests
are two decisions about the same two conversations, or a decision and its
retry. In `access` the second challenge is the one a relock must not spare. In `browsing` one change
anywhere, at any time, between any two of the four requests already yields every relation of a changing row
to a cursor. In `transcription` a second tick adds only that the cache expires twice.

*Fairness.* `WF` of a worker's loop: the event loop of a live process runs on.
`WF` of `Expire`: time passes, and nothing keeps an unsupervised lease alive. `WF` of
operations in flight: a statement commits or fails. Nothing is assumed of
crashes, restarts or failures, except that the liveness properties
speak of behaviours in which the workers are up from some point on
(`WorkersStayUp`): while the process is killed again and again nothing can be
promised. In `jobs_recovery` restarts happen after the leases have expired.
`transcription` assumes `WF` of what a call does by itself (`Own`): its next
statement, its timers, the end of a child that was sent SIGKILL; nothing of the
server, the resolver or a converter that is not killed.

### What the violated run shows

**browsing_newer**: `docs/stories/EH-07.md:37` asks for paging in both directions, and the
comment at `message-timeline.tsx:110-111` says that the discarded side can be
fetched again. `mergeTimelinePage` keeps the cursor of the first page, which is a
backward one, as `newerCursor`; `loadNewer` sends it with `direction=forward`, and
`CursorCodec.decode` refuses a cursor of the other direction. The first press of
"Load newer messages" ends in the error state.

### Properties the code does not keep

These were found while modelling. The formulas are in the modules, and each is violated within
seconds if it takes the place of the properties in the configuration
named, changed as stated.

| Formula | Configuration | What happens |
|---|---|---|
| `ActiveJobsMoveOn` | `jobs_recovery`, with `Disturbances = {"crash", "restart"}` | `worker/lifecycle.ts:5-7` promises recovery after the lease expires. Recovery runs once, in `start`, and looks for leases that *have* expired: a worker that is back within five minutes (`docker-compose.yml:77`) finds nothing, ever. |
| `NeverStranded` | `jobs_database` | `release` clears the lease whatever the status (`worker-persistence.ts:248`). After two failing statements the job is active without a lease, which neither `listEligible` nor `recoverExpired` looks for; `docs/tasks/EH-10.md:45` asks that stale work be recoverable. |
| `PlaintextOwned` | `jobs_takeover`, with `Disturbances = {"crash"}` | The completing transaction clears the lease, the `finally` block removes the plaintext later; `docs/FEATURE.md:51` promises its removal after success. |
| `AttemptsBounded` | `inbox_claims` | `docs/stories/EHV2-08.md:49` asks for bounded attempts; the branch that takes over expired claims (`prisma-persistence.ts:198`) has no bound. |
| `ConversationShownIffSupported` | `exclusion` | A decision reads the observations of the conversation, waits for the `Conversation` row, which an import holds, and writes what it read before that import committed: the conversation is hidden although an eligible import observes it. Messages are safe because they are read after that wait. |
| `BodyFromEligible` | `exclusion` | An import excluded before it runs inserts the messages it is the first to observe, hidden, with their body. An eligible import without a body makes such a message visible. ADR 0002, section 5, evaluates only eligible observations; the next decision repairs it (`DecisionsRebuild`). |
| `FailuresRecorded` | `jobs_database` | `markLeased` fails without being committed, the row is still queued (or failed) under the runner's own lease. `markFailed` asks for an active status, throws `LeaseFenceError`, and the failure is not recorded (`intake.ts:173-181`, `worker-persistence.ts:158`). The job is listed again after the release. |
| `NoStarvation` | `jobs_recovery`, with `NoSnapshot = {1, 2}` | Two jobs that fail for ever fill every batch of two, since `listEligible` takes the oldest and a retryable failure has no bound (`worker-persistence.ts:58-61`); the others are never taken up. No document excludes it. |
| `FollowsJobTransitions` | `jobs_takeover`, with `Disturbances = {"crash"}` | `docs/stories/EH-03.md:11` asks that invalid transitions fail, and `jobTransitions` (`application/echohoard.ts:95-104`) says which are valid. Only tests call `transitionImportJob`, which enforces the table; the statements of `worker-persistence.ts` have their own conditions, which agree with it but for `recoverExpired` (271-285): a worker dies while it decrypts, and the job goes from decrypting to queued. Without that requeue it would be lost, so it may be the table that should change. |
| `ProtectedSourceStaysProtected` | `curation`, with `Conversation = {c1, c2, c3}`, `Request = {r1}`, `DeleteKey = {d1}` and `Mixes <- OwnerAlone` | `ui-privacy.ts:124-126`: "a normal presentation conversation cannot make a protected source visible"; `docs/stories/EHV2-03.md:74`: the most restrictive policy counts. c3 is merged into c2, c2's chat into c1, then c3 is locked, hidden or denied to agents. c3's messages are read under c2 (`prisma-persistence.ts:970-976`); the predicate presents c2 in its turn under c1, whose policies are those of c1 and of what is merged into c1 directly. c3's own is not among them. |
| `GroupedByOwnerOnly` | `curation` | `docs/V2_FEATURE.md:46`: chats are grouped "by explicit owner action". `conversationStableKey` reads the group of a chat before the import's transaction, and the upsert of the source writes it back (`text-import.ts:749`): a merge or a reversal committed in between is undone, without an audit entry. `ChatsWhereDecided` says what remains: the place was one that a merge had decided. |

The runs also reach states no document speaks of: a job that is excluded while its
observations are eligible; a run marked failed whose decision has been taken, so
that every retry fails; of two concurrent policy changes of different fields one lost
(`prisma-persistence.ts:451`); a grant created after a relock, by a callback that had consumed its
challenge before; a message page that ends early because the last candidate was
retired before the second query; a transcript lost to a failing cleanup.

The comment at `prisma-persistence.ts:271-273`, "A failed adaptation leaves the
receipt pending and therefore retryable", is not what the code does either: such
an error carries `retryable: false` and `failClaim` fails the receipt.
`VerdictsJustified` states what the code does.

## 4. The proofs

### ImportJobQueue

`ImportJobQueue_proofs` proves, for every number of workers, jobs and leases and every
set of disturbances:

| Theorem | States |
|---|---|
| `TypeCorrect` | `[]TypeOK` |
| `CommittedExactlyOnce` | `[]ExactlyOnce` |
| `LifecycleImplemented` | `ImplementsLifecycle`: the queue refines `ImportJobLifecycle`, each status by itself |
| `FenceErrorsExplained` | `[]FenceErrorExplained` |
| `StaleActorsAreHarmless` | `StaleActorsHarmless`, an action property |
| `NoneStrandedWithoutDatabaseErrors` | `[]NeverStranded` if "db" is not a disturbance |
| `DecryptedDataOwned` | `[]PlaintextOwned` if neither "crash" nor "fs" is a disturbance |

The assumptions are the named ones of `ImportJobQueue`; TLC evaluates them in each run.

The argument. `TypeInv` is `TypeOK` with `RunShape` (which of the run's variables
are set at which `pc`). `LeaseInv` adds that no two runners hold one lease
(`HeldOnce`), that an abandoned operation's lease is held by no runner that still
believes in it (`OrphansLost`), and that what a recovery has yet to sweep belongs to no lease
in force (`SweptDead`): freshness of leases makes it inductive, and with it the
fences keep every stale actor off (`StaleActorsAreHarmless`). Under `LeaseInv`,
`AllInStep` says that a runner whose lease is its own has the row in the status its `pc`
expects; it is the strengthening `FenceErrorExplained` needs, because the property speaks
of statements only and the induction passes through the operations between
them. Of `markFailed`, which any failing step leads to, it can only say that the row is active or,
if a statement failed, as `acquire` left it: the exception the property names, and `FailuresRecorded` denies. `StrandInv` adds to `NeverStranded` that a runner about to
release has had its row written (`Answered`), which a failing statement breaks: that is why
the theorem has its hypothesis. `DataInv` says the same of the plaintext as `PlaintextOwned`, with the
run that owns it (`DataOwned`), and of an abandoned decryption that its run has yet
to clean up if its directory is there (`LateDecryptOwned`); for that, no abandoned preparation may bring
the directory back, which is so because a run abandons one operation at most (`OneOrphan`). A crash, or a
removal that fails, leaves plaintext nobody owns: the theorem's hypothesis, and the third
line of that table under "Properties the code does not keep". `LifecycleImplemented`
needs of the rows only that each step writes one row as `From`/`To` allow, or
requeues expired ones (`RowChanges`), and that every status `From` names leads to the one of `To` in
`jobTransitions` (`TransitionTables`).

### Materialization

`Materialization_proofs` proves, for every set of imports (in any order of time, live or not), messages,
records, callers, requests and disturbances:

| Theorem | States |
|---|---|
| `TypeCorrect` | `[]TypeOK` |
| `ShownExactlyIfSupported` | `[]ShownIffSupported` |
| `OneWriterAtATime` | `[]OneWriter` |
| `CompletedAreDecided` | `[]CompletedIsDecided` |
| `RetriesAreIdempotent` | `RetriesDecideNothing`, an action property |
| `DecisionsRebuildWhatTheyAffect` | `DecisionsRebuild`, an action property |

The assumptions are the named ones of `Materialization`. `JobsAssumption` says of the jobs that any
nonempty set of them has a last one, which holds of any finite set and gives `Preferred` its value without
an induction over cardinality.

The argument. One inductive `Invariant` serves all six. `JobLocks` and
`ConversationLocks` say who can hold which lock together. `ObservedHasRows` ties observations to rows.
`ImportDrafts` and `ApplyDrafts` say of every uncommitted row that it is still what the
transaction would write if it were to compute it now: of an import's draft, that it is hidden only
where there is no row yet; of a decision's, that it equals `Rebuilt` of what is
eligible *now*. That is preserved because whoever could change either side must hold the
Conversation row or the job, and it makes `ShownIffSupported` inductive: a commit
puts rows in place that agree with the observations it leaves. `DecisionsRebuild` follows from
`ApplyDrafts` at the commit and the definition of `Preferred`; `OneWriter` from the
drafts and the locks; `RetriesDecideNothing` from `NotYetDecided`. An excluded import writes messages without
the Conversation lock, and it is the job lock and the source lock that keep it apart from the others,
which is why the invariant needs all three.

### LiveInbox

`LiveInbox_proofs` proves, for every set of receipts, of them poison, every number of workers and claims,
every batch size, bound of attempts and of the inbox, and every set of disturbances:

| Theorem | States |
|---|---|
| `TypeCorrect` | `[]TypeOK` |
| `ReceiptsNormalizedOnce` | `[]NormalizedOnce` |
| `GivenBackIsClaimable` | `[]PendingHasAttempts` |
| `VerdictsAreJustified` | `[]VerdictsJustified` |
| `ClaimsAreRespected` | `ClaimRespected`, an action property |

The row properties become inductive with what a worker knows when it comes to a statement
(`LoopShape`): it imports only what parses, and gives up for good only on what does not. The
same has to be said of a statement whose worker has died (`InflightShape`), since it takes effect later.
That a claim exists exactly while the row is being processed (`ClaimWhileProcessing`) makes the fences
of `completeClaim` and `failClaim` keep everybody else out.

### Access

`Access_proofs` proves, for any number of people, sessions, challenges, requests in progress and restarts:

| Theorem | States |
|---|---|
| `TypeCorrect` | `[]TypeOK` |
| `OneAdministratorAlways` | `[]OneAdministrator` |
| `ChallengesUsedOnce` | `[]ChallengeUsedOnce` |
| `ShutForGood` | `[]ShutStaysShut` |

`OneAdmin` is kept because what an admission has read under the advisory lock is still so when it
writes (`AdmissionCurrent`). `ChallengesUsedOnce` rests on `UsedInv`: a request between
consuming a challenge and creating its grant is alone with it (`Pending`), since
the update that consumes is conditional. `ShutInv` gives the reason for which a challenge that was shut can be covered no more,
one that no later step takes away: an earlier runtime, a dead session, or no grant and nobody who could still
create one. A relock therefore shuts what was open or granted, and not the challenge that a callback in
progress has consumed: its grant comes later, which is the behaviour named above.
The assumption says that "none" is not the name of a person, session or role.

### Curation

`Curation_proofs` proves, for any number of conversations, requests, keys and policy changes:

| Theorem | States |
|---|---|
| `TypeCorrect` | `[]TypeOK` |
| `AuditExplainsState` | `[]LogExplainsState` |
| `ChatsAreWhereDecided` | `[]ChatsWhereDecided` |
| `RetriesAreAnswered` | `RetriedDeletionAnswered`, an action property |

`LogExplainsState` counts entries; `LogInv` says instead that every version up to the row's has exactly one
entry, which steps preserve, and the count follows (`Explained`). It needs of the requests that the version a
grouping is about to write is the one it checked, because it holds the row (`CommitReady`,
`OneCommitter`), and that a policy to be written was noted, or will be as a change
(`WriteReady`). `ChatsWhereDecided` is inductive with the same said of the place an
import has read and will write (`PlacesInv`), and with reversals undoing recorded merges only (`UndoKnown`):
what a merge found is either the chat itself or was decided before.

### Transcription

`Transcription_proofs` proves, for any number of calls, models, addresses, moments, changes and faults, and any time to live:

| Theorem | States |
|---|---|
| `TypeCorrect` | `[]TypeOK` |
| `CleansUp` | `[]NothingLeftBehind` |
| `PinnedToPrivate` | `[]ConnectsPrivately` |
| `CacheWithinItsTime` | `[]CatalogFresh` |

`Holds` says of a call's record which of its resources it has at which await. `Fresh` and `CatalogInv`
bound the age of what is passed on: a discovery's answer was on offer when it began or later,
therefore a cache good until t holds what was on offer at t minus the time to live or
later, therefore what a request is shown is younger than that. The expiry is computed from the start of a
discovery, so it does not matter whose answer is stored last.

### Pairing

`Pairing_proofs` proves, for any number of accounts, requests, sessions, processes and calls, and of faults and restarts:

| Theorem | States |
|---|---|
| `TypeCorrect` | `[]TypeOK` |
| `ExpiredHaveStopped` | `[]ExpiredMeansStopped` |
| `EverybodyHasATurn` | `[]NobodyStranded` |

`LockShape`: exactly the requests in progress are queued, and whoever is past the lock is first.
`SideShape`: `pairingCancellation` refers to a cancellation that runs, and as long as it does no process
was spawned that this one will not end; so who joins it has joined one that still has steps to
take. `StopInv`, which holds unless `overlap`: one pair call of an account at a time spawns only
when `pairProcess` is empty, so every process ever handed out is closed or in that field, and a
cancellation that succeeded has seen it end. Without the hypothesis it is false: two pair calls
spawn two processes and the field holds one.

### Browsing

`Browsing_proofs` proves, for any number of rows and of messages without a date, any sizes of page and window,
any searches, and any number of requests in flight, changes and faults:

| Theorem | States |
|---|---|
| `TypeCorrect` | `[]TypeOK` |
| `ListsAreExact` | `[]ListExact` |
| `TimelineHasNoHole` | `[]TimelineContiguous` |

*Sorting.* The rank of a row in a strict order grows with the row, so ranks are different, and a set of
n rows has n of them: each is taken (`RankTaken`, by the pigeonhole principle of the library, no induction).
So `Sorted` has every row once and in order, and the first rows of it are ahead of all others (`FirstRows`, `WindowRows`, `KeptRows`).

*Paging.* `Invariant` is `Types`, `Shape` and, unless requests were mixed, `Complete`:

- one call is in flight at most, and it continues the page that is shown (its cursor is the
  page's) or starts it (`Continues`);
- what it has found so far holds every steady row between its cursor and where it ends
  (`CandidatesComplete`, `ReplyComplete`). A row that leaves meanwhile is not steady any more,
  so the second message query loses none; but a row it finds missing shortens the page, which is why the
  end of a conversation may be announced early and the property says nothing of it;
- a list holds every steady row up to its cursor (`ListComplete`), the timeline every one from its cursor
  on but those that it dropped, which are newer than all dated messages in it (`WindowComplete`). This is the
  strengthening `TimelineContiguous` needs: that there is no hole is not inductive, because it does not say on which
  side a missing row lies.

A page put behind what is shown keeps `ListComplete` (`Appended`), one merged into the window
keeps `WindowComplete` (`MergedComplete`), whichever rows are cut off. `LoadNewer` is in the proof as
the request that the server always refuses (`Astray`): the theorem holds because of it, not in spite
of it, and would need the newer side of the window if its cursor were accepted.

### Only model-checked

The liveness properties (`QueueProgress`, `ActiveJobsMoveOn`, `ReceiptsSettle`,
`EveryCallEnds`), which need fairness and ENABLED. Every invariant and every action property of a
passing run is proved; what the runs add is that the states the theorems speak of are
reached, and that a change of the code would violate them.

## 5. What is not modelled, and the plan

Not modelled because they keep no state and take no step another actor can see:
statistics and health queries, the adapters' parsing, media
delivery, rendering, configuration. Not modelled although they do: the intake
(publishing and inserting by two creators), the sidecar's followers, the sessions of
the MCP transport, the media store's writes, attachment links and revisions in
`Materialization`. Not modelled of the parts that are: see the abstractions above
and the notes in PROJECT.json.

To prove next: of the properties above nothing but liveness is left. Each part modelled
next brings its own; the refinement of an abstract pager is the first worth proving, since `ReplyComplete`
and `ListComplete` are already what it would promise.

To model next: followers and `liveEnabled` in `Pairing`; an abstract specification of
paging that `Browsing` implements; the intake composed with `ImportJobQueue`; the MCP transport's sessions
(a `now` read before an await, eviction of a session in use, a close that never ends
blocking every admission).
