--------------------------- MODULE Materialization ---------------------------
(***************************************************************************)
(* Observations and what is made of them, for one source conversation: the  *)
(* import transaction (PrismaTextSnapshotImporter) writes what a job        *)
(* observed and updates the Conversation and Message rows; excluding or     *)
(* re-enabling an import (PrismaImportExclusionPersistence) changes the     *)
(* eligibility of its observations and rebuilds the rows they support.      *)
(*                                                                         *)
(* Transactions run under READ COMMITTED: a statement reads what is         *)
(* committed and what its own transaction wrote.  Uncommitted rows are kept *)
(* in "pending" and "draft"; a lock lasts until its transaction ends.       *)
(***************************************************************************)
EXTENDS Naturals

CONSTANTS
  Jobs,          \* jobs importing the conversation, in the order of observedAt
  Live,          \* those whose source is live, the others are backups
  Messages,      \* logical messages of the conversation
  Says,          \* Says[j][m]: what the records of j say of m
  Callers,       \* processes that apply decisions
  Keys,          \* idempotency keys
  Requests,      \* Requests[k]: the job and action sent with key k
  NoRow,         \* no Message row, or no draft of one
  Disturbances   \* what the environment may do, see DisturbanceKinds

Sayings == {"nothing", "body", "blank", "tombstone"}
DisturbanceKinds ==
  { "error",     \* a statement fails or times out
    "crash",     \* a process is killed
    "silence" }  \* a commit is not answered

NoJob == 0
NoKey == "no key"
Txs == Jobs \cup Callers
Rows == [shown : BOOLEAN, body : Jobs \cup {NoJob}, deleted : BOOLEAN]

(* Jobs are finitely many: any of them have a last one.                      *)
ASSUME JobsAssumption ==
  /\ Jobs \subseteq Nat \ {NoJob}
  /\ \A S \in SUBSET Jobs : S # {} => \E j \in S : \A i \in S : i <= j
ASSUME RecordsAssumption ==
  Live \subseteq Jobs /\ Says \in [Jobs -> [Messages -> Sayings]]
ASSUME CallersAssumption == Callers \cap Jobs = {}
ASSUME RequestsAssumption ==
  /\ Requests \in [Keys -> [job : Jobs, action : {"exclude", "re-enable"}]]
  /\ NoKey \notin Keys
ASSUME RowsAssumption == NoRow \notin Rows
ASSUME DisturbancesAssumption == Disturbances \subseteq DisturbanceKinds

VARIABLES
  (* Committed tables. *)
  eligible,      \* ImportJob.eligibility = "eligible"
  observed,      \* observed[j]: the observations of j, "none" or what their
                 \* eligibility column says
  conversation,  \* Conversation.materialized, "none" before there is a row
  rows,          \* rows[m]: the Message row
  runs,          \* runs[k]: status of the MaterializationRun of key k
  decisions,     \* decisions[k]: number of ImportEligibilityDecision rows
  (* Transactions: the import of each job, the call of each caller. *)
  pc,
  key,           \* key[c]: the idempotency key of a call
  seen,          \* the jobs it has read as eligible
  pending,       \* its uncommitted Conversation row
  draft          \* draft[t][m]: its uncommitted row of m

tables == <<eligible, observed, conversation, rows, runs, decisions>>
calls == <<pc, key, seen, pending, draft>>
vars == <<tables, calls>>

Clean == [m \in Messages |-> NoRow]
Observes(j) == { m \in Messages : Says[j][m] # "nothing" }

JobOf(c) == Requests[key[c]].job

(* Mutant of NextState: the action is stored for the state. *)
NextStateIsAction(c) == Requests[key[c]].action

NextState(c) == IF Requests[key[c]].action = "exclude" THEN "excluded" ELSE "eligible"

Go(t, step) == pc' = [pc EXCEPT ![t] = step]

-----------------------------------------------------------------------------
(***************************************************************************)
(* Row locks.  An import locks the Conversation row when it writes it, then *)
(* the SourceConversation row, then takes a KEY SHARE lock of its ImportJob *)
(* row through the foreign key of the observations it inserts; a decision   *)
(* takes the ImportJob row FOR UPDATE, then updates the Conversation row.   *)
(***************************************************************************)
WritesConversation(j) == j \in seen[j] \/ conversation = "none"

HoldsSource(j) == pc[j] \in {"sourced", "written"}

(* Mutant of HoldsConversation: its row is written after the messages, last of all. *)
HoldsConversationLast(t) == pc[t] \in {"written", "rebuilt"} /\ pending[t] # "none"

HoldsConversation(t) == pending[t] # "none"
SharesJob(j) == pc[j] = "written"
HoldsJob(c, j) == pc[c] \in {"locked", "read", "rebuilding", "rebuilt"} /\ JobOf(c) = j

(* The transactions that hold a lock t needs for its next statement. *)
WaitsFor(t) ==
  IF t \in Jobs
  THEN { x \in Txs \ {t} : pc[t] = "begun" /\ WritesConversation(t) /\ HoldsConversation(x) }
         \cup { j \in Jobs \ {t} : pc[t] = "listed" /\ HoldsSource(j) }
         \cup { c \in Callers : pc[t] = "sourced" /\ HoldsJob(c, t) }
  ELSE { x \in Txs \ {t} : pc[t] = "read" /\ HoldsConversation(x) }
         \cup { j \in Jobs : pc[t] = "lock" /\ JobOf(t) = j /\ SharesJob(j) }
         \cup { c \in Callers : pc[t] = "lock" /\ HoldsJob(c, JobOf(t)) }

(* PostgreSQL ends a cycle of waiting transactions by failing one of them.   *)
Deadlocked(t) ==
  \E S \in SUBSET Txs :
    t \in S /\ (\A x \in S : WaitsFor(x) # {}) /\ UNION { WaitsFor(x) : x \in S } = S

RollBack(t) ==
  /\ seen' = [seen EXCEPT ![t] = {}]
  /\ pending' = [pending EXCEPT ![t] = "none"]
  /\ draft' = [draft EXCEPT ![t] = Clean]

(* What a commit makes of the rows a transaction has written. *)
CommitRows(t) ==
  /\ conversation' = IF pending[t] # "none" THEN pending[t] ELSE conversation
  /\ rows' = [m \in Messages |-> IF draft[t][m] # NoRow THEN draft[t][m] ELSE rows[m]]
  /\ RollBack(t)

-----------------------------------------------------------------------------
(***************************************************************************)
(* The import transaction.                                                 *)
(***************************************************************************)
(* The transaction reads the job's eligibility first, ...                    *)
BeginImport(j) ==
  /\ pc[j] = "idle"
  /\ seen' = [seen EXCEPT ![j] = IF eligible[j] THEN {j} ELSE {}]
  /\ Go(j, "begun")
  /\ UNCHANGED <<tables, key, pending, draft>>

(* ... upserts the conversation, which an excluded import leaves alone when  *)
(* it exists, ...                                                            *)
UpsertConversation(j) ==
  /\ pc[j] = "begun" /\ WaitsFor(j) = {}
  /\ pending' = [pending EXCEPT ![j] =
                   IF j \in seen[j] THEN "shown"
                   ELSE IF conversation = "none" THEN "hidden" ELSE "none"]
  /\ Go(j, "listed")
  /\ UNCHANGED <<tables, key, seen, draft>>

UpsertSource(j) ==
  /\ pc[j] = "listed" /\ WaitsFor(j) = {}
  /\ Go(j, "sourced")
  /\ UNCHANGED <<tables, key, seen, pending, draft>>

Inserted(j, m) ==
  [ shown |-> j \in seen[j],
    body |-> IF Says[j][m] = "body" THEN j ELSE NoJob,
    deleted |-> Says[j][m] = "tombstone" ]

Updated(j, m) ==
  [ shown |-> TRUE,
    body |-> IF Says[j][m] = "body" THEN j ELSE rows[m].body,
    deleted |-> rows[m].deleted \/ Says[j][m] = "tombstone" ]

Upserted(j, m) ==
  IF m \notin Observes(j) THEN NoRow
  ELSE IF rows[m] = NoRow THEN Inserted(j, m)
  ELSE IF j \in seen[j] THEN Updated(j, m) ELSE NoRow

(* ... inserts its observations and upserts the messages, again leaving alone *)
(* what exists if it is excluded.                                             *)
WriteRecords(j) ==
  /\ pc[j] = "sourced" /\ WaitsFor(j) = {}
  /\ draft' = [draft EXCEPT ![j] = [m \in Messages |-> Upserted(j, m)]]
  /\ Go(j, "written")
  /\ UNCHANGED <<tables, key, seen, pending>>

CommitImport(j) ==
  /\ pc[j] = "written"
  /\ CommitRows(j)
  /\ observed' = [observed EXCEPT ![j] = IF j \in seen[j] THEN "eligible" ELSE "excluded"]
  /\ Go(j, "done")
  /\ UNCHANGED <<eligible, runs, decisions, key>>

(* A failed import is tried again by the worker. *)
ImportFails(j) ==
  /\ Disturbances \cap {"error", "crash"} # {} \/ Deadlocked(j)
  /\ pc[j] \in {"begun", "listed", "sourced", "written"}
  /\ RollBack(j)
  /\ Go(j, "idle")
  /\ UNCHANGED <<tables, key>>

-----------------------------------------------------------------------------
(***************************************************************************)
(* Applying a decision.                                                    *)
(***************************************************************************)
(* The job of a live receipt is created by the transaction that imports it.  *)
Exists(j) == j \in Live => pc[j] = "done"

(* Looking for the run of the key, outside any transaction.                  *)
FindRun(c, k) ==
  /\ pc[c] = "idle" /\ Exists(Requests[k].job) /\ runs[k] # "completed"
  /\ key' = [key EXCEPT ![c] = k]
  /\ Go(c, IF runs[k] = "none" THEN "create" ELSE "update")
  /\ UNCHANGED <<tables, seen, pending, draft>>

(* A completed run answers the call.                                         *)
Replay(c, k) ==
  /\ pc[c] = "idle" /\ Exists(Requests[k].job) /\ runs[k] = "completed"
  /\ UNCHANGED vars

StartRun(c) ==
  /\ \/ pc[c] = "create" /\ runs[key[c]] = "none"
     \/ pc[c] = "update"
  /\ runs' = [runs EXCEPT ![key[c]] = "running"]
  /\ Go(c, "lock")
  /\ UNCHANGED <<eligible, observed, conversation, rows, decisions, key, seen, pending, draft>>

(* Another call with this key has created it: the insert fails, and the call *)
(* with it.                                                                  *)
RunExists(c) ==
  /\ pc[c] = "create" /\ runs[key[c]] # "none"
  /\ key' = [key EXCEPT ![c] = NoKey]
  /\ Go(c, "idle")
  /\ UNCHANGED <<tables, seen, pending, draft>>

(* Mutant of Undecided: the decision has no unique key. *)
UndecidedAlways(k) == TRUE

Undecided(k) == decisions[k] = 0

(* The transaction: lock the job row, find what it affects, record the       *)
(* decision and the eligibility of the job and its observations, which       *)
(* nobody else writes while the job row is locked.  A job without            *)
(* observations affects nothing.                                             *)
LockJob(c) ==
  /\ pc[c] = "lock" /\ WaitsFor(c) = {} /\ Undecided(key[c])
  /\ Go(c, IF observed[JobOf(c)] = "none" THEN "rebuilt" ELSE "locked")
  /\ UNCHANGED <<tables, key, seen, pending, draft>>

(* The decision of this key is there already.                                *)
DecisionExists(c) ==
  /\ pc[c] = "lock" /\ WaitsFor(c) = {} /\ ~Undecided(key[c])
  /\ Go(c, "catch")
  /\ UNCHANGED <<tables, key, seen, pending, draft>>

(* Mutant of Eligibles: read before the job's own observations are updated. *)
EligiblesBefore(c) == { j \in Jobs : observed[j] = "eligible" }

(* The eligible observations as this transaction sees them. *)
Eligibles(c) ==
  { j \in Jobs : IF j = JobOf(c) THEN observed[j] # "none" /\ NextState(c) = "eligible"
                                 ELSE observed[j] = "eligible" }

(* The conversation is written as its observations were read before, ...     *)
ReadConversation(c) ==
  /\ pc[c] = "locked"
  /\ seen' = [seen EXCEPT ![c] = Eligibles(c)]
  /\ Go(c, "read")
  /\ UNCHANGED <<tables, key, pending, draft>>

UpdateConversation(c) ==
  /\ pc[c] = "read" /\ WaitsFor(c) = {}
  /\ pending' = [pending EXCEPT ![c] = IF seen[c] # {} THEN "shown" ELSE "hidden"]
  /\ seen' = [seen EXCEPT ![c] = {}]
  /\ Go(c, "rebuilding")
  /\ UNCHANGED <<tables, key, draft>>

(* Mutant of Preferred: the source is not looked at. *)
PreferredLatest(S) == CHOOSE j \in S : \A i \in S : i <= j

(* selectPreferredObservation among observations with a body: a backup beats *)
(* a live source, then the later one wins.                                   *)
Preferred(S) ==
  LET best == IF S \subseteq Live THEN S ELSE S \ Live
  IN  CHOOSE j \in best : \A i \in best : i <= j

Saying(S, m, what) == { j \in S : Says[j][m] = what }

Rebuilt(S, m) ==
  LET bodies == Saying(S, m, "body")
      shown == \E j \in S : m \in Observes(j)
  IN [ shown |-> shown,
       body |-> IF bodies # {} THEN Preferred(bodies) ELSE IF shown THEN NoJob ELSE rows[m].body,
       deleted |-> Saying(S, m, "tombstone") # {} ]

(* ... but the messages are rebuilt from observations read afterwards.  That *)
(* is one action: nobody else writes a message meanwhile (OneWriter).         *)
RebuildMessages(c) ==
  /\ pc[c] = "rebuilding"
  /\ draft' = [draft EXCEPT ![c] =
       [m \in Messages |-> IF m \in Observes(JobOf(c)) THEN Rebuilt(Eligibles(c), m) ELSE NoRow]]
  /\ Go(c, "rebuilt")
  /\ UNCHANGED <<tables, key, seen, pending>>

CommitApply(c) ==
  /\ pc[c] = "rebuilt"
  /\ CommitRows(c)
  /\ eligible' = [eligible EXCEPT ![JobOf(c)] = NextState(c) = "eligible"]
  /\ observed' = [observed EXCEPT ![JobOf(c)] = IF @ = "none" THEN @ ELSE NextState(c)]
  /\ decisions' = [decisions EXCEPT ![key[c]] = @ + 1]
  /\ runs' = [runs EXCEPT ![key[c]] = "completed"]

(* The commit is answered, or the call takes it for a failure.               *)
Answered(c) == CommitApply(c) /\ Go(c, "idle") /\ key' = [key EXCEPT ![c] = NoKey]
Unanswered(c) ==
  "silence" \in Disturbances /\ CommitApply(c) /\ Go(c, "catch") /\ UNCHANGED key

ApplyFails(c) ==
  /\ "error" \in Disturbances \/ Deadlocked(c)
  /\ pc[c] \in {"lock", "locked", "read", "rebuilding", "rebuilt"}
  /\ RollBack(c)
  /\ Go(c, "catch")
  /\ UNCHANGED <<tables, key>>

(* Mutant of RunFailed: the status is completed whatever happened. *)
RunFailedAsCompleted(k) == [runs EXCEPT ![k] = "completed"]

RunFailed(k) == [runs EXCEPT ![k] = "failed"]

(* The run is marked failed in a statement of its own.                       *)
Catch(c) ==
  /\ pc[c] = "catch"
  /\ runs' = RunFailed(key[c])
  /\ key' = [key EXCEPT ![c] = NoKey]
  /\ Go(c, "idle")
  /\ UNCHANGED <<eligible, observed, conversation, rows, decisions, seen, pending, draft>>

(* The process is killed, or a statement outside the transaction fails.      *)
CallLost(c) ==
  /\ \/ "crash" \in Disturbances /\ pc[c] # "idle"
     \/ "error" \in Disturbances /\ pc[c] \in {"create", "update", "catch"}
  /\ RollBack(c)
  /\ key' = [key EXCEPT ![c] = NoKey]
  /\ Go(c, "idle")
  /\ UNCHANGED tables

-----------------------------------------------------------------------------
Init ==
  /\ eligible = [j \in Jobs |-> TRUE]
  /\ observed = [j \in Jobs |-> "none"]
  /\ conversation = "none"
  /\ rows = Clean
  /\ runs = [k \in Keys |-> "none"]
  /\ decisions = [k \in Keys |-> 0]
  /\ pc = [t \in Txs |-> "idle"]
  /\ key = [c \in Callers |-> NoKey]
  /\ seen = [t \in Txs |-> {}]
  /\ pending = [t \in Txs |-> "none"]
  /\ draft = [t \in Txs |-> Clean]

Import(j) ==
  \/ BeginImport(j) \/ UpsertConversation(j) \/ UpsertSource(j)
  \/ WriteRecords(j) \/ CommitImport(j) \/ ImportFails(j)

Apply(c) ==
  \/ \E k \in Keys : FindRun(c, k) \/ Replay(c, k)
  \/ StartRun(c) \/ RunExists(c) \/ LockJob(c) \/ DecisionExists(c)
  \/ ReadConversation(c) \/ UpdateConversation(c) \/ RebuildMessages(c)
  \/ Answered(c) \/ Unanswered(c) \/ ApplyFails(c) \/ Catch(c) \/ CallLost(c)

Next == (\E j \in Jobs : Import(j)) \/ (\E c \in Callers : Apply(c))

Spec == Init /\ [][Next]_vars

-----------------------------------------------------------------------------
(***************************************************************************)
(* Properties.                                                             *)
(***************************************************************************)
ImportSteps == {"idle", "begun", "listed", "sourced", "written", "done"}
CallSteps == { "idle", "create", "update", "lock", "locked", "read",
               "rebuilding", "rebuilt", "catch" }

(* Every variable has its type.                                              *)
TypeOK ==
  /\ eligible \in [Jobs -> BOOLEAN]
  /\ observed \in [Jobs -> {"none", "eligible", "excluded"}]
  /\ conversation \in {"none", "shown", "hidden"}
  /\ rows \in [Messages -> Rows \cup {NoRow}]
  /\ runs \in [Keys -> {"none", "running", "failed", "completed"}]
  /\ decisions \in [Keys -> Nat]
  /\ pc \in [Txs -> ImportSteps \cup CallSteps]
  /\ \A j \in Jobs : pc[j] \in ImportSteps
  /\ \A c \in Callers : pc[c] \in CallSteps
  /\ key \in [Callers -> Keys \cup {NoKey}]
  /\ seen \in [Txs -> SUBSET Jobs]
  /\ pending \in [Txs -> {"none", "shown", "hidden"}]
  /\ draft \in [Txs -> [Messages -> Rows \cup {NoRow}]]

(* The locks of the conversation, its source and the job leave every message  *)
(* at most one writer, among imports, excluded imports and decisions alike:  *)
(* message rows are never waited for, and no update of one is computed from   *)
(* a row that changes meanwhile.                                             *)
OneWriter ==
  \A m \in Messages : \A s, t \in Txs :
    draft[s][m] # NoRow /\ draft[t][m] # NoRow => s = t

(* The jobs whose observations of m are eligible. *)
Supporters(m) == { j \in Jobs : m \in Observes(j) /\ observed[j] = "eligible" }

Shown(m) == rows[m] # NoRow /\ rows[m].shown

(* A message is shown exactly when an eligible import observes it, in         *)
(* whatever order imports and decisions came, overlapped, failed, and were    *)
(* tried again.                                                              *)
ShownIffSupported == \A m \in Messages : Shown(m) <=> Supporters(m) # {}

(* The row says what the eligible observations say together: the body of the *)
(* preferred one, deleted if one of them is a tombstone.                     *)
AsObserved(m) ==
  LET bodies == { j \in Supporters(m) : Says[j][m] = "body" }
      backups == bodies \ Live
  IN /\ rows[m].deleted <=> \E j \in Supporters(m) : Says[j][m] = "tombstone"
     /\ bodies = {} => rows[m].body = NoJob
     /\ bodies # {} =>
          /\ rows[m].body \in IF backups # {} THEN backups ELSE bodies
          /\ \A j \in IF backups # {} THEN backups ELSE bodies : j <= rows[m].body

(* A decision leaves every shown message of its import as the observations    *)
(* that are eligible from then on describe it: nothing of an excluded import  *)
(* remains, and whatever was imported or decided meanwhile is there.          *)
DecisionsRebuild ==
  [][ \A k \in Keys : decisions'[k] # decisions[k] /\ observed[Requests[k].job] # "none" =>
        \A m \in Observes(Requests[k].job) : Shown(m)' => AsObserved(m)' ]_vars

(* A run is never marked completed without its decision having been taken.   *)
CompletedIsDecided == \A k \in Keys : runs[k] = "completed" => decisions[k] # 0

(* Eligibility changes only with the first and only decision of some key: a  *)
(* late retry of an old request does not undo a newer decision.              *)
RetriesDecideNothing ==
  [][ /\ \A j \in Jobs : eligible'[j] # eligible[j] =>
           \E k \in Keys : Requests[k].job = j /\ decisions[k] = 0 /\ decisions'[k] = 1
      /\ \A k \in Keys : decisions[k] # 0 => decisions'[k] = decisions[k] ]_vars

Open(t) == pc[t] \notin {"idle", "done", "create", "update", "catch"}

(* Once no transaction is open, the conversation is shown exactly when an     *)
(* eligible import observes it (ADR 0002): the code does not keep this nor    *)
(* the next one, see the README, section 3.                                  *)
ConversationShownIffSupported ==
  (\A t \in Txs : ~Open(t)) =>
    (conversation = "shown" <=> \E j \in Jobs : observed[j] = "eligible")

(* What a shown message says was said by an import that is eligible.         *)
BodyFromEligible ==
  \A m \in Messages :
    Shown(m) /\ rows[m].body # NoJob => rows[m].body \in Supporters(m)
=============================================================================
