--------------------------- MODULE ImportJobQueue ---------------------------
(***************************************************************************)
(* The import queue: ImportJob rows in PostgreSQL, the worker processes    *)
(* that lease them (DecryptQueueLoop, DecryptJobRunner, LeaseMonitor) and  *)
(* their work directories (LocalJobWork).                                  *)
(*                                                                         *)
(* A statement or transaction of the database is one step.  Between two    *)
(* steps of a worker anything may happen: its lease may expire, a heartbeat*)
(* may be refused, another worker may take the job over, the process may   *)
(* die.  An operation a worker was awaiting when it lost its lease is      *)
(* abandoned by Promise.race, not cancelled: it stays in "orphans" and may *)
(* still reach the database or the disk later.                             *)
(***************************************************************************)
EXTENDS Naturals, FiniteSets

CONSTANTS
  Workers,       \* worker processes, overlapping ones included
  Jobs,          \* import jobs, numbers in the order of createdAt, id
  Leases,        \* lease ids; one nobody remembers any more is fresh again
  NoLease,       \* "leaseId" IS NULL
  BatchSize,     \* ECHOHOARD_WORKER_BATCH_SIZE
  Pipeline,      \* the runner has an adapter and an importer
  NoSnapshot,    \* jobs whose row has no snapshotId
  Disturbances   \* what the environment may do, see DisturbanceKinds

DisturbanceKinds ==
  { "crash",     \* a worker process is killed
    "restart",   \* a worker starts while a killed one's lease still runs
    "stop",      \* SIGTERM: a worker drains
    "stall",     \* a live worker's heartbeat comes after its lease expired
    "db",        \* a statement fails, is slower than a heartbeat, or
                 \* commits without its answer arriving
    "fs",        \* a file operation fails
    "job" }      \* decrypting, adapting or importing fails

ASSUME JobsAssumption == Jobs \subseteq Nat \ {0} /\ IsFiniteSet(Jobs)
ASSUME LeasesAssumption == NoLease \notin Leases
ASSUME ParametersAssumption ==
  /\ BatchSize \in Nat \ {0}
  /\ Pipeline \in BOOLEAN
  /\ NoSnapshot \subseteq Jobs
  /\ Disturbances \subseteq DisturbanceKinds

VARIABLES
  (* The rows of table ImportJob. *)
  status,        \* status[j]
  lease,         \* lease[j]: "leaseId"
  live,          \* live[j]: "leaseExpiresAt" is later than the clock
  retryable,     \* retryable[j]: COALESCE(retryable, false)
  effects,       \* effects[j]: how often an outcome of j was committed
  (* The disk. *)
  dirs,          \* work directories <job, lease> that exist
  plaintext,     \* those that hold decrypted data
  (* Each worker process. *)
  pc,            \* the step it does next, or the operation it awaits
  stopping,      \* DecryptQueueLoop.stopping
  batch,         \* the listed jobs it has not looked at yet
  stale,         \* <job, lease> directories its recovery has yet to remove
  cur,           \* the job of its current run
  held,          \* the lease of its current run
  hasWork,       \* workPath is set
  refused,       \* a renewal was refused, the answer is on its way
  lost,          \* LeaseMonitor.isLost
  retry,         \* the failure it is recording is retryable
  (* Operations abandoned while in flight. *)
  orphans

rowVars == <<status, lease, live, retryable, effects>>
diskVars == <<dirs, plaintext>>
runVars == <<cur, held, hasWork, refused, lost, retry>>
loopVars == <<stopping, batch, stale>>
vars == <<rowVars, diskVars, pc, loopVars, runVars, orphans>>

(***************************************************************************)
(* Rows.                                                                   *)
(***************************************************************************)
ActiveStatuses == {"leased", "decrypting", "adapting", "importing", "finalizing"}
Statuses == ActiveStatuses \cup {"queued", "completed", "failed"}

(* Mutant of From: the last statements ask for the status before the one    *)
(* the runner has written.                                                  *)
FromSkipsAStep ==
  [ markLeased     |-> {"queued", "failed"},
    markDecrypting |-> {"leased"},
    markAdapting   |-> {"decrypting"},
    markImporting  |-> {"adapting"},
    markFinalizing |-> {"adapting"},
    markCompleted  |-> {"leased", "finalizing"},
    import         |-> {"finalizing"},
    markFailed     |-> ActiveStatuses ]

(* The statements that move a row, with the statuses they accept. *)
From == [ markLeased     |-> {"queued", "failed"},
          markDecrypting |-> {"leased"},
          markAdapting   |-> {"decrypting"},
          markImporting  |-> {"adapting"},
          markFinalizing |-> {"importing"},
          markCompleted  |-> {"decrypting", "finalizing"},
          import         |-> {"finalizing"},
          markFailed     |-> ActiveStatuses ]

To == [ markLeased     |-> "leased",
        markDecrypting |-> "decrypting",
        markAdapting   |-> "adapting",
        markImporting  |-> "importing",
        markFinalizing |-> "finalizing",
        markCompleted  |-> "completed",
        import         |-> "completed",
        markFailed     |-> "failed" ]

RowOps == {"markLeased", "markDecrypting", "markAdapting", "markImporting",
           "markFinalizing", "markCompleted", "import", "markFailed"}

(* The operations that end a run's lease with the row they write. *)
Closing == {"markCompleted", "import", "markFailed"}

RowHolds(j, l) == lease[j] = l /\ live[j]

(* Mutant of Fenced: the WHERE clause forgets "leaseId". *)
FencedByAnyLease(op, j, l) ==
  /\ live[j]
  /\ status[j] \in From[op]
  /\ op = "markLeased" => (status[j] # "failed" \/ retryable[j])

Fenced(op, j, l) ==
  /\ RowHolds(j, l)
  /\ status[j] \in From[op]
  /\ op = "markLeased" => (status[j] # "failed" \/ retryable[j])

(* Queued, or failed and retryable. *)
Open(j) == status[j] = "queued" \/ (status[j] = "failed" /\ retryable[j])

Claimable(j) == Open(j) /\ ~live[j]

(* Mutant of WriteRow: the archive is committed before the row is completed. *)
WriteRowAfterArchive(op, j, r) ==
  /\ status' = [status EXCEPT ![j] = To[op]]
  /\ IF op \in Closing
       THEN /\ lease' = [lease EXCEPT ![j] = NoLease]
            /\ live' = [live EXCEPT ![j] = FALSE]
            /\ retryable' = [retryable EXCEPT ![j] = op = "markFailed" /\ r]
       ELSE UNCHANGED <<lease, live, retryable>>
  /\ effects' = IF op \in {"markFinalizing", "markCompleted"}
                  THEN [effects EXCEPT ![j] = @ + 1]
                  ELSE effects

(* What a fenced statement writes when its WHERE clause matches. *)
WriteRow(op, j, r) ==
  /\ status' = [status EXCEPT ![j] = To[op]]
  /\ IF op \in Closing
       THEN /\ lease' = [lease EXCEPT ![j] = NoLease]
            /\ live' = [live EXCEPT ![j] = FALSE]
            /\ retryable' = [retryable EXCEPT ![j] = op = "markFailed" /\ r]
       ELSE UNCHANGED <<lease, live, retryable>>
  /\ effects' = IF To[op] = "completed"
                  THEN [effects EXCEPT ![j] = @ + 1]
                  ELSE effects

ClearLease(j) ==
  /\ lease' = [lease EXCEPT ![j] = NoLease]
  /\ live' = [live EXCEPT ![j] = FALSE]

(***************************************************************************)
(* Work directories.                                                       *)
(***************************************************************************)
MakeDir(d) ==
  /\ dirs' = dirs \cup {d}
  /\ plaintext' = plaintext \ {d}

RemoveDirs(D) ==
  /\ dirs' = dirs \ D
  /\ plaintext' = plaintext \ D

(* Mutant of WritePlaintext: the file is there without its directory. *)
WritePlaintextAnywhere(d) ==
  /\ plaintext' = plaintext \cup {d}
  /\ UNCHANGED dirs

WritePlaintext(d) ==
  /\ plaintext' = IF d \in dirs THEN plaintext \cup {d} ELSE plaintext
  /\ UNCHANGED dirs

(***************************************************************************)
(* Workers.  A run awaits one operation at a time; After says which one    *)
(* follows when it succeeds.                                               *)
(***************************************************************************)
NoJob == 0

WorkOps == {"prepare", "decrypt", "adapt"}
Awaited == RowOps \cup WorkOps
Running == Awaited \cup {"cleanup", "release"}
Steps == Running \cup {"down", "recover", "sweep", "poll", "next", "acquire"}

After == [ markLeased     |-> "prepare",
           prepare        |-> "markDecrypting",
           markDecrypting |-> "decrypt",
           decrypt        |-> IF Pipeline THEN "markAdapting" ELSE "markCompleted",
           markAdapting   |-> "adapt",
           adapt          |-> "markImporting",
           markImporting  |-> "markFinalizing",
           markFinalizing |-> "import",
           import         |-> "cleanup",
           markCompleted  |-> "cleanup",
           markFailed     |-> "cleanup" ]

Go(w, step) == pc' = [pc EXCEPT ![w] = step]

WorkDir(w) == <<cur[w], held[w]>>

(* The catch clause: classify the error and record it. *)
Fail(w, r) ==
  /\ Go(w, "markFailed")
  /\ retry' = [retry EXCEPT ![w] = r]

(* The ids a new lease of job j (randomUUID) may have: no process, statement *)
(* or other row remembers them.  A directory left behind under such an id is *)
(* out of everybody's reach; forgetting it keeps the instance finite.        *)
FreshLeases(j) ==
  { l \in Leases :
      /\ \A k \in Jobs \ {j} : lease[k] # l
      /\ \A w \in Workers : held[w] # l /\ \A d \in stale[w] : d[2] # l
      /\ \A o \in orphans : o.lease # l }

(***************************************************************************)
(* Startup and the loop.                                                   *)
(***************************************************************************)
Supervised(l) == \E w \in Workers : held[w] = l

Start(w) ==
  /\ pc[w] = "down"
  /\ (\E j \in Jobs : live[j] /\ ~Supervised(lease[j])) => "restart" \in Disturbances
  /\ Go(w, "recover")
  /\ UNCHANGED <<rowVars, diskVars, loopVars, runVars, orphans>>

(* Mutant of Recoverable: an interrupted import is not looked for. *)
RecoverableBeforeImport ==
  { j \in Jobs : status[j] \in ActiveStatuses \ {"finalizing"}
                  /\ lease[j] # NoLease /\ ~live[j] }

Recoverable == { j \in Jobs : status[j] \in ActiveStatuses
                               /\ lease[j] # NoLease /\ ~live[j] }

(* recoverExpired requeues every expired job in one statement and returns  *)
(* the leases it cleared.                                                  *)
RecoverExpired(w) ==
  /\ pc[w] = "recover"
  /\ status' = [j \in Jobs |-> IF j \in Recoverable THEN "queued" ELSE status[j]]
  /\ lease' = [j \in Jobs |-> IF j \in Recoverable THEN NoLease ELSE lease[j]]
  /\ stale' = [stale EXCEPT ![w] = { <<j, lease[j]>> : j \in Recoverable }]
  /\ Go(w, "sweep")
  /\ UNCHANGED <<live, retryable, effects, diskVars, stopping, batch, runVars, orphans>>

(* ... and then removes their directories, one by one. *)
Sweep(w) ==
  /\ pc[w] = "sweep"
  /\ \/ \E d \in stale[w] :
          /\ RemoveDirs({d})
          /\ stale' = [stale EXCEPT ![w] = @ \ {d}]
          /\ UNCHANGED pc
     \/ /\ stale[w] = {}
        /\ Go(w, "poll")
        /\ UNCHANGED <<diskVars, stale>>
  /\ UNCHANGED <<rowVars, stopping, batch, runVars, orphans>>

(* An error in recovery makes start() reject: the process ends. *)
StartFails(w) ==
  /\ \/ pc[w] = "recover" /\ "db" \in Disturbances
     \/ pc[w] = "sweep" /\ stale[w] # {} /\ "fs" \in Disturbances
  /\ Go(w, "down")
  /\ stale' = [stale EXCEPT ![w] = {}]
  /\ UNCHANGED <<rowVars, diskVars, stopping, batch, runVars, orphans>>

(* Mutant of FirstOf: LIMIT is one too small. *)
FirstButOne(S, n) == { j \in S : Cardinality({ k \in S : k < j }) < n - 1 }

(* listEligible: the first BatchSize claimable jobs in creation order. *)
FirstOf(S, n) == { j \in S : Cardinality({ k \in S : k < j }) < n }

ListEligible(w) ==
  /\ pc[w] = "poll"
  /\ ~stopping[w]
  /\ batch' = [batch EXCEPT ![w] = FirstOf({ j \in Jobs : Claimable(j) }, BatchSize)]
  /\ Go(w, "next")
  /\ UNCHANGED <<rowVars, diskVars, stopping, stale, runVars, orphans>>

(* run() looks at the row before it tries to lease it. *)
TakeJob(w) ==
  /\ pc[w] = "next"
  /\ ~stopping[w]
  /\ \E j \in batch[w] :
       /\ \A k \in batch[w] : j <= k
       /\ batch' = [batch EXCEPT ![w] = @ \ {j}]
       /\ \/ /\ Open(j)
             /\ Go(w, "acquire")
             /\ cur' = [cur EXCEPT ![w] = j]
          \/ /\ ~Open(j) \/ "db" \in Disturbances
             /\ UNCHANGED <<pc, cur>>
  /\ UNCHANGED <<rowVars, diskVars, stopping, stale, held, hasWork, refused, lost,
                 retry, orphans>>

BatchDone(w) ==
  /\ pc[w] = "next"
  /\ batch[w] = {}
  /\ ~stopping[w]
  /\ Go(w, "poll")
  /\ UNCHANGED <<rowVars, diskVars, loopVars, runVars, orphans>>

(* SIGTERM; the loop ends after the run it is in. *)
Stop(w) ==
  /\ "stop" \in Disturbances
  /\ pc[w] \notin {"down", "recover", "sweep"}
  /\ ~stopping[w]
  /\ stopping' = [stopping EXCEPT ![w] = TRUE]
  /\ UNCHANGED <<rowVars, diskVars, pc, batch, stale, runVars, orphans>>

Exit(w) ==
  /\ stopping[w]
  /\ pc[w] \in {"poll", "next"}
  /\ Go(w, "down")
  /\ stopping' = [stopping EXCEPT ![w] = FALSE]
  /\ batch' = [batch EXCEPT ![w] = {}]
  /\ UNCHANGED <<rowVars, diskVars, stale, runVars, orphans>>

(***************************************************************************)
(* Leasing.                                                                *)
(***************************************************************************)
Acquire(w) ==
  /\ pc[w] = "acquire"
  /\ Claimable(cur[w])
  /\ \E l \in FreshLeases(cur[w]) :
       /\ lease' = [lease EXCEPT ![cur[w]] = l]
       /\ live' = [live EXCEPT ![cur[w]] = TRUE]
       /\ held' = [held EXCEPT ![w] = l]
  /\ Go(w, "markLeased")
  /\ UNCHANGED <<status, retryable, effects, diskVars, loopVars, cur, hasWork,
                 refused, lost, retry, orphans>>

Unavailable(w) ==
  /\ pc[w] = "acquire"
  /\ ~Claimable(cur[w])
  /\ Go(w, "next")
  /\ cur' = [cur EXCEPT ![w] = NoJob]
  /\ UNCHANGED <<rowVars, diskVars, loopVars, held, hasWork, refused, lost, retry,
                 orphans>>

(* The statement fails, or commits and its answer is lost: run() throws    *)
(* before its try block and nobody owns the lease.                         *)
AcquireError(w) ==
  /\ "db" \in Disturbances
  /\ pc[w] = "acquire"
  /\ \/ UNCHANGED <<lease, live>>
     \/ /\ Claimable(cur[w])
        /\ \E l \in FreshLeases(cur[w]) :
             /\ lease' = [lease EXCEPT ![cur[w]] = l]
             /\ live' = [live EXCEPT ![cur[w]] = TRUE]
  /\ Go(w, "next")
  /\ cur' = [cur EXCEPT ![w] = NoJob]
  /\ UNCHANGED <<status, retryable, effects, diskVars, loopVars, held, hasWork,
                 refused, lost, retry, orphans>>

(* The database clock passes "leaseExpiresAt".  The heartbeat is shorter   *)
(* than the lease, so a supervised lease expires only when its worker      *)
(* stalls.                                                                 *)
Expire(j) ==
  /\ live[j]
  /\ Supervised(lease[j]) => "stall" \in Disturbances
  /\ live' = [live EXCEPT ![j] = FALSE]
  /\ UNCHANGED <<status, lease, retryable, effects, diskVars, pc, loopVars, runVars,
                 orphans>>

(* renew() updates an active row with an unexpired lease; that changes     *)
(* nothing here.  In every other row it answers false.                     *)
Renewable(w) == RowHolds(cur[w], held[w]) /\ status[cur[w]] \in ActiveStatuses

RenewRefused(w) ==
  /\ pc[w] \in Awaited
  /\ ~refused[w] /\ ~lost[w]
  /\ ~Renewable(w)
  /\ (pc[w] = "markLeased" /\ RowHolds(cur[w], held[w])) => "db" \in Disturbances
  /\ refused' = [refused EXCEPT ![w] = TRUE]
  /\ UNCHANGED <<rowVars, diskVars, pc, loopVars, cur, held, hasWork, lost, retry, orphans>>

(* The answer arrives, or renewal throws: the monitor is lost, the race    *)
(* rejects, and what was awaited is abandoned in flight.                   *)
Lose(w) ==
  /\ pc[w] \in Awaited \cup {"cleanup"}
  /\ ~lost[w]
  /\ refused[w] \/ "db" \in Disturbances
  /\ lost' = [lost EXCEPT ![w] = TRUE]
  /\ refused' = [refused EXCEPT ![w] = FALSE]
  /\ IF pc[w] \in Awaited
       THEN /\ orphans' = orphans \cup { [op |-> pc[w], job |-> cur[w],
                                          lease |-> held[w], retry |-> retry[w]] }
            /\ Go(w, "cleanup")
            /\ retry' = [retry EXCEPT ![w] = FALSE]
       ELSE UNCHANGED <<orphans, pc, retry>>
  /\ UNCHANGED <<rowVars, diskVars, loopVars, cur, held, hasWork>>

(***************************************************************************)
(* One run of a job.                                                       *)
(***************************************************************************)
(* Mutant of RowStep: an outcome whose job update matched no row is          *)
(* committed all the same.                                                   *)
RowStepKeepingOutcome(w) ==
  /\ pc[w] \in RowOps
  /\ IF Fenced(pc[w], cur[w], held[w])
       THEN WriteRow(pc[w], cur[w], retry[w]) /\ Go(w, After[pc[w]])
       ELSE /\ UNCHANGED <<status, lease, live, retryable>>
            /\ effects' = IF To[pc[w]] = "completed"
                            THEN [effects EXCEPT ![cur[w]] = @ + 1]
                            ELSE effects
            /\ Go(w, "cleanup")
  /\ retry' = [retry EXCEPT ![w] = FALSE]
  /\ UNCHANGED <<diskVars, loopVars, cur, held, hasWork, refused, lost, orphans>>

(* A statement that moves the row.  When its WHERE clause matches nothing  *)
(* it throws LeaseFenceError and the run ends without recording a failure. *)
RowStep(w) ==
  /\ pc[w] \in RowOps
  /\ IF Fenced(pc[w], cur[w], held[w])
       THEN WriteRow(pc[w], cur[w], retry[w]) /\ Go(w, After[pc[w]])
       ELSE UNCHANGED rowVars /\ Go(w, "cleanup")
  /\ retry' = [retry EXCEPT ![w] = FALSE]
  /\ UNCHANGED <<diskVars, loopVars, cur, held, hasWork, refused, lost, orphans>>

(* It fails for another reason, having committed or not.  The failure is   *)
(* internal, hence retryable; when markFailed itself fails the error       *)
(* leaves run() through its finally block.                                 *)
RowError(w) ==
  /\ "db" \in Disturbances
  /\ pc[w] \in RowOps
  /\ \/ UNCHANGED rowVars
     \/ /\ Fenced(pc[w], cur[w], held[w])
        /\ WriteRow(pc[w], cur[w], retry[w])
  /\ IF pc[w] = "markFailed"
       THEN Go(w, "cleanup") /\ retry' = [retry EXCEPT ![w] = FALSE]
       ELSE Fail(w, TRUE)
  /\ UNCHANGED <<diskVars, loopVars, cur, held, hasWork, refused, lost, orphans>>

(* Somebody else removes a directory of the job w runs, and then the job's   *)
(* own directory if that is empty.                                           *)
SiblingRemoved(w) ==
  \E v \in Workers \ {w} :
    \/ pc[v] = "cleanup" /\ cur[v] = cur[w] /\ (hasWork[v] \/ lost[v])
    \/ \E d \in stale[v] : d[1] = cur[w]

(* prepare makes the job's directory and the lease's in it.  It fails if the *)
(* former is removed between the two.                                        *)
Prepare(w) ==
  /\ pc[w] = "prepare"
  /\ \/ /\ MakeDir(WorkDir(w))
        /\ hasWork' = [hasWork EXCEPT ![w] = TRUE]
        /\ Go(w, After["prepare"])
        /\ UNCHANGED retry
     \/ /\ "fs" \in Disturbances \/ SiblingRemoved(w)
        /\ Fail(w, TRUE)
        /\ UNCHANGED <<diskVars, hasWork>>
  /\ UNCHANGED <<rowVars, loopVars, cur, held, refused, lost, orphans>>

(* Both read or write the work directory, so both need it to exist. *)
Decrypt(w) ==
  /\ pc[w] = "decrypt"
  /\ cur[w] \notin NoSnapshot
  /\ WorkDir(w) \in dirs
  /\ WritePlaintext(WorkDir(w))
  /\ Go(w, After["decrypt"])
  /\ UNCHANGED <<rowVars, loopVars, runVars, orphans>>

Adapt(w) ==
  /\ pc[w] = "adapt"
  /\ WorkDir(w) \in dirs
  /\ Go(w, After["adapt"])
  /\ UNCHANGED <<rowVars, diskVars, loopVars, runVars, orphans>>

(* toFailure: io, timeout and internal errors are retryable, the others    *)
(* are not.  A missing snapshot is internal.                               *)
PhaseFails(w) ==
  /\ pc[w] \in {"decrypt", "adapt", "import"}
  /\ \/ /\ pc[w] = "decrypt" /\ cur[w] \in NoSnapshot
        /\ Fail(w, TRUE)
        /\ UNCHANGED diskVars
     \/ /\ WorkDir(w) \notin dirs \/ "job" \in Disturbances
        /\ \E r \in BOOLEAN : Fail(w, r)
        /\ IF pc[w] = "decrypt" THEN WritePlaintext(WorkDir(w)) ELSE UNCHANGED diskVars
  /\ UNCHANGED <<rowVars, loopVars, cur, held, hasWork, refused, lost, orphans>>

(* Mutant of Cleanup: only a lost lease has its directory removed. *)
CleanupAfterLossOnly(w) ==
  /\ pc[w] = "cleanup"
  /\ \/ IF lost[w] THEN RemoveDirs({WorkDir(w)}) ELSE UNCHANGED diskVars
     \/ "fs" \in Disturbances /\ UNCHANGED diskVars
  /\ Go(w, "release")
  /\ UNCHANGED <<rowVars, loopVars, runVars, orphans>>

(* The finally block: remove the directory, whatever happens release. *)
Cleanup(w) ==
  /\ pc[w] = "cleanup"
  /\ \/ IF hasWork[w] \/ lost[w] THEN RemoveDirs({WorkDir(w)}) ELSE UNCHANGED diskVars
     \/ "fs" \in Disturbances /\ UNCHANGED diskVars
  /\ Go(w, "release")
  /\ UNCHANGED <<rowVars, loopVars, runVars, orphans>>

(* Mutant of ReleaseRow: an expired lease is cleared as well. *)
ReleaseExpiredToo(j, l) ==
  IF lease[j] = l THEN ClearLease(j) ELSE UNCHANGED <<lease, live>>

(* release() clears an unexpired lease whatever the status of its row. *)
ReleaseRow(j, l) ==
  IF RowHolds(j, l) THEN ClearLease(j) ELSE UNCHANGED <<lease, live>>

EndRun(w) ==
  /\ cur' = [cur EXCEPT ![w] = NoJob]
  /\ held' = [held EXCEPT ![w] = NoLease]
  /\ hasWork' = [hasWork EXCEPT ![w] = FALSE]
  /\ refused' = [refused EXCEPT ![w] = FALSE]
  /\ lost' = [lost EXCEPT ![w] = FALSE]
  /\ retry' = [retry EXCEPT ![w] = FALSE]

Release(w) ==
  /\ pc[w] = "release"
  /\ \/ ReleaseRow(cur[w], held[w])
     \/ "db" \in Disturbances /\ UNCHANGED <<lease, live>>
  /\ EndRun(w)
  /\ Go(w, "next")
  /\ UNCHANGED <<status, retryable, effects, diskVars, loopVars, orphans>>

(***************************************************************************)
(* Abandoned operations and dying processes.                               *)
(***************************************************************************)
(* An abandoned operation takes effect after all ... *)
OrphanActs(o) ==
  /\ orphans' = orphans \ {o}
  /\ \/ /\ o.op \in RowOps
        /\ Fenced(o.op, o.job, o.lease)
        /\ WriteRow(o.op, o.job, o.retry)
        /\ UNCHANGED diskVars
     \/ /\ o.op = "prepare"
        /\ MakeDir(<<o.job, o.lease>>)
        /\ UNCHANGED rowVars
     \/ /\ o.op = "decrypt"
        /\ o.job \notin NoSnapshot
        /\ WritePlaintext(<<o.job, o.lease>>)
        /\ UNCHANGED rowVars
  /\ UNCHANGED <<pc, loopVars, runVars>>

(* ... or comes to nothing. *)
OrphanDies(o) ==
  /\ orphans' = orphans \ {o}
  /\ UNCHANGED <<rowVars, diskVars, pc, loopVars, runVars>>

(* The process is killed.  A statement it had sent may still be executed.  *)
Crash(w) ==
  /\ "crash" \in Disturbances
  /\ pc[w] # "down"
  /\ Go(w, "down")
  /\ orphans' = IF pc[w] \in RowOps
                  THEN orphans \cup { [op |-> pc[w], job |-> cur[w],
                                       lease |-> held[w], retry |-> retry[w]] }
                  ELSE orphans
  /\ stopping' = [stopping EXCEPT ![w] = FALSE]
  /\ batch' = [batch EXCEPT ![w] = {}]
  /\ stale' = [stale EXCEPT ![w] = {}]
  /\ EndRun(w)
  /\ UNCHANGED <<rowVars, diskVars>>

(***************************************************************************)
(* The specification.                                                      *)
(***************************************************************************)
Init ==
  /\ status = [j \in Jobs |-> "queued"]
  /\ lease = [j \in Jobs |-> NoLease]
  /\ live = [j \in Jobs |-> FALSE]
  /\ retryable = [j \in Jobs |-> FALSE]
  /\ effects = [j \in Jobs |-> 0]
  /\ dirs = {} /\ plaintext = {}
  /\ pc = [w \in Workers |-> "down"]
  /\ stopping = [w \in Workers |-> FALSE]
  /\ batch = [w \in Workers |-> {}]
  /\ stale = [w \in Workers |-> {}]
  /\ cur = [w \in Workers |-> NoJob]
  /\ held = [w \in Workers |-> NoLease]
  /\ hasWork = [w \in Workers |-> FALSE]
  /\ refused = [w \in Workers |-> FALSE]
  /\ lost = [w \in Workers |-> FALSE]
  /\ retry = [w \in Workers |-> FALSE]
  /\ orphans = {}

(* What a worker does of its own accord. *)
Loop(w) ==
  \/ Start(w) \/ RecoverExpired(w) \/ Sweep(w)
  \/ ListEligible(w) \/ TakeJob(w) \/ BatchDone(w) \/ Exit(w)
  \/ Acquire(w) \/ Unavailable(w)
  \/ RowStep(w) \/ Prepare(w) \/ Decrypt(w) \/ Adapt(w) \/ PhaseFails(w)
  \/ Cleanup(w) \/ Release(w)

(* What befalls it. *)
Disturbed(w) ==
  \/ StartFails(w) \/ Stop(w) \/ AcquireError(w) \/ RowError(w)
  \/ RenewRefused(w) \/ Lose(w) \/ Crash(w)

Next ==
  \/ \E w \in Workers : Loop(w) \/ Disturbed(w)
  \/ \E j \in Jobs : Expire(j)
  \/ \E o \in orphans : OrphanActs(o) \/ OrphanDies(o)

Spec == Init /\ [][Next]_vars

(* The event loop of a live process runs on; an unsupervised lease expires;  *)
(* a statement in flight ends one way or the other.                          *)
FairSpec ==
  /\ Spec
  /\ \A w \in Workers : WF_vars(Loop(w))
  /\ \A j \in Jobs : WF_vars(Expire(j))
  /\ WF_vars(\E o \in orphans : OrphanActs(o) \/ OrphanDies(o))

-----------------------------------------------------------------------------
(***************************************************************************)
(* Properties.                                                             *)
(***************************************************************************)
RowTypes ==
  /\ status \in [Jobs -> Statuses]
  /\ lease \in [Jobs -> Leases \cup {NoLease}]
  /\ live \in [Jobs -> BOOLEAN]
  /\ retryable \in [Jobs -> BOOLEAN]
  /\ effects \in [Jobs -> Nat]

DiskTypes == dirs \subseteq Jobs \X Leases /\ plaintext \subseteq dirs

LoopTypes ==
  /\ pc \in [Workers -> Steps]
  /\ stopping \in [Workers -> BOOLEAN]
  /\ batch \in [Workers -> SUBSET Jobs]
  /\ stale \in [Workers -> SUBSET (Jobs \X Leases)]

RunTypes ==
  /\ cur \in [Workers -> Jobs \cup {NoJob}]
  /\ held \in [Workers -> Leases \cup {NoLease}]
  /\ hasWork \in [Workers -> BOOLEAN]
  /\ refused \in [Workers -> BOOLEAN]
  /\ lost \in [Workers -> BOOLEAN]
  /\ retry \in [Workers -> BOOLEAN]

OrphanTypes ==
  orphans \subseteq [op : Awaited, job : Jobs, lease : Leases, retry : BOOLEAN]

(* Every variable has its type; data lies only in directories that exist.   *)
TypeOK == RowTypes /\ DiskTypes /\ LoopTypes /\ RunTypes /\ OrphanTypes

(* The outcome of a job is committed exactly when it becomes completed, and *)
(* never twice, whatever stale runners and abandoned transactions do: the   *)
(* import transaction commits only with the job row it finishes.            *)
ExactlyOnce ==
  \A j \in Jobs : effects[j] = IF status[j] = "completed" THEN 1 ELSE 0

(* A runner whose lease is still its own and unexpired finds its row in the  *)
(* status its next statement asks for, so that LeaseFenceError means that    *)
(* the lease was lost, with one exception: markLeased failed without having  *)
(* been committed, and markFailed then finds the row as acquire left it.     *)
(* The failure is not recorded, but the job is still open and will be listed *)
(* again once the lease is released (intake.ts:173-181,                      *)
(* worker-persistence.ts:158).                                               *)
FenceErrorExplained ==
  \A w \in Workers :
    pc[w] \in RowOps /\ RowHolds(cur[w], held[w])
      => \/ Fenced(pc[w], cur[w], held[w])
         \/ pc[w] = "markFailed" /\ Open(cur[w]) /\ "db" \in Disturbances

(* Without the exception: a runner that still holds its lease can record     *)
(* the failure it met.  The code does not keep it, see the README.           *)
FailuresRecorded ==
  \A w \in Workers :
    pc[w] = "markFailed" /\ RowHolds(cur[w], held[w])
      => Fenced("markFailed", cur[w], held[w])

(* A job in an active status has a lease, so that it will be either finished *)
(* by its holder or found by recoverExpired.                                 *)
NeverStranded ==
  \A j \in Jobs : status[j] \in ActiveStatuses => lease[j] # NoLease

(* Decrypted data is always somebody's to remove: a run that has yet to     *)
(* clean up, a recovery that is sweeping, or the lease of a job that a      *)
(* later recovery will find.                                                *)
PlaintextOwned ==
  \A d \in plaintext :
    \/ \E w \in Workers : WorkDir(w) = d /\ pc[w] # "release"
    \/ \E w \in Workers : d \in stale[w]
    \/ lease[d[1]] = d[2] /\ status[d[1]] \in ActiveStatuses

(* Who takes this step: the holder of lease l, or an operation abandoned     *)
(* under it.  A worker without a run acts for NoLease.                       *)
ActsFor(l) ==
  \/ \E w \in Workers : /\ held[w] = l
                        /\ pc'[w] # pc[w] \/ stale'[w] # stale[w]
  \/ \E o \in orphans \ orphans' : o.lease = l

RowKept(j) ==
  /\ status'[j] = status[j] /\ lease'[j] = lease[j] /\ live'[j] = live[j]
  /\ retryable'[j] = retryable[j] /\ effects'[j] = effects[j]

(* A stale runner, its abandoned operations, a recovery or a rival cannot    *)
(* complete, fail, release or take over a job leased to somebody else, nor   *)
(* clean that lease's work directory.                                        *)
StaleActorsHarmless ==
  [][ \A j \in Jobs, l \in Leases \cup {NoLease} :
        live[j] /\ lease[j] # l /\ ActsFor(l)
          => /\ RowKept(j)
             /\ {<<j, lease[j]>>} \cap dirs \subseteq dirs' ]_vars

(* The queue keeps the promise of ImportJobLifecycle: whatever workers,      *)
(* abandoned statements and recoveries write, with the test of the previous  *)
(* status each of them has, every job goes through the statuses as the table *)
(* allows or is requeued by recovery, a final failure is final, and an       *)
(* outcome is committed with the completion.                                 *)
Lifecycle == INSTANCE ImportJobLifecycle WITH applied <- effects

ImplementsLifecycle == Lifecycle!Spec

(* Invalid transitions fail, as docs/stories/EH-03.md:11 asks: a job's       *)
(* status changes only as jobTransitions (echohoard.ts:95-104) allows.       *)
(* Recovery does not keep to it, see the README.                             *)
FollowsJobTransitions ==
  [][\A j \in Jobs : status'[j] # status[j]
                       => status'[j] \in Lifecycle!JobTransitions[status[j]]]_vars

(* Once the workers stay up, a queued job is eventually taken up, as long as *)
(* fewer jobs than a batch has places fail for ever: these come back in      *)
(* every batch, before the newer ones.  With as many as a batch has places   *)
(* the newer jobs starve, see the README.                                    *)
WorkersStayUp == <>[](\A w \in Workers : pc[w] # "down")

EachTakenUp == \A j \in Jobs : (status[j] = "queued") ~> (status[j] # "queued")

QueueProgress == WorkersStayUp /\ Cardinality(NoSnapshot) < BatchSize => EachTakenUp

(* Without the condition on those that fail for ever: not kept by the code.  *)
NoStarvation == WorkersStayUp => EachTakenUp

(* Once the workers stay up, no job remains in an active status for ever:    *)
(* its holder ends the run, or its lease expires and recovery requeues it.   *)
ActiveJobsMoveOn ==
  WorkersStayUp => \A j \in Jobs : (status[j] \in ActiveStatuses)
                                      ~> (status[j] \notin ActiveStatuses)
=============================================================================
