----------------------- MODULE ImportJobQueue_proofs -----------------------
(***************************************************************************)
(* Proofs about ImportJobQueue, for every number of workers, jobs and      *)
(* leases, every batch size and every set of disturbances.                 *)
(***************************************************************************)
EXTENDS ImportJobQueue, TLAPS

(* What the tables of statements say: no statement accepts a completed row, *)
(* each one writes a status, and each operation leads to one of the run.    *)
LEMMA Tables ==
  /\ \A op \in RowOps : /\ To[op] \in Statuses
                        /\ From[op] \subseteq Statuses \ {"completed"}
                        /\ After[op] \in Running /\ After[op] # op
  /\ \A op \in WorkOps : After[op] \in Running
  /\ "completed" \notin ActiveStatuses
  BY DEF To, From, After, RowOps, WorkOps, Running, Awaited, Statuses, ActiveStatuses

(* How the steps of a worker divide: outside a run, awaiting an operation,  *)
(* ending a run.                                                            *)
Outside == {"down", "recover", "sweep", "poll", "next", "acquire"}
Ending == {"cleanup", "release"}

LEMMA Names ==
  /\ RowOps \subseteq Awaited /\ WorkOps \subseteq Awaited
  /\ Running = Awaited \cup Ending /\ Steps = Running \cup Outside
  /\ Outside \cap Running = {} /\ Ending \cap Awaited = {}
  /\ RowOps \cap WorkOps = {}
  /\ "markFailed" \in RowOps /\ "markLeased" \in RowOps /\ "import" \in RowOps
  /\ "prepare" \in WorkOps /\ "decrypt" \in WorkOps /\ "adapt" \in WorkOps
  BY DEF Outside, Ending, RowOps, WorkOps, Awaited, Running, Steps

-----------------------------------------------------------------------------
(***************************************************************************)
(* Type correctness.  TypeOK is inductive together with the shape of a run:*)
(* a worker has a job and a lease exactly while a run is under way.        *)
(***************************************************************************)
RunShape ==
  \A w \in Workers :
    /\ pc[w] \in Running => cur[w] \in Jobs /\ held[w] \in Leases
    /\ pc[w] = "acquire" => cur[w] \in Jobs
    /\ pc[w] \notin Running => held[w] = NoLease

TypeInv == TypeOK /\ RunShape

LEMMA WriteRowType ==
  ASSUME RowTypes, NEW op \in RowOps, NEW j \in Jobs, NEW r \in BOOLEAN,
         WriteRow(op, j, r)
  PROVE  RowTypes'
  <1>1. To[op] \in Statuses
    BY Tables
  <1>2. status' \in [Jobs -> Statuses] /\ effects' \in [Jobs -> Nat]
    BY <1>1 DEF RowTypes, WriteRow
  <1>3. lease' \in [Jobs -> Leases \cup {NoLease}] /\ live' \in [Jobs -> BOOLEAN]
    BY DEF RowTypes, WriteRow
  <1>4. retryable' \in [Jobs -> BOOLEAN]
    BY DEF RowTypes, WriteRow
  <1> QED
    BY <1>2, <1>3, <1>4 DEF RowTypes

LEMMA TypeInit == Init => TypeInv
  <1> SUFFICES ASSUME Init PROVE TypeInv
    OBVIOUS
  <1>1. RowTypes
    BY DEF Init, RowTypes, Statuses
  <1>2. DiskTypes /\ LoopTypes /\ RunTypes /\ OrphanTypes
    BY DEF Init, DiskTypes, LoopTypes, RunTypes, OrphanTypes, Steps
  <1>3. RunShape
    BY DEF Init, RunShape, Running, Awaited, RowOps, WorkOps
  <1> QED
    BY <1>1, <1>2, <1>3 DEF TypeInv, TypeOK

LEMMA TypeStep == TypeInv /\ [Next]_vars => TypeInv'
  <1> SUFFICES ASSUME TypeInv, [Next]_vars PROVE TypeInv'
    OBVIOUS
  <1> USE DEF TypeInv, TypeOK
  <1>1. ASSUME NEW w \in Workers, Start(w) PROVE TypeInv'
    BY <1>1, Names DEF Start, Go, Outside, RowTypes, DiskTypes, LoopTypes, RunTypes, OrphanTypes, RunShape, rowVars, diskVars, loopVars, runVars
  <1>2. ASSUME NEW w \in Workers, RecoverExpired(w) PROVE TypeInv'
    <2>1. RowTypes'
      BY <1>2 DEF RecoverExpired, RowTypes, Statuses
    <2>2. LoopTypes'
      BY <1>2, Names DEF RecoverExpired, Recoverable, RowTypes, LoopTypes, Go, Outside
    <2>3. RunShape'
      BY <1>2, Names DEF RecoverExpired, RunShape, LoopTypes, Go, Outside, runVars
    <2>4. DiskTypes' /\ RunTypes' /\ OrphanTypes'
      BY <1>2 DEF RecoverExpired, DiskTypes, RunTypes, OrphanTypes, diskVars, runVars
    <2> QED
      BY <2>1, <2>2, <2>3, <2>4
  <1>3. ASSUME NEW w \in Workers, Sweep(w) PROVE TypeInv'
    BY <1>3, Names DEF Sweep, RemoveDirs, Go, Outside, RowTypes, DiskTypes, LoopTypes, RunTypes, OrphanTypes, RunShape, rowVars, diskVars, loopVars, runVars
  <1>4. ASSUME NEW w \in Workers, StartFails(w) PROVE TypeInv'
    BY <1>4, Names DEF StartFails, Go, Outside, RowTypes, DiskTypes, LoopTypes, RunTypes, OrphanTypes, RunShape, rowVars, diskVars, loopVars, runVars
  <1>5. ASSUME NEW w \in Workers, ListEligible(w) PROVE TypeInv'
    BY <1>5, Names DEF ListEligible, FirstOf, Go, Outside, RowTypes, DiskTypes, LoopTypes, RunTypes, OrphanTypes, RunShape, rowVars, diskVars, loopVars, runVars
  <1>6. ASSUME NEW w \in Workers, TakeJob(w) PROVE TypeInv'
    <2>1. PICK j \in batch[w] : /\ batch' = [batch EXCEPT ![w] = @ \ {j}]
                                /\ \/ Go(w, "acquire") /\ cur' = [cur EXCEPT ![w] = j]
                                   \/ UNCHANGED <<pc, cur>>
      BY <1>6 DEF TakeJob
    <2>2. /\ j \in Jobs /\ pc[w] = "next"
          /\ UNCHANGED <<rowVars, diskVars, stopping, stale, held, hasWork, refused, lost, retry, orphans>>
      BY <1>6, <2>1 DEF TakeJob, LoopTypes
    <2>3. LoopTypes'
      BY <2>1, <2>2, Names DEF LoopTypes, Go, Outside
    <2>4. RunTypes' /\ RowTypes' /\ DiskTypes' /\ OrphanTypes'
      BY <2>1, <2>2 DEF RowTypes, DiskTypes, RunTypes, OrphanTypes, rowVars, diskVars
    <2>5. RunShape'
      BY <2>1, <2>2, Names DEF RunShape, LoopTypes, RunTypes, Go, Outside
    <2> QED
      BY <2>3, <2>4, <2>5
  <1>7. ASSUME NEW w \in Workers, BatchDone(w) PROVE TypeInv'
    BY <1>7, Names DEF BatchDone, Go, Outside, RowTypes, DiskTypes, LoopTypes, RunTypes, OrphanTypes, RunShape, rowVars, diskVars, loopVars, runVars
  <1>8. ASSUME NEW w \in Workers, Stop(w) PROVE TypeInv'
    BY <1>8, Names DEF Stop, RowTypes, DiskTypes, LoopTypes, RunTypes, OrphanTypes, RunShape, rowVars, diskVars, loopVars, runVars
  <1>9. ASSUME NEW w \in Workers, Exit(w) PROVE TypeInv'
    BY <1>9, Names DEF Exit, Go, Outside, RowTypes, DiskTypes, LoopTypes, RunTypes, OrphanTypes, RunShape, rowVars, diskVars, loopVars, runVars
  <1>10. ASSUME NEW w \in Workers, Acquire(w) PROVE TypeInv'
    <2>1. cur[w] \in Jobs
      BY <1>10 DEF Acquire, RunShape
    <2>2. RowTypes'
      BY <1>10, <2>1 DEF Acquire, FreshLeases, RowTypes
    <2>3. LoopTypes' /\ RunTypes'
      BY <1>10, Names DEF Acquire, FreshLeases, LoopTypes, RunTypes, Go, loopVars
    <2>4. RunShape'
      BY <1>10, <2>1, Names DEF Acquire, FreshLeases, RunShape, LoopTypes, RunTypes, Go
    <2>5. DiskTypes' /\ OrphanTypes'
      BY <1>10 DEF Acquire, DiskTypes, OrphanTypes, diskVars
    <2> QED
      BY <2>2, <2>3, <2>4, <2>5
  <1>11. ASSUME NEW w \in Workers, Unavailable(w) PROVE TypeInv'
    BY <1>11, Names DEF Unavailable, Go, Outside, RowTypes, DiskTypes, LoopTypes, RunTypes, OrphanTypes, RunShape, rowVars, diskVars, loopVars, runVars
  <1>12. ASSUME NEW w \in Workers, AcquireError(w) PROVE TypeInv'
    <2>1. cur[w] \in Jobs
      BY <1>12 DEF AcquireError, RunShape
    <2>2. ASSUME UNCHANGED <<lease, live>>
           PROVE  RowTypes'
      BY <1>12, <2>2 DEF AcquireError, RowTypes
    <2>3. ASSUME \E l \in FreshLeases(cur[w]) : /\ lease' = [lease EXCEPT ![cur[w]] = l]
                                              /\ live' = [live EXCEPT ![cur[w]] = TRUE]
           PROVE  RowTypes'
      BY <1>12, <2>1, <2>3 DEF AcquireError, FreshLeases, RowTypes
    <2>4. RowTypes'
      BY <1>12, <2>2, <2>3 DEF AcquireError
    <2>5. LoopTypes' /\ RunTypes' /\ RunShape'
      BY <1>12, Names DEF AcquireError, LoopTypes, RunTypes, RunShape, Go, Outside, loopVars
    <2>6. DiskTypes' /\ OrphanTypes'
      BY <1>12 DEF AcquireError, DiskTypes, OrphanTypes, diskVars
    <2> QED
      BY <2>2, <2>3, <2>4, <2>5, <2>6
  <1>13. ASSUME NEW w \in Workers, RenewRefused(w) PROVE TypeInv'
    BY <1>13, Names DEF RenewRefused, RowTypes, DiskTypes, LoopTypes, RunTypes, OrphanTypes, RunShape, rowVars, diskVars, loopVars, runVars
  <1>14. ASSUME NEW w \in Workers, Lose(w) PROVE TypeInv'
    <2>1. pc[w] \in Awaited => cur[w] \in Jobs /\ held[w] \in Leases
      BY <1>14, Names DEF RunShape
    <2>2. OrphanTypes'
      BY <1>14, <2>1 DEF Lose, OrphanTypes, RunTypes
    <2>3. LoopTypes' /\ RunTypes'
      BY <1>14, Names DEF Lose, LoopTypes, RunTypes, Go, Ending, loopVars
    <2>4. RunShape'
      BY <1>14, Names DEF Lose, RunShape, LoopTypes, Go, Ending
    <2>5. RowTypes' /\ DiskTypes'
      BY <1>14 DEF Lose, RowTypes, DiskTypes, rowVars, diskVars
    <2> QED
      BY <2>2, <2>3, <2>4, <2>5
  <1>15. ASSUME NEW w \in Workers, RowStep(w) PROVE TypeInv'
    <2>1. cur[w] \in Jobs /\ retry[w] \in BOOLEAN
      BY <1>15, Names DEF RowStep, RunShape, RunTypes
    <2>2. RowTypes'
      BY <1>15, <2>1, WriteRowType DEF RowStep, RowTypes, rowVars
    <2>3. LoopTypes' /\ RunTypes'
      BY <1>15, Names, Tables DEF RowStep, LoopTypes, RunTypes, Go, Ending, loopVars
    <2>4. RunShape'
      BY <1>15, Names, Tables DEF RowStep, RunShape, LoopTypes, Go, Ending
    <2>5. DiskTypes' /\ OrphanTypes'
      BY <1>15 DEF RowStep, DiskTypes, OrphanTypes, diskVars
    <2> QED
      BY <2>2, <2>3, <2>4, <2>5
  <1>16. ASSUME NEW w \in Workers, RowError(w) PROVE TypeInv'
    <2>1. cur[w] \in Jobs /\ retry[w] \in BOOLEAN
      BY <1>16, Names DEF RowError, RunShape, RunTypes
    <2>2. RowTypes'
      BY <1>16, <2>1, WriteRowType DEF RowError, RowTypes, rowVars
    <2>3. LoopTypes'
      BY <1>16, Names DEF RowError, LoopTypes, Go, Fail, Ending, loopVars
    <2>4. RunTypes'
      BY <1>16 DEF RowError, RunTypes, Fail
    <2>5. RunShape'
      BY <1>16, Names DEF RowError, RunShape, LoopTypes, Go, Fail, Ending
    <2>6. DiskTypes' /\ OrphanTypes'
      BY <1>16 DEF RowError, DiskTypes, OrphanTypes, diskVars
    <2> QED
      BY <2>2, <2>3, <2>4, <2>5, <2>6
  <1>17. ASSUME NEW w \in Workers, Prepare(w) PROVE TypeInv'
    <2>1. WorkDir(w) \in Jobs \X Leases
      BY <1>17, Names DEF Prepare, RunShape, WorkDir
    <2>2. DiskTypes'
      BY <1>17, <2>1 DEF Prepare, MakeDir, DiskTypes, diskVars
    <2>3. LoopTypes'
      BY <1>17, Names, Tables DEF Prepare, LoopTypes, Go, Fail, loopVars
    <2>4. RunTypes'
      BY <1>17 DEF Prepare, RunTypes, Fail
    <2>5. RunShape'
      BY <1>17, Names, Tables DEF Prepare, RunShape, LoopTypes, Go, Fail
    <2>6. RowTypes' /\ OrphanTypes'
      BY <1>17 DEF Prepare, RowTypes, OrphanTypes, rowVars
    <2> QED
      BY <2>2, <2>3, <2>4, <2>5, <2>6
  <1>18. ASSUME NEW w \in Workers, Decrypt(w) PROVE TypeInv'
    <2>1. DiskTypes'
      BY <1>18 DEF Decrypt, WritePlaintext, DiskTypes
    <2>2. LoopTypes' /\ RunTypes'
      BY <1>18, Names, Tables DEF Decrypt, LoopTypes, RunTypes, Go, loopVars, runVars
    <2>3. RunShape'
      BY <1>18, Names, Tables DEF Decrypt, RunShape, LoopTypes, Go, runVars
    <2>4. RowTypes' /\ OrphanTypes'
      BY <1>18 DEF Decrypt, RowTypes, OrphanTypes, rowVars
    <2> QED
      BY <2>1, <2>2, <2>3, <2>4
  <1>19. ASSUME NEW w \in Workers, Adapt(w) PROVE TypeInv'
    <2>1. LoopTypes' /\ RunShape'
      BY <1>19, Names, Tables DEF Adapt, LoopTypes, RunShape, Go, loopVars, runVars
    <2>2. RowTypes' /\ DiskTypes' /\ RunTypes' /\ OrphanTypes'
      BY <1>19 DEF Adapt, RowTypes, DiskTypes, RunTypes, OrphanTypes, rowVars, diskVars, runVars
    <2> QED
      BY <2>1, <2>2
  <1>20. ASSUME NEW w \in Workers, PhaseFails(w) PROVE TypeInv'
    <2>1. pc[w] \in Running
      BY <1>20, Names DEF PhaseFails
    <2>2. DiskTypes'
      BY <1>20 DEF PhaseFails, WritePlaintext, DiskTypes, diskVars
    <2>3. LoopTypes'
      BY <1>20, Names DEF PhaseFails, LoopTypes, Go, Fail, loopVars
    <2>4. RunTypes'
      BY <1>20 DEF PhaseFails, RunTypes, Fail
    <2>5. RunShape'
      BY <1>20, <2>1, Names DEF PhaseFails, RunShape, LoopTypes, Go, Fail
    <2>6. RowTypes' /\ OrphanTypes'
      BY <1>20 DEF PhaseFails, RowTypes, OrphanTypes, rowVars
    <2> QED
      BY <2>2, <2>3, <2>4, <2>5, <2>6
  <1>21. ASSUME NEW w \in Workers, Cleanup(w) PROVE TypeInv'
    <2>1. DiskTypes'
      BY <1>21 DEF Cleanup, RemoveDirs, DiskTypes, diskVars
    <2>2. LoopTypes' /\ RunTypes' /\ RunShape'
      BY <1>21, Names DEF Cleanup, LoopTypes, RunTypes, RunShape, Go, Ending, loopVars, runVars
    <2>3. RowTypes' /\ OrphanTypes'
      BY <1>21 DEF Cleanup, RowTypes, OrphanTypes, rowVars
    <2> QED
      BY <2>1, <2>2, <2>3
  <1>22. ASSUME NEW w \in Workers, Release(w) PROVE TypeInv'
    <2>1. RowTypes'
      BY <1>22 DEF Release, ReleaseRow, ClearLease, RowTypes
    <2>2. LoopTypes' /\ RunTypes'
      BY <1>22, Names DEF Release, EndRun, LoopTypes, RunTypes, Go, Outside, loopVars
    <2>3. RunShape'
      BY <1>22, Names DEF Release, EndRun, LoopTypes, RunTypes, RunShape, Go, Outside
    <2>4. DiskTypes' /\ OrphanTypes'
      BY <1>22 DEF Release, DiskTypes, OrphanTypes, diskVars
    <2> QED
      BY <2>1, <2>2, <2>3, <2>4
  <1>23. ASSUME NEW w \in Workers, Crash(w) PROVE TypeInv'
    <2>1. OrphanTypes'
      BY <1>23, Names DEF Crash, OrphanTypes, RunTypes, RunShape
    <2>2. LoopTypes' /\ RunTypes'
      BY <1>23, Names DEF Crash, EndRun, LoopTypes, RunTypes, Go, Outside
    <2>3. RunShape'
      BY <1>23, Names DEF Crash, EndRun, LoopTypes, RunTypes, RunShape, Go, Outside
    <2>4. RowTypes' /\ DiskTypes'
      BY <1>23 DEF Crash, RowTypes, DiskTypes, rowVars, diskVars
    <2> QED
      BY <2>1, <2>2, <2>3, <2>4
  <1>24. ASSUME NEW j \in Jobs, Expire(j) PROVE TypeInv'
    BY <1>24, Names DEF Expire, RowTypes, DiskTypes, LoopTypes, RunTypes, OrphanTypes, RunShape, rowVars, diskVars, loopVars, runVars
  <1>25. ASSUME NEW o \in orphans, OrphanActs(o) PROVE TypeInv'
    <2>1. o.job \in Jobs /\ o.lease \in Leases /\ o.retry \in BOOLEAN
      BY <1>25 DEF OrphanTypes
    <2>2. RowTypes'
      BY <1>25, <2>1, WriteRowType DEF OrphanActs, RowTypes, rowVars
    <2>3. DiskTypes'
      BY <1>25, <2>1 DEF OrphanActs, MakeDir, WritePlaintext, DiskTypes, diskVars
    <2>4. OrphanTypes'
      BY <1>25 DEF OrphanActs, OrphanTypes
    <2>5. LoopTypes' /\ RunTypes' /\ RunShape'
      BY <1>25 DEF OrphanActs, LoopTypes, RunTypes, RunShape, loopVars, runVars
    <2> QED
      BY <2>2, <2>3, <2>4, <2>5
  <1>26. ASSUME NEW o \in orphans, OrphanDies(o) PROVE TypeInv'
    BY <1>26, Names DEF OrphanDies, RowTypes, DiskTypes, LoopTypes, RunTypes, OrphanTypes, RunShape, rowVars, diskVars, loopVars, runVars
  <1>27. CASE UNCHANGED vars
    BY <1>27 DEF vars, RowTypes, DiskTypes, LoopTypes, RunTypes, OrphanTypes, RunShape, rowVars, diskVars, loopVars, runVars
  <1> QED
    BY <1>1, <1>2, <1>3, <1>4, <1>5, <1>6, <1>7, <1>8, <1>9, <1>10, <1>11, <1>12, <1>13, <1>14, <1>15, <1>16, <1>17, <1>18, <1>19, <1>20, <1>21, <1>22, <1>23, <1>24, <1>25, <1>26, <1>27 DEF Next, Loop, Disturbed

(* Every variable keeps its type, and decrypted data lies only in work       *)
(* directories that exist.                                                   *)
THEOREM TypeCorrect == Spec => []TypeOK
  <1>1. Spec => []TypeInv
    BY TypeInit, TypeStep, PTL DEF Spec
  <1>2. TypeInv => TypeOK
    BY DEF TypeInv
  <1> QED
    BY <1>1, <1>2, PTL

-----------------------------------------------------------------------------
(***************************************************************************)
(* What can happen to the status of a row: a fenced statement writes it,   *)
(* or recovery requeues it.                                                *)
(***************************************************************************)
Written(op, j, l, r) == Fenced(op, j, l) /\ WriteRow(op, j, r)

(* A statement comes from the worker that awaits it, which then goes on, or  *)
(* is one of the abandoned ones.                                             *)
Author(op, l) ==
  \/ \E w \in Workers : held[w] = l /\ pc[w] = op /\ pc'[w] # op
  \/ \E o \in orphans : o.lease = l

SomeRowWritten ==
  \E op \in RowOps, j \in Jobs, l \in Leases, r \in BOOLEAN :
    Written(op, j, l, r) /\ Author(op, l)

Requeued ==
  /\ status' = [j \in Jobs |-> IF j \in Recoverable THEN "queued" ELSE status[j]]
  /\ UNCHANGED <<retryable, effects>>

LEMMA RowChanges ==
  ASSUME TypeInv, [Next]_vars
  PROVE  SomeRowWritten \/ Requeued \/ UNCHANGED <<status, retryable, effects>>
  <1> DEFINE Goal == SomeRowWritten \/ Requeued \/ UNCHANGED <<status, retryable, effects>>
  <1>1. ASSUME NEW w \in Workers, RowStep(w) \/ RowError(w) PROVE Goal
    <2>1. pc[w] \in RowOps
      BY <1>1 DEF RowStep, RowError
    <2>2. cur[w] \in Jobs /\ held[w] \in Leases /\ retry[w] \in BOOLEAN
      BY <2>1, Names DEF TypeInv, TypeOK, RunTypes, RunShape
    <2>3. \/ Written(pc[w], cur[w], held[w], retry[w])
          \/ UNCHANGED rowVars
      BY <1>1 DEF RowStep, RowError, Written
    <2>4. pc'[w] # pc[w]
      BY <1>1, <2>1, Tables, Names
      DEF RowStep, RowError, Go, Fail, Ending, TypeInv, TypeOK, LoopTypes
    <2>5. Author(pc[w], held[w])
      BY <2>4 DEF Author
    <2> QED
      BY <2>1, <2>2, <2>3, <2>5 DEF SomeRowWritten, rowVars
  <1>2. ASSUME NEW o \in orphans, OrphanActs(o) PROVE Goal
    <2>1. o.job \in Jobs /\ o.lease \in Leases /\ o.retry \in BOOLEAN
      BY <1>2 DEF TypeInv, TypeOK, OrphanTypes
    <2>2. \/ o.op \in RowOps /\ Written(o.op, o.job, o.lease, o.retry)
          \/ UNCHANGED rowVars
      BY <1>2 DEF OrphanActs, Written
    <2>3. Author(o.op, o.lease)
      BY DEF Author
    <2> QED
      BY <2>1, <2>2, <2>3 DEF SomeRowWritten, rowVars
  <1>3. ASSUME NEW w \in Workers, RecoverExpired(w) PROVE Goal
    BY <1>3 DEF RecoverExpired, Requeued
  <1>4. ASSUME NEW w \in Workers, Start(w) \/ Sweep(w) \/ StartFails(w) \/ ListEligible(w)
                 \/ TakeJob(w) \/ BatchDone(w) \/ Stop(w) \/ Exit(w)
        PROVE Goal
    BY <1>4 DEF Start, Sweep, StartFails, ListEligible, TakeJob, BatchDone, Stop, Exit, rowVars
  <1>5. ASSUME NEW w \in Workers, Acquire(w) \/ Unavailable(w) \/ AcquireError(w)
                 \/ RenewRefused(w) \/ Lose(w) \/ Crash(w)
        PROVE Goal
    BY <1>5 DEF Acquire, Unavailable, AcquireError, RenewRefused, Lose, Crash, rowVars
  <1>6. ASSUME NEW w \in Workers, Prepare(w) \/ Decrypt(w) \/ Adapt(w) \/ PhaseFails(w)
                 \/ Cleanup(w) \/ Release(w)
        PROVE Goal
    BY <1>6 DEF Prepare, Decrypt, Adapt, PhaseFails, Cleanup, Release, rowVars
  <1>7. ASSUME NEW j \in Jobs, Expire(j) PROVE Goal
    BY <1>7 DEF Expire
  <1>8. ASSUME NEW o \in orphans, OrphanDies(o) PROVE Goal
    BY <1>8 DEF OrphanDies, rowVars
  <1>9. ASSUME UNCHANGED vars PROVE Goal
    BY <1>9 DEF vars, rowVars
  <1> QED
    BY <1>1, <1>2, <1>3, <1>4, <1>5, <1>6, <1>7, <1>8, <1>9 DEF Next, Loop, Disturbed

(***************************************************************************)
(* Every committed outcome is counted exactly once.                        *)
(***************************************************************************)
LEMMA ExactlyOnceStep == TypeInv /\ ExactlyOnce /\ [Next]_vars => ExactlyOnce'
  <1> SUFFICES ASSUME TypeInv, ExactlyOnce, [Next]_vars PROVE ExactlyOnce'
    OBVIOUS
  <1>1. RowTypes
    BY DEF TypeInv, TypeOK
  <1>2. ASSUME NEW op \in RowOps, NEW j \in Jobs, NEW l \in Leases, NEW r \in BOOLEAN,
               Written(op, j, l, r)
        PROVE  ExactlyOnce'
    <2>1. status[j] # "completed" /\ effects[j] = 0
      BY <1>2, Tables DEF Written, Fenced, ExactlyOnce, Statuses
    <2>2. /\ status' = [status EXCEPT ![j] = To[op]]
          /\ effects' = IF To[op] = "completed"
                          THEN [effects EXCEPT ![j] = @ + 1]
                          ELSE effects
      BY <1>2 DEF Written, WriteRow
    <2> QED
      BY <1>1, <2>1, <2>2 DEF ExactlyOnce, RowTypes
  <1>3. ASSUME Requeued PROVE ExactlyOnce'
    BY <1>1, <1>3, Tables DEF Requeued, Recoverable, ExactlyOnce, RowTypes
  <1>4. ASSUME UNCHANGED <<status, retryable, effects>> PROVE ExactlyOnce'
    BY <1>4 DEF ExactlyOnce
  <1> QED
    BY <1>2, <1>3, <1>4, RowChanges DEF SomeRowWritten

(* A job's outcome is committed exactly when its row becomes completed, and  *)
(* never a second time.                                                      *)
THEOREM CommittedExactlyOnce == Spec => []ExactlyOnce
  <1>1. Init => ExactlyOnce
    BY DEF Init, ExactlyOnce
  <1>2. Spec => []TypeInv
    BY TypeInit, TypeStep, PTL DEF Spec
  <1> QED
    BY <1>1, <1>2, ExactlyOnceStep, PTL DEF Spec

-----------------------------------------------------------------------------
(***************************************************************************)
(* The queue implements ImportJobLifecycle.                                *)
(***************************************************************************)
(* The table of statements seen from the lifecycle. *)
LEMMA StageTables ==
  /\ To["markLeased"] \in ActiveStatuses /\ From["markLeased"] = {"queued", "failed"}
  /\ \A op \in RowOps \ {"markLeased"} : From[op] \subseteq ActiveStatuses
  /\ \A op \in RowOps \ Closing : To[op] \in ActiveStatuses
  /\ \A op \in Closing \ {"markFailed"} : To[op] = "completed"
  /\ To["markFailed"] = "failed"
  /\ "markLeased" \notin Closing /\ Closing \subseteq RowOps
  /\ ActiveStatuses \cap {"queued", "failed", "completed"} = {}
  BY DEF To, From, RowOps, Closing, ActiveStatuses

LEMMA LifecycleInit == Init => Lifecycle!Init
  BY DEF Init, Lifecycle!Init

(* Every status a statement accepts leads to the one it writes, as the table  *)
(* of transitions says.                                                       *)
LEMMA TransitionTables ==
  /\ \A op \in RowOps : \A s \in From[op] : To[op] \in Lifecycle!JobTransitions[s]
  /\ Lifecycle!Active = ActiveStatuses
  BY DEF To, From, RowOps, ActiveStatuses, Lifecycle!JobTransitions, Lifecycle!Active

LEMMA LifecycleWrite ==
  ASSUME TypeInv, NEW op \in RowOps, NEW j \in Jobs, NEW l \in Leases,
         NEW r \in BOOLEAN, Written(op, j, l, r)
  PROVE  Lifecycle!Move(j)
  <1>1. RowTypes
    BY DEF TypeInv, TypeOK
  <1>2. /\ status[j] \in From[op] /\ (status[j] = "failed" => retryable[j])
        /\ status' = [status EXCEPT ![j] = To[op]]
    <2>1. status[j] \in From[op] /\ status' = [status EXCEPT ![j] = To[op]]
      BY DEF Written, Fenced, WriteRow
    <2>2. status[j] = "failed" => op = "markLeased"
      BY <2>1, StageTables
    <2> QED
      BY <2>1, <2>2 DEF Written, Fenced
  <1>3. To[op] \in Lifecycle!JobTransitions[status[j]]
    BY <1>2, TransitionTables
  <1>4. effects' = IF To[op] = "completed" THEN [effects EXCEPT ![j] = @ + 1] ELSE effects
    BY DEF Written, WriteRow
  <1>5. PICK now \in BOOLEAN :
          /\ To[op] # "failed" => now = (retryable[j] /\ To[op] # "completed")
          /\ retryable' = [retryable EXCEPT ![j] = now]
    <2>1. CASE op \in Closing
      <3>1. retryable' = [retryable EXCEPT ![j] = op = "markFailed" /\ r]
        BY <2>1 DEF Written, WriteRow
      <3>2. op # "markFailed" => To[op] = "completed"
        BY <2>1, StageTables
      <3>3. CASE op = "markFailed"
        BY <3>1, <3>3, StageTables
      <3>4. CASE op # "markFailed"
        <4>1. retryable' = [retryable EXCEPT ![j] = FALSE]
          BY <3>1, <3>4
        <4> QED
          BY <4>1, <3>2, <3>4
      <3> QED
        BY <3>3, <3>4
    <2>2. CASE op \notin Closing
      <3>1. retryable' = retryable
        BY <2>2 DEF Written, WriteRow
      <3>2. retryable[j] \in BOOLEAN /\ retryable = [retryable EXCEPT ![j] = retryable[j]]
        BY <1>1 DEF RowTypes
      <3>3. To[op] # "completed"
        BY <2>2, StageTables
      <3> QED
        BY <3>1, <3>2, <3>3
    <2> QED
      BY <2>1, <2>2
  <1> QED
    BY <1>2, <1>3, <1>4, <1>5 DEF Lifecycle!Move

LEMMA LifecycleStep == TypeInv /\ [Next]_vars => [Lifecycle!Next]_(Lifecycle!lifecycleVars)
  <1> SUFFICES ASSUME TypeInv, [Next]_vars
               PROVE  [Lifecycle!Next]_(Lifecycle!lifecycleVars)
    OBVIOUS
  <1>1. CASE SomeRowWritten
    BY <1>1, LifecycleWrite DEF SomeRowWritten, Lifecycle!Next
  <1>2. CASE Requeued
    <2>1. Recoverable \in SUBSET Jobs
      BY DEF Recoverable
    <2>2. Lifecycle!Requeue(Recoverable)
      BY <1>2, TransitionTables DEF Requeued, Recoverable, Lifecycle!Requeue
    <2> QED
      BY <2>1, <2>2 DEF Lifecycle!Next
  <1>3. CASE UNCHANGED <<status, retryable, effects>>
    BY <1>3 DEF Lifecycle!lifecycleVars
  <1> QED
    BY <1>1, <1>2, <1>3, RowChanges

(* Whatever workers, leases and crashes do, each job goes through its        *)
(* statuses as the table of transitions allows, or is requeued by recovery.  *)
THEOREM LifecycleImplemented == Spec => ImplementsLifecycle
  <1>1. Spec => []TypeInv
    BY TypeInit, TypeStep, PTL DEF Spec
  <1> QED
    BY <1>1, LifecycleInit, LifecycleStep, PTL DEF Spec, ImplementsLifecycle, Lifecycle!Spec

-----------------------------------------------------------------------------
(***************************************************************************)
(* Leases.  A lease is remembered by at most one run; an operation still   *)
(* in flight under it was abandoned by a run that is already ending; and   *)
(* what recovery sweeps is no longer leased.                               *)
(***************************************************************************)
HeldOnce ==
  \A v, w \in Workers : held[v] = held[w] /\ held[v] # NoLease => v = w

OrphansLost ==
  \A o \in orphans, w \in Workers : held[w] = o.lease => pc[w] \in Ending

SweptDead ==
  \A w \in Workers : \A d \in stale[w] : ~RowHolds(d[1], d[2])

LeaseInv == TypeInv /\ HeldOnce /\ OrphansLost /\ SweptDead

(* Acquiring draws a lease nobody remembers. *)
LEMMA FreshLease ==
  ASSUME NEW j \in Jobs, NEW l \in FreshLeases(j)
  PROVE  /\ l \in Leases /\ l # NoLease
         /\ \A k \in Jobs \ {j} : lease[k] # l
         /\ \A w \in Workers : held[w] # l /\ \A d \in stale[w] : d[2] # l
         /\ \A o \in orphans : o.lease # l
  BY LeasesAssumption DEF FreshLeases

(* The lease of a row is set only by Acquire, to a fresh id; every other     *)
(* step keeps or clears it, and none revives it.                             *)
LeaseTaken ==
  \E w \in Workers : /\ pc[w] = "acquire"
                     /\ Claimable(cur[w])
                     /\ \E l \in FreshLeases(cur[w]) :
                          /\ lease' = [lease EXCEPT ![cur[w]] = l]
                          /\ live' = [live EXCEPT ![cur[w]] = TRUE]

LEMMA LeaseChanges ==
  ASSUME TypeInv, [Next]_vars
  PROVE  LeaseTaken \/ \A j \in Jobs, l \in Leases : RowHolds(j, l)' => RowHolds(j, l)
  <1> DEFINE Kept == \A j \in Jobs, l \in Leases : RowHolds(j, l)' => RowHolds(j, l)
  <1> USE DEF RowHolds
  <1>1. RowTypes
    BY DEF TypeInv, TypeOK
  <1>2. ASSUME NEW op, NEW j \in Jobs, NEW r, WriteRow(op, j, r) PROVE Kept
    BY <1>1, <1>2, LeasesAssumption DEF WriteRow, RowTypes
  <1>3. ASSUME UNCHANGED <<lease, live>> PROVE Kept
    BY <1>3
  <1>4. ASSUME NEW w \in Workers, RowStep(w) \/ RowError(w) PROVE Kept
    <2>1. cur[w] \in Jobs
      BY <1>4, Names DEF RowStep, RowError, TypeInv, RunShape
    <2>2. WriteRow(pc[w], cur[w], retry[w]) \/ UNCHANGED rowVars
      BY <1>4 DEF RowStep, RowError
    <2> QED
      BY <2>1, <2>2, <1>2, <1>3 DEF rowVars
  <1>5. ASSUME NEW o \in orphans, OrphanActs(o) PROVE Kept
    <2>1. o.job \in Jobs
      BY DEF TypeInv, TypeOK, OrphanTypes
    <2>2. WriteRow(o.op, o.job, o.retry) \/ UNCHANGED rowVars
      BY <1>5 DEF OrphanActs
    <2> QED
      BY <2>1, <2>2, <1>2, <1>3 DEF rowVars
  <1>6. ASSUME NEW w \in Workers, RecoverExpired(w) PROVE Kept
    BY <1>1, <1>6, LeasesAssumption DEF RecoverExpired, RowTypes
  <1>7. ASSUME NEW w \in Workers, Acquire(w) \/ AcquireError(w) PROVE LeaseTaken \/ Kept
    BY <1>7, <1>3 DEF Acquire, AcquireError, LeaseTaken
  <1>8. ASSUME NEW w \in Workers, Release(w) PROVE Kept
    <2>1. cur[w] \in Jobs
      BY <1>8, Names DEF Release, TypeInv, RunShape, Ending
    <2> QED
      BY <1>1, <1>8, <2>1 DEF Release, ReleaseRow, ClearLease, RowTypes
  <1>9. ASSUME NEW j \in Jobs, Expire(j) PROVE Kept
    BY <1>1, <1>9 DEF Expire, RowTypes
  <1>10. ASSUME NEW w \in Workers, Start(w) \/ Sweep(w) \/ StartFails(w) \/ ListEligible(w)
                 \/ TakeJob(w) \/ BatchDone(w) \/ Stop(w) \/ Exit(w) \/ Unavailable(w)
         PROVE Kept
    BY <1>3, <1>10 DEF Start, Sweep, StartFails, ListEligible, TakeJob, BatchDone, Stop, Exit,
                       Unavailable, rowVars
  <1>11. ASSUME NEW w \in Workers, RenewRefused(w) \/ Lose(w) \/ Crash(w) \/ Prepare(w)
                  \/ Decrypt(w) \/ Adapt(w) \/ PhaseFails(w) \/ Cleanup(w)
         PROVE Kept
    BY <1>3, <1>11 DEF RenewRefused, Lose, Crash, Prepare, Decrypt, Adapt, PhaseFails, Cleanup,
                       rowVars
  <1>12. ASSUME NEW o \in orphans, OrphanDies(o) PROVE Kept
    BY <1>3, <1>12 DEF OrphanDies, rowVars
  <1>13. ASSUME UNCHANGED vars PROVE Kept
    BY <1>3, <1>13 DEF vars, rowVars
  <1> QED
    BY <1>4, <1>5, <1>6, <1>7, <1>8, <1>9, <1>10, <1>11, <1>12, <1>13 DEF Next, Loop, Disturbed

LEMMA LeaseStep == LeaseInv /\ [Next]_vars => LeaseInv'
  <1> SUFFICES ASSUME LeaseInv, [Next]_vars PROVE LeaseInv'
    OBVIOUS
  <1>1. TypeInv /\ TypeInv'
    BY TypeStep DEF LeaseInv
  <1>2. ASSUME \A v \in Workers : stale'[v] \subseteq stale[v] PROVE SweptDead'
    <2>1. \A v \in Workers : \A d \in stale[v] : d[1] \in Jobs /\ d[2] \in Leases
      BY <1>1 DEF TypeInv, TypeOK, LoopTypes
    <2>2. CASE LeaseTaken
      <3>1. PICK w \in Workers : /\ pc[w] = "acquire"
                                 /\ \E l \in FreshLeases(cur[w]) :
                                      /\ lease' = [lease EXCEPT ![cur[w]] = l]
                                      /\ live' = [live EXCEPT ![cur[w]] = TRUE]
        BY <2>2 DEF LeaseTaken
      <3> PICK l \in FreshLeases(cur[w]) : /\ lease' = [lease EXCEPT ![cur[w]] = l]
                                           /\ live' = [live EXCEPT ![cur[w]] = TRUE]
        BY <3>1
      <3>2. cur[w] \in Jobs
        BY <3>1, <1>1 DEF TypeInv, RunShape
      <3>3. \A v \in Workers : \A d \in stale[v] : d[2] # l
        BY <3>2, FreshLease
      <3> QED
        BY <1>1, <1>2, <2>1, <3>1, <3>2, <3>3
        DEF LeaseInv, SweptDead, RowHolds, TypeInv, TypeOK, RowTypes
    <2>3. CASE \A j \in Jobs, l \in Leases : RowHolds(j, l)' => RowHolds(j, l)
      BY <1>2, <2>1, <2>3 DEF LeaseInv, SweptDead, RowHolds
    <2> QED
      BY <1>1, <2>2, <2>3, LeaseChanges
  <1>3. ASSUME UNCHANGED held PROVE HeldOnce'
    BY <1>3 DEF LeaseInv, HeldOnce
  <1>4. ASSUME UNCHANGED held, orphans' \subseteq orphans, UNCHANGED pc PROVE OrphansLost'
    BY <1>4 DEF LeaseInv, OrphansLost
  <1>5. ASSUME NEW w \in Workers, UNCHANGED <<held, orphans>>,
               pc[w] \in Ending => held[w] = NoLease \/ pc'[w] \in Ending,
               \A v \in Workers \ {w} : pc'[v] = pc[v]
        PROVE  OrphansLost'
    BY <1>1, <1>5, LeasesAssumption DEF LeaseInv, OrphansLost, TypeInv, TypeOK, OrphanTypes
  <1>6. ASSUME UNCHANGED vars PROVE LeaseInv'
    BY <1>6 DEF LeaseInv, TypeInv, TypeOK, RowTypes, DiskTypes, LoopTypes, RunTypes, OrphanTypes,
       RunShape, HeldOnce, OrphansLost, SweptDead, RowHolds, vars, rowVars, diskVars, loopVars, runVars
  <1>7. ASSUME NEW w \in Workers,
               Start(w) \/ Sweep(w) \/ StartFails(w) \/ ListEligible(w) \/ TakeJob(w)
               \/ BatchDone(w) \/ Stop(w) \/ Exit(w) \/ Unavailable(w) \/ AcquireError(w)
        PROVE  LeaseInv'
    <2>1. UNCHANGED <<held, orphans>>
      BY <1>7 DEF Start, Sweep, StartFails, ListEligible, TakeJob, BatchDone, Stop, Exit, Unavailable,
                  AcquireError, runVars
    <2>2. \A v \in Workers : stale'[v] \subseteq stale[v]
      BY <1>1, <1>7 DEF Start, Sweep, StartFails, ListEligible, TakeJob, BatchDone, Stop, Exit,
                  Unavailable, AcquireError, loopVars, TypeInv, TypeOK, LoopTypes
    <2>3. pc[w] \in Outside \/ pc' = pc
      BY <1>7 DEF Outside, Start, Sweep, StartFails, ListEligible, TakeJob, BatchDone, Stop, Exit,
                  Unavailable, AcquireError
    <2>4. \A v \in Workers \ {w} : pc'[v] = pc[v]
      BY <1>1, <1>7 DEF Start, Sweep, StartFails, ListEligible, TakeJob, BatchDone, Stop, Exit,
                  Unavailable, AcquireError, Go, TypeInv, TypeOK, LoopTypes
    <2>5. pc[w] \in Ending => pc'[w] \in Ending
      BY <2>3, Names
    <2> QED
      BY <1>1, <1>2, <1>3, <1>5, <2>1, <2>2, <2>4, <2>5 DEF LeaseInv
  <1>8. ASSUME NEW w \in Workers, RecoverExpired(w) PROVE LeaseInv'
    <2>1. OrphansLost' /\ HeldOnce'
      <3>1. \A v \in Workers \ {w} : pc'[v] = pc[v]
        BY <1>1, <1>8 DEF RecoverExpired, Go, TypeInv, TypeOK, LoopTypes
      <3>2. pc[w] \notin Ending
        BY <1>8 DEF RecoverExpired, Ending
      <3>3. UNCHANGED <<held, orphans>>
        BY <1>8 DEF RecoverExpired, runVars
      <3> QED
        BY <1>3, <1>5, <3>1, <3>2, <3>3
    <2>2. \A v \in Workers : \A d \in stale'[v] :
            d \in stale[v] \/ \E j \in Recoverable : d = <<j, lease[j]>>
      BY <1>1, <1>8 DEF RecoverExpired, TypeInv, TypeOK, LoopTypes
    <2>3. \A j \in Jobs : ~live'[j] \/ (lease'[j] = lease[j] /\ live'[j] = live[j])
      BY <1>1, <1>8 DEF RecoverExpired, Recoverable, TypeInv, TypeOK, RowTypes
    <2>4. \A j \in Recoverable : ~live'[j] /\ j \in Jobs
      BY <1>8 DEF RecoverExpired, Recoverable
    <2>5. \A v \in Workers : \A d \in stale[v] : d[1] \in Jobs
      BY <1>1 DEF TypeInv, TypeOK, LoopTypes
    <2>6. SweptDead'
      BY <2>2, <2>3, <2>4, <2>5 DEF LeaseInv, SweptDead, RowHolds
    <2> QED
      BY <1>1, <2>1, <2>6 DEF LeaseInv
  <1>9. ASSUME NEW w \in Workers, Acquire(w) PROVE LeaseInv'
    <2>1. PICK l \in FreshLeases(cur[w]) : held' = [held EXCEPT ![w] = l]
      BY <1>9 DEF Acquire
    <2>2. cur[w] \in Jobs
      BY <1>1, <1>9 DEF Acquire, TypeInv, RunShape
    <2>3. HeldOnce'
      BY <1>1, <2>1, <2>2, FreshLease DEF LeaseInv, HeldOnce, TypeInv, TypeOK, RunTypes
    <2>4. OrphansLost'
      <3>1. orphans' = orphans /\ \A v \in Workers \ {w} : pc'[v] = pc[v] /\ held'[v] = held[v]
        BY <1>1, <1>9, <2>1 DEF Acquire, Go, TypeInv, TypeOK, LoopTypes, RunTypes
      <3>2. \A o \in orphans : o.lease # held'[w]
        BY <1>1, <2>1, <2>2, FreshLease DEF TypeInv, TypeOK, RunTypes
      <3> QED
        BY <3>1, <3>2 DEF LeaseInv, OrphansLost
    <2>5. SweptDead'
      BY <1>2, <1>9 DEF Acquire, loopVars
    <2> QED
      BY <1>1, <2>3, <2>4, <2>5 DEF LeaseInv
  <1>10. ASSUME NEW w \in Workers,
                RenewRefused(w) \/ RowStep(w) \/ RowError(w) \/ Prepare(w) \/ Decrypt(w)
                \/ Adapt(w) \/ PhaseFails(w) \/ Cleanup(w)
         PROVE  LeaseInv'
    <2>1. UNCHANGED <<held, orphans, stale>>
      BY <1>10 DEF RenewRefused, RowStep, RowError, Prepare, Decrypt, Adapt, PhaseFails, Cleanup,
                   runVars, loopVars
    <2>2. pc[w] \in Ending => pc'[w] \in Ending
      BY <1>1, <1>10, Names DEF RenewRefused, RowStep, RowError, Prepare, Decrypt, Adapt, PhaseFails,
                   Cleanup, Go, Ending, TypeInv, TypeOK, LoopTypes
    <2>3. \A v \in Workers \ {w} : pc'[v] = pc[v]
      BY <1>1, <1>10 DEF RenewRefused, RowStep, RowError, Prepare, Decrypt, Adapt, PhaseFails, Cleanup,
                   Go, Fail, TypeInv, TypeOK, LoopTypes
    <2> QED
      BY <1>1, <1>2, <1>3, <1>5, <2>1, <2>2, <2>3 DEF LeaseInv
  <1>11. ASSUME NEW w \in Workers, Lose(w) PROVE LeaseInv'
    <2>1. UNCHANGED <<held, stale>>
      BY <1>11 DEF Lose, loopVars
    <2>2. \A v \in Workers \ {w} : pc'[v] = pc[v]
      BY <1>1, <1>11 DEF Lose, Go, TypeInv, TypeOK, LoopTypes
    <2>3. pc'[w] \in Ending
      BY <1>1, <1>11 DEF Lose, Go, Ending, TypeInv, TypeOK, LoopTypes
    <2>4. \A o \in orphans' : o \in orphans \/ (o.lease = held[w] /\ held[w] # NoLease)
      BY <1>1, <1>11, Names, LeasesAssumption DEF Lose, TypeInv, RunShape
    <2>5. OrphansLost'
      BY <2>1, <2>2, <2>3, <2>4 DEF LeaseInv, OrphansLost, HeldOnce
    <2> QED
      BY <1>1, <1>2, <1>3, <2>1, <2>5 DEF LeaseInv
  <1>12. ASSUME NEW w \in Workers, Release(w) \/ Crash(w) PROVE LeaseInv'
    <2>1. held' = [held EXCEPT ![w] = NoLease]
      BY <1>12 DEF Release, Crash, EndRun
    <2>2. \A v \in Workers \ {w} : pc'[v] = pc[v]
      BY <1>1, <1>12 DEF Release, Crash, Go, TypeInv, TypeOK, LoopTypes
    <2>3. \A v \in Workers : stale'[v] \subseteq stale[v]
      BY <1>1, <1>12 DEF Release, Crash, loopVars, TypeInv, TypeOK, LoopTypes
    <2>4. \A o \in orphans' : /\ o.lease # NoLease
                              /\ o \in orphans \/ o.lease = held[w]
      <3>1. \A o \in orphans' : o.lease # NoLease
        BY <1>1, LeasesAssumption DEF TypeInv, TypeOK, OrphanTypes
      <3> QED
        BY <1>12, <3>1 DEF Release, Crash
    <2>5. HeldOnce'
      BY <1>1, <2>1 DEF LeaseInv, HeldOnce, TypeInv, TypeOK, RunTypes
    <2>6. OrphansLost'
      BY <1>1, <2>1, <2>2, <2>4 DEF LeaseInv, OrphansLost, HeldOnce, TypeInv, TypeOK, RunTypes
    <2> QED
      BY <1>1, <1>2, <2>3, <2>5, <2>6 DEF LeaseInv
  <1>13. ASSUME NEW j \in Jobs, Expire(j) PROVE LeaseInv'
    BY <1>1, <1>2, <1>3, <1>4, <1>13 DEF Expire, runVars, loopVars, LeaseInv
  <1>14. ASSUME NEW o \in orphans, OrphanActs(o) \/ OrphanDies(o) PROVE LeaseInv'
    BY <1>1, <1>2, <1>3, <1>4, <1>14 DEF OrphanActs, OrphanDies, runVars, loopVars, LeaseInv
  <1> QED
    BY <1>6, <1>7, <1>8, <1>9, <1>10, <1>11, <1>12, <1>13, <1>14 DEF Next, Loop, Disturbed

LEMMA LeaseInvariant == Spec => []LeaseInv
  <1>1. Init => LeaseInv
    <2>1. Init => HeldOnce /\ OrphansLost /\ SweptDead
      BY DEF Init, HeldOnce, OrphansLost, SweptDead
    <2> QED
      BY <2>1, TypeInit DEF LeaseInv
  <1> QED
    BY <1>1, LeaseStep, PTL DEF Spec

-----------------------------------------------------------------------------
(***************************************************************************)
(* What a fence violation means.                                           *)
(***************************************************************************)
(* A run that holds its row after a step held it before: leases are fresh    *)
(* when they are taken and are never revived.                                *)
LEMMA HeldBefore ==
  ASSUME LeaseInv, [Next]_vars, NEW v \in Workers,
         pc[v] \in Running, cur'[v] = cur[v], held'[v] = held[v],
         RowHolds(cur[v], held[v])'
  PROVE  RowHolds(cur[v], held[v])
  <1>1. RowTypes /\ cur[v] \in Jobs /\ held[v] \in Leases
    BY DEF LeaseInv, TypeInv, TypeOK, RunShape
  <1>2. CASE LeaseTaken
    <2>1. PICK w \in Workers : /\ pc[w] = "acquire"
                               /\ \E l \in FreshLeases(cur[w]) :
                                    /\ lease' = [lease EXCEPT ![cur[w]] = l]
                                    /\ live' = [live EXCEPT ![cur[w]] = TRUE]
      BY <1>2 DEF LeaseTaken
    <2> PICK l \in FreshLeases(cur[w]) : /\ lease' = [lease EXCEPT ![cur[w]] = l]
                                         /\ live' = [live EXCEPT ![cur[w]] = TRUE]
      BY <2>1
    <2>2. cur[w] \in Jobs
      BY <2>1 DEF LeaseInv, TypeInv, RunShape
    <2>3. held[v] # l
      BY <2>2, FreshLease
    <2> QED
      BY <1>1, <2>2, <2>3 DEF RowHolds, RowTypes
  <1>3. CASE \A j \in Jobs, l \in Leases : RowHolds(j, l)' => RowHolds(j, l)
    BY <1>1, <1>3 DEF RowHolds
  <1> QED
    BY <1>2, <1>3, LeaseChanges DEF LeaseInv

(* Nobody else touches the row of a run that holds it: if the run awaits the *)
(* same operation after a step and its row still holds, it held before, and  *)
(* status and retryability are as they were.                                 *)
LEMMA Undisturbed ==
  ASSUME LeaseInv, [Next]_vars, NEW v \in Workers,
         pc[v] \in Awaited, pc'[v] = pc[v], RowHolds(cur[v], held[v])'
  PROVE  /\ RowHolds(cur[v], held[v])
         /\ cur'[v] = cur[v] /\ held'[v] = held[v]
         /\ status'[cur[v]] = status[cur[v]] /\ retryable'[cur[v]] = retryable[cur[v]]
  <1>1. /\ RowTypes /\ RunTypes /\ LoopTypes
        /\ cur[v] \in Jobs /\ held[v] \in Leases /\ held[v] # NoLease
    BY Names, LeasesAssumption DEF LeaseInv, TypeInv, TypeOK, RunShape
  <1>2. cur'[v] = cur[v] /\ held'[v] = held[v]
    <2>1. ASSUME NEW w \in Workers, Release(w) \/ Crash(w) PROVE UNCHANGED <<cur[v], held[v]>>
      BY <1>1, <2>1, Names DEF Release, Crash, EndRun, RunTypes, LoopTypes, Go, Outside
    <2>2. ASSUME NEW w \in Workers,
                 TakeJob(w) \/ Acquire(w) \/ Unavailable(w) \/ AcquireError(w)
          PROVE  UNCHANGED <<cur[v], held[v]>>
      BY <1>1, <2>2, Names DEF TakeJob, Acquire, Unavailable, AcquireError, RunTypes, Outside
    <2>3. ASSUME NEW w \in Workers,
                 Start(w) \/ RecoverExpired(w) \/ Sweep(w) \/ StartFails(w) \/ ListEligible(w)
                 \/ BatchDone(w) \/ Stop(w) \/ Exit(w)
          PROVE  UNCHANGED <<cur[v], held[v]>>
      BY <2>3 DEF Start, RecoverExpired, Sweep, StartFails, ListEligible, BatchDone, Stop, Exit, runVars
    <2>4. ASSUME NEW w \in Workers,
                 RenewRefused(w) \/ Lose(w) \/ RowStep(w) \/ RowError(w) \/ Prepare(w)
                 \/ Decrypt(w) \/ Adapt(w) \/ PhaseFails(w) \/ Cleanup(w)
          PROVE  UNCHANGED <<cur[v], held[v]>>
      BY <2>4 DEF RenewRefused, Lose, RowStep, RowError, Prepare, Decrypt, Adapt, PhaseFails, Cleanup, runVars
    <2>5. ASSUME NEW j \in Jobs, Expire(j) PROVE UNCHANGED <<cur[v], held[v]>>
      BY <2>5 DEF Expire, runVars
    <2>6. ASSUME NEW o \in orphans, OrphanActs(o) \/ OrphanDies(o)
          PROVE  UNCHANGED <<cur[v], held[v]>>
      BY <2>6 DEF OrphanActs, OrphanDies, runVars
    <2>7. ASSUME UNCHANGED vars PROVE UNCHANGED <<cur[v], held[v]>>
      BY <2>7 DEF vars, runVars
    <2> QED
      BY <2>1, <2>2, <2>3, <2>4, <2>5, <2>6, <2>7 DEF Next, Loop, Disturbed
  <1>3. RowHolds(cur[v], held[v])
    BY <1>2, HeldBefore, Names
  <1>4. status'[cur[v]] = status[cur[v]] /\ retryable'[cur[v]] = retryable[cur[v]]
    <2>1. ASSUME NEW op \in RowOps, NEW j \in Jobs, NEW l \in Leases, NEW r \in BOOLEAN,
                 Written(op, j, l, r), Author(op, l)
          PROVE  status'[cur[v]] = status[cur[v]] /\ retryable'[cur[v]] = retryable[cur[v]]
      <3>1. lease[j] = l
        BY <2>1 DEF Written, Fenced, RowHolds
      <3>2. held[v] # l
        BY <1>1, <2>1, Names DEF Author, LeaseInv, HeldOnce, OrphansLost
      <3>3. cur[v] # j
        BY <1>3, <3>1, <3>2 DEF RowHolds
      <3> QED
        BY <1>1, <2>1, <3>3 DEF Written, WriteRow, RowTypes
    <2>2. CASE Requeued
      BY <1>1, <1>3, <2>2 DEF Requeued, Recoverable, RowHolds
    <2>3. CASE UNCHANGED <<status, retryable, effects>>
      BY <2>3
    <2> QED
      BY <2>1, <2>2, <2>3, RowChanges DEF SomeRowWritten, LeaseInv
  <1> QED
    BY <1>2, <1>3, <1>4

(* The status a run's row has while the run awaits work, if it holds the row. *)
AwaitedStatus == [prepare |-> "leased", decrypt |-> "decrypting", adapt |-> "adapting"]

InStep(w) ==
  RowHolds(cur[w], held[w]) =>
    /\ pc[w] \in RowOps \ {"markFailed"} => Fenced(pc[w], cur[w], held[w])
    /\ pc[w] = "markFailed" => \/ status[cur[w]] \in ActiveStatuses
                               \/ Open(cur[w]) /\ "db" \in Disturbances
    /\ pc[w] \in WorkOps => status[cur[w]] = AwaitedStatus[pc[w]]

AllInStep == \A w \in Workers : InStep(w)

(* What follows an operation asks for the status that operation leaves.      *)
LEMMA AfterTables ==
  /\ \A op \in RowOps \ (Closing \cup {"markFailed"}) :
       /\ After[op] \in RowOps \ {"markFailed"} => To[op] \in From[After[op]]
       /\ After[op] \in WorkOps => To[op] = AwaitedStatus[After[op]]
       /\ After[op] \in Awaited \ {"markFailed", "markLeased"}
  /\ \A op \in WorkOps : /\ After[op] \in RowOps \ {"markFailed", "markLeased"}
                         /\ AwaitedStatus[op] \in From[After[op]]
                         /\ AwaitedStatus[op] \in ActiveStatuses
  BY DEF After, From, To, AwaitedStatus, Awaited, RowOps, WorkOps, Closing, ActiveStatuses

LEMMA InStepStep == LeaseInv /\ AllInStep /\ [Next]_vars => AllInStep'
  <1> SUFFICES ASSUME LeaseInv, AllInStep, [Next]_vars, NEW v \in Workers PROVE InStep(v)'
    BY DEF AllInStep
  <1>1. /\ RowTypes /\ RunTypes /\ LoopTypes /\ RunShape
        /\ \A w \in Workers : pc[w] \in Running => cur[w] \in Jobs /\ held[w] \in Leases
    BY DEF LeaseInv, TypeInv, TypeOK, RunShape
  <1>2. ASSUME pc'[v] = pc[v] PROVE InStep(v)'
    <2> SUFFICES ASSUME RowHolds(cur[v], held[v])', pc[v] \in Awaited PROVE InStep(v)'
      BY <1>2, Names DEF InStep
    <2>1. /\ RowHolds(cur[v], held[v])
          /\ cur'[v] = cur[v] /\ held'[v] = held[v]
          /\ status'[cur[v]] = status[cur[v]] /\ retryable'[cur[v]] = retryable[cur[v]]
      BY <1>2, Undisturbed
    <2> QED
      BY <1>2, <2>1 DEF InStep, AllInStep, Fenced, RowHolds, Open
  <1>3. ASSUME pc'[v] \notin Awaited PROVE InStep(v)'
    BY <1>3, Names DEF InStep
  <1>4. ASSUME Acquire(v) PROVE InStep(v)'
    <2>1. pc'[v] = "markLeased" /\ cur'[v] = cur[v] /\ cur[v] \in Jobs
      BY <1>1, <1>4 DEF Acquire, Go, LoopTypes, RunShape
    <2>2. status'[cur[v]] \in From["markLeased"]
          /\ (status'[cur[v]] # "failed" \/ retryable'[cur[v]])
      BY <1>4, StageTables DEF Acquire, Claimable, Open
    <2> QED
      BY <2>1, <2>2, Names DEF InStep, Fenced
  <1>5. ASSUME RowStep(v) PROVE InStep(v)'
    <2>1. pc[v] \in RowOps /\ cur[v] \in Jobs /\ held[v] \in Leases
      BY <1>1, <1>5, Names DEF RowStep
    <2>2. CASE ~Fenced(pc[v], cur[v], held[v])
      <3>1. pc'[v] = "cleanup"
        BY <1>1, <1>5, <2>2 DEF RowStep, Go, LoopTypes
      <3> QED
        BY <3>1, <1>3, Names DEF Ending
    <2>3. CASE Fenced(pc[v], cur[v], held[v])
      <3>1. /\ pc'[v] = After[pc[v]] /\ WriteRow(pc[v], cur[v], retry[v])
            /\ cur'[v] = cur[v] /\ held'[v] = held[v]
        BY <1>1, <1>5, <2>3 DEF RowStep, Go, LoopTypes
      <3>2. CASE pc[v] \in Closing
        <4>1. After[pc[v]] = "cleanup"
          BY <3>2 DEF Closing, After
        <4> QED
          BY <3>1, <4>1, <1>3, Names DEF Ending
      <3>3. CASE pc[v] \notin Closing
        <4>1. status'[cur[v]] = To[pc[v]]
          BY <1>1, <2>1, <3>1 DEF WriteRow, RowTypes
        <4>2. pc[v] \in RowOps \ (Closing \cup {"markFailed"})
          BY <2>1, <3>3 DEF Closing
        <4> QED
          BY <3>1, <4>1, <4>2, AfterTables, Names DEF InStep, Fenced
      <3> QED
        BY <3>2, <3>3
    <2> QED
      BY <2>2, <2>3
  <1>6. ASSUME Prepare(v) \/ Decrypt(v) \/ Adapt(v) PROVE InStep(v)'
    <2>1. pc[v] \in WorkOps
      BY <1>6, Names DEF Prepare, Decrypt, Adapt
    <2>2. CASE pc'[v] = "markFailed"
      <3>1. /\ UNCHANGED <<status, lease, live, retryable, cur, held>>
            /\ pc[v] \in WorkOps
        BY <2>1, <1>6 DEF Prepare, Decrypt, Adapt, rowVars, runVars
      <3>2. RowHolds(cur[v], held[v])' => status[cur[v]] = AwaitedStatus[pc[v]]
        BY <3>1 DEF AllInStep, InStep, RowHolds
      <3> QED
        BY <2>2, <3>1, <3>2, AfterTables, Names DEF InStep
    <2>3. CASE pc'[v] = After[pc[v]]
      <3>1. UNCHANGED <<status, lease, live, retryable, cur, held>>
        BY <1>6 DEF Prepare, Decrypt, Adapt, rowVars, runVars
      <3>2. RowHolds(cur[v], held[v])' => status[cur[v]] = AwaitedStatus[pc[v]]
        BY <2>1, <3>1 DEF AllInStep, InStep, RowHolds
      <3> QED
        BY <2>1, <2>3, <3>1, <3>2, AfterTables, Names DEF InStep, Fenced
    <2> QED
      BY <1>1, <1>6, <2>2, <2>3 DEF Prepare, Decrypt, Adapt, Go, Fail, LoopTypes
  <1>7. ASSUME Lose(v) PROVE InStep(v)'
    <2>1. pc'[v] \in {"cleanup"} \cup {pc[v]}
      BY <1>1, <1>7 DEF Lose, Go, LoopTypes
    <2> QED
      BY <2>1, <1>2, <1>3, Names DEF Ending
  <1>12. ASSUME PhaseFails(v) PROVE InStep(v)'
    <2>1. /\ pc'[v] = "markFailed" /\ pc[v] \in {"decrypt", "adapt", "import"}
          /\ UNCHANGED <<status, lease, live, retryable, cur, held>>
      BY <1>1, <1>12 DEF PhaseFails, Fail, Go, LoopTypes, rowVars
    <2>2. RowHolds(cur[v], held[v])' => status[cur[v]] \in ActiveStatuses
      <3>1. CASE pc[v] \in {"decrypt", "adapt"}
        BY <2>1, <3>1, AfterTables DEF AllInStep, InStep, RowHolds, WorkOps
      <3>2. CASE pc[v] = "import"
        <4>1. From["import"] \subseteq ActiveStatuses /\ "import" \in RowOps \ {"markFailed"}
          BY StageTables DEF RowOps
        <4> QED
          BY <2>1, <3>2, <4>1 DEF AllInStep, InStep, RowHolds, Fenced
      <3> QED
        BY <2>1, <3>1, <3>2
    <2> QED
      BY <2>1, <2>2, Names DEF InStep
  <1>13. ASSUME RowError(v) PROVE InStep(v)'
    <2>1. /\ pc[v] \in RowOps /\ "db" \in Disturbances /\ cur[v] \in Jobs /\ held[v] \in Leases
          /\ cur'[v] = cur[v] /\ held'[v] = held[v]
      BY <1>1, <1>13, Names DEF RowError
    <2>2. CASE pc[v] = "markFailed"
      <3>1. pc'[v] = "cleanup"
        BY <1>1, <1>13, <2>2 DEF RowError, Go, LoopTypes
      <3> QED
        BY <3>1, <1>3, Names DEF Ending
    <2>3. CASE pc[v] # "markFailed"
      <3>1. pc'[v] = "markFailed"
        BY <1>1, <1>13, <2>3 DEF RowError, Fail, Go, LoopTypes
      <3>2. CASE UNCHANGED rowVars
        <4>1. RowHolds(cur[v], held[v])' => Fenced(pc[v], cur[v], held[v])
          BY <2>1, <2>3, <3>2 DEF AllInStep, InStep, RowHolds, rowVars
        <4>2. Fenced(pc[v], cur[v], held[v])
                => status[cur[v]] \in ActiveStatuses \/ Open(cur[v])
          BY <2>1, <2>3, StageTables DEF Fenced, Open
        <4>3. UNCHANGED <<status, retryable>>
          BY <3>2 DEF rowVars
        <4> QED
          BY <2>1, <3>1, <4>1, <4>2, <4>3, Names DEF InStep, Open
      <3>3. CASE WriteRow(pc[v], cur[v], retry[v])
        <4>1. CASE pc[v] \in Closing
          <5>1. ~live'[cur[v]]
            BY <1>1, <2>1, <3>3, <4>1 DEF WriteRow, RowTypes
          <5> QED
            BY <2>1, <5>1 DEF InStep, RowHolds
        <4>2. CASE pc[v] \notin Closing
          <5>1. status'[cur[v]] = To[pc[v]] /\ To[pc[v]] \in ActiveStatuses
            BY <1>1, <2>1, <3>3, <4>2, StageTables DEF WriteRow, RowTypes
          <5> QED
            BY <2>1, <3>1, <5>1, Names DEF InStep
        <4> QED
          BY <4>1, <4>2
      <3> QED
        BY <1>13, <3>2, <3>3 DEF RowError
    <2> QED
      BY <2>2, <2>3
  <1>8. ASSUME Start(v) \/ RecoverExpired(v) \/ Sweep(v) \/ StartFails(v) \/ ListEligible(v)
               \/ TakeJob(v) \/ BatchDone(v) \/ Exit(v) \/ Unavailable(v)
               \/ AcquireError(v) \/ Release(v) \/ Crash(v)
        PROVE InStep(v)'
    <2>1. pc'[v] \in Outside
      BY <1>1, <1>8 DEF Start, RecoverExpired, Sweep, StartFails, ListEligible, TakeJob, BatchDone,
                  Exit, Unavailable, AcquireError, Release, Crash, Go, LoopTypes, Outside
    <2> QED
      BY <2>1, <1>3, Names
  <1>9. ASSUME Cleanup(v) PROVE InStep(v)'
    BY <1>1, <1>3, <1>9, Names DEF Cleanup, Go, LoopTypes, Ending
  <1>10. ASSUME NEW w \in Workers, w # v, Loop(w) \/ Disturbed(w) PROVE pc'[v] = pc[v]
    BY <1>1, <1>10 DEF Loop, Disturbed, Start, RecoverExpired, Sweep, StartFails, ListEligible,
         TakeJob, BatchDone, Stop, Exit, Acquire, Unavailable, AcquireError, RenewRefused, Lose,
         RowStep, RowError, Prepare, Decrypt, Adapt, PhaseFails, Cleanup, Release, Crash,
         Go, Fail, LoopTypes
  <1>11. ASSUME \/ Stop(v) \/ RenewRefused(v)
                \/ \E j \in Jobs : Expire(j)
                \/ \E o \in orphans : OrphanActs(o) \/ OrphanDies(o)
                \/ UNCHANGED vars
         PROVE pc'[v] = pc[v]
    BY <1>11 DEF Stop, RenewRefused, Expire, OrphanActs, OrphanDies, vars
  <1> QED
    BY <1>2, <1>4, <1>5, <1>6, <1>7, <1>8, <1>9, <1>10, <1>11, <1>12, <1>13
    DEF Next, Loop, Disturbed

(* A runner that still holds its row finds it as its next statement asks,    *)
(* failing ones included: LeaseFenceError is thrown only when the lease was  *)
(* lost, or when a markLeased that was not committed left the job open.      *)
THEOREM FenceErrorsExplained == Spec => []FenceErrorExplained
  <1>1. Init => AllInStep
    BY Names DEF Init, AllInStep, InStep, Outside
  <1>2. LeaseInv /\ AllInStep => FenceErrorExplained
    <2> SUFFICES ASSUME LeaseInv, AllInStep, NEW w \in Workers,
                        pc[w] \in RowOps, RowHolds(cur[w], held[w])
                 PROVE  \/ Fenced(pc[w], cur[w], held[w])
                        \/ pc[w] = "markFailed" /\ Open(cur[w]) /\ "db" \in Disturbances
      BY DEF FenceErrorExplained
    <2>1. CASE pc[w] # "markFailed"
      BY <2>1 DEF AllInStep, InStep
    <2>2. CASE pc[w] = "markFailed"
      <3>1. From["markFailed"] = ActiveStatuses
        BY DEF From
      <3> QED
        BY <2>2, <3>1 DEF AllInStep, InStep, Fenced
    <2> QED
      BY <2>1, <2>2
  <1>3. Spec => []AllInStep
    BY <1>1, LeaseInvariant, InStepStep, PTL DEF Spec
  <1> QED
    BY <1>2, <1>3, LeaseInvariant, PTL

-----------------------------------------------------------------------------
(***************************************************************************)
(* Stale actors.  A leased job is out of reach of whoever acts under       *)
(* another lease, or under none.                                           *)
(***************************************************************************)
OutOfReach(j, l) ==
  live[j] /\ lease[j] # l /\ ActsFor(l)
    => /\ RowKept(j)
       /\ {<<j, lease[j]>>} \cap dirs \subseteq dirs'

LEMMA OutOfReachStep ==
  ASSUME LeaseInv, [Next]_vars, NEW j \in Jobs, NEW l \in Leases \cup {NoLease}
  PROVE  OutOfReach(j, l)
  <1> SUFFICES ASSUME live[j], lease[j] # l, ActsFor(l)
               PROVE  RowKept(j) /\ {<<j, lease[j]>>} \cap dirs \subseteq dirs'
    BY DEF OutOfReach
  <1> DEFINE Goal == RowKept(j) /\ {<<j, lease[j]>>} \cap dirs \subseteq dirs'
  <1>1. /\ RowTypes /\ LoopTypes
        /\ \A w \in Workers : pc[w] \in Running => cur[w] \in Jobs /\ held[w] \in Leases
        /\ \A w \in Workers : pc[w] = "acquire" => cur[w] \in Jobs
    BY DEF LeaseInv, TypeInv, TypeOK, RunShape
  <1>2. ASSUME UNCHANGED rowVars PROVE RowKept(j)
    BY <1>2 DEF rowVars, RowKept
  <1>3. ASSUME NEW w \in Workers, Loop(w) \/ Disturbed(w) PROVE held[w] = l
    <2>1. \A v \in Workers \ {w} : pc'[v] = pc[v] /\ stale'[v] = stale[v]
      BY <1>1, <1>3 DEF Loop, Disturbed, Start, RecoverExpired, Sweep, StartFails, ListEligible,
         TakeJob, BatchDone, Stop, Exit, Acquire, Unavailable, AcquireError, RenewRefused, Lose,
         RowStep, RowError, Prepare, Decrypt, Adapt, PhaseFails, Cleanup, Release, Crash,
         Go, Fail, LoopTypes, loopVars
    <2>2. orphans \subseteq orphans'
      BY <1>3 DEF Loop, Disturbed, Start, RecoverExpired, Sweep, StartFails, ListEligible,
         TakeJob, BatchDone, Stop, Exit, Acquire, Unavailable, AcquireError, RenewRefused, Lose,
         RowStep, RowError, Prepare, Decrypt, Adapt, PhaseFails, Cleanup, Release, Crash
    <2> QED
      BY <2>1, <2>2 DEF ActsFor
  <1>4. ASSUME NEW w \in Workers, RowStep(w) \/ RowError(w) PROVE Goal
    <2>1. held[w] = l
      BY <1>3, <1>4 DEF Loop, Disturbed
    <2>2. cur[w] \in Jobs /\ UNCHANGED dirs
      BY <1>1, <1>4, Names DEF RowStep, RowError, diskVars
    <2>3. (RowHolds(cur[w], held[w]) /\ WriteRow(pc[w], cur[w], retry[w])) \/ UNCHANGED rowVars
      BY <1>4 DEF RowStep, RowError, Fenced
    <2>4. RowKept(j)
      BY <1>1, <1>2, <2>1, <2>2, <2>3 DEF WriteRow, RowHolds, RowKept, RowTypes
    <2> QED
      BY <2>2, <2>4
  <1>5. ASSUME NEW w \in Workers, Acquire(w) \/ AcquireError(w) PROVE Goal
    <2>1. cur[w] \in Jobs
      BY <1>1, <1>5 DEF Acquire, AcquireError
    <2>2. \/ UNCHANGED rowVars
          \/ /\ ~live[cur[w]]
             /\ UNCHANGED <<status, retryable, effects>>
             /\ \E k : lease' = [lease EXCEPT ![cur[w]] = k]
             /\ live' = [live EXCEPT ![cur[w]] = TRUE]
      BY <1>5 DEF Acquire, AcquireError, Claimable, rowVars
    <2> QED
      BY <1>1, <1>2, <1>5, <2>1, <2>2 DEF Acquire, AcquireError, RowKept, RowTypes, diskVars
  <1>6. ASSUME NEW w \in Workers, RecoverExpired(w) PROVE Goal
    BY <1>1, <1>6 DEF RecoverExpired, Recoverable, RowKept, RowTypes, diskVars
  <1>7. ASSUME NEW w \in Workers, Release(w) PROVE Goal
    <2>1. held[w] = l /\ cur[w] \in Jobs
      BY <1>1, <1>3, <1>7, Names DEF Loop, Release, Ending
    <2> QED
      BY <1>1, <1>7, <2>1 DEF Release, ReleaseRow, ClearLease, RowHolds, RowKept, RowTypes, diskVars
  <1>8. ASSUME NEW w \in Workers, Sweep(w) PROVE Goal
    <2>1. \A d \in stale[w] : d # <<j, lease[j]>>
      BY DEF LeaseInv, SweptDead, RowHolds
    <2> QED
      BY <1>2, <1>8, <2>1 DEF Sweep, RemoveDirs, diskVars
  <1>9. ASSUME NEW w \in Workers, Cleanup(w) PROVE Goal
    <2>1. WorkDir(w) # <<j, lease[j]>>
      BY <1>3, <1>9 DEF Loop, WorkDir
    <2> QED
      BY <1>2, <1>9, <2>1 DEF Cleanup, RemoveDirs, diskVars
  <1>10. ASSUME NEW w \in Workers,
                Prepare(w) \/ Decrypt(w) \/ Adapt(w) \/ PhaseFails(w) \/ Lose(w)
                \/ RenewRefused(w) \/ Crash(w)
         PROVE  Goal
    BY <1>2, <1>10 DEF Prepare, Decrypt, Adapt, PhaseFails, Lose, RenewRefused, Crash,
       MakeDir, WritePlaintext, diskVars
  <1>11. ASSUME NEW w \in Workers,
                Start(w) \/ StartFails(w) \/ ListEligible(w) \/ TakeJob(w)
                \/ BatchDone(w) \/ Stop(w) \/ Exit(w) \/ Unavailable(w)
         PROVE  Goal
    BY <1>2, <1>11 DEF Start, StartFails, ListEligible, TakeJob, BatchDone, Stop, Exit,
       Unavailable, diskVars
  <1>12. ASSUME NEW o \in orphans, OrphanActs(o) PROVE Goal
    <2>1. o.lease = l /\ o.job \in Jobs
      BY <1>12 DEF OrphanActs, ActsFor, loopVars, LeaseInv, TypeInv, TypeOK, OrphanTypes
    <2>2. (RowHolds(o.job, o.lease) /\ WriteRow(o.op, o.job, o.retry)) \/ UNCHANGED rowVars
      BY <1>12 DEF OrphanActs, Fenced
    <2>3. RowKept(j)
      BY <1>1, <1>2, <2>1, <2>2 DEF WriteRow, RowHolds, RowKept, RowTypes
    <2> QED
      BY <1>12, <2>3 DEF OrphanActs, MakeDir, WritePlaintext, diskVars
  <1>13. ASSUME NEW o \in orphans, OrphanDies(o) PROVE Goal
    BY <1>2, <1>13 DEF OrphanDies, diskVars
  <1>14. ASSUME NEW k \in Jobs, Expire(k) PROVE Goal
    BY <1>14 DEF Expire, ActsFor, loopVars
  <1>15. ASSUME UNCHANGED vars PROVE Goal
    BY <1>2, <1>15 DEF vars, diskVars
  <1> QED
    BY <1>4, <1>5, <1>6, <1>7, <1>8, <1>9, <1>10, <1>11, <1>12, <1>13, <1>14, <1>15
    DEF Next, Loop, Disturbed

(* Whoever acts under a lease that is not a job's own leaves its row and its *)
(* work directory alone, whatever it had in flight.                          *)
THEOREM StaleActorsAreHarmless == Spec => StaleActorsHarmless
  <1>1. LeaseInv /\ [Next]_vars =>
          [\A j \in Jobs, l \in Leases \cup {NoLease} : OutOfReach(j, l)]_vars
    BY OutOfReachStep
  <1>2. Spec => [][\A j \in Jobs, l \in Leases \cup {NoLease} : OutOfReach(j, l)]_vars
    BY <1>1, LeaseInvariant, PTL DEF Spec
  <1> QED
    BY <1>2 DEF StaleActorsHarmless, OutOfReach

-----------------------------------------------------------------------------
(***************************************************************************)
(* Without database errors no job is stranded: a run that has come to its  *)
(* end no longer holds its row, so that releasing it clears nothing.       *)
(***************************************************************************)
Answered(w) ==
  /\ pc[w] \notin Running => ~refused[w]
  /\ RowHolds(cur[w], held[w]) =>
       /\ pc[w] \notin Ending
       /\ pc[w] = "markFailed" => status[cur[w]] \in ActiveStatuses
       /\ pc[w] \in Awaited => ~refused[w]

StrandInv == NeverStranded /\ \A w \in Workers : Answered(w)

(* The statement a run awaits finds an active row, except the first one.    *)
LEMMA AwaitedActive ==
  ASSUME NEW w \in Workers, InStep(w), Answered(w), RowHolds(cur[w], held[w]),
         pc[w] \in Awaited \ {"markLeased"}
  PROVE  status[cur[w]] \in ActiveStatuses
  <1>1. CASE pc[w] \in RowOps \ {"markFailed"}
    BY <1>1, StageTables DEF InStep, Fenced
  <1>2. CASE pc[w] \in WorkOps
    BY <1>2, AfterTables DEF InStep
  <1>3. CASE pc[w] = "markFailed"
    BY <1>3 DEF Answered
  <1> QED
    BY <1>1, <1>2, <1>3 DEF Awaited

LEMMA AnsweredStep ==
  ASSUME LeaseInv, AllInStep, StrandInv, "db" \notin Disturbances, [Next]_vars,
         NEW v \in Workers
  PROVE  Answered(v)'
  <1>1. /\ RowTypes /\ RunTypes /\ LoopTypes /\ RunShape
        /\ \A w \in Workers : pc[w] \in Running => cur[w] \in Jobs /\ held[w] \in Leases
        /\ Answered(v) /\ InStep(v) /\ RunShape'
    BY TypeStep DEF LeaseInv, TypeInv, TypeOK, RunShape, StrandInv, AllInStep
  <1>2. ASSUME pc'[v] = pc[v], pc[v] \in Awaited, refused'[v] => refused[v] PROVE Answered(v)'
    <2> SUFFICES ASSUME RowHolds(cur[v], held[v])' PROVE Answered(v)'
      BY <1>2, Names DEF Answered
    <2>1. /\ RowHolds(cur[v], held[v])
          /\ cur'[v] = cur[v] /\ status'[cur[v]] = status[cur[v]]
      BY <1>2, Undisturbed
    <2> QED
      BY <1>1, <1>2, <2>1, Names DEF Answered
  <1>3. ASSUME pc[v] \in Ending, pc'[v] \in Ending, UNCHANGED <<cur[v], held[v]>>
        PROVE  Answered(v)'
    BY <1>1, <1>3, HeldBefore, Names DEF Answered
  <1>4. ASSUME pc'[v] \in Outside, ~refused'[v] PROVE Answered(v)'
    <2>1. held'[v] = NoLease \/ pc'[v] \in Running
      BY <1>1 DEF RunShape
    <2> QED
      BY <1>4, Names DEF Answered
  <1>5. ASSUME pc[v] \in Awaited, pc'[v] \in Running, pc'[v] \notin {"markFailed"} \cup Ending,
               UNCHANGED <<cur[v], held[v], refused[v]>>
        PROVE  Answered(v)'
    BY <1>1, <1>5, HeldBefore, Names DEF Answered
  <1>6. ASSUME Acquire(v) PROVE Answered(v)'
    <2>1. pc'[v] = "markLeased" /\ ~refused[v] /\ refused'[v] = refused[v]
      BY <1>1, <1>6, Names DEF Acquire, Go, LoopTypes, Answered, Outside
    <2> QED
      BY <2>1, Names DEF Answered
  <1>7. ASSUME RowStep(v) PROVE Answered(v)'
    <2>1. pc[v] \in RowOps /\ UNCHANGED <<cur[v], held[v], refused[v]>>
          /\ cur[v] \in Jobs /\ held[v] \in Leases
      BY <1>1, <1>7, Names DEF RowStep
    <2>2. CASE ~Fenced(pc[v], cur[v], held[v])
      <3>1. ~RowHolds(cur[v], held[v])
        <4>1. CASE pc[v] = "markFailed"
          BY <1>1, <2>2, <4>1 DEF Fenced, Answered, From
        <4>2. CASE pc[v] # "markFailed"
          BY <1>1, <2>1, <2>2, <4>2 DEF InStep
        <4> QED
          BY <4>1, <4>2
      <3>2. pc'[v] = "cleanup" /\ UNCHANGED <<lease, live>>
        BY <1>1, <1>7, <2>2 DEF RowStep, Go, LoopTypes, rowVars
      <3> QED
        BY <2>1, <3>1, <3>2, Names DEF Answered, RowHolds, Ending
    <2>3. CASE Fenced(pc[v], cur[v], held[v]) /\ pc[v] \in Closing
      <3>1. ~RowHolds(cur[v], held[v])'
        BY <1>1, <1>7, <2>1, <2>3, LeasesAssumption DEF RowStep, WriteRow, RowHolds, RowTypes
      <3>2. pc'[v] = "cleanup"
        BY <1>1, <1>7, <2>3 DEF RowStep, Go, LoopTypes, Closing, After
      <3> QED
        BY <3>1, <3>2, Names DEF Answered, Ending
    <2>4. CASE Fenced(pc[v], cur[v], held[v]) /\ pc[v] \notin Closing
      <3>1. pc'[v] = After[pc[v]]
        BY <1>1, <1>7, <2>4 DEF RowStep, Go, LoopTypes
      <3>2. pc[v] \in RowOps \ (Closing \cup {"markFailed"})
        BY <2>1, <2>4 DEF Closing
      <3> QED
        BY <1>5, <2>1, <3>1, <3>2, AfterTables, Names
    <2> QED
      BY <2>2, <2>3, <2>4
  <1>8. ASSUME Prepare(v) \/ Decrypt(v) \/ Adapt(v) \/ PhaseFails(v) PROVE Answered(v)'
    <2>1. /\ pc[v] \in Awaited \ {"markLeased", "markFailed"}
          /\ UNCHANGED <<status, lease, live, cur, held, refused>>
      BY <1>8, Names DEF Prepare, Decrypt, Adapt, PhaseFails, rowVars, runVars, RowOps, WorkOps, Awaited
    <2>2. pc'[v] = "markFailed" \/ (pc[v] \in WorkOps /\ pc'[v] = After[pc[v]])
      BY <1>1, <1>8, Names DEF Prepare, Decrypt, Adapt, PhaseFails, Go, Fail, LoopTypes
    <2>3. RowHolds(cur[v], held[v]) => status[cur[v]] \in ActiveStatuses
      BY <1>1, <2>1, AwaitedActive
    <2> QED
      BY <1>1, <2>1, <2>2, <2>3, AfterTables, Names DEF Answered, RowHolds
  <1>9. ASSUME Lose(v) PROVE Answered(v)'
    <2>1. CASE pc[v] = "cleanup"
      BY <1>1, <1>3, <1>9, <2>1, Names DEF Lose, Ending
    <2>2. CASE pc[v] \in Awaited
      <3>1. ~RowHolds(cur[v], held[v])
        BY <1>1, <1>9, <2>2 DEF Lose, Answered
      <3>2. pc'[v] \in Ending /\ UNCHANGED <<lease, live, cur, held>>
        BY <1>1, <1>9, <2>2 DEF Lose, Go, LoopTypes, Ending, rowVars
      <3> QED
        BY <3>1, <3>2, Names DEF Answered, RowHolds
    <2> QED
      BY <1>9, <2>1, <2>2 DEF Lose
  <1>10. ASSUME RenewRefused(v) PROVE Answered(v)'
    <2>1. pc[v] \in Awaited /\ UNCHANGED <<pc, lease, live, cur, held>>
      BY <1>10 DEF RenewRefused, rowVars
    <2>2. ~RowHolds(cur[v], held[v])
      BY <1>1, <1>10, <2>1, AwaitedActive DEF RenewRefused, Renewable
    <2> QED
      BY <2>1, <2>2, Names DEF Answered, RowHolds
  <1>11. ASSUME Cleanup(v) PROVE Answered(v)'
    BY <1>1, <1>3, <1>11 DEF Cleanup, Go, LoopTypes, Ending, runVars
  <1>12. ASSUME Release(v) \/ Crash(v) PROVE Answered(v)'
    BY <1>1, <1>4, <1>12 DEF Release, Crash, EndRun, Go, LoopTypes, RunTypes, Outside
  <1>13. ASSUME Start(v) \/ RecoverExpired(v) \/ Sweep(v) \/ StartFails(v) \/ ListEligible(v)
                \/ TakeJob(v) \/ BatchDone(v) \/ Exit(v) \/ Unavailable(v)
         PROVE Answered(v)'
    <2>1. pc[v] \in Outside /\ pc'[v] \in Outside /\ UNCHANGED refused
      BY <1>1, <1>13 DEF Start, RecoverExpired, Sweep, StartFails, ListEligible, TakeJob, BatchDone,
                  Exit, Unavailable, Go, LoopTypes, Outside, runVars
    <2> QED
      BY <1>1, <1>4, <2>1, Names DEF Answered
  <1>14. ASSUME pc'[v] = pc[v], UNCHANGED <<cur[v], held[v], refused[v]>> PROVE Answered(v)'
    <2>1. pc[v] \in Outside \cup Ending \cup Awaited
      BY <1>1, Names DEF LoopTypes
    <2>2. CASE pc[v] \in Outside
      BY <1>1, <1>4, <1>14, <2>2, Names DEF Answered
    <2> QED
      BY <1>2, <1>3, <1>14, <2>1, <2>2
  <1>15. ASSUME NEW w \in Workers, w # v, Loop(w) \/ Disturbed(w)
         PROVE  pc'[v] = pc[v] /\ UNCHANGED <<cur[v], held[v], refused[v]>>
    BY <1>1, <1>15 DEF Loop, Disturbed, Start, RecoverExpired, Sweep, StartFails, ListEligible,
         TakeJob, BatchDone, Stop, Exit, Acquire, Unavailable, AcquireError, RenewRefused, Lose,
         RowStep, RowError, Prepare, Decrypt, Adapt, PhaseFails, Cleanup, Release, Crash,
         EndRun, Go, Fail, LoopTypes, RunTypes, runVars
  <1>16. ASSUME \/ Stop(v)
                \/ \E j \in Jobs : Expire(j)
                \/ \E o \in orphans : OrphanActs(o) \/ OrphanDies(o)
                \/ UNCHANGED vars
         PROVE  pc'[v] = pc[v] /\ UNCHANGED <<cur[v], held[v], refused[v]>>
    BY <1>16 DEF Stop, Expire, OrphanActs, OrphanDies, vars, runVars
  <1>17. ~AcquireError(v) /\ ~RowError(v)
    BY DEF AcquireError, RowError
  <1> QED
    BY <1>6, <1>7, <1>8, <1>9, <1>10, <1>11, <1>12, <1>13, <1>14, <1>15, <1>16, <1>17
    DEF Next, Loop, Disturbed

LEMMA NeverStrandedStep ==
  ASSUME LeaseInv, StrandInv, [Next]_vars
  PROVE  NeverStranded'
  <1>1. /\ RowTypes /\ NeverStranded
        /\ \A w \in Workers : pc[w] \in Running => cur[w] \in Jobs /\ held[w] \in Leases
        /\ \A w \in Workers : pc[w] = "acquire" => cur[w] \in Jobs
    BY DEF LeaseInv, TypeInv, TypeOK, RunShape, StrandInv
  <1>2. ASSUME UNCHANGED <<status, lease>> PROVE NeverStranded'
    BY <1>1, <1>2 DEF NeverStranded
  <1>3. ASSUME NEW op \in RowOps, NEW j \in Jobs, NEW r, WriteRow(op, j, r), lease[j] # NoLease
        PROVE  NeverStranded'
    <2>1. op \in Closing => To[op] \notin ActiveStatuses
      BY StageTables
    <2> QED
      BY <1>1, <1>3, <2>1 DEF WriteRow, NeverStranded, RowTypes
  <1>4. ASSUME NEW w \in Workers, RowStep(w) \/ RowError(w) PROVE NeverStranded'
    <2>1. pc[w] \in RowOps /\ cur[w] \in Jobs /\ held[w] \in Leases
      BY <1>1, <1>4, Names DEF RowStep, RowError
    <2>2. \/ WriteRow(pc[w], cur[w], retry[w]) /\ lease[cur[w]] = held[w]
          \/ UNCHANGED rowVars
      BY <1>4 DEF RowStep, RowError, Fenced, RowHolds
    <2> QED
      BY <1>2, <1>3, <2>1, <2>2, LeasesAssumption DEF rowVars
  <1>5. ASSUME NEW o \in orphans, OrphanActs(o) PROVE NeverStranded'
    <2>1. o.job \in Jobs /\ o.lease \in Leases
      BY DEF LeaseInv, TypeInv, TypeOK, OrphanTypes
    <2>2. \/ o.op \in RowOps /\ WriteRow(o.op, o.job, o.retry) /\ lease[o.job] = o.lease
          \/ UNCHANGED rowVars
      BY <1>5 DEF OrphanActs, Fenced, RowHolds
    <2> QED
      BY <1>2, <1>3, <2>1, <2>2, LeasesAssumption DEF rowVars
  <1>6. ASSUME NEW w \in Workers, RecoverExpired(w) PROVE NeverStranded'
    BY <1>1, <1>6, StageTables DEF RecoverExpired, Recoverable, NeverStranded, RowTypes
  <1>7. ASSUME NEW w \in Workers, Acquire(w) \/ AcquireError(w) PROVE NeverStranded'
    <2>1. cur[w] \in Jobs /\ status' = status
      BY <1>1, <1>7 DEF Acquire, AcquireError
    <2>2. lease' = lease \/ \E l \in FreshLeases(cur[w]) : lease' = [lease EXCEPT ![cur[w]] = l]
      BY <1>7 DEF Acquire, AcquireError
    <2> QED
      BY <1>1, <2>1, <2>2, FreshLease DEF NeverStranded, RowTypes
  <1>8. ASSUME NEW w \in Workers, Release(w) PROVE NeverStranded'
    <2>1. ~RowHolds(cur[w], held[w])
      BY <1>8 DEF Release, StrandInv, Answered, Ending
    <2> QED
      BY <1>2, <1>8, <2>1 DEF Release, ReleaseRow
  <1>9. ASSUME NEW w \in Workers, Start(w) \/ Sweep(w) \/ StartFails(w) \/ ListEligible(w)
                 \/ TakeJob(w) \/ BatchDone(w) \/ Stop(w) \/ Exit(w) \/ Unavailable(w)
        PROVE NeverStranded'
    BY <1>2, <1>9 DEF Start, Sweep, StartFails, ListEligible, TakeJob, BatchDone, Stop, Exit,
                      Unavailable, rowVars
  <1>10. ASSUME NEW w \in Workers, RenewRefused(w) \/ Lose(w) \/ Crash(w) \/ Prepare(w)
                  \/ Decrypt(w) \/ Adapt(w) \/ PhaseFails(w) \/ Cleanup(w)
         PROVE NeverStranded'
    BY <1>2, <1>10 DEF RenewRefused, Lose, Crash, Prepare, Decrypt, Adapt, PhaseFails, Cleanup, rowVars
  <1>11. ASSUME \/ \E j \in Jobs : Expire(j)
                \/ \E o \in orphans : OrphanDies(o)
                \/ UNCHANGED vars
         PROVE  NeverStranded'
    BY <1>2, <1>11 DEF Expire, OrphanDies, vars, rowVars
  <1> QED
    BY <1>4, <1>5, <1>6, <1>7, <1>8, <1>9, <1>10, <1>11 DEF Next, Loop, Disturbed

(* As long as every statement succeeds or fails for good and the heartbeat   *)
(* is answered, crashes, stalls, restarts and failing work never leave an    *)
(* active job without a lease.                                               *)
THEOREM NoneStrandedWithoutDatabaseErrors ==
  ASSUME "db" \notin Disturbances
  PROVE  Spec => []NeverStranded
  <1>1. Init => StrandInv
    <2>1. Init => NeverStranded
      BY StageTables DEF Init, NeverStranded
    <2>2. Init => \A w \in Workers : Answered(w)
      BY Names DEF Init, Answered, Outside
    <2> QED
      BY <2>1, <2>2 DEF StrandInv
  <1>2. LeaseInv /\ AllInStep /\ StrandInv /\ [Next]_vars => StrandInv'
    BY AnsweredStep, NeverStrandedStep DEF StrandInv
  <1>3. Spec => []AllInStep
    <2>1. Init => AllInStep
      BY Names DEF Init, AllInStep, InStep, Outside
    <2> QED
      BY <2>1, LeaseInvariant, InStepStep, PTL DEF Spec
  <1>4. StrandInv => NeverStranded
    BY DEF StrandInv
  <1> QED
    BY <1>1, <1>2, <1>3, <1>4, LeaseInvariant, PTL DEF Spec

-----------------------------------------------------------------------------
(***************************************************************************)
(* Decrypted data.  While processes are not killed and file operations do  *)
(* not fail, it belongs to a run that has yet to clean up.  An abandoned   *)
(* decryption may still write: only as long as that run's directory is     *)
(* there, and no abandoned preparation can bring the directory back, since *)
(* a run abandons one operation at most.                                   *)
(***************************************************************************)
Owns(w) == pc[w] \in Running \ {"release"} /\ (hasWork[w] \/ lost[w])

Owned(d) == \E w \in Workers : WorkDir(w) = d /\ Owns(w)

DataOwned == \A d \in plaintext : Owned(d)

LateDecryptOwned ==
  \A o \in orphans : o.op = "decrypt" /\ <<o.job, o.lease>> \in dirs => Owned(<<o.job, o.lease>>)

OneOrphan == \A o, p \in orphans : o.lease = p.lease => o = p

Prepared == \A w \in Workers : pc[w] \in {"markDecrypting", "decrypt"} => hasWork[w]

DataInv == DataOwned /\ LateDecryptOwned /\ OneOrphan /\ Prepared

(* No operation leads to the end of a run but through cleanup, and only       *)
(* preparing the directory and marking the row lead to decryption.           *)
LEMMA AfterWork ==
  /\ \A op \in Awaited : After[op] \in Running \ {"release"}
  /\ \A op \in Awaited \ {"prepare", "markDecrypting"} : After[op] \notin {"markDecrypting", "decrypt"}
  /\ After["prepare"] = "markDecrypting" /\ After["markDecrypting"] = "decrypt"
  /\ "markFailed" \in Running \ {"release"} /\ "cleanup" \in Running \ {"release"}
  /\ "decrypt" \in Running \ {"release"}
  BY DEF After, Awaited, RowOps, WorkOps, Running

(* A run keeps owning its directory until it has cleaned it up.               *)
LEMMA OwnerKept ==
  ASSUME TypeInv, [Next]_vars, "crash" \notin Disturbances, NEW v \in Workers, Owns(v),
         ~Cleanup(v)
  PROVE  Owns(v)' /\ WorkDir(v)' = WorkDir(v)
  <1> DEFINE Kept == Owns(v)' /\ WorkDir(v)' = WorkDir(v)
  <1>1. /\ LoopTypes /\ RunTypes
        /\ pc[v] \in Running /\ pc[v] # "release" /\ pc[v] \notin Outside
    BY Names DEF TypeInv, TypeOK, Owns
  <1>2. ASSUME pc'[v] \in Running \ {"release"}, cur'[v] = cur[v], held'[v] = held[v],
               hasWork[v] => hasWork'[v], lost[v] => lost'[v]
        PROVE  Kept
    BY <1>2 DEF Owns, WorkDir
  <1>3. ASSUME UNCHANGED <<pc, runVars>> PROVE Kept
    BY <1>3, <1>1, <1>2 DEF runVars
  <1>4. ASSUME NEW w \in Workers,
               Start(w) \/ RecoverExpired(w) \/ Sweep(w) \/ StartFails(w) \/ ListEligible(w)
               \/ BatchDone(w) \/ Stop(w) \/ Exit(w)
        PROVE  Kept
    <2>1. pc'[v] = pc[v] /\ UNCHANGED runVars
      BY <1>1, <1>4 DEF Start, RecoverExpired, Sweep, StartFails, ListEligible, BatchDone, Stop, Exit,
                        Go, LoopTypes, Outside
    <2> QED
      BY <1>1, <1>2, <2>1 DEF runVars
  <1>5. ASSUME NEW w \in Workers,
               TakeJob(w) \/ Acquire(w) \/ Unavailable(w) \/ AcquireError(w) \/ Release(w)
        PROVE  Kept
    <2>1. v # w
      BY <1>1, <1>5 DEF TakeJob, Acquire, Unavailable, AcquireError, Release, Outside
    <2>2. /\ pc'[v] = pc[v] /\ cur'[v] = cur[v] /\ held'[v] = held[v]
          /\ hasWork'[v] = hasWork[v] /\ lost'[v] = lost[v]
      BY <1>1, <1>5, <2>1 DEF TakeJob, Acquire, Unavailable, AcquireError, Release, EndRun, Go,
                              LoopTypes, RunTypes
    <2> QED
      BY <1>1, <1>2, <2>2
  <1>6. ASSUME NEW w \in Workers, RowStep(w) \/ RowError(w) \/ Decrypt(w) \/ Adapt(w) \/ PhaseFails(w)
        PROVE  Kept
    <2>1. UNCHANGED <<cur, held, hasWork, lost>>
      BY <1>6 DEF RowStep, RowError, Decrypt, Adapt, PhaseFails, runVars
    <2>2. pc'[v] \in Running \ {"release"}
      BY <1>1, <1>6, AfterWork, Names DEF RowStep, RowError, Decrypt, Adapt, PhaseFails, Go, Fail, LoopTypes
    <2> QED
      BY <1>2, <2>1, <2>2
  <1>7. ASSUME NEW w \in Workers, Prepare(w) PROVE Kept
    <2>1. UNCHANGED <<cur, held, lost>> /\ (hasWork[v] => hasWork'[v])
      BY <1>1, <1>7 DEF Prepare, RunTypes
    <2>2. pc'[v] \in Running \ {"release"}
      BY <1>1, <1>7, AfterWork, Names DEF Prepare, Go, Fail, LoopTypes
    <2> QED
      BY <1>2, <2>1, <2>2
  <1>8. ASSUME NEW w \in Workers, RenewRefused(w) PROVE Kept
    BY <1>1, <1>2, <1>8 DEF RenewRefused
  <1>9. ASSUME NEW w \in Workers, Lose(w) PROVE Kept
    <2>1. UNCHANGED <<cur, held, hasWork>> /\ (lost[v] => lost'[v])
      BY <1>1, <1>9 DEF Lose, RunTypes
    <2>2. pc'[v] \in Running \ {"release"}
      BY <1>1, <1>9, AfterWork DEF Lose, Go, LoopTypes
    <2> QED
      BY <1>2, <2>1, <2>2
  <1>10. ASSUME NEW w \in Workers, Cleanup(w) PROVE Kept
    <2>1. v # w
      BY <1>10
    <2>2. pc'[v] = pc[v] /\ UNCHANGED runVars
      BY <1>1, <1>10, <2>1 DEF Cleanup, Go, LoopTypes
    <2> QED
      BY <1>1, <1>2, <2>2 DEF runVars
  <1>11. ASSUME \/ \E j \in Jobs : Expire(j)
                \/ \E o \in orphans : OrphanActs(o) \/ OrphanDies(o)
                \/ UNCHANGED vars
         PROVE  Kept
    BY <1>3, <1>11 DEF Expire, OrphanActs, OrphanDies, vars
  <1>12. \A w \in Workers : ~Crash(w)
    BY DEF Crash
  <1> QED
    BY <1>4, <1>5, <1>6, <1>7, <1>8, <1>9, <1>10, <1>11, <1>12 DEF Next, Loop, Disturbed

LEMMA DataStep ==
  ASSUME LeaseInv, DataInv, [Next]_vars, Disturbances \cap {"crash", "fs"} = {}
  PROVE  DataInv'
  <1>1. /\ TypeInv /\ RowTypes /\ DiskTypes /\ LoopTypes /\ RunTypes /\ OrphanTypes /\ RunShape
        /\ "crash" \notin Disturbances /\ "fs" \notin Disturbances
    BY DEF LeaseInv, TypeInv, TypeOK
  <1>2. ASSUME \A w \in Workers : ~Cleanup(w) PROVE \A d : Owned(d) => Owned(d)'
    <2> SUFFICES ASSUME NEW d, Owned(d) PROVE Owned(d)'
      OBVIOUS
    <2>1. PICK w \in Workers : WorkDir(w) = d /\ Owns(w)
      BY DEF Owned
    <2>2. Owns(w)' /\ WorkDir(w)' = WorkDir(w)
      BY <1>1, <1>2, <2>1, OwnerKept
    <2> QED
      BY <2>1, <2>2 DEF Owned
  <1>3. ASSUME NEW w \in Workers, Cleanup(w)
        PROVE  \A d : Owned(d) /\ (d \in dirs' \/ d \in plaintext') => Owned(d)'
    <2> SUFFICES ASSUME NEW d, Owned(d), d \in dirs' \/ d \in plaintext' PROVE Owned(d)'
      OBVIOUS
    <2>1. PICK v \in Workers : WorkDir(v) = d /\ Owns(v)
      BY DEF Owned
    <2>2. v # w
      BY <1>1, <1>3, <2>1 DEF Cleanup, RemoveDirs, Owns
    <2>3. Owns(v)' /\ WorkDir(v)' = WorkDir(v)
      BY <1>1, <1>3, <2>1, <2>2 DEF Cleanup, Go, Owns, WorkDir, LoopTypes, runVars
    <2> QED
      BY <2>1, <2>3 DEF Owned
  <1>4. \A d : Owned(d) /\ (d \in dirs' \/ d \in plaintext') => Owned(d)'
    BY <1>2, <1>3
  <1>5. ASSUME UNCHANGED orphans, dirs' \subseteq dirs PROVE LateDecryptOwned' /\ OneOrphan'
    BY <1>4, <1>5 DEF DataInv, LateDecryptOwned, OneOrphan
  <1>6. ASSUME plaintext' \subseteq plaintext PROVE DataOwned'
    BY <1>4, <1>6 DEF DataInv, DataOwned
  <1>7. ASSUME NEW w \in Workers, \A v \in Workers \ {w} : pc'[v] = pc[v],
               \A v \in Workers : hasWork[v] => hasWork'[v],
               pc'[w] \notin {"markDecrypting", "decrypt"} \/ hasWork'[w]
        PROVE  Prepared'
    BY <1>7 DEF DataInv, Prepared
  <1>8. ASSUME NEW w \in Workers,
               Start(w) \/ RecoverExpired(w) \/ Sweep(w) \/ StartFails(w) \/ ListEligible(w)
               \/ TakeJob(w) \/ BatchDone(w) \/ Stop(w) \/ Exit(w) \/ Acquire(w) \/ Unavailable(w)
               \/ AcquireError(w)
        PROVE  DataInv'
    <2>1. UNCHANGED <<orphans, hasWork>> /\ dirs' \subseteq dirs /\ plaintext' \subseteq plaintext
      BY <1>8 DEF Start, RecoverExpired, Sweep, RemoveDirs, StartFails, ListEligible, TakeJob,
                  BatchDone, Stop, Exit, Acquire, Unavailable, AcquireError, runVars, diskVars
    <2>2. /\ \A v \in Workers \ {w} : pc'[v] = pc[v]
          /\ pc'[w] = pc[w] \/ pc'[w] \notin {"markDecrypting", "decrypt"}
      BY <1>1, <1>8 DEF Start, RecoverExpired, Sweep, StartFails, ListEligible, TakeJob,
                  BatchDone, Stop, Exit, Acquire, Unavailable, AcquireError, Go, LoopTypes
    <2>3. Prepared'
      BY <2>1, <2>2 DEF DataInv, Prepared
    <2> QED
      BY <1>5, <1>6, <2>1, <2>3 DEF DataInv
  <1>9. ASSUME NEW w \in Workers, RowStep(w) \/ RowError(w) \/ Adapt(w) \/ RenewRefused(w)
        PROVE  DataInv'
    <2>1. UNCHANGED <<orphans, hasWork, diskVars>>
      BY <1>9 DEF RowStep, RowError, Adapt, RenewRefused, runVars
    <2>2. \A v \in Workers \ {w} : pc'[v] = pc[v]
      BY <1>1, <1>9 DEF RowStep, RowError, Adapt, RenewRefused, Go, Fail, LoopTypes
    <2>3. \/ pc'[w] = pc[w] \/ pc'[w] \in {"markFailed", "cleanup"}
          \/ pc[w] \in Awaited \ {"prepare"} /\ pc'[w] = After[pc[w]]
      BY <1>1, <1>9, Names DEF RowStep, RowError, Adapt, RenewRefused, Go, Fail, LoopTypes
    <2>4. pc'[w] \in {"markDecrypting", "decrypt"} => pc[w] \in {"markDecrypting", "decrypt"}
      BY <2>3, AfterWork
    <2>5. Prepared'
      BY <2>1, <2>2, <2>4 DEF DataInv, Prepared
    <2> QED
      BY <1>5, <1>6, <2>1, <2>5 DEF DataInv, diskVars
  <1>10. ASSUME NEW w \in Workers, Prepare(w) PROVE DataInv'
    <2>1. CASE ~Fail(w, TRUE)
      <3>1. /\ MakeDir(WorkDir(w)) /\ hasWork' = [hasWork EXCEPT ![w] = TRUE]
            /\ pc' = [pc EXCEPT ![w] = "markDecrypting"] /\ UNCHANGED <<cur, held, orphans>>
        BY <1>1, <1>10, <2>1, AfterWork DEF Prepare, Go
      <3>2. Owned(WorkDir(w))'
        BY <1>1, <3>1 DEF Owned, Owns, WorkDir, Running, Awaited, RowOps, LoopTypes, RunTypes
      <3>3. dirs' = dirs \cup {WorkDir(w)} /\ WorkDir(w)' = WorkDir(w)
        BY <3>1 DEF MakeDir, WorkDir
      <3>4. LateDecryptOwned' /\ OneOrphan'
        BY <1>4, <3>1, <3>2, <3>3 DEF DataInv, LateDecryptOwned, OneOrphan
      <3>5. DataOwned'
        BY <1>6, <3>1 DEF MakeDir
      <3>6. Prepared'
        BY <1>1, <1>7, <3>1 DEF LoopTypes, RunTypes
      <3> QED
        BY <3>4, <3>5, <3>6 DEF DataInv
    <2>2. CASE Fail(w, TRUE)
      <3>1. pc' = [pc EXCEPT ![w] = "markFailed"]
        BY <2>2 DEF Fail, Go
      <3>2. UNCHANGED <<diskVars, hasWork>> /\ UNCHANGED orphans
        <4>1. pc'[w] = "markFailed" /\ After["prepare"] = "markDecrypting"
          BY <1>1, <3>1, AfterWork DEF LoopTypes
        <4>2. ~Go(w, After["prepare"])
          BY <1>1, <4>1 DEF Go, LoopTypes
        <4> QED
          BY <1>10, <4>2 DEF Prepare
      <3>3. Prepared'
        BY <1>1, <1>7, <3>1, <3>2, Names DEF LoopTypes
      <3> QED
        BY <1>5, <1>6, <3>2, <3>3 DEF DataInv, diskVars
    <2> QED
      BY <2>1, <2>2
  <1>11. ASSUME NEW w \in Workers, Decrypt(w) \/ PhaseFails(w) PROVE DataInv'
    <2>1. UNCHANGED <<orphans, hasWork, cur, held>>
      BY <1>11 DEF Decrypt, PhaseFails, runVars
    <2>2. dirs' = dirs /\ (plaintext' = plaintext \/ (pc[w] = "decrypt" /\ WritePlaintext(WorkDir(w))))
      BY <1>11 DEF Decrypt, PhaseFails, WritePlaintext, diskVars
    <2>3. /\ \A v \in Workers \ {w} : pc'[v] = pc[v]
          /\ pc'[w] \notin {"markDecrypting", "decrypt"}
      BY <1>1, <1>11, AfterWork, Names DEF Decrypt, PhaseFails, Go, Fail, LoopTypes
    <2>4. pc[w] = "decrypt" => Owned(WorkDir(w))
      BY AfterWork DEF DataInv, Prepared, Owned, Owns
    <2>5. DataOwned'
      <3>1. \A d \in plaintext' : Owned(d)
        BY <2>2, <2>4 DEF WritePlaintext, DataInv, DataOwned
      <3> QED
        BY <3>1, <1>4 DEF DataOwned
    <2>6. Prepared'
      BY <1>7, <2>1, <2>3
    <2> QED
      BY <1>5, <2>1, <2>2, <2>5, <2>6 DEF DataInv
  <1>12. ASSUME NEW w \in Workers, Cleanup(w) \/ Release(w) PROVE DataInv'
    <2>1. UNCHANGED orphans /\ dirs' \subseteq dirs /\ plaintext' \subseteq plaintext
      BY <1>12 DEF Cleanup, Release, RemoveDirs, diskVars
    <2>2. /\ \A v \in Workers \ {w} : pc'[v] = pc[v] /\ hasWork'[v] = hasWork[v]
          /\ pc'[w] \notin {"markDecrypting", "decrypt"}
      BY <1>1, <1>12 DEF Cleanup, Release, EndRun, Go, LoopTypes, RunTypes, runVars
    <2>3. Prepared'
      BY <2>2 DEF DataInv, Prepared
    <2> QED
      BY <1>5, <1>6, <2>1, <2>3 DEF DataInv
  <1>13. ASSUME NEW w \in Workers, Lose(w) PROVE DataInv'
    <2>1. UNCHANGED <<diskVars, cur, held, hasWork>>
      BY <1>13 DEF Lose
    <2>2. /\ \A v \in Workers \ {w} : pc'[v] = pc[v]
          /\ pc'[w] = "cleanup" /\ lost'[w] = TRUE
      BY <1>1, <1>13 DEF Lose, Go, LoopTypes, RunTypes
    <2>3. Owned(WorkDir(w))' /\ WorkDir(w)' = WorkDir(w)
      BY <2>1, <2>2, AfterWork DEF Owned, Owns, WorkDir
    <2>4. ASSUME pc[w] \in Awaited PROVE LateDecryptOwned' /\ OneOrphan'
      <3> DEFINE o == [op |-> pc[w], job |-> cur[w], lease |-> held[w], retry |-> retry[w]]
      <3>1. orphans' = orphans \cup {o} /\ o.lease = held[w] /\ <<o.job, o.lease>> = WorkDir(w)
        BY <1>13, <2>4 DEF Lose, WorkDir
      <3>2. \A p \in orphans : p.lease # o.lease
        BY <2>4, <3>1, Names DEF LeaseInv, OrphansLost
      <3> HIDE DEF o
      <3>3. OneOrphan'
        BY <3>1, <3>2 DEF DataInv, OneOrphan
      <3>4. ASSUME NEW p \in orphans', p.op = "decrypt", <<p.job, p.lease>> \in dirs'
            PROVE  Owned(<<p.job, p.lease>>)'
        <4>1. CASE p \in orphans
          <5>1. <<p.job, p.lease>> \in dirs
            BY <2>1, <3>4 DEF diskVars
          <5>2. Owned(<<p.job, p.lease>>)
            BY <3>4, <4>1, <5>1 DEF DataInv, LateDecryptOwned
          <5> QED
            BY <1>4, <3>4, <5>2
        <4>2. CASE p = o
          BY <2>3, <3>1, <4>2
        <4> QED
          BY <3>1, <3>4, <4>1, <4>2
      <3>5. LateDecryptOwned'
        BY <3>4 DEF LateDecryptOwned
      <3> QED
        BY <3>3, <3>5
    <2>5. ASSUME pc[w] \notin Awaited PROVE LateDecryptOwned' /\ OneOrphan'
      BY <1>5, <1>13, <2>1, <2>5 DEF Lose, diskVars
    <2>6. Prepared'
      BY <1>7, <2>1, <2>2
    <2>7. DataOwned'
      BY <1>6, <2>1 DEF diskVars
    <2> QED
      BY <2>4, <2>5, <2>6, <2>7 DEF DataInv
  <1>14. ASSUME NEW o \in orphans, OrphanActs(o) PROVE DataInv'
    <2>1. orphans' = orphans \ {o} /\ UNCHANGED <<pc, hasWork>>
      BY <1>14 DEF OrphanActs, runVars
    <2>2. \/ o.op \in RowOps /\ dirs' = dirs /\ plaintext' = plaintext
          \/ o.op = "prepare" /\ MakeDir(<<o.job, o.lease>>)
          \/ o.op = "decrypt" /\ WritePlaintext(<<o.job, o.lease>>)
      BY <1>14 DEF OrphanActs, diskVars
    <2>3. OneOrphan' /\ Prepared'
      BY <2>1 DEF DataInv, OneOrphan, Prepared
    <2>4. \A p \in orphans' : <<p.job, p.lease>> # <<o.job, o.lease>>
      BY <2>1 DEF DataInv, OneOrphan
    <2>5. LateDecryptOwned'
      <3>1. \A p \in orphans' : <<p.job, p.lease>> \in dirs' => <<p.job, p.lease>> \in dirs
        BY <2>2, <2>4 DEF MakeDir, WritePlaintext
      <3> QED
        BY <1>4, <2>1, <3>1 DEF DataInv, LateDecryptOwned
    <2>6. DataOwned'
      <3>1. \A d \in plaintext' : Owned(d)
        BY <2>2 DEF MakeDir, WritePlaintext, DataInv, DataOwned, LateDecryptOwned
      <3> QED
        BY <3>1, <1>4 DEF DataOwned
    <2> QED
      BY <2>3, <2>5, <2>6 DEF DataInv
  <1>15. ASSUME \/ \E j \in Jobs : Expire(j)
                \/ \E o \in orphans : OrphanDies(o)
                \/ UNCHANGED vars
         PROVE  DataInv'
    <2>1. orphans' \subseteq orphans /\ UNCHANGED <<diskVars, pc, hasWork>>
      BY <1>15 DEF Expire, OrphanDies, vars, runVars
    <2>2. LateDecryptOwned' /\ OneOrphan'
      BY <1>4, <2>1 DEF DataInv, LateDecryptOwned, OneOrphan, diskVars
    <2>3. Prepared'
      BY <2>1 DEF DataInv, Prepared
    <2> QED
      BY <1>6, <2>1, <2>2, <2>3 DEF DataInv, diskVars
  <1>16. \A w \in Workers : ~Crash(w)
    BY <1>1 DEF Crash
  <1> QED
    BY <1>8, <1>9, <1>10, <1>11, <1>12, <1>13, <1>14, <1>15, <1>16 DEF Next, Loop, Disturbed

(* Unless a process is killed or a file operation fails, decrypted data is    *)
(* always somebody's to remove: not a refused renewal, a lost answer, a late *)
(* write of an abandoned decryption, nor a rival's takeover puts it out of   *)
(* the reach of the run that made it.                                        *)
THEOREM DecryptedDataOwned ==
  ASSUME Disturbances \cap {"crash", "fs"} = {}
  PROVE  Spec => []PlaintextOwned
  <1>1. Init => DataInv
    BY DEF Init, DataInv, DataOwned, LateDecryptOwned, OneOrphan, Prepared
  <1>2. LeaseInv /\ DataInv /\ [Next]_vars => DataInv'
    BY DataStep
  <1>3. DataInv => PlaintextOwned
    BY DEF DataInv, DataOwned, Owned, Owns, PlaintextOwned
  <1> QED
    BY <1>1, <1>2, <1>3, LeaseInvariant, PTL DEF Spec

=============================================================================
