------------------------- MODULE ImportJobLifecycle -------------------------
(***************************************************************************)
(* What the import queue promises about each job, with no leases, workers  *)
(* or files in it: which status follows which, and that the outcome of a   *)
(* job is committed with its completion.  The statuses are those of the    *)
(* table jobTransitions (application/echohoard.ts:95-104).                 *)
(*                                                                         *)
(* The queue does not keep to the table.  Recovery requeues a job from     *)
(* every active status, the table lets only a leased or a failed job go    *)
(* back to queued; that step has an action of its own, Requeue.  Nothing   *)
(* else leaves the table.                                                  *)
(***************************************************************************)
EXTENDS Naturals

CONSTANT Jobs        \* the import jobs

VARIABLES
  status,            \* status[j]: the status of job j
  retryable,         \* retryable[j]: if it failed, it may be tried again
  applied            \* applied[j]: how often the outcome of j was committed

lifecycleVars == <<status, retryable, applied>>

JobTransitions ==
  [ queued     |-> {"leased", "failed"},
    leased     |-> {"decrypting", "queued", "failed"},
    decrypting |-> {"adapting", "completed", "failed"},
    adapting   |-> {"importing", "failed"},
    importing  |-> {"finalizing", "failed"},
    finalizing |-> {"completed", "failed"},
    completed  |-> {},
    failed     |-> {"queued", "leased"} ]

Active == {"leased", "decrypting", "adapting", "importing", "finalizing"}

Init ==
  /\ status = [j \in Jobs |-> "queued"]
  /\ retryable = [j \in Jobs |-> FALSE]
  /\ applied = [j \in Jobs |-> 0]

(* One job goes on as the table allows.  It leaves "failed" only if it is  *)
(* to be tried again, and its outcome is committed as it completes.        *)
Move(j) ==
  \E to \in JobTransitions[status[j]], r \in BOOLEAN :
    /\ status[j] = "failed" => retryable[j]
    /\ to # "failed" => r = (retryable[j] /\ to # "completed")
    /\ status' = [status EXCEPT ![j] = to]
    /\ retryable' = [retryable EXCEPT ![j] = r]
    /\ applied' = IF to = "completed" THEN [applied EXCEPT ![j] = @ + 1] ELSE applied

(* Recovery takes a set of active jobs back to the queue, whether the table *)
(* has that transition or not.                                             *)
Requeue(S) ==
  /\ \A j \in S : status[j] \in Active
  /\ status' = [j \in Jobs |-> IF j \in S THEN "queued" ELSE status[j]]
  /\ UNCHANGED <<retryable, applied>>

Next ==
  \/ \E j \in Jobs : Move(j)
  \/ \E S \in SUBSET Jobs : Requeue(S)

Spec == Init /\ [][Next]_lifecycleVars
=============================================================================
