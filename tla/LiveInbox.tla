------------------------------ MODULE LiveInbox ------------------------------
(***************************************************************************)
(* The inbox of live events: rows of LiveEventInbox that the web process   *)
(* accepts from the sidecar and that the workers' normalization loops      *)
(* (LiveEventNormalizationLoop, PrismaLiveEventNormalizer) claim in        *)
(* batches, import one by one, and complete or give back.                  *)
(*                                                                         *)
(* A claim is not renewed.  It lasts a minute for the whole batch, so a    *)
(* slow worker may come to a receipt that somebody else has claimed in the *)
(* meantime.  A statement or transaction of the database is one step.      *)
(***************************************************************************)
EXTENDS Naturals, FiniteSets

CONSTANTS
  Workers,       \* worker processes
  Receipts,      \* signed events, numbers in the order of receivedAt, id
  Claims,        \* claim ids, each compared only within its receipt
  NoClaim,       \* "claimId" IS NULL
  MaxAttempts,   \* maxAttempts of claimPending, the 3 of failClaim
  MaxPending,    \* maxPending of the intake
  BatchSize,     \* ECHOHOARD_WORKER_BATCH_SIZE
  Poison,        \* receipts that do not parse or hold no observation
  Disturbances   \* what the environment may do, see DisturbanceKinds

DisturbanceKinds ==
  { "crash",     \* a worker process is killed
    "stop",      \* SIGTERM: a worker drains
    "slow",      \* a claim expires while its worker is still at the batch
    "transient", \* an import transaction fails
    "db" }       \* another statement fails, or commits and says nothing

ASSUME ReceiptsAssumption == Receipts \subseteq Nat \ {0} /\ IsFiniteSet(Receipts)
ASSUME ClaimsAssumption == NoClaim \notin Claims
ASSUME InboxParametersAssumption ==
  /\ MaxAttempts \in Nat \ {0} /\ MaxPending \in Nat /\ BatchSize \in Nat \ {0}
  /\ Poison \subseteq Receipts
  /\ Disturbances \subseteq DisturbanceKinds

VARIABLES
  (* The rows of table LiveEventInbox. *)
  status,        \* status[r], "absent" before the event arrives
  attempts,      \* attempts[r]; more than MaxAttempts counts as one more
  claim,         \* claim[r]: "claimId"
  current,       \* current[r]: "claimExpiresAt" is later than the clock
  imports,       \* imports[r]: how often the import of r was committed
  (* Each worker's loop. *)
  pc,            \* the step it does next
  stopping,      \* LiveEventNormalizationLoop.stopping
  drawn,         \* the receipts its claim statement returned
  batch,         \* the <receipt, claim> pairs it has yet to normalize
  cur,           \* the pair it is at
  retry,         \* the error it caught is retryable
  (* Statements of killed workers that may still be executed. *)
  inflight

rowVars == <<status, attempts, claim, current, imports>>
loopVars == <<pc, stopping, drawn, batch, cur, retry>>
vars == <<rowVars, loopVars, inflight>>

Statuses == {"absent", "pending", "processing", "normalized", "failed"}
Settled == {"normalized", "failed"}
Steps == {"down", "poll", "read", "next", "normalize", "import", "fail"}
Nothing == <<0, NoClaim>>

(* Mutant of ClaimHolds: any claim of the receipt will do. *)
ClaimedByAnyone(r, c) == status[r] = "processing" /\ c # NoClaim

(* Every write to a claimed row asks for its status and claim id, never for  *)
(* the time the claim expires.                                               *)
ClaimHolds(r, c) == status[r] = "processing" /\ claim[r] = c

SetAttempts(n) == IF n > MaxAttempts THEN MaxAttempts + 1 ELSE n

Go(w, step) == pc' = [pc EXCEPT ![w] = step]

(***************************************************************************)
(* Intake.                                                                 *)
(***************************************************************************)
Waiting == { r \in Receipts : status[r] = "pending" }

(* enqueue, under the account's advisory lock: a receipt that is there is a  *)
(* duplicate, and a full inbox answers backpressure; neither writes.         *)
Enqueue(r) ==
  /\ status[r] = "absent"
  /\ Cardinality(Waiting) < MaxPending
  /\ status' = [status EXCEPT ![r] = "pending"]
  /\ UNCHANGED <<attempts, claim, current, imports, loopVars, inflight>>

(***************************************************************************)
(* Claiming.                                                               *)
(***************************************************************************)
(* Mutant of Claimable: a claim that expired is never taken over. *)
ClaimablePendingOnly(r) == status[r] = "pending" /\ attempts[r] < MaxAttempts

Claimable(r) ==
  \/ status[r] = "pending" /\ attempts[r] < MaxAttempts
  \/ status[r] = "processing" /\ ~current[r]

Oldest(S, n) == { r \in S : Cardinality({ k \in S : k < r }) < n }

(* gen_random_uuid: an id nobody remembers for this receipt. *)
FreshClaims(r) ==
  { c \in Claims : /\ claim[r] # c
                   /\ \A w \in Workers : <<r, c>> \notin batch[w] \cup {cur[w]}
                   /\ \A o \in inflight : o.pair # <<r, c>> }

ClaimPending(w) ==
  /\ pc[w] = "poll" /\ ~stopping[w]
  /\ drawn' = [drawn EXCEPT ![w] = Oldest({ r \in Receipts : Claimable(r) }, BatchSize)]
  /\ \E f \in [drawn'[w] -> Claims] :
       /\ \A r \in drawn'[w] : f[r] \in FreshClaims(r)
       /\ claim' = [r \in Receipts |-> IF r \in drawn'[w] THEN f[r] ELSE claim[r]]
  /\ status' = [r \in Receipts |-> IF r \in drawn'[w] THEN "processing" ELSE status[r]]
  /\ attempts' = [r \in Receipts |->
                    IF r \in drawn'[w] THEN SetAttempts(attempts[r] + 1) ELSE attempts[r]]
  /\ current' = [r \in Receipts |-> r \in drawn'[w] \/ current[r]]
  /\ Go(w, "read")
  /\ UNCHANGED <<imports, stopping, batch, cur, retry, inflight>>

(* A second query reads the rows back, with the claim they have by now.      *)
ReadClaims(w) ==
  /\ pc[w] = "read"
  /\ batch' = [batch EXCEPT ![w] =
                 { <<r, claim[r]>> : r \in { k \in drawn[w] : status[k] = "processing" } }]
  /\ drawn' = [drawn EXCEPT ![w] = {}]
  /\ Go(w, "next")
  /\ UNCHANGED <<rowVars, stopping, cur, retry, inflight>>

(* The minute is over.  A worker that keeps up is done by then. *)
Working(r) ==
  \E w \in Workers : \/ r \in drawn[w]
                     \/ <<r, claim[r]>> \in batch[w] \cup {cur[w]}

Expire(r) ==
  /\ status[r] = "processing" /\ current[r]
  /\ Working(r) => "slow" \in Disturbances
  /\ current' = [current EXCEPT ![r] = FALSE]
  /\ UNCHANGED <<status, attempts, claim, imports, loopVars, inflight>>

(***************************************************************************)
(* Normalizing a batch.                                                    *)
(***************************************************************************)
Take(w) ==
  /\ pc[w] = "next" /\ ~stopping[w]
  /\ \E p \in batch[w] :
       /\ \A q \in batch[w] : p[1] <= q[1]
       /\ batch' = [batch EXCEPT ![w] = @ \ {p}]
       /\ cur' = [cur EXCEPT ![w] = p]
  /\ Go(w, "normalize")
  /\ UNCHANGED <<rowVars, stopping, drawn, retry, inflight>>

(* The loop comes back to claimPending, the rest of the batch forgotten. *)
Repoll(w) ==
  /\ Go(w, "poll")
  /\ batch' = [batch EXCEPT ![w] = {}]
  /\ drawn' = [drawn EXCEPT ![w] = {}]
  /\ cur' = [cur EXCEPT ![w] = Nothing]
  /\ retry' = [retry EXCEPT ![w] = FALSE]
  /\ UNCHANGED stopping

(* ... or goes on with the next receipt of the batch. *)
Continue(w) ==
  /\ Go(w, "next")
  /\ cur' = [cur EXCEPT ![w] = Nothing]
  /\ retry' = [retry EXCEPT ![w] = FALSE]
  /\ UNCHANGED <<stopping, drawn, batch>>

Catch(w, r) ==
  /\ Go(w, "fail")
  /\ retry' = [retry EXCEPT ![w] = r]
  /\ UNCHANGED <<stopping, drawn, batch, cur>>

BatchDone(w) ==
  /\ pc[w] = "next" /\ batch[w] = {} /\ ~stopping[w]
  /\ Repoll(w)
  /\ UNCHANGED <<rowVars, inflight>>

(* normalize reads the receipt before it parses it. *)
Normalize(w) ==
  /\ pc[w] = "normalize"
  /\ LET r == cur[w][1] IN
       CASE status[r] = "normalized"          -> Continue(w)
         [] ~ClaimHolds(r, cur[w][2])
              /\ status[r] # "normalized"     -> Catch(w, TRUE)
         [] ClaimHolds(r, cur[w][2])
              /\ r \in Poison                 -> Catch(w, FALSE)
         [] OTHER                             -> /\ Go(w, "import")
                                                 /\ UNCHANGED <<stopping, drawn, batch, cur, retry>>
  /\ UNCHANGED <<rowVars, inflight>>

(* The query fails: a retryable error, whatever the receipt holds. *)
NormalizeFails(w) ==
  /\ "db" \in Disturbances
  /\ pc[w] = "normalize"
  /\ Catch(w, TRUE)
  /\ UNCHANGED <<rowVars, inflight>>

(* Mutant of Complete: the receipt is updated by id alone. *)
CompleteUnfenced(r, c) ==
  /\ status' = [status EXCEPT ![r] = "normalized"]
  /\ claim' = [claim EXCEPT ![r] = NoClaim]
  /\ current' = [current EXCEPT ![r] = FALSE]
  /\ imports' = [imports EXCEPT ![r] = @ + 1]
  /\ UNCHANGED attempts

(* The import transaction ends with the receipt it normalizes, and rolls     *)
(* back when that is no longer claimed under the same id.                    *)
Complete(r, c) ==
  /\ ClaimHolds(r, c)
  /\ status' = [status EXCEPT ![r] = "normalized"]
  /\ claim' = [claim EXCEPT ![r] = NoClaim]
  /\ current' = [current EXCEPT ![r] = FALSE]
  /\ imports' = [imports EXCEPT ![r] = @ + 1]
  /\ UNCHANGED attempts

Import(w) ==
  /\ pc[w] = "import"
  /\ \/ Complete(cur[w][1], cur[w][2]) /\ Continue(w)
     \/ ~ClaimHolds(cur[w][1], cur[w][2]) /\ UNCHANGED rowVars /\ Catch(w, TRUE)
  /\ UNCHANGED inflight

ImportFails(w) ==
  /\ pc[w] = "import"
  /\ \/ "transient" \in Disturbances /\ UNCHANGED rowVars
     \/ "db" \in Disturbances /\ Complete(cur[w][1], cur[w][2])
  /\ Catch(w, TRUE)
  /\ UNCHANGED inflight

(* Mutant of GiveUp: the claim id stays. *)
GiveUpKeepingClaim(r, c, retryable) ==
  /\ ClaimHolds(r, c)
  /\ status' = [status EXCEPT ![r] =
                  IF ~retryable \/ attempts[r] >= MaxAttempts THEN "failed" ELSE "pending"]
  /\ UNCHANGED claim
  /\ current' = [current EXCEPT ![r] = FALSE]
  /\ UNCHANGED <<attempts, imports>>

(* Mutant of GiveUp: one attempt more than claimPending grants. *)
GiveUpOneTooLate(r, c, retryable) ==
  /\ ClaimHolds(r, c)
  /\ status' = [status EXCEPT ![r] =
                  IF ~retryable \/ attempts[r] > MaxAttempts THEN "failed" ELSE "pending"]
  /\ claim' = [claim EXCEPT ![r] = NoClaim]
  /\ current' = [current EXCEPT ![r] = FALSE]
  /\ UNCHANGED <<attempts, imports>>

(* Mutant of GiveUp: one attempt fewer. *)
GiveUpOneTooEarly(r, c, retryable) ==
  /\ ClaimHolds(r, c)
  /\ status' = [status EXCEPT ![r] =
                  IF ~retryable \/ attempts[r] >= MaxAttempts - 1 THEN "failed" ELSE "pending"]
  /\ claim' = [claim EXCEPT ![r] = NoClaim]
  /\ current' = [current EXCEPT ![r] = FALSE]
  /\ UNCHANGED <<attempts, imports>>

(* failClaim gives the receipt back or settles it. *)
GiveUp(r, c, retryable) ==
  /\ ClaimHolds(r, c)
  /\ status' = [status EXCEPT ![r] =
                  IF ~retryable \/ attempts[r] >= MaxAttempts THEN "failed" ELSE "pending"]
  /\ claim' = [claim EXCEPT ![r] = NoClaim]
  /\ current' = [current EXCEPT ![r] = FALSE]
  /\ UNCHANGED <<attempts, imports>>

(* When the claim has changed it throws, and that ends the batch. *)
FailClaim(w) ==
  /\ pc[w] = "fail"
  /\ \/ GiveUp(cur[w][1], cur[w][2], retry[w]) /\ Continue(w)
     \/ ~ClaimHolds(cur[w][1], cur[w][2]) /\ UNCHANGED rowVars /\ Repoll(w)
  /\ UNCHANGED inflight

FailClaimFails(w) ==
  /\ "db" \in Disturbances
  /\ pc[w] = "fail"
  /\ GiveUp(cur[w][1], cur[w][2], retry[w]) \/ UNCHANGED rowVars
  /\ Repoll(w)
  /\ UNCHANGED inflight

(* claimPending fails after its update: the loop does not know what it has.  *)
ReadFails(w) ==
  /\ "db" \in Disturbances
  /\ pc[w] = "read"
  /\ Repoll(w)
  /\ UNCHANGED <<rowVars, inflight>>

(***************************************************************************)
(* Processes.                                                              *)
(***************************************************************************)
Start(w) ==
  /\ pc[w] = "down"
  /\ Go(w, "poll")
  /\ UNCHANGED <<rowVars, stopping, drawn, batch, cur, retry, inflight>>

Stop(w) ==
  /\ "stop" \in Disturbances
  /\ pc[w] # "down" /\ ~stopping[w]
  /\ stopping' = [stopping EXCEPT ![w] = TRUE]
  /\ UNCHANGED <<rowVars, pc, drawn, batch, cur, retry, inflight>>

Down(w) ==
  /\ Go(w, "down")
  /\ stopping' = [stopping EXCEPT ![w] = FALSE]
  /\ drawn' = [drawn EXCEPT ![w] = {}]
  /\ batch' = [batch EXCEPT ![w] = {}]
  /\ cur' = [cur EXCEPT ![w] = Nothing]
  /\ retry' = [retry EXCEPT ![w] = FALSE]
  /\ UNCHANGED rowVars

(* A draining worker keeps the claims of the receipts it has not come to. *)
Exit(w) ==
  /\ stopping[w] /\ pc[w] \in {"poll", "next"}
  /\ Down(w)
  /\ UNCHANGED inflight

Crash(w) ==
  /\ "crash" \in Disturbances
  /\ pc[w] # "down"
  /\ Down(w)
  /\ inflight' = IF pc[w] \in {"import", "fail"}
                   THEN inflight \cup { [op |-> pc[w], pair |-> cur[w], retry |-> retry[w]] }
                   ELSE inflight

(* The database had the statement already. *)
Executed(o) ==
  /\ inflight' = inflight \ {o}
  /\ \/ o.op = "import" /\ Complete(o.pair[1], o.pair[2])
     \/ o.op = "fail" /\ GiveUp(o.pair[1], o.pair[2], o.retry)
  /\ UNCHANGED loopVars

RolledBack(o) ==
  /\ inflight' = inflight \ {o}
  /\ UNCHANGED <<rowVars, loopVars>>

(***************************************************************************)
(* The specification.                                                      *)
(***************************************************************************)
Init ==
  /\ status = [r \in Receipts |-> "absent"]
  /\ attempts = [r \in Receipts |-> 0]
  /\ claim = [r \in Receipts |-> NoClaim]
  /\ current = [r \in Receipts |-> FALSE]
  /\ imports = [r \in Receipts |-> 0]
  /\ pc = [w \in Workers |-> "down"]
  /\ stopping = [w \in Workers |-> FALSE]
  /\ drawn = [w \in Workers |-> {}]
  /\ batch = [w \in Workers |-> {}]
  /\ cur = [w \in Workers |-> Nothing]
  /\ retry = [w \in Workers |-> FALSE]
  /\ inflight = {}

Loop(w) ==
  \/ Start(w) \/ ClaimPending(w) \/ ReadClaims(w) \/ Take(w) \/ BatchDone(w)
  \/ Normalize(w) \/ Import(w) \/ FailClaim(w) \/ Exit(w)

Disturbed(w) ==
  ImportFails(w) \/ FailClaimFails(w) \/ ReadFails(w) \/ NormalizeFails(w) \/ Stop(w) \/ Crash(w)

Next ==
  \/ \E w \in Workers : Loop(w) \/ Disturbed(w)
  \/ \E r \in Receipts : Enqueue(r) \/ Expire(r)
  \/ \E o \in inflight : Executed(o) \/ RolledBack(o)

Spec == Init /\ [][Next]_vars

(* The event loop of a live process runs on; a claim nobody works on any     *)
(* more expires; a statement in flight ends one way or the other.            *)
FairSpec ==
  /\ Spec
  /\ \A w \in Workers : WF_vars(Loop(w))
  /\ \A r \in Receipts : WF_vars(Expire(r))
  /\ WF_vars(\E o \in inflight : Executed(o) \/ RolledBack(o))

-----------------------------------------------------------------------------
(***************************************************************************)
(* Properties.                                                             *)
(***************************************************************************)
RowTypes ==
  /\ status \in [Receipts -> Statuses]
  /\ attempts \in [Receipts -> 0 .. MaxAttempts + 1]
  /\ claim \in [Receipts -> Claims \cup {NoClaim}]
  /\ current \in [Receipts -> BOOLEAN]
  /\ imports \in [Receipts -> Nat]

LoopTypes ==
  /\ pc \in [Workers -> Steps]
  /\ stopping \in [Workers -> BOOLEAN]
  /\ drawn \in [Workers -> SUBSET Receipts]
  /\ batch \in [Workers -> SUBSET (Receipts \X Claims)]
  /\ cur \in [Workers -> (Receipts \X Claims) \cup {Nothing}]
  /\ retry \in [Workers -> BOOLEAN]

InflightTypes ==
  inflight \subseteq [op : {"import", "fail"}, pair : Receipts \X Claims, retry : BOOLEAN]

ClaimWhileProcessing ==
  \A r \in Receipts : claim[r] # NoClaim <=> status[r] = "processing"

(* Every variable has its type, and a row has a claim exactly while it is    *)
(* being processed.                                                          *)
TypeOK == RowTypes /\ LoopTypes /\ InflightTypes /\ ClaimWhileProcessing

(* A receipt is imported exactly when it is normalized, and never twice,     *)
(* however many workers come to hold a claim of it.                          *)
NormalizedOnce ==
  \A r \in Receipts : imports[r] = IF status[r] = "normalized" THEN 1 ELSE 0

(* No receipt is left pending that claimPending would never select: what is  *)
(* given back has attempts left.                                             *)
PendingHasAttempts ==
  \A r \in Receipts : status[r] = "pending" => attempts[r] < MaxAttempts

(* A receipt that can be imported is not written off before its last         *)
(* attempt, whatever happened to earlier claims, and one that cannot is      *)
(* never imported.                                                           *)
VerdictsJustified ==
  \A r \in Receipts :
    /\ status[r] = "failed" => r \in Poison \/ attempts[r] >= MaxAttempts
    /\ status[r] = "normalized" => r \notin Poison

(* A claim in force is left alone by everybody who does not hold it: while   *)
(* it is current, only its own holder (or its own statement in flight) moves *)
(* the row, and a settled row never moves again.                             *)
ClaimRespected ==
  [][ \A r \in Receipts :
        /\ status[r] = "processing" /\ current[r] /\ status'[r] # "processing"
             => \/ \E w \in Workers : cur[w] = <<r, claim[r]>> /\ cur'[w] # cur[w]
                \/ \E w \in Workers : cur[w] = <<r, claim[r]>> /\ pc[w] = "import" /\ pc'[w] = "fail"
                \/ \E o \in inflight \ inflight' : o.pair = <<r, claim[r]>>
        /\ status[r] = "processing" /\ current[r] /\ status'[r] = "processing"
             => claim'[r] = claim[r]
        /\ status[r] \in Settled => status'[r] = status[r] /\ imports'[r] = imports[r] ]_vars

(* Once the workers stay up, every accepted receipt is settled: neither      *)
(* poison nor failing imports nor lost claims keep it from its turn.         *)
WorkersStayUp == <>[](\A w \in Workers : pc[w] # "down")

ReceiptsSettle ==
  WorkersStayUp =>
    \A r \in Receipts : (status[r] \in {"pending", "processing"}) ~> (status[r] \in Settled)

(* The bound docs/stories/EHV2-08.md:49 asks for, which the takeover of      *)
(* expired claims does not keep: see the README, section 3.                  *)
AttemptsBounded == \A r \in Receipts : attempts[r] <= MaxAttempts
=============================================================================
