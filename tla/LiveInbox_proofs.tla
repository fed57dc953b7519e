-------------------------- MODULE LiveInbox_proofs --------------------------
(***************************************************************************)
(* Proofs about LiveInbox, for every number of workers, receipts and       *)
(* claims, every batch size and bound, and every set of disturbances.      *)
(***************************************************************************)
EXTENDS LiveInbox, TLAPS

-----------------------------------------------------------------------------
(***************************************************************************)
(* The inductive invariant.                                                *)
(*                                                                         *)
(* A worker works at a receipt with a claim of it.  It comes to the import *)
(* only with a receipt that parses, and gives up for good only on one that *)
(* does not; the same holds of a statement that survives its worker.       *)
(***************************************************************************)
AtReceipt == {"normalize", "import", "fail"}

LoopShape ==
  \A w \in Workers :
    /\ pc[w] \in AtReceipt => cur[w] \in Receipts \X Claims
    /\ pc[w] = "import" => cur[w][1] \notin Poison
    /\ pc[w] = "fail" /\ ~retry[w] => cur[w][1] \in Poison

InflightShape ==
  \A o \in inflight :
    /\ o.op = "import" => o.pair[1] \notin Poison
    /\ o.op = "fail" /\ ~o.retry => o.pair[1] \in Poison

(* A receipt that never arrived has used no attempt. *)
AbsentIsFresh ==
  \A r \in Receipts : status[r] = "absent" => attempts[r] = 0

RowInv ==
  /\ RowTypes /\ ClaimWhileProcessing /\ AbsentIsFresh
  /\ NormalizedOnce /\ PendingHasAttempts /\ VerdictsJustified

Invariant ==
  /\ RowInv
  /\ LoopTypes /\ LoopShape
  /\ InflightTypes /\ InflightShape

LEMMA InvariantInit == Init => Invariant
  <1> SUFFICES ASSUME Init PROVE Invariant
    OBVIOUS
  <1> USE DEF Init
  <1>1. RowTypes /\ ClaimWhileProcessing /\ AbsentIsFresh
    BY InboxParametersAssumption DEF RowTypes, ClaimWhileProcessing, AbsentIsFresh, Statuses
  <1>2. NormalizedOnce /\ PendingHasAttempts /\ VerdictsJustified
    BY DEF NormalizedOnce, PendingHasAttempts, VerdictsJustified
  <1>3. LoopTypes /\ LoopShape
    BY DEF LoopTypes, LoopShape, AtReceipt, Steps
  <1>4. InflightTypes /\ InflightShape
    BY DEF InflightTypes, InflightShape
  <1> QED
    BY <1>1, <1>2, <1>3, <1>4 DEF Invariant, RowInv

-----------------------------------------------------------------------------
(***************************************************************************)
(* The statements that write a row.                                        *)
(***************************************************************************)
(* Committing an import keeps the rows right, for a receipt that parses. *)
LEMMA CompleteStep ==
  ASSUME RowInv, NEW r \in Receipts, NEW c \in Claims, r \notin Poison, Complete(r, c)
  PROVE  RowInv'
  <1> USE DEF RowInv, Complete, ClaimHolds, RowTypes
  <1>1. RowTypes' /\ ClaimWhileProcessing' /\ AbsentIsFresh'
    BY DEF ClaimWhileProcessing, AbsentIsFresh, Statuses
  <1>2. NormalizedOnce'
    BY DEF NormalizedOnce
  <1>3. PendingHasAttempts'
    BY DEF PendingHasAttempts
  <1>4. VerdictsJustified'
    BY DEF VerdictsJustified
  <1> QED
    BY <1>1, <1>2, <1>3, <1>4

(* So does giving up, if it is for good only on a receipt that does not. *)
LEMMA GiveUpStep ==
  ASSUME RowInv, NEW r \in Receipts, NEW c \in Claims, NEW t \in BOOLEAN,
         ~t => r \in Poison, GiveUp(r, c, t)
  PROVE  RowInv'
  <1> DEFINE verdict == IF ~t \/ attempts[r] >= MaxAttempts THEN "failed" ELSE "pending"
  <1> USE DEF RowInv, GiveUp, ClaimHolds, RowTypes
  <1>1. \/ verdict = "failed" /\ (r \in Poison \/ attempts[r] >= MaxAttempts)
        \/ verdict = "pending" /\ attempts[r] < MaxAttempts
    BY InboxParametersAssumption DEF verdict
  <1>2. status' = [status EXCEPT ![r] = verdict]
    BY DEF verdict
  <1>3. RowTypes' /\ ClaimWhileProcessing' /\ AbsentIsFresh'
    BY <1>1, <1>2, ClaimsAssumption DEF ClaimWhileProcessing, AbsentIsFresh, Statuses
  <1>4. NormalizedOnce'
    BY <1>1, <1>2 DEF NormalizedOnce
  <1>5. PendingHasAttempts'
    BY <1>1, <1>2 DEF PendingHasAttempts
  <1>6. VerdictsJustified'
    BY <1>1, <1>2 DEF VerdictsJustified
  <1> QED
    BY <1>3, <1>4, <1>5, <1>6

LEMMA RowsUnchanged ==
  ASSUME RowInv, UNCHANGED rowVars
  PROVE  RowInv'
  BY DEF RowInv, rowVars, RowTypes, ClaimWhileProcessing, AbsentIsFresh, NormalizedOnce,
         PendingHasAttempts, VerdictsJustified

(* What a claim statement draws was claimable, and its new claims are claims. *)
LEMMA ClaimingStep ==
  ASSUME Invariant, NEW w \in Workers, ClaimPending(w)
  PROVE  /\ RowInv'
         /\ drawn'[w] \subseteq { r \in Receipts : Claimable(r) }
  <1> DEFINE D == drawn'[w]
  <1>1. D \subseteq { r \in Receipts : Claimable(r) }
    BY DEF Invariant, LoopTypes, ClaimPending, Oldest
  <1>2. PICK f \in [D -> Claims] :
          claim' = [r \in Receipts |-> IF r \in D THEN f[r] ELSE claim[r]]
    BY DEF ClaimPending
  <1>3. /\ status' = [r \in Receipts |-> IF r \in D THEN "processing" ELSE status[r]]
        /\ attempts' = [r \in Receipts |->
                          IF r \in D THEN SetAttempts(attempts[r] + 1) ELSE attempts[r]]
        /\ current' = [r \in Receipts |-> r \in D \/ current[r]]
        /\ imports' = imports
    BY DEF ClaimPending
  <1> HIDE DEF D
  <1> USE DEF Invariant, RowInv, RowTypes
  <1>4. \A r \in D : status[r] \in {"pending", "processing"}
    BY <1>1 DEF Claimable
  <1>5. RowTypes'
    <2>1. \A r \in Receipts : SetAttempts(attempts[r] + 1) \in 0 .. MaxAttempts + 1
      BY InboxParametersAssumption DEF SetAttempts
    <2> QED
      BY <1>2, <1>3, <2>1 DEF Statuses
  <1>6. ClaimWhileProcessing' /\ AbsentIsFresh'
    BY <1>2, <1>3, ClaimsAssumption DEF ClaimWhileProcessing, AbsentIsFresh
  <1>7. NormalizedOnce' /\ PendingHasAttempts' /\ VerdictsJustified'
    BY <1>3, <1>4 DEF NormalizedOnce, PendingHasAttempts, VerdictsJustified
  <1> QED
    BY <1>1, <1>5, <1>6, <1>7 DEF D

-----------------------------------------------------------------------------
(***************************************************************************)
(* The steps of the loops.                                                 *)
(***************************************************************************)
LoopInv == LoopTypes /\ LoopShape

(* Where a worker goes when a step of its own ends at no receipt. *)
LEMMA LeavesReceipt ==
  ASSUME LoopInv, NEW w \in Workers, Continue(w) \/ Repoll(w)
  PROVE  LoopInv'
  <1>1. LoopTypes'
    BY DEF LoopInv, LoopTypes, Continue, Repoll, Go, Steps
  <1>2. LoopShape'
    BY DEF LoopInv, LoopTypes, LoopShape, Continue, Repoll, Go, AtReceipt
  <1> QED
    BY <1>1, <1>2 DEF LoopInv

LEMMA Catches ==
  ASSUME LoopInv, NEW w \in Workers, pc[w] \in AtReceipt, NEW t \in BOOLEAN,
         ~t => cur[w][1] \in Poison, Catch(w, t)
  PROVE  LoopInv'
  <1>1. LoopTypes'
    BY DEF LoopInv, LoopTypes, Catch, Go, Steps
  <1>2. LoopShape'
    BY DEF LoopInv, LoopTypes, LoopShape, Catch, Go, AtReceipt
  <1> QED
    BY <1>1, <1>2 DEF LoopInv

LEMMA GoesDown ==
  ASSUME LoopInv, NEW w \in Workers, Down(w)
  PROVE  LoopInv'
  <1>1. LoopTypes'
    BY DEF LoopInv, LoopTypes, Down, Go, Steps
  <1>2. LoopShape'
    BY DEF LoopInv, LoopTypes, LoopShape, Down, Go, AtReceipt
  <1> QED
    BY <1>1, <1>2 DEF LoopInv

LEMMA InflightUnchanged ==
  ASSUME InflightTypes, InflightShape, UNCHANGED inflight
  PROVE  InflightTypes' /\ InflightShape'
  BY DEF InflightTypes, InflightShape

LEMMA InvariantStep == Invariant /\ [Next]_vars => Invariant'
  <1> SUFFICES ASSUME Invariant, [Next]_vars PROVE Invariant'
    OBVIOUS
  <1>0. RowInv /\ LoopInv /\ InflightTypes /\ InflightShape
    BY DEF Invariant, LoopInv
  <1> DEFINE Kept == RowInv' /\ LoopInv' /\ InflightTypes' /\ InflightShape'
  <1>p. ASSUME NEW w \in Workers, pc[w] \in AtReceipt
        PROVE  cur[w][1] \in Receipts /\ cur[w][2] \in Claims /\ retry[w] \in BOOLEAN
    BY <1>0, <1>p DEF LoopInv, LoopShape, LoopTypes
  <1>1. ASSUME NEW w \in Workers, Start(w) \/ Stop(w) PROVE Kept
    <2>1. LoopTypes' /\ LoopShape'
      BY <1>0, <1>1 DEF LoopInv, LoopTypes, LoopShape, Start, Stop, Go, Steps, AtReceipt
    <2> QED
      BY <1>0, <1>1, <2>1, RowsUnchanged, InflightUnchanged DEF Start, Stop, LoopInv
  <1>2. ASSUME NEW w \in Workers, ClaimPending(w) PROVE Kept
    <2>1. LoopTypes'
      BY <1>0, <1>2 DEF LoopInv, LoopTypes, ClaimPending, Oldest, Go, Steps
    <2>2. LoopShape'
      BY <1>0, <1>2 DEF LoopInv, LoopTypes, LoopShape, ClaimPending, Go, AtReceipt
    <2> QED
      BY <1>0, <1>2, <2>1, <2>2, ClaimingStep, InflightUnchanged DEF ClaimPending, LoopInv
  <1>3. ASSUME NEW w \in Workers, ReadClaims(w) PROVE Kept
    <2>1. { <<r, claim[r]>> : r \in { k \in drawn[w] : status[k] = "processing" } }
            \subseteq Receipts \X Claims
      BY <1>0 DEF LoopInv, LoopTypes, RowInv, RowTypes, ClaimWhileProcessing
    <2>2. LoopTypes'
      BY <1>0, <1>3, <2>1 DEF LoopInv, LoopTypes, ReadClaims, Go, Steps
    <2>3. LoopShape'
      BY <1>0, <1>3 DEF LoopInv, LoopTypes, LoopShape, ReadClaims, Go, AtReceipt
    <2> QED
      BY <1>0, <1>3, <2>2, <2>3, RowsUnchanged, InflightUnchanged DEF ReadClaims, LoopInv
  <1>4. ASSUME NEW w \in Workers, Take(w) PROVE Kept
    <2>1. PICK p \in batch[w] : /\ batch' = [batch EXCEPT ![w] = @ \ {p}]
                                /\ cur' = [cur EXCEPT ![w] = p]
      BY <1>4 DEF Take
    <2>2. p \in Receipts \X Claims
      BY <1>0 DEF LoopInv, LoopTypes
    <2>3. LoopTypes'
      BY <1>0, <1>4, <2>1, <2>2 DEF LoopInv, LoopTypes, Take, Go, Steps
    <2>4. LoopShape'
      BY <1>0, <1>4, <2>1, <2>2 DEF LoopInv, LoopTypes, LoopShape, Take, Go, AtReceipt
    <2> QED
      BY <1>0, <1>4, <2>3, <2>4, RowsUnchanged, InflightUnchanged DEF Take, LoopInv
  <1>5. ASSUME NEW w \in Workers, BatchDone(w) \/ ReadFails(w) PROVE Kept
    BY <1>0, <1>5, LeavesReceipt, RowsUnchanged, InflightUnchanged DEF BatchDone, ReadFails
  <1>6. ASSUME NEW w \in Workers, Normalize(w) \/ NormalizeFails(w) PROVE Kept
    <2> DEFINE r == cur[w][1]
    <2>1. pc[w] = "normalize" /\ UNCHANGED <<rowVars, inflight>>
      BY <1>6 DEF Normalize, NormalizeFails
    <2>2. \/ Continue(w)
          \/ Catch(w, TRUE)
          \/ r \in Poison /\ Catch(w, FALSE)
          \/ r \notin Poison /\ Go(w, "import") /\ UNCHANGED <<stopping, drawn, batch, cur, retry>>
      BY <1>6 DEF Normalize, NormalizeFails
    <2>3. CASE Go(w, "import") /\ r \notin Poison /\ UNCHANGED <<stopping, drawn, batch, cur, retry>>
      <3>1. LoopTypes'
        BY <1>0, <2>3 DEF LoopInv, LoopTypes, Go, Steps
      <3>2. LoopShape'
        BY <1>0, <2>1, <2>3 DEF LoopInv, LoopTypes, LoopShape, Go, AtReceipt
      <3> QED
        BY <1>0, <2>1, <3>1, <3>2, RowsUnchanged, InflightUnchanged DEF LoopInv
    <2>4. CASE Continue(w)
      BY <1>0, <2>1, <2>4, LeavesReceipt, RowsUnchanged, InflightUnchanged
    <2>5. CASE Catch(w, TRUE) \/ (r \in Poison /\ Catch(w, FALSE))
      BY <1>0, <2>1, <2>5, Catches, RowsUnchanged, InflightUnchanged DEF AtReceipt
    <2> QED
      BY <2>2, <2>3, <2>4, <2>5
  <1>7. ASSUME NEW w \in Workers, Import(w) \/ ImportFails(w) PROVE Kept
    <2>1. pc[w] \in AtReceipt /\ cur[w][1] \notin Poison /\ UNCHANGED inflight
      BY <1>0, <1>7 DEF Import, ImportFails, AtReceipt, LoopInv, LoopShape
    <2>2. UNCHANGED rowVars \/ Complete(cur[w][1], cur[w][2])
      BY <1>7 DEF Import, ImportFails
    <2>3. RowInv'
      BY <1>0, <1>p, <2>1, <2>2, CompleteStep, RowsUnchanged
    <2>4. Continue(w) \/ Catch(w, TRUE)
      BY <1>7 DEF Import, ImportFails
    <2>5. LoopInv'
      BY <1>0, <2>1, <2>4, LeavesReceipt, Catches
    <2> QED
      BY <1>0, <2>1, <2>3, <2>5, InflightUnchanged
  <1>8. ASSUME NEW w \in Workers, FailClaim(w) \/ FailClaimFails(w) PROVE Kept
    <2>1. pc[w] \in AtReceipt /\ (~retry[w] => cur[w][1] \in Poison) /\ UNCHANGED inflight
      BY <1>0, <1>8 DEF FailClaim, FailClaimFails, AtReceipt, LoopInv, LoopShape
    <2>2. UNCHANGED rowVars \/ GiveUp(cur[w][1], cur[w][2], retry[w])
      BY <1>8 DEF FailClaim, FailClaimFails
    <2>3. RowInv'
      BY <1>0, <1>p, <2>1, <2>2, GiveUpStep, RowsUnchanged
    <2>4. Continue(w) \/ Repoll(w)
      BY <1>8 DEF FailClaim, FailClaimFails
    <2> QED
      BY <1>0, <2>1, <2>3, <2>4, LeavesReceipt, InflightUnchanged
  <1>9. ASSUME NEW w \in Workers, Exit(w) PROVE Kept
    BY <1>0, <1>9, GoesDown, RowsUnchanged, InflightUnchanged DEF Exit, Down
  <1>10. ASSUME NEW w \in Workers, Crash(w) PROVE Kept
    <2>1. InflightTypes'
      BY <1>0, <1>10, <1>p DEF Crash, InflightTypes, AtReceipt, LoopInv, LoopShape
    <2>2. InflightShape'
      BY <1>0, <1>10 DEF Crash, InflightShape, LoopInv, LoopShape
    <2> QED
      BY <1>0, <1>10, <2>1, <2>2, GoesDown, RowsUnchanged DEF Crash, Down
  <1>11. ASSUME NEW r \in Receipts, Enqueue(r) PROVE Kept
    <2>1. RowTypes' /\ ClaimWhileProcessing' /\ AbsentIsFresh'
      BY <1>0, <1>11 DEF Enqueue, RowInv, RowTypes, ClaimWhileProcessing, AbsentIsFresh, Statuses
    <2>2. NormalizedOnce' /\ PendingHasAttempts' /\ VerdictsJustified'
      BY <1>0, <1>11, InboxParametersAssumption
         DEF Enqueue, RowInv, RowTypes, AbsentIsFresh, NormalizedOnce, PendingHasAttempts, VerdictsJustified
    <2>3. LoopInv'
      BY <1>0, <1>11 DEF Enqueue, LoopInv, LoopTypes, LoopShape, loopVars
    <2> QED
      BY <1>0, <1>11, <2>1, <2>2, <2>3, InflightUnchanged DEF Enqueue, RowInv
  <1>12. ASSUME NEW r \in Receipts, Expire(r) PROVE Kept
    <2>1. RowInv'
      BY <1>0, <1>12 DEF Expire, RowInv, RowTypes, ClaimWhileProcessing, AbsentIsFresh,
                         NormalizedOnce, PendingHasAttempts, VerdictsJustified
    <2>2. LoopInv'
      BY <1>0, <1>12 DEF Expire, LoopInv, LoopTypes, LoopShape, loopVars
    <2> QED
      BY <1>0, <1>12, <2>1, <2>2, InflightUnchanged DEF Expire
  <1>13. ASSUME NEW o \in inflight, Executed(o) \/ RolledBack(o) PROVE Kept
    <2>1. o.pair[1] \in Receipts /\ o.pair[2] \in Claims /\ o.retry \in BOOLEAN
      BY <1>0 DEF InflightTypes
    <2>2. \/ o.op = "import" /\ Complete(o.pair[1], o.pair[2])
          \/ o.op = "fail" /\ GiveUp(o.pair[1], o.pair[2], o.retry)
          \/ UNCHANGED rowVars
      BY <1>13 DEF Executed, RolledBack
    <2>3. RowInv'
      BY <1>0, <2>1, <2>2, CompleteStep, GiveUpStep, RowsUnchanged DEF InflightShape
    <2>4. LoopInv' /\ InflightTypes' /\ InflightShape'
      BY <1>0, <1>13 DEF Executed, RolledBack, LoopInv, LoopTypes, LoopShape, loopVars,
                         InflightTypes, InflightShape
    <2> QED
      BY <2>3, <2>4
  <1>14. ASSUME UNCHANGED vars PROVE Kept
    BY <1>0, <1>14, RowsUnchanged, InflightUnchanged
       DEF vars, rowVars, loopVars, LoopInv, LoopTypes, LoopShape
  <1>15. Kept
    BY <1>1, <1>2, <1>3, <1>4, <1>5, <1>6, <1>7, <1>8, <1>9, <1>10, <1>11, <1>12, <1>13, <1>14
       DEF Next, Loop, Disturbed
  <1> QED
    BY <1>15 DEF Invariant, LoopInv

LEMMA InvariantAlways == Spec => []Invariant
  BY InvariantInit, InvariantStep, PTL DEF Spec
-----------------------------------------------------------------------------
(***************************************************************************)
(* What a step may do to a row that is claimed or settled.                 *)
(***************************************************************************)
Moved(r) ==
  \/ \E w \in Workers : cur[w] = <<r, claim[r]>> /\ cur'[w] # cur[w]
  \/ \E w \in Workers : cur[w] = <<r, claim[r]>> /\ pc[w] = "import" /\ pc'[w] = "fail"
  \/ \E o \in inflight \ inflight' : o.pair = <<r, claim[r]>>

Respects(r) ==
  /\ status[r] = "processing" /\ current[r] /\ status'[r] # "processing" => Moved(r)
  /\ status[r] = "processing" /\ current[r] /\ status'[r] = "processing" => claim'[r] = claim[r]
  /\ status[r] \in Settled => status'[r] = status[r] /\ imports'[r] = imports[r]

(* A statement that asks for the claim moves a row of that claim only. *)
LEMMA FencedMoves ==
  ASSUME RowTypes, NEW r \in Receipts, NEW k \in Receipts, NEW c, NEW t,
         Complete(k, c) \/ GiveUp(k, c, t)
  PROVE  /\ k # r => status'[r] = status[r] /\ claim'[r] = claim[r] /\ imports'[r] = imports[r]
         /\ k = r => status[r] = "processing" /\ claim[r] = c /\ status'[r] # "processing"
  <1>1. CASE Complete(k, c)
    BY <1>1 DEF Complete, ClaimHolds, RowTypes
  <1>2. CASE GiveUp(k, c, t)
    BY <1>2 DEF GiveUp, ClaimHolds, RowTypes
  <1> QED
    BY <1>1, <1>2

LEMMA RowsKeptRespect ==
  ASSUME UNCHANGED <<status, claim, imports>>, NEW r \in Receipts
  PROVE  Respects(r)
  BY DEF Respects

LEMMA RespectStep ==
  ASSUME Invariant, [Next]_vars, NEW r \in Receipts
  PROVE  Respects(r)
  <1>0. /\ RowTypes /\ LoopTypes /\ LoopShape /\ InflightTypes
        /\ \A k \in Receipts, c \in Claims : Nothing # <<k, c>>
    BY ReceiptsAssumption DEF Invariant, RowInv, Nothing
  <1>p. ASSUME NEW w \in Workers, pc[w] \in AtReceipt
        PROVE  /\ cur[w][1] \in Receipts /\ cur[w] = <<cur[w][1], cur[w][2]>>
               /\ cur[w] # Nothing
    BY <1>0, <1>p DEF LoopShape
  <1>1. ASSUME NEW w \in Workers, ClaimPending(w) PROVE Respects(r)
    <2> DEFINE D == drawn'[w]
    <2>1. D \subseteq { k \in Receipts : Claimable(k) }
      BY <1>1, ClaimingStep
    <2>2. \E f \in [D -> Claims] : claim' = [k \in Receipts |-> IF k \in D THEN f[k] ELSE claim[k]]
      BY <1>1 DEF ClaimPending
    <2>3. /\ status' = [k \in Receipts |-> IF k \in D THEN "processing" ELSE status[k]]
          /\ imports' = imports
      BY <1>1 DEF ClaimPending
    <2> HIDE DEF D
    <2>4. CASE r \in D
      BY <2>1, <2>3, <2>4 DEF Respects, Claimable, Settled
    <2>5. CASE r \notin D
      BY <2>2, <2>3, <2>5 DEF Respects
    <2> QED
      BY <2>4, <2>5
  <1>2. ASSUME NEW w \in Workers, Import(w) \/ ImportFails(w) PROVE Respects(r)
    <2>1. CASE UNCHANGED rowVars
      BY <2>1, RowsKeptRespect DEF rowVars
    <2>2. CASE Complete(cur[w][1], cur[w][2])
      <3>1. /\ cur[w][1] \in Receipts /\ cur[w] = <<cur[w][1], cur[w][2]>> /\ cur[w] # Nothing
            /\ pc[w] = "import"
        BY <1>2, <1>p DEF Import, ImportFails, AtReceipt
      <3>2. \/ cur'[w] = Nothing
            \/ pc'[w] = "fail"
        BY <1>0, <1>2 DEF Import, ImportFails, Continue, Catch, Go, LoopTypes
      <3>3. cur[w][1] = r => Moved(r)
        BY <1>0, <2>2, <3>1, <3>2, FencedMoves DEF Moved
      <3> QED
        BY <1>0, <2>2, <3>1, <3>3, FencedMoves DEF Respects, Settled
    <2> QED
      BY <1>2, <2>1, <2>2 DEF Import, ImportFails
  <1>3. ASSUME NEW w \in Workers, FailClaim(w) \/ FailClaimFails(w) PROVE Respects(r)
    <2>1. CASE UNCHANGED rowVars
      BY <2>1, RowsKeptRespect DEF rowVars
    <2>2. CASE GiveUp(cur[w][1], cur[w][2], retry[w])
      <3>1. cur[w][1] \in Receipts /\ cur[w] = <<cur[w][1], cur[w][2]>> /\ cur[w] # Nothing
        BY <1>3, <1>p DEF FailClaim, FailClaimFails, AtReceipt
      <3>2. cur'[w] = Nothing
        BY <1>0, <1>3 DEF FailClaim, FailClaimFails, Continue, Repoll, LoopTypes
      <3>3. cur[w][1] = r => Moved(r)
        BY <1>0, <2>2, <3>1, <3>2, FencedMoves DEF Moved
      <3> QED
        BY <1>0, <2>2, <3>1, <3>3, FencedMoves DEF Respects, Settled
    <2> QED
      BY <1>3, <2>1, <2>2 DEF FailClaim, FailClaimFails
  <1>4. ASSUME NEW o \in inflight, Executed(o) PROVE Respects(r)
    <2>1. /\ o.pair[1] \in Receipts /\ o.pair = <<o.pair[1], o.pair[2]>>
          /\ o \in inflight \ inflight'
      BY <1>0, <1>4 DEF InflightTypes, Executed
    <2>2. Complete(o.pair[1], o.pair[2]) \/ GiveUp(o.pair[1], o.pair[2], o.retry)
      BY <1>4 DEF Executed
    <2>3. o.pair[1] = r => Moved(r)
      BY <1>0, <2>1, <2>2, FencedMoves DEF Moved
    <2> QED
      BY <1>0, <2>1, <2>2, <2>3, FencedMoves DEF Respects, Settled
  <1>5. ASSUME NEW k \in Receipts, Enqueue(k) PROVE Respects(r)
    BY <1>0, <1>5 DEF Enqueue, Respects, RowTypes, Settled
  <1>6. ASSUME NEW k \in Receipts, Expire(k) PROVE Respects(r)
    BY <1>6, RowsKeptRespect DEF Expire
  <1>7. ASSUME NEW w \in Workers, \/ Start(w) \/ ReadClaims(w) \/ Take(w) \/ BatchDone(w)
                                  \/ Normalize(w) \/ NormalizeFails(w) \/ Exit(w) \/ ReadFails(w)
                                  \/ Stop(w) \/ Crash(w)
        PROVE  Respects(r)
    BY <1>7, RowsKeptRespect
       DEF Start, ReadClaims, Take, BatchDone, Normalize, NormalizeFails, Exit, ReadFails, Stop, Crash,
           Down, rowVars
  <1>8. ASSUME (\E o \in inflight : RolledBack(o)) \/ UNCHANGED vars PROVE Respects(r)
    BY <1>8, RowsKeptRespect DEF RolledBack, vars, rowVars
  <1> QED
    BY <1>1, <1>2, <1>3, <1>4, <1>5, <1>6, <1>7, <1>8 DEF Next, Loop, Disturbed

-----------------------------------------------------------------------------
(***************************************************************************)
(* The theorems.                                                           *)
(***************************************************************************)
(* The rows, the loops and the surviving statements have their types, and a *)
(* row of LiveEventInbox has a "claimId" exactly while it is processing.    *)
THEOREM TypeCorrect == Spec => []TypeOK
  BY InvariantAlways, PTL DEF Invariant, RowInv, TypeOK

(* completeClaim inside the import transaction makes a normalized receipt   *)
(* one that was imported exactly once, whoever else has held a claim of it. *)
THEOREM ReceiptsNormalizedOnce == Spec => []NormalizedOnce
  BY InvariantAlways, PTL DEF Invariant, RowInv

(* What failClaim gives back, claimPending will select again. *)
THEOREM GivenBackIsClaimable == Spec => []PendingHasAttempts
  BY InvariantAlways, PTL DEF Invariant, RowInv

(* The loop settles a receipt for a reason: "failed" only when it does not  *)
(* parse or has had its attempts, "normalized" only when it parses.         *)
THEOREM VerdictsAreJustified == Spec => []VerdictsJustified
  BY InvariantAlways, PTL DEF Invariant, RowInv

(* While a claim is current nobody but its holder moves the row, nor takes  *)
(* the claim, and a settled receipt stays as it is.                         *)
THEOREM ClaimsAreRespected == Spec => ClaimRespected
  <1>1. ASSUME Invariant, [Next]_vars
        PROVE  [ \A r \in Receipts :
                  /\ status[r] = "processing" /\ current[r] /\ status'[r] # "processing"
                       => \/ \E w \in Workers : cur[w] = <<r, claim[r]>> /\ cur'[w] # cur[w]
                          \/ \E w \in Workers : cur[w] = <<r, claim[r]>> /\ pc[w] = "import" /\ pc'[w] = "fail"
                          \/ \E o \in inflight \ inflight' : o.pair = <<r, claim[r]>>
                  /\ status[r] = "processing" /\ current[r] /\ status'[r] = "processing"
                       => claim'[r] = claim[r]
                  /\ status[r] \in Settled => status'[r] = status[r] /\ imports'[r] = imports[r] ]_vars
    BY <1>1, RespectStep DEF Respects, Moved
  <1> QED
    BY <1>1, InvariantAlways, PTL DEF Spec, ClaimRespected
=============================================================================
