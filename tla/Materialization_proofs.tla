------------------------ MODULE Materialization_proofs ------------------------
(***************************************************************************)
(* Theorems about Materialization, for any jobs, messages, callers and      *)
(* requests.  Invariant adds to the properties what keeps them: who may     *)
(* hold which lock together, and how a transaction's drafts relate to what  *)
(* is committed meanwhile.                                                 *)
(***************************************************************************)
EXTENDS Materialization, TLAPS

Held == {"locked", "read", "rebuilding", "rebuilt"}

(* A call under way has a key. *)
Keyed == \A c \in Callers : pc[c] # "idle" => key[c] \in Keys

(* The ImportJob lock: one decision at a time, none while the import of the  *)
(* job has inserted observations.                                            *)
JobLocks ==
  /\ \A c, d \in Callers :
       pc[c] \in Held /\ pc[d] \in Held /\ JobOf(c) = JobOf(d) => c = d
  /\ \A c \in Callers : pc[c] \in Held => pc[JobOf(c)] # "written"

(* The decision of a transaction under way has not been taken. *)
NotYetDecided == \A c \in Callers : pc[c] \in Held => decisions[key[c]] = 0

(* The other two locks have one holder, and who has them. *)
ConversationLocks ==
  /\ \A s, t \in Txs : HoldsConversation(s) /\ HoldsConversation(t) => s = t
  /\ \A i, j \in Jobs : HoldsSource(i) /\ HoldsSource(j) => i = j
  /\ \A j \in Jobs :
       pc[j] \in {"listed", "sourced", "written"} /\ j \in seen[j] => HoldsConversation(j)
  /\ \A c \in Callers :
       HoldsConversation(c) <=>
         pc[c] \in {"rebuilding", "rebuilt"} /\ observed[JobOf(c)] # "none"

(* What has been observed has its rows, and is imported once. *)
ObservedHasRows ==
  \A j \in Jobs : observed[j] # "none" =>
    pc[j] = "done" /\ \A m \in Observes(j) : rows[m] # NoRow

(* Decisions that are rebuilding affect something. *)
AffectedObserved ==
  \A c \in Callers :
    pc[c] \in {"locked", "read", "rebuilding"} => observed[JobOf(c)] # "none"

(* The drafts of an import, which stay right until it commits. *)
ImportDrafts ==
  \A j \in Jobs : \A m \in Messages :
    /\ draft[j][m] # NoRow => pc[j] = "written" /\ m \in Observes(j)
    /\ draft[j][m] # NoRow => (draft[j][m].shown <=> j \in seen[j])
    /\ draft[j][m] # NoRow /\ j \notin seen[j] => rows[m] = NoRow
    /\ pc[j] = "written" /\ m \in Observes(j) /\ draft[j][m] = NoRow =>
         j \notin seen[j] /\ rows[m] # NoRow

(* The drafts of a decision, likewise. *)
DraftRight(c, m) ==
  /\ draft[c][m] # NoRow =>
       pc[c] = "rebuilt" /\ observed[JobOf(c)] # "none" /\ m \in Observes(JobOf(c))
  /\ pc[c] = "rebuilt" /\ observed[JobOf(c)] # "none" /\ m \in Observes(JobOf(c)) =>
       draft[c][m] = Rebuilt(Eligibles(c), m)

ApplyDrafts == \A c \in Callers : \A m \in Messages : DraftRight(c, m)

Invariant ==
  /\ TypeOK
  /\ Keyed
  /\ JobLocks
  /\ NotYetDecided
  /\ ConversationLocks
  /\ ObservedHasRows
  /\ AffectedObserved
  /\ ImportDrafts
  /\ ApplyDrafts
  /\ ShownIffSupported
  /\ CompletedIsDecided
-----------------------------------------------------------------------------
(* reduce over a list that is not empty returns one of its members, and the  *)
(* preferred one: a backup if there is one, and the last of its kind.        *)
LEMMA PreferredIsBest ==
  ASSUME NEW S \in SUBSET Jobs, S # {}
  PROVE  /\ Preferred(S) \in IF S \ Live # {} THEN S \ Live ELSE S
         /\ \A j \in IF S \ Live # {} THEN S \ Live ELSE S : j <= Preferred(S)
  <1> DEFINE best == IF S \subseteq Live THEN S ELSE S \ Live
  <1>1. best = IF S \ Live # {} THEN S \ Live ELSE S
    OBVIOUS
  <1>2. best \in SUBSET Jobs /\ best # {}
    OBVIOUS
  <1>3. \E j \in best : \A i \in best : i <= j
    BY <1>2, JobsAssumption
  <1> QED
    BY <1>1, <1>3 DEF Preferred

LEMMA RebuiltType ==
  ASSUME TypeOK, NEW S \in SUBSET Jobs, NEW m \in Messages, rows[m] # NoRow
  PROVE  Rebuilt(S, m) \in Rows
  <1>1. Saying(S, m, "body") \in SUBSET Jobs
    BY DEF Saying
  <1>2. ASSUME Saying(S, m, "body") # {} PROVE Preferred(Saying(S, m, "body")) \in Jobs
    BY <1>1, <1>2, PreferredIsBest
  <1>3. rows[m].body \in Jobs \cup {NoJob}
    BY DEF TypeOK, Rows
  <1> QED
    BY <1>2, <1>3 DEF Rebuilt, Rows

LEMMA UpsertedType ==
  ASSUME TypeOK, NEW j \in Jobs, NEW m \in Messages
  PROVE  Upserted(j, m) \in Rows \cup {NoRow}
  BY DEF TypeOK, Upserted, Inserted, Updated, Rows

LEMMA InvariantInit == Init => Invariant
  <1> SUFFICES ASSUME Init PROVE Invariant
    OBVIOUS
  <1>1. TypeOK
    BY DEF Init, TypeOK, Clean, ImportSteps, CallSteps, Txs
  <1>2. Keyed /\ JobLocks /\ NotYetDecided /\ AffectedObserved
    BY DEF Init, Keyed, JobLocks, NotYetDecided, AffectedObserved, Held, Txs
  <1>3. ConversationLocks /\ ObservedHasRows
    BY DEF Init, ConversationLocks, HoldsConversation, HoldsSource, ObservedHasRows, Txs
  <1>4. ImportDrafts /\ ApplyDrafts
    BY DEF Init, ImportDrafts, ApplyDrafts, DraftRight, Clean, Txs
  <1>5. ShownIffSupported /\ CompletedIsDecided
    BY DEF Init, ShownIffSupported, Shown, Supporters, Clean, CompletedIsDecided
  <1> QED
    BY <1>1, <1>2, <1>3, <1>4, <1>5 DEF Invariant

-----------------------------------------------------------------------------
(* Types. *)
LEMMA RollBackType ==
  ASSUME TypeOK, NEW t \in Txs, RollBack(t)
  PROVE  /\ seen' \in [Txs -> SUBSET Jobs]
         /\ pending' \in [Txs -> {"none", "shown", "hidden"}]
         /\ draft' \in [Txs -> [Messages -> Rows \cup {NoRow}]]
  BY DEF TypeOK, RollBack, Clean

LEMMA CommitRowsType ==
  ASSUME TypeOK, NEW t \in Txs, CommitRows(t)
  PROVE  /\ conversation' \in {"none", "shown", "hidden"}
         /\ rows' \in [Messages -> Rows \cup {NoRow}]
  BY DEF TypeOK, CommitRows

LEMMA GoType ==
  ASSUME TypeOK, NEW t \in Txs, NEW step, Go(t, step),
         t \in Jobs => step \in ImportSteps, t \in Callers => step \in CallSteps
  PROVE  /\ pc' \in [Txs -> ImportSteps \cup CallSteps]
         /\ \A j \in Jobs : pc'[j] \in ImportSteps
         /\ \A c \in Callers : pc'[c] \in CallSteps
  BY CallersAssumption DEF TypeOK, Go, Txs

LEMMA JobOfType ==
  ASSUME TypeOK, NEW c \in Callers, key[c] \in Keys
  PROVE  /\ JobOf(c) \in Jobs
         /\ NextState(c) \in {"excluded", "eligible"}
         /\ Eligibles(c) \in SUBSET Jobs
  BY RequestsAssumption DEF JobOf, NextState, Eligibles

LEMMA TypeStep ==
  ASSUME Invariant, [Next]_vars
  PROVE  TypeOK'
  <1> USE DEF Invariant
  <1>1. \A t : t \in Jobs \/ t \in Callers => t \in Txs
    BY DEF Txs
  <1>2. "idle" \in ImportSteps /\ "idle" \in CallSteps
    BY DEF ImportSteps, CallSteps
  <1>3. CASE UNCHANGED vars
    BY <1>3 DEF vars, tables, calls, TypeOK
  <1>4. ASSUME NEW j \in Jobs, Import(j) PROVE TypeOK'
    <2>1. j \in Txs /\ j \notin Callers
      BY <1>1, CallersAssumption
    <2>2. CASE BeginImport(j)
      BY <2>1, <2>2, GoType DEF BeginImport, TypeOK, tables, ImportSteps
    <2>3. CASE UpsertConversation(j)
      BY <2>1, <2>3, GoType DEF UpsertConversation, TypeOK, tables, ImportSteps
    <2>4. CASE UpsertSource(j)
      BY <2>1, <2>4, GoType DEF UpsertSource, TypeOK, tables, ImportSteps
    <2>5. CASE WriteRecords(j)
      BY <2>1, <2>5, GoType, UpsertedType DEF WriteRecords, TypeOK, tables, ImportSteps
    <2>6. CASE CommitImport(j)
      BY <2>1, <2>6, GoType, RollBackType, CommitRowsType
         DEF CommitImport, CommitRows, TypeOK, ImportSteps
    <2>7. CASE ImportFails(j)
      BY <2>1, <2>7, <1>2, GoType, RollBackType DEF ImportFails, TypeOK, tables
    <2> QED
      BY <1>4, <2>2, <2>3, <2>4, <2>5, <2>6, <2>7 DEF Import
  <1>5. ASSUME NEW c \in Callers, Apply(c) PROVE TypeOK'
    <2>1. c \in Txs /\ c \notin Jobs
      BY <1>1, CallersAssumption
    <2>2. pc[c] # "idle" => key[c] \in Keys
      BY DEF Keyed
    <2>3. ASSUME NEW k \in Keys, FindRun(c, k) PROVE TypeOK'
      BY <2>1, <2>3, GoType DEF FindRun, TypeOK, tables, CallSteps
    <2>4. ASSUME NEW k \in Keys, Replay(c, k) PROVE TypeOK'
      BY <2>4 DEF Replay, vars, tables, calls, TypeOK
    <2>5. CASE StartRun(c)
      BY <2>1, <2>5, GoType DEF StartRun, TypeOK, CallSteps
    <2>6. CASE RunExists(c)
      BY <2>1, <2>6, <1>2, GoType DEF RunExists, TypeOK, tables
    <2>7. CASE LockJob(c)
      BY <2>1, <2>7, GoType DEF LockJob, TypeOK, tables, CallSteps
    <2>8. CASE DecisionExists(c)
      BY <2>1, <2>8, GoType DEF DecisionExists, TypeOK, tables, CallSteps
    <2>9. CASE ReadConversation(c)
      BY <2>1, <2>2, <2>9, GoType, JobOfType DEF ReadConversation, TypeOK, tables, CallSteps
    <2>10. CASE UpdateConversation(c)
      BY <2>1, <2>10, GoType DEF UpdateConversation, TypeOK, tables, CallSteps
    <2>11. CASE RebuildMessages(c)
      <3>1. \A m \in Messages : m \in Observes(JobOf(c)) => Rebuilt(Eligibles(c), m) \in Rows
        BY <2>2, <2>11, JobOfType, RebuiltType
           DEF RebuildMessages, AffectedObserved, ObservedHasRows
      <3>2. draft' \in [Txs -> [Messages -> Rows \cup {NoRow}]]
        BY <2>11, <3>1 DEF RebuildMessages, TypeOK
      <3> QED
        BY <2>1, <2>11, <3>2, GoType DEF RebuildMessages, TypeOK, tables, CallSteps
    <2>12. ASSUME CommitApply(c), Go(c, "idle") \/ Go(c, "catch"), key' \in [Callers -> Keys \cup {NoKey}]
           PROVE  TypeOK'
      <3>1. key[c] \in Keys
        BY <2>2, <2>12 DEF CommitApply
      <3>2. observed' \in [Jobs -> {"none", "eligible", "excluded"}]
        BY <2>12, <3>1, JobOfType DEF CommitApply, TypeOK
      <3>3. eligible' \in [Jobs -> BOOLEAN]
        BY <2>12, <3>1, JobOfType DEF CommitApply, TypeOK
      <3>4. runs' \in [Keys -> {"none", "running", "failed", "completed"}]
            /\ decisions' \in [Keys -> Nat]
        BY <2>12, <3>1 DEF CommitApply, TypeOK
      <3>5. pc' \in [Txs -> ImportSteps \cup CallSteps]
            /\ (\A j \in Jobs : pc'[j] \in ImportSteps) /\ \A d \in Callers : pc'[d] \in CallSteps
        BY <2>1, <2>12, GoType DEF CallSteps
      <3> QED
        BY <2>1, <2>12, <3>2, <3>3, <3>4, <3>5, RollBackType, CommitRowsType
           DEF CommitApply, CommitRows, TypeOK
    <2>13. CASE Answered(c)
      BY <2>12, <2>13 DEF Answered, TypeOK
    <2>14. CASE Unanswered(c)
      BY <2>12, <2>14 DEF Unanswered, TypeOK
    <2>15. CASE ApplyFails(c)
      BY <2>1, <2>15, GoType, RollBackType DEF ApplyFails, TypeOK, tables, CallSteps
    <2>16. CASE Catch(c)
      BY <2>1, <2>16, GoType DEF Catch, RunFailed, TypeOK, CallSteps
    <2>17. CASE CallLost(c)
      BY <2>1, <2>17, <1>2, GoType, RollBackType DEF CallLost, TypeOK, tables
    <2> QED
      BY <1>5, <2>3, <2>4, <2>5, <2>6, <2>7, <2>8, <2>9, <2>10, <2>11, <2>13, <2>14, <2>15,
         <2>16, <2>17 DEF Apply
  <1> QED
    BY <1>3, <1>4, <1>5 DEF Next

-----------------------------------------------------------------------------
(* Keys and locks. *)
LEMMA KeyedStep ==
  ASSUME Invariant, [Next]_vars
  PROVE  Keyed'
  <1> USE DEF Invariant, TypeOK, Keyed, Go
  <1>1. CASE UNCHANGED vars
    BY <1>1 DEF vars, calls
  <1>2. ASSUME NEW j \in Jobs, Import(j) PROVE Keyed'
    <2>1. UNCHANGED key /\ \A c \in Callers : pc'[c] = pc[c]
      BY <1>2, CallersAssumption DEF Import, BeginImport, UpsertConversation, UpsertSource, WriteRecords,
         CommitImport, ImportFails, Txs
    <2> QED
      BY <2>1
  <1>3. ASSUME NEW c \in Callers, Apply(c) PROVE Keyed'
    BY <1>3 DEF Apply, FindRun, Replay, StartRun, RunExists, LockJob, DecisionExists, ReadConversation,
       UpdateConversation, RebuildMessages, Answered, Unanswered, CommitApply, ApplyFails, Catch, CallLost,
       vars, calls, Txs
  <1> QED
    BY <1>1, <1>2, <1>3 DEF Next

LEMMA LocksStep ==
  ASSUME Invariant, [Next]_vars
  PROVE  JobLocks' /\ NotYetDecided'
  <1>0. \A c \in Callers : pc[c] # "idle" => JobOf(c) \in Jobs
    BY JobOfType DEF Invariant, Keyed
  <1> USE DEF Invariant, TypeOK, Keyed, Go, Held, JobLocks, NotYetDecided, JobOf
  <1>1. CASE UNCHANGED vars
    BY <1>1 DEF vars, calls, tables, JobOf
  <1>2. ASSUME NEW j \in Jobs, Import(j) PROVE JobLocks' /\ NotYetDecided'
    <2>1. UNCHANGED <<key, decisions>> /\ (\A c \in Callers : pc'[c] = pc[c])
          /\ \A i \in Jobs : i # j => pc'[i] = pc[i]
      BY <1>2, CallersAssumption DEF Import, BeginImport, UpsertConversation, UpsertSource, WriteRecords,
         CommitImport, ImportFails, Txs, tables
    <2>2. pc'[j] = "written" => WriteRecords(j)
      BY <1>2 DEF Import, BeginImport, UpsertConversation, UpsertSource, WriteRecords,
         CommitImport, ImportFails, Txs
    <2>3. ASSUME NEW c \in Callers, pc[c] \in Held, JobOf(c) = j, WriteRecords(j) PROVE FALSE
      BY <2>3 DEF WriteRecords, WaitsFor, HoldsJob
    <2>4. \A c \in Callers : JobOf(c)' = JobOf(c)
      BY <2>1 DEF JobOf
    <2>5. ASSUME NEW c \in Callers, pc[c] \in Held PROVE pc'[JobOf(c)] # "written"
      BY <1>0, <2>1, <2>2, <2>3, <2>5
    <2> QED
      BY <2>1, <2>4, <2>5
  <1>3. ASSUME NEW c \in Callers, Apply(c) PROVE JobLocks' /\ NotYetDecided'
    <2>1. /\ \A d \in Callers : d # c => pc'[d] = pc[d] /\ key'[d] = key[d]
          /\ \A j \in Jobs : pc'[j] = pc[j]
      BY <1>3, CallersAssumption DEF Apply, FindRun, Replay, StartRun, RunExists, LockJob, DecisionExists,
         ReadConversation, UpdateConversation, RebuildMessages, Answered, Unanswered, CommitApply, ApplyFails,
         Catch, CallLost, vars, calls, Txs
    <2>2. pc'[c] \in Held => key'[c] = key[c] /\ decisions' = decisions /\ (pc[c] \in Held \/ LockJob(c))
      BY <1>3 DEF Apply, FindRun, Replay, StartRun, RunExists, LockJob, DecisionExists,
         ReadConversation, UpdateConversation, RebuildMessages, Answered, Unanswered, CommitApply, ApplyFails,
         Catch, CallLost, vars, calls, tables, Txs
    <2>3. decisions' = decisions \/ (CommitApply(c) /\ pc'[c] \notin Held)
      BY <1>3 DEF Apply, FindRun, Replay, StartRun, RunExists, LockJob, DecisionExists,
         ReadConversation, UpdateConversation, RebuildMessages, Answered, Unanswered, CommitApply, ApplyFails,
         Catch, CallLost, vars, calls, tables, Txs
    <2>4. ASSUME LockJob(c)
          PROVE  /\ \A d \in Callers : pc[d] \in Held => JobOf(d) # JobOf(c)
                 /\ pc[JobOf(c)] # "written" /\ decisions[key[c]] = 0
      BY <2>4, <1>0, CallersAssumption DEF LockJob, WaitsFor, HoldsJob, SharesJob, Undecided
    <2>5. \A d \in Callers : pc'[d] \in Held =>
            JobOf(d)' = JobOf(d) /\ JobOf(d) \in Jobs /\ (pc[d] \in Held \/ (d = c /\ LockJob(c)))
      BY <1>0, <2>1, <2>2 DEF JobOf, LockJob
    <2>6. JobLocks'
      BY <2>1, <2>4, <2>5
    <2>7. ASSUME NEW d \in Callers, pc'[d] \in Held PROVE decisions'[key'[d]] = 0
      <3>1. CASE decisions' = decisions
        BY <2>1, <2>2, <2>4, <2>7, <3>1
      <3>2. CASE CommitApply(c) /\ pc'[c] \notin Held
        <4>1. d # c /\ pc[d] \in Held /\ key'[d] = key[d] /\ pc[c] \in Held
          BY <2>1, <2>7, <3>2 DEF CommitApply
        <4>2. key[d] # key[c]
          BY <4>1 DEF JobOf
        <4> QED
          BY <4>1, <4>2, <3>2 DEF CommitApply
      <3> QED
        BY <2>3, <3>1, <3>2
    <2> QED
      BY <2>6, <2>7
  <1> QED
    BY <1>1, <1>2, <1>3 DEF Next

LEMMA ConversationLocksStep ==
  ASSUME Invariant, [Next]_vars
  PROVE  ConversationLocks'
  <1>0. /\ \A c \in Callers : pc[c] # "idle" => JobOf(c) \in Jobs
        /\ Jobs \cap Callers = {} /\ \A t : t \in Txs <=> t \in Jobs \/ t \in Callers
    BY JobOfType, CallersAssumption DEF Invariant, Keyed, Txs
  <1> USE DEF Invariant, TypeOK, Go, ConversationLocks, HoldsConversation, HoldsSource, JobOf
  <1>1. CASE UNCHANGED vars
    BY <1>1 DEF vars, calls, tables
  <1>2. ASSUME NEW j \in Jobs, Import(j) PROVE ConversationLocks'
    <2>1. CASE BeginImport(j)
      BY <1>0, <2>1 DEF BeginImport, tables
    <2>2. CASE UpsertConversation(j)
      <3>1. \A t \in Txs : t # j => pending'[t] = pending[t] /\ pc'[t] = pc[t]
        BY <1>0, <2>2 DEF UpsertConversation
      <3>2. pending'[j] # "none" => \A t \in Txs : t # j => pending[t] = "none"
        BY <1>0, <2>2 DEF UpsertConversation, WaitsFor, WritesConversation
      <3>3. \A s, t \in Txs : pending'[s] # "none" /\ pending'[t] # "none" => s = t
        BY <1>0, <3>1, <3>2
      <3> QED
        BY <1>0, <2>2, <3>1, <3>3 DEF UpsertConversation, tables
    <2>3. CASE UpsertSource(j)
      <3>1. \A i \in Jobs : i # j => ~HoldsSource(i)
        BY <1>0, <2>3 DEF UpsertSource, WaitsFor
      <3> QED
        BY <1>0, <2>3, <3>1 DEF UpsertSource, tables
    <2>4. CASE WriteRecords(j)
      BY <1>0, <2>4 DEF WriteRecords, tables
    <2>5. CASE CommitImport(j)
      <3>1. \A c \in Callers : pc[c] \in Held => JobOf(c) # j
        BY <2>5 DEF CommitImport, JobLocks
      <3>2. \A c \in Callers : pc[c] \in {"rebuilding", "rebuilt"} => observed'[JobOf(c)] = observed[JobOf(c)]
        BY <1>0, <2>5, <3>1 DEF CommitImport, Held
      <3>3. UNCHANGED key /\ \A t \in Txs : t # j => pc'[t] = pc[t] /\ seen'[t] = seen[t] /\ pending'[t] = pending[t]
        BY <2>5 DEF CommitImport, CommitRows, RollBack
      <3>4. pending'[j] = "none" /\ pc'[j] = "done"
        BY <1>0, <2>5 DEF CommitImport, CommitRows, RollBack
      <3>5. \A s, t \in Txs : pending'[s] # "none" /\ pending'[t] # "none" => s = t
        BY <1>0, <3>3, <3>4
      <3>6. \A i, k \in Jobs : HoldsSource(i)' /\ HoldsSource(k)' => i = k
        BY <1>0, <3>3, <3>4
      <3>7. \A i \in Jobs :
              pc'[i] \in {"listed", "sourced", "written"} /\ i \in seen'[i] => pending'[i] # "none"
        BY <1>0, <3>3, <3>4
      <3>8. \A c \in Callers : pending'[c] # "none" <=>
              pc'[c] \in {"rebuilding", "rebuilt"} /\ observed'[Requests[key'[c]].job] # "none"
        BY <1>0, <3>2, <3>3
      <3> QED
        BY <3>5, <3>6, <3>7, <3>8
    <2>6. CASE ImportFails(j)
      BY <1>0, <2>6 DEF ImportFails, RollBack, tables
    <2> QED
      BY <1>2, <2>1, <2>2, <2>3, <2>4, <2>5, <2>6 DEF Import
  <1>3. ASSUME NEW c \in Callers, Apply(c) PROVE ConversationLocks'
    <2>1. ASSUME NEW k \in Keys, FindRun(c, k) PROVE ConversationLocks'
      BY <1>0, <2>1 DEF FindRun, tables
    <2>2. ASSUME NEW k \in Keys, Replay(c, k) PROVE ConversationLocks'
      BY <2>2 DEF Replay, vars, tables, calls
    <2>3. CASE StartRun(c)
      BY <1>0, <2>3 DEF StartRun
    <2>4. CASE RunExists(c)
      BY <1>0, <2>4 DEF RunExists, tables
    <2>5. CASE LockJob(c)
      BY <1>0, <2>5 DEF LockJob, tables
    <2>6. CASE DecisionExists(c)
      BY <1>0, <2>6 DEF DecisionExists, tables
    <2>7. CASE ReadConversation(c)
      BY <1>0, <2>7 DEF ReadConversation, tables
    <2>8. CASE UpdateConversation(c)
      <3>1. \A t \in Txs : t # c => pending[t] = "none"
        BY <1>0, <2>8 DEF UpdateConversation, WaitsFor
      <3>2. observed[JobOf(c)] # "none"
        BY <2>8 DEF UpdateConversation, AffectedObserved
      <3> QED
        BY <1>0, <2>8, <3>1, <3>2 DEF UpdateConversation, tables
    <2>9. CASE RebuildMessages(c)
      BY <1>0, <2>9 DEF RebuildMessages, tables
    <2>10. ASSUME CommitApply(c), Go(c, "idle") \/ Go(c, "catch"), \A d \in Callers : d # c => key'[d] = key[d]
           PROVE  ConversationLocks'
      <3>1. \A j \in Jobs : observed'[j] # "none" <=> observed[j] # "none"
        BY <1>0, <2>10 DEF CommitApply, NextState
      <3>2. \A t \in Txs : t # c => pc'[t] = pc[t] /\ seen'[t] = seen[t] /\ pending'[t] = pending[t]
        BY <2>10 DEF CommitApply, CommitRows, RollBack
      <3>3. pending'[c] = "none" /\ pc'[c] \in {"idle", "catch"}
        BY <1>0, <2>10 DEF CommitApply, CommitRows, RollBack
      <3>4. \A s, t \in Txs : pending'[s] # "none" /\ pending'[t] # "none" => s = t
        BY <1>0, <3>2, <3>3
      <3>5. \A i, k \in Jobs : HoldsSource(i)' /\ HoldsSource(k)' => i = k
        BY <1>0, <3>2
      <3>6. \A i \in Jobs :
              pc'[i] \in {"listed", "sourced", "written"} /\ i \in seen'[i] => pending'[i] # "none"
        BY <1>0, <3>2
      <3>7. \A d \in Callers : pending'[d] # "none" <=>
              pc'[d] \in {"rebuilding", "rebuilt"} /\ observed'[Requests[key'[d]].job] # "none"
        BY <1>0, <2>10, <3>1, <3>2, <3>3
      <3> QED
        BY <3>4, <3>5, <3>6, <3>7
    <2>11. CASE Answered(c)
      BY <2>10, <2>11 DEF Answered
    <2>12. CASE Unanswered(c)
      BY <2>10, <2>12 DEF Unanswered
    <2>13. CASE ApplyFails(c)
      BY <1>0, <2>13 DEF ApplyFails, RollBack, tables
    <2>14. CASE Catch(c)
      BY <1>0, <2>14 DEF Catch
    <2>15. CASE CallLost(c)
      BY <1>0, <2>15 DEF CallLost, RollBack, tables
    <2> QED
      BY <1>3, <2>1, <2>2, <2>3, <2>4, <2>5, <2>6, <2>7, <2>8, <2>9, <2>11, <2>12, <2>13, <2>14, <2>15
         DEF Apply
  <1> QED
    BY <1>1, <1>2, <1>3 DEF Next

-----------------------------------------------------------------------------
(* Observations and their rows. *)
LEMMA ObservedStep ==
  ASSUME Invariant, [Next]_vars
  PROVE  ObservedHasRows' /\ AffectedObserved'
  <1>0. /\ \A c \in Callers : pc[c] # "idle" => JobOf(c) \in Jobs
        /\ Jobs \cap Callers = {} /\ \A t : t \in Txs <=> t \in Jobs \/ t \in Callers
    BY JobOfType, CallersAssumption DEF Invariant, Keyed, Txs
  <1> USE DEF Invariant, TypeOK, Go, ObservedHasRows, AffectedObserved, JobOf, Observes
  <1>1. CASE UNCHANGED vars
    BY <1>1 DEF vars, calls, tables
  <1>2. ASSUME NEW j \in Jobs, Import(j) PROVE ObservedHasRows' /\ AffectedObserved'
    <2>1. UNCHANGED key /\ \A t \in Txs : t # j => pc'[t] = pc[t]
      BY <1>2 DEF Import, BeginImport, UpsertConversation, UpsertSource, WriteRecords,
         CommitImport, ImportFails
    <2>2. CASE UNCHANGED tables /\ pc[j] # "done"
      BY <1>0, <2>1, <2>2 DEF tables
    <2>3. CASE CommitImport(j)
      <3>1. \A i \in Jobs : observed'[i] # "none" <=> observed[i] # "none" \/ i = j
        BY <2>3 DEF CommitImport
      <3>2. \A m \in Messages : rows[m] # NoRow => rows'[m] # NoRow
        BY <2>3 DEF CommitImport, CommitRows
      <3>3. \A m \in Observes(j) : rows'[m] # NoRow
        BY <1>0, <2>3 DEF CommitImport, CommitRows, ImportDrafts
      <3>4. pc'[j] = "done"
        BY <1>0, <2>3 DEF CommitImport
      <3>5. \A i \in Jobs : pc[i] = "done" => pc'[i] = "done"
        BY <1>0, <2>1, <3>4
      <3>6. ObservedHasRows'
        BY <3>1, <3>2, <3>3, <3>4, <3>5
      <3>7. \A c \in Callers : pc'[c] \in {"locked", "read", "rebuilding"} =>
              observed'[Requests[key'[c]].job] # "none"
        BY <1>0, <2>1, <3>1
      <3> QED
        BY <3>6, <3>7
    <2> QED
      BY <1>2, <2>2, <2>3 DEF Import, BeginImport, UpsertConversation, UpsertSource, WriteRecords,
         ImportFails
  <1>3. ASSUME NEW c \in Callers, Apply(c) PROVE ObservedHasRows' /\ AffectedObserved'
    <2>1. /\ \A d \in Callers : d # c => pc'[d] = pc[d] /\ key'[d] = key[d]
          /\ \A j \in Jobs : pc'[j] = pc[j]
      BY <1>0, <1>3 DEF Apply, FindRun, Replay, StartRun, RunExists, LockJob, DecisionExists,
         ReadConversation, UpdateConversation, RebuildMessages, Answered, Unanswered, CommitApply, ApplyFails,
         Catch, CallLost, vars, calls
    <2>2. /\ \A j \in Jobs : observed'[j] # "none" <=> observed[j] # "none"
          /\ \A m \in Messages : rows[m] # NoRow => rows'[m] # NoRow
      BY <1>0, <1>3 DEF Apply, FindRun, Replay, StartRun, RunExists, LockJob, DecisionExists, ReadConversation,
         UpdateConversation, RebuildMessages, Answered, Unanswered, CommitApply, CommitRows, NextState,
         ApplyFails, Catch, CallLost, vars, tables
    <2>3. pc'[c] \in {"locked", "read", "rebuilding"} =>
            observed[JobOf(c)] # "none" /\ key'[c] = key[c] /\ JobOf(c) \in Jobs
      BY <1>0, <1>3 DEF Apply, FindRun, Replay, StartRun, RunExists, LockJob, DecisionExists, ReadConversation,
         UpdateConversation, RebuildMessages, Answered, Unanswered, ApplyFails, Catch, CallLost, vars, calls
    <2> QED
      BY <1>0, <2>1, <2>2, <2>3
  <1> QED
    BY <1>1, <1>2, <1>3 DEF Next

-----------------------------------------------------------------------------
(* Drafts.  A row of an excluded import is written where nothing was, and no *)
(* decision writes there: the two never write one row.                       *)
LEMMA ApplyDraftsReplace ==
  ASSUME Invariant, NEW c \in Callers, NEW m \in Messages, draft[c][m] # NoRow
  PROVE  rows[m] # NoRow /\ HoldsConversation(c)
  <1>1. pc[c] = "rebuilt" /\ observed[JobOf(c)] # "none" /\ m \in Observes(JobOf(c))
    BY DEF Invariant, ApplyDrafts, DraftRight
  <1>2. JobOf(c) \in Jobs
    BY <1>1, JobOfType DEF Invariant, Keyed
  <1> QED
    BY <1>1, <1>2 DEF Invariant, ObservedHasRows, ConversationLocks

LEMMA ImportDraftsStep ==
  ASSUME Invariant, [Next]_vars
  PROVE  ImportDrafts'
  <1>0. Jobs \cap Callers = {} /\ \A t : t \in Txs <=> t \in Jobs \/ t \in Callers
    BY CallersAssumption DEF Txs
  <1>4. \A c \in Callers : \A m \in Messages : draft[c][m] # NoRow => rows[m] # NoRow
    BY ApplyDraftsReplace
  <1> USE DEF Invariant, TypeOK, Go, ImportDrafts
  <1>1. CASE UNCHANGED vars
    BY <1>1 DEF vars, calls, tables
  <1>2. ASSUME NEW j \in Jobs, Import(j) PROVE ImportDrafts'
    <2>1. CASE BeginImport(j)
      BY <1>0, <2>1 DEF BeginImport, tables
    <2>2. CASE UpsertConversation(j)
      BY <1>0, <2>2 DEF UpsertConversation, tables
    <2>3. CASE UpsertSource(j)
      BY <1>0, <2>3 DEF UpsertSource, tables
    <2>4. CASE WriteRecords(j)
      <3>1. \A m \in Messages :
              /\ Upserted(j, m) # NoRow => m \in Observes(j) /\ (Upserted(j, m).shown <=> j \in seen[j])
              /\ Upserted(j, m) # NoRow /\ j \notin seen[j] => rows[m] = NoRow
              /\ m \in Observes(j) /\ Upserted(j, m) = NoRow => j \notin seen[j] /\ rows[m] # NoRow
        <4> SUFFICES ASSUME NEW m \in Messages, m \in Observes(j) \/ Upserted(j, m) # NoRow
            PROVE  /\ Upserted(j, m) # NoRow => m \in Observes(j) /\ (Upserted(j, m).shown <=> j \in seen[j])
                   /\ Upserted(j, m) # NoRow /\ j \notin seen[j] => rows[m] = NoRow
                   /\ Upserted(j, m) = NoRow => j \notin seen[j] /\ rows[m] # NoRow
          OBVIOUS
        <4>1. Inserted(j, m) \in Rows /\ (rows[m] # NoRow => Updated(j, m) \in Rows)
          BY DEF Inserted, Updated, Rows
        <4>2. Inserted(j, m) # NoRow /\ (rows[m] # NoRow => Updated(j, m) # NoRow)
          BY <4>1, RowsAssumption
        <4>3. Inserted(j, m).shown = (j \in seen[j]) /\ Updated(j, m).shown = TRUE
          BY DEF Inserted, Updated
        <4> QED
          BY <4>2, <4>3 DEF Upserted
      <3>2. draft' = [draft EXCEPT ![j] = [m \in Messages |-> Upserted(j, m)]]
            /\ UNCHANGED <<rows, seen>> /\ pc'[j] = "written" /\ \A i \in Jobs : i # j => pc'[i] = pc[i]
        BY <1>0, <2>4 DEF WriteRecords, tables
      <3>3. \A m \in Messages : draft'[j][m] = Upserted(j, m)
        BY <1>0, <3>2
      <3>4. \A i \in Jobs : i # j => draft'[i] = draft[i]
        BY <1>0, <3>2
      <3> QED
        BY <3>1, <3>2, <3>3, <3>4
    <2>5. CASE CommitImport(j)
      <3>1. \A i \in Jobs : i # j => pc[i] # "written"
        BY <2>5 DEF CommitImport, ConversationLocks, HoldsSource
      <3>2. \A i \in Jobs : i # j => pc'[i] = pc[i] /\ draft'[i] = draft[i]
        BY <1>0, <2>5 DEF CommitImport, CommitRows, RollBack
      <3>3. pc'[j] = "done" /\ \A m \in Messages : draft'[j][m] = NoRow
        BY <1>0, <2>5 DEF CommitImport, CommitRows, RollBack, Clean
      <3> QED
        BY <3>1, <3>2, <3>3
    <2>6. CASE ImportFails(j)
      BY <1>0, <2>6 DEF ImportFails, RollBack, tables, Clean
    <2> QED
      BY <1>2, <2>1, <2>2, <2>3, <2>4, <2>5, <2>6 DEF Import
  <1>3. ASSUME NEW c \in Callers, Apply(c) PROVE ImportDrafts'
    <2>1. \A j \in Jobs : pc'[j] = pc[j] /\ seen'[j] = seen[j] /\ draft'[j] = draft[j]
      BY <1>0, <1>3 DEF Apply, FindRun, Replay, StartRun, RunExists, LockJob, DecisionExists, ReadConversation,
         UpdateConversation, RebuildMessages, Answered, Unanswered, CommitApply, CommitRows, RollBack,
         ApplyFails, Catch, CallLost, vars, calls
    <2>2. rows' = rows \/ CommitRows(c)
      BY <1>3 DEF Apply, FindRun, Replay, StartRun, RunExists, LockJob, DecisionExists, ReadConversation,
         UpdateConversation, RebuildMessages, Answered, Unanswered, CommitApply, ApplyFails, Catch, CallLost,
         vars, tables
    <2>3. \A m \in Messages : rows'[m] = NoRow <=> rows[m] = NoRow
      BY <1>4, <2>2 DEF CommitRows
    <2> QED
      BY <2>1, <2>3
  <1> QED
    BY <1>1, <1>2, <1>3 DEF Next

(* While a decision holds the conversation, nobody changes what its drafts    *)
(* were computed from.                                                       *)
LEMMA ImportKeepsInputs ==
  ASSUME Invariant, NEW c \in Callers, pc[c] = "rebuilt", observed[JobOf(c)] # "none",
         NEW j \in Jobs, Import(j)
  PROVE  /\ pc'[c] = pc[c] /\ key'[c] = key[c] /\ draft'[c] = draft[c]
         /\ \A i \in Jobs : observed'[i] = "eligible" <=> observed[i] = "eligible"
         /\ observed'[JobOf(c)] = observed[JobOf(c)]
         /\ \A m \in Observes(JobOf(c)) : rows'[m] = rows[m]
  <1>0. /\ Jobs \cap Callers = {} /\ \A t : t \in Txs <=> t \in Jobs \/ t \in Callers
    BY CallersAssumption DEF Txs
  <1>1. HoldsConversation(c) /\ JobOf(c) \in Jobs /\ pc[JobOf(c)] # "written"
    BY JobOfType DEF Invariant, Keyed, ConversationLocks, JobLocks, Held
  <1>2. pc'[c] = pc[c] /\ key'[c] = key[c] /\ draft'[c] = draft[c]
    BY <1>0 DEF Import, BeginImport, UpsertConversation, UpsertSource, WriteRecords,
       CommitImport, CommitRows, RollBack, ImportFails, Go, Invariant, TypeOK
  <1>3. CASE UNCHANGED tables
    BY <1>2, <1>3 DEF tables
  <1>4. CASE CommitImport(j)
    <2>2. j \notin seen[j]
      BY <1>0, <1>1, <1>4 DEF Invariant, ConversationLocks, CommitImport
    <2>3. j # JobOf(c) /\ observed[j] = "none"
      BY <1>1, <1>4 DEF Invariant, ObservedHasRows, CommitImport
    <2>4. \A m \in Observes(JobOf(c)) : rows[m] # NoRow /\ m \in Messages
      BY <1>1 DEF Invariant, ObservedHasRows, Observes
    <2>5. \A m \in Observes(JobOf(c)) : draft[j][m] = NoRow
      BY <2>2, <2>4 DEF Invariant, ImportDrafts
    <2>6. \A m \in Observes(JobOf(c)) : rows'[m] = rows[m]
      BY <1>4, <2>4, <2>5 DEF CommitImport, CommitRows
    <2>7. observed' = [observed EXCEPT ![j] = "excluded"]
      BY <1>4, <2>2 DEF CommitImport
    <2>8. \A i \in Jobs : i # j => observed'[i] = observed[i]
      BY <2>7 DEF Invariant, TypeOK
    <2>9. observed'[j] = "excluded"
      BY <2>7 DEF Invariant, TypeOK
    <2> QED
      BY <1>1, <1>2, <2>3, <2>6, <2>8, <2>9
  <1> QED
    BY <1>3, <1>4 DEF Import, BeginImport, UpsertConversation, UpsertSource, WriteRecords, ImportFails

LEMMA ApplyKeepsInputs ==
  ASSUME Invariant, NEW c \in Callers, pc[c] = "rebuilt", observed[JobOf(c)] # "none",
         NEW d \in Callers, d # c, Apply(d)
  PROVE  /\ pc'[c] = pc[c] /\ key'[c] = key[c] /\ draft'[c] = draft[c]
         /\ observed' = observed
         /\ \A m \in Messages : rows'[m] = rows[m]
  <1>0. \A t : t \in Callers => t \in Txs
    BY DEF Txs
  <1>1. ~HoldsConversation(d)
    BY <1>0 DEF Invariant, ConversationLocks
  <1>2. pc'[c] = pc[c] /\ key'[c] = key[c] /\ draft'[c] = draft[c]
    BY <1>0 DEF Apply, FindRun, Replay, StartRun, RunExists, LockJob, DecisionExists, ReadConversation,
       UpdateConversation, RebuildMessages, Answered, Unanswered, CommitApply, CommitRows, RollBack,
       ApplyFails, Catch, CallLost, Go, vars, calls, Invariant, TypeOK
  <1>3. CASE CommitApply(d)
    <2>1. pc[d] = "rebuilt" /\ key[d] \in Keys
      BY <1>3 DEF CommitApply, Invariant, Keyed
    <2>2. observed[JobOf(d)] = "none"
      BY <1>1, <2>1 DEF Invariant, ConversationLocks
    <2>3. \A m \in Messages : draft[d][m] = NoRow
      BY <2>2 DEF Invariant, ApplyDrafts, DraftRight
    <2>4. observed' = observed
      BY <1>3, <2>2 DEF CommitApply, Invariant, TypeOK
    <2>5. \A m \in Messages : rows'[m] = rows[m]
      BY <1>3, <2>3 DEF CommitApply, CommitRows
    <2> QED
      BY <1>2, <2>4, <2>5
  <1>4. CASE UNCHANGED <<observed, rows>>
    BY <1>2, <1>4
  <1> QED
    BY <1>3, <1>4 DEF Apply, FindRun, Replay, StartRun, RunExists, LockJob, DecisionExists, ReadConversation,
       UpdateConversation, RebuildMessages, Answered, Unanswered, ApplyFails, Catch, CallLost, vars, tables

LEMMA RebuiltAgain ==
  ASSUME NEW c \in Callers, NEW m \in Messages, key'[c] = key[c], rows'[m] = rows[m],
         \A i \in Jobs : observed'[i] = "eligible" <=> observed[i] = "eligible",
         observed'[JobOf(c)] = observed[JobOf(c)]
  PROVE  /\ JobOf(c)' = JobOf(c)
         /\ Rebuilt(Eligibles(c), m)' = Rebuilt(Eligibles(c), m)
  <1>1. JobOf(c)' = JobOf(c) /\ NextState(c)' = NextState(c)
    BY DEF JobOf, NextState
  <1>2. Eligibles(c)' = Eligibles(c)
    BY <1>1 DEF Eligibles
  <1> QED
    BY <1>1, <1>2 DEF Rebuilt, Saying

LEMMA ApplyDraftsStep ==
  ASSUME Invariant, [Next]_vars
  PROVE  ApplyDrafts'
  <1>0. /\ Jobs \cap Callers = {} /\ \A t : t \in Txs <=> t \in Jobs \/ t \in Callers
    BY CallersAssumption DEF Txs
  <1> SUFFICES ASSUME NEW c \in Callers, NEW m \in Messages PROVE DraftRight(c, m)'
    BY DEF ApplyDrafts
  <1>1. DraftRight(c, m)
    BY DEF Invariant, ApplyDrafts
  <1>2. CASE UNCHANGED vars
    <2>1. UNCHANGED <<observed, rows, key, pc, draft>>
      BY <1>2 DEF vars, tables, calls
    <2> QED
      BY <1>1, <2>1, RebuiltAgain DEF DraftRight
  <1>3. ASSUME pc[c] # "rebuilt", pc'[c] # "rebuilt", draft'[c] \in {draft[c], Clean}
        PROVE  DraftRight(c, m)'
    BY <1>1, <1>3 DEF DraftRight, Clean
  <1>4. ASSUME NEW j \in Jobs, Import(j) PROVE DraftRight(c, m)'
    <2>1. pc'[c] = pc[c] /\ key'[c] = key[c] /\ draft'[c] = draft[c]
      BY <1>0, <1>4 DEF Import, BeginImport, UpsertConversation, UpsertSource, WriteRecords,
         CommitImport, CommitRows, RollBack, ImportFails, Go, Invariant, TypeOK
    <2>2. CASE pc[c] # "rebuilt"
      BY <1>3, <2>1, <2>2
    <2>3. CASE pc[c] = "rebuilt" /\ observed[JobOf(c)] = "none"
      <3>1. j = JobOf(c) => ~CommitImport(j)
        BY <2>3 DEF Invariant, JobLocks, Held, CommitImport
      <3>2. JobOf(c) \in Jobs /\ JobOf(c)' = JobOf(c)
        BY <2>1, <2>3, JobOfType DEF Invariant, Keyed, JobOf
      <3>3. observed' = observed \/ CommitImport(j)
        BY <1>4 DEF Import, BeginImport, UpsertConversation, UpsertSource, WriteRecords, ImportFails, tables
      <3>4. observed'[JobOf(c)] = "none"
        BY <2>3, <3>1, <3>2, <3>3 DEF CommitImport, Invariant, TypeOK
      <3> QED
        BY <1>1, <2>1, <2>3, <3>2, <3>4 DEF DraftRight
    <2>4. CASE pc[c] = "rebuilt" /\ observed[JobOf(c)] # "none"
      <3>1. /\ \A i \in Jobs : observed'[i] = "eligible" <=> observed[i] = "eligible"
            /\ observed'[JobOf(c)] = observed[JobOf(c)]
            /\ \A n \in Observes(JobOf(c)) : rows'[n] = rows[n]
        BY <1>4, <2>4, ImportKeepsInputs
      <3>2. JobOf(c)' = JobOf(c)
        BY <2>1 DEF JobOf
      <3>3. m \in Observes(JobOf(c)) => Rebuilt(Eligibles(c), m)' = Rebuilt(Eligibles(c), m)
        BY <2>1, <3>1, RebuiltAgain
      <3> QED
        BY <1>1, <2>1, <2>4, <3>1, <3>2, <3>3 DEF DraftRight
    <2> QED
      BY <2>2, <2>3, <2>4
  <1>5. ASSUME NEW d \in Callers, d # c, Apply(d) PROVE DraftRight(c, m)'
    <2>1. pc'[c] = pc[c] /\ key'[c] = key[c] /\ draft'[c] = draft[c]
      BY <1>0, <1>5 DEF Apply, FindRun, Replay, StartRun, RunExists, LockJob, DecisionExists, ReadConversation,
         UpdateConversation, RebuildMessages, Answered, Unanswered, CommitApply, CommitRows, RollBack,
         ApplyFails, Catch, CallLost, Go, vars, calls, Invariant, TypeOK
    <2>2. CASE pc[c] # "rebuilt"
      BY <1>3, <2>1, <2>2
    <2>3. CASE pc[c] = "rebuilt" /\ observed[JobOf(c)] = "none"
      <3>1. JobOf(c) \in Jobs
        BY <2>3, JobOfType DEF Invariant, Keyed
      <3>2. observed'[JobOf(c)] = "none" /\ JobOf(c)' = JobOf(c)
        BY <1>5, <2>1, <2>3, <3>1 DEF Apply, FindRun, Replay, StartRun, RunExists, LockJob, DecisionExists,
           ReadConversation, UpdateConversation, RebuildMessages, Answered, Unanswered, CommitApply, ApplyFails,
           Catch, CallLost, vars, tables, Invariant, TypeOK, JobOf
      <3> QED
        BY <1>1, <2>1, <2>3, <3>2 DEF DraftRight
    <2>4. CASE pc[c] = "rebuilt" /\ observed[JobOf(c)] # "none"
      <3>1. observed' = observed /\ rows'[m] = rows[m]
        BY <1>5, <2>4, ApplyKeepsInputs
      <3>2. JobOf(c)' = JobOf(c) /\ Rebuilt(Eligibles(c), m)' = Rebuilt(Eligibles(c), m)
        BY <2>1, <3>1, RebuiltAgain
      <3> QED
        BY <1>1, <2>1, <2>4, <3>1, <3>2 DEF DraftRight
    <2> QED
      BY <2>2, <2>3, <2>4
  <1>6. CASE RebuildMessages(c)
    <2>1. observed[JobOf(c)] # "none" /\ JobOf(c)' = JobOf(c) /\ UNCHANGED <<observed, rows, key>>
      BY <1>6 DEF RebuildMessages, Invariant, AffectedObserved, tables, JobOf
    <2>2. draft'[c][m] = IF m \in Observes(JobOf(c)) THEN Rebuilt(Eligibles(c), m) ELSE NoRow
      BY <1>0, <1>6 DEF RebuildMessages, Invariant, TypeOK
    <2>3. pc'[c] = "rebuilt"
      BY <1>0, <1>6 DEF RebuildMessages, Go, Invariant, TypeOK
    <2>4. Rebuilt(Eligibles(c), m)' = Rebuilt(Eligibles(c), m)
      BY <2>1, RebuiltAgain
    <2> QED
      BY <2>1, <2>2, <2>3, <2>4 DEF DraftRight
  <1>7. CASE LockJob(c)
    <2>1. UNCHANGED <<observed, draft>> /\ JobOf(c)' = JobOf(c) /\ pc[c] = "lock"
      BY <1>7 DEF LockJob, tables, JobOf
    <2>2. observed[JobOf(c)] # "none" => pc'[c] # "rebuilt"
      BY <1>0, <1>7 DEF LockJob, Go, Invariant, TypeOK
    <2> QED
      BY <1>1, <2>1, <2>2 DEF DraftRight
  <1>8. CASE Apply(c) /\ ~RebuildMessages(c) /\ ~LockJob(c)
    <2>1. CASE pc'[c] # "rebuilt" /\ draft'[c] = Clean
      BY <2>1 DEF DraftRight, Clean
    <2>2. CASE pc[c] # "rebuilt" /\ pc'[c] # "rebuilt" /\ draft'[c] = draft[c]
      BY <1>3, <2>2
    <2>3. CASE Replay(c, key[c]) \/ UNCHANGED vars
      BY <1>2, <2>3 DEF Replay
    <2> QED
      BY <1>0, <1>8, <2>1, <2>2, <2>3 DEF Apply, FindRun, Replay, StartRun, RunExists, DecisionExists,
         ReadConversation, UpdateConversation, Answered, Unanswered, CommitApply, CommitRows, RollBack,
         ApplyFails, Catch, CallLost, Go, tables, Invariant, TypeOK
  <1> QED
    BY <1>2, <1>4, <1>5, <1>6, <1>7, <1>8 DEF Next

-----------------------------------------------------------------------------
(* The commit of a decision makes the observations what its drafts assumed.  *)
LEMMA CommitApplies ==
  ASSUME Invariant, NEW c \in Callers, CommitApply(c), NEW m \in Messages
  PROVE  /\ JobOf(c) \in Jobs
         /\ observed[JobOf(c)] = "none" => observed' = observed
         /\ observed[JobOf(c)] # "none" => \A j \in Jobs : observed'[j] = "eligible" <=> j \in Eligibles(c)
         /\ IF observed[JobOf(c)] # "none" /\ m \in Observes(JobOf(c))
              THEN rows'[m] = Rebuilt(Eligibles(c), m) /\ rows'[m] # NoRow
              ELSE rows'[m] = rows[m]
  <1>1. pc[c] = "rebuilt" /\ key[c] \in Keys
    BY DEF CommitApply, Invariant, Keyed
  <1>2. JobOf(c) \in Jobs /\ NextState(c) \in {"excluded", "eligible"} /\ Eligibles(c) \in SUBSET Jobs
    BY <1>1, JobOfType DEF Invariant
  <1>3. observed[JobOf(c)] = "none" => observed' = observed
    BY <1>2 DEF CommitApply, Invariant, TypeOK
  <1>4. observed[JobOf(c)] # "none" => observed' = [observed EXCEPT ![JobOf(c)] = NextState(c)]
    BY <1>2 DEF CommitApply, Invariant, TypeOK
  <1>5. observed[JobOf(c)] # "none" => \A j \in Jobs : observed'[j] = "eligible" <=> j \in Eligibles(c)
    BY <1>2, <1>4 DEF Eligibles, Invariant, TypeOK
  <1>6. DraftRight(c, m)
    BY DEF Invariant, ApplyDrafts
  <1>7. rows'[m] = IF draft[c][m] # NoRow THEN draft[c][m] ELSE rows[m]
    BY DEF CommitApply, CommitRows
  <1>8. CASE observed[JobOf(c)] # "none" /\ m \in Observes(JobOf(c))
    <2>1. rows[m] # NoRow
      BY <1>2, <1>8 DEF Invariant, ObservedHasRows
    <2>2. Rebuilt(Eligibles(c), m) \in Rows
      BY <1>2, <2>1, RebuiltType DEF Invariant
    <2> QED
      BY <1>1, <1>2, <1>3, <1>5, <1>6, <1>7, <1>8, <2>2, RowsAssumption DEF DraftRight
  <1>9. CASE ~(observed[JobOf(c)] # "none" /\ m \in Observes(JobOf(c)))
    BY <1>2, <1>3, <1>5, <1>6, <1>7, <1>9 DEF DraftRight
  <1> QED
    BY <1>8, <1>9

LEMMA ShownStep ==
  ASSUME Invariant, [Next]_vars
  PROVE  ShownIffSupported'
  <1> SUFFICES ASSUME NEW m \in Messages PROVE Shown(m)' <=> (Supporters(m) # {})'
    BY DEF ShownIffSupported
  <1>1. Shown(m) <=> Supporters(m) # {}
    BY DEF Invariant, ShownIffSupported
  <1>2. CASE UNCHANGED <<observed, rows>>
    BY <1>1, <1>2 DEF Shown, Supporters
  <1>3. ASSUME NEW j \in Jobs, CommitImport(j) PROVE Shown(m)' <=> (Supporters(m) # {})'
    <2>1. rows'[m] = IF draft[j][m] # NoRow THEN draft[j][m] ELSE rows[m]
      BY <1>3 DEF CommitImport, CommitRows
    <2>2. observed'[j] = (IF j \in seen[j] THEN "eligible" ELSE "excluded")
          /\ \A i \in Jobs : i # j => observed'[i] = observed[i]
      BY <1>3 DEF CommitImport, Invariant, TypeOK
    <2>3. pc[j] = "written" /\ observed[j] = "none"
      BY <1>3 DEF CommitImport, Invariant, ObservedHasRows
    <2>4. CASE j \in seen[j] /\ m \in Observes(j)
      <3>1. draft[j][m] # NoRow /\ draft[j][m].shown
        BY <2>3, <2>4 DEF Invariant, ImportDrafts
      <3>2. j \in Supporters(m)'
        BY <2>2, <2>4 DEF Supporters
      <3> QED
        BY <2>1, <3>1, <3>2 DEF Shown
    <2>5. CASE j \notin seen[j] \/ m \notin Observes(j)
      <3>1. Supporters(m)' = Supporters(m)
        BY <2>2, <2>3, <2>5 DEF Supporters
      <3>2. Shown(m)' <=> Shown(m)
        BY <2>1, <2>5 DEF Shown, Invariant, ImportDrafts
      <3> QED
        BY <1>1, <3>1, <3>2
    <2> QED
      BY <2>4, <2>5
  <1>4. ASSUME NEW c \in Callers, CommitApply(c) PROVE Shown(m)' <=> (Supporters(m) # {})'
    <2>1. CASE observed[JobOf(c)] # "none" /\ m \in Observes(JobOf(c))
      <3>1. Supporters(m)' = { j \in Jobs : m \in Observes(j) /\ j \in Eligibles(c) }
        BY <1>4, <2>1, CommitApplies DEF Supporters
      <3>2. Shown(m)' <=> \E j \in Eligibles(c) : m \in Observes(j)
        <4>1. rows'[m] = Rebuilt(Eligibles(c), m) /\ rows'[m] # NoRow
          BY <1>4, <2>1, CommitApplies
        <4>2. Rebuilt(Eligibles(c), m).shown = \E j \in Eligibles(c) : m \in Observes(j)
          BY DEF Rebuilt
        <4> QED
          BY <4>1, <4>2 DEF Shown
      <3>3. Eligibles(c) \subseteq Jobs
        BY DEF Eligibles
      <3> QED
        BY <3>1, <3>2, <3>3
    <2>2. CASE observed[JobOf(c)] = "none"
      BY <1>1, <1>4, <2>2, CommitApplies DEF Shown, Supporters
    <2>3. CASE observed[JobOf(c)] # "none" /\ m \notin Observes(JobOf(c))
      <3>1. \A j \in Jobs : m \in Observes(j) => (j \in Eligibles(c) <=> observed[j] = "eligible")
        BY <2>3 DEF Eligibles
      <3>2. Supporters(m)' = Supporters(m)
        BY <1>4, <2>3, <3>1, CommitApplies DEF Supporters
      <3> QED
        BY <1>1, <1>4, <2>3, <3>2, CommitApplies DEF Shown
    <2> QED
      BY <2>1, <2>2, <2>3
  <1> QED
    BY <1>2, <1>3, <1>4 DEF Next, Import, BeginImport, UpsertConversation, UpsertSource, WriteRecords,
       ImportFails, Apply, FindRun, Replay, StartRun, RunExists, LockJob, DecisionExists, ReadConversation,
       UpdateConversation, RebuildMessages, Answered, Unanswered, ApplyFails, Catch, CallLost, vars, tables

LEMMA CompletedStep ==
  ASSUME Invariant, [Next]_vars
  PROVE  CompletedIsDecided'
  <1> USE DEF CompletedIsDecided
  <1>1. CASE UNCHANGED <<runs, decisions>>
    BY <1>1 DEF Invariant
  <1>2. ASSUME NEW c \in Callers, CommitApply(c) PROVE CompletedIsDecided'
    BY <1>2 DEF CommitApply, Invariant, TypeOK
  <1>3. ASSUME NEW c \in Callers, StartRun(c) \/ Catch(c) PROVE CompletedIsDecided'
    BY <1>3 DEF StartRun, Catch, RunFailed, Invariant, TypeOK
  <1> QED
    BY <1>1, <1>2, <1>3 DEF Next, Import, BeginImport, UpsertConversation, UpsertSource, WriteRecords,
       CommitImport, ImportFails, Apply, FindRun, Replay, RunExists, LockJob, DecisionExists, ReadConversation,
       UpdateConversation, RebuildMessages, Answered, Unanswered, ApplyFails, CallLost, vars, tables

LEMMA InvariantStep == Invariant /\ [Next]_vars => Invariant'
  BY TypeStep, KeyedStep, LocksStep, ConversationLocksStep, ObservedStep, ImportDraftsStep, ApplyDraftsStep,
     ShownStep, CompletedStep DEF Invariant

LEMMA InvariantAlways == Spec => []Invariant
  BY InvariantInit, InvariantStep, PTL DEF Spec

-----------------------------------------------------------------------------
(***************************************************************************)
(* The theorems.                                                           *)
(***************************************************************************)
(* Every variable keeps its type.                                           *)
THEOREM TypeCorrect == Spec => []TypeOK
  BY InvariantAlways, PTL DEF Invariant

(* Rows are shown exactly while an eligible import observes them.            *)
THEOREM ShownExactlyIfSupported == Spec => []ShownIffSupported
  BY InvariantAlways, PTL DEF Invariant

(* A completed run has taken its decision.                                  *)
THEOREM CompletedAreDecided == Spec => []CompletedIsDecided
  BY InvariantAlways, PTL DEF Invariant

(* No two transactions write one message row.                               *)
LEMMA WritersApart == Invariant => OneWriter
  <1> SUFFICES ASSUME Invariant, NEW m \in Messages, NEW s \in Txs, NEW t \in Txs,
                      draft[s][m] # NoRow, draft[t][m] # NoRow
      PROVE  s = t
    BY DEF OneWriter
  <1>1. CASE s \in Jobs /\ t \in Jobs
    BY <1>1 DEF Invariant, ImportDrafts, ConversationLocks, HoldsSource
  <1>2. CASE s \in Callers /\ t \in Callers
    BY <1>2, ApplyDraftsReplace DEF Invariant, ConversationLocks
  <1>3. ASSUME NEW j \in Jobs, NEW c \in Callers, draft[j][m] # NoRow, draft[c][m] # NoRow PROVE FALSE
    <2>1. rows[m] # NoRow /\ HoldsConversation(c)
      BY <1>3, ApplyDraftsReplace
    <2>2. pc[j] = "written" /\ j \in seen[j]
      BY <1>3, <2>1 DEF Invariant, ImportDrafts
    <2>3. HoldsConversation(j)
      BY <2>2 DEF Invariant, ConversationLocks
    <2> QED
      BY <2>1, <2>3, CallersAssumption DEF Invariant, ConversationLocks, Txs
  <1> QED
    BY <1>1, <1>2, <1>3 DEF Txs

(* No two transactions have an uncommitted row of the same message.          *)
THEOREM OneWriterAtATime == Spec => []OneWriter
  BY InvariantAlways, WritersApart, PTL

(* Decisions change only where a call that holds the job commits.            *)
LEMMA DecisionsAreCommits ==
  ASSUME Next, decisions' # decisions \/ eligible' # eligible
  PROVE  \E c \in Callers : CommitApply(c)
  BY DEF Next, Import, BeginImport, UpsertConversation, UpsertSource, WriteRecords,
     CommitImport, ImportFails, Apply, FindRun, Replay, StartRun, RunExists, LockJob, DecisionExists,
     ReadConversation, UpdateConversation, RebuildMessages, Answered, Unanswered, ApplyFails, Catch,
     CallLost, vars, tables

(* A retry decides nothing: the first decision of a key is the only one.     *)
THEOREM RetriesAreIdempotent == Spec => RetriesDecideNothing
  <1> DEFINE Step == /\ \A j \in Jobs : eligible'[j] # eligible[j] =>
                          \E k \in Keys : Requests[k].job = j /\ decisions[k] = 0 /\ decisions'[k] = 1
                     /\ \A k \in Keys : decisions[k] # 0 => decisions'[k] = decisions[k]
  <1>1. ASSUME Invariant, [Next]_vars PROVE Step \/ UNCHANGED vars
    <2>1. CASE UNCHANGED <<decisions, eligible>>
      BY <2>1
    <2>2. ASSUME NEW c \in Callers, CommitApply(c) PROVE Step
      <3>1. pc[c] = "rebuilt" /\ key[c] \in Keys /\ decisions[key[c]] = 0
        BY <1>1, <2>2 DEF CommitApply, Invariant, Keyed, NotYetDecided, Held
      <3>2. decisions'[key[c]] = 1 /\ \A k \in Keys : k # key[c] => decisions'[k] = decisions[k]
        BY <1>1, <2>2, <3>1 DEF CommitApply, Invariant, TypeOK
      <3>3. \A j \in Jobs : eligible'[j] # eligible[j] => j = Requests[key[c]].job
        BY <1>1, <2>2 DEF CommitApply, Invariant, TypeOK, JobOf
      <3> QED
        BY <3>1, <3>2, <3>3
    <2> QED
      BY <1>1, <2>1, <2>2, DecisionsAreCommits
  <1>2. Spec => [][Step]_vars
    BY <1>1, InvariantAlways, PTL DEF Spec
  <1> QED
    BY <1>2 DEF RetriesDecideNothing

(* A decision rebuilds what it affects from what is eligible when it commits.*)
LEMMA RebuiltAsObserved ==
  ASSUME Invariant, NEW c \in Callers, CommitApply(c), observed[JobOf(c)] # "none",
         NEW m \in Messages, m \in Observes(JobOf(c)), Shown(m)'
  PROVE  AsObserved(m)'
  <1> DEFINE E == Eligibles(c)
             bodies == Saying(E, m, "body")
  <1>1. E \in SUBSET Jobs /\ bodies \in SUBSET Jobs
    BY DEF Eligibles, Saying
  <1>2. rows'[m] = Rebuilt(E, m)
    BY CommitApplies
  <1>3. \A j \in Jobs : observed'[j] = "eligible" <=> j \in E
    BY CommitApplies
  <1>4. Supporters(m)' = { j \in E : m \in Observes(j) }
    BY <1>1, <1>3 DEF Supporters
  <1>5. \A what \in Sayings \ {"nothing"} :
          { j \in Supporters(m)' : Says[j][m] = what } = Saying(E, m, what)
    BY <1>4 DEF Saying, Observes
  <1>6. rows'[m].deleted <=> \E j \in Supporters(m)' : Says[j][m] = "tombstone"
    <2>1. rows'[m].deleted = (Saying(E, m, "tombstone") # {})
      BY <1>2 DEF Rebuilt
    <2> QED
      BY <2>1, <1>5 DEF Sayings
  <1>7. rows'[m].body = IF bodies # {} THEN Preferred(bodies) ELSE NoJob
    <2>1. \E j \in E : m \in Observes(j)
      BY <1>2 DEF Shown, Rebuilt
    <2> QED
      BY <1>2, <2>1 DEF Rebuilt
  <1>8. bodies # {} =>
          /\ Preferred(bodies) \in IF bodies \ Live # {} THEN bodies \ Live ELSE bodies
          /\ \A j \in IF bodies \ Live # {} THEN bodies \ Live ELSE bodies : j <= Preferred(bodies)
    BY <1>1, PreferredIsBest
  <1>9. { j \in Supporters(m)' : Says[j][m] = "body" } = bodies
    BY <1>5 DEF Sayings
  <1> QED
    BY <1>6, <1>7, <1>8, <1>9 DEF AsObserved

(* A decision leaves the shown messages of its import as observed then.      *)
THEOREM DecisionsRebuildWhatTheyAffect == Spec => DecisionsRebuild
  <1> DEFINE Step == \A k \in Keys : decisions'[k] # decisions[k] /\ observed[Requests[k].job] # "none" =>
                       \A m \in Observes(Requests[k].job) : Shown(m)' => AsObserved(m)'
  <1>1. ASSUME Invariant, [Next]_vars PROVE Step \/ UNCHANGED vars
    <2>1. CASE UNCHANGED decisions
      BY <2>1
    <2>2. ASSUME NEW c \in Callers, CommitApply(c) PROVE Step
      <3> SUFFICES ASSUME NEW k \in Keys, decisions'[k] # decisions[k], observed[Requests[k].job] # "none",
                          NEW m \in Observes(Requests[k].job), Shown(m)'
          PROVE  AsObserved(m)'
        OBVIOUS
      <3>1. k = key[c]
        BY <1>1, <2>2 DEF CommitApply, Invariant, TypeOK
      <3> QED
        BY <1>1, <2>2, <3>1, RebuiltAsObserved DEF JobOf, Observes
    <2> QED
      BY <1>1, <2>1, <2>2, DecisionsAreCommits
  <1>2. Spec => [][Step]_vars
    BY <1>1, InvariantAlways, PTL DEF Spec
  <1> QED
    BY <1>2 DEF DecisionsRebuild
=============================================================================
