--------------------------- MODULE Curation_proofs ---------------------------
(***************************************************************************)
(* Proofs about Curation, for any number of conversations, requests and    *)
(* idempotency keys, any mix of operations and any bound on policies.      *)
(***************************************************************************)
EXTENDS Curation, FiniteSetTheorems, TLAPS

-----------------------------------------------------------------------------
(***************************************************************************)
(* Requests in progress.                                                   *)
(***************************************************************************)
Outcomes == {"none", "refused", "replayed", "applied"}

(* What a request is can be told from its operation and its step. *)
LEMMA Kinds ==
  ASSUME NEW x \in Commands
  PROVE  /\ x.op \in Grouping => x \in GroupCommand
         /\ x.op = "policy" => x \in PolicyCommand
         /\ x.op \in Deletion => x \in DeletionCommand
         /\ x.pc = "idle" => x \in Ended
         /\ x.pc = "commit" => x \in GroupCommand
         /\ x.pc = "write" => x \in PolicyCommand
         /\ x.pc # "idle" => x.op \in Grouping \cup {"policy"} \cup Deletion
  BY DEF Commands, Ended, GroupCommand, PolicyCommand, DeletionCommand, Grouping, Deletion

(* A step of request r leaves the others as they are. *)
Changes(r) ==
  /\ req' \in [Request -> Commands]
  /\ \A q \in Request : q # r => req'[q] = req[q]

Becomes(r, x) == Changes(r) /\ req'[r] = x

LEMMA Replaced ==
  ASSUME req \in [Request -> Commands], NEW r \in Request, NEW x \in Commands,
         req' = [req EXCEPT ![r] = x]
  PROVE  Becomes(r, x)
  BY DEF Becomes, Changes

LEMMA Ends ==
  ASSUME req \in [Request -> Commands], NEW r \in Request, NEW out \in Outcomes, End(r, out)
  PROVE  /\ Changes(r)
         /\ req'[r].op = "none" /\ req'[r].pc = "idle" /\ req'[r].out = out
  <1> DEFINE x == [op |-> "none", pc |-> "idle", out |-> out]
  <1>1. [Idle EXCEPT !.out = out] = x
    BY DEF Idle
  <1>2. x \in Commands
    BY DEF Commands, Ended, Outcomes
  <1>3. req' = [req EXCEPT ![r] = x]
    BY <1>1 DEF End
  <1>4. Becomes(r, x)
    BY <1>2, <1>3, Replaced
  <1> QED
    BY <1>4 DEF Becomes

(* A request that goes on keeps what it asks for. *)
LEMMA GroupGoesOn ==
  ASSUME req \in [Request -> Commands], NEW r \in Request, req[r] \in GroupCommand,
         NEW pc \in {"start", "tx", "commit"}, NEW before \in Snapshots \cup {None},
         req' = [req EXCEPT ![r].pc = pc, ![r].before = before]
  PROVE  /\ Changes(r) /\ req'[r] \in GroupCommand
         /\ req'[r].pc = pc /\ req'[r].before = before
         /\ req'[r].op = req[r].op /\ req'[r].on = req[r].on /\ req'[r].ids = req[r].ids
         /\ req'[r].expected = req[r].expected /\ req'[r].undo = req[r].undo
  <1> DEFINE x == [req[r] EXCEPT !.pc = pc, !.before = before]
  <1>1. x \in GroupCommand
    BY DEF GroupCommand
  <1>2. req' = [req EXCEPT ![r] = x]
    OBVIOUS
  <1>3. /\ x.pc = pc /\ x.before = before
        /\ x.op = req[r].op /\ x.on = req[r].on /\ x.ids = req[r].ids
        /\ x.expected = req[r].expected /\ x.undo = req[r].undo
    BY DEF GroupCommand
  <1> HIDE DEF x
  <1>4. Becomes(r, x)
    BY <1>1, <1>2, Replaced DEF Commands
  <1> QED
    BY <1>1, <1>3, <1>4 DEF Becomes

LEMMA GroupWaits ==
  ASSUME req \in [Request -> Commands], NEW r \in Request, req[r] \in GroupCommand,
         Goto(r, "tx")
  PROVE  /\ Changes(r) /\ req'[r] \in GroupCommand /\ req'[r].pc = "tx"
         /\ req'[r].op = req[r].op /\ req'[r].undo = req[r].undo
  <1> DEFINE x == [req[r] EXCEPT !.pc = "tx"]
  <1>1. x \in GroupCommand
    BY DEF GroupCommand
  <1>2. req' = [req EXCEPT ![r] = x]
    BY DEF Goto
  <1>3. x.pc = "tx" /\ x.op = req[r].op /\ x.undo = req[r].undo
    BY DEF GroupCommand
  <1> HIDE DEF x
  <1>4. Becomes(r, x)
    BY <1>1, <1>2, Replaced DEF Commands
  <1> QED
    BY <1>1, <1>3, <1>4 DEF Becomes

LEMMA DeletionGoesOn ==
  ASSUME req \in [Request -> Commands], NEW r \in Request, req[r] \in DeletionCommand,
         NEW pc \in {"start", "tx", "lock", "failed"}, Goto(r, pc)
  PROVE  Changes(r) /\ req'[r] \in DeletionCommand /\ req'[r].pc = pc
  <1> DEFINE x == [req[r] EXCEPT !.pc = pc]
  <1>1. x \in DeletionCommand /\ x.pc = pc
    BY DEF DeletionCommand
  <1>2. req' = [req EXCEPT ![r] = x]
    BY DEF Goto
  <1> HIDE DEF x
  <1>3. Becomes(r, x)
    BY <1>1, <1>2, Replaced DEF Commands
  <1> QED
    BY <1>1, <1>3 DEF Becomes
-----------------------------------------------------------------------------
(***************************************************************************)
(* The inductive invariant: first what the requests know.                  *)
(*                                                                         *)
(* A request about to commit a grouping holds the row of its target, so    *)
(* the version it checked is still the version.  A policy that a request   *)
(* is about to write was noted, or it will be noted as a change.           *)
(***************************************************************************)
UndoKnown == \A r \in Request : req[r].op = "unmerge" => req[r].undo \in log

CommitReady ==
  \A r \in Request : req[r].pc = "commit" =>
    /\ req[r].before \in [req[r].ids -> Conversation]
    /\ req[r].expected = row[req[r].on].version
    /\ req[r].op = "unmerge" => req[r].undo.ids = req[r].ids

OneCommitter ==
  \A r, q \in Request :
    req[r].pc = "commit" /\ req[q].pc = "commit" /\ req[r].on = req[q].on => r = q

WriteReady ==
  \A r \in Request : req[r].pc = "write" =>
    /\ req[r].vis \in Visibility /\ req[r].mcp \in Disclosure
    /\ req[r].vis # "normal" /\ req[r].vis = req[r].seen.vis => <<req[r].on, "vis">> \in noted
    /\ req[r].mcp # "allowed" /\ req[r].mcp = req[r].seen.mcp => <<req[r].on, "mcp">> \in noted

RequestInv == UndoKnown /\ CommitReady /\ OneCommitter /\ WriteReady

(* Then what the logs say of the rows. *)
Explained(c, entries, version) ==
  /\ \A a \in entries : a.on = c => a.version \in 1 .. version
  /\ \A a, b \in entries : a.on = c /\ b.on = c /\ a.version = b.version => a = b
  /\ \A n \in 1 .. version : \E a \in entries : a.on = c /\ a.version = n

LogInv ==
  /\ \A c \in Conversation : Explained(c, log, row[c].version)
  /\ \A c \in Conversation : Explained(c, delLog, row[c].delVersion)
  /\ \A a, b \in delLog : a.key = b.key => a = b
  /\ \A a \in delLog : a.version = row[a.on].delVersion => row[a.on].deleted = (a.op = "delete")

Noted ==
  \A c \in Conversation : /\ row[c].vis # "normal" => <<c, "vis">> \in noted
                          /\ row[c].mcp # "allowed" => <<c, "mcp">> \in noted

(* Last, where the chats are: every place that is in force, that was when    *)
(* it was audited, or that is about to be written, was decided.              *)
DecidedIn(entries, s, c) ==
  c = s \/ \E a \in entries : a.op = "merge" /\ s \in a.ids /\ a.on = c

Places(s) == holds[s] \cup {group[s]} \cup ({imp[s]} \ {None})

PlacesInv ==
  /\ \A s \in Conversation : \A c \in Places(s) : DecidedIn(log, s, c)
  /\ \A a \in log : \A s \in a.ids : DecidedIn(log, s, a.before[s])
  /\ \A r \in Request : req[r].pc = "commit"
       => \A s \in req[r].ids : DecidedIn(log, s, req[r].before[s])

Invariant == TypeOK /\ RequestInv /\ LogInv /\ Noted /\ PlacesInv

(* A step that ends a request, or takes it to a step where it knows nothing. *)
Plain(r) ==
  /\ Changes(r) /\ req'[r].pc \notin {"commit", "write"}
  /\ req'[r].op = "unmerge" => req'[r].undo \in log

LEMMA PlainStep ==
  ASSUME TypeOK, RequestInv, NEW r \in Request, Plain(r),
         log \subseteq log', noted \subseteq noted',
         \A q \in Request : q # r /\ req[q].pc = "commit"
           => row'[req[q].on].version = row[req[q].on].version
  PROVE  RequestInv'
  <1> USE DEF Plain, Changes
  <1>1. UndoKnown'
    BY DEF RequestInv, UndoKnown
  <1>2. CommitReady'
    BY DEF RequestInv, CommitReady
  <1>3. OneCommitter'
    BY DEF RequestInv, OneCommitter
  <1>4. WriteReady'
    BY DEF RequestInv, WriteReady
  <1> QED
    BY <1>1, <1>2, <1>3, <1>4 DEF RequestInv

(* A request that arrives. *)
LEMMA SubmitPlain ==
  ASSUME TypeOK, NEW r \in Request, NEW x \in Commands, Submit(r, x),
         x.pc = "start", x.op = "unmerge" => x.undo \in log
  PROVE  Plain(r)
  BY Replaced DEF Submit, TypeOK, Plain, Becomes

LEMMA AskPlain ==
  ASSUME TypeOK, NEW r \in Request, AskGroup(r) \/ AskPolicy(r) \/ AskDeletion(r)
  PROVE  Plain(r) /\ UNCHANGED <<row, group, holds, log, delLog, noted, imp, changes>>
  <1>1. CASE AskGroup(r)
    <2>0. PICK op \in Grouping \cap mix, c \in Conversation, k \in GroupKey, yes \in BOOLEAN :
            \E ids \in (SUBSET Conversation) \ {{}}, undo \in log \cup {None} :
              /\ (op = "merge") = (undo = None)
              /\ yes => row[c].vis = "locked"
              /\ Submit(r, [op |-> op, pc |-> "start", out |-> "none", on |-> c, ids |-> ids,
                            key |-> k, expected |-> row[c].version, undo |-> undo,
                            granted |-> IF yes THEN {c} ELSE {}, before |-> None])
      BY <1>1 DEF AskGroup
    <2>1. PICK ids \in (SUBSET Conversation) \ {{}}, undo \in log \cup {None} :
            /\ (op = "merge") = (undo = None)
            /\ Submit(r, [op |-> op, pc |-> "start", out |-> "none", on |-> c, ids |-> ids,
                          key |-> k, expected |-> row[c].version, undo |-> undo,
                          granted |-> IF yes THEN {c} ELSE {}, before |-> None])
      BY <2>0
    <2> DEFINE x == [op |-> op, pc |-> "start", out |-> "none", on |-> c, ids |-> ids,
                     key |-> k, expected |-> row[c].version, undo |-> undo,
                     granted |-> IF yes THEN {c} ELSE {}, before |-> None]
    <2>2. x \in GroupCommand
      BY DEF GroupCommand, TypeOK, Rows
    <2>3. op = "unmerge" => undo \in log
      BY <2>1
    <2>4. x.pc = "start" /\ (x.op = "unmerge" => x.undo \in log)
      BY <2>3
    <2>5. Submit(r, x)
      BY <2>1
    <2> HIDE DEF x
    <2> QED
      BY <2>2, <2>4, <2>5, SubmitPlain DEF Commands, Submit
  <1>2. CASE AskPolicy(r)
    <2>1. PICK c \in Conversation, v \in {"normal", "hidden", "locked", None},
               m \in {"allowed", "denied", None} :
            Submit(r, [op |-> "policy", pc |-> "start", out |-> "none", on |-> c,
                       vis |-> v, mcp |-> m, seen |-> None])
      BY <1>2 DEF AskPolicy
    <2>2. [op |-> "policy", pc |-> "start", out |-> "none", on |-> c,
           vis |-> v, mcp |-> m, seen |-> None] \in Commands
      BY DEF Commands, PolicyCommand, Visibility, Disclosure
    <2> QED
      BY <2>1, <2>2, SubmitPlain DEF Submit
  <1>3. CASE AskDeletion(r)
    <2>1. PICK op \in Deletion, c \in Conversation, k \in DeleteKey, checked \in BOOLEAN :
            Submit(r, [op |-> op, pc |-> "start", out |-> "none", on |-> c, key |-> k,
                       expected |-> IF checked THEN row[c].delVersion ELSE None])
      BY <1>3 DEF AskDeletion
    <2>2. [op |-> op, pc |-> "start", out |-> "none", on |-> c, key |-> k,
           expected |-> IF checked THEN row[c].delVersion ELSE None] \in Commands
      BY DEF Commands, DeletionCommand, TypeOK, Rows
    <2> QED
      BY <2>1, <2>2, SubmitPlain DEF Submit, Deletion
  <1> QED
    BY <1>1, <1>2, <1>3

(* The ways a request ends, or looks for a replay. *)
LEMMA EndPlain ==
  ASSUME TypeOK, NEW r \in Request, NEW out \in Outcomes, End(r, out)
  PROVE  Plain(r)
  BY Ends DEF TypeOK, Plain

LEMMA DeletionPlain ==
  ASSUME TypeOK, NEW r \in Request, req[r].op \in Deletion,
         NEW pc \in {"start", "tx", "lock", "failed"}, Goto(r, pc)
  PROVE  Plain(r)
  BY Kinds, DeletionGoesOn DEF TypeOK, Plain, DeletionCommand, Deletion

LEMMA LookupPlain ==
  ASSUME TypeOK, RequestInv, NEW r \in Request,
         GroupLookup(r) \/ DeleteLookup(r) \/ DeleteFailed(r) \/ Abort(r)
  PROVE  Plain(r) /\ UNCHANGED <<row, group, holds, log, delLog, noted, imp, changes>>
  <1>1. CASE GroupLookup(r)
    <2>1. req[r] \in GroupCommand
      BY <1>1, Kinds DEF GroupLookup, At, TypeOK
    <2>2. ASSUME Goto(r, "tx") PROVE Plain(r)
      <3>1. /\ Changes(r) /\ req'[r].pc = "tx"
            /\ req'[r].op = req[r].op /\ req'[r].undo = req[r].undo
        BY <2>1, <2>2, GroupWaits DEF TypeOK
      <3> QED
        BY <3>1 DEF Plain, RequestInv, UndoKnown
    <2>3. Goto(r, "tx") \/ End(r, "refused") \/ End(r, "replayed")
      BY <1>1 DEF GroupLookup
    <2> QED
      BY <1>1, <2>2, <2>3, EndPlain DEF GroupLookup, Outcomes
  <1>2. CASE DeleteLookup(r) \/ DeleteFailed(r)
    <2>1. req[r].op \in Deletion
      BY <1>2 DEF DeleteLookup, DeleteFailed, At
    <2>2. \/ Goto(r, "tx") \/ Goto(r, "lock")
          \/ End(r, "replayed") \/ End(r, "refused")
      BY <1>2 DEF DeleteLookup, DeleteFailed, AfterFailure, Replay
    <2> QED
      BY <1>2, <2>1, <2>2, DeletionPlain, EndPlain DEF DeleteLookup, DeleteFailed, Outcomes
  <1>3. CASE Abort(r)
    BY <1>3, DeletionPlain, EndPlain DEF Abort, Outcomes
  <1> QED
    BY <1>1, <1>2, <1>3
-----------------------------------------------------------------------------
(***************************************************************************)
(* Types, and what a step that writes a row leaves alone.                  *)
(***************************************************************************)
LEMMA TypesKept ==
  ASSUME TypeOK, req' \in [Request -> Commands],
         UNCHANGED <<row, group, holds, log, delLog, noted, changes>>,
         imp' \in [Conversation -> Conversation \cup {None}]
  PROVE  TypeOK'
  BY DEF TypeOK

LEMMA PlacesKept ==
  ASSUME TypeOK, PlacesInv, UNCHANGED <<group, holds, log, imp>>, NEW r \in Request,
         \A q \in Request : q # r => req'[q] = req[q], req'[r].pc # "commit"
  PROVE  PlacesInv'
  BY DEF PlacesInv, Places, DecidedIn

LEMMA RowsKept ==
  ASSUME LogInv, Noted, UNCHANGED <<row, log, delLog, noted>>
  PROVE  LogInv' /\ Noted'
  BY DEF LogInv, Noted, Explained

(* A step of a request that only moves the request. *)
LEMMA OnlyMoves ==
  ASSUME Invariant, NEW r \in Request, Plain(r),
         UNCHANGED <<row, group, holds, log, delLog, noted, imp, changes>>
  PROVE  Invariant'
  <1>1. TypeOK'
    BY TypesKept DEF Invariant, TypeOK, Plain, Changes
  <1>2. RequestInv'
    BY PlainStep DEF Invariant
  <1>3. LogInv' /\ Noted'
    BY RowsKept DEF Invariant
  <1>4. PlacesInv'
    BY PlacesKept DEF Invariant, Plain, Changes
  <1> QED
    BY <1>1, <1>2, <1>3, <1>4 DEF Invariant

(* What the three writers of a row write. *)
LEMMA VersionWritten ==
  ASSUME row \in [Conversation -> Rows], NEW c \in Conversation, NEW n \in Nat,
         row' = [row EXCEPT ![c].version = n]
  PROVE  /\ row' \in [Conversation -> Rows]
         /\ row'[c].version = n
         /\ row'[c].vis = row[c].vis /\ row'[c].mcp = row[c].mcp
         /\ row'[c].deleted = row[c].deleted /\ row'[c].delVersion = row[c].delVersion
         /\ \A d \in Conversation : d # c => row'[d] = row[d]
  <1> DEFINE x == [row[c] EXCEPT !.version = n]
  <1>1. /\ x \in Rows /\ x.version = n /\ x.vis = row[c].vis /\ x.mcp = row[c].mcp
        /\ x.deleted = row[c].deleted /\ x.delVersion = row[c].delVersion
    BY DEF Rows
  <1>2. row' = [row EXCEPT ![c] = x]
    OBVIOUS
  <1> HIDE DEF x
  <1> QED
    BY <1>1, <1>2

LEMMA DeletionWritten ==
  ASSUME row \in [Conversation -> Rows], NEW c \in Conversation, NEW n \in Nat, NEW b \in BOOLEAN,
         row' = [row EXCEPT ![c].deleted = b, ![c].delVersion = n]
  PROVE  /\ row' \in [Conversation -> Rows]
         /\ row'[c].deleted = b /\ row'[c].delVersion = n
         /\ row'[c].version = row[c].version
         /\ row'[c].vis = row[c].vis /\ row'[c].mcp = row[c].mcp
         /\ \A d \in Conversation : d # c => row'[d] = row[d]
  <1> DEFINE x == [row[c] EXCEPT !.deleted = b, !.delVersion = n]
  <1>1. /\ x \in Rows /\ x.version = row[c].version /\ x.vis = row[c].vis /\ x.mcp = row[c].mcp
        /\ x.deleted = b /\ x.delVersion = n
    BY DEF Rows
  <1>2. row' = [row EXCEPT ![c] = x]
    OBVIOUS
  <1> HIDE DEF x
  <1> QED
    BY <1>1, <1>2

(* A log that explains the versions of a conversation goes on to do so when  *)
(* it gets the entry of the next version, or one of another conversation.    *)
LEMMA ExplainedGrows ==
  ASSUME NEW c, NEW entries, NEW n \in Nat, Explained(c, entries, n),
         NEW e, e.on = c, e.version = n + 1
  PROVE  Explained(c, entries \cup {e}, n + 1)
  <1>1. \A a \in entries \cup {e} : a.on = c => a.version \in 1 .. n + 1
    BY DEF Explained
  <1>2. \A a, b \in entries \cup {e} : a.on = c /\ b.on = c /\ a.version = b.version => a = b
    BY DEF Explained
  <1>3. ASSUME NEW k \in 1 .. n + 1 PROVE \E a \in entries \cup {e} : a.on = c /\ a.version = k
    <2>1. k \in 1 .. n \/ k = n + 1
      OBVIOUS
    <2> QED
      BY <2>1 DEF Explained
  <1> QED
    BY <1>1, <1>2, <1>3 DEF Explained

LEMMA ExplainedElsewhere ==
  ASSUME NEW c, NEW entries, NEW n \in Nat, Explained(c, entries, n), NEW e, e.on # c
  PROVE  Explained(c, entries \cup {e}, n)
  BY DEF Explained

-----------------------------------------------------------------------------
(***************************************************************************)
(* Grouping.                                                               *)
(***************************************************************************)
LEMMA GroupReadStep ==
  ASSUME Invariant, NEW r \in Request, GroupRead(r)
  PROVE  Invariant'
  <1>1. req[r] \in GroupCommand /\ UNCHANGED <<row, group, holds, log, delLog, noted, imp, changes>>
    BY Kinds DEF GroupRead, At, Invariant, TypeOK
  <1>2. CASE End(r, "refused")
    BY <1>1, <1>2, EndPlain, OnlyMoves DEF Invariant, Outcomes
  <1>3. ASSUME ~End(r, "refused") PROVE Invariant'
    <2>1. /\ req' = [req EXCEPT ![r].pc = "commit", ![r].before = GroupsRead(r)]
          /\ CurrentVersion(r) /\ RowFree(r, req[r].on)
          /\ req[r].op = "unmerge" => req[r].undo.ids = req[r].ids
      BY <1>3 DEF GroupRead
    <2>2. GroupsRead(r) \in [req[r].ids -> Conversation] /\ req[r].ids \in SUBSET Conversation
      BY <1>1 DEF GroupsRead, GroupCommand, Invariant, TypeOK
    <2>3. GroupsRead(r) \in Snapshots \cup {None}
      BY <2>2 DEF Snapshots
    <2>4. /\ Changes(r) /\ req'[r].pc = "commit" /\ req'[r].before = GroupsRead(r)
          /\ req'[r].op = req[r].op /\ req'[r].on = req[r].on /\ req'[r].ids = req[r].ids
          /\ req'[r].expected = req[r].expected /\ req'[r].undo = req[r].undo
      BY <1>1, <2>1, <2>3, GroupGoesOn DEF Invariant, TypeOK
    <2>5. TypeOK'
      BY <1>1, <2>4, TypesKept DEF Invariant, TypeOK, Changes
    <2>6. UndoKnown'
      BY <1>1, <2>4 DEF Invariant, RequestInv, UndoKnown, Changes
    <2>7. CommitReady'
      BY <1>1, <2>1, <2>2, <2>4 DEF Invariant, RequestInv, CommitReady, Changes, CurrentVersion
    <2>8. OneCommitter'
      BY <2>1, <2>4 DEF Invariant, RequestInv, OneCommitter, Changes, RowFree
    <2>9. WriteReady'
      BY <1>1, <2>4 DEF Invariant, RequestInv, WriteReady, Changes
    <2>10. PlacesInv'
      <3>1. ASSUME NEW s \in req[r].ids PROVE DecidedIn(log, s, GroupsRead(r)[s])
        BY <2>2 DEF GroupsRead, Invariant, PlacesInv, Places
      <3>2. \A s \in req[r].ids : DecidedIn(log', s, req'[r].before[s])
        BY <1>1, <2>4, <3>1 DEF DecidedIn
      <3>3. \A q \in Request : q # r => req'[q] = req[q]
        BY <2>4 DEF Changes
      <3> QED
        BY <1>1, <2>4, <3>2, <3>3 DEF Invariant, PlacesInv, Places, DecidedIn
    <2> QED
      BY <1>1, <2>5, <2>6, <2>7, <2>8, <2>9, <2>10, RowsKept DEF Invariant, RequestInv
  <1> QED
    BY <1>2, <1>3

LEMMA GroupCommitStep ==
  ASSUME Invariant, NEW r \in Request, GroupCommit(r)
  PROVE  Invariant'
  <1> DEFINE q == req[r]
             e == [op |-> q.op, on |-> q.on, ids |-> q.ids, key |-> q.key,
                   version |-> q.expected + 1, before |-> q.before]
  <1>1. /\ q \in GroupCommand /\ q.pc = "commit"
        /\ UNCHANGED <<holds, delLog, noted, imp, changes>>
    BY Kinds DEF GroupCommit, At, Invariant, TypeOK
  <1>2. CASE \E a \in log : a.key = q.key
    <2>1. End(r, "refused") /\ UNCHANGED <<row, group, log>>
      BY <1>2 DEF GroupCommit, RolledBack
    <2> QED
      BY <1>1, <2>1, EndPlain, OnlyMoves DEF Invariant, Outcomes
  <1>3. CASE ~\E a \in log : a.key = q.key
    <2>1. /\ group' = Regrouped(r)
          /\ row' = [row EXCEPT ![q.on].version = q.expected + 1]
          /\ log' = log \cup {e}
          /\ End(r, "applied")
      BY <1>3 DEF GroupCommit
    <2>2. Plain(r)
      BY <2>1, EndPlain DEF Invariant, Outcomes
    <2>3. /\ q.before \in [q.ids -> Conversation] /\ q.expected = row[q.on].version
          /\ q.op = "unmerge" => q.undo \in log /\ q.undo.ids = q.ids
      BY <1>1 DEF Invariant, RequestInv, CommitReady, UndoKnown
    <2>4. /\ q.op \in Grouping /\ q.on \in Conversation /\ q.ids \subseteq Conversation
          /\ q.key \in GroupKey /\ q.expected \in Nat
      BY <1>1 DEF GroupCommand
    <2>5. \A s \in Conversation :
            group'[s] = IF s \notin q.ids \/ (q.op = "merge" /\ q.before[s] = q.on) THEN group[s]
                        ELSE IF q.op = "merge" THEN q.on ELSE q.undo.before[s]
      BY <2>1 DEF Regrouped
    <2> HIDE DEF q
    <2>6. group' \in [Conversation -> Conversation]
      <3>1. ASSUME NEW s \in Conversation PROVE group'[s] \in Conversation
        <4>1. CASE s \in q.ids /\ q.op = "unmerge"
          BY <2>3, <2>5, <4>1 DEF Invariant, TypeOK
        <4>2. CASE s \notin q.ids \/ q.op # "unmerge"
          BY <2>4, <2>5, <4>2 DEF Invariant, TypeOK, Grouping
        <4> QED
          BY <4>1, <4>2
      <3>2. DOMAIN group' = Conversation /\ group' = [s \in Conversation |-> group'[s]]
        BY <2>1 DEF Regrouped
      <3> QED
        BY <3>1, <3>2
    <2>7. e \in GroupEntry /\ e.before \in [e.ids -> Conversation]
      BY <2>3, <2>4 DEF GroupEntry, Snapshots
    <2>9. /\ row' \in [Conversation -> Rows]
          /\ \A c \in Conversation :
               /\ row'[c].vis = row[c].vis /\ row'[c].mcp = row[c].mcp
               /\ row'[c].deleted = row[c].deleted /\ row'[c].delVersion = row[c].delVersion
               /\ row'[c].version = IF c = q.on THEN row[c].version + 1 ELSE row[c].version
      <3>1. row \in [Conversation -> Rows] /\ q.expected + 1 \in Nat
        BY <2>4 DEF Invariant, TypeOK
      <3>2. row' = [row EXCEPT ![q.on].version = q.expected + 1]
        BY <2>1
      <3>3. /\ row' \in [Conversation -> Rows]
            /\ row'[q.on].version = q.expected + 1
            /\ row'[q.on].vis = row[q.on].vis /\ row'[q.on].mcp = row[q.on].mcp
            /\ row'[q.on].deleted = row[q.on].deleted
            /\ row'[q.on].delVersion = row[q.on].delVersion
            /\ \A d \in Conversation : d # q.on => row'[d] = row[d]
        BY <2>4, <3>1, <3>2, VersionWritten
      <3> QED
        BY <2>3, <3>3
    <2>10. TypeOK'
      <3>1. log' \subseteq GroupEntry /\ \A a \in log' : a.before \in [a.ids -> Conversation]
        BY <2>1, <2>7 DEF Invariant, TypeOK
      <3> QED
        BY <1>1, <2>2, <2>6, <2>9, <3>1 DEF Invariant, TypeOK, Plain, Changes
    <2>11. RequestInv'
      <3>1. \A p \in Request : p # r /\ req[p].pc = "commit" => req[p].on # q.on
        BY <1>1 DEF q, Invariant, RequestInv, OneCommitter
      <3>2. \A p \in Request : req[p].pc = "commit" => req[p].on \in Conversation
        BY Kinds DEF Invariant, TypeOK, GroupCommand
      <3> QED
        BY <1>1, <2>1, <2>2, <2>9, <3>1, <3>2, PlainStep DEF Invariant
    <2>12. \A c \in Conversation : Explained(c, log', row'[c].version)
      <3>1. e.on = q.on /\ e.version = row[q.on].version + 1
        BY <2>3
      <3> HIDE DEF e
      <3>2. ASSUME NEW c \in Conversation PROVE Explained(c, log', row'[c].version)
        <4>1. Explained(c, log, row[c].version) /\ row[c].version \in Nat
          BY DEF Invariant, LogInv, TypeOK, Rows
        <4>2. CASE c = q.on
          BY <2>1, <2>9, <3>1, <4>1, <4>2, ExplainedGrows
        <4>3. CASE c # q.on
          BY <2>1, <2>9, <3>1, <4>1, <4>3, ExplainedElsewhere
        <4> QED
          BY <4>2, <4>3
      <3> QED
        BY <3>2
    <2>13. LogInv'
      <3>1. \A a \in delLog : a.on \in Conversation
        BY DEF Invariant, TypeOK, DeletionEntry
      <3> QED
        BY <1>1, <2>9, <2>12, <3>1 DEF Invariant, LogInv
    <2>14. Noted'
      BY <1>1, <2>9 DEF Invariant, Noted
    <2>15. PlacesInv'
      <3>1. e.op = q.op /\ e.on = q.on /\ e.ids = q.ids /\ e.before = q.before
        OBVIOUS
      <3> HIDE DEF e
      <3>2. \A s, c : DecidedIn(log, s, c) => DecidedIn(log', s, c)
        BY <2>1 DEF DecidedIn
      <3>3. \A s \in q.ids : DecidedIn(log, s, q.before[s])
        BY <1>1 DEF q, Invariant, PlacesInv
      <3>4. ASSUME NEW s \in Conversation PROVE DecidedIn(log', s, group'[s])
        <4>1. DecidedIn(log, s, group[s])
          BY DEF Invariant, PlacesInv, Places
        <4>2. CASE s \in q.ids /\ q.op = "merge" /\ q.before[s] # q.on
          BY <2>1, <2>5, <3>1, <4>2 DEF DecidedIn
        <4>3. CASE s \in q.ids /\ q.op = "unmerge"
          <5>1. DecidedIn(log, s, q.undo.before[s])
            BY <2>3, <4>3 DEF Invariant, PlacesInv
          <5> QED
            BY <2>5, <3>2, <4>3, <5>1
        <4>4. CASE s \notin q.ids \/ (q.op = "merge" /\ q.before[s] = q.on)
          BY <2>5, <3>2, <4>1, <4>4
        <4> QED
          BY <2>4, <4>2, <4>3, <4>4 DEF Grouping
      <3>5. \A s \in Conversation : \A c \in Places(s)' : DecidedIn(log', s, c)
        BY <1>1, <3>2, <3>4 DEF Invariant, PlacesInv, Places
      <3>6. \A a \in log' : \A s \in a.ids : DecidedIn(log', s, a.before[s])
        BY <2>1, <3>1, <3>2, <3>3 DEF Invariant, PlacesInv
      <3>7. \A p \in Request : req'[p].pc = "commit"
              => \A s \in req'[p].ids : DecidedIn(log', s, req'[p].before[s])
        BY <2>2, <3>2 DEF Invariant, PlacesInv, Plain, Changes
      <3> QED
        BY <3>5, <3>6, <3>7 DEF PlacesInv
    <2> QED
      BY <2>10, <2>11, <2>13, <2>14, <2>15 DEF Invariant
  <1> QED
    BY <1>2, <1>3
-----------------------------------------------------------------------------
(***************************************************************************)
(* Policies.                                                               *)
(***************************************************************************)
LEMMA PolicyReadStep ==
  ASSUME Invariant, NEW r \in Request, PolicyRead(r)
  PROVE  Invariant'
  <1> DEFINE q == req[r]
             now == row[q.on]
             seen == [vis |-> now.vis, mcp |-> now.mcp]
             x == [q EXCEPT !.pc = "write", !.seen = seen,
                     !.vis = Merged(q.vis, now.vis), !.mcp = Merged(q.mcp, now.mcp)]
  <1>1. /\ q \in PolicyCommand
        /\ UNCHANGED <<row, group, holds, log, delLog, noted, imp, changes>>
    BY Kinds DEF PolicyRead, At, Invariant, TypeOK
  <1>2. q.on \in Conversation /\ q.vis \in Visibility \cup {None} /\ q.mcp \in Disclosure \cup {None}
    BY <1>1 DEF PolicyCommand
  <1>3. now.vis \in Visibility /\ now.mcp \in Disclosure
    BY <1>2 DEF Invariant, TypeOK, Rows
  <1>4. Merged(q.vis, now.vis) \in Visibility /\ Merged(q.mcp, now.mcp) \in Disclosure
    BY <1>2, <1>3 DEF Merged
  <1>5. req' = [req EXCEPT ![r] = x]
    BY DEF PolicyRead
  <1>6. /\ x \in PolicyCommand /\ x.pc = "write" /\ x.op = "policy" /\ x.on = q.on
        /\ x.seen.vis = now.vis /\ x.seen.mcp = now.mcp
        /\ x.vis \in Visibility /\ x.mcp \in Disclosure
    BY <1>1, <1>3, <1>4 DEF PolicyCommand
  <1> HIDE DEF x, now, q
  <1>7. Becomes(r, x)
    BY <1>5, <1>6, Replaced DEF Invariant, TypeOK, Commands
  <1>8. TypeOK'
    BY <1>1, <1>7, TypesKept DEF Invariant, TypeOK, Becomes, Changes
  <1>9. UndoKnown'
    BY <1>1, <1>6, <1>7 DEF Invariant, RequestInv, UndoKnown, Becomes, Changes
  <1>10. CommitReady'
    BY <1>1, <1>6, <1>7 DEF Invariant, RequestInv, CommitReady, Becomes, Changes
  <1>11. OneCommitter'
    BY <1>6, <1>7 DEF Invariant, RequestInv, OneCommitter, Becomes, Changes
  <1>12. /\ now.vis # "normal" => <<q.on, "vis">> \in noted
         /\ now.mcp # "allowed" => <<q.on, "mcp">> \in noted
    BY <1>2 DEF Invariant, Noted, now
  <1>13. WriteReady'
    BY <1>1, <1>6, <1>7, <1>12 DEF Invariant, RequestInv, WriteReady, Becomes, Changes
  <1>14. PlacesInv'
    BY <1>1, <1>6, <1>7, PlacesKept DEF Invariant, Becomes, Changes
  <1> QED
    BY <1>1, <1>8, <1>9, <1>10, <1>11, <1>13, <1>14, RowsKept DEF Invariant, RequestInv

LEMMA PolicyWriteStep ==
  ASSUME Invariant, NEW r \in Request, PolicyWrite(r)
  PROVE  Invariant'
  <1> DEFINE q == req[r]
             added == {<<q.on, f>> : f \in {g \in {"vis", "mcp"} : q[g] # q.seen[g]}}
  <1>1. /\ q \in PolicyCommand /\ q.pc = "write" /\ RowFree(r, q.on) /\ changes < MaxPolicies
        /\ row' = [row EXCEPT ![q.on].vis = q.vis, ![q.on].mcp = q.mcp]
        /\ noted' = noted \cup added /\ changes' = changes + 1 /\ End(r, "applied")
        /\ UNCHANGED <<group, holds, log, delLog, imp>>
    BY Kinds DEF PolicyWrite, At, Invariant, TypeOK
  <1>2. q.on \in Conversation
    BY <1>1 DEF PolicyCommand
  <1>3. /\ q.vis \in Visibility /\ q.mcp \in Disclosure
        /\ q.vis # "normal" /\ q.vis = q.seen.vis => <<q.on, "vis">> \in noted
        /\ q.mcp # "allowed" /\ q.mcp = q.seen.mcp => <<q.on, "mcp">> \in noted
    BY <1>1 DEF Invariant, RequestInv, WriteReady
  <1>4. /\ row' \in [Conversation -> Rows]
        /\ row'[q.on].vis = q.vis /\ row'[q.on].mcp = q.mcp
        /\ \A c \in Conversation :
             /\ row'[c].version = row[c].version /\ row'[c].delVersion = row[c].delVersion
             /\ row'[c].deleted = row[c].deleted
             /\ c # q.on => row'[c] = row[c]
    <2> HIDE DEF q
    <2> DEFINE x == row[q.on]
               v == q.vis
               m == q.mcp
               y == [x EXCEPT !.vis = v, !.mcp = m]
    <2>1. row' = [row EXCEPT ![q.on] = y]
      BY <1>1
    <2>2. x \in Rows /\ v \in Visibility /\ m \in Disclosure
      BY <1>2, <1>3 DEF Invariant, TypeOK
    <2> HIDE DEF x, v, m
    <2>3. /\ y \in Rows /\ y.vis = v /\ y.mcp = m /\ y.version = x.version
          /\ y.deleted = x.deleted /\ y.delVersion = x.delVersion
      BY <2>2 DEF Rows
    <2> HIDE DEF y
    <2> QED
      BY <1>2, <2>1, <2>3 DEF Invariant, TypeOK, x, v, m
  <1>5. /\ q.vis # q.seen.vis => <<q.on, "vis">> \in added
        /\ q.mcp # q.seen.mcp => <<q.on, "mcp">> \in added
        /\ added \subseteq Conversation \X {"vis", "mcp"}
    BY <1>2
  <1> HIDE DEF q, added
  <1>6. Plain(r)
    BY <1>1, EndPlain DEF Invariant, Outcomes
  <1>7. TypeOK'
    <2>1. noted' \subseteq Conversation \X {"vis", "mcp"}
      BY <1>1, <1>5 DEF Invariant, TypeOK
    <2>2. changes' \in 0 .. MaxPolicies
      BY <1>1, CurationAssumption DEF Invariant, TypeOK
    <2> QED
      BY <1>1, <1>4, <1>6, <2>1, <2>2 DEF Invariant, TypeOK, Plain, Changes
  <1>8. RequestInv'
    <2>1. \A p \in Request : req[p].pc = "commit" => req[p].on \in Conversation
      BY Kinds DEF Invariant, TypeOK, GroupCommand
    <2> QED
      BY <1>1, <1>4, <1>6, <2>1, PlainStep DEF Invariant
  <1>9. LogInv'
    <2>1. \A a \in delLog : a.on \in Conversation
      BY DEF Invariant, TypeOK, DeletionEntry
    <2> QED
      BY <1>1, <1>4, <2>1 DEF Invariant, LogInv
  <1>10. Noted'
    BY <1>1, <1>3, <1>4, <1>5 DEF Invariant, Noted
  <1>11. PlacesInv'
    BY <1>1, <1>6, PlacesKept DEF Invariant, Plain, Changes
  <1> QED
    BY <1>7, <1>8, <1>9, <1>10, <1>11 DEF Invariant

-----------------------------------------------------------------------------
(***************************************************************************)
(* Owner deletion.                                                         *)
(***************************************************************************)
LEMMA DeleteCommitStep ==
  ASSUME Invariant, NEW r \in Request, DeleteCommit(r)
  PROVE  Invariant'
  <1> DEFINE q == req[r]
             n == row[q.on].delVersion + 1
             e == [op |-> q.op, on |-> q.on, key |-> q.key, version |-> n]
  <1>1. /\ q \in DeletionCommand /\ q.op \in Deletion
        /\ UNCHANGED <<group, holds, log, noted, imp, changes>>
    BY Kinds DEF DeleteCommit, At, Invariant, TypeOK
  <1>2. CASE q.expected \notin {None, row[q.on].delVersion} \/ \E a \in delLog : a.key = q.key
    <2>1. Goto(r, "failed") /\ UNCHANGED <<row, delLog>>
      BY <1>2 DEF DeleteCommit
    <2>2. Plain(r)
      BY <1>1, <2>1, DeletionPlain DEF Invariant
    <2> QED
      BY <1>1, <2>1, <2>2, OnlyMoves
  <1>3. CASE ~(q.expected \notin {None, row[q.on].delVersion} \/ \E a \in delLog : a.key = q.key)
    <2>1. /\ row' = [row EXCEPT ![q.on].deleted = (q.op = "delete"), ![q.on].delVersion = n]
          /\ delLog' = delLog \cup {e} /\ End(r, "applied")
          /\ \A a \in delLog : a.key # q.key
      BY <1>3 DEF DeleteCommit
    <2>2. q.on \in Conversation /\ q.key \in DeleteKey
      BY <1>1 DEF DeletionCommand
    <2>3. n \in Nat /\ row[q.on].delVersion \in Nat
      BY <2>2 DEF Invariant, TypeOK, Rows
    <2> HIDE DEF q
    <2>4. /\ row' \in [Conversation -> Rows]
          /\ row'[q.on].deleted = (q.op = "delete") /\ row'[q.on].delVersion = n
          /\ \A c \in Conversation :
               /\ row'[c].vis = row[c].vis /\ row'[c].mcp = row[c].mcp
               /\ row'[c].version = row[c].version
               /\ c # q.on => row'[c] = row[c]
      <3> DEFINE b == (q.op = "delete")
      <3>1. b \in BOOLEAN /\ row' = [row EXCEPT ![q.on].deleted = b, ![q.on].delVersion = n]
        BY <2>1
      <3> HIDE DEF b, n
      <3>2. /\ row' \in [Conversation -> Rows]
            /\ row'[q.on].deleted = b /\ row'[q.on].delVersion = n
            /\ row'[q.on].version = row[q.on].version
            /\ row'[q.on].vis = row[q.on].vis /\ row'[q.on].mcp = row[q.on].mcp
            /\ \A d \in Conversation : d # q.on => row'[d] = row[d]
        BY <2>2, <2>3, <3>1, DeletionWritten DEF Invariant, TypeOK
      <3> QED
        BY <3>2 DEF b
    <2>5. /\ e \in DeletionEntry /\ e.on = q.on /\ e.key = q.key /\ e.op = q.op
          /\ e.version = row[q.on].delVersion + 1
      BY <1>1, <2>2, <2>3 DEF DeletionEntry
    <2>6. row'[q.on].delVersion = row[q.on].delVersion + 1
      BY <2>4
    <2> HIDE DEF e, n
    <2>7. Plain(r)
      BY <2>1, EndPlain DEF Invariant, Outcomes
    <2>8. TypeOK'
      BY <1>1, <2>1, <2>4, <2>5, <2>7 DEF Invariant, TypeOK, Plain, Changes
    <2>9. RequestInv'
      <3>1. \A p \in Request : req[p].pc = "commit" => req[p].on \in Conversation
        BY Kinds DEF Invariant, TypeOK, GroupCommand
      <3> QED
        BY <1>1, <2>4, <2>7, <3>1, PlainStep DEF Invariant
    <2>10. \A c \in Conversation : Explained(c, log', row'[c].version)
      BY <1>1, <2>4 DEF Invariant, LogInv
    <2>11. ASSUME NEW c \in Conversation PROVE Explained(c, delLog', row'[c].delVersion)
      <3>1. Explained(c, delLog, row[c].delVersion) /\ row[c].delVersion \in Nat
        BY DEF Invariant, LogInv, TypeOK, Rows
      <3>2. CASE c = q.on
        BY <2>1, <2>5, <2>6, <3>1, <3>2, ExplainedGrows
      <3>3. CASE c # q.on
        BY <2>1, <2>4, <2>5, <3>1, <3>3, ExplainedElsewhere
      <3> QED
        BY <3>2, <3>3
    <2>12. \A a, b \in delLog' : a.key = b.key => a = b
      BY <2>1, <2>5 DEF Invariant, LogInv
    <2>13. ASSUME NEW a \in delLog', a.version = row'[a.on].delVersion
           PROVE  row'[a.on].deleted = (a.op = "delete")
      <3>1. CASE a = e
        BY <2>4, <2>5, <3>1
      <3>2. CASE a \in delLog /\ a.on # q.on
        <4>1. a.on \in Conversation
          BY <3>2 DEF Invariant, TypeOK, DeletionEntry
        <4> QED
          BY <2>4, <2>13, <3>2, <4>1 DEF Invariant, LogInv
      <3>3. CASE a \in delLog /\ a.on = q.on
        <4>1. Explained(q.on, delLog, row[q.on].delVersion)
          BY <2>2 DEF Invariant, LogInv
        <4>2. a.version \in 1 .. row[q.on].delVersion
          BY <3>3, <4>1 DEF Explained
        <4> QED
          BY <2>3, <2>6, <2>13, <3>3, <4>2
      <3> QED
        BY <2>1, <2>13, <3>1, <3>2, <3>3
    <2>14. LogInv'
      BY <2>10, <2>11, <2>12, <2>13 DEF LogInv
    <2>15. Noted'
      BY <1>1, <2>4 DEF Invariant, Noted
    <2>16. PlacesInv'
      BY <1>1, <2>7, PlacesKept DEF Invariant, Plain, Changes
    <2> QED
      BY <2>8, <2>9, <2>14, <2>15, <2>16 DEF Invariant
  <1> QED
    BY <1>2, <1>3

-----------------------------------------------------------------------------
(***************************************************************************)
(* The import, and the whole.                                              *)
(***************************************************************************)
LEMMA ImportStep ==
  ASSUME Invariant, NEW s \in Conversation, ImportRead(s) \/ ImportWrite(s)
  PROVE  Invariant'
  <1>1. UNCHANGED <<row, log, delLog, noted, req, changes>>
    BY DEF ImportRead, ImportWrite
  <1>2. TypeOK'
    <2>1. CASE ImportRead(s)
      BY <1>1, <2>1 DEF ImportRead, Invariant, TypeOK
    <2>2. CASE ImportWrite(s)
      <3>1. imp[s] \in Conversation
        BY <2>2 DEF ImportWrite, Invariant, TypeOK
      <3>2. /\ group' \in [Conversation -> Conversation]
            /\ imp' \in [Conversation -> Conversation \cup {None}]
        BY <2>2, <3>1 DEF ImportWrite, Invariant, TypeOK
      <3>3. holds' \in [Conversation -> SUBSET Conversation]
        BY <2>2, <3>1 DEF ImportWrite, Invariant, TypeOK
      <3> QED
        BY <1>1, <3>2, <3>3 DEF Invariant, TypeOK
    <2> QED
      BY <2>1, <2>2
  <1>3. RequestInv'
    BY <1>1 DEF Invariant, RequestInv, UndoKnown, CommitReady, OneCommitter, WriteReady
  <1>4. PlacesInv'
    <2>1. \A t \in Conversation : Places(t)' \subseteq Places(t)
      BY DEF ImportRead, ImportWrite, Invariant, TypeOK, Places
    <2> QED
      BY <1>1, <2>1 DEF Invariant, PlacesInv, DecidedIn
  <1> QED
    BY <1>1, <1>2, <1>3, <1>4, RowsKept DEF Invariant

LEMMA InvariantInit == Init => Invariant
  <1> SUFFICES ASSUME Init PROVE Invariant
    OBVIOUS
  <1>1. TypeOK
    <2>1. req \in [Request -> Commands]
      BY DEF Init, Idle, Commands, Ended
    <2>2. row \in [Conversation -> Rows]
      BY DEF Init, Rows, Visibility, Disclosure
    <2> QED
      BY <2>1, <2>2, CurationAssumption DEF Init, TypeOK
  <1>2. RequestInv
    BY DEF Init, Idle, RequestInv, UndoKnown, CommitReady, OneCommitter, WriteReady
  <1>3. LogInv
    BY DEF Init, LogInv, Explained
  <1>4. Noted
    BY DEF Init, Noted
  <1>5. PlacesInv
    BY DEF Init, Idle, PlacesInv, Places, DecidedIn
  <1> QED
    BY <1>1, <1>2, <1>3, <1>4, <1>5 DEF Invariant

LEMMA InvariantStep == Invariant /\ [Next]_vars => Invariant'
  <1> SUFFICES ASSUME Invariant, [Next]_vars PROVE Invariant'
    OBVIOUS
  <1>1. ASSUME NEW r \in Request,
               \/ AskGroup(r) \/ AskPolicy(r) \/ AskDeletion(r) \/ GroupLookup(r)
               \/ DeleteLookup(r) \/ DeleteFailed(r) \/ Abort(r)
        PROVE  Invariant'
    BY <1>1, AskPlain, LookupPlain, OnlyMoves DEF Invariant
  <1>2. ASSUME NEW r \in Request,
               \/ GroupRead(r) \/ GroupCommit(r) \/ PolicyRead(r) \/ PolicyWrite(r)
               \/ DeleteCommit(r)
        PROVE  Invariant'
    BY <1>2, GroupReadStep, GroupCommitStep, PolicyReadStep, PolicyWriteStep, DeleteCommitStep
  <1>3. CASE UNCHANGED vars
    BY <1>3, RowsKept DEF vars, Invariant, TypeOK, RequestInv, UndoKnown, CommitReady,
                          OneCommitter, WriteReady, PlacesInv, Places, DecidedIn
  <1> QED
    BY <1>1, <1>2, <1>3, ImportStep DEF Next

LEMMA InvariantAlways == Spec => []Invariant
  BY InvariantInit, InvariantStep, PTL DEF Spec
-----------------------------------------------------------------------------
(***************************************************************************)
(* The results.                                                            *)
(***************************************************************************)

(* Every variable keeps its type, and an audited grouping says where each  *)
(* of its chats was: what a reversal relies on.                            *)
THEOREM TypeCorrect == Spec => []TypeOK
  BY InvariantAlways, PTL DEF Invariant

(* A log that explains the versions up to n has n entries for the conversation. *)
LEMMA OneEntryPerVersion ==
  ASSUME NEW c, NEW entries, NEW n \in Nat, Explained(c, entries, n)
  PROVE  /\ {a.version : a \in {b \in entries : b.on = c}} = 1 .. n
         /\ Cardinality({b \in entries : b.on = c}) = n
  <1> DEFINE S == {b \in entries : b.on = c}
             f == [k \in 1 .. n |-> CHOOSE a \in S : a.version = k]
  <1>1. \A k \in 1 .. n : f[k] \in S /\ f[k].version = k
    BY DEF Explained
  <1>2. \A a \in S : a.version \in 1 .. n /\ f[a.version] = a
    <2>1. \A a \in S : a.version \in 1 .. n
      BY DEF Explained
    <2> HIDE DEF f
    <2>2. ASSUME NEW a \in S PROVE f[a.version] = a
      BY <1>1, <2>1 DEF Explained
    <2> QED
      BY <2>1, <2>2
  <1>3. f \in [1 .. n -> S]
    BY <1>1
  <1> HIDE DEF f
  <1>4. {a.version : a \in S} = 1 .. n
    BY <1>1, <1>2
  <1>5. f \in Bijection(1 .. n, S)
    <2>1. f \in Injection(1 .. n, S)
      BY <1>1, <1>3 DEF Injection, IsInjective
    <2>2. f \in Surjection(1 .. n, S)
      BY <1>2, <1>3 DEF Surjection
    <2> QED
      BY <2>1, <2>2 DEF Bijection
  <1>6. Cardinality(S) = n
    BY <1>5, FS_CountingElements DEF ExistsBijection
  <1> QED
    BY <1>4, <1>6

(* The versions of a conversation are those of its audited decisions, one   *)
(* each; deletions and policies are what the audit says: the version check  *)
(* of conversation-grouping.ts and the keys of owner-deletion.ts, for any   *)
(* number of requests that use the same keys on the same conversations.     *)
THEOREM AuditExplainsState == Spec => []LogExplainsState
  <1>1. Invariant => LogExplainsState
    <2> SUFFICES ASSUME Invariant, NEW c \in Conversation
                 PROVE  /\ {a.version : a \in {b \in log : b.on = c}} = 1..row[c].version
                        /\ Cardinality({b \in log : b.on = c}) = row[c].version
                        /\ {a.version : a \in {b \in delLog : b.on = c}} = 1..row[c].delVersion
                        /\ \A a \in delLog : a.on = c /\ a.version = row[c].delVersion
                                              => row[c].deleted = (a.op = "delete")
                        /\ row[c].vis # "normal" => <<c, "vis">> \in noted
                        /\ row[c].mcp # "allowed" => <<c, "mcp">> \in noted
      BY DEF LogExplainsState
    <2>1. row[c].version \in Nat /\ row[c].delVersion \in Nat
      BY DEF Invariant, TypeOK, Rows
    <2>2. Explained(c, log, row[c].version) /\ Explained(c, delLog, row[c].delVersion)
      BY DEF Invariant, LogInv
    <2>3. /\ {a.version : a \in {b \in log : b.on = c}} = 1..row[c].version
          /\ Cardinality({b \in log : b.on = c}) = row[c].version
      BY <2>1, <2>2, OneEntryPerVersion
    <2>4. {a.version : a \in {b \in delLog : b.on = c}} = 1..row[c].delVersion
      BY <2>1, <2>2, OneEntryPerVersion
    <2>5. \A a \in delLog : a.on = c /\ a.version = row[c].delVersion
                             => row[c].deleted = (a.op = "delete")
      BY DEF Invariant, LogInv
    <2>6. /\ row[c].vis # "normal" => <<c, "vis">> \in noted
          /\ row[c].mcp # "allowed" => <<c, "mcp">> \in noted
      BY DEF Invariant, Noted
    <2> QED
      BY <2>3, <2>4, <2>5, <2>6
  <1> QED
    BY <1>1, InvariantAlways, PTL

(* No chat is listed or written to where no recorded merge put it: rolled    *)
(* back merges, reversals of whatever merge and imports that read the group  *)
(* before either of them leave nothing elsewhere, for any number of them.    *)
THEOREM ChatsAreWhereDecided == Spec => []ChatsWhereDecided
  <1>1. Invariant => ChatsWhereDecided
    BY DEF Invariant, PlacesInv, Places, ChatsWhereDecided, Decided, DecidedIn
  <1> QED
    BY <1>1, InvariantAlways, PTL

(* A deletion whose key is recorded for the same command can only end as     *)
(* replayed: a retry is answered with the recorded result, also when its     *)
(* first attempt commits between the retry's look-ups or in its transaction. *)
THEOREM RetriesAreAnswered == Spec => RetriedDeletionAnswered
  <1> DEFINE Known(r, a) == req[r].op \in Deletion /\ req[r].key = a.key /\ SameCommand(r, a)
  <1>1. ASSUME Invariant, [Next]_vars, NEW r \in Request, NEW a \in delLog, Known(r, a),
               req'[r].pc = "idle"
        PROVE  req'[r].out = "replayed"
    <2>1. req \in [Request -> Commands] /\ req[r] \in DeletionCommand /\ req[r].pc # "idle"
      BY <1>1, Kinds DEF Invariant, TypeOK, DeletionCommand
    <2>2. ASSUME NEW out \in Outcomes, End(r, out)
          PROVE  req'[r].out = out
      BY <2>1, <2>2, Ends
    <2>3. ASSUME NEW pc \in {"start", "tx", "lock", "failed"}
          PROVE  ~Goto(r, pc)
      BY <1>1, <2>1, DeletionGoesOn
    <2>4. ASSUME NEW otherwise, Replay(r, otherwise)
          PROVE  End(r, "replayed")
      <3>1. \A b \in delLog : b.key = req[r].key => b = a
        BY <1>1 DEF Invariant, LogInv
      <3> QED
        BY <1>1, <2>4, <3>1 DEF Replay
    <2>5. req'[r] # req[r]
      BY <1>1, <2>1
    <2>6. req[r].op \notin Grouping \cup {"policy"}
      BY <1>1 DEF Deletion, Grouping
    <2>7. ~ \E p \in Request \ {r} : \/ AskGroup(p) \/ AskPolicy(p) \/ AskDeletion(p)
                                     \/ GroupLookup(p) \/ DeleteLookup(p) \/ DeleteFailed(p)
                                     \/ Abort(p)
      BY <1>1, <2>5, AskPlain, LookupPlain DEF Plain, Changes, Invariant
    <2>8. ~ \E p \in Request \ {r} : \/ GroupRead(p) \/ GroupCommit(p)
                                     \/ PolicyRead(p) \/ PolicyWrite(p)
                                     \/ DeleteCommit(p)
      BY <2>1, <2>5 DEF GroupRead, GroupCommit, RolledBack, PolicyRead, PolicyWrite,
                        DeleteCommit, End, Goto
    <2>9. ~ (AskGroup(r) \/ AskPolicy(r) \/ AskDeletion(r))
      BY <2>1 DEF AskGroup, AskPolicy, AskDeletion, Submit
    <2>10. ~ (GroupLookup(r) \/ GroupRead(r) \/ GroupCommit(r) \/ PolicyRead(r) \/ PolicyWrite(r))
      BY <2>6 DEF GroupLookup, GroupRead, GroupCommit, PolicyRead, PolicyWrite, At
    <2>11. CASE DeleteLookup(r)
      BY <2>2, <2>4, <2>11 DEF DeleteLookup, Outcomes
    <2>12. CASE DeleteFailed(r)
      BY <2>2, <2>4, <2>12 DEF DeleteFailed, AfterFailure, Outcomes
    <2>13. ~ (DeleteCommit(r) \/ Abort(r))
      BY <1>1, <2>3 DEF DeleteCommit, Abort
    <2>14. ~ \E s \in Conversation : ImportRead(s) \/ ImportWrite(s)
      BY <2>5 DEF ImportRead, ImportWrite
    <2>15. ~ UNCHANGED vars
      BY <2>5 DEF vars
    <2> QED
      BY <1>1, <2>7, <2>8, <2>9, <2>10, <2>11, <2>12, <2>13, <2>14, <2>15 DEF Next
  <1>2. ASSUME Invariant, [Next]_vars
        PROVE  [\A r \in Request, a \in delLog :
                  (req[r].op \in Deletion /\ req[r].key = a.key /\ SameCommand(r, a)
                     /\ req'[r].pc = "idle") => req'[r].out = "replayed"]_vars
    BY <1>1, <1>2
  <1> QED
    BY <1>2, InvariantAlways, PTL DEF Spec, RetriedDeletionAnswered
=============================================================================
