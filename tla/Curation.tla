------------------------------- MODULE Curation -------------------------------
(***************************************************************************)
(* What the owner does to conversations, and who may read them then:       *)
(* grouping of source chats under one conversation with its reversal       *)
(* (db/conversation-grouping.ts), the privacy policy of a conversation     *)
(* (db/prisma-persistence.ts), owner deletion (db/owner-deletion.ts), the  *)
(* import that keeps adding messages meanwhile (db/text-import.ts), and    *)
(* the predicates every read is filtered by (db/ui-privacy.ts).            *)
(*                                                                         *)
(* A chat is named after the conversation its first import created, so     *)
(* Conversation serves for both.  Transactions run under READ COMMITTED: a *)
(* step reads what is committed then, a commit publishes all its writes,   *)
(* and whoever holds a conversation row makes the others wait.             *)
(***************************************************************************)
EXTENDS Naturals, FiniteSets

CONSTANTS Conversation, Request,
          GroupKey, DeleteKey,   \* idempotency keys of the two kinds of command
          MaxPolicies,           \* bound on policy changes
          Mixes,                 \* the operations a behaviour consists of; with
                                 \* "alone", one request at a time
          None

ASSUME CurationAssumption ==
    /\ MaxPolicies \in Nat /\ None \notin Conversation \cup GroupKey \cup DeleteKey

VARIABLES row,     \* Conversation: policy, groupingVersion, owner deletion
          group,   \* SourceConversation.unifiedConversationId of each chat
          holds,   \* the conversations that messages of a chat were written to
          log,     \* ConversationMergeAudit
          delLog,  \* OwnerDeletionAudit
          noted,   \* ConversationPrivacyAudit: <<conversation, action>>
          req,     \* the owner's requests in progress
          imp,     \* the conversation an import resolved a chat to
          changes,
          mix      \* the operations this behaviour interleaves

vars == <<row, group, holds, log, delLog, noted, req, imp, changes, mix>>

Idle == [op |-> "none", pc |-> "idle", out |-> "none"]
Init ==
    /\ row = [c \in Conversation |-> [vis |-> "normal", mcp |-> "allowed", version |-> 0,
                                      deleted |-> FALSE, delVersion |-> 0]]
    /\ group = [s \in Conversation |-> s] /\ holds = [s \in Conversation |-> {s}]
    /\ log = {} /\ delLog = {} /\ noted = {} /\ changes = 0
    /\ req = [r \in Request |-> Idle] /\ imp = [s \in Conversation |-> None]
    /\ mix \in Mixes

-----------------------------------------------------------------------------
(* Disclosure.  A conversation is presented under the group of some chat   *)
(* that wrote to it (the query takes any one), and a group is bound by the *)
(* policy of every conversation its chats wrote to.                        *)
Presentation(c) ==
    LET writers == {s \in Conversation : c \in holds[s]}
    IN  IF writers = {} THEN {c} ELSE {group[s] : s \in writers}
PolicyGroup(g) == {g} \cup UNION {holds[s] : s \in {t \in Conversation : group[t] = g}}

Rank(c)          == IF row[c].vis = "locked" THEN 2 ELSE IF row[c].vis = "hidden" THEN 1 ELSE 0
OrdinaryReads(c) == \E g \in Presentation(c) : \A p \in PolicyGroup(g) : Rank(p) = 0
McpReads(c)      == \E g \in Presentation(c) : \A p \in PolicyGroup(g) : row[p].mcp = "allowed"

(* Grouping refuses hidden groups, and locked ones without a step-up.      *)
MayGroup(g, granted) ==
    \A p \in PolicyGroup(g) : Rank(p) = 0 \/ (Rank(p) = 2 /\ p \in granted)

-----------------------------------------------------------------------------
(* Requests.                                                               *)

At(r, ops, pc)   == req[r].op \in ops /\ req[r].pc = pc
End(r, out)      == req' = [req EXCEPT ![r] = [Idle EXCEPT !.out = out]]
Goto(r, pc)      == req' = [req EXCEPT ![r].pc = pc]
RowFree(r, c)    == \A q \in Request \ {r} : ~(req[q].pc = "commit" /\ req[q].on = c)
Submit(r, cmd)   ==
    /\ req[r].pc = "idle" /\ cmd.op \in mix /\ req' = [req EXCEPT ![r] = cmd]
    /\ "alone" \in mix => \A q \in Request : req[q].pc = "idle"
    /\ UNCHANGED <<row, group, holds, log, delLog, noted, imp, changes, mix>>

Grouping == {"merge", "unmerge"}
AskGroup(r) ==
    \E op \in Grouping \cap mix, c \in Conversation, k \in GroupKey, yes \in BOOLEAN :
      \E ids \in (SUBSET Conversation) \ {{}}, undo \in log \cup {None} :
        /\ (op = "merge") = (undo = None)
        /\ yes => row[c].vis = "locked"      \* a step-up is of a locked conversation
        /\ Submit(r, [op |-> op, pc |-> "start", out |-> "none", on |-> c, ids |-> ids,
                      key |-> k, expected |-> row[c].version, undo |-> undo,
                      granted |-> IF yes THEN {c} ELSE {}, before |-> None])
Authorized(r) ==
    /\ \E g \in Presentation(req[r].on) : MayGroup(g, req[r].granted)
    /\ \A s \in req[r].ids : MayGroup(group[s], req[r].granted)
SameDecision(r, a) == a.op = req[r].op /\ a.on = req[r].on /\ a.ids = req[r].ids

(* Authorization and the look for a replay come before the transaction.    *)
GroupLookup(r) ==
    LET found == {a \in log : a.key = req[r].key} IN
    /\ At(r, Grouping, "start")
    /\ \/ found = {} /\ Authorized(r) /\ Goto(r, "tx")
       \/ ~Authorized(r) /\ End(r, "refused")
       \/ Authorized(r) /\ \E a \in found :
            End(r, IF SameDecision(r, a) THEN "replayed" ELSE "refused")
    /\ UNCHANGED <<row, group, holds, log, delLog, noted, imp, changes, mix>>

(* The transaction locks the row of the target, checks its version, asks   *)
(* for authorization again and reads the chats, which it does not lock:    *)
(* the ids it locks besides the target's are ids of source conversations,  *)
(* which no row of Conversation has.  groupingLocked, which it also        *)
(* checks, is set nowhere.                                                 *)
AnyVersion(r)     == req[r].expected \in Nat
CurrentVersion(r) == req[r].expected = row[req[r].on].version
GroupsRead(r)     == [s \in req[r].ids |-> group[s]]
GroupRead(r) ==
    LET undo == req[r].undo
        ok   == /\ CurrentVersion(r) /\ Authorized(r)
                /\ req[r].op = "unmerge" =>
                     /\ undo.op = "merge" /\ undo.on = req[r].on /\ undo.ids = req[r].ids
                     /\ \A s \in req[r].ids : group[s] = req[r].on
    IN /\ At(r, Grouping, "tx") /\ RowFree(r, req[r].on)
       /\ IF ok THEN req' = [req EXCEPT ![r].pc = "commit", ![r].before = GroupsRead(r)]
                ELSE End(r, "refused")
       /\ UNCHANGED <<row, group, holds, log, delLog, noted, imp, changes, mix>>

(* A merge leaves alone the chats it read in the target already.  A key    *)
(* that another command has used meanwhile rolls everything back.          *)
Regrouped(r) ==
    LET q == req[r] IN
    [s \in Conversation |->
       IF s \notin q.ids \/ (q.op = "merge" /\ q.before[s] = q.on) THEN group[s]
       ELSE IF q.op = "merge" THEN q.on ELSE q.undo.before[s]]
HalfRolledBack(r) == End(r, "refused") /\ group' = Regrouped(r) /\ UNCHANGED <<row, log>>
RolledBack(r)     == End(r, "refused") /\ UNCHANGED <<row, group, log>>
GroupCommit(r) ==
    LET q == req[r]
        a == [op |-> q.op, on |-> q.on, ids |-> q.ids, key |-> q.key,
              version |-> q.expected + 1, before |-> q.before]
    IN /\ At(r, Grouping, "commit")
       /\ \/ (\E b \in log : b.key = q.key) /\ RolledBack(r)
          \/ /\ ~(\E b \in log : b.key = q.key)
             /\ group' = Regrouped(r)
             /\ row' = [row EXCEPT ![q.on].version = q.expected + 1]
             /\ log' = log \cup {a} /\ End(r, "applied")
       /\ UNCHANGED <<holds, delLog, noted, imp, changes, mix>>

(* updatePolicy reads the row, merges the request into it in memory and    *)
(* writes both fields, with an audit row for each that differs from what   *)
(* it read.                                                                *)
AskPolicy(r) ==
    \E c \in Conversation, v \in {"normal", "hidden", "locked", None},
       m \in {"allowed", "denied", None} :
      /\ changes < MaxPolicies /\ (v # None \/ m # None)
      /\ Submit(r, [op |-> "policy", pc |-> "start", out |-> "none", on |-> c,
                    vis |-> v, mcp |-> m, seen |-> None])
AsAsked(asked, now) == asked
Merged(asked, now)  == IF asked = None THEN now ELSE asked
PolicyRead(r) ==
    LET now == row[req[r].on] IN
    /\ At(r, {"policy"}, "start")
    /\ req' = [req EXCEPT ![r].pc = "write", ![r].seen = [vis |-> now.vis, mcp |-> now.mcp],
                 ![r].vis = Merged(@, now.vis), ![r].mcp = Merged(@, now.mcp)]
    /\ UNCHANGED <<row, group, holds, log, delLog, noted, imp, changes, mix>>
PolicyWrite(r) ==
    LET q == req[r] IN
    /\ At(r, {"policy"}, "write") /\ RowFree(r, q.on) /\ changes < MaxPolicies
    /\ row' = [row EXCEPT ![q.on].vis = q.vis, ![q.on].mcp = q.mcp]
    /\ noted' = noted \cup {<<q.on, f>> : f \in {g \in {"vis", "mcp"} : q[g] # q.seen[g]}}
    /\ changes' = changes + 1 /\ End(r, "applied")
    /\ UNCHANGED <<group, holds, log, delLog, imp, mix>>

(* Owner deletion looks for a replay before the transaction, in it, and    *)
(* after it failed.                                                        *)
Deletion == {"delete", "restore"}
AskDeletion(r) ==
    \E op \in Deletion, c \in Conversation, k \in DeleteKey, checked \in BOOLEAN :
      Submit(r, [op |-> op, pc |-> "start", out |-> "none", on |-> c, key |-> k,
                 expected |-> IF checked THEN row[c].delVersion ELSE None])
SameCommand(r, a) == a.op = req[r].op /\ a.on = req[r].on
Replay(r, otherwise) ==
    LET found == {a \in delLog : a.key = req[r].key} IN
    \/ found = {} /\ otherwise
    \/ \E a \in found : End(r, IF SameCommand(r, a) THEN "replayed" ELSE "refused")
DeleteLookup(r) ==
    /\ \/ At(r, Deletion, "start") /\ Replay(r, Goto(r, "tx"))
       \/ At(r, Deletion, "tx") /\ Replay(r, Goto(r, "lock"))
    /\ UNCHANGED <<row, group, holds, log, delLog, noted, imp, changes, mix>>
DeleteCommit(r) ==
    LET q == req[r]
        n == row[q.on].delVersion + 1
    IN /\ At(r, Deletion, "lock") /\ RowFree(r, q.on)
       /\ IF q.expected \notin {None, row[q.on].delVersion} \/ \E a \in delLog : a.key = q.key
          THEN Goto(r, "failed") /\ UNCHANGED <<row, delLog>>
          ELSE /\ row' = [row EXCEPT ![q.on].deleted = (q.op = "delete"), ![q.on].delVersion = n]
               /\ delLog' = delLog \cup {[op |-> q.op, on |-> q.on, key |-> q.key, version |-> n]}
               /\ End(r, "applied")
       /\ UNCHANGED <<group, holds, log, noted, imp, changes, mix>>
GivenUp(r)      == End(r, "refused")
AfterFailure(r) == Replay(r, End(r, "refused"))
DeleteFailed(r) ==
    /\ At(r, Deletion, "failed") /\ AfterFailure(r)
    /\ UNCHANGED <<row, group, holds, log, delLog, noted, imp, changes, mix>>

(* A database error or a deadlock of two transactions rolls one back.      *)
Abort(r) ==
    /\ req[r].pc \in {"tx", "commit", "write", "lock"}
    /\ IF req[r].op \in Deletion THEN Goto(r, "failed") ELSE End(r, "refused")
    /\ UNCHANGED <<row, group, holds, log, delLog, noted, imp, changes, mix>>

-----------------------------------------------------------------------------
(* An import resolves a known chat to the conversation it is grouped under *)
(* and then writes the new messages, and the grouping it read, there.  It  *)
(* waits for whoever has locked that conversation.                         *)
ImportRead(s) ==
    /\ "import" \in mix /\ imp[s] = None /\ imp' = [imp EXCEPT ![s] = group[s]]
    /\ UNCHANGED <<row, group, holds, log, delLog, noted, req, changes, mix>>
ImportWrite(s) ==
    /\ imp[s] # None
    /\ \A q \in Request : ~(req[q].pc = "commit" /\ req[q].on = imp[s])
    /\ imp' = [imp EXCEPT ![s] = None]
    /\ group' = [group EXCEPT ![s] = imp[s]]
    /\ holds' = [holds EXCEPT ![s] = @ \cup {imp[s]}]
    /\ UNCHANGED <<row, log, delLog, noted, req, changes, mix>>

Next ==
    \/ \E r \in Request :
         \/ AskGroup(r) \/ GroupLookup(r) \/ GroupRead(r) \/ GroupCommit(r)
         \/ AskPolicy(r) \/ PolicyRead(r) \/ PolicyWrite(r)
         \/ AskDeletion(r) \/ DeleteLookup(r) \/ DeleteCommit(r) \/ DeleteFailed(r)
         \/ Abort(r)
    \/ \E s \in Conversation : ImportRead(s) \/ ImportWrite(s)

Spec == Init /\ [][Next]_vars

-----------------------------------------------------------------------------
Visibility == {"normal", "hidden", "locked"}
Disclosure == {"allowed", "denied"}
Rows       == [vis : Visibility, mcp : Disclosure, version : Nat, deleted : BOOLEAN,
               delVersion : Nat]
Snapshots  == UNION {[ids -> Conversation] : ids \in SUBSET Conversation}
GroupEntry == [op : Grouping, on : Conversation, ids : SUBSET Conversation, key : GroupKey,
               version : Nat, before : Snapshots]
DeletionEntry == [op : Deletion, on : Conversation, key : DeleteKey, version : Nat]
Ended         == [op : {"none"}, pc : {"idle"}, out : {"none", "refused", "replayed", "applied"}]
GroupCommand  == [op : Grouping, pc : {"start", "tx", "commit"}, out : {"none"}, on : Conversation,
                  ids : SUBSET Conversation, key : GroupKey, expected : Nat,
                  undo : GroupEntry \cup {None}, granted : SUBSET Conversation,
                  before : Snapshots \cup {None}]
PolicyCommand == [op : {"policy"}, pc : {"start", "write"}, out : {"none"}, on : Conversation,
                  vis : Visibility \cup {None}, mcp : Disclosure \cup {None},
                  seen : [vis : Visibility, mcp : Disclosure] \cup {None}]
DeletionCommand == [op : Deletion, pc : {"start", "tx", "lock", "failed"}, out : {"none"},
                    on : Conversation, key : DeleteKey, expected : Nat \cup {None}]
Commands == Ended \cup GroupCommand \cup PolicyCommand \cup DeletionCommand

(* Every variable has its type, and an audited grouping keeps where each of  *)
(* its chats was.                                                            *)
TypeOK ==
    /\ row \in [Conversation -> Rows]
    /\ group \in [Conversation -> Conversation]
    /\ holds \in [Conversation -> SUBSET Conversation]
    /\ log \subseteq GroupEntry /\ \A a \in log : a.before \in [a.ids -> Conversation]
    /\ delLog \subseteq DeletionEntry
    /\ noted \subseteq Conversation \X {"vis", "mcp"} /\ changes \in 0..MaxPolicies
    /\ req \in [Request -> Commands]
    /\ imp \in [Conversation -> Conversation \cup {None}]

(* The audit logs explain the state.  The versions of a conversation are   *)
(* those of its decisions, each given once: no decision overwrites another *)
(* it did not know of, none is applied twice, none is recorded and not     *)
(* applied, whichever of two requests with one key or one target commits   *)
(* first.  A deletion is in force if the last decision about the           *)
(* conversation says so, and a policy that was ever changed was noted.     *)
LogExplainsState ==
    /\ \A c \in Conversation :
         /\ {a.version : a \in {b \in log : b.on = c}} = 1..row[c].version
         /\ Cardinality({b \in log : b.on = c}) = row[c].version
         /\ {a.version : a \in {b \in delLog : b.on = c}} = 1..row[c].delVersion
         /\ \A a \in delLog : a.on = c /\ a.version = row[c].delVersion
                               => row[c].deleted = (a.op = "delete")
         /\ row[c].vis # "normal" => <<c, "vis">> \in noted
         /\ row[c].mcp # "allowed" => <<c, "mcp">> \in noted

(* A chat is listed under itself or under a conversation that a recorded   *)
(* merge put it under, and its messages are written to such conversations  *)
(* only: a merge that is rolled back leaves no chat behind, a reversal     *)
(* restores no place but one of these, and an import that read such a      *)
(* place writes there at most what some merge decided, however late.       *)
Decided(s, c) == c = s \/ \E a \in log : a.op = "merge" /\ s \in a.ids /\ a.on = c
ChatsWhereDecided ==
    \A s \in Conversation : \A c \in holds[s] \cup {group[s]} : Decided(s, c)

(* Only an explicit decision of the owner regroups a chat, as              *)
(* docs/V2_FEATURE.md:46 states it.  The code does not keep it: an import  *)
(* writes back the group it read before a merge was committed.             *)
GroupedByOwnerOnly ==
    [][\A s \in Conversation :
         group'[s] # group[s] => \E a \in log' \ log : s \in a.ids]_vars

(* A protected chat stays protected in whatever conversation it is shown,  *)
(* as ui-privacy.ts:124-126 states it.  The code does not keep it for      *)
(* chains of merges: its predicates look one level up and one level down.  *)
ProtectedSourceStaysProtected ==
    \A s \in Conversation : \A c \in holds[s] :
        /\ Rank(c) > 0 => ~OrdinaryReads(group[s])
        /\ row[c].mcp = "denied" => ~McpReads(group[s])

(* A retry of a deletion that was recorded is answered with the recorded   *)
(* result, also when the first attempt commits while the retry runs.       *)
RetriedDeletionAnswered ==
    [][\A r \in Request, a \in delLog :
         (req[r].op \in Deletion /\ req[r].key = a.key /\ SameCommand(r, a)
            /\ req'[r].pc = "idle") => req'[r].out = "replayed"]_vars
=============================================================================
