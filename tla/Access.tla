-------------------------------- MODULE Access --------------------------------
(***************************************************************************)
(* Who may read the archive: the admission of identities that signed in    *)
(* with the OIDC provider (infrastructure/auth/oidc.ts), their sessions    *)
(* (sessions.ts), the step-up that unlocks locked conversations for some   *)
(* minutes (unlocks.ts), relock, logout, and the guarded reads of the web  *)
(* routes (application/auth.ts, delivery/web/auth.ts).                     *)
(*                                                                         *)
(* Slots are the web process's requests in progress; every database query  *)
(* or transaction of a request is a step.  Time is an action that expires  *)
(* a row.  A row that expired, was revoked or was deleted by a cleanup     *)
(* answers no query any more: it is "dead".                                *)
(***************************************************************************)
EXTENDS Naturals, FiniteSets

CONSTANTS Subject,        \* identities of the configured issuer
          Session,        \* session tokens
          Challenge,      \* unlock challenges; a grant is named by the one it is for
          Slot,
          MaxRestarts,    \* bound on restarts of the web process
          None

ASSUME AccessAssumption ==
    /\ MaxRestarts \in Nat /\ None \notin Subject \cup Session \cup Challenge \cup Slot
    /\ None \notin {"pending", "member", "admin"}

VARIABLES role,       \* ArchiveIdentity: role of each subject
          admission,  \* the slot that holds the admission's advisory lock
          session,    \* AuthSession
          challenge,  \* UnlockChallenge
          grant,      \* UnlockGrant of each challenge
          made,       \* how many grants each challenge was turned into (history)
          locked,     \* whether the conversation's uiVisibility is "locked"
          runtime,    \* the web process's runtimeId
          shut,       \* challenges that a relock, a logout or a restart has ended
                      \* for good, with the grants made of them (history)
          slot

vars == <<role, admission, session, challenge, grant, made, locked, runtime, shut, slot>>

Idle == [op |-> "idle"]
Init ==
    /\ role = [u \in Subject |-> None] /\ admission = None
    /\ session = [s \in Session |-> [state |-> "unused", of |-> None]]
    /\ challenge = [c \in Challenge |-> [state |-> "unused", of |-> None, wide |-> FALSE,
                                         runtime |-> 0]]
    /\ grant = [c \in Challenge |-> "none"] /\ made = [c \in Challenge |-> 0]
    /\ locked = TRUE /\ runtime = 0 /\ shut = {} /\ slot = [q \in Slot |-> Idle]

-----------------------------------------------------------------------------
Admitted  == {u \in Subject : role[u] \in {"member", "admin"}}
Admin     == {u \in Subject : role[u] = "admin"}
AnyToken(s)    == session[s].state # "unused"
SessionLive(s) == session[s].state = "live"

Ask(q, request) == slot[q] = Idle /\ slot' = [slot EXCEPT ![q] = request]
At(q, op)       == slot[q].op = op
Goto(q, op)     == slot' = [slot EXCEPT ![q].op = op]
Answer(q)       == slot' = [slot EXCEPT ![q] = Idle]

-----------------------------------------------------------------------------
(* Sign-in.  The provider has verified the claims; the directory's         *)
(* transaction takes the advisory lock, looks the identity up and admits   *)
(* the first one of an archive as its administrator, later ones as         *)
(* pending.  Admitted identities get a session.                            *)
SignIn(q) ==
    \E u \in Subject :
        /\ Ask(q, [op |-> "admit", subject |-> u])
        /\ UNCHANGED <<role, admission, session, challenge, grant, made, locked, runtime, shut>>

LockIgnored     == TRUE
LockFree        == admission = None
AdmitRead(q) ==
    /\ At(q, "admit") /\ LockFree
    /\ admission' = q
    /\ slot' = [slot EXCEPT ![q] =
                  [op |-> "admitting", subject |-> slot[q].subject,
                   role |-> IF role[slot[q].subject] # None THEN role[slot[q].subject]
                            ELSE IF Admin = {} THEN "admin" ELSE "pending"]]
    /\ UNCHANGED <<role, session, challenge, grant, made, locked, runtime, shut>>
AdmitCommit(q) ==
    LET u == slot[q].subject IN
    /\ At(q, "admitting")
    /\ role' = [role EXCEPT ![u] = slot[q].role] /\ admission' = None
    /\ IF slot[q].role = "pending" THEN Answer(q)
       ELSE slot' = [slot EXCEPT ![q] = [op |-> "session", subject |-> u]]
    /\ UNCHANGED <<session, challenge, grant, made, locked, runtime, shut>>
CreateSession(q) ==
    /\ At(q, "session")
    /\ \E s \in Session :
         /\ session[s].state = "unused"
         /\ session' = [session EXCEPT ![s] = [state |-> "live", of |-> slot[q].subject]]
    /\ Answer(q)
    /\ UNCHANGED <<role, admission, challenge, grant, made, locked, runtime, shut>>

(* An administrator's approval looks at the session, whose role is the one *)
(* of the sign-in, and then again under the admission's lock.              *)
AskApproval(q) ==
    \E s \in Session, u \in Subject :
        /\ SessionLive(s) /\ session[s].of \in Admin
        /\ Ask(q, [op |-> "approve", by |-> session[s].of, subject |-> u])
        /\ UNCHANGED <<role, admission, session, challenge, grant, made, locked, runtime, shut>>
Approve(q) ==
    LET u == slot[q].subject IN
    /\ At(q, "approve") /\ admission = None
    /\ role' = IF slot[q].by \in Admin /\ role[u] = "pending"
               THEN [role EXCEPT ![u] = "member"] ELSE role
    /\ Answer(q)
    /\ UNCHANGED <<admission, session, challenge, grant, made, locked, runtime, shut>>

-----------------------------------------------------------------------------
(* The step-up.  A start is for one conversation or, wide, for the archive.*)
StartUnlock(q) ==
    \E s \in Session, w \in BOOLEAN :
        /\ SessionLive(s) /\ locked
        /\ Ask(q, [op |-> "begin", of |-> s, wide |-> w])
        /\ UNCHANGED <<role, admission, session, challenge, grant, made, locked, runtime, shut>>
CreateChallenge(q) ==
    /\ At(q, "begin")
    /\ \E c \in Challenge :
         /\ challenge[c].state = "unused"
         /\ challenge' = [challenge EXCEPT ![c] = [state |-> "open", of |-> slot[q].of,
                                           wide |-> slot[q].wide, runtime |-> runtime]]
    /\ Answer(q)
    /\ UNCHANGED <<role, admission, session, grant, made, locked, runtime, shut>>

(* The provider sends the browser back, possibly more than once.  The      *)
(* callback finds the challenge, has the code exchanged (and the claims    *)
(* compared with the session's identity), consumes the challenge, and      *)
(* creates the grant after another look at the session and at the policy.  *)
Known(c, s) == /\ challenge[c].state # "unused"
               /\ challenge[c].of = s /\ challenge[c].runtime = runtime
Open(c, s) == /\ challenge[c].state = "open"
              /\ challenge[c].of = s /\ challenge[c].runtime = runtime
UnlockCallback(q) ==
    \E s \in Session, c \in Challenge :
        /\ SessionLive(s) /\ Open(c, s)
        /\ Ask(q, [op |-> "consume", of |-> s, for |-> c])
        /\ UNCHANGED <<role, admission, session, challenge, grant, made, locked, runtime, shut>>
ClaimsRejected(q) ==
    /\ At(q, "consume") /\ Answer(q)
    /\ UNCHANGED <<role, admission, session, challenge, grant, made, locked, runtime, shut>>
ConsumeChallenge(q) ==
    LET c == slot[q].for IN
    /\ At(q, "consume")
    /\ IF Open(c, slot[q].of)
       THEN challenge' = [challenge EXCEPT ![c].state = "consumed"] /\ Goto(q, "grantable")
       ELSE Answer(q) /\ UNCHANGED challenge
    /\ UNCHANGED <<role, admission, session, grant, made, locked, runtime, shut>>
GrantCheck(q) ==
    /\ \/ At(q, "grantable") /\ IF SessionLive(slot[q].of) THEN Goto(q, "policy") ELSE Answer(q)
       \/ At(q, "policy") /\ IF locked THEN Goto(q, "grant") ELSE Answer(q)
    /\ UNCHANGED <<role, admission, session, challenge, grant, made, locked, runtime, shut>>
CreateGrant(q) ==
    LET c == slot[q].for IN
    /\ At(q, "grant")
    /\ grant' = [grant EXCEPT ![c] = "live"] /\ made' = [made EXCEPT ![c] = @ + 1]
    /\ Answer(q)
    /\ UNCHANGED <<role, admission, session, challenge, locked, runtime, shut>>

-----------------------------------------------------------------------------
(* Relock and logout.  Relock is one transaction over the session's grants *)
(* and challenges; logout revokes the session as well, whether or not the  *)
(* first transaction failed.                                               *)
Of(s)      == {c \in Challenge : challenge[c].of = s}
Revoked(s) ==
    LET opened  == {c \in Of(s) : challenge[c].state = "open"}
        granted == {c \in Of(s) : grant[c] = "live"}
    IN /\ grant' = [c \in Challenge |-> IF c \in granted THEN "dead" ELSE grant[c]]
       /\ challenge' = [c \in Challenge |-> IF c \in opened
                          THEN [challenge[c] EXCEPT !.state = "dead"] ELSE challenge[c]]
       /\ shut' = shut \cup opened \cup granted
Relock(s) ==
    /\ AnyToken(s) /\ Revoked(s)
    /\ UNCHANGED <<role, admission, session, made, locked, runtime, slot>>
Logout(q) ==
    \E s \in Session, failed \in BOOLEAN :
        /\ AnyToken(s) /\ Ask(q, [op |-> "logout", of |-> s])
        /\ IF failed THEN UNCHANGED <<grant, challenge, shut>> ELSE Revoked(s)
        /\ UNCHANGED <<role, admission, session, made, locked, runtime>>
RevokeSession(q) ==
    LET s == slot[q].of IN
    /\ At(q, "logout")
    /\ session' = [session EXCEPT ![s].state = "dead"] /\ shut' = shut \cup Of(s)
    /\ Answer(q)
    /\ UNCHANGED <<role, admission, challenge, grant, made, locked, runtime>>

-----------------------------------------------------------------------------
(* A read of locked content: of one conversation with the token of a grant *)
(* (direct), or of the folder with whichever grant of the session is       *)
(* found.  The rows are read in a later query, which shows them if locked. *)
GrantRow(c, s) == /\ grant[c] = "live" /\ challenge[c].of = s
                  /\ challenge[c].runtime = runtime
Covers(c, s) == GrantRow(c, s) /\ SessionLive(s)
LockedRead(q) ==
    \E s \in Session, c \in Challenge, direct \in BOOLEAN :
        /\ SessionLive(s) /\ Covers(c, s)
        /\ direct => challenge[c].wide \/ locked
        /\ Ask(q, [op |-> "rows", of |-> s, for |-> c])
        /\ UNCHANGED <<role, admission, session, challenge, grant, made, locked, runtime, shut>>
Rows(q) ==
    /\ At(q, "rows") /\ Answer(q)
    /\ UNCHANGED <<role, admission, session, challenge, grant, made, locked, runtime, shut>>

-----------------------------------------------------------------------------
(* The world around: time, the owner's privacy decisions, restarts.        *)
ExpireSession(s) ==
    /\ session[s].state = "live" /\ session' = [session EXCEPT ![s].state = "dead"]
    /\ UNCHANGED <<role, admission, challenge, grant, made, locked, runtime, shut, slot>>
ExpireChallenge(c) ==
    /\ challenge[c].state = "open" /\ challenge' = [challenge EXCEPT ![c].state = "dead"]
    /\ UNCHANGED <<role, admission, session, grant, made, locked, runtime, shut, slot>>
ExpireGrant(c) ==
    /\ grant[c] = "live" /\ grant' = [grant EXCEPT ![c] = "dead"]
    /\ UNCHANGED <<role, admission, session, challenge, made, locked, runtime, shut, slot>>
TogglePolicy ==
    /\ locked' = ~locked
    /\ UNCHANGED <<role, admission, session, challenge, grant, made, runtime, shut, slot>>
Restart ==
    /\ runtime < MaxRestarts /\ runtime' = runtime + 1
    /\ admission' = None /\ slot' = [q \in Slot |-> Idle]
    /\ shut' = shut \cup {c \in Challenge : challenge[c].state # "unused"}
    /\ UNCHANGED <<role, session, challenge, grant, made, locked>>

Serve(q) == \/ AdmitRead(q) \/ AdmitCommit(q) \/ CreateSession(q) \/ Approve(q)
            \/ CreateChallenge(q) \/ ClaimsRejected(q) \/ ConsumeChallenge(q)
            \/ GrantCheck(q) \/ CreateGrant(q) \/ RevokeSession(q) \/ Rows(q)
Request(q) == \/ SignIn(q) \/ AskApproval(q) \/ StartUnlock(q) \/ UnlockCallback(q)
              \/ Logout(q) \/ LockedRead(q)
Next == \/ \E q \in Slot : Request(q) \/ Serve(q)
        \/ \E s \in Session : Relock(s) \/ ExpireSession(s)
        \/ \E c \in Challenge : ExpireChallenge(c) \/ ExpireGrant(c)
        \/ TogglePolicy \/ Restart
Spec == Init /\ [][Next]_vars

-----------------------------------------------------------------------------
Requests == {Idle} \cup [op : {"admit", "session"}, subject : Subject]
              \cup [op : {"admitting"}, subject : Subject, role : {"pending", "member", "admin"}]
              \cup [op : {"approve"}, by : Subject, subject : Subject]
              \cup [op : {"begin"}, of : Session, wide : BOOLEAN]
              \cup [op : {"consume", "grantable", "policy", "grant", "rows"}, of : Session, for : Challenge]
              \cup [op : {"logout"}, of : Session]

(* Every variable has its type, and the admission's lock is held by the      *)
(* request that is admitting somebody.                                       *)
TypeOK ==
    /\ slot \in [Slot -> Requests]
    /\ role \in [Subject -> {None, "pending", "member", "admin"}]
    /\ admission \in Slot \cup {None}
    /\ session \in [Session -> [state : {"unused", "live", "dead"}, of : Subject \cup {None}]]
    /\ challenge \in [Challenge -> [state : {"unused", "open", "consumed", "dead"},
                        of : Session \cup {None}, wide : BOOLEAN, runtime : 0..MaxRestarts]]
    /\ grant \in [Challenge -> {"none", "live", "dead"}] /\ made \in [Challenge -> Nat]
    /\ locked \in BOOLEAN /\ runtime \in 0..MaxRestarts /\ shut \subseteq Challenge
    /\ \A q \in Slot : admission = q <=> At(q, "admitting")

(* However sign-ins and approvals interleave, an archive with identities   *)
(* has one administrator (nobody waits for an approval that cannot come,   *)
(* nobody becomes a second one), and only the admitted hold sessions       *)
(* (findBySubject and approveIdentity under the admission's lock).         *)
OneAdministrator ==
    /\ \A u \in Subject : role[u] # None => Cardinality(Admin) = 1
    /\ \A s \in Session : session[s].state # "unused" => session[s].of \in Admitted

(* "A one-use challenge": callbacks that arrive twice, at the same time or *)
(* after a relock, make at most one grant of a challenge.                  *)
ChallengeUsedOnce ==
    \A c \in Challenge : made[c] <= 1 /\ (made[c] > 0 => challenge[c].state = "consumed")

(* What a relock, a logout or a restart has ended stays ended: no read is  *)
(* authorised by a grant of then, nor by one that a callback in progress   *)
(* makes of a challenge of then (relock revokes what is there; only a      *)
(* callback that had consumed its challenge still completes).              *)
ShutStaysShut == \A c \in shut, s \in Session : ~Covers(c, s)
=============================================================================
