---------------------------- MODULE Access_proofs ----------------------------
(***************************************************************************)
(* Proofs about Access, for any number of identities, sessions, challenges *)
(* and requests in progress, and any bound on restarts.                    *)
(***************************************************************************)
EXTENDS Access, FiniteSetTheorems, TLAPS

-----------------------------------------------------------------------------
(***************************************************************************)
(* Requests in progress.                                                   *)
(***************************************************************************)
Callback == {"consume", "grantable", "policy", "grant", "rows"}

(* What a request carries, by the step it is at. *)
LEMMA Carried ==
  ASSUME NEW r \in Requests
  PROVE  /\ r.op \in {"admit", "session"} => r.subject \in Subject
         /\ r.op = "admitting" => /\ r.subject \in Subject
                                  /\ r.role \in {"pending", "member", "admin"}
         /\ r.op = "approve" => r.by \in Subject /\ r.subject \in Subject
         /\ r.op = "begin" => r.of \in Session /\ r.wide \in BOOLEAN
         /\ r.op \in Callback => r.of \in Session /\ r.for \in Challenge
         /\ r.op = "logout" => r.of \in Session
  BY DEF Requests, Idle, Callback

(* A request that goes on to its next step is the same request. *)
LEMMA GoesOn ==
  ASSUME slot \in [Slot -> Requests], NEW q \in Slot, slot[q].op \in Callback,
         NEW op \in Callback, Goto(q, op)
  PROVE  \E r \in Requests : /\ slot' = [slot EXCEPT ![q] = r]
                             /\ r.op = op /\ r.of = slot[q].of /\ r.for = slot[q].for
  <1>1. PICK s \in Session, c \in Challenge : slot[q] = [op |-> slot[q].op, of |-> s, for |-> c]
    BY DEF Requests, Idle, Callback
  <1>2. [slot[q] EXCEPT !.op = op] = [op |-> op, of |-> s, for |-> c]
    BY <1>1
  <1> DEFINE r == [op |-> op, of |-> s, for |-> c]
  <1>3. r \in Requests /\ r.op = op /\ r.of = s /\ r.for = c
    BY DEF Requests, Callback
  <1>4. slot[q].of = s /\ slot[q].for = c
    BY <1>1
  <1>5. slot' = [slot EXCEPT ![q] = r]
    BY <1>2 DEF Goto
  <1> QED
    BY <1>3, <1>4, <1>5

(* Requests come and go one at a time: the other slots keep theirs. *)
Changes(q) ==
  /\ slot' \in [Slot -> Requests]
  /\ \A p \in Slot : p # q => slot'[p] = slot[p]

Asked(q, op)    == Changes(q) /\ At(q, "idle") /\ slot'[q].op = op
Answered(q, op) == Changes(q) /\ At(q, op) /\ slot'[q].op = "idle"
Moved(q, from, to) ==
  /\ Changes(q) /\ At(q, from) /\ slot'[q].op = to
  /\ slot'[q].of = slot[q].of /\ slot'[q].for = slot[q].for

LEMMA Held ==
  ASSUME slot \in [Slot -> Requests], NEW q \in Slot, NEW r \in Requests,
         slot' = [slot EXCEPT ![q] = r]
  PROVE  Changes(q) /\ slot'[q] = r
  BY DEF Changes

LEMMA Idles == Idle \in Requests /\ Idle.op = "idle"
  BY DEF Requests, Idle

(* What the first step of a request leaves in its slot. *)
LEMMA RequestChange ==
  ASSUME TypeOK, NEW q \in Slot
  PROVE  /\ SignIn(q) => Asked(q, "admit")
         /\ AskApproval(q) => Asked(q, "approve")
         /\ StartUnlock(q) => Asked(q, "begin")
         /\ UnlockCallback(q) => Asked(q, "consume")
         /\ Logout(q) => Asked(q, "logout")
         /\ LockedRead(q) => Asked(q, "rows")
  <1>0. slot \in [Slot -> Requests]
    BY DEF TypeOK
  <1>a. ASSUME NEW r \in Requests, Ask(q, r) PROVE Asked(q, r.op)
    BY <1>0, <1>a, Held, Idles DEF Ask, Asked, At
  <1>1. ASSUME SignIn(q) PROVE Asked(q, "admit")
    <2>1. PICK u \in Subject : Ask(q, [op |-> "admit", subject |-> u])
      BY <1>1 DEF SignIn
    <2>2. [op |-> "admit", subject |-> u] \in Requests
      BY DEF Requests
    <2> QED
      BY <1>a, <2>1, <2>2
  <1>2. ASSUME AskApproval(q) PROVE Asked(q, "approve")
    <2>1. PICK s \in Session, u \in Subject :
            session[s].of \in Admin /\ Ask(q, [op |-> "approve", by |-> session[s].of, subject |-> u])
      BY <1>2 DEF AskApproval
    <2>2. [op |-> "approve", by |-> session[s].of, subject |-> u] \in Requests
      BY <2>1 DEF Requests, Admin
    <2> QED
      BY <1>a, <2>1, <2>2
  <1>3. ASSUME StartUnlock(q) PROVE Asked(q, "begin")
    <2>1. PICK s \in Session, w \in BOOLEAN : Ask(q, [op |-> "begin", of |-> s, wide |-> w])
      BY <1>3 DEF StartUnlock
    <2>2. [op |-> "begin", of |-> s, wide |-> w] \in Requests
      BY DEF Requests
    <2> QED
      BY <1>a, <2>1, <2>2
  <1>4. ASSUME UnlockCallback(q) PROVE Asked(q, "consume")
    <2>1. PICK s \in Session, c \in Challenge : Ask(q, [op |-> "consume", of |-> s, for |-> c])
      BY <1>4 DEF UnlockCallback
    <2>2. [op |-> "consume", of |-> s, for |-> c] \in Requests
      BY DEF Requests
    <2> QED
      BY <1>a, <2>1, <2>2
  <1>5. ASSUME Logout(q) PROVE Asked(q, "logout")
    <2>1. PICK s \in Session : Ask(q, [op |-> "logout", of |-> s])
      BY <1>5 DEF Logout
    <2>2. [op |-> "logout", of |-> s] \in Requests
      BY DEF Requests
    <2> QED
      BY <1>a, <2>1, <2>2
  <1>6. ASSUME LockedRead(q) PROVE Asked(q, "rows")
    <2>1. PICK s \in Session, c \in Challenge : Ask(q, [op |-> "rows", of |-> s, for |-> c])
      BY <1>6 DEF LockedRead
    <2>2. [op |-> "rows", of |-> s, for |-> c] \in Requests
      BY DEF Requests
    <2> QED
      BY <1>a, <2>1, <2>2
  <1> QED
    BY <1>1, <1>2, <1>3, <1>4, <1>5, <1>6

(* What its later steps leave there. *)
LEMMA ServeChange ==
  ASSUME TypeOK, NEW q \in Slot
  PROVE  /\ CreateSession(q) => Answered(q, "session")
         /\ Approve(q) => Answered(q, "approve")
         /\ CreateChallenge(q) => Answered(q, "begin")
         /\ ClaimsRejected(q) => Answered(q, "consume")
         /\ CreateGrant(q) => Answered(q, "grant")
         /\ RevokeSession(q) => Answered(q, "logout")
         /\ Rows(q) => Answered(q, "rows")
         /\ ConsumeChallenge(q) => \/ /\ Open(slot[q].for, slot[q].of)
                                      /\ Moved(q, "consume", "grantable")
                                   \/ /\ ~Open(slot[q].for, slot[q].of)
                                      /\ Answered(q, "consume")
         /\ GrantCheck(q) => \/ Moved(q, "grantable", "policy") \/ Moved(q, "policy", "grant")
                             \/ Answered(q, "grantable") \/ Answered(q, "policy")
  <1>0. slot \in [Slot -> Requests]
    BY DEF TypeOK
  <1>1. ASSUME NEW op, At(q, op), Answer(q) PROVE Answered(q, op)
    BY <1>0, <1>1, Held, Idles DEF Answer, Answered
  <1>2. ASSUME NEW from \in Callback, NEW to \in Callback, At(q, from), Goto(q, to)
        PROVE  Moved(q, from, to)
    BY <1>0, <1>2, GoesOn, Held DEF Moved, At
  <1>3. ConsumeChallenge(q) => \/ Open(slot[q].for, slot[q].of) /\ Moved(q, "consume", "grantable")
                               \/ ~Open(slot[q].for, slot[q].of) /\ Answered(q, "consume")
    BY <1>1, <1>2 DEF ConsumeChallenge, Callback
  <1>4. GrantCheck(q) => \/ Moved(q, "grantable", "policy") \/ Moved(q, "policy", "grant")
                         \/ Answered(q, "grantable") \/ Answered(q, "policy")
    BY <1>1, <1>2 DEF GrantCheck, Callback
  <1>5. /\ CreateSession(q) => Answered(q, "session")
        /\ Approve(q) => Answered(q, "approve")
        /\ CreateChallenge(q) => Answered(q, "begin")
        /\ ClaimsRejected(q) => Answered(q, "consume")
    BY <1>1 DEF CreateSession, Approve, CreateChallenge, ClaimsRejected
  <1>6. /\ CreateGrant(q) => Answered(q, "grant")
        /\ RevokeSession(q) => Answered(q, "logout")
        /\ Rows(q) => Answered(q, "rows")
    BY <1>1 DEF CreateGrant, RevokeSession, Rows
  <1> QED
    BY <1>3, <1>4, <1>5, <1>6

(* An admission reads under its lock what it will write, and then writes it. *)
RoleFor(u) ==
  IF role[u] # None THEN role[u] ELSE IF Admin = {} THEN "admin" ELSE "pending"

LEMMA AdmitChange ==
  ASSUME TypeOK, NEW q \in Slot
  PROVE  /\ AdmitRead(q) => /\ Changes(q) /\ At(q, "admit") /\ slot'[q].op = "admitting"
                            /\ slot'[q].subject = slot[q].subject
                            /\ slot'[q].role = RoleFor(slot[q].subject)
         /\ AdmitCommit(q) => /\ Changes(q) /\ At(q, "admitting")
                              /\ \/ slot[q].role = "pending" /\ slot'[q].op = "idle"
                                 \/ /\ slot[q].role # "pending" /\ slot'[q].op = "session"
                                    /\ slot'[q].subject = slot[q].subject
  <1>0. slot \in [Slot -> Requests]
    BY DEF TypeOK
  <1>1. ASSUME AdmitRead(q)
        PROVE  /\ Changes(q) /\ At(q, "admit") /\ slot'[q].op = "admitting"
               /\ slot'[q].subject = slot[q].subject
               /\ slot'[q].role = RoleFor(slot[q].subject)
    <2> DEFINE u == slot[q].subject
               r == [op |-> "admitting", subject |-> u, role |-> RoleFor(u)]
    <2>1. u \in Subject /\ slot' = [slot EXCEPT ![q] = r]
      BY <1>0, <1>1, Carried DEF AdmitRead, At, RoleFor
    <2>2. RoleFor(u) \in {"pending", "member", "admin"}
      BY <2>1 DEF TypeOK, RoleFor
    <2>3. r \in Requests
      BY <2>1, <2>2 DEF Requests
    <2>4. Changes(q) /\ slot'[q] = r
      BY <1>0, <2>1, <2>3, Held
    <2> QED
      BY <1>1, <2>4 DEF AdmitRead
  <1>2. ASSUME AdmitCommit(q)
        PROVE  /\ Changes(q) /\ At(q, "admitting")
               /\ \/ slot[q].role = "pending" /\ slot'[q].op = "idle"
                  \/ /\ slot[q].role # "pending" /\ slot'[q].op = "session"
                     /\ slot'[q].subject = slot[q].subject
    <2> DEFINE r == [op |-> "session", subject |-> slot[q].subject]
    <2>1. slot[q].subject \in Subject
      BY <1>0, <1>2, Carried DEF AdmitCommit, At
    <2>2. r \in Requests
      BY <2>1 DEF Requests
    <2>3. CASE slot[q].role = "pending"
      BY <1>0, <1>2, <2>3, Held, Idles DEF AdmitCommit, Answer
    <2>4. CASE slot[q].role # "pending"
      <3>1. slot' = [slot EXCEPT ![q] = r]
        BY <1>2, <2>4 DEF AdmitCommit
      <3>2. Changes(q) /\ slot'[q] = r
        BY <1>0, <2>2, <3>1, Held
      <3> QED
        BY <1>2, <2>4, <3>2 DEF AdmitCommit
    <2> QED
      BY <2>3, <2>4
  <1> QED
    BY <1>1, <1>2

-----------------------------------------------------------------------------
(***************************************************************************)
(* Type correctness.                                                       *)
(***************************************************************************)
RowTypes ==
  /\ role \in [Subject -> {None, "pending", "member", "admin"}]
  /\ session \in [Session -> [state : {"unused", "live", "dead"}, of : Subject \cup {None}]]
  /\ challenge \in [Challenge -> [state : {"unused", "open", "consumed", "dead"},
                      of : Session \cup {None}, wide : BOOLEAN, runtime : 0..MaxRestarts]]
  /\ grant \in [Challenge -> {"none", "live", "dead"}] /\ made \in [Challenge -> Nat]
  /\ locked \in BOOLEAN /\ runtime \in 0..MaxRestarts /\ shut \subseteq Challenge

LockTypes ==
  /\ admission \in Slot \cup {None}
  /\ \A q \in Slot : admission = q <=> At(q, "admitting")

LEMMA Types == TypeOK <=> /\ slot \in [Slot -> Requests] /\ RowTypes /\ LockTypes
  BY DEF TypeOK, RowTypes, LockTypes

LEMMA TypeInit == Init => TypeOK
  <1> SUFFICES ASSUME Init PROVE TypeOK
    OBVIOUS
  <1>1. slot \in [Slot -> Requests]
    BY Idles DEF Init
  <1>2. RowTypes
    BY AccessAssumption DEF Init, RowTypes
  <1>3. LockTypes
    BY AccessAssumption, Idles DEF Init, LockTypes, At
  <1> QED
    BY <1>1, <1>2, <1>3, Types

(* What relock leaves in the rows. *)
LEMMA RevokedTypes ==
  ASSUME RowTypes, NEW s \in Session, Revoked(s),
         UNCHANGED <<role, session, made, locked, runtime>>
  PROVE  RowTypes'
  <1>1. grant' \in [Challenge -> {"none", "live", "dead"}]
    BY DEF RowTypes, Revoked
  <1>2. challenge' \in [Challenge -> [state : {"unused", "open", "consumed", "dead"},
                          of : Session \cup {None}, wide : BOOLEAN, runtime : 0..MaxRestarts]]
    BY DEF RowTypes, Revoked
  <1>3. shut' \subseteq Challenge
    BY DEF RowTypes, Revoked, Of
  <1> QED
    BY <1>1, <1>2, <1>3 DEF RowTypes

LEMMA RowTypesStep ==
  ASSUME TypeOK, [Next]_vars
  PROVE  RowTypes'
  <1>0. RowTypes /\ slot \in [Slot -> Requests]
    BY Types
  <1>1. ASSUME NEW q \in Slot, AdmitCommit(q) \/ Approve(q) PROVE RowTypes'
    <2>1. slot[q].op = "admitting" => slot[q].role \in {"pending", "member", "admin"}
      BY <1>0, Carried
    <2>2. role' \in [Subject -> {None, "pending", "member", "admin"}]
      BY <1>0, <1>1, <2>1 DEF AdmitCommit, Approve, At, RowTypes
    <2> QED
      BY <1>0, <1>1, <2>2 DEF AdmitCommit, Approve, RowTypes
  <1>2. ASSUME NEW q \in Slot, CreateSession(q) PROVE RowTypes'
    <2>1. slot[q].subject \in Subject
      BY <1>0, <1>2, Carried DEF CreateSession, At
    <2> QED
      BY <1>0, <1>2, <2>1 DEF CreateSession, RowTypes
  <1>3. ASSUME NEW q \in Slot, RevokeSession(q) PROVE RowTypes'
    <2>1. slot[q].of \in Session
      BY <1>0, <1>3, Carried DEF RevokeSession, At
    <2> QED
      BY <1>0, <1>3, <2>1 DEF RevokeSession, RowTypes, Of
  <1>4. ASSUME NEW q \in Slot, CreateChallenge(q) PROVE RowTypes'
    <2>1. slot[q].of \in Session /\ slot[q].wide \in BOOLEAN
      BY <1>0, <1>4, Carried DEF CreateChallenge, At
    <2> QED
      BY <1>0, <1>4, <2>1 DEF CreateChallenge, RowTypes
  <1>5. ASSUME NEW q \in Slot, ConsumeChallenge(q) \/ CreateGrant(q) PROVE RowTypes'
    <2>1. slot[q].for \in Challenge
      BY <1>0, <1>5, Carried DEF ConsumeChallenge, CreateGrant, At, Callback
    <2>2. CASE ConsumeChallenge(q)
      BY <1>0, <2>1, <2>2 DEF ConsumeChallenge, RowTypes
    <2>3. CASE CreateGrant(q)
      BY <1>0, <2>1, <2>3 DEF CreateGrant, RowTypes
    <2> QED
      BY <1>5, <2>2, <2>3
  <1>6. ASSUME NEW q \in Slot, Logout(q) PROVE RowTypes'
    <2>1. PICK s \in Session : Revoked(s) \/ UNCHANGED <<grant, challenge, shut>>
      BY <1>6 DEF Logout
    <2>2. CASE UNCHANGED <<grant, challenge, shut>>
      BY <1>0, <1>6, <2>2 DEF Logout, RowTypes
    <2> QED
      BY <1>0, <1>6, <2>1, <2>2, RevokedTypes DEF Logout
  <1>7. ASSUME NEW s \in Session, Relock(s) PROVE RowTypes'
    BY <1>0, <1>7, RevokedTypes DEF Relock
  <1>8. ASSUME NEW s \in Session, ExpireSession(s) PROVE RowTypes'
    BY <1>0, <1>8 DEF ExpireSession, RowTypes
  <1>9. ASSUME NEW c \in Challenge, ExpireChallenge(c) \/ ExpireGrant(c) PROVE RowTypes'
    BY <1>0, <1>9 DEF ExpireChallenge, ExpireGrant, RowTypes
  <1>10. ASSUME Restart PROVE RowTypes'
    BY <1>0, <1>10, AccessAssumption DEF Restart, RowTypes
  <1>11. ASSUME NEW q \in Slot, \/ SignIn(q) \/ AskApproval(q) \/ StartUnlock(q) \/ UnlockCallback(q)
                                \/ LockedRead(q) \/ AdmitRead(q) \/ ClaimsRejected(q)
                                \/ GrantCheck(q) \/ Rows(q)
         PROVE  RowTypes'
    BY <1>0, <1>11 DEF SignIn, AskApproval, StartUnlock, UnlockCallback, LockedRead, AdmitRead,
                       ClaimsRejected, GrantCheck, Rows, RowTypes
  <1>12. ASSUME TogglePolicy \/ UNCHANGED vars PROVE RowTypes'
    BY <1>0, <1>12 DEF TogglePolicy, vars, RowTypes
  <1> QED
    BY <1>1, <1>2, <1>3, <1>4, <1>5, <1>6, <1>7, <1>8, <1>9, <1>10, <1>11, <1>12
       DEF Next, Request, Serve

(* Requests that are not part of an admission leave its lock alone. *)
LEMMA LockStep ==
  ASSUME TypeOK, [Next]_vars
  PROVE  slot' \in [Slot -> Requests] /\ LockTypes'
  <1>0. LockTypes /\ slot \in [Slot -> Requests]
    BY Types
  <1> DEFINE Kept == slot' \in [Slot -> Requests] /\ LockTypes'
  <1>1. ASSUME NEW q \in Slot, AdmitRead(q) PROVE Kept
    <2>1. Changes(q) /\ slot'[q].op = "admitting"
      BY <1>1, AdmitChange
    <2>2. admission = None /\ admission' = q
      BY <1>1 DEF AdmitRead, LockFree
    <2> QED
      BY <1>0, <2>1, <2>2, AccessAssumption DEF LockTypes, Changes, At
  <1>2. ASSUME NEW q \in Slot, AdmitCommit(q) PROVE Kept
    <2>1. Changes(q) /\ At(q, "admitting") /\ slot'[q].op # "admitting"
      BY <1>2, AdmitChange
    <2>2. admission' = None
      BY <1>2 DEF AdmitCommit
    <2> QED
      BY <1>0, <2>1, <2>2, AccessAssumption DEF LockTypes, Changes, At
  <1>3. ASSUME NEW q \in Slot, Changes(q), UNCHANGED admission,
               ~At(q, "admitting"), slot'[q].op # "admitting"
        PROVE  Kept
    BY <1>0, <1>3 DEF LockTypes, Changes, At
  <1>4. ASSUME NEW q \in Slot, Request(q) PROVE Kept
    <2>1. Changes(q) /\ At(q, "idle") /\ slot'[q].op # "admitting"
      BY <1>4, RequestChange DEF Request, Asked
    <2>2. UNCHANGED admission
      BY <1>4 DEF Request, SignIn, AskApproval, StartUnlock, UnlockCallback, Logout, LockedRead
    <2> QED
      BY <1>3, <2>1, <2>2 DEF At
  <1>5. ASSUME NEW q \in Slot,
               \/ CreateSession(q) \/ Approve(q) \/ CreateChallenge(q) \/ ClaimsRejected(q)
               \/ ConsumeChallenge(q) \/ GrantCheck(q) \/ CreateGrant(q) \/ RevokeSession(q) \/ Rows(q)
        PROVE  Kept
    <2>1. Changes(q) /\ ~At(q, "admitting") /\ slot'[q].op # "admitting"
      BY <1>5, ServeChange DEF Answered, Moved, At
    <2>2. UNCHANGED admission
      BY <1>5 DEF CreateSession, Approve, CreateChallenge, ClaimsRejected, ConsumeChallenge,
                  GrantCheck, CreateGrant, RevokeSession, Rows
    <2> QED
      BY <1>3, <2>1, <2>2
  <1>6. ASSUME Restart PROVE Kept
    BY <1>0, <1>6, Idles, AccessAssumption DEF Restart, LockTypes, At
  <1>7. ASSUME UNCHANGED <<slot, admission>> PROVE Kept
    BY <1>0, <1>7 DEF LockTypes, At
  <1>8. ASSUME \/ \E s \in Session : Relock(s) \/ ExpireSession(s)
               \/ \E c \in Challenge : ExpireChallenge(c) \/ ExpireGrant(c)
               \/ TogglePolicy \/ UNCHANGED vars
        PROVE  UNCHANGED <<slot, admission>>
    BY <1>8 DEF Relock, ExpireSession, ExpireChallenge, ExpireGrant, TogglePolicy, vars
  <1> QED
    BY <1>1, <1>2, <1>4, <1>5, <1>6, <1>7, <1>8 DEF Next, Serve

LEMMA TypeStep == TypeOK /\ [Next]_vars => TypeOK'
  <1> SUFFICES ASSUME TypeOK, [Next]_vars PROVE TypeOK'
    OBVIOUS
  <1>1. slot' \in [Slot -> Requests] /\ RowTypes' /\ LockTypes'
    BY RowTypesStep, LockStep
  <1> QED
    BY <1>1 DEF TypeOK, RowTypes, LockTypes
LEMMA TypeAlways == Spec => []TypeOK
  BY TypeInit, TypeStep, PTL DEF Spec

-----------------------------------------------------------------------------
(***************************************************************************)
(* One administrator.  What an admission read under its lock is still so   *)
(* when it writes: nobody else is admitted or approved in between.         *)
(***************************************************************************)
OneAdmin == \A u \in Subject : role[u] # None => \E a \in Subject : Admin = {a}

AdmissionCurrent ==
  \A q \in Slot : At(q, "admitting") => slot[q].role = RoleFor(slot[q].subject)

SessionsAdmitted ==
  /\ \A s \in Session : session[s].state # "unused" => session[s].of \in Admitted
  /\ \A q \in Slot : At(q, "session") => slot[q].subject \in Admitted

(* Who logs out has a session to revoke. *)
LogoutsOfSessions ==
  \A q \in Slot : At(q, "logout") => session[slot[q].of].state # "unused"

AdminInv == OneAdmin /\ AdmissionCurrent /\ SessionsAdmitted /\ LogoutsOfSessions

LEMMA LogoutStep ==
  ASSUME TypeOK, LogoutsOfSessions, [Next]_vars
  PROVE  LogoutsOfSessions'
  <1>0. slot \in [Slot -> Requests] /\ \A q \in Slot : At(q, "logout") => slot[q].of \in Session
    BY Carried DEF TypeOK, At
  <1>1. \A s \in Session : session[s].state # "unused" => session'[s].state # "unused"
    <2>1. ASSUME NEW q \in Slot, CreateSession(q) \/ RevokeSession(q)
          PROVE  \A s \in Session : session[s].state # "unused" => session'[s].state # "unused"
      BY <2>1 DEF CreateSession, RevokeSession, TypeOK
    <2>2. ASSUME NEW s \in Session, ExpireSession(s)
          PROVE  session'[s].state # "unused" /\ \A t \in Session : t # s => session'[t] = session[t]
      BY <2>2 DEF ExpireSession, TypeOK
    <2>3. ASSUME NEW q \in Slot,
                 \/ Request(q) \/ AdmitRead(q) \/ AdmitCommit(q) \/ Approve(q) \/ CreateChallenge(q)
                 \/ ClaimsRejected(q) \/ ConsumeChallenge(q) \/ GrantCheck(q) \/ CreateGrant(q) \/ Rows(q)
          PROVE  UNCHANGED session
      BY <2>3 DEF Request, SignIn, AskApproval, StartUnlock, UnlockCallback, Logout, LockedRead,
                  AdmitRead, AdmitCommit, Approve, CreateChallenge, ClaimsRejected, ConsumeChallenge,
                  GrantCheck, CreateGrant, Rows
    <2>4. ASSUME \/ \E s \in Session : Relock(s)
                 \/ \E c \in Challenge : ExpireChallenge(c) \/ ExpireGrant(c)
                 \/ TogglePolicy \/ Restart \/ UNCHANGED vars
          PROVE  UNCHANGED session
      BY <2>4 DEF Relock, ExpireChallenge, ExpireGrant, TogglePolicy, Restart, vars
    <2> QED
      BY <2>1, <2>2, <2>3, <2>4 DEF Next, Serve
  <1>2. ASSUME \A p \in Slot : slot'[p] = slot[p] \/ slot'[p].op # "logout"
        PROVE  LogoutsOfSessions'
    BY <1>0, <1>1, <1>2 DEF LogoutsOfSessions, At
  <1>3. ASSUME NEW q \in Slot, Logout(q) PROVE LogoutsOfSessions'
    <2>1. PICK s \in Session : AnyToken(s) /\ slot' = [slot EXCEPT ![q] = [op |-> "logout", of |-> s]]
      BY <1>3 DEF Logout, Ask
    <2>2. slot'[q].of = s /\ \A p \in Slot : p # q => slot'[p] = slot[p]
      BY <1>0, <2>1
    <2> QED
      BY <1>0, <1>1, <2>1, <2>2 DEF LogoutsOfSessions, At, AnyToken
  <1>4. ASSUME NEW q \in Slot,
               \/ SignIn(q) \/ AskApproval(q) \/ StartUnlock(q) \/ UnlockCallback(q) \/ LockedRead(q)
               \/ Serve(q)
        PROVE  LogoutsOfSessions'
    <2>1. Changes(q) /\ slot'[q].op # "logout"
      BY <1>4, RequestChange, ServeChange, AdmitChange DEF Serve, Asked, Answered, Moved
    <2> QED
      BY <1>2, <2>1 DEF Changes
  <1>5. ASSUME Restart PROVE LogoutsOfSessions'
    <2>1. \A p \in Slot : slot'[p].op = "idle"
      BY <1>5, Idles DEF Restart
    <2> QED
      BY <1>2, <2>1
  <1>6. ASSUME \/ \E s \in Session : Relock(s) \/ ExpireSession(s)
               \/ \E c \in Challenge : ExpireChallenge(c) \/ ExpireGrant(c)
               \/ TogglePolicy \/ UNCHANGED vars
        PROVE  LogoutsOfSessions'
    <2>1. UNCHANGED slot
      BY <1>6 DEF Relock, ExpireSession, ExpireChallenge, ExpireGrant, TogglePolicy, vars
    <2> QED
      BY <1>2, <2>1
  <1> QED
    BY <1>3, <1>4, <1>5, <1>6 DEF Next, Request

(* How roles change: an admission gives the role it read, an approval makes  *)
(* a pending identity a member.                                              *)
LEMMA RoleChange ==
  ASSUME TypeOK, AdminInv, NEW q \in Slot, AdmitCommit(q) \/ Approve(q)
  PROVE  OneAdmin' /\ Admitted \subseteq Admitted'
  <1>0. role \in [Subject -> {None, "pending", "member", "admin"}] /\ None # "admin"
    BY AccessAssumption DEF TypeOK
  <1>1. CASE Approve(q)
    <2>1. UNCHANGED role
            \/ \E u \in Subject : role[u] = "pending" /\ role' = [role EXCEPT ![u] = "member"]
      BY <1>1, Carried DEF Approve, At, TypeOK
    <2>2. Admin' = Admin /\ Admitted \subseteq Admitted'
      BY <1>0, <2>1 DEF Admin, Admitted
    <2>3. \A u \in Subject : role'[u] # None => \E v \in Subject : role[v] # None
      BY <1>0, <2>1, AccessAssumption
    <2> QED
      BY <2>2, <2>3 DEF AdminInv, OneAdmin
  <1>2. CASE AdmitCommit(q)
    <2> DEFINE u == slot[q].subject
    <2>1. u \in Subject /\ role' = [role EXCEPT ![u] = RoleFor(u)]
      BY <1>2, Carried DEF AdmitCommit, At, TypeOK, AdminInv, AdmissionCurrent
    <2> HIDE DEF u
    <2>2. CASE role[u] # None
      BY <1>0, <2>1, <2>2 DEF RoleFor, AdminInv, OneAdmin, Admin, Admitted
    <2>3. CASE role[u] = None /\ Admin = {}
      <3>1. \A v \in Subject : role[v] = None
        BY <2>3 DEF AdminInv, OneAdmin
      <3>2. Admin' = {u} /\ Admitted = {}
        BY <1>0, <2>1, <2>3, <3>1, AccessAssumption DEF RoleFor, Admin, Admitted
      <3> QED
        BY <2>1, <3>2 DEF OneAdmin
    <2>4. CASE role[u] = None /\ Admin # {}
      <3>1. \E a \in Subject : Admin = {a}
        BY <1>0, <2>4 DEF AdminInv, OneAdmin, Admin
      <3>2. Admin' = Admin /\ Admitted \subseteq Admitted'
        BY <1>0, <2>1, <2>4, AccessAssumption DEF RoleFor, Admin, Admitted
      <3> QED
        BY <3>1, <3>2 DEF OneAdmin
    <2> QED
      BY <2>2, <2>3, <2>4
  <1> QED
    BY <1>1, <1>2

LEMMA AdminStep ==
  ASSUME TypeOK, AdminInv, [Next]_vars
  PROVE  OneAdmin' /\ AdmissionCurrent' /\ SessionsAdmitted'
  <1> DEFINE Kept == OneAdmin' /\ AdmissionCurrent' /\ SessionsAdmitted'
  <1>0. OneAdmin /\ AdmissionCurrent /\ SessionsAdmitted /\ LockTypes /\ slot \in [Slot -> Requests]
    BY Types DEF AdminInv
  <1>1. ASSUME NEW q \in Slot, AdmitRead(q) PROVE Kept
    <2>1. /\ Changes(q) /\ slot'[q].op = "admitting"
          /\ slot'[q].role = RoleFor(slot'[q].subject)
      BY <1>1, AdmitChange
    <2>2. UNCHANGED <<role, session>>
      BY <1>1 DEF AdmitRead
    <2>3. OneAdmin' /\ \A u : RoleFor(u)' = RoleFor(u)
      BY <1>0, <2>2 DEF OneAdmin, Admin, RoleFor
    <2>4. AdmissionCurrent'
      BY <1>0, <2>1, <2>2 DEF AdmissionCurrent, Changes, At, RoleFor, Admin
    <2>5. SessionsAdmitted'
      BY <1>0, <2>1, <2>2 DEF SessionsAdmitted, Changes, At, Admitted
    <2> QED
      BY <2>3, <2>4, <2>5
  <1>2. ASSUME NEW q \in Slot, AdmitCommit(q) PROVE Kept
    <2>1. /\ Changes(q) /\ At(q, "admitting")
          /\ \/ slot'[q].op = "idle"
             \/ /\ slot[q].role # "pending" /\ slot'[q].op = "session"
                /\ slot'[q].subject = slot[q].subject
      BY <1>2, AdmitChange
    <2>2. \A p \in Slot : slot'[p].op # "admitting"
      BY <1>0, <2>1, AccessAssumption DEF LockTypes, Changes, At
    <2>3. OneAdmin' /\ Admitted \subseteq Admitted'
      BY <1>2, RoleChange
    <2>4. slot[q].role # "pending" => slot[q].subject \in Admitted'
      <3>1. slot[q].subject \in Subject /\ slot[q].role \in {"pending", "member", "admin"}
        BY <1>0, <2>1, Carried DEF At
      <3> QED
        BY <1>2, <3>1 DEF AdmitCommit, TypeOK, Admitted
    <2>5. SessionsAdmitted'
      BY <1>0, <1>2, <2>1, <2>3, <2>4 DEF SessionsAdmitted, Changes, At, AdmitCommit
    <2> QED
      BY <2>2, <2>3, <2>5 DEF AdmissionCurrent, At
  <1>3. ASSUME NEW q \in Slot, Approve(q) PROVE Kept
    <2>1. Changes(q) /\ slot'[q].op = "idle" /\ UNCHANGED session
      BY <1>3, ServeChange DEF Answered, Approve
    <2>2. \A p \in Slot : slot'[p].op # "admitting"
      BY <1>0, <1>3, <2>1, AccessAssumption DEF Approve, LockTypes, Changes, At
    <2>3. OneAdmin' /\ Admitted \subseteq Admitted'
      BY <1>3, RoleChange
    <2>4. SessionsAdmitted'
      BY <1>0, <2>1, <2>3 DEF SessionsAdmitted, Changes, At
    <2> QED
      BY <2>2, <2>3, <2>4 DEF AdmissionCurrent, At
  <1>4. ASSUME NEW q \in Slot, CreateSession(q) PROVE Kept
    <2>1. Changes(q) /\ At(q, "session") /\ slot'[q].op = "idle"
      BY <1>4, ServeChange DEF Answered
    <2>2. PICK s \in Session : session' = [session EXCEPT ![s] = [state |-> "live", of |-> slot[q].subject]]
      BY <1>4 DEF CreateSession
    <2>3. SessionsAdmitted'
      BY <1>0, <1>4, <2>1, <2>2 DEF SessionsAdmitted, Changes, At, CreateSession, TypeOK, Admitted
    <2>4. OneAdmin' /\ AdmissionCurrent'
      BY <1>0, <1>4, <2>1 DEF CreateSession, OneAdmin, AdmissionCurrent, Changes, At, RoleFor, Admin
    <2> QED
      BY <2>3, <2>4
  <1>5. ASSUME UNCHANGED role,
               \A s \in Session : session'[s].state # "unused" =>
                 session[s].state # "unused" /\ session'[s].of = session[s].of,
               \A p \in Slot : slot'[p] = slot[p] \/ slot'[p].op \notin {"admitting", "session"}
        PROVE  Kept
    BY <1>0, <1>5 DEF OneAdmin, AdmissionCurrent, SessionsAdmitted, At, RoleFor, Admin, Admitted
  <1>6. ASSUME NEW q \in Slot, Request(q) PROVE Kept
    <2>1. Changes(q) /\ slot'[q].op \notin {"admitting", "session"}
      BY <1>6, RequestChange DEF Request, Asked
    <2>2. UNCHANGED <<role, session>>
      BY <1>6 DEF Request, SignIn, AskApproval, StartUnlock, UnlockCallback, Logout, LockedRead
    <2> QED
      BY <1>5, <2>1, <2>2 DEF Changes
  <1>7. ASSUME NEW q \in Slot,
               \/ CreateChallenge(q) \/ ClaimsRejected(q) \/ ConsumeChallenge(q) \/ GrantCheck(q)
               \/ CreateGrant(q) \/ RevokeSession(q) \/ Rows(q)
        PROVE  Kept
    <2>1. Changes(q) /\ slot'[q].op \notin {"admitting", "session"}
      BY <1>7, ServeChange DEF Answered, Moved
    <2>2. CASE RevokeSession(q)
      <3>1. session[slot[q].of].state # "unused"
        BY <2>2 DEF RevokeSession, AdminInv, LogoutsOfSessions
      <3>2. UNCHANGED role /\ session' = [session EXCEPT ![slot[q].of].state = "dead"]
        BY <2>2 DEF RevokeSession
      <3>3. \A s \in Session : session'[s].state # "unused" =>
              session[s].state # "unused" /\ session'[s].of = session[s].of
        BY <3>1, <3>2 DEF TypeOK
      <3> QED
        BY <1>5, <2>1, <3>2, <3>3 DEF Changes
    <2>3. CASE ~RevokeSession(q)
      <3>1. UNCHANGED <<role, session>>
        BY <1>7, <2>3 DEF CreateChallenge, ClaimsRejected, ConsumeChallenge, GrantCheck, CreateGrant, Rows
      <3> QED
        BY <1>5, <2>1, <3>1 DEF Changes
    <2> QED
      BY <2>2, <2>3
  <1>8. ASSUME NEW s \in Session, ExpireSession(s) PROVE Kept
    BY <1>5, <1>8 DEF ExpireSession, TypeOK
  <1>9. ASSUME Restart PROVE Kept
    <2>1. UNCHANGED <<role, session>> /\ \A p \in Slot : slot'[p].op = "idle"
      BY <1>9, Idles DEF Restart
    <2> QED
      BY <1>5, <2>1
  <1>10. ASSUME \/ \E s \in Session : Relock(s)
                \/ \E c \in Challenge : ExpireChallenge(c) \/ ExpireGrant(c)
                \/ TogglePolicy \/ UNCHANGED vars
         PROVE  Kept
    <2>1. UNCHANGED <<role, session, slot>>
      BY <1>10 DEF Relock, ExpireChallenge, ExpireGrant, TogglePolicy, vars
    <2> QED
      BY <1>5, <2>1
  <1> QED
    BY <1>1, <1>2, <1>3, <1>4, <1>6, <1>7, <1>8, <1>9, <1>10 DEF Next, Serve
-----------------------------------------------------------------------------
(***************************************************************************)
(* How a challenge, its grant and its callbacks move.                      *)
(***************************************************************************)
(* A callback that has consumed challenge c and may still make its grant. *)
Pending(q, c) == slot[q].op \in {"grantable", "policy", "grant"} /\ slot[q].for = c

(* A used challenge keeps its owner and its runtime, and only an open one    *)
(* changes its state; relock does not touch any other.                       *)
Onward(c) ==
  /\ challenge'[c].of = challenge[c].of /\ challenge'[c].runtime = challenge[c].runtime
  /\ challenge'[c].state \in {"consumed", "dead"} \cup {challenge[c].state}
  /\ challenge[c].state # "open" => challenge'[c].state = challenge[c].state

LEMMA RevokedOnward ==
  ASSUME TypeOK, NEW s \in Session, Revoked(s), NEW c \in Challenge
  PROVE  Onward(c) /\ (grant'[c] = "live" => grant[c] = "live")
  <1>1. challenge'[c] = challenge[c] \/ (challenge[c].state = "open"
          /\ challenge'[c] = [challenge[c] EXCEPT !.state = "dead"])
    BY DEF Revoked
  <1>2. Onward(c)
    BY <1>1 DEF Onward, TypeOK
  <1>3. grant'[c] = "live" => grant[c] = "live"
    BY DEF Revoked
  <1> QED
    BY <1>2, <1>3

LEMMA ChallengeOnward ==
  ASSUME TypeOK, [Next]_vars, NEW c \in Challenge, challenge[c].state # "unused"
  PROVE  Onward(c)
  <1>1. ASSUME NEW q \in Slot, CreateChallenge(q) PROVE Onward(c)
    BY <1>1 DEF CreateChallenge, Onward, TypeOK
  <1>2. ASSUME NEW q \in Slot, ConsumeChallenge(q) PROVE Onward(c)
    BY <1>2 DEF ConsumeChallenge, Open, Onward, TypeOK
  <1>3. ASSUME UNCHANGED challenge PROVE Onward(c)
    BY <1>3 DEF Onward
  <1>4. ASSUME NEW q \in Slot, Logout(q) PROVE Onward(c)
    BY <1>3, <1>4, RevokedOnward DEF Logout
  <1>5. ASSUME NEW s \in Session, Relock(s) PROVE Onward(c)
    BY <1>5, RevokedOnward DEF Relock
  <1>6. ASSUME NEW d \in Challenge, ExpireChallenge(d) PROVE Onward(c)
    BY <1>6 DEF ExpireChallenge, Onward, TypeOK
  <1>7. ASSUME NEW q \in Slot,
               \/ SignIn(q) \/ AskApproval(q) \/ StartUnlock(q) \/ UnlockCallback(q) \/ LockedRead(q)
               \/ AdmitRead(q) \/ AdmitCommit(q) \/ CreateSession(q) \/ Approve(q) \/ ClaimsRejected(q)
               \/ GrantCheck(q) \/ CreateGrant(q) \/ RevokeSession(q) \/ Rows(q)
        PROVE  UNCHANGED challenge
    BY <1>7 DEF SignIn, AskApproval, StartUnlock, UnlockCallback, LockedRead, AdmitRead, AdmitCommit,
                CreateSession, Approve, ClaimsRejected, GrantCheck, CreateGrant, RevokeSession, Rows
  <1>8. ASSUME \/ \E s \in Session : ExpireSession(s)
               \/ \E d \in Challenge : ExpireGrant(d)
               \/ TogglePolicy \/ Restart \/ UNCHANGED vars
        PROVE  UNCHANGED challenge
    BY <1>8 DEF ExpireSession, ExpireGrant, TogglePolicy, Restart, vars
  <1> QED
    BY <1>1, <1>2, <1>3, <1>4, <1>5, <1>6, <1>7, <1>8 DEF Next, Request, Serve

(* A callback comes to be able to make a grant only by consuming the         *)
(* challenge while it is open.                                               *)
LEMMA PendingOnward ==
  ASSUME TypeOK, [Next]_vars, NEW q \in Slot, NEW c \in Challenge, Pending(q, c)'
  PROVE  \/ Pending(q, c)
         \/ /\ challenge[c].state = "open" /\ challenge'[c].state = "consumed" /\ UNCHANGED made
            /\ \A p \in Slot : p # q => slot'[p] = slot[p]
  <1>1. ASSUME NEW p \in Slot, Changes(p), slot'[p].op \notin {"grantable", "policy", "grant"}
        PROVE  Pending(q, c)
    BY <1>1 DEF Changes, Pending
  <1>2. ASSUME NEW p \in Slot, GrantCheck(p) PROVE Pending(q, c)
    BY <1>2, ServeChange DEF Answered, Moved, Changes, Pending, At
  <1>3. ASSUME NEW p \in Slot, ConsumeChallenge(p), Open(slot[p].for, slot[p].of)
        PROVE  \/ Pending(q, c)
               \/ /\ challenge[c].state = "open" /\ challenge'[c].state = "consumed" /\ UNCHANGED made
                  /\ \A k \in Slot : k # q => slot'[k] = slot[k]
    <2>1. /\ Changes(p) /\ slot'[p].for = slot[p].for
      BY <1>3, ServeChange DEF Moved
    <2>2. CASE p # q
      BY <2>1, <2>2 DEF Changes, Pending
    <2>3. CASE p = q
      <3>1. challenge' = [challenge EXCEPT ![c].state = "consumed"] /\ challenge[c].state = "open"
        BY <1>3, <2>1, <2>3 DEF ConsumeChallenge, Open, Pending
      <3> QED
        BY <1>3, <2>1, <2>3, <3>1 DEF ConsumeChallenge, Changes, TypeOK
    <2> QED
      BY <2>2, <2>3
  <1>4. ASSUME NEW p \in Slot,
               \/ Request(p) \/ AdmitRead(p) \/ AdmitCommit(p) \/ CreateSession(p) \/ Approve(p)
               \/ CreateChallenge(p) \/ ClaimsRejected(p) \/ CreateGrant(p) \/ RevokeSession(p) \/ Rows(p)
               \/ ConsumeChallenge(p) /\ ~Open(slot[p].for, slot[p].of)
        PROVE  Changes(p) /\ slot'[p].op \notin {"grantable", "policy", "grant"}
    BY <1>4, RequestChange, ServeChange, AdmitChange DEF Request, Asked, Answered
  <1>5. ASSUME Restart PROVE FALSE
    BY <1>5, Idles DEF Restart, Pending
  <1>6. ASSUME \/ \E s \in Session : Relock(s) \/ ExpireSession(s)
               \/ \E d \in Challenge : ExpireChallenge(d) \/ ExpireGrant(d)
               \/ TogglePolicy \/ UNCHANGED vars
        PROVE  Pending(q, c)
    BY <1>6 DEF Relock, ExpireSession, ExpireChallenge, ExpireGrant, TogglePolicy, vars, Pending
  <1> QED
    BY <1>1, <1>2, <1>3, <1>4, <1>5, <1>6 DEF Next, Serve

(* A grant is made by a callback that was able to, and then no longer is. *)
Granting(c) ==
  /\ made'[c] = made[c] + 1
  /\ \E q \in Slot : Pending(q, c) /\ ~Pending(q, c)'

LEMMA GrantOnward ==
  ASSUME TypeOK, [Next]_vars, NEW c \in Challenge
  PROVE  \/ made'[c] = made[c] /\ (grant'[c] = "live" => grant[c] = "live")
         \/ Granting(c)
  <1> DEFINE Same == made'[c] = made[c] /\ (grant'[c] = "live" => grant[c] = "live")
  <1>1. ASSUME NEW q \in Slot, CreateGrant(q) PROVE Same \/ Granting(c)
    <2>1. Answered(q, "grant")
      BY <1>1, ServeChange
    <2>2. CASE slot[q].for = c
      BY <1>1, <2>1, <2>2 DEF CreateGrant, TypeOK, Granting, Pending, Answered, At
    <2>3. CASE slot[q].for # c
      BY <1>1, <2>3 DEF CreateGrant, TypeOK
    <2> QED
      BY <2>2, <2>3
  <1>2. ASSUME NEW q \in Slot, Logout(q) PROVE Same
    BY <1>2, RevokedOnward DEF Logout
  <1>3. ASSUME NEW s \in Session, Relock(s) PROVE Same
    BY <1>3, RevokedOnward DEF Relock
  <1>4. ASSUME NEW d \in Challenge, ExpireGrant(d) PROVE Same
    BY <1>4 DEF ExpireGrant, TypeOK
  <1>5. ASSUME NEW q \in Slot,
               \/ SignIn(q) \/ AskApproval(q) \/ StartUnlock(q) \/ UnlockCallback(q) \/ LockedRead(q)
               \/ AdmitRead(q) \/ AdmitCommit(q) \/ CreateSession(q) \/ Approve(q) \/ CreateChallenge(q)
               \/ ClaimsRejected(q) \/ ConsumeChallenge(q) \/ GrantCheck(q) \/ RevokeSession(q) \/ Rows(q)
        PROVE  Same
    BY <1>5 DEF SignIn, AskApproval, StartUnlock, UnlockCallback, LockedRead, AdmitRead, AdmitCommit,
                CreateSession, Approve, CreateChallenge, ClaimsRejected, ConsumeChallenge, GrantCheck,
                RevokeSession, Rows
  <1>6. ASSUME \/ \E s \in Session : ExpireSession(s)
               \/ \E d \in Challenge : ExpireChallenge(d)
               \/ TogglePolicy \/ Restart \/ UNCHANGED vars
        PROVE  Same
    BY <1>6 DEF ExpireSession, ExpireChallenge, TogglePolicy, Restart, vars
  <1> QED
    BY <1>1, <1>2, <1>3, <1>4, <1>5, <1>6 DEF Next, Request, Serve

-----------------------------------------------------------------------------
(***************************************************************************)
(* One grant of a challenge.                                               *)
(***************************************************************************)
UsedInv ==
  /\ \A c \in Challenge :
       /\ made[c] <= 1
       /\ made[c] > 0 => challenge[c].state = "consumed"
       /\ grant[c] = "live" => made[c] > 0
  /\ \A c \in Challenge, q \in Slot :
       Pending(q, c) => challenge[c].state = "consumed" /\ made[c] = 0
  /\ \A c \in Challenge, p, q \in Slot : Pending(p, c) /\ Pending(q, c) => p = q

LEMMA UsedStep ==
  ASSUME TypeOK, UsedInv, [Next]_vars
  PROVE  UsedInv'
  <1>0. made \in [Challenge -> Nat]
    BY DEF TypeOK
  <1>1. ASSUME NEW c \in Challenge, challenge[c].state = "consumed"
        PROVE  challenge'[c].state = "consumed"
    BY <1>1, ChallengeOnward DEF Onward
  <1>2. ASSUME NEW c \in Challenge
        PROVE  /\ made'[c] <= 1
               /\ made'[c] > 0 => challenge'[c].state = "consumed"
               /\ grant'[c] = "live" => made'[c] > 0
    <2>1. CASE made'[c] = made[c] /\ (grant'[c] = "live" => grant[c] = "live")
      BY <1>1, <2>1 DEF UsedInv
    <2>2. CASE Granting(c)
      BY <1>1, <2>2 DEF UsedInv, Granting
    <2> QED
      BY <2>1, <2>2, GrantOnward
  <1>3. ASSUME NEW c \in Challenge, NEW q \in Slot, Pending(q, c)'
        PROVE  challenge'[c].state = "consumed" /\ made'[c] = 0
    <2>1. CASE Pending(q, c)
      <3>1. ~Granting(c)
        BY <1>3, <2>1 DEF UsedInv, Granting
      <3> QED
        BY <1>1, <2>1, <3>1, GrantOnward DEF UsedInv
    <2>2. CASE challenge[c].state = "open" /\ challenge'[c].state = "consumed" /\ UNCHANGED made
      BY <1>0, <2>2 DEF UsedInv
    <2> QED
      BY <1>3, <2>1, <2>2, PendingOnward
  <1>4. ASSUME NEW c \in Challenge, NEW p \in Slot, NEW q \in Slot, Pending(p, c)', Pending(q, c)'
        PROVE  p = q
    <2>1. CASE Pending(p, c) /\ Pending(q, c)
      BY <2>1 DEF UsedInv
    <2>2. CASE ~Pending(q, c)
      <3>1. challenge[c].state = "open" /\ \A k \in Slot : k # q => slot'[k] = slot[k]
        BY <1>4, <2>2, PendingOnward
      <3> QED
        BY <1>4, <3>1 DEF UsedInv, Pending
    <2>3. CASE ~Pending(p, c)
      <3>1. challenge[c].state = "open" /\ \A k \in Slot : k # p => slot'[k] = slot[k]
        BY <1>4, <2>3, PendingOnward
      <3> QED
        BY <1>4, <3>1 DEF UsedInv, Pending
    <2> QED
      BY <2>1, <2>2, <2>3
  <1> QED
    BY <1>2, <1>3, <1>4 DEF UsedInv
-----------------------------------------------------------------------------
(***************************************************************************)
(* What is shut stays shut: a challenge that a restart, a logout or a      *)
(* relock has ended can be covered by no grant any more, for a reason that *)
(* no later step takes away.                                               *)
(***************************************************************************)
OfEarlierRuntime(c) == challenge[c].runtime < runtime
OfDeadSession(c) == challenge[c].of \in Session /\ session[challenge[c].of].state = "dead"
Revocation(c) ==
  /\ challenge[c].state # "open" /\ grant[c] # "live"
  /\ \A q \in Slot : ~Pending(q, c)

Ended(c) ==
  /\ challenge[c].state # "unused"
  /\ OfEarlierRuntime(c) \/ OfDeadSession(c) \/ Revocation(c)

ShutInv ==
  /\ \A c \in shut : Ended(c)
  /\ \A c \in Challenge :
       /\ challenge[c].runtime <= runtime
       /\ challenge[c].state = "unused" => challenge[c].of = None

(* Sessions do not come back, nor do runtimes. *)
LEMMA ClockOnward ==
  ASSUME TypeOK, [Next]_vars
  PROVE  /\ runtime' >= runtime
         /\ \A s \in Session : session[s].state = "dead" => session'[s].state = "dead"
  <1>1. ASSUME Restart PROVE runtime' = runtime + 1 /\ UNCHANGED session
    BY <1>1 DEF Restart
  <1>2. ASSUME NEW q \in Slot, CreateSession(q) \/ RevokeSession(q)
        PROVE  /\ UNCHANGED runtime
               /\ \A s \in Session : session[s].state = "dead" => session'[s].state = "dead"
    BY <1>2 DEF CreateSession, RevokeSession, TypeOK
  <1>3. ASSUME NEW s \in Session, ExpireSession(s)
        PROVE  /\ UNCHANGED runtime
               /\ \A t \in Session : session[t].state = "dead" => session'[t].state = "dead"
    BY <1>3 DEF ExpireSession, TypeOK
  <1>4. ASSUME NEW q \in Slot,
               \/ Request(q) \/ AdmitRead(q) \/ AdmitCommit(q) \/ Approve(q) \/ CreateChallenge(q)
               \/ ClaimsRejected(q) \/ ConsumeChallenge(q) \/ GrantCheck(q) \/ CreateGrant(q) \/ Rows(q)
        PROVE  UNCHANGED <<session, runtime>>
    BY <1>4 DEF Request, SignIn, AskApproval, StartUnlock, UnlockCallback, Logout, LockedRead,
                AdmitRead, AdmitCommit, Approve, CreateChallenge, ClaimsRejected, ConsumeChallenge,
                GrantCheck, CreateGrant, Rows
  <1>5. ASSUME \/ \E s \in Session : Relock(s)
               \/ \E c \in Challenge : ExpireChallenge(c) \/ ExpireGrant(c)
               \/ TogglePolicy \/ UNCHANGED vars
        PROVE  UNCHANGED <<session, runtime>>
    BY <1>5 DEF Relock, ExpireChallenge, ExpireGrant, TogglePolicy, vars
  <1>6. runtime \in Nat
    BY DEF TypeOK
  <1> QED
    BY <1>1, <1>2, <1>3, <1>4, <1>5, <1>6 DEF Next, Serve

LEMMA EndedStays ==
  ASSUME TypeOK, UsedInv, [Next]_vars, NEW c \in Challenge, Ended(c)
  PROVE  Ended(c)'
  <1>1. Onward(c)
    BY ChallengeOnward DEF Ended
  <1>2. /\ challenge[c].runtime \in Nat /\ runtime \in Nat /\ runtime' \in Nat
    BY RowTypesStep DEF TypeOK, RowTypes
  <1>3. challenge'[c].state # "unused"
    BY <1>1 DEF Ended, Onward
  <1>4. OfEarlierRuntime(c) => OfEarlierRuntime(c)'
    BY <1>1, <1>2, ClockOnward DEF OfEarlierRuntime, Onward
  <1>5. OfDeadSession(c) => OfDeadSession(c)'
    BY <1>1, ClockOnward DEF OfDeadSession, Onward
  <1>6. ASSUME Revocation(c) PROVE Revocation(c)'
    <2>1. challenge'[c].state # "open"
      BY <1>1, <1>6 DEF Onward, Revocation
    <2>2. \A q \in Slot : ~Pending(q, c)'
      BY <1>6, PendingOnward DEF Revocation
    <2>3. grant'[c] # "live"
      BY <1>6, GrantOnward DEF Revocation, Granting
    <2> QED
      BY <2>1, <2>2, <2>3 DEF Revocation
  <1> QED
    BY <1>3, <1>4, <1>5, <1>6 DEF Ended

(* A relock ends the challenges it finds open and the grants it finds live.  *)
LEMMA RevokedEnds ==
  ASSUME TypeOK, UsedInv, [Next]_vars, NEW s \in Session, Revoked(s),
         NEW c \in shut' \ shut
  PROVE  c \in Challenge /\ Ended(c)'
  <1>1. c \in Challenge /\ (challenge[c].state = "open" \/ grant[c] = "live")
    BY DEF Revoked, Of, TypeOK
  <1>2. c \in Of(s)
    BY DEF Revoked, Of
  <1>3. grant'[c] # "live"
    BY <1>1, <1>2 DEF Revoked
  <1>4. challenge'[c].state \notin {"open", "unused"}
    <2>1. CASE challenge[c].state = "open"
      BY <1>1, <1>2, <2>1 DEF Revoked, TypeOK
    <2>2. CASE challenge[c].state # "open"
      <3>1. challenge[c].state = "consumed"
        BY <1>1, <2>2 DEF UsedInv
      <3> QED
        BY <1>1, <3>1, ChallengeOnward DEF Onward
    <2> QED
      BY <2>1, <2>2
  <1>5. \A q \in Slot : ~Pending(q, c)
    BY <1>1 DEF UsedInv, TypeOK
  <1>6. \A q \in Slot : ~Pending(q, c)'
    <2>1. CASE challenge[c].state = "open"
      <3>1. challenge'[c].state = "dead"
        BY <1>1, <1>2, <2>1 DEF Revoked, TypeOK
      <3> QED
        BY <1>1, <1>5, <3>1, PendingOnward
    <2>2. CASE challenge[c].state # "open"
      BY <1>1, <1>5, <2>2, PendingOnward
    <2> QED
      BY <2>1, <2>2
  <1> QED
    BY <1>1, <1>3, <1>4, <1>6 DEF Ended, Revocation

(* What a logout or a restart adds to them. *)
LEMMA ShutGrows ==
  ASSUME TypeOK, UsedInv, ShutInv, AdminInv, [Next]_vars, NEW c \in shut' \ shut
  PROVE  c \in Challenge /\ Ended(c)'
  <1>1. ASSUME NEW q \in Slot, Logout(q) PROVE c \in Challenge /\ Ended(c)'
    BY <1>1, RevokedEnds DEF Logout
  <1>2. ASSUME NEW s \in Session, Relock(s) PROVE c \in Challenge /\ Ended(c)'
    BY <1>2, RevokedEnds DEF Relock
  <1>3. ASSUME NEW q \in Slot, RevokeSession(q) PROVE c \in Challenge /\ Ended(c)'
    <2> DEFINE s == slot[q].of
    <2>1. s \in Session
      BY <1>3, Carried DEF RevokeSession, At, TypeOK
    <2>2. c \in Challenge /\ challenge[c].of = s
      BY <1>3 DEF RevokeSession, Of
    <2>3. session' = [session EXCEPT ![s].state = "dead"] /\ UNCHANGED challenge
      BY <1>3 DEF RevokeSession
    <2>4. challenge[c].state # "unused"
      BY <2>1, <2>2, AccessAssumption DEF ShutInv
    <2>5. session'[s].state = "dead"
      BY <2>1, <2>3 DEF TypeOK
    <2> HIDE DEF s
    <2> QED
      BY <2>1, <2>2, <2>3, <2>4, <2>5 DEF Ended, OfDeadSession
  <1>4. ASSUME Restart PROVE c \in Challenge /\ Ended(c)'
    <2>1. /\ c \in Challenge /\ challenge[c].state # "unused"
          /\ runtime' = runtime + 1 /\ UNCHANGED challenge
      BY <1>4 DEF Restart
    <2>2. challenge[c].runtime <= runtime /\ challenge[c].runtime \in Nat /\ runtime \in Nat
      BY <2>1 DEF ShutInv, TypeOK
    <2> QED
      BY <2>1, <2>2 DEF Ended, OfEarlierRuntime
  <1>5. ASSUME NEW q \in Slot,
               \/ SignIn(q) \/ AskApproval(q) \/ StartUnlock(q) \/ UnlockCallback(q) \/ LockedRead(q)
               \/ AdmitRead(q) \/ AdmitCommit(q) \/ CreateSession(q) \/ Approve(q) \/ CreateChallenge(q)
               \/ ClaimsRejected(q) \/ ConsumeChallenge(q) \/ GrantCheck(q) \/ CreateGrant(q) \/ Rows(q)
        PROVE  UNCHANGED shut
    BY <1>5 DEF SignIn, AskApproval, StartUnlock, UnlockCallback, LockedRead, AdmitRead, AdmitCommit,
                CreateSession, Approve, CreateChallenge, ClaimsRejected, ConsumeChallenge, GrantCheck,
                CreateGrant, Rows
  <1>6. ASSUME \/ \E s \in Session : ExpireSession(s)
               \/ \E d \in Challenge : ExpireChallenge(d) \/ ExpireGrant(d)
               \/ TogglePolicy \/ UNCHANGED vars
        PROVE  UNCHANGED shut
    BY <1>6 DEF ExpireSession, ExpireChallenge, ExpireGrant, TogglePolicy, vars
  <1> QED
    BY <1>1, <1>2, <1>3, <1>4, <1>5, <1>6 DEF Next, Request, Serve

(* A challenge belongs to nobody until it is created, and then to the        *)
(* process that runs.                                                        *)
LEMMA ChallengeRowsStep ==
  ASSUME TypeOK, ShutInv, [Next]_vars, NEW c \in Challenge
  PROVE  /\ challenge'[c].runtime <= runtime'
         /\ challenge'[c].state = "unused" => challenge'[c].of = None
  <1>0. runtime \in Nat /\ runtime' \in Nat /\ challenge[c].runtime \in Nat /\ runtime' >= runtime
    BY RowTypesStep, ClockOnward DEF RowTypes, TypeOK
  <1>1. CASE challenge[c].state # "unused"
    BY <1>0, <1>1, ChallengeOnward DEF Onward, ShutInv
  <1>2. CASE challenge[c].state = "unused"
    <2>1. ASSUME UNCHANGED challenge
          PROVE  /\ challenge'[c].runtime <= runtime'
                 /\ challenge'[c].state = "unused" => challenge'[c].of = None
      BY <1>0, <2>1 DEF ShutInv
    <2>2. ASSUME NEW q \in Slot, CreateChallenge(q)
          PROVE  /\ challenge'[c].runtime <= runtime'
                 /\ challenge'[c].state = "unused" => challenge'[c].of = None
      BY <1>0, <2>2 DEF CreateChallenge, ShutInv, TypeOK
    <2>3. ASSUME challenge'[c] = challenge[c]
          PROVE  /\ challenge'[c].runtime <= runtime'
                 /\ challenge'[c].state = "unused" => challenge'[c].of = None
      BY <1>0, <2>3 DEF ShutInv
    <2>4. ASSUME NEW q \in Slot, ConsumeChallenge(q) PROVE challenge'[c] = challenge[c]
      BY <1>2, <2>4 DEF ConsumeChallenge, Open, TypeOK
    <2>5. ASSUME NEW d \in Challenge, ExpireChallenge(d) PROVE challenge'[c] = challenge[c]
      BY <1>2, <2>5 DEF ExpireChallenge, TypeOK
    <2>6. ASSUME NEW s \in Session, Revoked(s) PROVE challenge'[c] = challenge[c]
      BY <1>2, <2>6 DEF Revoked, TypeOK
    <2>7. ASSUME NEW q \in Slot, Logout(q) PROVE challenge'[c] = challenge[c]
      BY <2>6, <2>7 DEF Logout
    <2>8. ASSUME NEW q \in Slot,
                 \/ SignIn(q) \/ AskApproval(q) \/ StartUnlock(q) \/ UnlockCallback(q) \/ LockedRead(q)
                 \/ AdmitRead(q) \/ AdmitCommit(q) \/ CreateSession(q) \/ Approve(q) \/ ClaimsRejected(q)
                 \/ GrantCheck(q) \/ CreateGrant(q) \/ RevokeSession(q) \/ Rows(q)
          PROVE  UNCHANGED challenge
      BY <2>8 DEF SignIn, AskApproval, StartUnlock, UnlockCallback, LockedRead, AdmitRead, AdmitCommit,
                  CreateSession, Approve, ClaimsRejected, GrantCheck, CreateGrant, RevokeSession, Rows
    <2>9. ASSUME \/ \E s \in Session : ExpireSession(s)
                 \/ \E d \in Challenge : ExpireGrant(d)
                 \/ TogglePolicy \/ Restart \/ UNCHANGED vars
          PROVE  UNCHANGED challenge
      BY <2>9 DEF ExpireSession, ExpireGrant, TogglePolicy, Restart, vars
    <2>10. ASSUME NEW s \in Session, Relock(s) PROVE challenge'[c] = challenge[c]
      BY <2>6, <2>10 DEF Relock
    <2> QED
      BY <2>1, <2>2, <2>3, <2>4, <2>5, <2>7, <2>8, <2>9, <2>10 DEF Next, Request, Serve
  <1> QED
    BY <1>1, <1>2

LEMMA ShutStep ==
  ASSUME TypeOK, UsedInv, ShutInv, AdminInv, [Next]_vars
  PROVE  ShutInv'
  <1>1. ASSUME NEW c \in shut' PROVE Ended(c)'
    <2>1. CASE c \in shut
      BY <2>1, EndedStays DEF ShutInv, TypeOK
    <2>2. CASE c \notin shut
      BY <1>1, <2>2, ShutGrows
    <2> QED
      BY <2>1, <2>2
  <1> QED
    BY <1>1, ChallengeRowsStep DEF ShutInv

-----------------------------------------------------------------------------
(***************************************************************************)
(* The theorems.                                                           *)
(***************************************************************************)
Invariant == TypeOK /\ AdminInv /\ UsedInv /\ ShutInv

LEMMA InvariantAlways == Spec => []Invariant
  <1>1. Init => Invariant
    <2> SUFFICES ASSUME Init PROVE Invariant
      OBVIOUS
    <2>1. \A q \in Slot : slot[q].op = "idle"
      BY Idles DEF Init
    <2>2. AdminInv
      BY <2>1 DEF Init, AdminInv, OneAdmin, AdmissionCurrent, SessionsAdmitted, LogoutsOfSessions, At
    <2>3. UsedInv /\ ShutInv
      BY <2>1 DEF Init, UsedInv, ShutInv, Pending
    <2> QED
      BY <2>2, <2>3, TypeInit DEF Invariant
  <1>2. Invariant /\ [Next]_vars => Invariant'
    BY TypeStep, AdminStep, LogoutStep, UsedStep, ShutStep DEF Invariant, AdminInv
  <1> QED
    BY <1>1, <1>2, PTL DEF Spec

(* Every row and request has its type, and the admission's advisory lock is *)
(* held by the request that is admitting somebody.                          *)
THEOREM TypeCorrect == Spec => []TypeOK
  BY TypeAlways

(* However sign-ins (findOrCreate) and approvals interleave, an archive     *)
(* with identities has exactly one administrator, and only the admitted     *)
(* hold sessions.                                                           *)
THEOREM OneAdministratorAlways == Spec => []OneAdministrator
  <1>1. Invariant => OneAdministrator
    BY FS_Singleton DEF Invariant, AdminInv, OneAdmin, SessionsAdmitted, OneAdministrator
  <1> QED
    BY <1>1, InvariantAlways, PTL

(* A challenge is turned into at most one grant, however often its callback *)
(* arrives and whatever relock does meanwhile.                              *)
THEOREM ChallengesUsedOnce == Spec => []ChallengeUsedOnce
  <1>1. Invariant => ChallengeUsedOnce
    BY DEF Invariant, UsedInv, ChallengeUsedOnce
  <1> QED
    BY <1>1, InvariantAlways, PTL

(* No grant covers a locked read that a relock, a logout or a restart has   *)
(* ended, not even one that a callback in progress makes later.             *)
THEOREM ShutForGood == Spec => []ShutStaysShut
  <1>1. ASSUME Invariant PROVE ShutStaysShut
    <2> SUFFICES ASSUME NEW c \in shut, NEW s \in Session, Covers(c, s) PROVE FALSE
      BY DEF ShutStaysShut
    <2>1. c \in Challenge /\ Ended(c)
      BY <1>1 DEF Invariant, ShutInv, TypeOK
    <2>2. challenge[c].runtime \in Nat /\ challenge[c].runtime = runtime
      BY <1>1, <2>1 DEF Invariant, TypeOK, Covers, GrantRow
    <2>3. ~OfEarlierRuntime(c)
      BY <2>2 DEF OfEarlierRuntime
    <2> QED
      BY <2>1, <2>3 DEF Covers, GrantRow, SessionLive, Ended, OfDeadSession, Revocation
  <1> QED
    BY <1>1, InvariantAlways, PTL
=============================================================================
