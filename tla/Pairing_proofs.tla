--------------------------- MODULE Pairing_proofs ---------------------------
(***************************************************************************)
(* Proofs about Pairing, for every number of accounts, requests, sessions, *)
(* processes and calls, and every number of faults and restarts.           *)
(***************************************************************************)
EXTENDS Pairing, TLAPS

LEMMA Values ==
  /\ None \notin Slot /\ None \notin Account /\ None \notin Child /\ None \notin Session
  /\ Settled \notin Slot /\ Settled # None
  BY PairingAssumption DEF Settled

LEMMA FreeSlotIsFree ==
  ASSUME HasSlot PROVE FreeSlot \in Slot /\ call[FreeSlot].op = "none"
  BY DEF HasSlot, FreeSlot

LEMMA Records == Free \in Calls /\ Idle \in Requests /\ Unused \in Sessions
  <1>1. Free \in Calls
    BY DEF Free, Calls
  <1>2. Idle \in Requests
    BY DEF Idle, Requests
  <1>3. Unused \in Sessions
    BY DEF Unused, Sessions
  <1> QED
    BY <1>1, <1>2, <1>3

-----------------------------------------------------------------------------
(***************************************************************************)
(* What the steps do to requests, sessions and calls.                      *)
(***************************************************************************)
SameRequest(r) ==
  /\ req'[r].op = req[r].op /\ req'[r].acct = req[r].acct /\ req'[r].sess = req[r].sess
  /\ req'[r].pc = req[r].pc

(* A session keeps its account, its process and its place in the map.       *)
SameSession(s) ==
  /\ sess'[s].acct = sess[s].acct /\ sess'[s].child = sess[s].child
  /\ sess'[s].age = sess[s].age /\ sess'[s].listed = sess[s].listed

LEMMA IssueFacts ==
  ASSUME SideTypes, NEW r, NEW op \in {"pair", "cancel"}, NEW to \in Account, Issue(r, op, to)
  PROVE  /\ FreeSlot \in Slot /\ call[FreeSlot].op = "none"
         /\ call' \in [Slot -> Calls]
         /\ \A j \in Slot \ {FreeSlot} : call'[j] = call[j]
         /\ call'[FreeSlot].op = op /\ call'[FreeSlot].acct = to
         /\ call'[FreeSlot].pc = "start"
  <1> DEFINE x == [Free EXCEPT !.op = op, !.acct = to, !.pc = "start"]
  <1>1. FreeSlot \in Slot /\ call[FreeSlot].op = "none"
    BY FreeSlotIsFree DEF Issue
  <1>2. x \in Calls /\ x.op = op /\ x.acct = to /\ x.pc = "start"
    BY DEF Free, Calls
  <1>3. call' = [call EXCEPT ![FreeSlot] = x]
    BY DEF Issue
  <1> HIDE DEF x
  <1> QED
    BY <1>1, <1>2, <1>3 DEF SideTypes

LEMMA ExpireFacts ==
  ASSUME WebTypes, SideTypes, NEW r \in Request, NEW s \in Session, sess[s].acct \in Account,
         NEW pc \in {"prune", "own", "return"}, NEW todo \in SUBSET Session,
         Expire(r, s, pc, todo)
  PROVE  /\ req' \in [Request -> Requests] /\ sess' \in [Session -> Sessions]
         /\ call' \in [Slot -> Calls]
         /\ \A q \in Request \ {r} : req'[q] = req[q]
         /\ req'[r].op = req[r].op /\ req'[r].acct = req[r].acct /\ req'[r].sess = req[r].sess
         /\ req'[r].ok = req[r].ok /\ req'[r].pc = pc
         /\ \A t \in Session \ {s} : sess'[t] = sess[t]
         /\ SameSession(s)
         /\ \/ /\ sess[s].cancel = Settled /\ req'[r].wait = None /\ call' = call
               /\ sess'[s].cancel = Settled /\ sess'[s].state = "expired"
            \/ /\ sess[s].cancel \in Slot /\ req'[r].wait = sess[s].cancel /\ call' = call
               /\ sess' = sess
            \/ \E k \in Slot :
                 /\ call[k].op = "none" /\ sess[s].cancel = None /\ req'[r].wait = k
                 /\ sess'[s].cancel = k /\ sess'[s].state = sess[s].state
                 /\ \A j \in Slot \ {k} : call'[j] = call[j]
                 /\ call'[k].op = "cancel" /\ call'[k].acct = sess[s].acct
                 /\ call'[k].pc = "start"
  <1>1. ASSUME NEW k \in Slot \cup {None},
               req' = [req EXCEPT ![r].wait = k, ![r].pc = pc, ![r].todo = todo]
        PROVE  /\ req' \in [Request -> Requests]
               /\ \A q \in Request \ {r} : req'[q] = req[q]
               /\ req'[r].op = req[r].op /\ req'[r].acct = req[r].acct /\ req'[r].sess = req[r].sess
               /\ req'[r].ok = req[r].ok /\ req'[r].pc = pc /\ req'[r].wait = k
    <2> DEFINE o == req[r]
    <2>1. o \in Requests
      BY DEF WebTypes
    <2> HIDE DEF o
    <2> DEFINE x == [o EXCEPT !.wait = k, !.pc = pc, !.todo = todo]
    <2>2. /\ x \in Requests
          /\ x.op = o.op /\ x.acct = o.acct /\ x.sess = o.sess /\ x.ok = o.ok
          /\ x.pc = pc /\ x.wait = k
      BY <2>1 DEF Requests
    <2>3. req' = [req EXCEPT ![r] = x]
      BY <1>1 DEF o
    <2> HIDE DEF x
    <2> QED
      BY <2>2, <2>3 DEF WebTypes, o
  <1>2. CASE sess[s].cancel = Settled /\ req' = [req EXCEPT ![r].wait = None, ![r].pc = pc, ![r].todo = todo]
             /\ UNCHANGED call /\ sess' = [sess EXCEPT ![s].state = "expired"]
    <2> DEFINE o == sess[s]
    <2>1. o \in Sessions
      BY DEF WebTypes
    <2> HIDE DEF o
    <2> DEFINE x == [o EXCEPT !.state = "expired"]
    <2>2. /\ x \in Sessions /\ x.acct = o.acct /\ x.child = o.child /\ x.age = o.age
          /\ x.listed = o.listed /\ x.cancel = o.cancel /\ x.state = "expired"
      BY <2>1 DEF Sessions
    <2>3. sess' = [sess EXCEPT ![s] = x]
      BY <1>2 DEF o
    <2> HIDE DEF x
    <2>4. /\ sess' \in [Session -> Sessions] /\ \A t \in Session \ {s} : sess'[t] = sess[t]
          /\ sess'[s] = x
      BY <2>2, <2>3 DEF WebTypes
    <2>5. SameSession(s) /\ sess'[s].cancel = Settled /\ sess'[s].state = "expired"
      BY <1>2, <2>2, <2>4 DEF SameSession, o
    <2> QED
      BY <1>1, <1>2, <2>4, <2>5 DEF SideTypes
  <1>3. CASE sess[s].cancel \in Slot /\ UNCHANGED <<call, sess>>
             /\ req' = [req EXCEPT ![r].wait = sess[s].cancel, ![r].pc = pc, ![r].todo = todo]
    BY <1>1, <1>3 DEF WebTypes, SideTypes, SameSession
  <1>4. CASE sess[s].cancel = None /\ Issue(r, "cancel", sess[s].acct)
             /\ req' = [req EXCEPT ![r].wait = FreeSlot, ![r].pc = pc, ![r].todo = todo]
             /\ sess' = [sess EXCEPT ![s].cancel = FreeSlot]
    <2> DEFINE o == sess[s]
    <2>1. o \in Sessions
      BY DEF WebTypes
    <2> HIDE DEF o
    <2> DEFINE x == [o EXCEPT !.cancel = FreeSlot]
    <2>2. /\ FreeSlot \in Slot /\ call[FreeSlot].op = "none"
          /\ call' \in [Slot -> Calls]
          /\ \A j \in Slot \ {FreeSlot} : call'[j] = call[j]
          /\ call'[FreeSlot].op = "cancel" /\ call'[FreeSlot].acct = sess[s].acct
          /\ call'[FreeSlot].pc = "start"
      BY <1>4, IssueFacts
    <2>3. /\ x \in Sessions /\ x.acct = o.acct /\ x.child = o.child /\ x.age = o.age
          /\ x.listed = o.listed /\ x.cancel = FreeSlot /\ x.state = o.state
      BY <2>1, <2>2 DEF Sessions
    <2>4. sess' = [sess EXCEPT ![s] = x]
      BY <1>4 DEF o
    <2> HIDE DEF x
    <2>5. /\ sess' \in [Session -> Sessions] /\ \A t \in Session \ {s} : sess'[t] = sess[t]
          /\ sess'[s] = x
      BY <2>3, <2>4 DEF WebTypes
    <2>6. SameSession(s) /\ sess'[s].cancel = FreeSlot /\ sess'[s].state = sess[s].state
      BY <2>3, <2>5 DEF SameSession, o
    <2> QED
      BY <1>1, <1>4, <2>2, <2>5, <2>6
  <1> QED
    BY <1>2, <1>3, <1>4 DEF Expire

Answered(K, ok, c) ==
  /\ req' \in [Request -> Requests] /\ sess' \in [Session -> Sessions]
  /\ \A r \in Request :
       /\ SameRequest(r)
       /\ req[r].wait \notin K => req'[r] = req[r]
       /\ req[r].wait \in K => req'[r].wait = None /\ req'[r].ok = ok /\ req'[r].child = c
  /\ \A s \in Session :
       /\ SameSession(s)
       /\ sess[s].cancel \notin K => sess'[s] = sess[s]
       /\ sess[s].cancel \in K =>
            IF ok THEN sess'[s].cancel = Settled /\ sess'[s].state = "expired"
                  ELSE sess'[s].cancel = None /\ sess'[s].state = sess[s].state

LEMMA AnswerFacts ==
  ASSUME WebTypes, NEW K \in SUBSET Slot, NEW ok \in BOOLEAN, NEW c \in Child \cup {None},
         Answer(K, ok, c)
  PROVE  Answered(K, ok, c)
  <1> DEFINE R(r) == [req[r] EXCEPT !.wait = None, !.ok = ok, !.child = c]
             E(s) == [sess[s] EXCEPT !.cancel = Settled, !.state = "expired"]
             D(s) == [sess[s] EXCEPT !.cancel = None]
  <1>1. ASSUME NEW o \in Requests
        PROVE  LET x == [o EXCEPT !.wait = None, !.ok = ok, !.child = c]
               IN  /\ x \in Requests /\ x.op = o.op /\ x.acct = o.acct /\ x.sess = o.sess
                   /\ x.pc = o.pc /\ x.wait = None /\ x.ok = ok /\ x.child = c
    BY DEF Requests
  <1>2. ASSUME NEW o \in Sessions
        PROVE  LET x == [o EXCEPT !.cancel = Settled, !.state = "expired"]
               IN  /\ x \in Sessions /\ x.acct = o.acct /\ x.child = o.child /\ x.age = o.age
                   /\ x.listed = o.listed /\ x.cancel = Settled /\ x.state = "expired"
    BY DEF Sessions
  <1>3. ASSUME NEW o \in Sessions
        PROVE  LET x == [o EXCEPT !.cancel = None]
               IN  /\ x \in Sessions /\ x.acct = o.acct /\ x.child = o.child /\ x.age = o.age
                   /\ x.listed = o.listed /\ x.cancel = None /\ x.state = o.state
    BY DEF Sessions
  <1>4. \A r \in Request :
          /\ R(r) \in Requests /\ R(r).op = req[r].op /\ R(r).acct = req[r].acct
          /\ R(r).sess = req[r].sess /\ R(r).pc = req[r].pc
          /\ R(r).wait = None /\ R(r).ok = ok /\ R(r).child = c
    BY <1>1, Zenon DEF WebTypes
  <1>5. \A s \in Session :
          /\ E(s) \in Sessions /\ E(s).acct = sess[s].acct /\ E(s).child = sess[s].child
          /\ E(s).age = sess[s].age /\ E(s).listed = sess[s].listed
          /\ E(s).cancel = Settled /\ E(s).state = "expired"
    BY <1>2, Zenon DEF WebTypes
  <1>6. \A s \in Session :
          /\ D(s) \in Sessions /\ D(s).acct = sess[s].acct /\ D(s).child = sess[s].child
          /\ D(s).age = sess[s].age /\ D(s).listed = sess[s].listed
          /\ D(s).cancel = None /\ D(s).state = sess[s].state
    BY <1>3, Zenon DEF WebTypes
  <1>7. /\ req' = [r \in Request |-> IF req[r].wait \notin K THEN req[r] ELSE R(r)]
        /\ sess' = [s \in Session |-> IF sess[s].cancel \notin K THEN sess[s]
                                      ELSE IF ok THEN E(s) ELSE D(s)]
    BY DEF Answer
  <1> HIDE DEF R, E, D
  <1>8. req' \in [Request -> Requests] /\ sess' \in [Session -> Sessions]
    BY <1>4, <1>5, <1>6, <1>7 DEF WebTypes
  <1>9. \A r \in Request :
          /\ SameRequest(r)
          /\ req[r].wait \notin K => req'[r] = req[r]
          /\ req[r].wait \in K => req'[r].wait = None /\ req'[r].ok = ok /\ req'[r].child = c
    BY <1>4, <1>7 DEF SameRequest
  <1>10. \A s \in Session :
           /\ SameSession(s)
           /\ sess[s].cancel \notin K => sess'[s] = sess[s]
           /\ sess[s].cancel \in K =>
                IF ok THEN sess'[s].cancel = Settled /\ sess'[s].state = "expired"
                      ELSE sess'[s].cancel = None /\ sess'[s].state = sess[s].state
    BY <1>5, <1>6, <1>7 DEF SameSession
  <1> QED
    BY <1>8, <1>9, <1>10 DEF Answered

(* A killed process was running, and a closed one stays closed.             *)
LEMMA KilledFacts ==
  ASSUME child \in [Child -> {"unused", "running", "killed", "closed"}], NEW c,
         child' = Killed(c)
  PROVE  /\ child' \in [Child -> {"unused", "running", "killed", "closed"}]
         /\ \A d \in Child : /\ child'[d] = "closed" <=> child[d] = "closed"
                             /\ child[d] \in {"running", "killed"} => child'[d] \in {"running", "killed"}
  BY DEF Killed

(* A call moves on to another of its steps.                                 *)
Onward(k, pc) ==
  /\ call' \in [Slot -> Calls]
  /\ \A j \in Slot \ {k} : call'[j] = call[j]
  /\ call'[k].op = call[k].op /\ call'[k].acct = call[k].acct /\ call'[k].pc = pc

LEMMA OnwardFacts ==
  ASSUME SideTypes, NEW k \in Slot,
         NEW pc \in {"check", "verify", "store"},
         call' = [call EXCEPT ![k].pc = pc]
  PROVE  Onward(k, pc) /\ call'[k].child = call[k].child
  <1> DEFINE o == call[k]
  <1>1. o \in Calls
    BY DEF SideTypes
  <1> HIDE DEF o
  <1> DEFINE x == [o EXCEPT !.pc = pc]
  <1>2. x \in Calls /\ x.op = o.op /\ x.acct = o.acct /\ x.pc = pc /\ x.child = o.child
    BY <1>1 DEF Calls
  <1>3. call' = [call EXCEPT ![k] = x]
    BY DEF o
  <1> HIDE DEF x
  <1>4. /\ call' \in [Slot -> Calls] /\ call'[k] = x
        /\ \A j \in Slot \ {k} : call'[j] = call[j]
    BY <1>2, <1>3 DEF SideTypes
  <1> QED
    BY <1>2, <1>4 DEF Onward, o

LEMMA RunCancelFacts ==
  ASSUME SideTypes, NEW k \in Slot, Acct(k) \in Account, RunCancel(k)
  PROVE  \/ /\ canc[Acct(k)] \in Slot /\ UNCHANGED <<child, canc>>
            /\ Onward(k, "join") /\ call'[k].on = canc[Acct(k)]
         \/ /\ canc[Acct(k)] = None /\ pairProc[Acct(k)] = None
            /\ Onward(k, "verify")
            /\ canc' = [canc EXCEPT ![Acct(k)] = k] /\ child' = Killed(pairProc[Acct(k)])
         \/ /\ canc[Acct(k)] = None /\ pairProc[Acct(k)] \in Child
            /\ Onward(k, "close") /\ call'[k].child = pairProc[Acct(k)]
            /\ canc' = [canc EXCEPT ![Acct(k)] = k] /\ child' = Killed(pairProc[Acct(k)])
  <1> DEFINE o == call[k]
             n == canc[Acct(k)]
             p == pairProc[Acct(k)]
  <1>1. o \in Calls /\ n \in Slot \cup {None} /\ p \in Child \cup {None} /\ call \in [Slot -> Calls]
    BY DEF SideTypes
  <1> HIDE DEF o, n, p
  <1> DEFINE x == [o EXCEPT !.pc = "join", !.on = n]
             z(q) == [o EXCEPT !.pc = q, !.child = p]
  <1>2. CASE n # None /\ call' = [call EXCEPT ![k].pc = "join", ![k].on = n] /\ UNCHANGED <<child, canc>>
    <2>1. x \in Calls /\ x.op = o.op /\ x.acct = o.acct /\ x.pc = "join" /\ x.on = n
      BY <1>1 DEF Calls
    <2>2. call' = [call EXCEPT ![k] = x]
      BY <1>2 DEF o
    <2> HIDE DEF x
    <2>3. /\ call' \in [Slot -> Calls] /\ call'[k] = x
          /\ \A j \in Slot \ {k} : call'[j] = call[j]
      BY <1>1, <2>1, <2>2
    <2>4. Onward(k, "join") /\ call'[k].on = n
      BY <2>1, <2>3 DEF Onward, o
    <2> QED
      BY <1>1, <1>2, <2>4 DEF n
  <1>3. ASSUME NEW q \in {"verify", "close"},
               call' = [call EXCEPT ![k].pc = q, ![k].child = p]
        PROVE  Onward(k, q) /\ call'[k].child = p
    <2> DEFINE y == z(q)
    <2>1. y \in Calls /\ y.op = o.op /\ y.acct = o.acct /\ y.pc = q /\ y.child = p
      BY <1>1 DEF Calls
    <2>2. call' = [call EXCEPT ![k] = y]
      BY <1>3 DEF o
    <2> HIDE DEF y
    <2>3. /\ call' \in [Slot -> Calls] /\ call'[k] = y
          /\ \A j \in Slot \ {k} : call'[j] = call[j]
      BY <1>1, <2>1, <2>2
    <2> QED
      BY <2>1, <2>3 DEF Onward, o
  <1>4. CASE n = None /\ p = None /\ call' = [call EXCEPT ![k].pc = "verify", ![k].child = p]
             /\ canc' = [canc EXCEPT ![Acct(k)] = k] /\ child' = Killed(p)
    BY <1>3, <1>4 DEF n, p
  <1>5. CASE n = None /\ p # None /\ call' = [call EXCEPT ![k].pc = "close", ![k].child = p]
             /\ canc' = [canc EXCEPT ![Acct(k)] = k] /\ child' = Killed(p)
    BY <1>1, <1>3, <1>5 DEF n, p
  <1> QED
    BY <1>2, <1>4, <1>5 DEF RunCancel, n, p

(* A cancellation ends: the cancel calls that shared it are answered, and   *)
(* so is a pair call if it failed; otherwise a pair call goes on.           *)
LEMMA EndCancelFacts ==
  ASSUME WebTypes, SideTypes, NEW k \in Slot, NEW ok \in BOOLEAN, EndCancel(k, ok)
  PROVE  LET on == {j \in Joined(k) : ok /\ call[j].op = "pair"}
         IN  /\ canc' = [canc EXCEPT ![Acct(k)] = IF @ = k THEN None ELSE @]
             /\ Answer(Joined(k) \ on, ok, None) /\ UNCHANGED <<lock, paired>>
             /\ Joined(k) \subseteq Slot /\ k \in Joined(k)
             /\ call' \in [Slot -> Calls]
             /\ \A j \in Slot \ Joined(k) : call'[j] = call[j]
             /\ \A j \in Joined(k) \ on : call'[j] = Free
             /\ \A j \in on : /\ call'[j].op = "pair" /\ call'[j].acct = call[j].acct
                              /\ call'[j].pc = IF j = k THEN "store" ELSE "recheck"
  <1> DEFINE on == {j \in Joined(k) : ok /\ call[j].op = "pair"}
             y(j) == [call[j] EXCEPT !.on = None, !.pc = IF j = k THEN "store" ELSE "recheck"]
  <1>1. Joined(k) \subseteq Slot /\ k \in Joined(k)
    BY DEF Joined
  <1>2. ASSUME NEW o \in Calls, NEW q \in {"store", "recheck"}
        PROVE  LET x == [o EXCEPT !.on = None, !.pc = q]
               IN  x \in Calls /\ x.op = o.op /\ x.acct = o.acct /\ x.pc = q
    BY DEF Calls
  <1>3. ASSUME NEW j \in Slot
        PROVE  /\ y(j) \in Calls /\ y(j).op = call[j].op /\ y(j).acct = call[j].acct
               /\ y(j).pc = IF j = k THEN "store" ELSE "recheck"
    <2> DEFINE q == IF j = k THEN "store" ELSE "recheck"
    <2>1. q \in {"store", "recheck"} /\ call[j] \in Calls
      BY DEF SideTypes
    <2> HIDE DEF q
    <2>2. /\ [call[j] EXCEPT !.on = None, !.pc = q] \in Calls
          /\ [call[j] EXCEPT !.on = None, !.pc = q].op = call[j].op
          /\ [call[j] EXCEPT !.on = None, !.pc = q].acct = call[j].acct
          /\ [call[j] EXCEPT !.on = None, !.pc = q].pc = q
      BY <1>2, <2>1, Zenon
    <2> QED
      BY <2>2, Zenon DEF q
  <1>4. call' = [j \in Slot |-> IF j \notin Joined(k) THEN call[j]
                                ELSE IF j \notin on THEN Free ELSE y(j)]
    BY DEF EndCancel
  <1> HIDE DEF y
  <1>5. call' \in [Slot -> Calls]
    BY <1>3, <1>4, Records DEF SideTypes
  <1>6. /\ \A j \in Slot \ Joined(k) : call'[j] = call[j]
        /\ \A j \in Joined(k) \ on : call'[j] = Free
        /\ \A j \in on : call'[j] = y(j)
    BY <1>1, <1>4
  <1>7. \A j \in on : /\ call'[j].op = "pair" /\ call'[j].acct = call[j].acct
                      /\ call'[j].pc = IF j = k THEN "store" ELSE "recheck"
    BY <1>1, <1>3, <1>6
  <1>8. /\ canc' = [canc EXCEPT ![Acct(k)] = IF @ = k THEN None ELSE @]
        /\ Answer(Joined(k) \ on, ok, None) /\ UNCHANGED <<lock, paired>>
    BY DEF EndCancel
  <1> QED
    BY <1>1, <1>5, <1>6, <1>7, <1>8

-----------------------------------------------------------------------------
(***************************************************************************)
(* The chain of an account's lock.                                         *)
(***************************************************************************)
LEMMA Queued ==
  ASSUME NEW S, NEW s \in Seq(S), IsInjective(s), NEW x \in S, x \notin ToSet(s)
  PROVE  /\ Append(s, x) \in Seq(S) /\ IsInjective(Append(s, x))
         /\ ToSet(Append(s, x)) = ToSet(s) \cup {x}
         /\ s # <<>> => Head(Append(s, x)) = Head(s)
  <1>1. Append(s, x) \in Seq(S) /\ Len(Append(s, x)) = Len(s) + 1 /\ Len(s) \in Nat
    OBVIOUS
  <1>2. \A i \in 1..(Len(s) + 1) : Append(s, x)[i] = IF i <= Len(s) THEN s[i] ELSE x
    OBVIOUS
  <1>3. DOMAIN s = 1..Len(s) /\ DOMAIN Append(s, x) = 1..(Len(s) + 1)
    BY <1>1
  <1>4. IsInjective(Append(s, x))
    BY <1>1, <1>2, <1>3 DEF IsInjective, ToSet
  <1>5. ToSet(Append(s, x)) = ToSet(s) \cup {x}
    <2>1. \A i \in DOMAIN s : Append(s, x)[i] = s[i] /\ i \in DOMAIN Append(s, x)
      BY <1>1, <1>2, <1>3
    <2>2. Append(s, x)[Len(s) + 1] = x /\ Len(s) + 1 \in DOMAIN Append(s, x)
      BY <1>1, <1>2, <1>3
    <2>3. \A i \in DOMAIN Append(s, x) : i \in DOMAIN s \/ i = Len(s) + 1
      BY <1>1, <1>3
    <2> QED
      BY <2>1, <2>2, <2>3 DEF ToSet
  <1>6. s # <<>> => Head(Append(s, x)) = Head(s)
    BY <1>1, <1>2
  <1> QED
    BY <1>1, <1>4, <1>5, <1>6

LEMMA Dequeued ==
  ASSUME NEW S, NEW s \in Seq(S), IsInjective(s), s # <<>>
  PROVE  /\ Tail(s) \in Seq(S) /\ IsInjective(Tail(s)) /\ Head(s) \in ToSet(s)
         /\ ToSet(Tail(s)) = ToSet(s) \ {Head(s)}
  <1>1. /\ Tail(s) \in Seq(S) /\ Len(s) \in Nat /\ Len(s) > 0 /\ Len(Tail(s)) = Len(s) - 1
        /\ Head(s) = s[1]
    OBVIOUS
  <1>2. \A i \in 1..(Len(s) - 1) : Tail(s)[i] = s[i + 1]
    OBVIOUS
  <1>3. DOMAIN s = 1..Len(s) /\ DOMAIN Tail(s) = 1..(Len(s) - 1)
    BY <1>1
  <1>4. IsInjective(Tail(s))
    BY <1>1, <1>2, <1>3 DEF IsInjective
  <1>5. Head(s) \in ToSet(s)
    BY <1>1, <1>3 DEF ToSet
  <1>6. ASSUME NEW x \in ToSet(Tail(s)) PROVE x \in ToSet(s) \ {Head(s)}
    <2>1. PICK i \in DOMAIN Tail(s) : x = Tail(s)[i]
      BY <1>6 DEF ToSet
    <2>2. x = s[i + 1] /\ i + 1 \in DOMAIN s /\ i + 1 # 1
      BY <1>1, <1>2, <1>3, <2>1
    <2> QED
      BY <1>1, <1>3, <2>2 DEF ToSet, IsInjective
  <1>7. ASSUME NEW x \in ToSet(s), x # Head(s) PROVE x \in ToSet(Tail(s))
    <2>1. PICK i \in DOMAIN s : x = s[i]
      BY <1>7 DEF ToSet
    <2>2. i \in 1..Len(s) /\ i # 1
      BY <1>1, <1>3, <1>7, <2>1
    <2>3. i - 1 \in DOMAIN Tail(s) /\ Tail(s)[i - 1] = x
      BY <1>1, <1>2, <1>3, <2>1, <2>2
    <2> QED
      BY <2>3 DEF ToSet
  <1> QED
    BY <1>1, <1>4, <1>5, <1>6, <1>7

-----------------------------------------------------------------------------
(***************************************************************************)
(* The inductive invariant.                                                *)
(*                                                                         *)
(* What a request awaits is a call made for it: of pair, by the begin that *)
(* will record the session; of cancelPairing, by whoever expires one.      *)
(***************************************************************************)
RequestOK(r) ==
  /\ req[r].pc \in {"idle", "lock"} => req[r].wait = None /\ req[r].ok
  /\ req[r].pc # "idle" => req[r].acct \in Account /\ req[r].op # "none"
  /\ req[r].op = "status" => req[r].sess \in Session /\ sess[req[r].sess].state # "unused"
  /\ req[r].pc = "follow" => req[r].op = "status"
  /\ req[r].wait # None =>
       /\ req[r].pc \in {"prune", "own", "paired", "return"}
       /\ IF req[r].pc = "paired"
            THEN call[req[r].wait].op = "pair" /\ Acct(req[r].wait) = req[r].acct
            ELSE call[req[r].wait].op = "cancel"
  /\ At(r, "paired") /\ req[r].ok => req[r].child \in Child

RequestShape == \A r \in Request : RequestOK(r)

(* Exactly the requests in progress are queued, and the one inside is first. *)
LockShape ==
  /\ \A a \in Account :
       /\ IsInjective(lock[a])
       /\ \A r \in ToSet(lock[a]) : req[r].pc # "idle" /\ req[r].acct = a
  /\ \A r \in Request :
       /\ req[r].pc # "idle" => r \in ToSet(lock[req[r].acct])
       /\ req[r].pc \notin {"idle", "lock"} => Head(lock[req[r].acct]) = r

(* The cancellation a session remembers is one of its own account.          *)
SessionOK(s) ==
  /\ sess[s].state # "unused" => sess[s].acct \in Account /\ sess[s].child \in Child
  /\ sess[s].listed \/ sess[s].cancel # None => sess[s].state # "unused"
  /\ sess[s].cancel \in Slot =>
       call[sess[s].cancel].op = "cancel" /\ Acct(sess[s].cancel) = sess[s].acct

SessionShape == \A s \in Session : SessionOK(s)

(* Who joined a cancellation joined one that runs.                          *)
CallOK(k) ==
  /\ call[k].op = "none" <=> call[k].pc = "none"
  /\ call[k].op = "cancel" => call[k].pc \in {"start", "join", "close", "verify"}
  /\ call[k].op # "none" => call[k].acct \in Account
  /\ call[k].pc \in {"close", "qr"} => call[k].child \in Child
  /\ call[k].pc = "join" =>
       /\ call[k].on \in Slot /\ call[call[k].on].pc \in {"close", "verify"}
       /\ Acct(call[k].on) = Acct(k)

CallShape == \A k \in Slot : CallOK(k)

(* The field pairingCancellation refers to a cancellation that runs, and as *)
(* long as it does, no process was spawned that this one will not end.      *)
SideOK(a) ==
  /\ pairProc[a] # None => child[pairProc[a]] \in {"running", "killed"}
  /\ canc[a] # None =>
       /\ call[canc[a]].pc \in {"close", "verify"} /\ Acct(canc[a]) = a
       /\ \/ pairProc[a] = None
          \/ call[canc[a]].pc = "close" /\ call[canc[a]].child = pairProc[a]

SideShape == \A a \in Account : SideOK(a)

(* Unless two pair calls of an account have run at once: one spawns only    *)
(* when the field pairProcess is empty, so every process that was ever      *)
(* handed out is closed or in that field, and a cancellation ends it.       *)
OnePair ==
  \A j, k \in Slot :
    call[j].op = "pair" /\ call[k].op = "pair" /\ Acct(j) = Acct(k)
      /\ call[j].pc # "start" /\ call[k].pc # "start" => j = k

PairReady(k) ==
  call[k].op = "pair" =>
    /\ call[k].pc \in {"store", "verify"} => pairProc[Acct(k)] = None
    /\ call[k].pc = "close" => pairProc[Acct(k)] \in {None, call[k].child}

Reachable(a, c) == child[c] = "closed" \/ pairProc[a] = c

Stopping(k, c) ==
  \/ child[c] = "closed"
  \/ call[k].pc = "start"
  \/ call[k].pc = "close" /\ call[k].child = c
  \/ call[k].pc = "join" /\ call[call[k].on].pc = "close" /\ call[call[k].on].child = c

CallStops(k) ==
  PairReady(k) /\ (call[k].pc = "qr" => Reachable(Acct(k), call[k].child))

RequestStops(r) ==
  At(r, "paired") /\ req[r].ok => Reachable(req[r].acct, req[r].child)

SessionStops(s) ==
  /\ sess[s].state # "unused" => Reachable(sess[s].acct, sess[s].child)
  /\ sess[s].state = "expired" \/ sess[s].cancel = Settled => child[sess[s].child] = "closed"
  /\ sess[s].cancel \in Slot => Stopping(sess[s].cancel, sess[s].child)

StopInv ==
  ~overlap => /\ OnePair
              /\ \A k \in Slot : CallStops(k)
              /\ \A r \in Request : RequestStops(r)
              /\ \A s \in Session : SessionStops(s)

Invariant ==
  /\ WebTypes /\ SideTypes
  /\ RequestShape /\ LockShape /\ SessionShape /\ CallShape /\ SideShape
  /\ StopInv

-----------------------------------------------------------------------------
(***************************************************************************)
(* What a step leaves alone keeps its part of the invariant.               *)
(***************************************************************************)
SameCall(k) == call'[k].op = call[k].op /\ call'[k].acct = call[k].acct

LEMMA RequestsKept ==
  ASSUME WebTypes, RequestShape,
         \A k \in Slot : call[k].op = "none" \/ SameCall(k) \/ \A r \in Request : req'[r].wait # k,
         \A s \in Session : sess[s].state # "unused" => sess'[s].state # "unused",
         \A r \in Request : req'[r] = req[r] \/ RequestOK(r)'
  PROVE  RequestShape'
  <1> SUFFICES ASSUME NEW r \in Request, req'[r] = req[r] PROVE RequestOK(r)'
    BY DEF RequestShape
  <1>1. RequestOK(r) /\ req[r].wait \in Slot \cup {None}
    BY DEF RequestShape, WebTypes, Requests
  <1>2. req[r].wait # None => SameCall(req[r].wait)
    BY <1>1 DEF RequestOK
  <1> QED
    BY <1>1, <1>2 DEF RequestOK, SameCall, Acct, At

LEMMA SessionsKept ==
  ASSUME WebTypes, SessionShape,
         \A k \in Slot : call[k].op = "none" \/ SameCall(k) \/ \A s \in Session : sess'[s].cancel # k,
         \A s \in Session : sess'[s] = sess[s] \/ SessionOK(s)'
  PROVE  SessionShape'
  <1> SUFFICES ASSUME NEW s \in Session, sess'[s] = sess[s] PROVE SessionOK(s)'
    BY DEF SessionShape
  <1>1. SessionOK(s)
    BY DEF SessionShape
  <1>2. sess[s].cancel \in Slot => SameCall(sess[s].cancel)
    BY <1>1 DEF SessionOK
  <1> QED
    BY <1>1, <1>2 DEF SessionOK, SameCall, Acct

LEMMA CallsKept ==
  ASSUME SideTypes, CallShape,
         \A k \in Slot : call'[k] = call[k] \/ CallOK(k)',
         \A k \in Slot : call[k].pc \in {"close", "verify"} =>
           \/ call'[k].pc \in {"close", "verify"} /\ call'[k].acct = call[k].acct
           \/ \A j \in Slot : call'[j] = call[j] /\ call[j].pc = "join" => call[j].on # k
  PROVE  CallShape'
  <1> SUFFICES ASSUME NEW k \in Slot, call'[k] = call[k] PROVE CallOK(k)'
    BY DEF CallShape
  <1>1. CallOK(k)
    BY DEF CallShape
  <1> QED
    BY <1>1 DEF CallOK, Acct

LEMMA Waiting == WebTypes => \A a \in Account : ToSet(lock[a]) \subseteq Request
  BY DEF WebTypes, ToSet

(* The queue stays, and at most the request inside moves.                   *)
LEMMA LockKept ==
  ASSUME WebTypes, LockShape, UNCHANGED lock,
         \A r \in Request :
           /\ req'[r].acct = req[r].acct
           /\ \/ req'[r].pc = req[r].pc
              \/ req[r].pc # "idle" /\ req'[r].pc # "idle" /\ Head(lock[req[r].acct]) = r
  PROVE  LockShape'
  <1>1. ASSUME NEW a \in Account
        PROVE  /\ IsInjective(lock[a])
               /\ \A r \in ToSet(lock[a]) : req'[r].pc # "idle" /\ req'[r].acct = a
    BY Waiting DEF LockShape
  <1> QED
    BY <1>1 DEF LockShape

LEMMA Inside ==
  ASSUME RequestShape, LockShape, NEW r \in Request, req[r].pc \notin {"idle", "lock"}
  PROVE  /\ req[r].acct \in Account /\ req[r].op # "none"
         /\ Head(lock[req[r].acct]) = r /\ lock[req[r].acct] # <<>>
  BY DEF RequestShape, RequestOK, LockShape, ToSet

(* A request leaves: the next one in the chain is first.                    *)
LEMMA Left ==
  ASSUME WebTypes, RequestShape, LockShape, NEW r \in Request,
         req[r].pc \notin {"idle", "lock"}, Leave(r)
  PROVE  /\ req' \in [Request -> Requests] /\ lock' \in [Account -> Seq(Request)]
         /\ \A q \in Request \ {r} : req'[q] = req[q]
         /\ req'[r] = Idle /\ RequestOK(r)' /\ LockShape'
  <1> DEFINE a == req[r].acct
  <1>1. a \in Account /\ Head(lock[a]) = r /\ lock[a] # <<>> /\ lock[a] \in Seq(Request)
    BY Inside DEF WebTypes
  <1>2. /\ req' = [req EXCEPT ![r] = Idle] /\ lock' = [lock EXCEPT ![a] = Tail(lock[a])]
    BY DEF Leave
  <1>3. /\ Tail(lock[a]) \in Seq(Request) /\ IsInjective(Tail(lock[a])) /\ r \in ToSet(lock[a])
        /\ ToSet(Tail(lock[a])) = ToSet(lock[a]) \ {r}
    BY <1>1, Dequeued DEF LockShape
  <1>4. /\ req' \in [Request -> Requests] /\ lock' \in [Account -> Seq(Request)]
        /\ \A q \in Request \ {r} : req'[q] = req[q]
        /\ req'[r] = Idle
    BY <1>2, <1>3, Records DEF WebTypes
  <1>5. Idle.pc = "idle" /\ Idle.wait = None /\ Idle.ok = TRUE /\ Idle.op = "none"
    BY DEF Idle
  <1>6. RequestOK(r)'
    BY <1>4, <1>5 DEF RequestOK, At
  <1>7. ASSUME NEW b \in Account
        PROVE  /\ IsInjective(lock'[b])
               /\ \A q \in ToSet(lock'[b]) : req'[q].pc # "idle" /\ req'[q].acct = b
    <2>1. ToSet(lock'[b]) \subseteq ToSet(lock[b]) \ {r} /\ IsInjective(lock'[b])
      BY <1>1, <1>2, <1>3 DEF LockShape, WebTypes
    <2> QED
      BY <1>4, <2>1, Waiting DEF LockShape
  <1>8. ASSUME NEW q \in Request
        PROVE  /\ req'[q].pc # "idle" => q \in ToSet(lock'[req'[q].acct])
               /\ req'[q].pc \notin {"idle", "lock"} => Head(lock'[req'[q].acct]) = q
    <2> SUFFICES ASSUME q # r, req'[q].pc # "idle"
                 PROVE  /\ q \in ToSet(lock'[req'[q].acct])
                        /\ req'[q].pc # "lock" => Head(lock'[req'[q].acct]) = q
      BY <1>4, <1>5
    <2>1. req'[q] = req[q] /\ req[q].acct \in Account
      BY <1>4 DEF RequestShape, RequestOK
    <2>2. CASE req[q].acct = a
      BY <1>1, <1>2, <1>3, <2>1, <2>2 DEF LockShape, WebTypes
    <2>3. CASE req[q].acct # a
      BY <1>2, <2>1, <2>3 DEF LockShape, WebTypes
    <2> QED
      BY <2>2, <2>3
  <1> QED
    BY <1>4, <1>6, <1>7, <1>8 DEF LockShape

(* A request queues at the end of the chain of its account.                 *)
LEMMA Enqueued ==
  ASSUME WebTypes, RequestShape, LockShape, NEW r \in Request, NEW a \in Account,
         req[r].pc = "idle", NEW x \in Requests, x.pc = "lock", x.acct = a,
         req' = [req EXCEPT ![r] = x], lock' = [lock EXCEPT ![a] = Append(@, r)]
  PROVE  lock' \in [Account -> Seq(Request)] /\ LockShape'
  <1>1. /\ \A q \in Request \ {r} : req'[q] = req[q]
        /\ req'[r] = x /\ lock[a] \in Seq(Request)
    BY DEF WebTypes
  <1>2. \A b \in Account : r \notin ToSet(lock[b])
    BY DEF LockShape
  <1>3. /\ Append(lock[a], r) \in Seq(Request) /\ IsInjective(Append(lock[a], r))
        /\ ToSet(Append(lock[a], r)) = ToSet(lock[a]) \cup {r}
        /\ lock[a] # <<>> => Head(Append(lock[a], r)) = Head(lock[a])
    BY <1>1, <1>2, Queued DEF LockShape
  <1>4. ASSUME NEW b \in Account
        PROVE  lock'[b] = IF b = a THEN Append(lock[a], r) ELSE lock[b]
    BY DEF WebTypes
  <1>5. ASSUME NEW b \in Account
        PROVE  /\ IsInjective(lock'[b])
               /\ \A q \in ToSet(lock'[b]) : req'[q].pc # "idle" /\ req'[q].acct = b
    BY <1>1, <1>3, <1>4, Waiting DEF LockShape
  <1>6. ASSUME NEW q \in Request
        PROVE  /\ req'[q].pc # "idle" => q \in ToSet(lock'[req'[q].acct])
               /\ req'[q].pc \notin {"idle", "lock"} => Head(lock'[req'[q].acct]) = q
    <2>1. CASE q = r
      BY <1>1, <1>3, <1>4, <2>1
    <2>2. CASE q # r /\ req[q].pc # "idle"
      <3>1. req'[q] = req[q] /\ req[q].acct \in Account /\ q \in ToSet(lock[req[q].acct])
        BY <1>1, <2>2 DEF RequestShape, RequestOK, LockShape
      <3>2. lock[req[q].acct] # <<>>
        BY <3>1 DEF ToSet
      <3> QED
        BY <1>3, <1>4, <2>2, <3>1, <3>2 DEF LockShape
    <2>3. CASE q # r /\ req[q].pc = "idle"
      BY <1>1, <2>3
    <2> QED
      BY <2>1, <2>2, <2>3
  <1>7. lock' \in [Account -> Seq(Request)]
    BY <1>1, <1>3 DEF WebTypes
  <1> QED
    BY <1>5, <1>6, <1>7 DEF LockShape

-----------------------------------------------------------------------------
(***************************************************************************)
(* The steps of the web process.  They may make calls, and change nothing  *)
(* else in the sidecar.                                                    *)
(***************************************************************************)
Made(k) ==
  /\ call[k].op = "none" /\ call'[k].op \in {"pair", "cancel"}
  /\ call'[k].acct \in Account /\ call'[k].pc = "start"

LEMMA WebStep ==
  ASSUME Invariant, UNCHANGED <<child, pairProc, canc, overlap>>,
         WebTypes', SideTypes', LockShape',
         \A k \in Slot : call'[k] = call[k] \/ Made(k),
         \A s \in Session : sess[s].state # "unused" => sess'[s].state # "unused",
         \A r \in Request : req'[r] = req[r] \/ (RequestOK(r)' /\ (~overlap => RequestStops(r)')),
         \A s \in Session : sess'[s] = sess[s] \/ (SessionOK(s)' /\ (~overlap => SessionStops(s)'))
  PROVE  Invariant'
  <1>1. \A k \in Slot : call[k].op = "none" \/ call'[k] = call[k]
    BY DEF Made
  <1>2. RequestShape'
    BY <1>1, RequestsKept DEF Invariant, SameCall
  <1>3. SessionShape'
    BY <1>1, SessionsKept DEF Invariant, SameCall
  <1>4. \A k \in Slot : call[k].pc \in {"close", "verify", "join", "qr"} => call'[k] = call[k]
    BY <1>1 DEF Invariant, CallShape, CallOK
  <1>5. CallShape'
    <2>1. \A k \in Slot : call'[k] = call[k] \/ CallOK(k)'
      BY DEF Made, CallOK
    <2> QED
      BY <1>4, <2>1, CallsKept DEF Invariant
  <1>6. SideShape'
    <2> SUFFICES ASSUME NEW a \in Account PROVE SideOK(a)'
      BY DEF SideShape
    <2>1. SideOK(a) /\ canc[a] \in Slot \cup {None}
      BY DEF Invariant, SideShape, SideTypes
    <2> QED
      BY <1>4, <2>1 DEF SideOK, Acct
  <1>7. ASSUME ~overlap, NEW s \in Session, sess'[s] = sess[s] PROVE SessionStops(s)'
    <2>1. SessionStops(s) /\ SessionOK(s) /\ CallShape
      BY <1>7 DEF Invariant, StopInv, SessionShape
    <2>2. sess[s].cancel \in Slot => call'[sess[s].cancel] = call[sess[s].cancel]
      BY <1>1, <2>1 DEF SessionOK
    <2>3. ASSUME NEW k \in Slot, call[k].pc = "join" PROVE call'[call[k].on] = call[call[k].on]
      BY <1>4, <2>1, <2>3 DEF CallShape, CallOK
    <2> QED
      BY <1>7, <2>1, <2>2, <2>3 DEF SessionStops, Stopping, Reachable
  <1>8. ASSUME ~overlap, NEW r \in Request, req'[r] = req[r] PROVE RequestStops(r)'
    BY <1>8 DEF Invariant, StopInv, RequestStops, At, Reachable
  <1>9. ASSUME ~overlap, NEW k \in Slot PROVE CallStops(k)'
    BY <1>9 DEF Invariant, StopInv, CallStops, PairReady, Reachable, Acct, Made
  <1>10. ASSUME ~overlap PROVE OnePair'
    BY <1>10 DEF Invariant, StopInv, OnePair, Acct, Made
  <1>11. StopInv'
    BY <1>7, <1>8, <1>9, <1>10 DEF StopInv
  <1> QED
    BY <1>2, <1>3, <1>5, <1>6, <1>11 DEF Invariant

LEMMA Parts ==
  Invariant => /\ WebTypes /\ SideTypes /\ RequestShape /\ LockShape /\ SessionShape /\ CallShape
               /\ SideShape /\ StopInv
  BY DEF Invariant

LEMMA BeginStep ==
  ASSUME Invariant, NEW r \in Request, NEW a \in Account, NEW re \in BOOLEAN, Begin(r, a, re)
  PROVE  Invariant'
  <1> DEFINE x == [Idle EXCEPT !.op = "begin", !.acct = a, !.re = re, !.known = paired[a],
                               !.pc = "lock"]
  <1>1. paired[a] \in BOOLEAN
    BY Parts DEF WebTypes
  <1>2. /\ x \in Requests /\ x.op = "begin" /\ x.acct = a /\ x.pc = "lock" /\ x.wait = None
        /\ x.ok = TRUE
    BY <1>1 DEF Idle, Requests
  <1>3. /\ req' = [req EXCEPT ![r] = x] /\ lock' = [lock EXCEPT ![a] = Append(@, r)]
        /\ req[r].pc = "idle"
        /\ UNCHANGED <<sess, paired, call, child, side, linked, overlap, faults>>
    BY DEF Begin
  <1> HIDE DEF x
  <1>4. lock' \in [Account -> Seq(Request)] /\ LockShape'
    BY <1>2, <1>3, Parts, Enqueued
  <1>5. req' \in [Request -> Requests] /\ req'[r] = x /\ \A q \in Request \ {r} : req'[q] = req[q]
    BY <1>2, <1>3, Parts DEF WebTypes
  <1>6. WebTypes' /\ SideTypes'
    BY <1>3, <1>4, <1>5, Parts DEF WebTypes, SideTypes, side
  <1>7. RequestOK(r)' /\ RequestStops(r)'
    BY <1>2, <1>5 DEF RequestOK, RequestStops, At
  <1> QED
    BY <1>3, <1>4, <1>5, <1>6, <1>7, WebStep DEF side

LEMMA StatusStep ==
  ASSUME Invariant, NEW r \in Request, NEW s \in Session, Status(r, s)
  PROVE  Invariant'
  <1> DEFINE a == sess[s].acct
             x == [Idle EXCEPT !.op = "status", !.acct = a, !.sess = s, !.pc = "lock"]
  <1>1. a \in Account /\ sess[s].state # "unused"
    BY Parts DEF Status, SessionShape, SessionOK
  <1> HIDE DEF a
  <1>2. /\ x \in Requests /\ x.op = "status" /\ x.acct = a /\ x.pc = "lock" /\ x.wait = None
        /\ x.ok = TRUE /\ x.sess = s
    BY <1>1 DEF Idle, Requests
  <1>3. /\ req' = [req EXCEPT ![r] = x] /\ lock' = [lock EXCEPT ![a] = Append(@, r)]
        /\ req[r].pc = "idle"
        /\ UNCHANGED <<sess, paired, call, child, side, linked, overlap, faults>>
    BY DEF Status, a
  <1> HIDE DEF x
  <1>4. lock' \in [Account -> Seq(Request)] /\ LockShape'
    BY <1>1, <1>2, <1>3, Parts, Enqueued
  <1>5. req' \in [Request -> Requests] /\ req'[r] = x /\ \A q \in Request \ {r} : req'[q] = req[q]
    BY <1>2, <1>3, Parts DEF WebTypes
  <1>6. WebTypes' /\ SideTypes'
    BY <1>3, <1>4, <1>5, Parts DEF WebTypes, SideTypes, side
  <1>7. RequestOK(r)' /\ RequestStops(r)'
    BY <1>1, <1>2, <1>3, <1>5 DEF RequestOK, RequestStops, At
  <1> QED
    BY <1>3, <1>4, <1>5, <1>6, <1>7, WebStep DEF side

LEMMA LeaveStep ==
  ASSUME Invariant, NEW r \in Request, req[r].pc \notin {"idle", "lock"}, Leave(r),
         UNCHANGED <<child, pairProc, canc, overlap, call>>, SideTypes',
         sess' \in [Session -> Sessions], paired' \in [Account -> BOOLEAN],
         \A s \in Session : sess[s].state # "unused" => sess'[s].state # "unused",
         \A s \in Session : sess'[s] = sess[s] \/ (SessionOK(s)' /\ (~overlap => SessionStops(s)'))
  PROVE  Invariant'
  <1>1. /\ req' \in [Request -> Requests] /\ lock' \in [Account -> Seq(Request)]
        /\ \A q \in Request \ {r} : req'[q] = req[q]
        /\ req'[r] = Idle /\ RequestOK(r)' /\ LockShape'
    BY Parts, Left
  <1>2. RequestStops(r)'
    BY <1>1 DEF RequestStops, At, Idle
  <1>3. WebTypes'
    BY <1>1 DEF WebTypes
  <1> QED
    BY <1>1, <1>2, <1>3, WebStep

(* A request in its turn goes on to p, and awaits nothing.                  *)
LEMMA MoveStep ==
  ASSUME Invariant, NEW r \in Request, req[r].pc # "idle", Head(lock[req[r].acct]) = r,
         NEW p \in {"prune", "health", "own", "follow"},
         p = "follow" => req[r].op = "status", req[r].wait = None, NEW todo \in SUBSET Session,
         req' = [req EXCEPT ![r].pc = p, ![r].todo = todo] \/ req' = [req EXCEPT ![r].pc = p],
         UNCHANGED <<lock, paired, child, pairProc, canc, overlap, call>>, SideTypes',
         sess' \in [Session -> Sessions],
         \A s \in Session : sess[s].state # "unused" => sess'[s].state # "unused",
         \A s \in Session : sess'[s] = sess[s] \/ (SessionOK(s)' /\ (~overlap => SessionStops(s)'))
  PROVE  Invariant'
  <1> DEFINE o == req[r]
  <1>1. o \in Requests /\ req \in [Request -> Requests]
    BY Parts DEF WebTypes
  <1>2. PICK x : /\ x = [o EXCEPT !.pc = p, !.todo = todo] \/ x = [o EXCEPT !.pc = p]
                 /\ req' = [req EXCEPT ![r] = x]
    OBVIOUS
  <1> HIDE DEF o
  <1>3. /\ x \in Requests /\ x.op = o.op /\ x.acct = o.acct /\ x.sess = o.sess /\ x.ok = o.ok
        /\ x.pc = p /\ x.wait = o.wait
    BY <1>1, <1>2 DEF Requests
  <1>4. /\ req' \in [Request -> Requests] /\ \A q \in Request \ {r} : req'[q] = req[q]
        /\ req'[r] = x
    BY <1>1, <1>2, <1>3
  <1>5. /\ req'[r].op = req[r].op /\ req'[r].acct = req[r].acct /\ req'[r].sess = req[r].sess
        /\ req'[r].pc = p /\ req'[r].wait = None
    BY <1>3, <1>4 DEF o
  <1>6. RequestOK(r)' /\ RequestStops(r)'
    <2>1. RequestOK(r)
      BY Parts DEF RequestShape
    <2> QED
      BY <1>5, <2>1 DEF RequestOK, RequestStops, At
  <1>7. WebTypes' /\ LockShape'
    BY <1>4, <1>5, Parts, LockKept DEF WebTypes
  <1> QED
    BY <1>4, <1>6, <1>7, WebStep

LEMMA ExpireStep ==
  ASSUME Invariant, NEW r \in Request, NEW s \in Session, sess[s].state # "unused",
         req[r].pc \notin {"idle", "lock"}, req[r].wait = None,
         NEW p \in {"prune", "own", "return"}, NEW todo \in SUBSET Session, Expire(r, s, p, todo),
         UNCHANGED <<lock, paired, child, side, linked, overlap, faults>>
  PROVE  Invariant'
  <1>1. SessionOK(s) /\ RequestOK(r) /\ (~overlap => SessionStops(s))
    BY Parts DEF SessionShape, RequestShape, StopInv
  <1>2. /\ req' \in [Request -> Requests] /\ sess' \in [Session -> Sessions]
        /\ call' \in [Slot -> Calls]
        /\ \A q \in Request \ {r} : req'[q] = req[q]
        /\ req'[r].op = req[r].op /\ req'[r].acct = req[r].acct /\ req'[r].sess = req[r].sess
        /\ req'[r].ok = req[r].ok /\ req'[r].pc = p
        /\ \A t \in Session \ {s} : sess'[t] = sess[t]
        /\ SameSession(s)
        /\ \/ /\ sess[s].cancel = Settled /\ req'[r].wait = None /\ call' = call
              /\ sess'[s].cancel = Settled /\ sess'[s].state = "expired"
           \/ /\ sess[s].cancel \in Slot /\ req'[r].wait = sess[s].cancel /\ call' = call
              /\ sess' = sess
           \/ \E k \in Slot :
                /\ call[k].op = "none" /\ sess[s].cancel = None /\ req'[r].wait = k
                /\ sess'[s].cancel = k /\ sess'[s].state = sess[s].state
                /\ \A j \in Slot \ {k} : call'[j] = call[j]
                /\ call'[k].op = "cancel" /\ call'[k].acct = sess[s].acct
                /\ call'[k].pc = "start"
    BY <1>1, ExpireFacts, Parts DEF SessionOK
  <1>3. \A k \in Slot : call'[k] = call[k] \/ Made(k)
    BY <1>1, <1>2 DEF Made, SessionOK
  <1>4. WebTypes' /\ SideTypes' /\ LockShape'
    <2>1. WebTypes' /\ SideTypes'
      BY <1>2, Parts DEF WebTypes, SideTypes, side
    <2> QED
      BY <1>2, <2>1, Parts, LockKept, Inside
  <1>5. sess'[s].state # "unused"
    BY <1>2
  <1>6. RequestOK(r)' /\ RequestStops(r)'
    BY <1>1, <1>2, <1>5 DEF RequestOK, RequestStops, SessionOK, At
  <1>7. sess'[s] = sess[s] \/ (SessionOK(s)' /\ (~overlap => SessionStops(s)'))
    <2>1. CASE /\ sess[s].cancel = Settled /\ sess'[s].cancel = Settled
               /\ sess'[s].state = "expired"
      BY <1>1, <1>2, <2>1, Values DEF SessionOK, SessionStops, SameSession, Reachable, side
    <2>2. CASE \E k \in Slot :
                 /\ sess'[s].cancel = k /\ sess'[s].state = sess[s].state
                 /\ call'[k].op = "cancel" /\ call'[k].acct = sess[s].acct
                 /\ call'[k].pc = "start"
      BY <1>1, <1>2, <2>2, Values DEF SessionOK, SessionStops, SameSession, Stopping, Reachable, Acct, side
    <2> QED
      BY <1>2, <2>1, <2>2
  <1> QED
    BY <1>2, <1>3, <1>4, <1>5, <1>6, <1>7, WebStep DEF side

(* Sessions that are dropped from the map only lose their place in it.      *)
LEMMA Dropped ==
  ASSUME Invariant, UNCHANGED <<child, pairProc>>, \A k \in Slot : call'[k] = call[k] \/ Made(k),
         NEW kept \in SUBSET Session,
         sess' = [s \in Session |-> [sess[s] EXCEPT !.listed = @ /\ s \in kept]]
  PROVE  /\ sess' \in [Session -> Sessions]
         /\ \A s \in Session : sess[s].state # "unused" => sess'[s].state # "unused"
         /\ \A s \in Session : SessionOK(s)' /\ (~overlap => SessionStops(s)')
  <1>1. ASSUME NEW o \in Sessions, NEW b \in BOOLEAN
        PROVE  LET x == [o EXCEPT !.listed = @ /\ b]
               IN  /\ x \in Sessions /\ x.acct = o.acct /\ x.child = o.child /\ x.state = o.state
                   /\ x.cancel = o.cancel /\ (x.listed => o.listed)
    BY DEF Sessions
  <1> DEFINE x(s) == [sess[s] EXCEPT !.listed = @ /\ s \in kept]
  <1>2. \A s \in Session : /\ x(s) \in Sessions /\ x(s).acct = sess[s].acct
                           /\ x(s).child = sess[s].child /\ x(s).state = sess[s].state
                           /\ x(s).cancel = sess[s].cancel /\ (x(s).listed => sess[s].listed)
    <2> SUFFICES ASSUME NEW s \in Session
                 PROVE  /\ x(s) \in Sessions /\ x(s).acct = sess[s].acct
                        /\ x(s).child = sess[s].child /\ x(s).state = sess[s].state
                        /\ x(s).cancel = sess[s].cancel /\ (x(s).listed => sess[s].listed)
      OBVIOUS
    <2> DEFINE o == sess[s]
               b == s \in kept
    <2>1. o \in Sessions /\ b \in BOOLEAN
      BY Parts DEF WebTypes
    <2>2. x(s) = [o EXCEPT !.listed = @ /\ b]
      OBVIOUS
    <2> HIDE DEF o, b, x
    <2>3. LET y == [o EXCEPT !.listed = @ /\ b]
          IN  /\ y \in Sessions /\ y.acct = o.acct /\ y.child = o.child /\ y.state = o.state
              /\ y.cancel = o.cancel /\ (y.listed => o.listed)
      BY <1>1, <2>1
    <2> QED
      BY <2>2, <2>3, Zenon DEF o
  <1> HIDE DEF x
  <1>3. sess' = [s \in Session |-> x(s)]
    BY DEF x
  <1>4. sess' \in [Session -> Sessions]
    BY <1>2, <1>3
  <1>5. \A s \in Session : /\ sess'[s].acct = sess[s].acct /\ sess'[s].child = sess[s].child
                           /\ sess'[s].state = sess[s].state /\ sess'[s].cancel = sess[s].cancel
                           /\ (sess'[s].listed => sess[s].listed)
    BY <1>2, <1>3
  <1>6. ASSUME NEW s \in Session PROVE SessionOK(s)' /\ (~overlap => SessionStops(s)')
    <2>1. SessionOK(s) /\ (~overlap => SessionStops(s)) /\ CallShape
      BY Parts DEF SessionShape, StopInv
    <2>2. sess[s].cancel \in Slot => call'[sess[s].cancel] = call[sess[s].cancel]
      BY <2>1 DEF SessionOK, Made
    <2>3. ASSUME NEW k \in Slot, call[k].pc = "join" PROVE call'[call[k].on] = call[call[k].on]
      BY <2>1, <2>3 DEF CallShape, CallOK, Made
    <2>4. SessionOK(s)'
      BY <1>5, <2>1, <2>2 DEF SessionOK, Acct
    <2>5. ~overlap => SessionStops(s)'
      BY <1>5, <2>1, <2>2, <2>3 DEF SessionStops, Reachable, Stopping
    <2> QED
      BY <2>4, <2>5
  <1> QED
    BY <1>4, <1>5, <1>6

LEMMA EnterStep ==
  ASSUME Invariant, NEW r \in Request, Enter(r)
  PROVE  Invariant'
  <1> DEFINE all == {s \in Session : sess[s].listed}
  <1>1. /\ req' = [req EXCEPT ![r].pc = "prune", ![r].todo = all]
        /\ UNCHANGED <<lock, sess, paired, call, child, side, linked, overlap, faults>>
        /\ req[r].pc # "idle" /\ Head(lock[req[r].acct]) = r /\ req[r].wait = None
    BY DEF Enter, At
  <1>3. all \in SUBSET Session
    OBVIOUS
  <1> HIDE DEF all
  <1>2. SideTypes' /\ sess' \in [Session -> Sessions]
    BY <1>1, Parts DEF SideTypes, WebTypes, side
  <1> QED
    BY <1>1, <1>2, <1>3, MoveStep DEF side

LEMMA PruneOneStep ==
  ASSUME Invariant, NEW r \in Request, PruneOne(r)
  PROVE  Invariant'
  <1>1. PICK s \in req[r].todo : Overdue(s) /\ Expire(r, s, "prune", req[r].todo \ {s})
    BY DEF PruneOne
  <1>2. s \in Session /\ req[r].todo \ {s} \in SUBSET Session
    BY Parts DEF WebTypes, Requests
  <1>3. /\ sess[s].state # "unused" /\ req[r].pc = "prune" /\ req[r].wait = None
        /\ UNCHANGED <<lock, paired, child, side, linked, overlap, faults>>
    BY <1>1 DEF Overdue, PruneOne, At
  <1> QED
    BY <1>1, <1>2, <1>3, ExpireStep

LEMMA PrunedStep ==
  ASSUME Invariant, NEW r \in Request, Pruned(r)
  PROVE  Invariant'
  <1> DEFINE kept == {s \in Session : sess[s].age < 2}
  <1>1. sess' = [s \in Session |-> [sess[s] EXCEPT !.listed = @ /\ s \in kept]]
    BY DEF Pruned
  <1> HIDE DEF kept
  <1>2. /\ req[r].pc = "prune" /\ req[r].wait = None
        /\ UNCHANGED <<paired, call, child, side, linked, overlap, faults>>
        /\ Leave(r) \/ (req' = [req EXCEPT ![r].pc = "health"] /\ UNCHANGED lock)
    BY DEF Pruned, At
  <1>3. SideTypes' /\ paired' \in [Account -> BOOLEAN]
    BY <1>2, Parts DEF SideTypes, WebTypes, side
  <1>4. kept \in SUBSET Session
    BY DEF kept
  <1>5. /\ sess' \in [Session -> Sessions]
        /\ \A s \in Session : sess[s].state # "unused" => sess'[s].state # "unused"
        /\ \A s \in Session : SessionOK(s)' /\ (~overlap => SessionStops(s)')
    BY <1>1, <1>2, <1>4, Dropped DEF side
  <1>6. CASE Leave(r)
    BY <1>2, <1>3, <1>5, <1>6, LeaveStep DEF side
  <1>7. CASE req' = [req EXCEPT ![r].pc = "health"] /\ UNCHANGED lock
    BY <1>2, <1>3, <1>5, <1>7, MoveStep, Parts, Inside DEF side
  <1> QED
    BY <1>2, <1>6, <1>7

LEMMA ConfirmStep ==
  ASSUME Invariant, NEW r \in Request, Confirm(r)
  PROVE  Invariant'
  <1>1. /\ req[r].pc = "health" /\ req[r].wait = None
        /\ UNCHANGED <<sess, paired, call, child, side, linked, overlap>>
        /\ Leave(r) \/ (req' = [req EXCEPT ![r].pc = "own"] /\ UNCHANGED lock)
        /\ Fault \/ NoFault
    BY DEF Confirm, At
  <1>2. SideTypes' /\ sess' \in [Session -> Sessions] /\ paired' \in [Account -> BOOLEAN]
    BY <1>1, Parts, PairingAssumption DEF SideTypes, WebTypes, side, Fault, NoFault
  <1>3. CASE Leave(r)
    BY <1>1, <1>2, <1>3, LeaveStep DEF side
  <1>4. CASE req' = [req EXCEPT ![r].pc = "own"] /\ UNCHANGED lock
    BY <1>1, <1>2, <1>4, MoveStep, Parts, Inside DEF side
  <1> QED
    BY <1>1, <1>3, <1>4

LEMMA ExpireOwnStep ==
  ASSUME Invariant, NEW r \in Request, ExpireOwn(r)
  PROVE  Invariant'
  <1>1. PICK s \in Own(r) : sess[s].state # "expired" /\ Expire(r, s, "own", {})
    BY DEF ExpireOwn
  <1>2. /\ s \in Session /\ sess[s].state # "unused" /\ req[r].pc = "own" /\ req[r].wait = None
        /\ UNCHANGED <<lock, paired, child, side, linked, overlap, faults>>
    BY <1>1, Parts DEF ExpireOwn, At, Own, SessionShape, SessionOK
  <1> QED
    BY <1>1, <1>2, ExpireStep

LEMMA AskPairStep ==
  ASSUME Invariant, NEW r \in Request, AskPair(r)
  PROVE  Invariant'
  <1> DEFINE kept == Session \ Own(r)
  <1>1. sess' = [s \in Session |-> [sess[s] EXCEPT !.listed = @ /\ s \in kept]]
    BY DEF AskPair
  <1> HIDE DEF kept
  <1>2. /\ req[r].pc = "own" /\ req[r].wait = None
        /\ UNCHANGED <<paired, child, side, linked, overlap, faults>>
        /\ \/ Leave(r) /\ UNCHANGED call
           \/ /\ Issue(r, "pair", req[r].acct) /\ UNCHANGED lock
              /\ req' = [req EXCEPT ![r].wait = FreeSlot, ![r].pc = "paired"]
    BY DEF AskPair, At
  <1>3. kept \in SUBSET Session
    BY DEF kept
  <1>4. CASE Leave(r) /\ UNCHANGED call
    <2>1. SideTypes' /\ paired' \in [Account -> BOOLEAN]
      BY <1>2, <1>4, Parts DEF SideTypes, WebTypes, side
    <2>2. /\ sess' \in [Session -> Sessions]
          /\ \A s \in Session : sess[s].state # "unused" => sess'[s].state # "unused"
          /\ \A s \in Session : SessionOK(s)' /\ (~overlap => SessionStops(s)')
      BY <1>1, <1>2, <1>3, <1>4, Dropped DEF side
    <2> QED
      BY <1>2, <1>4, <2>1, <2>2, LeaveStep DEF side
  <1>5. CASE /\ Issue(r, "pair", req[r].acct) /\ UNCHANGED lock
             /\ req' = [req EXCEPT ![r].wait = FreeSlot, ![r].pc = "paired"]
    <2> DEFINE o == req[r]
               k == FreeSlot
    <2>1. RequestOK(r) /\ o \in Requests /\ o.acct \in Account
      BY <1>2, Parts, Inside DEF RequestShape, WebTypes
    <2>2. /\ k \in Slot /\ call[k].op = "none"
          /\ call' \in [Slot -> Calls]
          /\ \A j \in Slot \ {k} : call'[j] = call[j]
          /\ call'[k].op = "pair" /\ call'[k].acct = o.acct /\ call'[k].pc = "start"
      BY <1>5, <2>1, Parts, IssueFacts
    <2>3. req' = [req EXCEPT ![r] = [o EXCEPT !.wait = k, !.pc = "paired"]]
      BY <1>5
    <2>4. o.pc = "own" /\ o.wait = None /\ Head(lock[o.acct]) = r
      BY <1>2, Parts, Inside
    <2> HIDE DEF o, k
    <2> DEFINE x == [o EXCEPT !.wait = k, !.pc = "paired"]
    <2>5. /\ x \in Requests /\ x.op = o.op /\ x.acct = o.acct /\ x.sess = o.sess
          /\ x.pc = "paired" /\ x.wait = k
      BY <2>1, <2>2 DEF Requests
    <2>6. req' = [req EXCEPT ![r] = x]
      BY <2>3
    <2> HIDE DEF x
    <2>7. /\ req' \in [Request -> Requests] /\ \A q \in Request \ {r} : req'[q] = req[q]
          /\ req'[r].op = req[r].op /\ req'[r].acct = req[r].acct /\ req'[r].sess = req[r].sess
          /\ req'[r].pc = "paired" /\ req'[r].wait = k
      BY <2>5, <2>6, Parts DEF WebTypes, o
    <2>8. \A j \in Slot : call'[j] = call[j] \/ Made(j)
      BY <2>1, <2>2 DEF Made
    <2>9. /\ sess' \in [Session -> Sessions]
          /\ \A s \in Session : sess[s].state # "unused" => sess'[s].state # "unused"
          /\ \A s \in Session : SessionOK(s)' /\ (~overlap => SessionStops(s)')
      BY <1>1, <1>2, <1>3, <2>8, Dropped DEF side
    <2>10. WebTypes' /\ SideTypes'
      BY <1>2, <1>5, <2>2, <2>7, <2>9, Parts DEF WebTypes, SideTypes, side
    <2>11. LockShape'
      BY <1>2, <1>5, <2>4, <2>7, Parts, LockKept DEF o
    <2>12. RequestOK(r)' /\ RequestStops(r)'
      BY <1>2, <2>1, <2>2, <2>7, <2>9, Values DEF RequestOK, RequestStops, At, Acct, o
    <2> QED
      BY <1>2, <2>7, <2>8, <2>9, <2>10, <2>11, <2>12, WebStep DEF side
  <1> QED
    BY <1>2, <1>4, <1>5

LEMMA NewSessionStep ==
  ASSUME Invariant, NEW r \in Request, NewSession(r)
  PROVE  Invariant'
  <1>1. /\ req[r].pc = "paired" /\ req[r].wait = None /\ req[r].ok /\ Leave(r)
        /\ UNCHANGED <<paired, call, child, side, linked, overlap, faults>>
    BY DEF NewSession, At
  <1> DEFINE a == req[r].acct
             c == req[r].child
             o == Unused
             x == [o EXCEPT !.acct = a, !.listed = TRUE, !.child = c, !.state = "awaiting"]
  <1>2. PICK s \in Session : sess[s].state = "unused" /\ sess' = [sess EXCEPT ![s] = x]
    BY DEF NewSession
  <1>3. a \in Account /\ c \in Child /\ (~overlap => Reachable(a, c))
    BY <1>1, Parts DEF RequestShape, RequestOK, StopInv, RequestStops, At
  <1>9. o \in Sessions /\ o.cancel = None
    BY Records DEF Unused
  <1> HIDE DEF a, c, o
  <1>4. /\ x \in Sessions /\ x.acct = a /\ x.child = c /\ x.state = "awaiting"
        /\ x.cancel = None
    BY <1>3, <1>9 DEF Sessions
  <1> HIDE DEF x
  <1>5. /\ sess' \in [Session -> Sessions] /\ sess'[s] = x
        /\ \A t \in Session \ {s} : sess'[t] = sess[t]
    BY <1>2, <1>4, Parts DEF WebTypes
  <1>6. SessionOK(s)' /\ (~overlap => SessionStops(s)')
    BY <1>1, <1>3, <1>4, <1>5, Values DEF SessionOK, SessionStops, Reachable, side
  <1>7. SideTypes' /\ paired' \in [Account -> BOOLEAN]
    BY <1>1, Parts DEF SideTypes, WebTypes, side
  <1>8. \A t \in Session : sess[t].state # "unused" => sess'[t].state # "unused"
    BY <1>2, <1>5
  <1> QED
    BY <1>1, <1>5, <1>6, <1>7, <1>8, LeaveStep DEF side

LEMMA SeenStep ==
  ASSUME Invariant, NEW r \in Request, Seen(r)
  PROVE  Invariant'
  <1>2. PICK s \in Session : s = req[r].sess
    BY Parts DEF Seen, RequestShape, RequestOK
  <1>1. /\ req[r].pc = "health" /\ req[r].wait = None /\ req[r].op = "status"
        /\ UNCHANGED <<paired, child, side, linked, overlap>>
        /\ \/ sess[s].state = "awaiting" /\ Expire(r, s, "return", {}) /\ UNCHANGED <<lock, faults>>
           \/ /\ Fault \/ NoFault
              /\ Leave(r) \/ (req' = [req EXCEPT ![r].pc = "follow"] /\ UNCHANGED lock)
              /\ UNCHANGED <<sess, call>>
    BY <1>2 DEF Seen, At
  <1>3. CASE sess[s].state = "awaiting" /\ Expire(r, s, "return", {}) /\ UNCHANGED <<lock, faults>>
    BY <1>1, <1>2, <1>3, ExpireStep
  <1>4. ASSUME Fault \/ NoFault, UNCHANGED <<sess, call>>
        PROVE  SideTypes' /\ sess' \in [Session -> Sessions] /\ paired' \in [Account -> BOOLEAN]
    BY <1>1, <1>4, Parts, PairingAssumption DEF SideTypes, WebTypes, side, Fault, NoFault
  <1>5. CASE (Fault \/ NoFault) /\ Leave(r) /\ UNCHANGED <<sess, call>>
    BY <1>1, <1>4, <1>5, LeaveStep DEF side
  <1>6. CASE /\ Fault \/ NoFault
             /\ req' = [req EXCEPT ![r].pc = "follow"] /\ UNCHANGED lock
             /\ UNCHANGED <<sess, call>>
    BY <1>1, <1>4, <1>6, MoveStep, Parts, Inside DEF side
  <1> QED
    BY <1>1, <1>3, <1>5, <1>6

LEMMA FollowStep ==
  ASSUME Invariant, NEW r \in Request, Follow(r)
  PROVE  Invariant'
  <1>1. req[r].pc = "follow" /\ req[r].wait = None /\ Leave(r) /\ RequestOK(r)
    BY Parts DEF Follow, At, RequestShape
  <1>2. PICK s \in Session : s = req[r].sess /\ sess[s].state # "unused"
    BY <1>1 DEF RequestOK
  <1>3. SessionOK(s) /\ (~overlap => SessionStops(s))
    BY Parts DEF SessionShape, StopInv
  <1> DEFINE o == sess[s]
             x == [o EXCEPT !.state = "connected"]
  <1>4. /\ UNCHANGED <<call, child, side, linked, overlap>>
        /\ Fault \/ NoFault
        /\ \/ /\ sess' = [sess EXCEPT ![s] = x]
              /\ paired' = [paired EXCEPT ![req[r].acct] = TRUE]
           \/ UNCHANGED <<sess, paired>>
    BY <1>2 DEF Follow
  <1>5. o \in Sessions /\ sess \in [Session -> Sessions]
    BY Parts DEF WebTypes
  <1> HIDE DEF o
  <1>6. /\ x \in Sessions /\ x.acct = o.acct /\ x.child = o.child /\ x.state = "connected"
        /\ x.cancel = o.cancel /\ x.listed = o.listed
    BY <1>5 DEF Sessions
  <1> HIDE DEF x
  <1>7. SideTypes'
    BY <1>4, Parts, PairingAssumption DEF SideTypes, side, Fault, NoFault
  <1>8. paired' \in [Account -> BOOLEAN]
    BY <1>4, Parts DEF WebTypes
  <1>9. CASE sess' = [sess EXCEPT ![s] = x]
    <2>1. /\ sess' \in [Session -> Sessions] /\ sess'[s] = x
          /\ \A t \in Session \ {s} : sess'[t] = sess[t]
      BY <1>5, <1>6, <1>9
    <2>2. /\ sess'[s].acct = sess[s].acct /\ sess'[s].child = sess[s].child
          /\ sess'[s].state = "connected"
          /\ sess'[s].cancel = sess[s].cancel /\ sess'[s].listed = sess[s].listed
      BY <1>6, <2>1 DEF o
    <2>3. SessionOK(s)' /\ (~overlap => SessionStops(s)')
      BY <1>2, <1>3, <1>4, <2>2 DEF SessionOK, SessionStops, Reachable, Stopping, Acct, side
    <2>4. \A t \in Session : sess[t].state # "unused" => sess'[t].state # "unused"
      BY <2>1, <2>2
    <2> QED
      BY <1>1, <1>4, <1>7, <1>8, <2>1, <2>3, <2>4, LeaveStep DEF side
  <1>10. CASE UNCHANGED <<sess, paired>>
    BY <1>1, <1>4, <1>5, <1>7, <1>8, <1>10, LeaveStep DEF side
  <1> QED
    BY <1>4, <1>9, <1>10

LEMMA FinishStep ==
  ASSUME Invariant, NEW r \in Request, Finish(r)
  PROVE  Invariant'
  <1>1. /\ req[r].pc \notin {"idle", "lock"} /\ Leave(r)
        /\ UNCHANGED <<sess, paired, call, child, side, linked, overlap, faults>>
    BY Parts DEF Finish, At, RequestShape, RequestOK
  <1>2. SideTypes' /\ sess' \in [Session -> Sessions] /\ paired' \in [Account -> BOOLEAN]
    BY <1>1, Parts DEF SideTypes, WebTypes, side
  <1> QED
    BY <1>1, <1>2, LeaveStep DEF side

-----------------------------------------------------------------------------
(***************************************************************************)
(* The steps of the sidecar.  They answer some of its calls, and the web   *)
(* process learns of nothing else.                                         *)
(***************************************************************************)
LEMMA Unanswered ==
  ASSUME WebTypes, UNCHANGED web
  PROVE  Answer({}, FALSE, None) /\ UNCHANGED <<lock, paired>>
  <1>1. req = [r \in Request |-> req[r]] /\ sess = [s \in Session |-> sess[s]]
    BY DEF WebTypes
  <1>2. req' = req /\ sess' = sess /\ UNCHANGED <<lock, paired>>
    BY DEF web
  <1> DEFINE R(r) == [req[r] EXCEPT !.wait = None, !.ok = FALSE, !.child = None]
             E(s) == [sess[s] EXCEPT !.cancel = Settled, !.state = "expired"]
             D(s) == [sess[s] EXCEPT !.cancel = None]
  <1> HIDE DEF R, E, D
  <1>3. /\ req' = [r \in Request |-> IF req[r].wait \notin {} THEN req[r] ELSE R(r)]
        /\ sess' = [s \in Session |-> IF sess[s].cancel \notin {} THEN sess[s]
                                      ELSE IF FALSE THEN E(s) ELSE D(s)]
    BY <1>1, <1>2
  <1>4. Answer({}, FALSE, None)
    BY <1>3 DEF Answer, R, E, D
  <1> QED
    BY <1>2, <1>4

(* The calls K are answered.  No process is forgotten; of K, a pair call    *)
(* that succeeds hands out one that can be ended, and a cancellation that   *)
(* succeeds has seen the end of the one it was for.                         *)
KeepsStopping(K, ok, c) ==
  ~overlap' =>
    /\ OnePair' /\ \A k \in Slot : CallStops(k)'
    /\ \A d \in Child : child[d] = "closed" => child'[d] = "closed"
    /\ \A a \in Account, d \in Child :
         Reachable(a, d) => child'[d] = "closed" \/ pairProc'[a] = d
    /\ \A k \in Slot \ K, d \in Child :
         call[k].op = "cancel" /\ Reachable(Acct(k), d) /\ Stopping(k, d) => Stopping(k, d)'
    /\ ok => \A k \in K :
         /\ call[k].op = "pair" => child'[c] = "closed" \/ pairProc'[Acct(k)] = c
         /\ \A d \in Child :
              call[k].op = "cancel" /\ Reachable(Acct(k), d) /\ Stopping(k, d)
                => child'[d] = "closed"

LEMMA SidecarStep ==
  ASSUME Invariant, NEW K \in SUBSET Slot, NEW ok \in BOOLEAN, NEW c \in Child \cup {None},
         Answer(K, ok, c), UNCHANGED <<lock, paired>>,
         SideTypes', CallShape', SideShape', overlap => overlap',
         \A k \in Slot \ K : call[k].op = "none" \/ SameCall(k),
         ok => \A k \in K : call[k].op = "pair" => c \in Child,
         KeepsStopping(K, ok, c)
  PROVE  Invariant'
  <1>0. WebTypes
    BY Parts
  <1>10. Answered(K, ok, c)
    BY <1>0, AnswerFacts
  <1>1. /\ req' \in [Request -> Requests] /\ sess' \in [Session -> Sessions]
        /\ \A r \in Request :
             /\ SameRequest(r)
             /\ req[r].wait \notin K => req'[r] = req[r]
             /\ req[r].wait \in K => req'[r].wait = None /\ req'[r].ok = ok /\ req'[r].child = c
        /\ \A s \in Session :
             /\ SameSession(s)
             /\ sess[s].cancel \notin K => sess'[s] = sess[s]
             /\ sess[s].cancel \in K =>
                  IF ok THEN sess'[s].cancel = Settled /\ sess'[s].state = "expired"
                        ELSE sess'[s].cancel = None /\ sess'[s].state = sess[s].state
    BY <1>10 DEF Answered
  <1>2. WebTypes'
    BY <1>1, Parts DEF WebTypes
  <1>3. LockShape'
    BY <1>1, Parts, LockKept DEF SameRequest
  <1>4. \A s \in Session : sess[s].state # "unused" => sess'[s].state # "unused"
    BY <1>1
  <1>5. RequestShape'
    <2>1. ASSUME NEW r \in Request PROVE req'[r] = req[r] \/ RequestOK(r)'
      <3> SUFFICES ASSUME req[r].wait \in K PROVE RequestOK(r)'
        BY <1>1
      <3>1. /\ req'[r].wait = None /\ req'[r].ok = ok /\ req'[r].child = c /\ SameRequest(r)
            /\ RequestOK(r) /\ req[r].wait # None
        BY <1>1, Parts, Values DEF RequestShape
      <3>2. req[r].pc = "paired" /\ ok => c \in Child
        BY <3>1 DEF RequestOK
      <3> QED
        BY <1>4, <3>1, <3>2 DEF RequestOK, SameRequest, At
    <2>2. \A k \in K, r \in Request : req'[r].wait # k
      BY <1>1, Values
    <2> QED
      BY <1>4, <2>1, <2>2, Parts, RequestsKept
  <1>6. SessionShape'
    <2>1. ASSUME NEW s \in Session PROVE sess'[s] = sess[s] \/ SessionOK(s)'
      <3> SUFFICES ASSUME sess[s].cancel \in K PROVE SessionOK(s)'
        BY <1>1
      <3>1. SessionOK(s) /\ sess[s].state # "unused" /\ SameSession(s)
        BY <1>1, Parts, Values DEF SessionShape, SessionOK
      <3> QED
        BY <1>1, <3>1, Values DEF SessionOK, SameSession
    <2>2. \A k \in K, s \in Session : sess'[s].cancel # k
      BY <1>1, Values
    <2> QED
      BY <2>1, <2>2, Parts, SessionsKept
  <1>7. ASSUME ~overlap', NEW r \in Request PROVE RequestStops(r)'
    <2> SUFFICES ASSUME At(r, "paired")', req'[r].ok
                 PROVE  child'[req'[r].child] = "closed" \/ pairProc'[req'[r].acct] = req'[r].child
      BY DEF RequestStops, Reachable
    <2>1. RequestOK(r) /\ RequestStops(r) /\ SameRequest(r) /\ req[r].pc = "paired"
      BY <1>1, <1>7, Parts DEF RequestShape, StopInv, SameRequest, At
    <2>2. CASE req[r].wait \in K
      BY <1>1, <1>7, <2>1, <2>2, Values DEF RequestOK, SameRequest, KeepsStopping
    <2>3. CASE req[r].wait \notin K
      <3>1. req'[r] = req[r] /\ At(r, "paired") /\ req[r].ok
        BY <1>1, <2>3 DEF At
      <3>2. req[r].acct \in Account /\ req[r].child \in Child /\ Reachable(req[r].acct, req[r].child)
        BY <2>1, <3>1 DEF RequestOK, RequestStops
      <3>3. \A a \in Account, d \in Child :
              Reachable(a, d) => child'[d] = "closed" \/ pairProc'[a] = d
        BY <1>7 DEF KeepsStopping
      <3> QED
        BY <3>1, <3>2, <3>3
    <2> QED
      BY <2>2, <2>3
  <1>8. ASSUME ~overlap', NEW s \in Session PROVE SessionStops(s)'
    <2>1. SessionOK(s) /\ SessionStops(s) /\ SameSession(s)
      BY <1>1, <1>8, Parts DEF SessionShape, StopInv
    <2>2. CASE sess[s].state = "unused"
      <3>1. sess'[s] = sess[s] /\ sess[s].cancel = None
        BY <1>1, <2>1, <2>2, Values DEF SessionOK
      <3> QED
        BY <2>2, <3>1, Values DEF SessionStops
    <2>3. CASE sess[s].state # "unused"
      <3> DEFINE d == sess[s].child
                 a == sess[s].acct
                 k == sess[s].cancel
      <3>1. d \in Child /\ a \in Account /\ Reachable(a, d)
        BY <2>1, <2>3 DEF SessionOK, SessionStops
      <3>2. /\ child'[d] = "closed" \/ pairProc'[a] = d
            /\ child[d] = "closed" => child'[d] = "closed"
        BY <1>8, <3>1 DEF KeepsStopping
      <3>3. CASE k \in K
        <4>1. call[k].op = "cancel" /\ Acct(k) = a /\ Stopping(k, d)
          BY <2>1, <3>3 DEF SessionOK, SessionStops
        <4>2. ok => child'[d] = "closed"
          BY <1>8, <3>1, <3>3, <4>1 DEF KeepsStopping
        <4> QED
          BY <1>1, <2>1, <3>2, <3>3, <4>2, Values DEF SessionStops, SameSession, Reachable
      <3>4. CASE k \notin K
        <4>1. sess'[s] = sess[s]
          BY <1>1, <3>4
        <4>2. k \in Slot => /\ call[k].op = "cancel" /\ Reachable(Acct(k), d) /\ Stopping(k, d)
          BY <2>1, <3>1 DEF SessionOK, SessionStops
        <4>3. \A j \in Slot \ K, e \in Child :
                 call[j].op = "cancel" /\ Reachable(Acct(j), e) /\ Stopping(j, e) =>
                   \/ child'[e] = "closed"
                   \/ call'[j].pc = "start"
                   \/ call'[j].pc = "close" /\ call'[j].child = e
                   \/ /\ call'[j].pc = "join" /\ call'[call'[j].on].pc = "close"
                      /\ call'[call'[j].on].child = e
          BY <1>8 DEF Stopping, KeepsStopping
        <4> QED
          BY <2>1, <2>3, <3>1, <3>2, <3>4, <4>1, <4>2, <4>3 DEF SessionStops, Reachable, Stopping
      <3> QED
        BY <3>3, <3>4
    <2> QED
      BY <2>2, <2>3
  <1>9. StopInv'
    BY <1>7, <1>8 DEF StopInv, KeepsStopping
  <1> QED
    BY <1>2, <1>3, <1>5, <1>6, <1>9 DEF Invariant

(* A call that stays as it is, or ends, keeps its share.                    *)
LEMMA CallStopsKept ==
  ASSUME NEW k \in Slot, CallOK(k), CallStops(k), call'[k] = call[k] \/ call'[k] = Free,
         \A a \in Account : pairProc'[a] = pairProc[a] \/ pairProc'[a] = None,
         \A a \in Account, d \in Child :
           Reachable(a, d) => child'[d] = "closed" \/ pairProc'[a] = d
  PROVE  CallStops(k)'
  <1>1. CASE call'[k] = Free
    BY <1>1 DEF CallStops, PairReady, Free
  <1>2. CASE call'[k] = call[k] /\ call[k].op # "none"
    BY <1>2 DEF CallStops, PairReady, CallOK, Acct, Reachable
  <1>3. CASE call'[k] = call[k] /\ call[k].op = "none"
    BY <1>3 DEF CallStops, PairReady, CallOK
  <1> QED
    BY <1>1, <1>2, <1>3

(* A call starts, joins or runs a cancellation.                             *)
LEMMA RunCancelStep ==
  ASSUME Invariant, NEW k \in Slot, RunCancel(k),
         \/ call[k].op = "cancel" /\ call[k].pc = "start"
         \/ call[k].op = "pair" /\ call[k].pc \in {"check", "recheck"},
         UNCHANGED <<web, pairProc, cancelled, linked, overlap, faults>>
  PROVE  Invariant'
  <1>1. PICK a \in Account : a = Acct(k)
    BY Parts DEF CallShape, CallOK, Acct
  <1>2. \/ /\ canc[a] \in Slot /\ UNCHANGED <<child, canc>>
           /\ Onward(k, "join") /\ call'[k].on = canc[a]
        \/ /\ canc[a] = None /\ pairProc[a] = None
           /\ Onward(k, "verify")
           /\ canc' = [canc EXCEPT ![a] = k] /\ child' = Killed(pairProc[a])
        \/ /\ canc[a] = None /\ pairProc[a] \in Child
           /\ Onward(k, "close") /\ call'[k].child = pairProc[a]
           /\ canc' = [canc EXCEPT ![a] = k] /\ child' = Killed(pairProc[a])
    BY <1>1, Parts, RunCancelFacts
  <1>3. /\ call' \in [Slot -> Calls] /\ \A j \in Slot \ {k} : call'[j] = call[j]
        /\ call'[k].op = call[k].op /\ call'[k].acct = call[k].acct
        /\ call'[k].pc \in {"join", "verify", "close"}
    BY <1>2 DEF Onward
  <1>4. /\ child' \in [Child -> {"unused", "running", "killed", "closed"}]
        /\ \A d \in Child : /\ child'[d] = "closed" <=> child[d] = "closed"
                            /\ child[d] \in {"running", "killed"} => child'[d] \in {"running", "killed"}
    BY <1>2, Parts, KilledFacts DEF SideTypes
  <1>5. /\ \A b \in Account \ {a} : canc'[b] = canc[b]
        /\ canc'[a] \in {canc[a], k} /\ canc' \in [Account -> Slot \cup {None}]
    BY <1>2, Parts DEF SideTypes
  <1>6. SideTypes'
    BY <1>3, <1>4, <1>5, Parts DEF SideTypes
  <1>7. SideOK(a) /\ CallOK(k) /\ \A b \in Account : canc[b] # k
    <2>1. \A b \in Account : SideOK(b)
      BY Parts DEF SideShape
    <2> QED
      BY <2>1, Parts, Values DEF SideOK, CallShape
  <1>8. CallShape'
    <2>1. CallOK(k)'
      BY <1>1, <1>2, <1>3, <1>7, Values DEF CallOK, SideOK, Onward, Acct
    <2> QED
      BY <1>3, <2>1, Parts, CallsKept
  <1>9. SideShape'
    <2>1. SideOK(a)'
      BY <1>1, <1>2, <1>3, <1>4, <1>7, Values, Parts DEF SideOK, Onward, Acct, SideTypes
    <2>2. ASSUME NEW b \in Account, b # a PROVE SideOK(b)'
      <3>1. SideOK(b) /\ canc[b] \in Slot \cup {None} /\ pairProc[b] \in Child \cup {None}
        BY Parts DEF SideShape, SideTypes
      <3> QED
        BY <1>3, <1>4, <1>5, <1>7, <2>2, <3>1 DEF SideOK, Acct
    <2> QED
      BY <2>1, <2>2 DEF SideShape
  <1>10. KeepsStopping({}, FALSE, None)
    <2> SUFFICES ASSUME ~overlap'
                 PROVE  /\ OnePair' /\ \A j \in Slot : CallStops(j)'
                        /\ \A d \in Child : child[d] = "closed" => child'[d] = "closed"
                        /\ \A b \in Account, d \in Child :
                             Reachable(b, d) => child'[d] = "closed" \/ pairProc'[b] = d
                        /\ \A j \in Slot, d \in Child :
                             call[j].op = "cancel" /\ Reachable(Acct(j), d) /\ Stopping(j, d)
                               => Stopping(j, d)'
      BY DEF KeepsStopping
    <2>1. OnePair /\ (\A j \in Slot : CallStops(j)) /\ \A j \in Slot : CallOK(j)
      BY Parts DEF StopInv, CallShape
    <2>2. OnePair'
      BY <1>3, <2>1 DEF OnePair, Acct
    <2>3. \A b \in Account, d \in Child : Reachable(b, d) => child'[d] = "closed" \/ pairProc'[b] = d
      BY <1>4 DEF Reachable
    <2>4. ASSUME NEW j \in Slot, j # k PROVE CallStops(j)'
      BY <1>3, <2>1, <2>3, <2>4, CallStopsKept
    <2>5. CallStops(k)'
      BY <1>1, <1>2, <1>3 DEF CallStops, PairReady, Onward, Acct
    <2>6. ASSUME NEW j \in Slot, j # k, NEW d \in Child, Stopping(j, d) PROVE Stopping(j, d)'
      BY <1>3, <1>4, <1>7, <2>1, <2>6 DEF Stopping, CallOK
    <2>7. ASSUME NEW d \in Child, Reachable(a, d) PROVE Stopping(k, d)'
      <3>1. canc[a] \in Slot => canc[a] # k /\ call'[canc[a]] = call[canc[a]]
        BY <1>3, <1>7
      <3> QED
        BY <1>1, <1>2, <1>3, <1>4, <1>7, <2>7, <3>1, Values DEF Stopping, Onward, SideOK, Reachable
    <2> QED
      BY <1>1, <1>4, <2>2, <2>3, <2>4, <2>5, <2>6, <2>7
  <1>11. \A j \in Slot : SameCall(j)
    BY <1>3 DEF SameCall
  <1> QED
    BY <1>6, <1>8, <1>9, <1>10, <1>11, Parts, Unanswered, SidecarStep, Zenon

LEMMA CancelStep ==
  ASSUME Invariant, NEW k \in Slot, Cancel(k)
  PROVE  Invariant'
  <1>1. /\ call[k].op = "cancel" /\ call[k].pc = "start"
        /\ UNCHANGED <<pairProc, cancelled, linked, overlap, faults>>
    BY DEF Cancel, In
  <1>2. CASE RunCancel(k) /\ UNCHANGED web
    BY <1>1, <1>2, RunCancelStep
  <1>3. CASE /\ canc[Acct(k)] = None /\ pairProc[Acct(k)] = None
             /\ call' = [call EXCEPT ![k] = Free] /\ Answer({k}, TRUE, None)
             /\ UNCHANGED <<lock, paired, child, canc>>
    <2>1. /\ call' \in [Slot -> Calls] /\ call'[k] = Free /\ \A j \in Slot \ {k} : call'[j] = call[j]
      BY <1>3, Parts, Records DEF SideTypes
    <2>2. SideTypes'
      BY <1>1, <1>3, <2>1, Parts DEF SideTypes
    <2>3. \A j \in Slot : CallOK(j)
      BY Parts DEF CallShape
    <2>4. CallShape'
      <3>1. CallOK(k)'
        BY <2>1 DEF CallOK, Free
      <3> QED
        BY <1>1, <2>1, <3>1, Parts, CallsKept
    <2>5. SideShape'
      <3> SUFFICES ASSUME NEW b \in Account PROVE SideOK(b)'
        BY DEF SideShape
      <3>1. SideOK(b) /\ canc[b] \in Slot \cup {None}
        BY Parts DEF SideShape, SideTypes
      <3>2. canc[b] # k
        BY <1>1, <3>1, Values DEF SideOK
      <3> QED
        BY <1>1, <1>3, <2>1, <3>1, <3>2 DEF SideOK, Acct
    <2>6. KeepsStopping({k}, TRUE, None)
      <3> SUFFICES ASSUME ~overlap
                   PROVE  /\ OnePair' /\ \A j \in Slot : CallStops(j)'
                          /\ \A j \in Slot \ {k}, d \in Child : Stopping(j, d) => Stopping(j, d)'
                          /\ \A d \in Child : Reachable(Acct(k), d) => child'[d] = "closed"
        BY <1>1, <1>3 DEF KeepsStopping, Reachable
      <3>1. OnePair /\ \A j \in Slot : CallStops(j)
        BY Parts DEF StopInv
      <3>2. OnePair'
        BY <2>1, <3>1 DEF OnePair, Acct, Free
      <3>3. ASSUME NEW j \in Slot PROVE CallStops(j)'
        BY <1>1, <1>3, <2>1, <2>3, <3>1, CallStopsKept DEF Reachable
      <3>4. ASSUME NEW j \in Slot \ {k}, NEW d \in Child, Stopping(j, d) PROVE Stopping(j, d)'
        BY <1>1, <1>3, <2>1, <2>3, <3>4 DEF Stopping, CallOK
      <3>5. \A d \in Child : Reachable(Acct(k), d) => child'[d] = "closed"
        BY <1>3, Values DEF Reachable
      <3> QED
        BY <3>2, <3>3, <3>4, <3>5
    <2>7. \A j \in Slot \ {k} : SameCall(j)
      BY <2>1 DEF SameCall
    <2>8. \A j \in {k} : call[j].op # "pair"
      BY <1>1
    <2> QED
      BY <1>1, <1>3, <2>2, <2>4, <2>5, <2>6, <2>7, <2>8, SidecarStep
  <1> QED
    BY <1>2, <1>3 DEF Cancel

(* A cancellation ends, well or not: those that joined it end with it, and  *)
(* a pair call among them goes on if it ended well.                         *)
LEMMA EndStep ==
  ASSUME Invariant, NEW k \in Slot, NEW ok \in BOOLEAN, EndCancel(k, ok),
         call[k].pc = "verify" \/ (call[k].pc = "close" /\ ~ok),
         UNCHANGED <<child, pairProc, linked, overlap>>,
         cancelled' \in [Account -> BOOLEAN], faults' \in 0..MaxFaults
  PROVE  Invariant'
  <1> DEFINE on == {j \in Joined(k) : ok /\ call[j].op = "pair"}
             K  == Joined(k) \ on
  <1>1. WebTypes /\ SideTypes
    BY Parts
  <1>2. /\ canc' = [canc EXCEPT ![Acct(k)] = IF @ = k THEN None ELSE @]
        /\ Answer(K, ok, None) /\ UNCHANGED <<lock, paired>>
        /\ Joined(k) \subseteq Slot /\ k \in Joined(k)
        /\ call' \in [Slot -> Calls]
        /\ \A j \in Slot \ Joined(k) : call'[j] = call[j]
        /\ \A j \in K : call'[j] = Free
        /\ \A j \in on : /\ call'[j].op = "pair" /\ call'[j].acct = call[j].acct
                         /\ call'[j].pc = IF j = k THEN "store" ELSE "recheck"
    BY <1>1, EndCancelFacts
  <1>3. \A j \in Slot : CallOK(j)
    BY Parts DEF CallShape
  <1>4. /\ \A j \in Joined(k) : j = k \/ (call[j].pc = "join" /\ call[j].on = k)
        /\ \A j \in Slot : call[j].pc = "join" /\ call[j].on = k => j \in Joined(k)
        /\ \A j \in Slot \ {k} : call[j].pc \in {"close", "verify"} => j \notin Joined(k)
    BY DEF Joined
  <1>5. /\ K \in SUBSET Slot /\ on \subseteq Joined(k)
        /\ \A j \in on : ok /\ call[j].op = "pair"
        /\ \A j \in Slot \ K : call'[j] = call[j] \/ j \in on
        /\ \A j \in K : ok => call[j].op # "pair"
    BY <1>2
  <1> HIDE DEF K, on
  <1>6. Acct(k) \in Account /\ \A b \in Account \ {Acct(k)} : canc'[b] = canc[b]
    BY <1>1, <1>2, <1>3 DEF CallOK, Acct, SideTypes
  <1>7. canc'[Acct(k)] \in {None, canc[Acct(k)]} /\ canc'[Acct(k)] # k
    BY <1>1, <1>2, <1>6, Values DEF SideTypes
  <1>8. SideTypes'
    <2>1. canc' \in [Account -> Slot \cup {None}]
      BY <1>1, <1>2, <1>6 DEF SideTypes
    <2> QED
      BY <1>1, <1>2, <2>1 DEF SideTypes
  <1>9. CallShape'
    <2>1. ASSUME NEW j \in Slot PROVE call'[j] = call[j] \/ CallOK(j)'
      <3>1. CASE j \in K
        BY <1>2, <3>1 DEF CallOK, Free
      <3>2. CASE j \in on
        BY <1>2, <1>3, <1>5, <3>2 DEF CallOK
      <3> QED
        BY <1>5, <3>1, <3>2
    <2>2. ASSUME NEW m \in Slot, call[m].pc \in {"close", "verify"}
          PROVE  \/ call'[m].pc \in {"close", "verify"} /\ call'[m].acct = call[m].acct
                 \/ \A j \in Slot : call'[j] = call[j] /\ call[j].pc = "join" => call[j].on # m
      <3>1. CASE m # k
        BY <1>2, <1>4, <2>2, <3>1
      <3>2. CASE m = k
        <4>1. ASSUME NEW j \in Joined(k) PROVE call'[j].pc # "join"
          <5>1. j \in K \/ j \in on
            BY DEF K
          <5> QED
            BY <1>2, <5>1 DEF Free
        <4> QED
          BY <1>4, <3>2, <4>1
      <3> QED
        BY <3>1, <3>2
    <2> QED
      BY <1>1, <2>1, <2>2, Parts, CallsKept
  <1>10. SideShape'
    <2> SUFFICES ASSUME NEW b \in Account PROVE SideOK(b)'
      BY DEF SideShape
    <2>1. SideOK(b) /\ canc[b] \in Slot \cup {None}
      BY <1>1, Parts DEF SideShape, SideTypes
    <2>2. canc'[b] # None => canc'[b] = canc[b] /\ canc[b] # k
      BY <1>6, <1>7, <2>1 DEF SideOK
    <2>3. canc'[b] # None => call'[canc[b]] = call[canc[b]]
      BY <1>2, <1>4, <2>1, <2>2 DEF SideOK
    <2> QED
      BY <2>1, <2>2, <2>3 DEF SideOK, Acct
  <1>11. KeepsStopping(K, ok, None)
    <2> SUFFICES ASSUME ~overlap
                 PROVE  /\ OnePair' /\ \A j \in Slot : CallStops(j)'
                        /\ \A j \in Slot \ K, d \in Child :
                             call[j].op = "cancel" /\ Stopping(j, d) => Stopping(j, d)'
                        /\ ok => \A j \in K, d \in Child : Stopping(j, d) => child[d] = "closed"
      BY <1>5 DEF KeepsStopping, Reachable
    <2>1. OnePair /\ \A j \in Slot : CallStops(j)
      BY Parts DEF StopInv
    <2>2. OnePair'
      <3>1. \A j \in Slot : call'[j].op = "pair" /\ call'[j].pc # "start" =>
              call[j].op = "pair" /\ call[j].pc # "start" /\ call'[j].acct = call[j].acct
        <4> TAKE j \in Slot
        <4>1. CASE j \in K
          BY <1>2, <4>1 DEF Free
        <4>2. CASE j \in on
          BY <1>2, <1>4, <1>5, <4>2
        <4> QED
          BY <1>5, <4>1, <4>2
      <3> QED
        BY <2>1, <3>1 DEF OnePair, Acct
    <2>3. ASSUME NEW j \in Slot PROVE CallStops(j)'
      <3>1. CASE j \in on
        <4>1. call'[j].pc = "store" => call[j].pc = "verify" /\ call[j].op = "pair"
          BY <1>2, <1>5, <3>1
        <4>2. /\ call'[j].acct = call[j].acct /\ call'[j].op = "pair"
              /\ call'[j].pc \in {"store", "recheck"}
          BY <1>2, <3>1
        <4> QED
          BY <2>1, <4>1, <4>2 DEF CallStops, PairReady, Acct
      <3>2. CASE j \notin on
        <4>1. call'[j] = call[j] \/ call'[j] = Free
          BY <1>2, <1>5, <3>2
        <4> QED
          BY <1>3, <2>1, <4>1, CallStopsKept DEF Reachable
      <3> QED
        BY <3>1, <3>2
    <2>4. ASSUME NEW j \in Slot \ K, NEW d \in Child, call[j].op = "cancel", Stopping(j, d)
          PROVE  Stopping(j, d)'
      <3>1. call'[j] = call[j] /\ j \notin Joined(k)
        BY <1>2, <1>5, <2>4 DEF K
      <3>2. call[j].pc = "join" => call'[call[j].on] = call[call[j].on]
        BY <1>2, <1>3, <1>4, <3>1 DEF CallOK
      <3> QED
        BY <2>4, <3>1, <3>2 DEF Stopping
    <2>5. ASSUME ok, NEW j \in K, NEW d \in Child, Stopping(j, d) PROVE child[d] = "closed"
      BY <1>4, <1>5, <2>5 DEF Stopping, K
    <2> QED
      BY <2>2, <2>3, <2>4, <2>5
  <1>12. \A j \in Slot \ K : SameCall(j)
    BY <1>2, <1>5 DEF SameCall
  <1>13. \A j \in K : ok => call[j].op # "pair"
    BY <1>5
  <1> QED
    BY <1>2, <1>5, <1>8, <1>9, <1>10, <1>11, <1>12, <1>13, SidecarStep

LEMMA CloseSeenStep ==
  ASSUME Invariant, NEW k \in Slot, CloseSeen(k)
  PROVE  Invariant'
  <1>1. call[k].pc = "close" /\ UNCHANGED <<child, pairProc, cancelled, linked, overlap>>
    BY DEF CloseSeen
  <1>2. CASE /\ Closed(k) /\ NoFault
             /\ call' = [call EXCEPT ![k].pc = "verify"] /\ UNCHANGED <<web, canc>>
    <2>1. Onward(k, "verify") /\ call'[k].child = call[k].child
      BY <1>2, Parts, OnwardFacts
    <2>2. /\ call' \in [Slot -> Calls] /\ \A j \in Slot \ {k} : call'[j] = call[j]
          /\ call'[k].op = call[k].op /\ call'[k].acct = call[k].acct
          /\ call'[k].pc = "verify" /\ child[call[k].child] = "closed"
      BY <1>2, <2>1 DEF Onward, Closed
    <2>3. \A j \in Slot : CallOK(j)
      BY Parts DEF CallShape
    <2>4. SideTypes'
      BY <1>1, <1>2, <2>2, Parts DEF SideTypes, NoFault
    <2>5. CallShape'
      <3>1. CallOK(k)'
        BY <1>1, <2>2, <2>3 DEF CallOK
      <3> QED
        BY <1>1, <2>2, <3>1, Parts, CallsKept
    <2>6. SideShape'
      <3> SUFFICES ASSUME NEW b \in Account PROVE SideOK(b)'
        BY DEF SideShape
      <3>1. SideOK(b) /\ canc[b] \in Slot \cup {None}
        BY Parts DEF SideShape, SideTypes
      <3> QED
        BY <1>1, <1>2, <2>2, <3>1 DEF SideOK, Acct
    <2>7. KeepsStopping({}, FALSE, None)
      <3> SUFFICES ASSUME ~overlap
                   PROVE  /\ OnePair' /\ \A j \in Slot : CallStops(j)'
                          /\ \A j \in Slot, d \in Child : Stopping(j, d) => Stopping(j, d)'
        BY <1>1 DEF KeepsStopping, Reachable
      <3>1. OnePair /\ \A j \in Slot : CallStops(j)
        BY Parts DEF StopInv
      <3>2. OnePair'
        BY <1>1, <2>2, <3>1 DEF OnePair, Acct
      <3>3. ASSUME NEW j \in Slot, j # k PROVE CallStops(j)'
        BY <1>1, <2>2, <2>3, <3>1, <3>3, CallStopsKept DEF Reachable
      <3>4. CallStops(k)'
        <4>1. CallStops(k) /\ Acct(k) \in Account /\ SideOK(Acct(k))
          BY <1>1, <2>3, <3>1, Parts DEF CallOK, Acct, SideShape
        <4>2. pairProc[Acct(k)] # call[k].child \/ pairProc[Acct(k)] = None
          BY <2>2, <4>1 DEF SideOK
        <4> QED
          BY <1>1, <2>2, <4>1, <4>2 DEF CallStops, PairReady, Acct
      <3>5. ASSUME NEW j \in Slot, NEW d \in Child, Stopping(j, d) PROVE Stopping(j, d)'
        BY <1>1, <2>2, <2>3, <3>5 DEF Stopping, CallOK
      <3> QED
        BY <3>2, <3>3, <3>4, <3>5
    <2>8. \A j \in Slot : SameCall(j)
      BY <2>2 DEF SameCall
    <2> QED
      BY <1>1, <1>2, <2>4, <2>5, <2>6, <2>7, <2>8, Parts, Unanswered, SidecarStep, Zenon
  <1>3. CASE ~Closed(k) /\ Fault /\ EndCancel(k, FALSE)
    <2>1. cancelled' \in [Account -> BOOLEAN] /\ faults' \in 0..MaxFaults
      BY <1>1, <1>3, Parts, PairingAssumption DEF SideTypes, Fault
    <2> QED
      BY <1>1, <1>3, <2>1, EndStep
  <1> QED
    BY <1>2, <1>3 DEF CloseSeen

LEMMA VerifyStep ==
  ASSUME Invariant, NEW k \in Slot, Verify(k)
  PROVE  Invariant'
  <1>1. call[k].pc = "verify" /\ UNCHANGED <<child, pairProc, linked, overlap>>
    BY DEF Verify
  <1>2. PICK a \in Account : a = Acct(k)
    BY <1>1, Parts DEF CallShape, CallOK, Acct
  <1>3. linked \in [Account -> BOOLEAN] /\ cancelled \in [Account -> BOOLEAN] /\ faults \in 0..MaxFaults
    BY Parts DEF SideTypes
  <1>4. CASE /\ EndCancel(k, ~linked[a]) /\ NoFault
             /\ cancelled' = [cancelled EXCEPT ![a] = @ \/ ~linked[a]]
    <2>1. faults' \in 0..MaxFaults
      BY <1>3, <1>4 DEF NoFault
    <2>2. cancelled' \in [Account -> BOOLEAN]
      BY <1>2, <1>3, <1>4
    <2>3. CASE linked[a]
      <3>1. EndCancel(k, FALSE)
        BY <1>4, <2>3 DEF EndCancel, Answer
      <3> QED
        BY <1>1, <2>1, <2>2, <3>1, EndStep
    <2>4. CASE ~linked[a]
      <3>1. EndCancel(k, TRUE)
        BY <1>4, <2>4 DEF EndCancel, Answer
      <3> QED
        BY <1>1, <2>1, <2>2, <3>1, EndStep
    <2> QED
      BY <2>3, <2>4
  <1>5. CASE EndCancel(k, FALSE) /\ Fault /\ UNCHANGED cancelled
    <2>1. faults' \in 0..MaxFaults /\ cancelled' \in [Account -> BOOLEAN]
      BY <1>3, <1>5, PairingAssumption DEF Fault
    <2> QED
      BY <1>1, <1>5, <2>1, EndStep
  <1> QED
    BY <1>2, <1>4, <1>5 DEF Verify

(* A pair call between its start and the preparation of the store.          *)
LEMMA PairMoves ==
  ASSUME Invariant, NEW k \in Slot, call[k].op = "pair", NEW pc \in {"check", "store"},
         call[k].pc \in {"start", "check", "recheck"},
         call' = [call EXCEPT ![k].pc = pc],
         pc = "store" => pairProc[Acct(k)] = None /\ call[k].pc # "start",
         UNCHANGED <<web, child, side, linked, faults>>, overlap' \in BOOLEAN,
         overlap => overlap',
         ~overlap' => \A j \in Slot : call[j].op = "pair" /\ Acct(j) = Acct(k)
                                        /\ call[j].pc # "start" => j = k
  PROVE  Invariant'
  <1>1. /\ call' \in [Slot -> Calls] /\ \A j \in Slot \ {k} : call'[j] = call[j]
        /\ call'[k].op = "pair" /\ call'[k].acct = call[k].acct /\ call'[k].pc = pc
    BY Parts, OnwardFacts DEF Onward
  <1>2. UNCHANGED <<child, pairProc, canc, cancelled>>
    BY DEF side
  <1>3. SideTypes'
    BY <1>1, <1>2, Parts DEF SideTypes
  <1>4. \A j \in Slot : CallOK(j)
    BY Parts DEF CallShape
  <1>5. CallShape'
    <2>1. CallOK(k)'
      BY <1>1, <1>4 DEF CallOK
    <2> QED
      BY <1>1, <2>1, Parts, CallsKept
  <1>6. SideShape'
    <2> SUFFICES ASSUME NEW b \in Account PROVE SideOK(b)'
      BY DEF SideShape
    <2>1. SideOK(b) /\ canc[b] \in Slot \cup {None}
      BY Parts DEF SideShape, SideTypes
    <2> QED
      BY <1>1, <1>2, <2>1 DEF SideOK, Acct
  <1>7. KeepsStopping({}, FALSE, None)
    <2> SUFFICES ASSUME ~overlap'
                 PROVE  /\ OnePair' /\ \A j \in Slot : CallStops(j)'
                        /\ \A j \in Slot, d \in Child :
                             call[j].op = "cancel" /\ Stopping(j, d) => Stopping(j, d)'
      BY <1>2 DEF KeepsStopping, Reachable
    <2>1. OnePair /\ \A j \in Slot : CallStops(j)
      BY Parts DEF StopInv
    <2>2. OnePair'
      BY <1>1, <2>1 DEF OnePair, Acct
    <2>3. ASSUME NEW j \in Slot, j # k PROVE CallStops(j)'
      BY <1>1, <1>2, <1>4, <2>1, <2>3, CallStopsKept DEF Reachable
    <2>4. CallStops(k)'
      BY <1>1, <1>2 DEF CallStops, PairReady, Acct
    <2>5. ASSUME NEW j \in Slot, NEW d \in Child, call[j].op = "cancel", Stopping(j, d)
          PROVE  Stopping(j, d)'
      BY <1>1, <1>2, <1>4, <2>5 DEF Stopping, CallOK
    <2> QED
      BY <2>2, <2>3, <2>4, <2>5
  <1>8. \A j \in Slot : SameCall(j)
    BY <1>1 DEF SameCall
  <1> QED
    BY <1>3, <1>5, <1>6, <1>7, <1>8, Parts, Unanswered, SidecarStep, Zenon

LEMMA PairStep ==
  ASSUME Invariant, NEW k \in Slot, Pair(k)
  PROVE  Invariant'
  <1>1. /\ call[k].op = "pair" /\ call[k].pc = "start"
        /\ call' = [call EXCEPT ![k].pc = "check"]
        /\ UNCHANGED <<web, child, side, linked, faults>>
        /\ overlap' = (overlap \/ \E j \in Slot : call[j].op = "pair" /\ Acct(j) = Acct(k)
                                                   /\ call[j].pc # "start")
    BY DEF Pair, In
  <1>2. /\ overlap' \in BOOLEAN /\ (overlap => overlap')
        /\ ~overlap' => \A j \in Slot : call[j].op = "pair" /\ Acct(j) = Acct(k)
                                          /\ call[j].pc # "start" => j = k
    BY <1>1, Parts DEF SideTypes
  <1> QED
    BY <1>1, <1>2, PairMoves

LEMMA PairCheckStep ==
  ASSUME Invariant, NEW k \in Slot, PairCheck(k)
  PROVE  Invariant'
  <1>1. /\ call[k].op = "pair" /\ call[k].pc \in {"check", "recheck"}
        /\ UNCHANGED <<web, pairProc, cancelled, linked, overlap, faults>>
        /\ \/ RunCancel(k)
           \/ /\ pairProc[Acct(k)] = None /\ call' = [call EXCEPT ![k].pc = "store"]
              /\ UNCHANGED <<child, canc>>
    BY DEF PairCheck, In
  <1>2. CASE RunCancel(k)
    BY <1>1, <1>2, RunCancelStep
  <1>3. CASE /\ pairProc[Acct(k)] = None /\ call' = [call EXCEPT ![k].pc = "store"]
             /\ UNCHANGED <<child, canc>>
    <2>1. overlap' \in BOOLEAN /\ (overlap => overlap')
      BY <1>1, Parts DEF SideTypes
    <2>3. ASSUME ~overlap PROVE OnePair
      BY <2>3, Parts DEF StopInv
    <2>4. ~overlap' => \A j \in Slot : call[j].op = "pair" /\ Acct(j) = Acct(k)
                                          /\ call[j].pc # "start" => j = k
      BY <1>1, <2>3 DEF OnePair
    <2>2. UNCHANGED <<web, child, side, linked, faults>>
      BY <1>1, <1>3 DEF side
    <2> QED
      BY <1>1, <1>3, <2>1, <2>2, <2>4, PairMoves
  <1> QED
    BY <1>1, <1>2, <1>3

(* A pair call that comes to its end; c is the process it hands out.        *)
LEMMA PairEnds ==
  ASSUME Invariant, NEW k \in Slot, call[k].op = "pair", call[k].pc \in {"store", "qr"},
         NEW ok \in BOOLEAN, NEW c \in Child \cup {None}, Answer({k}, ok, c),
         ok => c = call[k].child /\ call[k].pc = "qr",
         call' = [call EXCEPT ![k] = Free],
         UNCHANGED <<lock, paired, pairProc, linked, overlap>>, faults' \in 0..MaxFaults,
         cancelled' \in [Account -> BOOLEAN],
         canc' \in [Account -> Slot \cup {None}],
         \A b \in Account : canc'[b] \in {canc[b], None},
         child' \in [Child -> {"unused", "running", "killed", "closed"}],
         \A d \in Child : /\ child'[d] = "closed" <=> child[d] = "closed"
                          /\ child[d] \in {"running", "killed"} => child'[d] \in {"running", "killed"}
  PROVE  Invariant'
  <1>1. /\ call' \in [Slot -> Calls] /\ call'[k] = Free /\ \A j \in Slot \ {k} : call'[j] = call[j]
    BY Parts, Records DEF SideTypes
  <1>2. SideTypes'
    BY <1>1, Parts DEF SideTypes
  <1>3. \A j \in Slot : CallOK(j)
    BY Parts DEF CallShape
  <1>4. CallShape'
    <2>1. CallOK(k)'
      BY <1>1 DEF CallOK, Free
    <2> QED
      BY <1>1, <2>1, Parts, CallsKept
  <1>5. SideShape'
    <2> SUFFICES ASSUME NEW b \in Account PROVE SideOK(b)'
      BY DEF SideShape
    <2>1. /\ SideOK(b) /\ canc[b] \in Slot \cup {None} /\ pairProc[b] \in Child \cup {None}
          /\ canc'[b] \in {canc[b], None}
      BY Parts DEF SideShape, SideTypes
    <2>2. canc[b] # k
      BY <2>1, Values DEF SideOK
    <2> QED
      BY <1>1, <2>1, <2>2 DEF SideOK, Acct
  <1>6. KeepsStopping({k}, ok, c)
    <2> SUFFICES ASSUME ~overlap
                 PROVE  /\ OnePair' /\ \A j \in Slot : CallStops(j)'
                        /\ \A j \in Slot \ {k}, d \in Child : Stopping(j, d) => Stopping(j, d)'
                        /\ ok => child'[c] = "closed" \/ pairProc'[Acct(k)] = c
      BY DEF KeepsStopping, Reachable
    <2>1. OnePair /\ \A j \in Slot : CallStops(j)
      BY Parts DEF StopInv
    <2>2. OnePair'
      BY <1>1, <2>1 DEF OnePair, Acct, Free
    <2>3. ASSUME NEW j \in Slot PROVE CallStops(j)'
      BY <1>1, <1>3, <2>1, CallStopsKept DEF Reachable
    <2>4. ASSUME NEW j \in Slot \ {k}, NEW d \in Child, Stopping(j, d) PROVE Stopping(j, d)'
      BY <1>1, <1>3, <2>4 DEF Stopping, CallOK
    <2>5. ok => child'[c] = "closed" \/ pairProc'[Acct(k)] = c
      BY <1>3, <2>1 DEF CallStops, CallOK, Reachable
    <2> QED
      BY <2>2, <2>3, <2>4, <2>5
  <1>7. \A j \in Slot \ {k} : SameCall(j)
    BY <1>1 DEF SameCall
  <1>8. ok => \A j \in {k} : call[j].op = "pair" => c \in Child
    BY <1>3 DEF CallOK
  <1> QED
    BY <1>2, <1>4, <1>5, <1>6, <1>7, <1>8, SidecarStep

(* A spawn finds the field pairProcess empty, so every process handed out   *)
(* for this account before has been seen to close.                          *)
LEMMA SpawnStep ==
  ASSUME Invariant, NEW k \in Slot, Spawn(k)
  PROVE  Invariant'
  <1>1. PICK a \in Account : a = Acct(k)
    BY Parts DEF Spawn, In, CallShape, CallOK, Acct
  <1>2. /\ call[k].op = "pair" /\ call[k].pc = "store"
        /\ canc' = [canc EXCEPT ![a] = None] /\ cancelled' = [cancelled EXCEPT ![a] = FALSE]
        /\ UNCHANGED <<linked, overlap, faults>>
    BY <1>1 DEF Spawn, In
  <1>3. /\ canc' \in [Account -> Slot \cup {None}] /\ canc'[a] = None
        /\ \A b \in Account \ {a} : canc'[b] = canc[b]
        /\ cancelled' \in [Account -> BOOLEAN] /\ faults' \in 0..MaxFaults
    BY <1>2, Parts DEF SideTypes
  <1>4. CASE /\ call' = [call EXCEPT ![k] = Free] /\ Answer({k}, FALSE, None)
             /\ UNCHANGED <<lock, paired, child, pairProc>>
    <2>1. child \in [Child -> {"unused", "running", "killed", "closed"}]
      BY Parts DEF SideTypes
    <2>2. \A b \in Account : canc'[b] \in {canc[b], None}
      BY <1>3
    <2> QED
      BY <1>2, <1>3, <1>4, <2>1, <2>2, PairEnds
  <1>5. ASSUME NEW c \in Child, child[c] = "unused", child' = [child EXCEPT ![c] = "running"],
               pairProc' = [pairProc EXCEPT ![a] = c],
               call' = [call EXCEPT ![k].pc = "qr", ![k].child = c], UNCHANGED web
        PROVE  Invariant'
    <2> DEFINE o == call[k]
               x == [o EXCEPT !.pc = "qr", !.child = c]
    <2>1. o \in Calls /\ call \in [Slot -> Calls]
      BY Parts DEF SideTypes
    <2>2. call' = [call EXCEPT ![k] = x]
      BY <1>5
    <2> HIDE DEF o
    <2>3. x \in Calls /\ x.op = o.op /\ x.acct = o.acct /\ x.pc = "qr" /\ x.child = c
      BY <1>5, <2>1 DEF Calls
    <2> HIDE DEF x
    <2>4. /\ call' \in [Slot -> Calls] /\ \A j \in Slot \ {k} : call'[j] = call[j]
          /\ call'[k] = x
      BY <2>1, <2>2, <2>3
    <2>5. /\ call'[k].op = "pair" /\ call'[k].acct = a /\ call[k].acct = a
          /\ call'[k].pc = "qr" /\ call'[k].child = c
      BY <1>1, <1>2, <2>3, <2>4 DEF o, Acct
    <2>6. /\ child' \in [Child -> {"unused", "running", "killed", "closed"}]
          /\ child'[c] = "running" /\ \A d \in Child \ {c} : child'[d] = child[d]
          /\ pairProc' \in [Account -> Child \cup {None}] /\ pairProc'[a] = c
          /\ \A b \in Account \ {a} : pairProc'[b] = pairProc[b]
      BY <1>5, Parts DEF SideTypes
    <2>7. SideTypes'
      BY <1>2, <1>3, <2>4, <2>6, Parts DEF SideTypes
    <2>8. \A j \in Slot : CallOK(j)
      BY Parts DEF CallShape
    <2>9. CallShape'
      <3>1. CallOK(k)'
        BY <1>1, <2>5, <2>8 DEF CallOK
      <3> QED
        BY <1>2, <2>4, <3>1, Parts, CallsKept
    <2>10. SideShape'
      <3>1. SideOK(a)'
        BY <1>3, <2>6 DEF SideOK
      <3>2. ASSUME NEW b \in Account, b # a PROVE SideOK(b)'
        <4>1. /\ SideOK(b) /\ canc[b] \in Slot \cup {None} /\ pairProc[b] \in Child \cup {None}
          BY Parts DEF SideShape, SideTypes
        <4>2. pairProc[b] # c /\ canc[b] # k
          BY <1>2, <1>5, <4>1, Values DEF SideOK
        <4> QED
          BY <1>3, <2>4, <2>6, <3>2, <4>1, <4>2 DEF SideOK, Acct
      <3> QED
        BY <3>1, <3>2 DEF SideShape
    <2>11. KeepsStopping({}, FALSE, None)
      <3> SUFFICES ASSUME ~overlap
                   PROVE  /\ OnePair' /\ \A j \in Slot : CallStops(j)'
                          /\ \A d \in Child : child[d] = "closed" => child'[d] = "closed"
                          /\ \A b \in Account, d \in Child :
                               Reachable(b, d) => child'[d] = "closed" \/ pairProc'[b] = d
                          /\ \A j \in Slot, d \in Child :
                               call[j].op = "cancel" /\ Stopping(j, d) => Stopping(j, d)'
        BY <1>2 DEF KeepsStopping
      <3>1. OnePair /\ \A j \in Slot : CallStops(j)
        BY Parts DEF StopInv
      <3>2. pairProc[a] = None
        BY <1>1, <1>2, <3>1 DEF CallStops, PairReady
      <3>3. \A d \in Child : child[d] = "closed" => child'[d] = "closed"
        BY <1>5, <2>6
      <3>4. \A b \in Account, d \in Child :
              Reachable(b, d) => child'[d] = "closed" \/ pairProc'[b] = d
        BY <2>6, <3>2, <3>3, Values DEF Reachable
      <3>5. OnePair'
        BY <1>1, <1>2, <2>4, <2>5, <3>1 DEF OnePair, Acct
      <3>6. ASSUME NEW j \in Slot, j # k PROVE CallStops(j)'
        <4>1. CallStops(j) /\ CallOK(j) /\ call'[j] = call[j]
          BY <2>4, <2>8, <3>1, <3>6
        <4>2. call[j].op = "pair" /\ call[j].pc # "start" => Acct(j) # a
          BY <1>1, <1>2, <3>1, <3>6 DEF OnePair
        <4>3. PairReady(j)'
          BY <2>6, <4>1, <4>2 DEF CallStops, PairReady, CallOK, Acct
        <4>4. call[j].pc = "qr" => child'[call[j].child] = "closed" \/ pairProc'[Acct(j)] = call[j].child
          BY <3>4, <4>1 DEF CallStops, CallOK, Acct
        <4> QED
          BY <4>1, <4>3, <4>4 DEF CallStops, Reachable, Acct
      <3>7. CallStops(k)'
        BY <2>5, <2>6 DEF CallStops, PairReady, Reachable, Acct
      <3>8. ASSUME NEW j \in Slot, NEW d \in Child, call[j].op = "cancel", Stopping(j, d)
            PROVE  Stopping(j, d)'
        BY <1>2, <2>4, <2>8, <3>3, <3>8 DEF Stopping, CallOK
      <3> QED
        BY <3>3, <3>4, <3>5, <3>6, <3>7, <3>8
    <2>12. \A j \in Slot : SameCall(j)
      BY <1>1, <1>2, <2>4, <2>5 DEF SameCall
    <2>13. overlap => overlap'
      BY <1>2
    <2> QED
      BY <1>5, <2>7, <2>9, <2>10, <2>11, <2>12, <2>13, Parts, Unanswered, SidecarStep, Zenon
  <1> QED
    BY <1>1, <1>4, <1>5 DEF Spawn

LEMMA QrReadStep ==
  ASSUME Invariant, NEW k \in Slot, QrRead(k)
  PROVE  Invariant'
  <1>1. /\ call[k].op = "pair" /\ call[k].pc = "qr" /\ call' = [call EXCEPT ![k] = Free]
        /\ UNCHANGED <<lock, paired, pairProc, canc, cancelled, linked, overlap>>
        /\ Fault \/ NoFault
    BY DEF QrRead, In, side
  <1>2. faults' \in 0..MaxFaults
    BY <1>1, Parts, PairingAssumption DEF SideTypes, Fault, NoFault
  <1>3. /\ canc' \in [Account -> Slot \cup {None}] /\ cancelled' \in [Account -> BOOLEAN]
        /\ \A b \in Account : canc'[b] \in {canc[b], None}
        /\ child \in [Child -> {"unused", "running", "killed", "closed"}]
    BY <1>1, Parts DEF SideTypes
  <1>4. call[k].child \in Child
    BY <1>1, Parts DEF CallShape, CallOK
  <1>5. CASE Answer({k}, TRUE, call[k].child) /\ UNCHANGED child
    BY <1>1, <1>2, <1>3, <1>4, <1>5, PairEnds
  <1>6. CASE Answer({k}, FALSE, None) /\ child' = Killed(call[k].child)
    <2>1. /\ child' \in [Child -> {"unused", "running", "killed", "closed"}]
          /\ \A d \in Child : /\ child'[d] = "closed" <=> child[d] = "closed"
                              /\ child[d] \in {"running", "killed"} => child'[d] \in {"running", "killed"}
      BY <1>3, <1>6, KilledFacts
    <2> QED
      BY <1>1, <1>2, <1>3, <1>6, <2>1, PairEnds
  <1> QED
    BY <1>5, <1>6 DEF QrRead

-----------------------------------------------------------------------------
(***************************************************************************)
(* The steps of the world.                                                 *)
(***************************************************************************)
LEMMA CloseStep ==
  ASSUME Invariant, NEW c \in Child, Close(c)
  PROVE  Invariant'
  <1>1. /\ child[c] \in {"running", "killed"} /\ child' = [child EXCEPT ![c] = "closed"]
        /\ pairProc' = [a \in Account |-> IF pairProc[a] = c THEN None ELSE pairProc[a]]
        /\ UNCHANGED <<web, call, canc, cancelled, linked, overlap, faults>>
    BY DEF Close, Cleared
  <1>2. /\ child' \in [Child -> {"unused", "running", "killed", "closed"}]
        /\ child'[c] = "closed" /\ \A d \in Child \ {c} : child'[d] = child[d]
        /\ pairProc' \in [Account -> Child \cup {None}]
        /\ \A a \in Account : pairProc'[a] = IF pairProc[a] = c THEN None ELSE pairProc[a]
    BY <1>1, Parts DEF SideTypes
  <1>3. SideTypes' /\ CallShape'
    BY <1>1, <1>2, Parts DEF SideTypes, CallShape, CallOK, Acct
  <1>4. SideShape'
    <2> SUFFICES ASSUME NEW b \in Account PROVE SideOK(b)'
      BY DEF SideShape
    <2>1. SideOK(b) /\ pairProc[b] \in Child \cup {None}
      BY Parts DEF SideShape, SideTypes
    <2> QED
      BY <1>1, <1>2, <2>1 DEF SideOK, Acct
  <1>5. KeepsStopping({}, FALSE, None)
    <2> SUFFICES ASSUME ~overlap
                 PROVE  /\ OnePair' /\ \A j \in Slot : CallStops(j)'
                        /\ \A d \in Child : child[d] = "closed" => child'[d] = "closed"
                        /\ \A b \in Account, d \in Child :
                             Reachable(b, d) => child'[d] = "closed" \/ pairProc'[b] = d
                        /\ \A j \in Slot, d \in Child : Stopping(j, d) => Stopping(j, d)'
      BY <1>1 DEF KeepsStopping
    <2>1. OnePair /\ \A j \in Slot : CallStops(j) /\ CallOK(j)
      BY Parts DEF StopInv, CallShape
    <2>2. OnePair'
      BY <1>1, <2>1 DEF OnePair, Acct
    <2>3. \A d \in Child : child[d] = "closed" => child'[d] = "closed"
      BY <1>2
    <2>4. \A b \in Account, d \in Child : Reachable(b, d) => child'[d] = "closed" \/ pairProc'[b] = d
      BY <1>2 DEF Reachable
    <2>5. \A b \in Account : pairProc'[b] = pairProc[b] \/ pairProc'[b] = None
      BY <1>2
    <2>6. ASSUME NEW j \in Slot PROVE CallStops(j)'
      BY <1>1, <2>1, <2>4, <2>5, CallStopsKept
    <2>7. \A j \in Slot, d \in Child : Stopping(j, d) => Stopping(j, d)'
      BY <1>1, <2>3 DEF Stopping
    <2> QED
      BY <2>2, <2>3, <2>4, <2>6, <2>7
  <1>6. \A j \in Slot : SameCall(j)
    BY <1>1 DEF SameCall
  <1> QED
    BY <1>1, <1>3, <1>4, <1>5, <1>6, Parts, Unanswered, SidecarStep, Zenon

LEMMA TimeoutStep ==
  ASSUME Invariant, NEW k \in Slot, Timeout(k)
  PROVE  Invariant'
  <1>1. /\ Answer({k}, FALSE, None) /\ Fault
        /\ UNCHANGED <<lock, paired, call, child, pairProc, canc, cancelled, linked, overlap>>
    BY DEF Timeout, side
  <1>2. SideTypes' /\ CallShape' /\ SideShape'
    BY <1>1, Parts, PairingAssumption
    DEF SideTypes, Fault, CallShape, CallOK, SideShape, SideOK, Acct
  <1>3. KeepsStopping({k}, FALSE, None)
    BY <1>1, Parts
    DEF KeepsStopping, StopInv, OnePair, CallStops, PairReady, Reachable, Stopping, Acct
  <1>4. \A j \in Slot : SameCall(j)
    BY <1>1 DEF SameCall
  <1> QED
    BY <1>1, <1>2, <1>3, <1>4, SidecarStep

LEMMA SidecarRestartStep ==
  ASSUME Invariant, SidecarRestart
  PROVE  Invariant'
  <1>1. /\ Answer(Slot, FALSE, None) /\ Fault
        /\ UNCHANGED <<lock, paired, linked, overlap>>
        /\ call' = [k \in Slot |-> Free]
        /\ child' = [c \in Child |-> IF child[c] = "unused" THEN "unused" ELSE "closed"]
        /\ pairProc' = [a \in Account |-> None] /\ canc' = [a \in Account |-> None]
        /\ cancelled' = [a \in Account |-> FALSE]
    BY DEF SidecarRestart
  <1>2. SideTypes'
    BY <1>1, Parts, Records, PairingAssumption DEF SideTypes, Fault
  <1>3. CallShape' /\ SideShape'
    BY <1>1 DEF CallShape, CallOK, SideShape, SideOK, Free
  <1>4. KeepsStopping(Slot, FALSE, None)
    <2>1. ASSUME NEW a \in Account, NEW d \in Child, Reachable(a, d) PROVE child'[d] = "closed"
      BY <1>1, <2>1, Parts, Values DEF Reachable, SideShape, SideOK
    <2>2. OnePair' /\ \A j \in Slot : CallStops(j)'
      BY <1>1 DEF OnePair, CallStops, PairReady, Free
    <2>3. \A d \in Child : child[d] = "closed" => child'[d] = "closed"
      BY <1>1
    <2> QED
      BY <2>1, <2>2, <2>3 DEF KeepsStopping
  <1> QED
    BY <1>1, <1>2, <1>3, <1>4, SidecarStep

(* A restart of the web process forgets its requests and its sessions.      *)
LEMMA WebRestartStep ==
  ASSUME Invariant, WebRestart
  PROVE  Invariant'
  <1>1. /\ req' = [r \in Request |-> Idle] /\ lock' = [a \in Account |-> <<>>] /\ Fault
        /\ UNCHANGED <<paired, call, child, pairProc, canc, cancelled, linked, overlap>>
    BY DEF WebRestart, side
  <1> DEFINE f(o, n) == [o EXCEPT !.listed = FALSE, !.cancel = n]
             x(s) == [sess[s] EXCEPT !.listed = FALSE, !.cancel = IF @ = Settled THEN @ ELSE None]
  <1>2. ASSUME NEW o \in Sessions, NEW n \in {Settled, None}
        PROVE  LET y == [o EXCEPT !.listed = FALSE, !.cancel = n]
               IN  /\ y \in Sessions /\ y.acct = o.acct /\ y.child = o.child /\ y.state = o.state
                   /\ y.listed = FALSE /\ y.cancel = n
    BY DEF Sessions
  <1>3. ASSUME NEW s \in Session
        PROVE  /\ x(s) \in Sessions /\ x(s).acct = sess[s].acct /\ x(s).child = sess[s].child
               /\ x(s).state = sess[s].state /\ x(s).listed = FALSE
               /\ x(s).cancel = IF sess[s].cancel = Settled THEN Settled ELSE None
    <2> DEFINE o == sess[s]
               n == IF o.cancel = Settled THEN Settled ELSE None
    <2>1. o \in Sessions /\ n \in {Settled, None}
      BY Parts DEF WebTypes
    <2>2. x(s) = [o EXCEPT !.listed = FALSE, !.cancel = n]
      BY Zenon
    <2> HIDE DEF o, n, x
    <2>3. LET y == [o EXCEPT !.listed = FALSE, !.cancel = n]
          IN  /\ y \in Sessions /\ y.acct = o.acct /\ y.child = o.child /\ y.state = o.state
              /\ y.listed = FALSE /\ y.cancel = n
      BY <1>2, <2>1
    <2> QED
      BY <2>2, <2>3, Zenon DEF o, n
  <1>4. sess' = [s \in Session |-> x(s)]
    BY DEF WebRestart
  <1> HIDE DEF x
  <1>5. sess' \in [Session -> Sessions]
    BY <1>3, <1>4
  <1>6. \A s \in Session :
          /\ sess'[s].acct = sess[s].acct /\ sess'[s].child = sess[s].child
          /\ sess'[s].state = sess[s].state /\ sess'[s].listed = FALSE
          /\ sess'[s].cancel = IF sess[s].cancel = Settled THEN Settled ELSE None
    BY <1>3, <1>4
  <1>7. req' \in [Request -> Requests] /\ \A r \in Request : req'[r].pc = "idle" /\ req'[r].wait = None
                                                            /\ req'[r].ok /\ req'[r].op = "none"
    BY <1>1, Records DEF Idle
  <1>8. \A a \in Account : lock'[a] = <<>>
    BY <1>1
  <1>9. WebTypes'
    BY <1>1, <1>5, <1>7, Parts DEF WebTypes
  <1>10. SideTypes'
    BY <1>1, Parts, PairingAssumption DEF SideTypes, Fault
  <1>11. LockShape'
    BY <1>7, <1>8 DEF LockShape, IsInjective, ToSet
  <1>12. \A r \in Request : RequestOK(r)' /\ RequestStops(r)'
    BY <1>7 DEF RequestOK, RequestStops, At
  <1>13. ASSUME NEW s \in Session PROVE SessionOK(s)' /\ (~overlap => SessionStops(s)')
    <2>1. SessionOK(s) /\ (~overlap => SessionStops(s))
      BY Parts DEF SessionShape, StopInv
    <2> QED
      BY <1>1, <1>6, <2>1, Values DEF SessionOK, SessionStops, Reachable
  <1>14. \A s \in Session : sess[s].state # "unused" => sess'[s].state # "unused"
    BY <1>6
  <1> QED
    BY <1>1, <1>9, <1>10, <1>11, <1>12, <1>13, <1>14, WebStep

LEMMA AgeStep ==
  ASSUME Invariant, NEW s \in Session, Age(s)
  PROVE  Invariant'
  <1> DEFINE o == sess[s]
  <1>1. o \in Sessions /\ o.age < 2 /\ sess \in [Session -> Sessions]
    BY Parts DEF Age, WebTypes
  <1>2. /\ sess' = [sess EXCEPT ![s] = [o EXCEPT !.age = o.age + 1]]
        /\ UNCHANGED <<req, lock, paired, call, child, pairProc, canc, cancelled, linked, overlap, faults>>
    BY DEF Age, side
  <1> HIDE DEF o
  <1> DEFINE n == o.age + 1
  <1>3. n \in 0..2
    BY <1>1 DEF Sessions
  <1> HIDE DEF n
  <1> DEFINE x == [o EXCEPT !.age = n]
  <1>4. /\ x \in Sessions /\ x.acct = o.acct /\ x.child = o.child /\ x.state = o.state
        /\ x.cancel = o.cancel /\ x.listed = o.listed
    BY <1>1, <1>3 DEF Sessions
  <1>5. sess' = [sess EXCEPT ![s] = x]
    BY <1>2 DEF n
  <1> HIDE DEF x
  <1>6. /\ sess' \in [Session -> Sessions] /\ sess'[s] = x
        /\ \A t \in Session \ {s} : sess'[t] = sess[t]
    BY <1>1, <1>4, <1>5
  <1>7. /\ sess'[s].acct = sess[s].acct /\ sess'[s].child = sess[s].child
        /\ sess'[s].state = sess[s].state /\ sess'[s].cancel = sess[s].cancel
        /\ sess'[s].listed = sess[s].listed
    BY <1>4, <1>6 DEF o
  <1>8. WebTypes' /\ SideTypes'
    BY <1>2, <1>6, Parts DEF WebTypes, SideTypes
  <1>9. LockShape'
    BY <1>2, Parts DEF LockShape
  <1>10. SessionOK(s)' /\ (~overlap => SessionStops(s)')
    <2>1. SessionOK(s) /\ (~overlap => SessionStops(s))
      BY Parts DEF SessionShape, StopInv
    <2> QED
      BY <1>2, <1>7, <2>1 DEF SessionOK, SessionStops, Reachable, Stopping, Acct
  <1>11. \A t \in Session : sess[t].state # "unused" => sess'[t].state # "unused"
    BY <1>6, <1>7
  <1> QED
    BY <1>2, <1>6, <1>8, <1>9, <1>10, <1>11, WebStep

(* The phone links or unlinks the store: no part of the invariant mentions it. *)
LEMMA LinkStep ==
  ASSUME Invariant, UNCHANGED <<web, call, child, side, overlap>>,
         linked' \in [Account -> BOOLEAN], faults' \in 0..MaxFaults
  PROVE  Invariant'
  <1>1. UNCHANGED <<req, lock, sess, paired, call, child, pairProc, canc, cancelled, overlap>>
    BY DEF web, side
  <1>2. WebTypes' /\ SideTypes' /\ LockShape'
    BY <1>1, Parts DEF WebTypes, SideTypes, LockShape
  <1> QED
    BY <1>1, <1>2, WebStep

-----------------------------------------------------------------------------
(***************************************************************************)
(* The theorems.                                                           *)
(***************************************************************************)
LEMMA InitInvariant == Init => Invariant
  <1> SUFFICES ASSUME Init PROVE Invariant
    OBVIOUS
  <1>1. /\ req = [r \in Request |-> Idle] /\ lock = [a \in Account |-> <<>>]
        /\ sess = [s \in Session |-> Unused] /\ paired = [a \in Account |-> FALSE]
        /\ call = [k \in Slot |-> Free] /\ child = [c \in Child |-> "unused"]
        /\ pairProc = [a \in Account |-> None] /\ canc = [a \in Account |-> None]
        /\ cancelled = [a \in Account |-> FALSE] /\ linked = [a \in Account |-> FALSE]
        /\ overlap = FALSE /\ faults = 0
    BY DEF Init
  <1>2. WebTypes /\ SideTypes
    <2>1. req \in [Request -> Requests] /\ sess \in [Session -> Sessions] /\ call \in [Slot -> Calls]
      BY <1>1, Records
    <2>2. lock \in [Account -> Seq(Request)] /\ paired \in [Account -> BOOLEAN]
      BY <1>1
    <2>3. /\ child \in [Child -> {"unused", "running", "killed", "closed"}]
          /\ pairProc \in [Account -> Child \cup {None}] /\ canc \in [Account -> Slot \cup {None}]
          /\ cancelled \in [Account -> BOOLEAN] /\ linked \in [Account -> BOOLEAN]
      BY <1>1
    <2>4. faults \in 0..MaxFaults
      BY <1>1, PairingAssumption
    <2>5. overlap \in BOOLEAN
      BY Zenon DEF Init
    <2> QED
      BY <2>1, <2>2, <2>3, <2>4, <2>5 DEF WebTypes, SideTypes
  <1>3. RequestShape /\ LockShape
    BY <1>1 DEF RequestShape, RequestOK, LockShape, Idle, At, IsInjective, ToSet
  <1>4. SessionShape
    BY <1>1, Values DEF SessionShape, SessionOK, Unused
  <1>5. CallShape /\ SideShape
    BY <1>1 DEF CallShape, CallOK, SideShape, SideOK, Free
  <1>6. StopInv
    <2>1. OnePair /\ \A k \in Slot : CallStops(k)
      BY <1>1 DEF OnePair, CallStops, PairReady, Free
    <2>2. \A r \in Request : RequestStops(r)
      BY <1>1 DEF RequestStops, At, Idle
    <2>3. \A s \in Session : SessionStops(s)
      BY <1>1, Values DEF SessionStops, Unused
    <2> QED
      BY <2>1, <2>2, <2>3 DEF StopInv
  <1> QED
    BY <1>2, <1>3, <1>4, <1>5, <1>6 DEF Invariant

LEMMA NextInvariant == Invariant /\ [Next]_vars => Invariant'
  <1> SUFFICES ASSUME Invariant, [Next]_vars PROVE Invariant'
    OBVIOUS
  <1>1. ASSUME NEW r \in Request, RequestStep(r) PROVE Invariant'
    BY <1>1, EnterStep, PruneOneStep, PrunedStep, ConfirmStep, ExpireOwnStep, AskPairStep,
       NewSessionStep, SeenStep, FollowStep, FinishStep DEF RequestStep
  <1>2. ASSUME NEW k \in Slot, CallStep(k) PROVE Invariant'
    BY <1>2, CancelStep, CloseSeenStep, VerifyStep, PairStep, PairCheckStep, SpawnStep, QrReadStep
    DEF CallStep
  <1>3. ASSUME NEW a \in Account, Link(a) \/ Unlink(a) PROVE Invariant'
    <2>1. UNCHANGED <<web, call, child, side, overlap>>
      BY <1>3 DEF Link, Unlink
    <2>2. linked' \in [Account -> BOOLEAN] /\ faults' \in 0..MaxFaults
      <3>1. linked \in [Account -> BOOLEAN] /\ faults \in 0..MaxFaults
        BY Parts DEF SideTypes
      <3>2. linked' \in [Account -> BOOLEAN]
        BY <1>3, <3>1 DEF Link, Unlink
      <3>3. faults' \in 0..MaxFaults
        BY <1>3, <3>1, PairingAssumption DEF Link, Unlink, Fault
      <3> QED
        BY <3>2, <3>3
    <2> QED
      BY <2>1, <2>2, LinkStep
  <1>4. CASE UNCHANGED vars
    <2>1. UNCHANGED <<web, call, child, side, overlap, linked, faults>>
      BY <1>4 DEF vars
    <2>2. linked' \in [Account -> BOOLEAN] /\ faults' \in 0..MaxFaults
      BY <2>1, Parts DEF SideTypes
    <2> QED
      BY <2>1, <2>2, LinkStep
  <1> QED
    BY <1>1, <1>2, <1>3, <1>4, BeginStep, StatusStep, TimeoutStep, CloseStep, AgeStep,
       WebRestartStep, SidecarRestartStep DEF Next

LEMMA InvariantHolds == Spec => []Invariant
  BY InitInvariant, NextInvariant, PTL DEF Spec

(* Every variable keeps its type; a request that waits for the sidecar     *)
(* waits for a call that runs, the field pairProcess never refers to a     *)
(* closed process, and nobody queues twice on the lock of an account.      *)
THEOREM TypeCorrect == Spec => []TypeOK
  <1>1. Invariant => TypeOK
    <2> SUFFICES ASSUME Invariant PROVE TypeOK
      OBVIOUS
    <2>1. \A r \in Request : req[r].wait # None => call[req[r].wait].op # "none"
      BY Parts DEF RequestShape, RequestOK
    <2>2. \A a \in Account :
            /\ IsInjective(lock[a])
            /\ pairProc[a] # None => child[pairProc[a]] \in {"running", "killed"}
            /\ canc[a] # None => Acct(canc[a]) = a
      BY Parts DEF LockShape, SideShape, SideOK
    <2>3. \A s \in Session : sess[s].state # "unused" => sess[s].child \in Child
      BY Parts DEF SessionShape, SessionOK
    <2> QED
      BY <2>1, <2>2, <2>3, Parts DEF TypeOK
  <1> QED
    BY <1>1, InvariantHolds, PTL

(* A session that is shown as expired has no pairing process left that a   *)
(* phone could still link, as long as no two pair calls of its account     *)
(* have run at once: expire() awaits the cancellation, and every process   *)
(* handed out for the account is closed or the one the cancellation ends.  *)
THEOREM ExpiredHaveStopped == Spec => []ExpiredMeansStopped
  <1>1. Invariant => ExpiredMeansStopped
    BY DEF Invariant, StopInv, SessionStops, ExpiredMeansStopped
  <1> QED
    BY <1>1, InvariantHolds, PTL

(* Nobody is left behind by a failure: whoever is first on the lock of an  *)
(* account is a request in progress, what it awaits is a call that runs,   *)
(* and a call that joined a cancellation joined one that has steps to take.*)
THEOREM EverybodyHasATurn == Spec => []NobodyStranded
  <1>1. Invariant => NobodyStranded
    <2> SUFFICES ASSUME Invariant PROVE NobodyStranded
      OBVIOUS
    <2>1. ASSUME NEW a \in Account, lock[a] # <<>>
          PROVE  /\ req[Head(lock[a])].acct = a
                 /\ req[Head(lock[a])].wait = None \/ call[req[Head(lock[a])].wait].op # "none"
      <3>1. lock[a] \in Seq(Request) /\ IsInjective(lock[a])
        BY Parts DEF WebTypes, LockShape
      <3>2. Head(lock[a]) \in ToSet(lock[a])
        BY <2>1, <3>1, Dequeued
      <3>3. Head(lock[a]) \in Request
        BY <3>2, Parts, Waiting
      <3> QED
        BY <3>2, <3>3, Parts DEF LockShape, RequestShape, RequestOK
    <2>2. \A r \in Request : req[r].pc \notin {"idle"} => r \in ToSet(lock[req[r].acct])
      BY Parts DEF LockShape
    <2>3. \A k \in Slot : call[k].pc = "join" =>
            /\ call[call[k].on].pc \in {"close", "verify"}
            /\ Acct(call[k].on) = Acct(k)
      BY Parts DEF CallShape, CallOK
    <2> QED
      BY <2>1, <2>2, <2>3 DEF NobodyStranded
  <1> QED
    BY <1>1, InvariantHolds, PTL
=============================================================================
