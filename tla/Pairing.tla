------------------------------- MODULE Pairing -------------------------------
(***************************************************************************)
(* Pairing of a WhatsApp account.  The web process keeps pairing sessions  *)
(* in memory and serialises the requests of an account behind a promise    *)
(* chain (application/account-pairing.ts).  The sidecar spawns the pairing *)
(* process (container/wacli/control.mjs) and serialises nothing: a call    *)
(* runs to its end, interleaved with the others at each await, whether or  *)
(* not its client still waits.  A step is the code between two awaits; the *)
(* clock is the age of a session.  Calls about health and the follower     *)
(* only answer or fail here.                                               *)
(***************************************************************************)
EXTENDS Integers, Sequences, FiniteSets, SequencesExt

CONSTANTS Account,     \* accounts, one sidecar controller each
          Request,     \* requests the web process serves at once
          Session,     \* identities of pairing sessions, each used once
          Child,       \* identities of pairing processes, each used once
          Slot,        \* pair and cancel calls in progress in the sidecar
          MaxSessions, \* PairingSessionController.maxSessions
          MaxFaults,   \* bound on failed or timed-out calls and on restarts
          None

ASSUME PairingAssumption ==
    /\ Slot \subseteq Nat \ {0}
    /\ MaxSessions \in Nat \ {0} /\ MaxFaults \in Nat
    /\ None \notin Session \cup Child \cup Slot \cup Account \cup {0}

VARIABLES req,       \* the requests in progress
          lock,      \* accountLocks: who is queued on an account, in order
          sess,      \* the sessions; "listed" when the map holds it
          paired,    \* pairedAt of the account row is set
          call,      \* the sidecar's calls
          child,     \* the pairing processes
          pairProc,  \* AccountController.pairProcess
          canc,      \* pairingCancellation: the call that runs it
          cancelled, \* pairingCancelled
          linked,    \* the wacli store holds an authenticated session
          overlap,   \* history: two pair calls of one account ran at once
          faults

web  == <<req, lock, sess, paired>>
side == <<pairProc, canc, cancelled>>
vars == <<web, call, child, side, linked, overlap, faults>>

Free    == [op |-> "none", acct |-> None, pc |-> "none", child |-> None, on |-> None]
Idle    == [op |-> "none", acct |-> None, sess |-> None, re |-> FALSE, known |-> FALSE,
            pc |-> "idle", todo |-> {}, wait |-> None, ok |-> TRUE, child |-> None]
Unused  == [acct |-> None, child |-> None, state |-> "unused", age |-> 0,
            cancel |-> None, listed |-> FALSE]
Settled == 0     \* cancelPairing of a session is a promise already fulfilled

Init ==
    /\ req = [r \in Request |-> Idle] /\ lock = [a \in Account |-> <<>>]
    /\ sess = [s \in Session |-> Unused] /\ paired = [a \in Account |-> FALSE]
    /\ call = [k \in Slot |-> Free] /\ child = [c \in Child |-> "unused"]
    /\ pairProc = [a \in Account |-> None] /\ canc = [a \in Account |-> None]
    /\ cancelled = [a \in Account |-> FALSE] /\ linked = [a \in Account |-> FALSE]
    /\ overlap = FALSE /\ faults = 0

Fault   == faults < MaxFaults /\ faults' = faults + 1
NoFault == UNCHANGED faults

-----------------------------------------------------------------------------
(* Requests of the web process.                                            *)

At(r, pc)  == req[r].pc = pc /\ req[r].wait = None
Leave(r)   == /\ lock' = [lock EXCEPT ![req[r].acct] = Tail(@)]
              /\ req' = [req EXCEPT ![r] = Idle]
HasSlot    == \E k \in Slot : call[k].op = "none"
FreeSlot   == CHOOSE k \in Slot : call[k].op = "none"
Issue(r, op, to) ==
    /\ HasSlot
    /\ call' = [call EXCEPT ![FreeSlot] =
                  [Free EXCEPT !.op = op, !.acct = to, !.pc = "start"]]

(* expire(session): share the cancellation in progress or ask for one.     *)
Expire(r, s, pc, todo) ==
    LET wait(k) == req' = [req EXCEPT ![r].wait = k, ![r].pc = pc, ![r].todo = todo] IN
    \/ /\ sess[s].cancel = Settled /\ wait(None) /\ UNCHANGED call
       /\ sess' = [sess EXCEPT ![s].state = "expired"]
    \/ /\ sess[s].cancel \in Slot /\ wait(sess[s].cancel) /\ UNCHANGED <<call, sess>>
    \/ /\ sess[s].cancel = None /\ Issue(r, "cancel", sess[s].acct) /\ wait(FreeSlot)
       /\ sess' = [sess EXCEPT ![s].cancel = FreeSlot]

(* The calls K are answered.  Whoever awaits a cancellation marks the      *)
(* session expired, or forgets the attempt so that a later one is made.    *)
Answer(K, ok, c) ==
    /\ req' = [r \in Request |-> IF req[r].wait \notin K THEN req[r]
                 ELSE [req[r] EXCEPT !.wait = None, !.ok = ok, !.child = c]]
    /\ sess' = [s \in Session |-> IF sess[s].cancel \notin K THEN sess[s]
                  ELSE IF ok THEN [sess[s] EXCEPT !.cancel = Settled, !.state = "expired"]
                  ELSE [sess[s] EXCEPT !.cancel = None]]

(* begin reads the account before it queues on the lock of the account.    *)
Begin(r, a, re) ==
    /\ req[r].pc = "idle"
    /\ req' = [req EXCEPT ![r] = [Idle EXCEPT !.op = "begin", !.acct = a, !.re = re,
                                    !.known = paired[a], !.pc = "lock"]]
    /\ lock' = [lock EXCEPT ![a] = Append(@, r)]
    /\ UNCHANGED <<sess, paired, call, child, side, linked, overlap, faults>>
Status(r, s) ==
    /\ req[r].pc = "idle" /\ sess[s].listed
    /\ req' = [req EXCEPT ![r] = [Idle EXCEPT !.op = "status", !.acct = sess[s].acct,
                                    !.sess = s, !.pc = "lock"]]
    /\ lock' = [lock EXCEPT ![sess[s].acct] = Append(@, r)]
    /\ UNCHANGED <<sess, paired, call, child, side, linked, overlap, faults>>
Enter(r) ==
    /\ At(r, "lock") /\ Head(lock[req[r].acct]) = r
    /\ req' = [req EXCEPT ![r].pc = "prune",
                          ![r].todo = {s \in Session : sess[s].listed}]
    /\ UNCHANGED <<lock, sess, paired, call, child, side, linked, overlap, faults>>

(* prune expires every overdue session, of whatever account, and drops     *)
(* those a whole lifetime past their end.                                  *)
Overdue(s) == sess[s].listed /\ sess[s].state = "awaiting" /\ sess[s].age > 0
PruneOne(r) ==
    /\ At(r, "prune") /\ req[r].ok
    /\ \E s \in req[r].todo : Overdue(s) /\ Expire(r, s, "prune", req[r].todo \ {s})
    /\ UNCHANGED <<lock, paired, child, side, linked, overlap, faults>>
Pruned(r) ==
    /\ At(r, "prune") /\ req[r].ok /\ \A s \in req[r].todo : ~Overdue(s)
    /\ sess' = [s \in Session |-> [sess[s] EXCEPT !.listed = @ /\ sess[s].age < 2]]
    /\ IF req[r].op = "status"
          /\ (~sess'[req[r].sess].listed \/ sess[req[r].sess].state = "expired")
       THEN Leave(r)
       ELSE req' = [req EXCEPT ![r].pc = "health"] /\ UNCHANGED lock
    /\ UNCHANGED <<paired, call, child, side, linked, overlap, faults>>

(* begin: a linked account takes a confirmed re-pair.  A health call that  *)
(* fails tells nothing; stopping the follower may fail and end the request.*)
Confirm(r) ==
    LET busy == linked[req[r].acct] \/ req[r].known
        go   == req' = [req EXCEPT ![r].pc = "own"] /\ UNCHANGED lock
    IN
    /\ At(r, "health") /\ req[r].op = "begin"
    /\ \/ (req[r].re \/ ~busy) /\ go /\ NoFault
       \/ ~req[r].re /\ busy /\ Leave(r) /\ NoFault
       \/ ~req[r].re /\ ~req[r].known /\ go /\ Fault
       \/ req[r].re /\ Leave(r) /\ Fault
    /\ UNCHANGED <<sess, paired, call, child, side, linked, overlap>>

(* The sessions of the account are expired and deleted before pair.        *)
Own(r) == {s \in Session : sess[s].listed /\ sess[s].acct = req[r].acct}
ExpireOwn(r) ==
    /\ At(r, "own") /\ req[r].ok
    /\ \E s \in Own(r) : sess[s].state # "expired" /\ Expire(r, s, "own", {})
    /\ UNCHANGED <<lock, paired, child, side, linked, overlap, faults>>
AskPair(r) ==
    /\ At(r, "own") /\ req[r].ok /\ \A s \in Own(r) : sess[s].state = "expired"
    /\ sess' = [s \in Session |-> [sess[s] EXCEPT !.listed = @ /\ s \notin Own(r)]]
    /\ IF Cardinality({s \in Session : sess'[s].listed /\ sess[s].state = "awaiting"})
            >= MaxSessions
       THEN Leave(r) /\ UNCHANGED call
       ELSE /\ Issue(r, "pair", req[r].acct) /\ UNCHANGED lock
            /\ req' = [req EXCEPT ![r].wait = FreeSlot, ![r].pc = "paired"]
    /\ UNCHANGED <<paired, child, side, linked, overlap, faults>>
NewSession(r) ==
    /\ At(r, "paired") /\ req[r].ok
    /\ \E s \in Session :
         /\ sess[s].state = "unused"
         /\ sess' = [sess EXCEPT ![s] = [Unused EXCEPT !.acct = req[r].acct,
                       !.listed = TRUE, !.child = req[r].child, !.state = "awaiting"]]
    /\ Leave(r)
    /\ UNCHANGED <<paired, call, child, side, linked, overlap, faults>>

(* status: the clock is read again after the health call; a linked account *)
(* gets its follower and the session is connected, unless the start fails. *)
Seen(r) ==
    LET s  == req[r].sess
        up == sess[s].state = "awaiting" /\ linked[req[r].acct]
    IN
    /\ At(r, "health") /\ req[r].op = "status"
    /\ \/ /\ sess[s].state = "awaiting" /\ sess[s].age > 0
          /\ Expire(r, s, "return", {}) /\ UNCHANGED <<lock, faults>>
       \/ /\ ~(sess[s].state = "awaiting" /\ sess[s].age > 0)
          /\ \/ up /\ req' = [req EXCEPT ![r].pc = "follow"] /\ UNCHANGED lock /\ NoFault
             \/ ~up /\ Leave(r) /\ NoFault
             \/ up /\ Leave(r) /\ Fault
          /\ UNCHANGED <<sess, call>>
    /\ UNCHANGED <<paired, child, side, linked, overlap>>
Follow(r) ==
    /\ At(r, "follow")
    /\ \/ /\ linked[req[r].acct] /\ NoFault
          /\ sess' = [sess EXCEPT ![req[r].sess].state = "connected"]
          /\ paired' = [paired EXCEPT ![req[r].acct] = TRUE]
       \/ ~linked[req[r].acct] /\ NoFault /\ UNCHANGED <<sess, paired>>
       \/ Fault /\ UNCHANGED <<sess, paired>>
    /\ Leave(r)
    /\ UNCHANGED <<call, child, side, linked, overlap>>

(* The lock is released by a return and by a throw.                        *)
Finish(r) ==
    /\ At(r, "return") \/ (At(r, req[r].pc) /\ ~req[r].ok)
    /\ Leave(r)
    /\ UNCHANGED <<sess, paired, call, child, side, linked, overlap, faults>>

-----------------------------------------------------------------------------
(* Calls in the sidecar.                                                   *)

In(k, op, pc) == call[k].op = op /\ call[k].pc = pc
Acct(k)       == call[k].acct
Killed(c)     == [d \in Child |->
                    IF d = c /\ child[d] = "running" THEN "killed" ELSE child[d]]

(* cancelPairing joins the cancellation in progress or runs one: terminate *)
(* the process it finds, wait for its close event, look at the store.      *)
RunCancel(k) ==
    LET p == pairProc[Acct(k)] IN
    IF canc[Acct(k)] # None
    THEN /\ call' = [call EXCEPT ![k].pc = "join", ![k].on = canc[Acct(k)]]
         /\ UNCHANGED <<child, canc>>
    ELSE /\ call' = [call EXCEPT ![k].pc = IF p = None THEN "verify" ELSE "close",
                                 ![k].child = p]
         /\ canc' = [canc EXCEPT ![Acct(k)] = k] /\ child' = Killed(p)
OnlyItself(k) == {k}
Joined(k)     == {j \in Slot : call[j].pc = "join" /\ call[j].on = k} \cup {k}
EndCancel(k, ok) ==
    LET joined == Joined(k)
        on     == {j \in joined : ok /\ call[j].op = "pair"}
    IN /\ canc' = [canc EXCEPT ![Acct(k)] = IF @ = k THEN None ELSE @]
       /\ call' = [j \in Slot |-> IF j \notin joined THEN call[j]
                     ELSE IF j \notin on THEN Free
                     ELSE [call[j] EXCEPT !.on = None,
                             !.pc = IF j = k THEN "store" ELSE "recheck"]]
       /\ Answer(joined \ on, ok, None)
       /\ UNCHANGED <<lock, paired>>

Cancel(k) ==
    /\ In(k, "cancel", "start")
    /\ IF canc[Acct(k)] = None /\ pairProc[Acct(k)] = None /\ cancelled[Acct(k)]
       THEN /\ call' = [call EXCEPT ![k] = Free] /\ Answer({k}, TRUE, None)
            /\ UNCHANGED <<lock, paired, child, canc>>
       ELSE RunCancel(k) /\ UNCHANGED web
    /\ UNCHANGED <<pairProc, cancelled, linked, overlap, faults>>
Signalled(k) == child[call[k].child] # "running"
Closed(k)    == child[call[k].child] = "closed"
CloseSeen(k) ==
    /\ call[k].pc = "close"
    /\ \/ /\ Closed(k) /\ NoFault
          /\ call' = [call EXCEPT ![k].pc = "verify"] /\ UNCHANGED <<web, canc>>
       \/ ~Closed(k) /\ Fault /\ EndCancel(k, FALSE)
    /\ UNCHANGED <<child, pairProc, cancelled, linked, overlap>>
Verify(k) ==
    /\ call[k].pc = "verify"
    /\ \/ /\ EndCancel(k, ~linked[Acct(k)]) /\ NoFault
          /\ cancelled' = [cancelled EXCEPT ![Acct(k)] = @ \/ ~linked[Acct(k)]]
       \/ EndCancel(k, FALSE) /\ Fault /\ UNCHANGED cancelled
    /\ UNCHANGED <<child, pairProc, linked, overlap>>

(* pair stops the follower, waits for a cancellation, cancels a process    *)
(* that is still there, prepares the store, spawns and reads the QR code.  *)
Pair(k) ==
    /\ In(k, "pair", "start")
    /\ overlap' = (overlap \/ \E j \in Slot : call[j].op = "pair" /\ Acct(j) = Acct(k)
                                               /\ call[j].pc # "start")
    /\ call' = [call EXCEPT ![k].pc = "check"]
    /\ UNCHANGED <<web, child, side, linked, faults>>
PairCheck(k) ==
    /\ In(k, "pair", "check") \/ In(k, "pair", "recheck")
    /\ IF (canc[Acct(k)] # None /\ In(k, "pair", "check")) \/ pairProc[Acct(k)] # None
       THEN RunCancel(k)
       ELSE call' = [call EXCEPT ![k].pc = "store"] /\ UNCHANGED <<child, canc>>
    /\ UNCHANGED <<web, pairProc, cancelled, linked, overlap, faults>>
Spawn(k) ==
    /\ In(k, "pair", "store")
    /\ canc' = [canc EXCEPT ![Acct(k)] = None]
    /\ cancelled' = [cancelled EXCEPT ![Acct(k)] = FALSE]
    /\ \/ \E c \in Child :
            /\ child[c] = "unused" /\ child' = [child EXCEPT ![c] = "running"]
            /\ pairProc' = [pairProc EXCEPT ![Acct(k)] = c]
            /\ call' = [call EXCEPT ![k].pc = "qr", ![k].child = c] /\ UNCHANGED web
       \/ /\ \A c \in Child : child[c] # "unused"
          /\ call' = [call EXCEPT ![k] = Free] /\ Answer({k}, FALSE, None)
          /\ UNCHANGED <<lock, paired, child, pairProc>>
    /\ UNCHANGED <<linked, overlap, faults>>
QrRead(k) ==
    /\ In(k, "pair", "qr")
    /\ \/ child[call[k].child] = "running" /\ Answer({k}, TRUE, call[k].child)
          /\ UNCHANGED child /\ NoFault
       \/ /\ child[call[k].child] = "running" => Fault
          /\ child[call[k].child] # "running" => NoFault
          /\ Answer({k}, FALSE, None) /\ child' = Killed(call[k].child)
    /\ call' = [call EXCEPT ![k] = Free]
    /\ UNCHANGED <<lock, paired, side, linked, overlap>>

-----------------------------------------------------------------------------
(* The world.                                                              *)

(* The close event of a pairing process clears the field that refers to it.*)
ClearedNever(c) == pairProc
Cleared(c) == [a \in Account |-> IF pairProc[a] = c THEN None ELSE pairProc[a]]
Close(c) ==
    /\ child[c] \in {"running", "killed"}
    /\ child' = [child EXCEPT ![c] = "closed"]
    /\ pairProc' = Cleared(c)
    /\ UNCHANGED <<web, call, canc, cancelled, linked, overlap, faults>>
(* The account gets linked by its process, also by one that was told to    *)
(* end and has up to five seconds until it is killed.                      *)
Link(a) ==
    /\ pairProc[a] # None /\ ~linked[a]
    /\ linked' = [linked EXCEPT ![a] = TRUE]
    /\ UNCHANGED <<web, call, child, side, overlap, faults>>
Unlink(a) ==
    /\ linked[a] /\ Fault /\ linked' = [linked EXCEPT ![a] = FALSE]
    /\ UNCHANGED <<web, call, child, side, overlap>>
Age(s) ==
    /\ sess[s].listed /\ sess[s].age < 2
    /\ sess' = [sess EXCEPT ![s].age = @ + 1]
    /\ UNCHANGED <<req, lock, paired, call, child, side, linked, overlap, faults>>

(* The client gives up after ten seconds; the call goes on.                *)
Timeout(k) ==
    /\ Fault /\ \E r \in Request : req[r].wait = k
    /\ Answer({k}, FALSE, None)
    /\ UNCHANGED <<lock, paired, call, child, side, linked, overlap>>
WebRestart ==
    /\ Fault
    /\ req' = [r \in Request |-> Idle] /\ lock' = [a \in Account |-> <<>>]
    /\ sess' = [s \in Session |-> [sess[s] EXCEPT !.listed = FALSE,
                                     !.cancel = IF @ = Settled THEN @ ELSE None]]
    /\ UNCHANGED <<paired, call, child, side, linked, overlap>>
SidecarRestart ==
    /\ Fault /\ Answer(Slot, FALSE, None)
    /\ call' = [k \in Slot |-> Free]
    /\ child' = [c \in Child |-> IF child[c] = "unused" THEN "unused" ELSE "closed"]
    /\ pairProc' = [a \in Account |-> None] /\ canc' = [a \in Account |-> None]
    /\ cancelled' = [a \in Account |-> FALSE]
    /\ UNCHANGED <<lock, paired, linked, overlap>>

RequestStep(r) ==
    \/ Enter(r) \/ PruneOne(r) \/ Pruned(r) \/ Confirm(r) \/ ExpireOwn(r)
    \/ AskPair(r) \/ NewSession(r) \/ Seen(r) \/ Follow(r) \/ Finish(r)
CallStep(k) ==
    \/ Cancel(k) \/ CloseSeen(k) \/ Verify(k)
    \/ Pair(k) \/ PairCheck(k) \/ Spawn(k) \/ QrRead(k)
Next ==
    \/ \E r \in Request : \/ RequestStep(r)
                          \/ \E a \in Account, re \in BOOLEAN : Begin(r, a, re)
                          \/ \E s \in Session : Status(r, s)
    \/ \E k \in Slot : CallStep(k) \/ Timeout(k)
    \/ \E c \in Child : Close(c)
    \/ \E a \in Account : Link(a) \/ Unlink(a)
    \/ \E s \in Session : Age(s)
    \/ WebRestart \/ SidecarRestart

Spec == Init /\ [][Next]_vars

-----------------------------------------------------------------------------
(* Types, and the references between the two programs: a request waits for *)
(* a call that exists, pairProcess is never a closed process.              *)
Requests == [op : {"none", "begin", "status"}, acct : Account \cup {None},
             sess : Session \cup {None}, re : BOOLEAN, known : BOOLEAN,
             pc : {"idle", "lock", "prune", "health", "own", "paired", "follow", "return"},
             todo : SUBSET Session, wait : Slot \cup {None}, ok : BOOLEAN,
             child : Child \cup {None}]
Sessions == [acct : Account \cup {None}, child : Child \cup {None},
             state : {"unused", "awaiting", "connected", "expired"}, age : 0..2,
             cancel : Slot \cup {None, Settled}, listed : BOOLEAN]
Calls    == [op : {"none", "pair", "cancel"}, acct : Account \cup {None},
             pc : {"none", "start", "check", "recheck", "join", "close", "verify",
                   "store", "qr"},
             child : Child \cup {None}, on : Slot \cup {None}]

WebTypes ==
    /\ req \in [Request -> Requests] /\ sess \in [Session -> Sessions]
    /\ lock \in [Account -> Seq(Request)] /\ paired \in [Account -> BOOLEAN]
SideTypes ==
    /\ call \in [Slot -> Calls]
    /\ child \in [Child -> {"unused", "running", "killed", "closed"}]
    /\ pairProc \in [Account -> Child \cup {None}] /\ canc \in [Account -> Slot \cup {None}]
    /\ cancelled \in [Account -> BOOLEAN] /\ linked \in [Account -> BOOLEAN]
    /\ overlap \in BOOLEAN /\ faults \in 0..MaxFaults

TypeOK ==
    /\ WebTypes /\ SideTypes
    /\ \A r \in Request : req[r].wait # None => call[req[r].wait].op # "none"
    /\ \A a \in Account :
         /\ IsInjective(lock[a])
         /\ pairProc[a] # None => child[pairProc[a]] \in {"running", "killed"}
         /\ canc[a] # None => Acct(canc[a]) = a
    /\ \A s \in Session : sess[s].state # "unused" => sess[s].child \in Child

(* A session shown as expired has no pairing process left: its QR code can *)
(* link nothing.  That is what expire awaits the cancellation for; failed, *)
(* shared and repeated cancellations, a prune on behalf of another account *)
(* and restarts keep it so.  Outside of it: two pair calls at once in the  *)
(* sidecar, which only a client that gave up on one can bring about; each  *)
(* may spawn a process, and one field is kept.                             *)
ExpiredMeansStopped ==
    ~overlap => \A s \in Session :
                  sess[s].state = "expired" => child[sess[s].child] = "closed"

(* Nobody waits for ever.  The head of an account's promise chain is a     *)
(* request in progress, so a failure anywhere has released the lock; a     *)
(* request that awaits a call awaits one that runs, and a call that joined *)
(* a cancellation joined one of its account that still has its steps to    *)
(* take, also when a later pair has cleared the field that referred to it. *)
NobodyStranded ==
    /\ \A a \in Account : lock[a] # <<>> =>
         /\ req[Head(lock[a])].acct = a
         /\ req[Head(lock[a])].wait = None \/ call[req[Head(lock[a])].wait].op # "none"
    /\ \A r \in Request : req[r].pc \notin {"idle"} => r \in ToSet(lock[req[r].acct])
    /\ \A k \in Slot : call[k].pc = "join" =>
         /\ call[call[k].on].pc \in {"close", "verify"}
         /\ Acct(call[k].on) = Acct(k)
=============================================================================
