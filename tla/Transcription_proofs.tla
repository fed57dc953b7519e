------------------------ MODULE Transcription_proofs ------------------------
(***************************************************************************)
(* Proofs about Transcription, for any number of calls, models, addresses, *)
(* any time to live and any bounds.                                        *)
(***************************************************************************)
EXTENDS Transcription, TLAPS

-----------------------------------------------------------------------------
(***************************************************************************)
(* The inductive invariant.  It says of a single call, seen as its record, *)
(* which resources it has at which step, and what it knows.                *)
(***************************************************************************)

(* A converter runs at its step only; a connection is to the address that  *)
(* was looked at, and what outlives the call is an answer nobody read.     *)
Holds(r) ==
  /\ r.out # "none" <=> r.pc \in {"cleanup", "done"}
  /\ r.dir => r.op = "transcribe"
  /\ r.proc \in {"running", "killed"} => r.dir /\ r.pc = "convert"
  /\ r.pc = "mkdir" => r.op = "transcribe"
  /\ r.pc = "convert" => r.dir
  /\ r.pc = "cleanup" => r.dir /\ r.op = "transcribe" /\ r.out # "cleanup-failed"
  /\ r.pc = "done" => (r.dir <=> r.out = "cleanup-failed")
  /\ r.link # "none" => r.addr \in Private
  /\ r.link = "open" => r.pc \in {"sent", "body"}
  /\ r.pc \in {"sent", "body"} => r.link = "open"
  /\ r.link = "unread" => /\ r.pc \in {"cleanup", "done"}
                         /\ r.out \in {"provider", "invalid", "error", "cleanup-failed"}
  /\ r.pc = "send" => r.addr \in Private

(* The models were on offer at u or later. *)
OfferedSince(models, t, offered, time) == \E u \in 0 .. time : u >= t /\ models \in offered[u]
OfferedAfter(models, t, offered, time) == \E u \in 0 .. time : u + TTL > t /\ models \in offered[u]

(* What a settings request holds from a discovery was on offer when that    *)
(* began, or later; what it is shown or chooses from, less than TTL before. *)
Fresh(r, offered, time) ==
  /\ r.at <= time
  /\ r.pc = "body" => OfferedSince(r.models, r.at, offered, time)
  /\ (r.out = "ready" \/ r.pc = "set") /\ r.models # {} =>
       OfferedAfter(r.models, r.at, offered, time)
  /\ r.pc = "set" => r.asked \in r.models \cup {None}

(* So a cache that is good until t holds what was on offer at t - TTL or    *)
(* later.                                                                   *)
CatalogInv ==
  /\ Offer \in was[now]
  /\ cache.until > 0 /\ cache.models # {} =>
       \E u \in 0 .. now : u + TTL >= cache.until /\ cache.models \in was[u]
  /\ selected # None => OfferedWithin(selected, since)

CallsInv  == \A c \in Call : Holds(call[c]) /\ Fresh(call[c], was, now)
Invariant == TypeOK /\ CallsInv /\ CatalogInv

-----------------------------------------------------------------------------
(***************************************************************************)
(* Steps of one call.                                                      *)
(***************************************************************************)
Bounds == [changes : Nat, faults : Nat]

LEMMA Spent ==
  ASSUME left \in Bounds, Fault \/ NoFault
  PROVE  left' \in Bounds
  <1>1. CASE NoFault
    BY <1>1 DEF NoFault
  <1>2. CASE Fault
    <2>1. left.faults - 1 \in Nat /\ left' = [left EXCEPT !.faults = left.faults - 1]
      BY <1>2 DEF Fault, Bounds
    <2> QED
      BY <2>1 DEF Bounds
  <1> QED
    BY <1>1, <1>2

(* A step of a call has to keep what is known of this call, and what is     *)
(* known of the settings if it changes them.                                *)
Good(r) == r \in Calls /\ Holds(r) /\ Fresh(r, was, now)

SettingsKept ==
  /\ cache' \in [models : SUBSET Allowed, until : 0 .. MaxNow + TTL]
  /\ selected' \in Allowed \cup {None} /\ since' \in 0 .. MaxNow
  /\ CatalogInv'

LEMMA SettingsMove ==
  ASSUME Invariant, NEW c \in Call, NEW r, Good(r), Update(c, r),
         UNCHANGED world, SettingsKept, left' \in Bounds
  PROVE  Invariant'
  <1>1. now' = now /\ listed' = listed /\ was' = was
    BY DEF world
  <1>2. call' \in [Call -> Calls] /\ \A d \in Call : call'[d] = IF d = c THEN r ELSE call[d]
    BY DEF Invariant, TypeOK, Update, Good
  <1>3. CallsInv'
    BY <1>1, <1>2 DEF Invariant, CallsInv, Good, Fresh, OfferedSince, OfferedAfter
  <1>4. TypeOK'
    BY <1>1, <1>2, <1>3 DEF Invariant, TypeOK, CallsInv, Holds, Bounds, SettingsKept
  <1> QED
    BY <1>3, <1>4 DEF Invariant, SettingsKept

LEMMA CallMoves ==
  ASSUME Invariant, NEW c \in Call, NEW r, Good(r), Update(c, r),
         UNCHANGED <<world, settings>>, left' \in Bounds
  PROVE  Invariant'
  <1>1. SettingsKept
    BY DEF world, settings, Invariant, TypeOK, SettingsKept, CatalogInv, Offer, OfferedWithin
  <1> QED
    BY <1>1, SettingsMove

LEMMA GoodCall ==
  ASSUME Invariant, NEW c \in Call
  PROVE  Good(call[c])
  BY DEF Invariant, TypeOK, CallsInv, Good

(* What Ending and Closed do to a record. *)
LEMMA EndingIs ==
  ASSUME NEW c, call[c] \in Calls, NEW out \in Outcomes
  PROVE  /\ Ending(c, out) \in Calls
         /\ Ending(c, out).out = out /\ Ending(c, out).models = {} /\ Ending(c, out).asked = None
         /\ Ending(c, out).pc = IF call[c].op = "transcribe" /\ call[c].dir THEN "cleanup" ELSE "done"
         /\ Ending(c, out).op = call[c].op /\ Ending(c, out).at = call[c].at
         /\ Ending(c, out).addr = call[c].addr /\ Ending(c, out).link = call[c].link
         /\ Ending(c, out).dir = call[c].dir /\ Ending(c, out).proc = call[c].proc
  <1> DEFINE x == call[c]
             pc == IF x.op = "transcribe" /\ x.dir THEN "cleanup" ELSE "done"
             y == [x EXCEPT !.out = out, !.asked = None, !.first = FALSE, !.models = {}, !.pc = pc]
  <1>1. x \in Calls /\ pc \in Steps /\ Ending(c, out) = y
    BY DEF Ending, Steps
  <1>2. pc = IF call[c].op = "transcribe" /\ call[c].dir THEN "cleanup" ELSE "done"
    OBVIOUS
  <1> HIDE DEF x, pc
  <1>3. /\ y \in Calls /\ y.out = out /\ y.models = {} /\ y.asked = None /\ y.pc = pc
        /\ y.op = x.op /\ y.at = x.at /\ y.addr = x.addr /\ y.link = x.link
        /\ y.dir = x.dir /\ y.proc = x.proc
    BY <1>1 DEF Calls
  <1> HIDE DEF y
  <1> QED
    BY <1>1, <1>2, <1>3 DEF x

LEMMA ClosedIs ==
  ASSUME NEW r \in Calls
  PROVE  /\ Closed(r) \in Calls /\ Closed(r).link = "none"
         /\ Closed(r).out = r.out /\ Closed(r).models = r.models /\ Closed(r).asked = r.asked
         /\ Closed(r).pc = r.pc /\ Closed(r).op = r.op /\ Closed(r).at = r.at
         /\ Closed(r).dir = r.dir /\ Closed(r).proc = r.proc
  BY DEF Closed, Calls

Failures == Outcomes \ {"none", "ready", "cleanup-failed"}

(* A call that fails without a connection, with an answer it gives up, and  *)
(* one whose connection is closed as it ends.                               *)
LEMMA EndingGood ==
  ASSUME Invariant, NEW c \in Call, NEW out \in Failures,
         call[c].pc \notin {"convert", "cleanup", "done"},
         call[c].pc \notin {"sent", "body"}
  PROVE  Good(Ending(c, out))
  <1>1. Good(call[c])
    BY GoodCall
  <1> DEFINE y == Ending(c, out)
  <1>2. /\ y \in Calls /\ y.out = out /\ y.op = call[c].op /\ y.at = call[c].at
        /\ y.pc = IF call[c].op = "transcribe" /\ call[c].dir THEN "cleanup" ELSE "done"
        /\ y.addr = call[c].addr /\ y.link = call[c].link
        /\ y.dir = call[c].dir /\ y.proc = call[c].proc
    BY <1>1, EndingIs DEF Good, Failures
  <1> HIDE DEF y
  <1>3. Holds(y)
    BY <1>1, <1>2 DEF Good, Holds, Failures
  <1>4. Fresh(y, was, now)
    BY <1>1, <1>2 DEF Good, Fresh, Failures
  <1> QED
    BY <1>2, <1>3, <1>4 DEF Good, y

LEMMA UnreadEndingGood ==
  ASSUME Invariant, NEW c \in Call, NEW out \in {"provider", "invalid", "error"},
         call[c].pc = "sent"
  PROVE  Good(Unread(Ending(c, out)))
  <1>1. Good(call[c]) /\ out \in Outcomes
    BY GoodCall DEF Outcomes
  <1> DEFINE x == Ending(c, out)
             y == Unread(x)
  <1>2. /\ x \in Calls /\ x.out = out /\ x.op = call[c].op /\ x.at = call[c].at
        /\ x.pc = IF call[c].op = "transcribe" /\ call[c].dir THEN "cleanup" ELSE "done"
        /\ x.addr = call[c].addr /\ x.dir = call[c].dir /\ x.proc = call[c].proc
    BY <1>1, EndingIs DEF Good
  <1> HIDE DEF x
  <1>3. /\ y \in Calls /\ y.link = "unread" /\ y.out = x.out /\ y.pc = x.pc /\ y.op = x.op
        /\ y.addr = x.addr /\ y.at = x.at /\ y.dir = x.dir /\ y.proc = x.proc
    BY <1>2 DEF Unread, Calls
  <1> HIDE DEF y
  <1>4. Holds(y)
    BY <1>1, <1>2, <1>3 DEF Good, Holds
  <1>5. Fresh(y, was, now)
    BY <1>1, <1>2, <1>3 DEF Good, Fresh
  <1> QED
    BY <1>3, <1>4, <1>5 DEF Good, x, y

LEMMA ClosedEndingGood ==
  ASSUME Invariant, NEW c \in Call, NEW out \in Failures,
         call[c].pc \notin {"convert", "cleanup", "done"}
  PROVE  Good(Closed(Ending(c, out)))
  <1>1. Good(call[c])
    BY GoodCall
  <1> DEFINE x == Ending(c, out)
             y == Closed(x)
  <1>2. /\ x \in Calls /\ x.out = out /\ x.op = call[c].op /\ x.at = call[c].at
        /\ x.pc = IF call[c].op = "transcribe" /\ call[c].dir THEN "cleanup" ELSE "done"
        /\ x.dir = call[c].dir /\ x.proc = call[c].proc
    BY <1>1, EndingIs DEF Good, Failures
  <1> HIDE DEF x
  <1>3. /\ y \in Calls /\ y.link = "none" /\ y.out = x.out /\ y.pc = x.pc /\ y.op = x.op
        /\ y.at = x.at /\ y.dir = x.dir /\ y.proc = x.proc
    BY <1>2, ClosedIs
  <1> HIDE DEF y
  <1>4. Holds(y)
    BY <1>1, <1>2, <1>3 DEF Good, Holds, Failures
  <1>5. Fresh(y, was, now)
    BY <1>1, <1>2, <1>3 DEF Good, Fresh, Failures
  <1> QED
    BY <1>3, <1>4, <1>5 DEF Good, x, y

(* A new call. *)
LEMMA IdleIs ==
  /\ Idle \in Calls /\ Idle.out = "none" /\ Idle.dir = FALSE /\ Idle.proc = "none"
  /\ Idle.link = "none" /\ Idle.at = 0 /\ Idle.models = {}
  BY TranscriptionAssumption DEF Idle, Calls, Steps, Outcomes, Address

-----------------------------------------------------------------------------
(***************************************************************************)
(* The steps of a transcription up to its upload.                          *)
(***************************************************************************)
LEMMA AskSettingsStep ==
  ASSUME Invariant, NEW c \in Call, NEW m \in Model \cup {None}, NEW op \in {"read", "select"},
         AskSettings(c, op, m)
  PROVE  Invariant'
  <1> DEFINE first == (op = "select")
             x == [Idle EXCEPT !.op = op, !.pc = "get", !.asked = m, !.first = first]
  <1>1. first \in BOOLEAN /\ Update(c, x) /\ UNCHANGED <<world, settings, left>>
    BY DEF AskSettings
  <1> HIDE DEF first
  <1>2. x \in Calls /\ x.pc = "get" /\ x.out = "none" /\ ~x.dir /\ x.proc = "none"
        /\ x.link = "none" /\ x.at = 0
    BY <1>1, IdleIs DEF Calls, Steps
  <1> HIDE DEF x
  <1>3. Good(x)
    BY <1>2 DEF Good, Holds, Fresh, Invariant, TypeOK
  <1> QED
    BY <1>1, <1>3, CallMoves DEF Invariant, TypeOK, Bounds

LEMMA TranscribeStep ==
  ASSUME Invariant, NEW c \in Call, NEW m \in Model, Transcribe(c, m)
  PROVE  Invariant'
  <1> DEFINE pc == IF m \in Allowed THEN "mkdir" ELSE "done"
             out == IF m \in Allowed THEN "none" ELSE "refused"
             x == [Idle EXCEPT !.op = "transcribe", !.asked = m, !.pc = pc, !.out = out]
             y == [Idle EXCEPT !.op = "transcribe", !.pc = "done", !.out = "input"]
  <1>1. (Fault \/ NoFault) /\ (Update(c, x) \/ Update(c, y)) /\ UNCHANGED <<world, settings>>
    BY DEF Transcribe
  <1>2. <<pc, out>> \in {<<"mkdir", "none">>, <<"done", "refused">>}
    OBVIOUS
  <1> HIDE DEF pc, out
  <1>3. x \in Calls /\ x.op = "transcribe" /\ x.pc = pc /\ x.out = out /\ ~x.dir /\ x.proc = "none"
        /\ x.link = "none" /\ x.at = 0
    BY <1>2, IdleIs DEF Calls, Steps, Outcomes
  <1>4. y \in Calls /\ y.pc = "done" /\ y.out = "input" /\ ~y.dir /\ y.proc = "none"
        /\ y.link = "none" /\ y.at = 0
    BY IdleIs DEF Calls, Steps, Outcomes
  <1> HIDE DEF x, y
  <1>5. Good(x) /\ Good(y)
    BY <1>2, <1>3, <1>4 DEF Good, Holds, Fresh, Invariant, TypeOK
  <1> QED
    BY <1>1, <1>5, Spent, CallMoves DEF Invariant, TypeOK, Bounds

LEMMA MakeDirectoryStep ==
  ASSUME Invariant, NEW c \in Call, MakeDirectory(c)
  PROVE  Invariant'
  <1> DEFINE r == call[c]
             x == [r EXCEPT !.pc = "convert", !.dir = TRUE, !.proc = "running"]
             y == Ending(c, "internal")
  <1>1. /\ r.pc = "mkdir" /\ (Fault \/ NoFault) /\ UNCHANGED <<world, settings>>
        /\ Update(c, x) \/ Update(c, y)
    BY DEF MakeDirectory, At
  <1>2. Good(y)
    BY <1>1, EndingGood, GoodCall DEF Good, Holds, Failures, Outcomes
  <1>3. Good(r)
    BY GoodCall
  <1> HIDE DEF r, y
  <1>4. x \in Calls /\ x.pc = "convert" /\ x.dir /\ x.proc = "running" /\ x.op = r.op
        /\ x.out = r.out /\ x.link = r.link /\ x.addr = r.addr /\ x.at = r.at
    BY <1>3 DEF Good, Calls, Steps
  <1> HIDE DEF x
  <1>5. Good(x)
    BY <1>1, <1>3, <1>4 DEF Good, Holds, Fresh
  <1> QED
    BY <1>1, <1>2, <1>5, Spent, CallMoves DEF Invariant, TypeOK, Bounds

LEMMA ConverterStep ==
  ASSUME Invariant, NEW c \in Call, ConverterTimeout(c) \/ ConverterEnds(c)
  PROVE  Invariant'
  <1> DEFINE r == call[c]
             x == [r EXCEPT !.proc = "killed"]
             y == [r EXCEPT !.proc = "closed", !.pc = "read"]
             e(out) == Ending(c, out)
             z(out) == [e(out) EXCEPT !.proc = "closed"]
  <1>1. /\ r.pc = "convert" /\ UNCHANGED <<world, settings>>
        /\ Update(c, x) \/ Update(c, y) \/ Update(c, z("timeout")) \/ Update(c, z("input"))
    BY DEF ConverterTimeout, ConverterEnds, Killed, At
  <1>2. left' \in Bounds
    BY Spent DEF ConverterTimeout, ConverterEnds, Invariant, TypeOK, Bounds
  <1>3. Good(r)
    BY GoodCall
  <1>4. ASSUME NEW out \in {"timeout", "input"} PROVE Good(z(out))
    <2>1. /\ e(out) \in Calls /\ e(out).out = out /\ e(out).op = r.op /\ e(out).at = r.at
          /\ e(out).pc = "cleanup" /\ e(out).link = r.link /\ e(out).addr = r.addr /\ e(out).dir
      BY <1>1, <1>3, EndingIs DEF Good, Holds, Outcomes
    <2> HIDE DEF e
    <2>2. /\ z(out) \in Calls /\ z(out).out = out /\ z(out).op = r.op /\ z(out).at = r.at
          /\ z(out).pc = "cleanup" /\ z(out).link = r.link /\ z(out).addr = r.addr /\ z(out).dir /\ z(out).proc = "closed"
      BY <2>1 DEF Calls
    <2> HIDE DEF z
    <2> QED
      BY <1>1, <1>3, <2>2 DEF Good, Holds, Fresh
  <1> HIDE DEF r, z, e
  <1>5. x \in Calls /\ x.pc = r.pc /\ x.dir = r.dir /\ x.proc = "killed" /\ x.op = r.op
        /\ x.out = r.out /\ x.link = r.link /\ x.addr = r.addr /\ x.at = r.at
    BY <1>3 DEF Good, Calls
  <1>6. y \in Calls /\ y.pc = "read" /\ y.dir = r.dir /\ y.proc = "closed" /\ y.op = r.op
        /\ y.out = r.out /\ y.link = r.link /\ y.addr = r.addr /\ y.at = r.at
    BY <1>3 DEF Good, Calls, Steps
  <1> HIDE DEF x, y
  <1>7. Good(x) /\ Good(y)
    BY <1>1, <1>3, <1>5, <1>6 DEF Good, Holds, Fresh
  <1> QED
    BY <1>1, <1>2, <1>4, <1>7, CallMoves

LEMMA ReadAudioStep ==
  ASSUME Invariant, NEW c \in Call, ReadAudio(c)
  PROVE  Invariant'
  <1> DEFINE r == call[c]
             x == [r EXCEPT !.pc = "lookup"]
             y == Ending(c, "input")
  <1>1. /\ r.pc = "read" /\ (Fault \/ NoFault) /\ UNCHANGED <<world, settings>>
        /\ Update(c, x) \/ Update(c, y)
    BY DEF ReadAudio, At
  <1>2. Good(y)
    BY <1>1, EndingGood, GoodCall DEF Good, Holds, Failures, Outcomes
  <1>3. Good(r)
    BY GoodCall
  <1> HIDE DEF r, y
  <1>4. x \in Calls /\ x.pc = "lookup" /\ x.dir = r.dir /\ x.proc = r.proc /\ x.op = r.op
        /\ x.out = r.out /\ x.link = r.link /\ x.addr = r.addr /\ x.at = r.at
    BY <1>3 DEF Good, Calls, Steps
  <1> HIDE DEF x
  <1>5. Good(x)
    BY <1>1, <1>3, <1>4 DEF Good, Holds, Fresh
  <1> QED
    BY <1>1, <1>2, <1>5, Spent, CallMoves DEF Invariant, TypeOK, Bounds

-----------------------------------------------------------------------------
(***************************************************************************)
(* The request to the server.                                              *)
(***************************************************************************)
LEMMA LookupStep ==
  ASSUME Invariant, NEW c \in Call, Lookup(c)
  PROVE  Invariant'
  <1> DEFINE r == call[c]
             x(a) == [r EXCEPT !.pc = "send", !.addr = a]
             y(out) == Ending(c, out)
  <1>1. /\ r.pc = "lookup" /\ (Fault \/ NoFault) /\ UNCHANGED <<world, settings>>
        /\ \/ \E a \in Private : Update(c, x(a))
           \/ \E out \in {"error", "configuration", "provider"} : Update(c, y(out))
    BY DEF Lookup, At, Failure
  <1>2. \A out \in {"error", "configuration", "provider"} : Good(y(out))
    BY <1>1, EndingGood, GoodCall DEF Good, Holds, Failures, Outcomes
  <1>3. Good(r)
    BY GoodCall
  <1>4. ASSUME NEW a \in Private PROVE Good(x(a))
    <2> HIDE DEF r
    <2>1. /\ x(a) \in Calls /\ x(a).pc = "send" /\ x(a).addr = a
          /\ x(a).dir = r.dir /\ x(a).proc = r.proc /\ x(a).op = r.op
          /\ x(a).out = r.out /\ x(a).link = r.link /\ x(a).at = r.at
      BY <1>3 DEF Good, Calls, Steps, Address
    <2> HIDE DEF x
    <2> QED
      BY <1>1, <1>3, <2>1 DEF Good, Holds, Fresh
  <1> HIDE DEF x, y
  <1> QED
    BY <1>1, <1>2, <1>4, Spent, CallMoves DEF Invariant, TypeOK, Bounds

LEMMA ConnectStep ==
  ASSUME Invariant, NEW c \in Call, Connect(c)
  PROVE  Invariant'
  <1> DEFINE r == call[c]
             a == r.addr
             x == [r EXCEPT !.pc = "sent", !.link = "open", !.addr = a]
             y(out) == Ending(c, out)
  <1>1. /\ r.pc = "send" /\ (Fault \/ NoFault) /\ UNCHANGED <<world, settings>>
        /\ Update(c, x) \/ \E out \in {"error", "provider"} : Update(c, y(out))
    BY DEF Connect, At, Failure, Pinned
  <1>2. \A out \in {"error", "provider"} : Good(y(out))
    BY <1>1, EndingGood, GoodCall DEF Good, Holds, Failures, Outcomes
  <1>3. Good(r) /\ a \in Private
    BY <1>1, GoodCall DEF Good, Holds
  <1> HIDE DEF r, a, y
  <1>4. /\ x \in Calls /\ x.pc = "sent" /\ x.addr = a /\ x.link = "open"
        /\ x.dir = r.dir /\ x.proc = r.proc /\ x.op = r.op /\ x.out = r.out /\ x.at = r.at
    BY <1>3 DEF Good, Calls, Steps, Address
  <1> HIDE DEF x
  <1>5. Good(x)
    BY <1>1, <1>3, <1>4 DEF Good, Holds, Fresh
  <1> QED
    BY <1>1, <1>2, <1>5, Spent, CallMoves DEF Invariant, TypeOK, Bounds

LEMMA RespondStep ==
  ASSUME Invariant, NEW c \in Call, Respond(c)
  PROVE  Invariant'
  <1> DEFINE r == call[c]
             x == [r EXCEPT !.pc = "body", !.models = Offer]
             y(out) == Unread(Ending(c, out))
  <1>1. /\ r.pc = "sent" /\ (Fault \/ NoFault) /\ UNCHANGED <<world, settings>>
        /\ Update(c, x) \/ \E out \in {"error", "provider", "invalid"} : Update(c, y(out))
    BY DEF Respond, At, Failure
  <1>2. \A out \in {"error", "provider", "invalid"} : Good(y(out))
    BY <1>1, UnreadEndingGood
  <1>3. Good(r) /\ Offer \in SUBSET Allowed /\ Offer \in was[now] /\ now \in Nat /\ r.at \in Nat
    BY GoodCall, TranscriptionAssumption DEF Invariant, CatalogInv, Offer, TypeOK, Good, Calls
  <1> HIDE DEF r, y
  <1>4. /\ x \in Calls /\ x.pc = "body" /\ x.addr = r.addr /\ x.link = r.link /\ x.models = Offer
        /\ x.dir = r.dir /\ x.proc = r.proc /\ x.op = r.op /\ x.out = r.out /\ x.at = r.at
    BY <1>3 DEF Good, Calls, Steps
  <1> HIDE DEF x
  <1>5. Good(x)
    <2>1. OfferedSince(x.models, x.at, was, now)
      BY <1>3, <1>4 DEF OfferedSince, Good, Fresh
    <2> QED
      BY <1>1, <1>3, <1>4, <2>1 DEF Good, Holds, Fresh
  <1> QED
    BY <1>1, <1>2, <1>5, Spent, CallMoves DEF Invariant, TypeOK, Bounds

LEMMA ListingStep ==
  ASSUME Invariant, NEW c \in Call, Listing(c)
  PROVE  Invariant'
  <1> DEFINE r == call[c]
             x == [r EXCEPT !.models = Offer]
  <1>1. r.pc = "body" /\ UNCHANGED <<world, settings, left>> /\ Update(c, x)
    BY DEF Listing, At
  <1>2. Good(r) /\ Offer \in SUBSET Allowed /\ Offer \in was[now] /\ now \in Nat /\ r.at \in Nat
    BY GoodCall, TranscriptionAssumption DEF Invariant, CatalogInv, Offer, TypeOK, Good, Calls
  <1> HIDE DEF r
  <1>3. /\ x \in Calls /\ x.pc = r.pc /\ x.addr = r.addr /\ x.link = r.link /\ x.models = Offer
        /\ x.dir = r.dir /\ x.proc = r.proc /\ x.op = r.op /\ x.out = r.out /\ x.at = r.at
    BY <1>2 DEF Good, Calls
  <1> HIDE DEF x
  <1>4. Good(x)
    <2>1. OfferedSince(x.models, x.at, was, now)
      BY <1>2, <1>3 DEF OfferedSince, Good, Fresh
    <2> QED
      BY <1>1, <1>2, <1>3, <2>1 DEF Good, Holds, Fresh
  <1> QED
    BY <1>1, <1>4, CallMoves DEF Invariant, TypeOK, Bounds

LEMMA TimeoutStep ==
  ASSUME Invariant, NEW c \in Call, LinkBreaks(c) \/ Timeout(c)
  PROVE  Invariant'
  <1>1. PICK out \in {"error", "provider", "timeout"} : Update(c, Closed(Ending(c, out)))
    BY DEF LinkBreaks, Timeout, Aborted, Failure
  <1>2. /\ call[c].pc \notin {"convert", "cleanup", "done"} /\ UNCHANGED <<world, settings>>
        /\ Fault \/ NoFault
    BY DEF LinkBreaks, Timeout, Timed, NoFault
  <1>3. Good(Closed(Ending(c, out)))
    BY <1>2, ClosedEndingGood DEF Failures, Outcomes
  <1> QED
    BY <1>1, <1>2, <1>3, Spent, CallMoves DEF Invariant, TypeOK, Bounds

LEMMA LinkEndsStep ==
  ASSUME Invariant, NEW c \in Call, LinkEnds(c)
  PROVE  Invariant'
  <1> DEFINE r == call[c]
             x == Closed(r)
  <1>1. r.link = "unread" /\ UNCHANGED <<world, settings, left>> /\ Update(c, x)
    BY DEF LinkEnds
  <1>2. Good(r) /\ r.pc \in {"cleanup", "done"}
    BY <1>1, GoodCall DEF Good, Holds
  <1> HIDE DEF r
  <1>3. /\ x \in Calls /\ x.link = "none" /\ x.out = r.out /\ x.models = r.models
        /\ x.asked = r.asked /\ x.pc = r.pc /\ x.op = r.op /\ x.at = r.at
        /\ x.dir = r.dir /\ x.proc = r.proc
    BY <1>2, ClosedIs DEF Good
  <1> HIDE DEF x
  <1>4. Good(x)
    BY <1>1, <1>2, <1>3 DEF Good, Holds, Fresh
  <1> QED
    BY <1>1, <1>4, CallMoves DEF Invariant, TypeOK, Bounds

LEMMA CleanupStep ==
  ASSUME Invariant, NEW c \in Call, Cleanup(c)
  PROVE  Invariant'
  <1> DEFINE r == call[c]
             x == [r EXCEPT !.pc = "done", !.dir = FALSE]
             y == [r EXCEPT !.pc = "done", !.out = "cleanup-failed"]
  <1>1. /\ r.pc = "cleanup" /\ (Fault \/ NoFault) /\ UNCHANGED <<world, settings>>
        /\ Update(c, x) \/ Update(c, y)
    BY DEF Cleanup, At
  <1>2. Good(r)
    BY GoodCall
  <1> HIDE DEF r
  <1>3. /\ x \in Calls /\ x.link = r.link /\ x.addr = r.addr /\ x.out = r.out
        /\ x.models = r.models /\ x.pc = "done" /\ x.op = r.op /\ x.at = r.at
        /\ x.dir = FALSE /\ x.proc = r.proc
    BY <1>2 DEF Good, Calls, Steps
  <1>4. /\ y \in Calls /\ y.link = r.link /\ y.addr = r.addr /\ y.out = "cleanup-failed"
        /\ y.models = r.models /\ y.pc = "done" /\ y.op = r.op /\ y.at = r.at
        /\ y.dir = r.dir /\ y.proc = r.proc
    <2>1. r \in Calls /\ "done" \in Steps /\ "cleanup-failed" \in Outcomes
      BY <1>2 DEF Good, Steps, Outcomes
    <2> QED
      BY <2>1 DEF Calls
  <1> HIDE DEF x, y
  <1>5. Good(x)
    BY <1>1, <1>2, <1>3 DEF Good, Holds, Fresh
  <1>6. Good(y)
    BY <1>1, <1>2, <1>4 DEF Good, Holds, Fresh
  <1> QED
    BY <1>1, <1>5, <1>6, Spent, CallMoves DEF Invariant, TypeOK, Bounds

-----------------------------------------------------------------------------
(***************************************************************************)
(* The settings.                                                           *)
(***************************************************************************)
LEMMA KnownIs ==
  ASSUME NEW c, call[c] \in Calls, NEW models \in SUBSET Allowed
  PROVE  /\ Known(c, models) \in Calls /\ Known(c, models).models = models
         /\ Known(c, models).op = call[c].op /\ Known(c, models).at = call[c].at
         /\ Known(c, models).link = call[c].link /\ Known(c, models).addr = call[c].addr
         /\ Known(c, models).dir = call[c].dir /\ Known(c, models).proc = call[c].proc
         /\ \/ /\ Known(c, models).pc = "set" /\ Known(c, models).out = call[c].out
               /\ Known(c, models).asked \in models \cup {None}
            \/ /\ Known(c, models).out \in {"refused", "ready"}
               /\ Known(c, models).pc =
                    IF call[c].op = "transcribe" /\ call[c].dir THEN "cleanup" ELSE "done"
  <1> DEFINE y == Known(c, models)
  <1>1. CASE call[c].first /\ Offered(c, models)
    <2> DEFINE r == call[c]
               x == [r EXCEPT !.pc = "set"]
               z == [x EXCEPT !.models = models]
    <2>1. y = z /\ r \in Calls
      BY <1>1 DEF Known
    <2>2. r.asked \in models \cup {None}
      BY <1>1 DEF Offered
    <2> HIDE DEF r
    <2>3. /\ x \in Calls /\ x.pc = "set" /\ x.op = r.op /\ x.at = r.at /\ x.link = r.link /\ x.addr = r.addr
          /\ x.dir = r.dir /\ x.proc = r.proc /\ x.out = r.out /\ x.asked = r.asked
      BY <2>1 DEF Calls, Steps
    <2> HIDE DEF x
    <2>4. /\ z \in Calls /\ z.models = models /\ z.pc = x.pc /\ z.op = x.op /\ z.at = x.at
          /\ z.link = x.link /\ z.addr = x.addr /\ z.dir = x.dir /\ z.proc = x.proc /\ z.out = x.out
          /\ z.asked = x.asked
      BY <2>3 DEF Calls
    <2> HIDE DEF z, y
    <2> QED
      BY <2>1, <2>2, <2>3, <2>4 DEF y, r
  <1>2. CASE ~(call[c].first /\ Offered(c, models))
    <2> DEFINE out == IF call[c].first THEN "refused" ELSE "ready"
               x == Ending(c, out)
               z == [x EXCEPT !.models = models]
    <2>1. y = z
      BY <1>2 DEF Known
    <2>2. out \in {"refused", "ready"} /\ out \in Outcomes
      BY DEF Outcomes
    <2> HIDE DEF out
    <2>3. /\ x \in Calls /\ x.out = out /\ x.op = call[c].op /\ x.at = call[c].at
          /\ x.pc = IF call[c].op = "transcribe" /\ call[c].dir THEN "cleanup" ELSE "done"
          /\ x.link = call[c].link /\ x.addr = call[c].addr /\ x.dir = call[c].dir /\ x.proc = call[c].proc
      BY <2>2, EndingIs
    <2> HIDE DEF x
    <2>4. /\ z \in Calls /\ z.models = models /\ z.pc = x.pc /\ z.op = x.op /\ z.at = x.at
          /\ z.link = x.link /\ z.addr = x.addr /\ z.dir = x.dir /\ z.proc = x.proc /\ z.out = x.out
      BY <2>3 DEF Calls
    <2> HIDE DEF z, y
    <2> QED
      BY <2>1, <2>2, <2>3, <2>4 DEF y
  <1> QED
    BY <1>1, <1>2

LEMMA GetSelectedStep ==
  ASSUME Invariant, NEW c \in Call, GetSelected(c)
  PROVE  Invariant'
  <1> DEFINE r == call[c]
             x == [r EXCEPT !.at = now, !.pc = "lookup"]
             k == Known(c, cache.models)
             y == [k EXCEPT !.at = now]
             e == Ending(c, "error")
  <1>1. /\ r.pc = "get" /\ (Fault \/ NoFault) /\ UNCHANGED <<world, settings>>
        /\ Update(c, x) \/ (cache.until > now /\ Update(c, y)) \/ Update(c, e)
    BY DEF GetSelected, At
  <1>2. Good(e)
    BY <1>1, EndingGood, GoodCall DEF Good, Holds, Failures, Outcomes
  <1>3. Good(r) /\ now \in 0 .. MaxNow /\ now \in Nat /\ cache.models \in SUBSET Allowed
        /\ cache.until \in Nat
    BY GoodCall, TranscriptionAssumption DEF Invariant, TypeOK
  <1>4. ASSUME cache.until > now PROVE Good(y)
    <2>1. /\ k \in Calls /\ k.models = cache.models /\ k.op = r.op
          /\ k.link = r.link /\ k.addr = r.addr /\ k.dir = r.dir /\ k.proc = r.proc
          /\ \/ k.pc = "set" /\ k.out = r.out /\ k.asked \in cache.models \cup {None}
             \/ /\ k.out \in {"refused", "ready"}
                /\ k.pc = IF r.op = "transcribe" /\ r.dir THEN "cleanup" ELSE "done"
      BY <1>3, KnownIs DEF Good
    <2> HIDE DEF k, r
    <2>2. /\ y \in Calls /\ y.models = k.models /\ y.op = k.op /\ y.at = now
          /\ y.link = k.link /\ y.addr = k.addr /\ y.dir = k.dir /\ y.proc = k.proc /\ y.pc = k.pc
          /\ y.out = k.out /\ y.asked = k.asked
      BY <1>3, <2>1 DEF Calls
    <2> HIDE DEF y
    <2>3. y.models # {} => OfferedAfter(y.models, now, was, now)
      <3> SUFFICES ASSUME cache.models # {} PROVE OfferedAfter(y.models, now, was, now)
        BY <2>1, <2>2
      <3>1. PICK u \in 0 .. now : u + TTL >= cache.until /\ cache.models \in was[u]
        BY <1>3, <1>4 DEF Invariant, CatalogInv
      <3>2. u + TTL > now
        BY <1>3, <1>4, <3>1, TranscriptionAssumption
      <3> QED
        BY <2>1, <2>2, <3>1, <3>2 DEF OfferedAfter
    <2>4. Holds(y)
      BY <1>1, <1>3, <2>1, <2>2 DEF Good, Holds
    <2>5. Fresh(y, was, now)
      BY <1>3, <2>1, <2>2, <2>3 DEF Fresh
    <2> QED
      BY <2>2, <2>4, <2>5 DEF Good
  <1> HIDE DEF r, y, e, k
  <1>5. /\ x \in Calls /\ x.link = r.link /\ x.addr = r.addr /\ x.out = r.out
        /\ x.pc = "lookup" /\ x.op = r.op /\ x.at = now /\ x.dir = r.dir /\ x.proc = r.proc
    BY <1>3 DEF Good, Calls, Steps
  <1> HIDE DEF x
  <1>6. Good(x)
    BY <1>1, <1>3, <1>5 DEF Good, Holds, Fresh
  <1> QED
    BY <1>1, <1>2, <1>4, <1>6, Spent, CallMoves DEF Invariant, TypeOK, Bounds

LEMMA SetSelectedStep ==
  ASSUME Invariant, NEW c \in Call, SetSelected(c)
  PROVE  Invariant'
  <1> DEFINE r == call[c]
             x == [r EXCEPT !.pc = "get", !.first = FALSE]
             e == Ending(c, "error")
  <1>1. r.pc = "set" /\ (Fault \/ NoFault) /\ UNCHANGED <<world, cache>>
    BY DEF SetSelected, At
  <1>2. Good(r)
    BY GoodCall
  <1>3. CASE selected' = r.asked /\ since' = r.at /\ Update(c, x)
    <2>1. /\ r.asked \in r.models \cup {None}
          /\ r.models # {} => OfferedAfter(r.models, r.at, was, now)
          /\ r.models \subseteq Allowed /\ r.at \in 0 .. MaxNow
      BY <1>1, <1>2 DEF Good, Fresh, Calls
    <2>2. selected' # None => OfferedWithin(selected', since')
      BY <1>3, <2>1 DEF OfferedAfter, OfferedWithin
    <2>3. SettingsKept
      BY <1>1, <1>3, <2>1, <2>2 DEF SettingsKept, Invariant, TypeOK, CatalogInv, world, Offer, OfferedWithin
    <2> HIDE DEF r
    <2>4. /\ x \in Calls /\ x.link = r.link /\ x.addr = r.addr /\ x.out = r.out
          /\ x.pc = "get" /\ x.op = r.op /\ x.at = r.at /\ x.dir = r.dir /\ x.proc = r.proc
      BY <1>2 DEF Good, Calls, Steps
    <2> HIDE DEF x
    <2>5. Good(x)
      BY <1>1, <1>2, <2>4 DEF Good, Holds, Fresh
    <2> QED
      BY <1>1, <1>3, <2>3, <2>5, Spent, SettingsMove DEF Invariant, TypeOK, Bounds
  <1>4. CASE Update(c, e) /\ UNCHANGED <<selected, since>>
    <2>1. Good(e)
      BY <1>1, EndingGood, GoodCall DEF Good, Holds, Failures, Outcomes
    <2> HIDE DEF e
    <2> QED
      BY <1>1, <1>4, <2>1, Spent, CallMoves DEF Invariant, TypeOK, Bounds, world, settings
  <1> QED
    BY <1>3, <1>4 DEF SetSelected

LEMMA BodyStep ==
  ASSUME Invariant, NEW c \in Call, Body(c)
  PROVE  Invariant'
  <1> DEFINE r == call[c]
             y(out) == Closed(Ending(c, out))
             new(models) == [models |-> models, until |-> UntilFromStart(c)]
  <1>1. /\ r.pc = "body" /\ (Fault \/ NoFault) /\ UNCHANGED <<world, selected, since>>
        /\ \/ \E models \in {r.models, {}} : Update(c, Closed(Known(c, models))) /\ cache' = new(models)
           \/ UNCHANGED cache /\ \E out \in {"ok", "error", "invalid"} : Update(c, y(out))
    BY DEF Body, At, Failure
  <1>2. \A out \in {"ok", "error", "invalid"} : Good(y(out))
    BY <1>1, ClosedEndingGood DEF Failures, Outcomes
  <1>3. /\ Good(r) /\ r.models \in SUBSET Allowed /\ r.at \in 0 .. MaxNow /\ now \in Nat
        /\ OfferedSince(r.models, r.at, was, now)
    BY <1>1, GoodCall, TranscriptionAssumption DEF Good, Calls, Fresh, Invariant, TypeOK
  <1>4. ASSUME NEW models \in {r.models, {}}, Update(c, Closed(Known(c, models))),
               cache' = new(models)
        PROVE  Invariant'
    <2> DEFINE k == Known(c, models)
               x == Closed(k)
    <2>1. new(models) \in [models : SUBSET Allowed, until : 0 .. MaxNow + TTL]
      BY <1>3, TranscriptionAssumption DEF UntilFromStart
    <2>2. new(models).models = models /\ new(models).until = r.at + TTL
      BY DEF UntilFromStart
    <2>3. PICK u \in 0 .. now : u >= r.at /\ r.models \in was[u]
      BY <1>3 DEF OfferedSince
    <2>4. u + TTL >= r.at + TTL /\ u + TTL > r.at
      BY <1>3, <2>3, TranscriptionAssumption
    <2>5. models # {} => \E t \in 0 .. now : t + TTL >= new(models).until /\ new(models).models \in was[t]
      BY <2>2, <2>3, <2>4
    <2>6. /\ k \in Calls /\ k.models = models /\ k.op = r.op /\ k.at = r.at
          /\ k.link = r.link /\ k.addr = r.addr /\ k.dir = r.dir /\ k.proc = r.proc
          /\ \/ k.pc = "set" /\ k.out = r.out /\ k.asked \in models \cup {None}
             \/ /\ k.out \in {"refused", "ready"}
                /\ k.pc = IF r.op = "transcribe" /\ r.dir THEN "cleanup" ELSE "done"
      BY <1>3, KnownIs DEF Good
    <2>7. /\ cache' \in [models : SUBSET Allowed, until : 0 .. MaxNow + TTL]
          /\ models # {} => \E t \in 0 .. now : t + TTL >= cache'.until /\ cache'.models \in was[t]
          /\ cache'.models = models
      BY <1>4, <2>1, <2>2, <2>5
    <2> HIDE DEF new, k, r
    <2>8. SettingsKept
      BY <1>1, <2>7 DEF SettingsKept, Invariant, TypeOK, CatalogInv, world, Offer, OfferedWithin
    <2>9. /\ x \in Calls /\ x.link = "none" /\ x.out = k.out /\ x.models = k.models
          /\ x.asked = k.asked /\ x.pc = k.pc /\ x.op = k.op /\ x.at = k.at
          /\ x.dir = k.dir /\ x.proc = k.proc
      BY <2>6, ClosedIs
    <2> HIDE DEF x
    <2>10. x.models # {} => OfferedAfter(x.models, x.at, was, now)
      BY <2>3, <2>4, <2>6, <2>9 DEF OfferedAfter
    <2>11. Holds(x)
      BY <1>1, <1>3, <2>6, <2>9 DEF Good, Holds
    <2>12. Fresh(x, was, now)
      BY <1>3, <2>6, <2>9, <2>10 DEF Good, Fresh
    <2>13. Good(x)
      BY <2>9, <2>11, <2>12 DEF Good
    <2>14. left' \in Bounds
      BY <1>1, Spent DEF Invariant, TypeOK, Bounds
    <2>15. Update(c, x)
      BY <1>4 DEF x, k
    <2>16. UNCHANGED world
      BY <1>1
    <2> QED
      BY <2>8, <2>13, <2>14, <2>15, <2>16, SettingsMove
  <1>5. CASE UNCHANGED cache /\ \E out \in {"ok", "error", "invalid"} : Update(c, y(out))
    <2> HIDE DEF y
    <2> QED
      BY <1>1, <1>2, <1>5, Spent, CallMoves DEF Invariant, TypeOK, Bounds, world, settings
  <1> HIDE DEF y, new
  <1> QED
    BY <1>1, <1>4, <1>5

-----------------------------------------------------------------------------
(***************************************************************************)
(* The world, which forgets no offer.                                      *)
(***************************************************************************)
LEMMA WorldMoves ==
  ASSUME Invariant, UNCHANGED <<call, cache, selected, since>>,
         now' \in 0 .. MaxNow, now' >= now, listed' \subseteq Model, left' \in Bounds,
         was' \in [0 .. MaxNow -> SUBSET (SUBSET Allowed)],
         \A u \in 0 .. now : was[u] \subseteq was'[u],
         Offer' \in was'[now']
  PROVE  Invariant'
  <1>1. now \in Nat /\ now' \in Nat /\ \A u \in 0 .. now : u \in 0 .. now'
    BY TranscriptionAssumption DEF Invariant, TypeOK
  <1>2. ASSUME NEW c \in Call PROVE Fresh(call[c], was, now)'
    <2>1. call'[c] = call[c] /\ call[c].at \in Nat /\ Fresh(call[c], was, now)
      BY TranscriptionAssumption DEF Invariant, TypeOK, CallsInv, Calls
    <2> QED
      BY <1>1, <2>1 DEF Fresh, OfferedSince, OfferedAfter
  <1>3. CallsInv'
    BY <1>2 DEF Invariant, CallsInv, Holds
  <1>4. CatalogInv'
    <2>1. cache.until > 0 /\ cache.models # {} =>
            \E u \in 0 .. now' : u + TTL >= cache.until /\ cache.models \in was'[u]
      BY <1>1 DEF Invariant, CatalogInv
    <2>2. selected # None => OfferedWithin(selected, since)'
      BY <1>1 DEF Invariant, CatalogInv, OfferedWithin
    <2> QED
      BY <2>1, <2>2 DEF CatalogInv
  <1>5. TypeOK'
    BY DEF Invariant, TypeOK, Bounds
  <1> QED
    BY <1>3, <1>4, <1>5 DEF Invariant

LEMMA TickStep ==
  ASSUME Invariant, Tick
  PROVE  Invariant'
  <1>1. /\ now \in Nat /\ now < MaxNow /\ MaxNow \in Nat /\ now' = now + 1 /\ listed' = listed
        /\ was' = [was EXCEPT ![now + 1] = {Offer}]
        /\ UNCHANGED <<call, cache, selected, since, left>>
    BY TranscriptionAssumption DEF Tick, settings, Invariant, TypeOK
  <1>2. Offer \in SUBSET Allowed /\ Offer' = Offer
    BY <1>1 DEF Offer
  <1>3. /\ was' \in [0 .. MaxNow -> SUBSET (SUBSET Allowed)]
        /\ was'[now + 1] = {Offer} /\ \A u \in 0 .. now : was'[u] = was[u]
    BY <1>1, <1>2 DEF Invariant, TypeOK
  <1> QED
    BY <1>1, <1>2, <1>3, WorldMoves DEF Invariant, TypeOK, Bounds

LEMMA ListChangesStep ==
  ASSUME Invariant, ListChanges
  PROVE  Invariant'
  <1>1. /\ now \in Nat /\ now \in 0 .. MaxNow /\ MaxNow \in Nat /\ now' = now
        /\ listed' \subseteq Model /\ UNCHANGED <<call, cache, selected, since>>
        /\ was' = [was EXCEPT ![now] = was[now] \cup {listed' \cap Allowed}]
    BY TranscriptionAssumption DEF ListChanges, settings, Invariant, TypeOK
  <1>2. left' \in Bounds
    <2>1. left.changes - 1 \in Nat /\ left' = [left EXCEPT !.changes = left.changes - 1]
          /\ left \in Bounds
      BY DEF ListChanges, Invariant, TypeOK, Bounds
    <2> QED
      BY <2>1 DEF Bounds
  <1>3. /\ was' \in [0 .. MaxNow -> SUBSET (SUBSET Allowed)]
        /\ listed' \cap Allowed \in was'[now] /\ \A u \in 0 .. now : was[u] \subseteq was'[u]
    BY <1>1 DEF Invariant, TypeOK
  <1>4. Offer' = listed' \cap Allowed
    BY DEF Offer
  <1> QED
    BY <1>1, <1>2, <1>3, <1>4, WorldMoves

-----------------------------------------------------------------------------
(***************************************************************************)
(* The whole.                                                              *)
(***************************************************************************)
LEMMA InvariantInit == Init => Invariant
  <1> SUFFICES ASSUME Init PROVE Invariant
    OBVIOUS
  <1>1. /\ now = 0 /\ listed \in SUBSET Model /\ Offer \in SUBSET Allowed /\ MaxNow \in Nat
        /\ TTL \in Nat
    BY TranscriptionAssumption DEF Init, Offer
  <1>2. was \in [0 .. MaxNow -> SUBSET (SUBSET Allowed)] /\ was[0] = {Offer}
    BY <1>1 DEF Init
  <1>3. call \in [Call -> Calls] /\ \A c \in Call : call[c] = Idle
    BY IdleIs DEF Init
  <1>4. left \in [changes : Nat, faults : Nat]
    BY TranscriptionAssumption DEF Init
  <1>5. cache \in [models : SUBSET Allowed, until : 0 .. MaxNow + TTL] /\ cache.until = 0
    BY <1>1 DEF Init
  <1>6. selected = None /\ since = 0
    BY DEF Init
  <1>7. Idle.pc = "idle"
    BY DEF Idle
  <1>8. CallsInv
    BY <1>1, <1>3, <1>7, IdleIs DEF CallsInv, Holds, Fresh
  <1>9. TypeOK
    BY <1>1, <1>2, <1>3, <1>4, <1>5, <1>6, <1>7, IdleIs DEF TypeOK
  <1>10. CatalogInv
    BY <1>1, <1>2, <1>5, <1>6 DEF CatalogInv
  <1> QED
    BY <1>8, <1>9, <1>10 DEF Invariant

LEMMA InvariantStep == Invariant /\ [Next]_vars => Invariant'
  <1> SUFFICES ASSUME Invariant, [Next]_vars PROVE Invariant'
    OBVIOUS
  <1>1. ASSUME NEW c \in Call, Own(c) PROVE Invariant'
    BY <1>1, GetSelectedStep, SetSelectedStep, MakeDirectoryStep, ReadAudioStep, CleanupStep,
       ConverterStep, TimeoutStep DEF Own
  <1>2. ASSUME NEW c \in Call,
               \/ ConverterEnds(c) \/ Lookup(c) \/ Connect(c)
               \/ Respond(c) \/ Listing(c) \/ Body(c) \/ LinkBreaks(c) \/ LinkEnds(c)
        PROVE  Invariant'
    BY <1>2, ConverterStep, LookupStep, ConnectStep, RespondStep, ListingStep, BodyStep, TimeoutStep,
       LinkEndsStep
  <1>3. ASSUME NEW c \in Call,
               \/ AskSettings(c, "read", None)
               \/ \E m \in Model \cup {None} : AskSettings(c, "select", m)
               \/ \E m \in Model : Transcribe(c, m)
        PROVE  Invariant'
    BY <1>3, AskSettingsStep, TranscribeStep
  <1>4. CASE UNCHANGED vars
    BY <1>4 DEF vars, Invariant, TypeOK, CallsInv, CatalogInv, Holds, Fresh, OfferedSince,
                OfferedAfter, OfferedWithin, Offer
  <1> QED
    BY <1>1, <1>2, <1>3, <1>4, TickStep, ListChangesStep DEF Next

LEMMA InvariantAlways == Spec => []Invariant
  BY InvariantInit, InvariantStep, PTL DEF Spec

(* Every variable keeps its type, and a call has an outcome exactly from    *)
(* its end or its finally block on.                                         *)
THEOREM TypeCorrect == Spec => []TypeOK
  BY InvariantAlways, PTL DEF Invariant

(* However a call ends - refused, failed at any step, timed out or broken   *)
(* off - its converter is over, its directory gone or its removal reported, *)
(* and no connection of it stays open but one whose answer was given up.    *)
THEOREM CleansUp == Spec => []NothingLeftBehind
  <1>1. Invariant => NothingLeftBehind
    BY DEF Invariant, CallsInv, Holds, NothingLeftBehind, TypeOK, Calls
  <1> QED
    BY <1>1, InvariantAlways, PTL

(* Whatever the resolver answers, and answers later, every connection is to *)
(* an address that was looked at and is private.                            *)
THEOREM PinnedToPrivate == Spec => []ConnectsPrivately
  <1>1. Invariant => ConnectsPrivately
    BY DEF Invariant, CallsInv, Holds, ConnectsPrivately, TypeOK, Calls
  <1> QED
    BY <1>1, InvariantAlways, PTL

(* A discovery is cached from the time it began, so however long it took    *)
(* and whichever discovery stored its answer last, what is shown or chosen  *)
(* was on offer less than TTL before the request asked.                     *)
THEOREM CacheWithinItsTime == Spec => []CatalogFresh
  <1>1. Invariant => CatalogFresh
    BY DEF Invariant, CallsInv, Fresh, OfferedAfter, CatalogInv, CatalogFresh
  <1> QED
    BY <1>1, InvariantAlways, PTL
=============================================================================
