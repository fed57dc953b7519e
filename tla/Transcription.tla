---------------------------- MODULE Transcription ----------------------------
(***************************************************************************)
(* What EchoHoard asks of the LiteLLM server: the models an owner may      *)
(* choose from, cached for a minute (application/transcription-catalog.ts, *)
(* litellm/catalog.ts), and the transcription of a voice note with one of  *)
(* them, which converts the media in a temporary directory and uploads it  *)
(* (litellm/transcription.ts).  Both resolve the server's private host     *)
(* name, check the address and connect to that address, under a timer.     *)
(*                                                                         *)
(* A call is one settings request or one transcription; a step is the code *)
(* between two awaits.  Failures the program reports alike are one kind.   *)
(***************************************************************************)
EXTENDS Naturals, FiniteSets

CONSTANTS Call,        \* calls, each used once
          Model,       \* what the server may list, or somebody may ask for
          Allowed,     \* the models the configuration allows
          Private,     \* addresses isPrivateAddress accepts
          Public,
          TTL,         \* CachedTranscriptionCatalog.ttlMs
          MaxNow,      \* bound on the clock
          MaxChanges,  \* bound on changes of the server's list
          MaxFaults,   \* bound on failing steps
          None

ASSUME TranscriptionAssumption ==
    /\ Allowed \subseteq Model /\ None \notin Model \cup Private \cup Public
    /\ Private \cap Public = {} /\ Private # {}
    /\ TTL \in Nat \ {0} /\ {MaxNow, MaxChanges, MaxFaults} \subseteq Nat

VARIABLES now,
          listed,    \* the audio models the server lists
          cache,     \* CachedTranscriptionCatalog.cached
          selected,  \* Archive.transcriptionModel
          call,      \* the calls
          was,       \* history: the offers in force during each tick
          since,     \* history: when the catalog was asked for the selected model
          left       \* what remains of the bounds

vars == <<now, listed, cache, selected, call, was, since, left>>
world == <<now, listed, was>>
settings == <<cache, selected, since>>

Idle == [op |-> "none", pc |-> "idle", out |-> "none", asked |-> None, first |-> FALSE,
         at |-> 0, models |-> {}, addr |-> None, link |-> "none", dir |-> FALSE,
         proc |-> "none"]

Offer == listed \cap Allowed

Init ==
    /\ now = 0 /\ listed \in SUBSET Model
    /\ cache = [models |-> {}, until |-> 0] /\ selected = None /\ since = 0
    /\ call = [c \in Call |-> Idle] /\ was = [t \in 0 .. MaxNow |-> IF t = 0 THEN {Offer} ELSE {}]
    /\ left = [changes |-> MaxChanges, faults |-> MaxFaults]

Fault   == left.faults > 0 /\ left' = [left EXCEPT !.faults = @ - 1]
NoFault == UNCHANGED left

Closed(r)    == [r EXCEPT !.link = "none", !.addr = None]
Unread(r)    == [r EXCEPT !.link = "unread"]
At(c, pc)    == call[c].pc = pc
Settings(c)  == call[c].op \in {"read", "select"}
\* A named bound: a transcription shares no state of the program with another call, so
\* a behaviour has one, or settings requests.
Apart(ops)   == \A c \in Call : call[c].op \in ops \cup {"none"}
Update(c, r) == call' = [call EXCEPT ![c] = r]

\* A failure of a transcription that has its directory goes through the finally block.
\* What a call has no more use for is dropped.
Ending(c, out) ==
    [call[c] EXCEPT !.out = out, !.asked = None, !.first = FALSE, !.models = {},
                    !.pc = IF call[c].op = "transcribe" /\ call[c].dir THEN "cleanup" ELSE "done"]

-----------------------------------------------------------------------------
(* The settings.  A read asks the database, then the catalog; a selection   *)
(* reads, checks that the model is among those, writes and reads again.     *)

AskSettings(c, op, m) ==
    /\ At(c, "idle") /\ Apart({"read", "select"})
    /\ Update(c, [Idle EXCEPT !.op = op, !.pc = "get", !.asked = m, !.first = (op = "select")])
    /\ UNCHANGED <<world, settings, left>>

\* discover() has answered with models; anything may be unset, models only be chosen
\* from the answer.
OfferedOrNot(c, models) == TRUE
Offered(c, models)      == call[c].asked \in models \cup {None}
Known(c, models) ==
    [IF call[c].first /\ Offered(c, models) THEN [call[c] EXCEPT !.pc = "set"]
     ELSE Ending(c, IF call[c].first THEN "refused" ELSE "ready") EXCEPT !.models = models]

\* The row is read, and then the clock, once: the cache is good until `until`, and what
\* is fetched will be good from this time on.
GetSelected(c) ==
    LET r == [call[c] EXCEPT !.at = now, !.pc = "lookup"] IN
    /\ At(c, "get")
    /\ \/ /\ NoFault
          /\ Update(c, IF cache.until > now THEN [Known(c, cache.models) EXCEPT !.at = now] ELSE r)
       \/ Fault /\ Update(c, Ending(c, "error"))
    /\ UNCHANGED <<world, settings>>

SetSelected(c) ==
    /\ At(c, "set")
    /\ \/ /\ NoFault /\ selected' = call[c].asked /\ since' = call[c].at
          /\ Update(c, [call[c] EXCEPT !.pc = "get", !.first = FALSE])
       \/ Fault /\ Update(c, Ending(c, "error")) /\ UNCHANGED <<selected, since>>
    /\ UNCHANGED <<world, cache>>

-----------------------------------------------------------------------------
(* A transcription up to its upload.                                        *)

\* validateRequest, and the lstat of the media under its digest.
Transcribe(c, m) ==
    /\ At(c, "idle") /\ Apart({})
    /\ \/ NoFault /\ Update(c, [Idle EXCEPT !.op = "transcribe", !.asked = m,
                          !.pc = IF m \in Allowed THEN "mkdir" ELSE "done",
                          !.out = IF m \in Allowed THEN "none" ELSE "refused"])
       \/ Fault /\ Update(c, [Idle EXCEPT !.op = "transcribe", !.pc = "done", !.out = "input"])
    /\ UNCHANGED <<world, settings>>

\* The temporary directory is made and the converter started in it.
MakeDirectory(c) ==
    /\ At(c, "mkdir")
    /\ \/ NoFault /\ Update(c, [call[c] EXCEPT !.pc = "convert", !.dir = TRUE, !.proc = "running"])
       \/ Fault /\ Update(c, Ending(c, "internal"))
    /\ UNCHANGED <<world, settings>>

\* The converter's timer kills it; runProcess waits for its end all the same.
KillAndGo(r)  == [r EXCEPT !.proc = "killed", !.pc = "cleanup", !.out = "timeout"]
Killed(r)     == [r EXCEPT !.proc = "killed"]
ConverterTimeout(c) ==
    /\ At(c, "convert") /\ call[c].proc = "running"
    /\ Update(c, Killed(call[c]))
    /\ UNCHANGED <<world, settings, left>>
ConverterEnds(c) ==
    LET ended(out) == [Ending(c, out) EXCEPT !.proc = "closed"] IN
    /\ call[c].proc \in {"running", "killed"} /\ At(c, "convert")
    /\ \/ call[c].proc = "killed" /\ NoFault /\ Update(c, ended("timeout"))
       \/ /\ call[c].proc = "running" /\ NoFault
          /\ Update(c, [call[c] EXCEPT !.proc = "closed", !.pc = "read"])
       \/ call[c].proc = "running" /\ Fault /\ Update(c, ended("input"))
    /\ UNCHANGED <<world, settings>>

\* The audio is read, within its limit, and the timer of the request starts.
ReadAudio(c) ==
    /\ At(c, "read")
    /\ \/ NoFault /\ Update(c, [call[c] EXCEPT !.pc = "lookup"])
       \/ Fault /\ Update(c, Ending(c, "input"))
    /\ UNCHANGED <<world, settings>>

-----------------------------------------------------------------------------
(* The request to the server.                                               *)

TimerUntilHeaders(c) == call[c].pc \in {"lookup", "send", "sent"}
Timed(c)             == call[c].pc \in {"lookup", "send", "sent", "body"}

Failure(c, out) == Ending(c, IF Settings(c) THEN "error" ELSE out)

Address == Private \cup Public

\* validatePrivateEndpoint: the resolver answers with any addresses at any time; all of
\* them have to be private, and the first one is taken.
Lookup(c) ==
    /\ At(c, "lookup")
    /\ \/ \E answer \in (SUBSET Private) \ {{}} : \E a \in answer :
          NoFault /\ Update(c, [call[c] EXCEPT !.pc = "send", !.addr = a])
       \/ \E answer \in SUBSET Address :
          /\ NoFault /\ (answer = {} \/ ~(answer \subseteq Private))
          /\ Update(c, Failure(c, "configuration"))
       \/ Fault /\ Update(c, Failure(c, "provider"))
    /\ UNCHANGED <<world, settings>>

\* requestPinnedEndpoint connects to the address that was looked at; the name is
\* only sent along.
Resolved(c) == Address
Pinned(c)   == {call[c].addr}
Connect(c) ==
    /\ At(c, "send")
    /\ \/ /\ NoFault
          /\ \E a \in Pinned(c) : Update(c, [call[c] EXCEPT !.pc = "sent", !.link = "open", !.addr = a])
       \/ Fault /\ Update(c, Failure(c, "provider"))
    /\ UNCHANGED <<world, settings>>

\* The headers come.  An answer that is not ok, or that announces too much to be a
\* transcript, is given up without being read: its connection stays open.
Respond(c) ==
    /\ At(c, "sent")
    /\ \/ NoFault /\ Update(c, [call[c] EXCEPT !.pc = "body", !.models = Offer])
       \/ Fault /\ Update(c, Unread(Failure(c, "provider")))
       \/ ~Settings(c) /\ Fault /\ Update(c, Unread(Failure(c, "invalid")))
    /\ UNCHANGED <<world, settings>>

\* The server may write the body only later, from what it lists then.
Listing(c) ==
    /\ At(c, "body") /\ Settings(c)
    /\ Update(c, [call[c] EXCEPT !.models = Offer])
    /\ UNCHANGED <<world, settings, left>>

\* The body has been read: JSON that is no catalog counts as an empty one.  What
\* discover fetched is cached from the time it began.
UntilFromNow(c)   == now + TTL
UntilFromStart(c) == call[c].at + TTL
Body(c) ==
    /\ At(c, "body")
    /\ \/ \E models \in {call[c].models, {}} :
          /\ Settings(c) /\ (IF models = call[c].models THEN NoFault ELSE Fault)
          /\ cache' = [models |-> models, until |-> UntilFromStart(c)]
          /\ Update(c, Closed(Known(c, models)))
       \/ /\ ~Settings(c) /\ NoFault /\ UNCHANGED cache
          /\ Update(c, Closed(Ending(c, "ok")))
       \/ /\ Fault /\ UNCHANGED cache
          /\ Update(c, Closed(Failure(c, "invalid")))
    /\ UNCHANGED <<world, selected, since>>

LinkBreaks(c) ==
    /\ call[c].pc \in {"sent", "body"} /\ Fault
    /\ Update(c, Closed(Failure(c, "provider")))
    /\ UNCHANGED <<world, settings>>

\* The timer settles the race and aborts whatever the request is at.
LeftOpen(r) == r
Aborted(r)  == Closed(r)
Timeout(c) ==
    /\ Timed(c)
    /\ Update(c, Aborted(Failure(c, "timeout")))
    /\ UNCHANGED <<world, settings, left>>

\* The finally block.  When it fails, that is what the caller is told.
Cleanup(c) ==
    /\ At(c, "cleanup")
    /\ \/ NoFault /\ Update(c, [call[c] EXCEPT !.pc = "done", !.dir = FALSE])
       \/ Fault /\ Update(c, [call[c] EXCEPT !.pc = "done", !.out = "cleanup-failed"])
    /\ UNCHANGED <<world, settings>>

-----------------------------------------------------------------------------
(* The world.                                                               *)

Tick ==
    /\ now < MaxNow /\ now' = now + 1
    /\ was' = [was EXCEPT ![now + 1] = {Offer}]
    /\ UNCHANGED <<listed, call, settings, left>>

ListChanges ==
    /\ left.changes > 0 /\ left' = [left EXCEPT !.changes = @ - 1]
    /\ listed' \in (SUBSET Model) \ {listed}
    /\ was' = [was EXCEPT ![now] = @ \cup {listed' \cap Allowed}]
    /\ UNCHANGED <<now, call, settings>>

\* The server ends an answer nobody reads, or the signal of a discovery, whose
\* timer nobody clears, goes off after all.
LinkEnds(c) ==
    /\ call[c].link = "unread"
    /\ Update(c, Closed(call[c]))
    /\ UNCHANGED <<world, settings, left>>

\* What the program does by itself: statements, files, timers, the end of a killed process.
Own(c) ==
    \/ GetSelected(c) \/ SetSelected(c) \/ MakeDirectory(c) \/ ReadAudio(c) \/ Cleanup(c)
    \/ ConverterTimeout(c) \/ (call[c].proc = "killed" /\ ConverterEnds(c)) \/ Timeout(c)

Next ==
    \/ \E c \in Call :
         \/ Own(c) \/ ConverterEnds(c) \/ Lookup(c) \/ Connect(c)
         \/ Respond(c) \/ Listing(c) \/ Body(c) \/ LinkBreaks(c) \/ LinkEnds(c)
         \/ AskSettings(c, "read", None)
         \/ \E m \in Model \cup {None} : AskSettings(c, "select", m)
         \/ \E m \in Model : Transcribe(c, m)
    \/ Tick \/ ListChanges

Spec == Init /\ [][Next]_vars

\* Nothing is assumed of the server, the resolver or the converter.
FairSpec == Spec /\ \A c \in Call : WF_vars(Own(c))

-----------------------------------------------------------------------------
Outcomes == {"none", "ready", "refused", "error", "ok", "input", "timeout", "provider",
             "invalid", "configuration", "internal", "cleanup-failed"}

Steps == {"idle", "get", "set", "mkdir", "convert", "read", "lookup", "send", "sent", "body",
          "cleanup", "done"}
Calls == [op : {"none", "read", "select", "transcribe"}, pc : Steps, out : Outcomes,
          asked : Model \cup {None}, first : BOOLEAN, at : 0 .. MaxNow,
          models : SUBSET Allowed, addr : Address \cup {None}, link : {"none", "open", "unread"},
          dir : BOOLEAN, proc : {"none", "running", "killed", "closed"}]

\* Types, with the outcome of a call known exactly at its end and in the finally block.
TypeOK ==
    /\ now \in 0 .. MaxNow /\ listed \subseteq Model
    /\ cache \in [models : SUBSET Allowed, until : 0 .. MaxNow + TTL]
    /\ selected \in Allowed \cup {None} /\ since \in 0 .. MaxNow
    /\ was \in [0 .. MaxNow -> SUBSET (SUBSET Allowed)]
    /\ left \in [changes : Nat, faults : Nat]
    /\ call \in [Call -> Calls]
    /\ \A c \in Call : /\ call[c].out # "none" <=> call[c].pc \in {"cleanup", "done"}
                       /\ call[c].dir => call[c].op = "transcribe"

\* "temporary derivatives clean after success/failure" (docs/stories/EHV2-06.md:37):
\* a converter never runs without its directory nor past the call it works for; after
\* the call the directory is gone, unless its removal failed and the caller was told
\* so; and no connection is being written to or read from once its call has failed,
\* timed out or delivered: it is closed, or its answer was given up unread.
NothingLeftBehind ==
    \A c \in Call :
      /\ call[c].proc \in {"running", "killed"} => call[c].dir /\ call[c].pc = "convert"
      /\ call[c].pc = "done" => (call[c].dir <=> call[c].out = "cleanup-failed")
      /\ call[c].link = "open" => call[c].pc \in {"sent", "body"}
      /\ call[c].link = "unread" => call[c].out \notin {"ok", "ready", "timeout"}

\* Every connection, with the credential and the audio on it, is to a private address,
\* however the name resolves by the time it is made (docs/stories/EHV2-10.md:7).
ConnectsPrivately == \A c \in Call : call[c].link # "none" => call[c].addr \in Private

OfferedWithin(m, t) == \E u \in 0 .. now : u + TTL > t /\ \E offer \in was[u] : m \in offer

\* The catalog is never older than its time to live: what a settings request is shown
\* was the offer of the server less than TTL before it asked, or later - however slow
\* the server was, and whichever of two discoveries stored its answer last - or it is
\* empty, when the answer was no catalog.  So the selected model was on offer when it
\* was chosen, up to TTL.
CatalogFresh ==
    /\ \A c \in Call : call[c].out = "ready" /\ call[c].models # {} =>
         \E u \in 0 .. now : u + TTL > call[c].at /\ call[c].models \in was[u]
    /\ selected # None => OfferedWithin(selected, since)

\* Every call ends, whatever the server, the resolver and the converter do.
EveryCallEnds == \A c \in Call : call[c].pc # "idle" ~> call[c].pc = "done"
=============================================================================
