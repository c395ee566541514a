------------------------------ MODULE Provider ------------------------------
(***************************************************************************)
(* The provider stack a pipeline stage calls through callStage             *)
(* (internal/pipeline/stage.go): a chain of the fixture store and the live *)
(* Gemini provider, with its disk cache, its retry and repair loops and    *)
(* its recorder (internal/llm).  Several callers run at once: the personas *)
(* of stage 5, or the briefs of concurrent HTTP requests.  The process may *)
(* crash; the fixture store and the cache survive on disk.                 *)
(*                                                                         *)
(* A caller passes through                                                 *)
(*                                                                         *)
(*   lookup -> cacheLookup -> generate -> queued -> calling -> (backoff)   *)
(*          -> cacheWrite -> cacheSync -> cacheRename                      *)
(*          -> record -> recording -> served -> done                       *)
(*                                                                         *)
(* and may end in failed from most of them.  The limiter's slots are       *)
(* abstracted to the single step Granted: module Limiter is about them.  A *)
(* cache that is switched off behaves as one whose directory cannot be     *)
(* created: it is absent, and each write gives up at its first step.       *)
(***************************************************************************)
EXTENDS Integers, FiniteSets

CONSTANTS
    Modes,          \* the providers buildProvider is asked for, see below
    Callers,        \* goroutines that call the provider
    Keys,           \* requests: stage and brief
    Docs,           \* answers that satisfy the stage's schema
    MaxAttempts,    \* maxAttempts: tries of one generate on 429
    MaxCompletes,   \* bound: calls of callStage
    MaxCrashes,     \* bound: crashes of the process
    WritesFail      \* bound: whether a write of a fixture may fail half way

\* auto: fixtures, then the model with recording; replay: fixtures alone;
\* live: the model alone; liveRecording: the model with --record.
ASSUME ModesAssumption ==
    Modes \subseteq {"auto", "replay", "live", "liveRecording"}
ASSUME AttemptsAssumption == MaxAttempts \in Nat \ {0}
ASSUME BoundsAssumption ==
    MaxCompletes \in Nat /\ MaxCrashes \in Nat /\ WritesFail \in BOOLEAN
ASSUME DocsAssumption ==
    Docs \cap {"absent", "unreadable", "empty", "garbled", "none"} = {}

VARIABLES
    mode,       \* which provider buildProvider built
    key,        \* the request each caller makes
    call,       \* the callStage each caller is in, see Fresh
    fixture,    \* the fixture file of each key
    cache,      \* the cache file of each key
    recorded,   \* history: keys a successful callStage left recorded
    clashed,    \* history: keys recorded over another caller's recording
    completes,  \* calls of callStage so far, for the bound
    crashes     \* crashes so far, for the bound

config == <<mode, key>>
disk == <<fixture, cache>>
history == <<recorded, clashed>>
bounds == <<completes, crashes>>
vars == <<mode, key, call, fixture, cache, recorded, clashed, completes, crashes>>

Chained == mode \in {"auto", "replay"}
Recording == mode \in {"auto", "liveRecording"}

\* The bytes of a file: an answer, no bytes (just truncated), or bytes that do
\* not satisfy the schema (cut short, mixed up or edited by hand).
Bytes == Docs \cup {"empty", "garbled"}
FixtureFile == Bytes \cup {"absent", "unreadable"}
CacheFile == Bytes \cup {"absent"}

Ended == {"idle", "done", "failed"}
Places == Ended \cup
    {"lookup", "cacheLookup", "generate", "queued", "calling", "backoff",
     "cacheWrite", "cacheSync", "cacheRename", "record", "recording", "served"}

\* The local state of one callStage, Complete and generate.
Fresh ==
    [at        |-> "idle",      \* where the caller is
     cancelled |-> FALSE,       \* its context is done
     reply     |-> "none",      \* the bytes it has in hand
     tmp       |-> "absent",    \* its temporary cache file
     attempt   |-> 0,           \* the counter of generate
     repair    |-> 0,           \* the counter of Complete
     calls     |-> 0,           \* history: model calls started
     late      |-> 0]           \* history: those started after cancellation

At(c, place) == call[c].at = place
Running(c) == call[c].at \notin Ended

\* llm.Validate: the bytes parse and satisfy the schema.
Valid(b) == b \in Docs

Init ==
    /\ mode \in Modes
    /\ key \in [Callers -> Keys]
    /\ call = [c \in Callers |-> Fresh]
    /\ fixture \in [Keys -> FixtureFile \ {"empty"}]
    /\ cache \in [Keys -> {"absent", "garbled"}]
    /\ recorded = {}
    /\ clashed = {}
    /\ completes = 0
    /\ crashes = 0

---------------------------------------------------------------------------
(***************************************************************************)
(* Steps that touch nothing but the caller's own state.                    *)
(***************************************************************************)

Become(c, r) ==
    /\ call' = [call EXCEPT ![c] = r]
    /\ UNCHANGED <<config, disk, history, bounds>>

Goto(c, place) == Become(c, [call[c] EXCEPT !.at = place])
Fail(c) == Become(c, [Fresh EXCEPT !.at = "failed"])

\* The deadline of the HTTP request, a disconnect, a sibling's failure.
Cancel(c) ==
    /\ Running(c)
    /\ ~call[c].cancelled
    /\ Become(c, [call[c] EXCEPT !.cancelled = TRUE])

---------------------------------------------------------------------------
(***************************************************************************)
(* callStage and the chain.                                                *)
(***************************************************************************)

Begin(c) ==
    /\ ~Running(c)
    /\ completes < MaxCompletes
    /\ completes' = completes + 1
    /\ call' = [call EXCEPT ![c] =
                  [Fresh EXCEPT !.at = IF Chained THEN "lookup" ELSE "cacheLookup"]]
    /\ UNCHANGED <<config, disk, history, crashes>>

\* The fixture file could be read: its bytes are the answer, whatever they are.
FixtureHit(c) ==
    /\ At(c, "lookup")
    /\ fixture[key[c]] \in Bytes
    /\ Become(c, [call[c] EXCEPT !.at = "served", !.reply = fixture[key[c]]])

\* Any error of ReadFile is reported as ErrNoFixture, and the chain falls
\* through to the model if it has one.
FixtureMiss(c) ==
    /\ At(c, "lookup")
    /\ fixture[key[c]] \notin Bytes
    /\ IF mode = "auto" THEN Goto(c, "cacheLookup") ELSE Fail(c)

ServeAs(c, place) ==
    /\ call' = [call EXCEPT ![c] = [Fresh EXCEPT !.at = place, !.reply = call[c].reply]]
    /\ recorded' = IF Recording THEN recorded \cup {key[c]} ELSE recorded
    /\ UNCHANGED <<config, disk, clashed, bounds>>

\* callStage validates what it was given, whichever provider it came from.  What
\* satisfies the schema may still not fit the stage's Go type.
Serve(c) ==
    /\ At(c, "served")
    /\ \/ Valid(call[c].reply) /\ ServeAs(c, "done")
       \/ Fail(c)

---------------------------------------------------------------------------
(***************************************************************************)
(* Gemini.Complete and generate.                                           *)
(***************************************************************************)

CacheHitUnvalidated(c) ==
    /\ At(c, "cacheLookup")
    /\ cache[key[c]] # "absent"
    /\ Become(c, [call[c] EXCEPT !.at = "record", !.reply = cache[key[c]]])

CacheHit(c) ==
    /\ At(c, "cacheLookup")
    /\ Valid(cache[key[c]])
    /\ Become(c, [call[c] EXCEPT !.at = "record", !.reply = cache[key[c]]])

\* An absent, unreadable or invalid entry is a miss.
CacheMiss(c) ==
    /\ At(c, "cacheLookup")
    /\ ~Valid(cache[key[c]])
    /\ Goto(c, "generate")

WaitUnchecked(c) == At(c, "generate") /\ Goto(c, "queued")

\* limiter.Wait reads the context on entry ...
Wait(c) ==
    /\ At(c, "generate")
    /\ IF call[c].cancelled THEN Fail(c) ELSE Goto(c, "queued")

\* ... and may still return nil when it is cancelled while the caller waits.
Granted(c) ==
    /\ At(c, "queued")
    /\ Become(c, [call[c] EXCEPT
                    !.at = "calling",
                    !.calls = @ + 1,
                    !.late = IF call[c].cancelled THEN @ + 1 ELSE @])

QueueCancelled(c) == At(c, "queued") /\ call[c].cancelled /\ Fail(c)

\* A response that satisfies the schema.
Answer(c, d) ==
    /\ At(c, "calling")
    /\ Become(c, [call[c] EXCEPT !.at = "cacheWrite", !.reply = d])

\* A response that does not: one repair, with a fresh attempt counter.
AnswerInvalid(c) ==
    /\ At(c, "calling")
    /\ IF call[c].repair = 0
       THEN Become(c, [call[c] EXCEPT !.at = "generate", !.repair = 1, !.attempt = 0])
       ELSE Fail(c)

RateLimitedUpTo(c, limit) ==
    /\ At(c, "calling")
    /\ IF call[c].attempt < limit
       THEN Become(c, [call[c] EXCEPT !.at = "backoff", !.attempt = @ + 1])
       ELSE Fail(c)

RateLimitedOffByOne(c) == RateLimitedUpTo(c, MaxAttempts)

\* A 429 is retried, except on the last attempt.
RateLimited(c) == RateLimitedUpTo(c, MaxAttempts - 1)

\* An empty response, or an error other than 429: not retried.
CallFails(c) == At(c, "calling") /\ Fail(c)

CallIgnoresContext(c) == FALSE

\* The HTTP client gives up when the context is done.
CallAborted(c) == At(c, "calling") /\ call[c].cancelled /\ Fail(c)

\* The backoff timer and the context are watched together.
BackoffOver(c) == At(c, "backoff") /\ Goto(c, "generate")
BackoffCancelled(c) == At(c, "backoff") /\ call[c].cancelled /\ Fail(c)

---------------------------------------------------------------------------
(***************************************************************************)
(* writeCache: a temporary file is written and synced, then renamed over   *)
(* the entry.  Failures are ignored: the answer is returned anyway.        *)
(***************************************************************************)

CacheGivesUp(c) ==
    /\ call[c].at \in {"cacheWrite", "cacheSync", "cacheRename"}
    /\ Become(c, [call[c] EXCEPT !.at = "record", !.tmp = "absent"])

CacheOpen(c) ==
    /\ At(c, "cacheWrite")
    /\ Become(c, [call[c] EXCEPT !.at = "cacheSync", !.tmp = "empty"])

CacheSyncUnchecked(c) ==
    /\ At(c, "cacheSync")
    /\ \E b \in {call[c].reply, "garbled"} :
           Become(c, [call[c] EXCEPT !.at = "cacheRename", !.tmp = b])

CacheSync(c) ==
    /\ At(c, "cacheSync")
    /\ Become(c, [call[c] EXCEPT !.at = "cacheRename", !.tmp = call[c].reply])

CacheRename(c) ==
    /\ At(c, "cacheRename")
    /\ cache' = [cache EXCEPT ![key[c]] = call[c].tmp]
    /\ call' = [call EXCEPT ![c] = [@ EXCEPT !.at = "record", !.tmp = "absent"]]
    /\ UNCHANGED <<config, fixture, history, bounds>>

---------------------------------------------------------------------------
(***************************************************************************)
(* record: os.WriteFile truncates the fixture, then writes it.  A failure  *)
(* is fatal to the call, which has already been paid for.                  *)
(***************************************************************************)

RecordSkipped(c) == At(c, "record") /\ ~Recording /\ Goto(c, "served")
RecordRefused(c) == At(c, "record") /\ Recording /\ Fail(c)

Contended(c) ==
    \/ key[c] \in recorded
    \/ \E d \in Callers \ {c} :
           key[d] = key[c] /\ call[d].at \in {"recording", "served"}

RecordOpen(c) ==
    /\ At(c, "record")
    /\ Recording
    /\ fixture[key[c]] # "unreadable"
    /\ fixture' = [fixture EXCEPT ![key[c]] = "empty"]
    /\ call' = [call EXCEPT ![c].at = "recording"]
    /\ clashed' = IF Contended(c) THEN clashed \cup {key[c]} ELSE clashed
    /\ UNCHANGED <<config, cache, recorded, bounds>>

RecordAs(c, b, r) ==
    /\ At(c, "recording")
    /\ fixture' = [fixture EXCEPT ![key[c]] = b]
    /\ call' = [call EXCEPT ![c] = r]
    /\ UNCHANGED <<config, cache, history, bounds>>

\* Two writers that truncated before either wrote leave the longer answer's
\* tail behind the shorter one.
RecordWritten(c) ==
    \E b \in {call[c].reply, "garbled"} :
        /\ fixture[key[c]] \in {"empty", call[c].reply} => b = call[c].reply
        /\ RecordAs(c, b, [call[c] EXCEPT !.at = "served"])

RecordBrokenIgnored(c) == RecordAs(c, "garbled", [call[c] EXCEPT !.at = "served"])

RecordBroken(c) == WritesFail /\ RecordAs(c, "garbled", [Fresh EXCEPT !.at = "failed"])

\* The process dies and is started again: the disk is what it was.
Crash ==
    /\ crashes < MaxCrashes
    /\ \E c \in Callers : Running(c)
    /\ crashes' = crashes + 1
    /\ call' = [c \in Callers |-> Fresh]
    /\ UNCHANGED <<config, disk, history, completes>>

---------------------------------------------------------------------------

\* What the model does with a call is up to the model.
Respond(c) ==
    \/ \E d \in Docs : Answer(c, d)
    \/ AnswerInvalid(c)
    \/ RateLimited(c)
    \/ CallFails(c)

\* The steps a goroutine takes by itself.  The model's response is not one of
\* them: the API may hang.
Local(c) ==
    \/ FixtureHit(c) \/ FixtureMiss(c) \/ Serve(c)
    \/ CacheHit(c) \/ CacheMiss(c)
    \/ Wait(c) \/ Granted(c) \/ QueueCancelled(c)
    \/ CallAborted(c)
    \/ BackoffOver(c) \/ BackoffCancelled(c)
    \/ CacheGivesUp(c) \/ CacheOpen(c) \/ CacheSync(c) \/ CacheRename(c)
    \/ RecordSkipped(c) \/ RecordRefused(c) \/ RecordOpen(c)
    \/ RecordWritten(c) \/ RecordBroken(c)

Next ==
    \/ Crash
    \/ \E c \in Callers : Begin(c) \/ Cancel(c) \/ Respond(c) \/ Local(c)

\* Goroutines are scheduled, limiter slots and backoffs come to an end
\* (Limiter!WaitReturns), and the server gives every request a deadline
\* (server.go:57).
Fairness == \A c \in Callers : WF_vars(Local(c)) /\ WF_vars(Cancel(c))

Spec == Init /\ [][Next]_vars

FairSpec == Spec /\ Fairness

---------------------------------------------------------------------------
(***************************************************************************)
(* Properties.                                                             *)
(***************************************************************************)

CallState ==
    [at : Places, cancelled : BOOLEAN, reply : Bytes \cup {"none"},
     tmp : CacheFile, attempt : 0 .. MaxAttempts - 1, repair : {0, 1},
     calls : Nat, late : Nat]

\* The type invariant of the provider stack and of the two stores on disk.
TypeOK ==
    /\ mode \in Modes
    /\ key \in [Callers -> Keys]
    /\ call \in [Callers -> CallState]
    /\ fixture \in [Keys -> FixtureFile]
    /\ cache \in [Keys -> CacheFile]
    /\ recorded \subseteq Keys
    /\ clashed \subseteq Keys
    /\ completes \in 0 .. MaxCompletes
    /\ crashes \in 0 .. MaxCrashes

\* Whatever is on disk (torn by a crash, mixed up by two writers, edited by
\* hand) and whatever the model answers, Gemini.Complete passes on only bytes
\* that satisfy the schema, to the cache, to the fixture and to its caller, and
\* a stage gets nothing else either (gemini.go:66-68, 194-199, stage.go:24-25).
OnlyValidPassedOn ==
    \A c \in Callers :
        call[c].at \in {"cacheWrite", "cacheSync", "cacheRename",
                       "record", "recording", "done"} => Valid(call[c].reply)

\* No step, a crash included, puts anything but a complete valid answer under
\* a cache key (gemini.go:214-218).
CacheNeverDamaged ==
    [][\A k \in Keys : cache'[k] # cache[k] => Valid(cache'[k])]_vars

\* One stage costs at most two generations of MaxAttempts calls each: retries
\* on 429 and the schema repair do not multiply further (gemini.go:61-64, 91).
CallsBounded == \A c \in Callers : call[c].calls <= 2 * MaxAttempts

\* After its context is done a caller starts at most one more model call: the
\* one whose limiter slot came at the same moment (gemini.go:138, ratelimit.go:54).
OneCallAfterCancel == \A c \in Callers : call[c].late <= 1

\* A successful recording leaves a fixture that replays, through any failure or
\* crash of other calls, as long as nobody records the same key over it.
RecordedUnlessClash == \A k \in recorded \ clashed : Valid(fixture[k])

\* Every stage call returns even if the model never answers: the deadline of
\* the request reaches every place a caller can wait in.
CompleteReturns == \A c \in Callers : Running(c) ~> ~Running(c)

\* What chain.go:22-24 says: a permissions error is returned as it is and not
\* masked by a network call.  Fixture.Complete reports every error as a miss.
ReadErrorIsReturned ==
    \A c \in Callers :
        Chained /\ fixture[key[c]] = "unreadable" => call[c].calls = 0

\* What chain.go:18-20 says: a brief drafted live is recorded on the way, so
\* that the second run is free.  Even if no write fails (WritesFail is FALSE),
\* two runs of one brief that write the file at the same time can spoil it.
RecordedBriefReplays ==
    \A k \in recorded :
        mode = "auto" /\ (\A c \in Callers : key[c] = k => ~Running(c))
            => Valid(fixture[k])
=============================================================================
