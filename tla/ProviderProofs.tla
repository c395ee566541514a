--------------------------- MODULE ProviderProofs ---------------------------
(***************************************************************************)
(* Theorems about the provider stack, for any number of callers, requests, *)
(* attempts and crashes.                                                   *)
(***************************************************************************)
EXTENDS Provider, TLAPS

---------------------------------------------------------------------------
(***************************************************************************)
(* One call of callStage, whatever the others do.                          *)
(***************************************************************************)

Vetted == {"cacheWrite", "cacheSync", "cacheRename", "record", "recording", "done"}
Unsent == {"lookup", "cacheLookup", "generate", "queued", "backoff"}

\* The generations before the current one, the attempts of this one, and the call that
\* is under way or has succeeded.
Paid(r) ==
    (IF r.repair = 0 THEN 0 ELSE MaxAttempts) + r.attempt + (IF r.at \in Unsent THEN 0 ELSE 1)

CallOK(r) ==
    /\ r.at \in Vetted => r.reply \in Docs
    /\ r.at = "cacheRename" => r.tmp = r.reply
    /\ r.calls <= Paid(r)
    /\ r.late <= 1
    /\ r.late = 1 => r.cancelled /\ r.at # "queued"

CallsOK == \A c \in Callers : CallOK(call[c])

\* Only the call of c changes, and it stays a good one.
Moves(c) == \E r \in CallState : CallOK(r) /\ call' = [call EXCEPT ![c] = r]

\* A call that has not begun, or has failed, is a good one.
LEMMA FreshIsOK ==
    /\ Fresh \in CallState /\ CallOK(Fresh)
    /\ \A place \in {"lookup", "cacheLookup", "failed"} :
          [Fresh EXCEPT !.at = place] \in CallState /\ CallOK([Fresh EXCEPT !.at = place])
    /\ \A doc \in Docs :
          LET r == [Fresh EXCEPT !.at = "done", !.reply = doc] IN r \in CallState /\ CallOK(r)
<1>1. Fresh \in CallState
  BY AttemptsAssumption DEF Fresh, CallState, Places, Ended, CacheFile
<1>2. CallOK(Fresh)
  BY DEF Fresh, CallOK, Vetted, Unsent, Paid
<1>3. /\ Fresh.calls = 0 /\ Fresh.late = 0 /\ Fresh.attempt = 0 /\ Fresh.repair = 0
  BY DEF Fresh
<1>4. ASSUME NEW place \in {"lookup", "cacheLookup", "failed"}
      PROVE  [Fresh EXCEPT !.at = place] \in CallState /\ CallOK([Fresh EXCEPT !.at = place])
  <2> DEFINE r == [Fresh EXCEPT !.at = place]
  <2>1. r \in CallState
    BY <1>1 DEF CallState, Places, Ended
  <2>2. r.at = place /\ r.calls = 0 /\ r.late = 0 /\ r.attempt = 0 /\ r.repair = 0
    BY <1>1, <1>3 DEF CallState
  <2> HIDE DEF r
  <2>3. CallOK(r)
    BY <2>2 DEF CallOK, Vetted, Unsent, Paid
  <2>4. QED
    BY <2>1, <2>3 DEF r
<1>5. ASSUME NEW doc \in Docs
      PROVE  LET r == [Fresh EXCEPT !.at = "done", !.reply = doc] IN r \in CallState /\ CallOK(r)
  <2> DEFINE r == [Fresh EXCEPT !.at = "done", !.reply = doc]
  <2>1. r \in CallState
    BY <1>1 DEF CallState, Places, Ended, Bytes
  <2>2. /\ r.at = "done" /\ r.reply = doc
        /\ r.calls = 0 /\ r.late = 0 /\ r.attempt = 0 /\ r.repair = 0
    BY <1>1, <1>3 DEF CallState
  <2> HIDE DEF r
  <2>3. CallOK(r)
    BY <2>2 DEF CallOK, Vetted, Unsent, Paid
  <2>4. QED
    BY <2>1, <2>3 DEF r
<1>6. QED
  BY <1>1, <1>2, <1>4, <1>5

\* Every step of a caller before it has an answer.
LEMMA AskingMoves ==
    ASSUME TypeOK, CallsOK, NEW c \in Callers,
           \/ Begin(c) \/ Cancel(c) \/ FixtureHit(c) \/ FixtureMiss(c)
           \/ CacheHit(c) \/ CacheMiss(c) \/ Wait(c) \/ Granted(c) \/ QueueCancelled(c)
    PROVE  Moves(c)
<1>1. call[c] \in CallState /\ CallOK(call[c])
  BY DEF TypeOK, CallsOK
<1>2. CASE Begin(c)
  BY <1>2, FreshIsOK DEF Begin, Moves
<1>3. CASE Cancel(c)
  <2> DEFINE r == [call[c] EXCEPT !.cancelled = TRUE]
  <2>1. r \in CallState
    BY <1>1 DEF CallState
  <2>2. /\ r.cancelled /\ r.at = call[c].at /\ r.reply = call[c].reply
        /\ r.tmp = call[c].tmp /\ r.attempt = call[c].attempt /\ r.repair = call[c].repair
        /\ r.calls = call[c].calls /\ r.late = call[c].late
    BY <1>1 DEF CallState
  <2> HIDE DEF r
  <2>3. Paid(r) = Paid(call[c])
    BY <2>2, Zenon DEF Paid
  <2>4. CallOK(r)
    <3>1. /\ r.at \in Vetted => r.reply \in Docs
          /\ r.at = "cacheRename" => r.tmp = r.reply
      BY <1>1, <2>2 DEF CallOK
    <3>2. r.calls <= Paid(r) /\ r.late <= 1
      BY <1>1, <2>2, <2>3 DEF CallOK
    <3>3. r.late = 1 => r.cancelled /\ r.at # "queued"
      BY <1>1, <2>2 DEF CallOK
    <3>4. QED
      BY <3>1, <3>2, <3>3, Zenon DEF CallOK
  <2>5. QED
    BY <1>3, <2>1, <2>4 DEF Cancel, Become, Moves, r
<1>4. CASE FixtureHit(c)
  <2> DEFINE r == [call[c] EXCEPT !.at = "served", !.reply = fixture[key[c]]]
  <2>1. r \in CallState
    BY <1>1, <1>4 DEF FixtureHit, CallState, Places
  <2>2. /\ r.at = "served" /\ r.cancelled = call[c].cancelled
        /\ r.attempt = call[c].attempt /\ r.repair = call[c].repair
        /\ r.calls = call[c].calls /\ r.late = call[c].late
    BY <1>1 DEF CallState
  <2> HIDE DEF r
  <2>3. CallOK(r)
    <3>1. /\ call[c].at = "lookup"
          /\ call[c].calls \in Nat /\ call[c].attempt \in 0 .. MaxAttempts - 1
          /\ call[c].calls <= Paid(call[c])
      BY <1>1, <1>4 DEF FixtureHit, At, CallState, CallOK
    <3>2. r.calls <= Paid(r)
      BY <2>2, <3>1, AttemptsAssumption DEF Unsent, Paid
    <3>3. r.late <= 1 /\ (r.late = 1 => r.cancelled)
      BY <1>1, <2>2, Zenon DEF CallOK
    <3>4. QED
      BY <2>2, <3>2, <3>3 DEF CallOK, Vetted
  <2>4. QED
    BY <1>4, <2>1, <2>3 DEF r, FixtureHit, Become, Moves
<1>5. CASE FixtureMiss(c)
  <2> DEFINE r == [call[c] EXCEPT !.at = "cacheLookup"]
  <2>1. r \in CallState /\ CallOK(r)
    BY <1>1, <1>5 DEF FixtureMiss, At, CallState, Places, CallOK, Vetted, Unsent, Paid
  <2>2. QED
    BY <1>5, <2>1, FreshIsOK DEF FixtureMiss, Goto, Fail, Become, Moves
<1>6. CASE CacheHit(c)
  <2> DEFINE r == [call[c] EXCEPT !.at = "record", !.reply = cache[key[c]]]
  <2>1. call[c].at = "cacheLookup" /\ cache[key[c]] \in Docs
    BY <1>6 DEF CacheHit, At, Valid
  <2>2. r \in CallState
    BY <1>1, <2>1 DEF CallState, Places, Bytes
  <2>3. /\ r.at = "record" /\ r.reply = cache[key[c]] /\ r.cancelled = call[c].cancelled
        /\ r.attempt = call[c].attempt /\ r.repair = call[c].repair
        /\ r.calls = call[c].calls /\ r.late = call[c].late
    BY <1>1 DEF CallState
  <2> HIDE DEF r
  <2>4. CallOK(r)
    <3>1. /\ call[c].calls \in Nat /\ call[c].attempt \in 0 .. MaxAttempts - 1
          /\ call[c].calls <= Paid(call[c])
      BY <1>1 DEF CallState, CallOK
    <3>2. r.calls <= Paid(r)
      BY <2>1, <2>3, <3>1, AttemptsAssumption DEF Unsent, Paid
    <3>3. r.late <= 1 /\ (r.late = 1 => r.cancelled)
      BY <1>1, <2>3, Zenon DEF CallOK
    <3>4. QED
      BY <2>1, <2>3, <3>2, <3>3 DEF CallOK
  <2>5. QED
    BY <1>6, <2>2, <2>4 DEF r, CacheHit, Become, Moves
<1>7. CASE CacheMiss(c)
  <2> DEFINE r == [call[c] EXCEPT !.at = "generate"]
  <2>1. r \in CallState /\ CallOK(r)
    BY <1>1, <1>7 DEF CacheMiss, At, CallState, Places, CallOK, Vetted, Unsent, Paid
  <2>2. QED
    BY <1>7, <2>1 DEF CacheMiss, Goto, Become, Moves
<1>8. CASE Wait(c)
  <2> DEFINE r == [call[c] EXCEPT !.at = "queued"]
  <2>1. ~call[c].cancelled => r \in CallState /\ CallOK(r)
    BY <1>1, <1>8 DEF Wait, At, CallState, Places, CallOK, Vetted, Unsent, Paid
  <2>2. QED
    BY <1>8, <2>1, FreshIsOK DEF Wait, Goto, Fail, Become, Moves
<1>9. CASE Granted(c)
  <2> DEFINE late == IF call[c].cancelled THEN call[c].late + 1 ELSE call[c].late
             r == [call[c] EXCEPT !.at = "calling", !.calls = @ + 1, !.late = late]
  <2>1. call[c].at = "queued" /\ call[c].late = 0
    BY <1>1, <1>9 DEF Granted, At, CallState, CallOK
  <2>2. late \in {0, 1} /\ (late = 1 => call[c].cancelled)
    BY <2>1
  <2> HIDE DEF late
  <2>3. r \in CallState
    <3>1. call[c].calls \in Nat /\ late \in Nat
      BY <1>1, <2>2 DEF CallState
    <3> DEFINE n == call[c].calls + 1
    <3>2. n \in Nat
      BY <3>1
    <3> HIDE DEF n
    <3>3. [call[c] EXCEPT !.at = "calling", !.calls = n, !.late = late] \in CallState
      BY <1>1, <3>1, <3>2 DEF CallState, Places
    <3>4. QED
      BY <3>3 DEF n
  <2>4. /\ r.at = "calling" /\ r.cancelled = call[c].cancelled
        /\ r.attempt = call[c].attempt /\ r.repair = call[c].repair
        /\ r.calls = call[c].calls + 1 /\ r.late = late
    BY <1>1 DEF CallState
  <2> HIDE DEF r
  <2>5. r.calls <= Paid(r)
    <3>1. /\ call[c].calls \in Nat /\ call[c].attempt \in 0 .. MaxAttempts - 1
          /\ call[c].calls <= Paid(call[c])
      BY <1>1 DEF CallState, CallOK
    <3>2. QED
      BY <2>1, <2>4, <3>1, AttemptsAssumption DEF Unsent, Paid
  <2>6. r.late <= 1 /\ (r.late = 1 => r.cancelled /\ r.at # "queued")
    <3>1. r.late = 1 => r.cancelled
      BY <2>2, <2>4, Zenon
    <3>2. QED
      BY <2>2, <2>4, <3>1
  <2>7. CallOK(r)
    BY <2>4, <2>5, <2>6 DEF CallOK, Vetted
  <2>8. QED
    BY <1>9, <2>3, <2>7 DEF Granted, Become, Moves, r, late
<1>10. CASE QueueCancelled(c)
  BY <1>10, FreshIsOK DEF QueueCancelled, Fail, Become, Moves
<1>11. QED
  BY <1>2, <1>3, <1>4, <1>5, <1>6, <1>7, <1>8, <1>9, <1>10

\* Every step of a caller that calls the model.
LEMMA CallingMoves ==
    ASSUME TypeOK, CallsOK, NEW c \in Callers,
           Respond(c) \/ CallAborted(c) \/ BackoffOver(c) \/ BackoffCancelled(c)
    PROVE  Moves(c)
<1>1. call[c] \in CallState /\ CallOK(call[c])
  BY DEF TypeOK, CallsOK
<1>2. CASE \E d \in Docs : Answer(c, d)
  <2>1. PICK d \in Docs : Answer(c, d)
    BY <1>2
  <2> DEFINE r == [call[c] EXCEPT !.at = "cacheWrite", !.reply = d]
  <2>2. r \in CallState /\ CallOK(r)
    BY <1>1, <2>1 DEF Answer, At, Bytes, CallState, Places, CallOK, Vetted, Unsent, Paid
  <2>3. QED
    BY <2>1, <2>2 DEF Answer, Become, Moves
<1>3. CASE AnswerInvalid(c)
  <2> DEFINE r == [call[c] EXCEPT !.at = "generate", !.repair = 1, !.attempt = 0]
  <2>1. r \in CallState
    <3>1. 0 \in 0 .. MaxAttempts - 1
      BY AttemptsAssumption
    <3>2. QED
      BY <1>1, <3>1 DEF CallState, Places
  <2>2. /\ r.at = "generate" /\ r.cancelled = call[c].cancelled
        /\ r.attempt = 0 /\ r.repair = 1
        /\ r.calls = call[c].calls /\ r.late = call[c].late
    BY <1>1 DEF CallState
  <2>3. call[c].at = "calling" /\ call[c].attempt \in 0 .. MaxAttempts - 1 /\ call[c].calls \in Nat
    BY <1>1, <1>3 DEF AnswerInvalid, At, CallState
  <2> HIDE DEF r
  <2>4. call[c].repair = 0 => CallOK(r)
    BY <1>1, <2>2, <2>3, AttemptsAssumption DEF CallOK, Vetted, Unsent, Paid
  <2>5. QED
    BY <1>3, <2>1, <2>4, FreshIsOK DEF r, AnswerInvalid, Fail, Become, Moves
<1>4. CASE RateLimited(c)
  <2> DEFINE r == [call[c] EXCEPT !.at = "backoff", !.attempt = @ + 1]
  <2>1. call[c].attempt < MaxAttempts - 1 => r \in CallState
    <3>1. call[c].attempt \in 0 .. MaxAttempts - 1
      BY <1>1 DEF CallState
    <3> DEFINE a == call[c].attempt + 1
    <3>2. call[c].attempt < MaxAttempts - 1 => a \in 0 .. MaxAttempts - 1
      BY <3>1, AttemptsAssumption
    <3> HIDE DEF a
    <3>3. a \in 0 .. MaxAttempts - 1 =>
            [call[c] EXCEPT !.at = "backoff", !.attempt = a] \in CallState
      BY <1>1 DEF CallState, Places
    <3>4. QED
      BY <3>2, <3>3 DEF a
  <2>2. /\ r.at = "backoff" /\ r.cancelled = call[c].cancelled
        /\ r.attempt = call[c].attempt + 1 /\ r.repair = call[c].repair
        /\ r.calls = call[c].calls /\ r.late = call[c].late
    BY <1>1 DEF CallState
  <2>3. /\ call[c].at = "calling" /\ call[c].attempt \in 0 .. MaxAttempts - 1
        /\ call[c].calls \in Nat /\ call[c].repair \in {0, 1}
    BY <1>1, <1>4 DEF RateLimited, RateLimitedUpTo, At, CallState
  <2> HIDE DEF r
  <2>4. CallOK(r)
    BY <1>1, <2>2, <2>3, AttemptsAssumption DEF CallOK, Vetted, Unsent, Paid
  <2>5. QED
    BY <1>4, <2>1, <2>4, FreshIsOK DEF r, RateLimited, RateLimitedUpTo, Fail, Become, Moves
<1>5. CASE BackoffOver(c)
  <2> DEFINE r == [call[c] EXCEPT !.at = "generate"]
  <2>1. r \in CallState /\ CallOK(r)
    BY <1>1, <1>5 DEF BackoffOver, At, CallState, Places, CallOK, Vetted, Unsent, Paid
  <2>2. QED
    BY <1>5, <2>1 DEF BackoffOver, Goto, Become, Moves
<1>6. CASE CallFails(c) \/ CallAborted(c) \/ BackoffCancelled(c)
  BY <1>6, FreshIsOK DEF CallFails, CallAborted, BackoffCancelled, Fail, Become, Moves
<1>7. QED
  BY <1>2, <1>3, <1>4, <1>5, <1>6 DEF Respond

\* Every step of a caller that has its answer.
LEMMA AnsweredMoves ==
    ASSUME TypeOK, CallsOK, NEW c \in Callers,
           \/ CacheGivesUp(c) \/ CacheOpen(c) \/ CacheSync(c) \/ CacheRename(c)
           \/ RecordSkipped(c) \/ RecordRefused(c) \/ RecordOpen(c)
           \/ RecordWritten(c) \/ RecordBroken(c) \/ Serve(c)
    PROVE  Moves(c)
<1>1. call[c] \in CallState /\ CallOK(call[c])
  BY DEF TypeOK, CallsOK
<1>2. CASE CacheGivesUp(c)
  <2> DEFINE r == [call[c] EXCEPT !.at = "record", !.tmp = "absent"]
  <2>1. r \in CallState /\ CallOK(r)
    BY <1>1, <1>2 DEF CacheGivesUp, CacheFile, CallState, Places, CallOK, Vetted, Unsent, Paid
  <2>2. QED
    BY <1>2, <2>1 DEF CacheGivesUp, Become, Moves
<1>3. CASE CacheOpen(c)
  <2> DEFINE r == [call[c] EXCEPT !.at = "cacheSync", !.tmp = "empty"]
  <2>1. r \in CallState /\ CallOK(r)
    BY <1>1, <1>3 DEF CacheOpen, At, CacheFile, Bytes, CallState, Places, CallOK, Vetted, Unsent, Paid
  <2>2. QED
    BY <1>3, <2>1 DEF CacheOpen, Become, Moves
<1>4. CASE CacheSync(c)
  <2> DEFINE r == [call[c] EXCEPT !.at = "cacheRename", !.tmp = call[c].reply]
  <2>1. r \in CallState /\ CallOK(r)
    BY <1>1, <1>4 DEF CacheSync, At, CacheFile, Bytes, CallState, Places, CallOK, Vetted, Unsent, Paid
  <2>2. QED
    BY <1>4, <2>1 DEF CacheSync, Become, Moves
<1>5. CASE CacheRename(c)
  <2> DEFINE r == [call[c] EXCEPT !.at = "record", !.tmp = "absent"]
  <2>1. r \in CallState /\ CallOK(r)
    BY <1>1, <1>5 DEF CacheRename, At, CacheFile, CallState, Places, CallOK, Vetted, Unsent, Paid
  <2>2. QED
    BY <1>5, <2>1 DEF CacheRename, Moves
<1>6. CASE RecordSkipped(c) \/ RecordWritten(c)
  <2> DEFINE r == [call[c] EXCEPT !.at = "served"]
  <2>1. r \in CallState /\ CallOK(r)
    BY <1>1, <1>6 DEF RecordSkipped, RecordWritten, RecordAs, At, CallState, Places, CallOK,
       Vetted, Unsent, Paid
  <2>2. QED
    BY <1>6, <2>1 DEF RecordSkipped, RecordWritten, RecordAs, Goto, Become, Moves
<1>7. CASE RecordOpen(c)
  <2> DEFINE r == [call[c] EXCEPT !.at = "recording"]
  <2>1. r \in CallState /\ CallOK(r)
    BY <1>1, <1>7 DEF RecordOpen, At, CallState, Places, CallOK, Vetted, Unsent, Paid
  <2>2. call' = [call EXCEPT ![c] = r]
    BY <1>7 DEF RecordOpen
  <2>3. QED
    BY <2>1, <2>2 DEF Moves
<1>8. CASE RecordRefused(c) \/ RecordBroken(c)
  BY <1>8, FreshIsOK DEF RecordRefused, RecordBroken, RecordAs, Fail, Become, Moves
<1>9. CASE Serve(c)
  BY <1>9, FreshIsOK DEF Serve, ServeAs, Valid, Fail, Become, Moves
<1>10. QED
  BY <1>2, <1>3, <1>4, <1>5, <1>6, <1>7, <1>8, <1>9

\* A step of any kind leaves every call a good one.
LEMMA CallsStep ==
    ASSUME TypeOK, CallsOK, [Next]_vars
    PROVE  call' \in [Callers -> CallState] /\ CallsOK'
<1>1. call \in [Callers -> CallState]
  BY DEF TypeOK
<1>2. ASSUME NEW c \in Callers, Moves(c)
      PROVE  call' \in [Callers -> CallState] /\ CallsOK'
  BY <1>1, <1>2 DEF Moves, CallsOK
<1>3. CASE Crash
  BY <1>3, FreshIsOK DEF Crash, CallsOK
<1>4. CASE UNCHANGED vars
  BY <1>1, <1>4 DEF vars, CallsOK
<1>5. ASSUME NEW c \in Callers, Begin(c) \/ Cancel(c) \/ Respond(c) \/ Local(c)
      PROVE  Moves(c)
  BY <1>5, AskingMoves, CallingMoves, AnsweredMoves DEF Local
<1>6. QED
  BY <1>2, <1>3, <1>4, <1>5 DEF Next

---------------------------------------------------------------------------
(***************************************************************************)
(* The stores on disk.                                                     *)
(***************************************************************************)

\* A cache file is only ever replaced by an answer.
LEMMA CacheStep ==
    ASSUME TypeOK, CallsOK, [Next]_vars
    PROVE  \/ UNCHANGED cache
           \/ \E k \in Keys, doc \in Docs : cache' = [cache EXCEPT ![k] = doc]
<1>1. CASE \E c \in Callers : CacheRename(c)
  <2>1. PICK c \in Callers : CacheRename(c)
    BY <1>1
  <2>2. key[c] \in Keys /\ CallOK(call[c]) /\ call[c].at = "cacheRename"
    BY <2>1 DEF CacheRename, At, TypeOK, CallsOK
  <2>3. call[c].tmp \in Docs
    BY <2>2 DEF CallOK, Vetted
  <2>4. QED
    BY <2>1, <2>2, <2>3 DEF CacheRename
<1>2. CASE ~\E c \in Callers : CacheRename(c)
  <2>1. ASSUME NEW c \in Callers, Begin(c) \/ Cancel(c) \/ Respond(c) \/ Local(c)
        PROVE  UNCHANGED cache
    BY <1>2, <2>1 DEF Begin, Cancel, Respond, Local, Answer, AnswerInvalid, RateLimited,
       RateLimitedUpTo, CallFails, FixtureHit, FixtureMiss, Serve, ServeAs, CacheHit, CacheMiss,
       Wait, Granted, QueueCancelled, CallAborted, BackoffOver, BackoffCancelled, CacheGivesUp,
       CacheOpen, CacheSync, RecordSkipped, RecordRefused, RecordOpen, RecordWritten, RecordAs,
       RecordBroken, Goto, Fail, Become, disk
  <2>2. Crash \/ UNCHANGED vars => UNCHANGED cache
    BY DEF Crash, vars, disk
  <2>3. QED
    BY <2>1, <2>2 DEF Next
<1>3. QED
  BY <1>1, <1>2

\* What else a step may change, and to what.
LEMMA RestTyped ==
    ASSUME TypeOK, CallsOK, [Next]_vars
    PROVE  /\ UNCHANGED config
           /\ fixture' \in [Keys -> FixtureFile]
           /\ recorded' \subseteq Keys /\ clashed' \subseteq Keys
           /\ completes' \in 0 .. MaxCompletes /\ crashes' \in 0 .. MaxCrashes
<1> DEFINE Typed == /\ UNCHANGED config
                    /\ fixture' \in [Keys -> FixtureFile]
                    /\ recorded' \subseteq Keys /\ clashed' \subseteq Keys
                    /\ completes' \in 0 .. MaxCompletes /\ crashes' \in 0 .. MaxCrashes
<1>1. CASE UNCHANGED <<config, fixture, history, bounds>>
  BY <1>1 DEF TypeOK, config, history, bounds
<1>2. CASE Crash
  BY <1>2, BoundsAssumption DEF Crash, TypeOK, config, disk, history
<1>3. CASE UNCHANGED vars
  BY <1>3 DEF vars, TypeOK, config
<1>4. ASSUME NEW c \in Callers, Begin(c)
      PROVE  Typed
  BY <1>4, BoundsAssumption DEF Begin, TypeOK, config, disk, history
<1>5. ASSUME NEW c \in Callers, Serve(c)
      PROVE  Typed
  BY <1>1, <1>5 DEF Serve, ServeAs, Fail, Become, TypeOK, config, disk, history, bounds
<1>6. ASSUME NEW c \in Callers, RecordOpen(c)
      PROVE  Typed
  BY <1>6 DEF RecordOpen, TypeOK, FixtureFile, Bytes, config, bounds
<1>7. ASSUME NEW c \in Callers, NEW b \in Docs \cup {"garbled"}, NEW r, RecordAs(c, b, r)
      PROVE  Typed
  BY <1>7 DEF RecordAs, TypeOK, FixtureFile, Bytes, config, history, bounds
<1>8. ASSUME NEW c \in Callers, RecordWritten(c) \/ RecordBroken(c)
      PROVE  Typed
  <2>1. call[c].at = "recording" => call[c].reply \in Docs
    BY DEF CallsOK, CallOK, Vetted
  <2>2. QED
    BY <1>7, <1>8, <2>1 DEF RecordWritten, RecordBroken, RecordAs, At
<1>9. ASSUME NEW c \in Callers, Cancel(c) \/ Respond(c) \/ Local(c),
             ~Serve(c), ~RecordOpen(c), ~RecordWritten(c), ~RecordBroken(c)
      PROVE  UNCHANGED <<config, fixture, history, bounds>>
  BY <1>9 DEF Cancel, Respond, Local, Answer, AnswerInvalid, RateLimited,
     RateLimitedUpTo, CallFails, FixtureHit, FixtureMiss, CacheHit, CacheMiss,
     Wait, Granted, QueueCancelled, CallAborted, BackoffOver, BackoffCancelled, CacheGivesUp,
     CacheOpen, CacheSync, CacheRename, RecordSkipped, RecordRefused, Goto, Fail, Become, disk
<1>10. QED
  BY <1>1, <1>2, <1>3, <1>4, <1>5, <1>6, <1>8, <1>9 DEF Next

\* A step keeps every variable in its type.
LEMMA TypeStep == TypeOK /\ CallsOK /\ [Next]_vars => TypeOK' /\ CallsOK'
<1> SUFFICES ASSUME TypeOK, CallsOK, [Next]_vars
             PROVE  TypeOK' /\ CallsOK'
  OBVIOUS
<1>1. call' \in [Callers -> CallState] /\ CallsOK'
  BY CallsStep
<1>2. cache' \in [Keys -> CacheFile]
  BY CacheStep DEF TypeOK, CacheFile, Bytes
<1>3. mode' \in Modes /\ key' \in [Callers -> Keys]
  BY RestTyped DEF TypeOK, config
<1>4. QED
  BY <1>1, <1>2, <1>3, RestTyped DEF TypeOK

\* Initially nobody has called.
LEMMA TypeStart == Init => TypeOK /\ CallsOK
<1> SUFFICES ASSUME Init PROVE TypeOK /\ CallsOK
  OBVIOUS
<1>1. call \in [Callers -> CallState] /\ CallsOK
  BY FreshIsOK DEF Init, CallsOK
<1>2. cache \in [Keys -> CacheFile] /\ fixture \in [Keys -> FixtureFile]
  BY DEF Init, CacheFile, FixtureFile, Bytes
<1>3. QED
  BY <1>1, <1>2, BoundsAssumption DEF Init, TypeOK

\* The provider stack's type invariant, and that every call is a good one.
THEOREM ProviderTypeOK == Spec => [](TypeOK /\ CallsOK)
BY TypeStart, TypeStep, PTL DEF Spec

\* Whatever is on disk and whatever the model answers, only bytes that satisfy the schema
\* are passed on (gemini.go:66-68, 194-199, stage.go:24-25).
THEOREM OnlyValidIsPassedOn == Spec => []OnlyValidPassedOn
<1>1. TypeOK /\ CallsOK => OnlyValidPassedOn
  BY DEF CallsOK, CallOK, Vetted, OnlyValidPassedOn, Valid
<1>2. QED
  BY <1>1, ProviderTypeOK, PTL

\* Retries and repairs do not multiply: two generations of MaxAttempts calls at most.
THEOREM CallsAreBounded == Spec => []CallsBounded
<1>1. TypeOK /\ CallsOK => CallsBounded
  <2> SUFFICES ASSUME TypeOK, CallsOK, NEW c \in Callers
               PROVE  call[c].calls <= 2 * MaxAttempts
    BY DEF CallsBounded
  <2>1. /\ call[c].calls \in Nat /\ call[c].attempt \in 0 .. MaxAttempts - 1
        /\ call[c].calls <= Paid(call[c])
    BY DEF TypeOK, CallState, CallsOK, CallOK
  <2>2. QED
    BY <2>1, AttemptsAssumption DEF Paid
<1>2. QED
  BY <1>1, ProviderTypeOK, PTL

\* One call at most starts after the context is done.
THEOREM OneCallIsLate == Spec => []OneCallAfterCancel
<1>1. TypeOK /\ CallsOK => OneCallAfterCancel
  BY DEF CallsOK, CallOK, OneCallAfterCancel
<1>2. QED
  BY <1>1, ProviderTypeOK, PTL

\* No step, a crash included, damages the cache (gemini.go:214-218).
THEOREM CacheIsNeverDamaged == Spec => CacheNeverDamaged
<1>1. TypeOK /\ CallsOK /\ [Next]_vars => [\A k \in Keys : cache'[k] # cache[k] => Valid(cache'[k])]_vars
  <2> SUFFICES ASSUME TypeOK, CallsOK, [Next]_vars, NEW k \in Keys, cache'[k] # cache[k]
               PROVE  cache'[k] \in Docs
    BY DEF Valid
  <2>1. QED
    BY CacheStep DEF TypeOK
<1>2. QED
  BY <1>1, ProviderTypeOK, PTL DEF Spec, CacheNeverDamaged

---------------------------------------------------------------------------
(***************************************************************************)
(* Recording.                                                              *)
(***************************************************************************)

\* A caller of k that has its answer in hand and recorded.
Holds(c, k) == key[c] = k /\ call[c].at = "served" /\ Valid(call[c].reply)
Records(c, k) == key[c] = k /\ call[c].at = "recording"

\* As long as no two recordings of k clashed, a caller that records it does so alone,
\* into an empty file that nobody counts on, and whoever holds or has recorded it can
\* count on the file.
Replays(k) ==
    /\ \A c \in Callers : Records(c, k) =>
          /\ fixture[k] = "empty" /\ k \notin recorded
          /\ \A d \in Callers \ {c} : ~Records(d, k) /\ ~Holds(d, k)
    /\ \A c \in Callers : Recording /\ Holds(c, k) => Valid(fixture[k])
    /\ k \in recorded => Valid(fixture[k])

RecordInv ==
    /\ \A c \in Callers : call[c].at = "recording" => Recording
    /\ \A k \in Keys \ clashed : Replays(k)

Inv == TypeOK /\ CallsOK /\ RecordInv

\* An empty file is not an answer.
LEMMA EmptyIsInvalid == ~Valid("empty") /\ ~Valid("none")
BY DocsAssumption DEF Valid

\* A step that leaves the fixtures alone, and by which nobody comes to record, or to
\* hold an answer that the fixture does not have.
LEMMA RecordAside ==
    ASSUME Inv, NEW c \in Callers, NEW r, call' = [call EXCEPT ![c] = r],
           UNCHANGED <<mode, key, fixture, recorded, clashed>>,
           r.at = "recording" => call[c].at = "recording",
           r.at = "served" /\ Valid(r.reply) /\ Recording /\ key[c] \notin clashed
               => Valid(fixture[key[c]])
    PROVE  RecordInv'
<1>1. call \in [Callers -> CallState] /\ key[c] \in Keys
  BY DEF Inv, TypeOK
<1>2. call'[c] = r /\ \A d \in Callers \ {c} : call'[d] = call[d]
  BY <1>1
<1>3. Recording' = Recording
  BY DEF Recording
<1>4. \A d \in Callers : \A k : Records(d, k)' => Records(d, k)
  BY <1>2 DEF Records
<1>5. \A d \in Callers \ {c} : \A k : Holds(d, k)' <=> Holds(d, k)
  BY <1>2 DEF Holds
<1>6. \A d \in Callers : call'[d].at = "recording" => Recording
  BY <1>2 DEF Inv, RecordInv
<1>7. ASSUME NEW k \in Keys \ clashed
      PROVE  Replays(k)'
  <2>1. Replays(k)
    BY DEF Inv, RecordInv
  <2>2. Recording /\ Holds(c, k)' => Valid(fixture[k])
    BY <1>2, <1>7 DEF Holds
  <2>3. ASSUME NEW d \in Callers, Records(d, k)'
        PROVE  /\ fixture[k] = "empty" /\ k \notin recorded
               /\ \A e \in Callers \ {d} : ~Records(e, k)' /\ ~Holds(e, k)'
    <3>1. Records(d, k) /\ Recording
      BY <1>4, <2>3 DEF Records, Inv, RecordInv
    <3>2. /\ fixture[k] = "empty" /\ k \notin recorded
          /\ \A e \in Callers \ {d} : ~Records(e, k) /\ ~Holds(e, k)
      BY <2>1, <3>1 DEF Replays
    <3>3. ~Holds(c, k)'
      BY <2>2, <3>1, <3>2, EmptyIsInvalid
    <3>4. QED
      BY <1>4, <1>5, <3>2, <3>3
  <2>4. ASSUME NEW d \in Callers, Recording, Holds(d, k)'
        PROVE  Valid(fixture[k])
    BY <1>5, <2>1, <2>2, <2>4 DEF Replays
  <2>5. QED
    BY <1>3, <2>1, <2>3, <2>4 DEF Replays, Valid
<1>8. QED
  BY <1>3, <1>6, <1>7 DEF RecordInv

\* Opening a fixture that nobody else records, holds or has recorded empties it.
LEMMA RecordOpens ==
    ASSUME Inv, NEW c \in Callers, RecordOpen(c)
    PROVE  RecordInv'
<1> DEFINE k == key[c]
<1>1. /\ Recording /\ call[c].at = "record"
      /\ fixture' = [fixture EXCEPT ![k] = "empty"]
      /\ call' = [call EXCEPT ![c] = [@ EXCEPT !.at = "recording"]]
      /\ clashed' = IF Contended(c) THEN clashed \cup {k} ELSE clashed
      /\ UNCHANGED <<mode, key, recorded>>
  BY DEF RecordOpen, At, config
<1>2. k \in Keys /\ call \in [Callers -> CallState] /\ fixture \in [Keys -> FixtureFile]
  BY DEF Inv, TypeOK
<1>3. call'[c].at = "recording" /\ \A d \in Callers \ {c} : call'[d] = call[d]
  <2>1. call[c] \in CallState
    BY <1>2
  <2>2. [call[c] EXCEPT !.at = "recording"].at = "recording"
    BY <2>1 DEF CallState
  <2>3. QED
    BY <1>1, <1>2, <2>2
<1>4. Recording'
  BY <1>1 DEF Recording
<1>5. \A d \in Callers \ {c} : \A j : (Records(d, j)' <=> Records(d, j)) /\ (Holds(d, j)' <=> Holds(d, j))
  BY <1>1, <1>3 DEF Records, Holds
<1>6. \A j : ~Holds(c, j)' /\ (Records(c, j)' => j = k)
  BY <1>1, <1>3 DEF Records, Holds
<1>7. ASSUME NEW j \in Keys \ clashed'
      PROVE  Replays(j)'
  <2>1. j \notin clashed /\ Replays(j)
    BY <1>1, <1>7 DEF Inv, RecordInv
  <2>2. CASE j = k
    <3>1. ~Contended(c)
      BY <1>1, <1>7, <2>2
    <3>2. k \notin recorded /\ \A d \in Callers \ {c} : ~Records(d, k) /\ ~Holds(d, k)
      BY <3>1 DEF Contended, Records, Holds
    <3>3. fixture'[k] = "empty" /\ k \notin recorded'
      BY <1>1, <1>2, <3>2
    <3>4. \A d \in Callers : ~Holds(d, k)' /\ (Records(d, k)' => d = c)
      BY <1>1, <1>5, <1>6, <3>2
    <3>5. QED
      BY <1>1, <2>2, <3>3, <3>4 DEF Replays
  <2>3. CASE j # k
    <3>1. fixture'[j] = fixture[j] /\ recorded' = recorded
      BY <1>1, <1>2, <2>3
    <3>2. \A d \in Callers : (Records(d, j)' <=> Records(d, j)) /\ (Holds(d, j)' => Holds(d, j))
      BY <1>1, <1>5, <1>6, <2>3 DEF Records
    <3>3. QED
      BY <1>1, <2>1, <3>1, <3>2 DEF Replays, Valid
  <2>4. QED
    BY <2>2, <2>3
<1>8. \A d \in Callers : call'[d].at = "recording" => Recording'
  BY <1>4
<1>9. QED
  BY <1>7, <1>8 DEF RecordInv

\* A recording ends with the answer in the file, or with nobody who counts on the file.
LEMMA RecordEnds ==
    ASSUME Inv, NEW c \in Callers, RecordWritten(c) \/ RecordBroken(c)
    PROVE  RecordInv'
<1> DEFINE k == key[c]
<1>1. k \in Keys /\ call \in [Callers -> CallState] /\ fixture \in [Keys -> FixtureFile]
  BY DEF Inv, TypeOK
<1>2. PICK b, r :
        /\ call[c].at = "recording"
        /\ fixture' = [fixture EXCEPT ![k] = b]
        /\ call' = [call EXCEPT ![c] = r]
        /\ UNCHANGED <<mode, key, recorded, clashed>>
        /\ \/ r = [call[c] EXCEPT !.at = "served"] /\ (fixture[k] = "empty" => b = call[c].reply)
           \/ r = [Fresh EXCEPT !.at = "failed"]
  BY DEF RecordWritten, RecordBroken, RecordAs, At, config, history
<1>3. /\ r.at \in {"served", "failed"}
      /\ r.at = "served" /\ fixture[k] = "empty" => Valid(b)
  <2>1. call[c] \in CallState /\ Valid(call[c].reply)
    BY <1>1, <1>2 DEF Inv, CallsOK, CallOK, Vetted, Valid
  <2>2. [call[c] EXCEPT !.at = "served"].at = "served"
    BY <2>1 DEF CallState
  <2>3. [Fresh EXCEPT !.at = "failed"].at = "failed"
    BY FreshIsOK DEF CallState
  <2>4. QED
    BY <1>2, <2>1, <2>2, <2>3
<1>4. call'[c] = r /\ \A d \in Callers \ {c} : call'[d] = call[d]
  BY <1>1, <1>2
<1>5. Recording' = Recording
  BY <1>2 DEF Recording
<1>6. \A d \in Callers \ {c} : \A j : (Records(d, j)' <=> Records(d, j)) /\ (Holds(d, j)' <=> Holds(d, j))
  BY <1>2, <1>4 DEF Records, Holds
<1>7. \A j : ~Records(c, j)' /\ (Holds(c, j)' => j = k /\ r.at = "served")
  BY <1>2, <1>3, <1>4 DEF Records, Holds
<1>8. ASSUME NEW j \in Keys \ clashed
      PROVE  Replays(j)'
  <2>1. Replays(j)
    BY DEF Inv, RecordInv
  <2>2. CASE j = k
    <3>1. /\ fixture[k] = "empty" /\ k \notin recorded
          /\ \A d \in Callers \ {c} : ~Records(d, k) /\ ~Holds(d, k)
      BY <1>2, <2>1, <2>2 DEF Replays, Records
    <3>2. fixture'[k] = b
      BY <1>1, <1>2
    <3>3. \A d \in Callers : ~Records(d, k)' /\ (Holds(d, k)' => Valid(fixture'[k]))
      BY <1>2, <1>3, <1>6, <1>7, <3>1, <3>2
    <3>4. QED
      BY <1>2, <2>2, <3>1, <3>3 DEF Replays, Valid
  <2>3. CASE j # k
    <3>1. fixture'[j] = fixture[j] /\ recorded' = recorded
      BY <1>1, <1>2, <2>3
    <3>2. \A d \in Callers : (Records(d, j)' => Records(d, j)) /\ (Holds(d, j)' => Holds(d, j))
      BY <1>6, <1>7, <2>3
    <3>3. QED
      BY <1>5, <2>1, <3>1, <3>2 DEF Replays, Valid
  <2>4. QED
    BY <2>2, <2>3
<1>9. \A d \in Callers : call'[d].at = "recording" => Recording'
  BY <1>3, <1>4, <1>5 DEF Inv, RecordInv
<1>10. QED
  BY <1>2, <1>8, <1>9 DEF RecordInv

\* A stage that got its answer can count on the fixture from then on.
LEMMA RecordCounts ==
    ASSUME Inv, NEW c \in Callers, ServeAs(c, "done"), Valid(call[c].reply), At(c, "served")
    PROVE  RecordInv'
<1> DEFINE k == key[c]
           r == [Fresh EXCEPT !.at = "done", !.reply = call[c].reply]
<1>1. k \in Keys /\ call \in [Callers -> CallState]
  BY DEF Inv, TypeOK
<1>2. /\ call' = [call EXCEPT ![c] = r]
      /\ recorded' = IF Recording THEN recorded \cup {k} ELSE recorded
      /\ UNCHANGED <<mode, key, fixture, clashed>>
  BY DEF ServeAs, config, disk
<1>3. r.at = "done"
  BY FreshIsOK DEF Valid, CallState
<1> HIDE DEF r
<1>4. call'[c] = r /\ \A d \in Callers \ {c} : call'[d] = call[d]
  BY <1>1, <1>2
<1>5. Recording' = Recording
  BY <1>2 DEF Recording
<1>6. \A d \in Callers : \A j : (Records(d, j)' => Records(d, j)) /\ (Holds(d, j)' => Holds(d, j))
  BY <1>2, <1>3, <1>4 DEF Records, Holds
<1>7. Holds(c, k)
  BY DEF Holds, At
<1>8. ASSUME NEW j \in Keys \ clashed
      PROVE  Replays(j)'
  <2>1. Replays(j)
    BY DEF Inv, RecordInv
  <2>2. j \in recorded' /\ j \notin recorded => j = k /\ Recording
    BY <1>2
  <2>3. j \in recorded' => Valid(fixture[j])
    BY <1>7, <2>1, <2>2 DEF Replays
  <2>4. \A d \in Callers : Records(d, j) /\ j = k => FALSE
    <3> SUFFICES ASSUME NEW d \in Callers, Records(d, k), j = k PROVE FALSE
      OBVIOUS
    <3>1. d # c
      BY DEF Records, At
    <3>2. QED
      BY <1>7, <2>1, <3>1 DEF Replays
  <2>5. QED
    BY <1>2, <1>5, <1>6, <2>1, <2>2, <2>3, <2>4 DEF Replays, Valid
<1>9. \A d \in Callers : call'[d].at = "recording" => Recording'
  BY <1>3, <1>4, <1>5 DEF Inv, RecordInv
<1>10. QED
  BY <1>2, <1>8, <1>9 DEF RecordInv

\* Every step keeps unclashed recordings.
LEMMA RecordStep == Inv /\ [Next]_vars => RecordInv'
<1> SUFFICES ASSUME Inv, [Next]_vars PROVE RecordInv'
  OBVIOUS
<1>1. CASE UNCHANGED vars
  BY <1>1 DEF vars, Inv, RecordInv, Replays, Records, Holds, Recording, Valid
<1>2. CASE Crash
  <2>1. \A c \in Callers : call'[c] = Fresh /\ Fresh.at = "idle"
    BY <1>2 DEF Crash, Fresh
  <2>2. \A c \in Callers : \A k : ~Records(c, k)' /\ ~Holds(c, k)'
    BY <2>1 DEF Records, Holds
  <2>3. UNCHANGED <<fixture, recorded, clashed>>
    BY <1>2 DEF Crash, disk, history
  <2>4. QED
    BY <2>1, <2>2, <2>3 DEF Inv, RecordInv, Replays, Valid
<1>3. ASSUME NEW c \in Callers, Begin(c) \/ Cancel(c) \/ Respond(c) \/ Local(c)
      PROVE  RecordInv'
  <2>1. call[c] \in CallState /\ Fresh \in CallState
    BY FreshIsOK DEF Inv, TypeOK
  <2>2. CASE RecordOpen(c)
    BY <2>2, RecordOpens
  <2>3. CASE RecordWritten(c) \/ RecordBroken(c)
    BY <2>3, RecordEnds
  <2>4. CASE At(c, "served") /\ Valid(call[c].reply) /\ ServeAs(c, "done")
    BY <2>4, RecordCounts
  <2>5. ASSUME ~RecordOpen(c), ~(RecordWritten(c) \/ RecordBroken(c)),
               ~(At(c, "served") /\ Valid(call[c].reply) /\ ServeAs(c, "done"))
        PROVE  \E r : /\ call' = [call EXCEPT ![c] = r]
                      /\ UNCHANGED <<mode, key, fixture, recorded, clashed>>
                      /\ r.at = "recording" => call[c].at = "recording"
                      /\ r.at = "served" /\ Valid(r.reply) /\ Recording /\ key[c] \notin clashed
                             => Valid(fixture[key[c]])
    <3> DEFINE Aside == \E r : /\ call' = [call EXCEPT ![c] = r]
                               /\ UNCHANGED <<mode, key, fixture, recorded, clashed>>
                               /\ r.at \notin {"recording", "served"}
    <3>1. \A place : [call[c] EXCEPT !.at = place].at = place
      BY <2>1 DEF CallState
    <3>2. ASSUME NEW place \in Places \ {"recording", "served"}, Goto(c, place)
          PROVE  Aside
      BY <3>1, <3>2 DEF Goto, Become, config, disk, history
    <3>3. ASSUME Fail(c)
          PROVE  Aside
      <4>1. [Fresh EXCEPT !.at = "failed"].at = "failed"
        BY <2>1 DEF CallState
      <4>2. QED
        BY <3>3, <4>1 DEF Fail, Become, config, disk, history
    <3>4. CASE Begin(c)
      <4>1. \A place : [Fresh EXCEPT !.at = place].at = place
        BY <2>1 DEF CallState
      <4>2. QED
        BY <3>4, <4>1 DEF Begin, config, disk, history
    <3>5. CASE Cancel(c)
      <4> DEFINE r == [call[c] EXCEPT !.cancelled = TRUE]
      <4>1. r.at = call[c].at /\ r.reply = call[c].reply
        BY <2>1 DEF CallState
      <4>2. Recording /\ Holds(c, key[c]) /\ key[c] \notin clashed => Valid(fixture[key[c]])
        BY DEF Inv, TypeOK, RecordInv, Replays
      <4>3. QED
        BY <3>5, <4>1, <4>2 DEF Holds, Cancel, Become, config, disk, history
    <3>6. CASE Respond(c)
      <4>1. CASE CallFails(c)
        BY <3>3, <4>1 DEF CallFails
      <4>2. CASE AnswerInvalid(c)
        <5>1. [call[c] EXCEPT !.at = "generate", !.repair = 1, !.attempt = 0].at = "generate"
          BY <2>1 DEF CallState
        <5>2. QED
          BY <3>3, <4>2, <5>1 DEF AnswerInvalid, Become, config, disk, history
      <4>3. CASE RateLimited(c)
        <5>1. [call[c] EXCEPT !.at = "backoff", !.attempt = @ + 1].at = "backoff"
          BY <2>1 DEF CallState
        <5>2. QED
          BY <3>3, <4>3, <5>1 DEF RateLimited, RateLimitedUpTo, Become, config, disk, history
      <4>4. CASE \E d \in Docs : Answer(c, d)
        <5>1. \A d : [call[c] EXCEPT !.at = "cacheWrite", !.reply = d].at = "cacheWrite"
          BY <2>1 DEF CallState
        <5>2. QED
          BY <4>4, <5>1 DEF Answer, Become, config, disk, history
      <4>5. QED
        BY <3>6, <4>1, <4>2, <4>3, <4>4 DEF Respond
    <3>7. CASE FixtureHit(c)
      <4> DEFINE r == [call[c] EXCEPT !.at = "served", !.reply = fixture[key[c]]]
      <4>1. r.at = "served" /\ r.reply = fixture[key[c]]
        BY <2>1 DEF CallState
      <4>2. QED
        BY <3>7, <4>1 DEF FixtureHit, Become, config, disk, history
    <3>8. CASE RecordSkipped(c)
      BY <3>1, <3>8 DEF RecordSkipped, Goto, Become, config, disk, history
    <3>9. CASE FixtureMiss(c) \/ CacheMiss(c) \/ Wait(c) \/ BackoffOver(c)
      BY <3>2, <3>3, <3>9 DEF FixtureMiss, CacheMiss, Wait, BackoffOver, Places
    <3>10. CASE QueueCancelled(c) \/ CallAborted(c) \/ BackoffCancelled(c) \/ RecordRefused(c) \/ Serve(c)
      BY <2>5, <3>3, <3>10 DEF QueueCancelled, CallAborted, BackoffCancelled, RecordRefused, Serve
    <3>11. CASE CacheHit(c) \/ CacheGivesUp(c) \/ CacheRename(c)
      <4>1. /\ [call[c] EXCEPT !.at = "record", !.reply = cache[key[c]]].at = "record"
            /\ [call[c] EXCEPT !.at = "record", !.tmp = "absent"].at = "record"
        BY <2>1 DEF CallState
      <4>2. QED
        BY <3>11, <4>1 DEF CacheHit, CacheGivesUp, CacheRename, Become, config, disk, history
    <3>12. CASE CacheOpen(c) \/ CacheSync(c)
      <4>1. /\ [call[c] EXCEPT !.at = "cacheSync", !.tmp = "empty"].at = "cacheSync"
            /\ [call[c] EXCEPT !.at = "cacheRename", !.tmp = call[c].reply].at = "cacheRename"
        BY <2>1 DEF CallState
      <4>2. QED
        BY <3>12, <4>1 DEF CacheOpen, CacheSync, Become, config, disk, history
    <3>13. CASE Granted(c)
      <4> DEFINE late == IF call[c].cancelled THEN call[c].late + 1 ELSE call[c].late
                 r == [call[c] EXCEPT !.at = "calling", !.calls = @ + 1, !.late = late]
      <4>1. call' = [call EXCEPT ![c] = r] /\ UNCHANGED <<mode, key, fixture, recorded, clashed>>
        BY <3>13 DEF Granted, Become, config, disk, history
      <4> HIDE DEF late
      <4>2. r.at = "calling"
        BY <2>1 DEF CallState
      <4> HIDE DEF r
      <4>3. QED
        BY <4>1, <4>2
    <3>14. QED
      BY <1>3, <2>5, <3>4, <3>5, <3>6, <3>7, <3>8, <3>9, <3>10, <3>11, <3>12, <3>13 DEF Local
  <2>6. QED
    BY <2>2, <2>3, <2>4, <2>5, RecordAside
<1>4. QED
  BY <1>1, <1>2, <1>3 DEF Next

\* Nobody has recorded anything.
LEMMA RecordStart == Init => RecordInv
BY DEF Init, RecordInv, Replays, Records, Holds, Fresh

\* An undisturbed recording replays (fixture.go's Record), through crashes and failures.
THEOREM RecordingsReplay == Spec => []RecordedUnlessClash
<1>1. Inv => RecordedUnlessClash
  BY DEF Inv, TypeOK, RecordInv, Replays, RecordedUnlessClash
<1>2. Spec => []Inv
  BY TypeStart, TypeStep, RecordStart, RecordStep, PTL DEF Spec, Inv
<1>3. QED
  BY <1>1, <1>2, PTL

---------------------------------------------------------------------------
(***************************************************************************)
(* The end of a call.                                                      *)
(***************************************************************************)

\* The attempts that a call can still make after the one it is at.
AttemptsLeft(r) == (IF r.repair = 0 THEN MaxAttempts ELSE 0) + (MaxAttempts - 1 - r.attempt)

\* The most steps that a call can still take: four for each attempt.
Distance(r) ==
    CASE r.at \in Ended -> 0
      [] r.at = "served" -> 1
      [] r.at = "recording" -> 2
      [] r.at = "record" -> 3
      [] r.at = "cacheRename" -> 4
      [] r.at = "cacheSync" -> 5
      [] r.at = "cacheWrite" -> 6
      [] r.at = "calling" -> 7 + 4 * AttemptsLeft(r)
      [] r.at = "queued" -> 8 + 4 * AttemptsLeft(r)
      [] r.at = "generate" -> 9 + 4 * AttemptsLeft(r)
      [] r.at = "backoff" -> 10 + 4 * AttemptsLeft(r)
      [] r.at = "cacheLookup" -> 6 + 8 * MaxAttempts
      [] r.at = "lookup" -> 7 + 8 * MaxAttempts

\* A call can be cancelled once.
StepsLeft(r) == Distance(r) + (IF r.at \in Ended \/ r.cancelled THEN 0 ELSE 1)

\* Each step of a call brings its end nearer, and so does a crash.
EveryStepCounts ==
    [][\A c \in Callers :
          Running(c) /\ call'[c] # call[c] => StepsLeft(call'[c]) < StepsLeft(call[c])]_vars

\* Where a call can go without another count of attempts.
Arrows ==
    {<<"lookup", "served">>, <<"lookup", "cacheLookup">>, <<"cacheLookup", "record">>,
     <<"cacheLookup", "generate">>, <<"generate", "queued">>, <<"queued", "calling">>,
     <<"backoff", "generate">>, <<"calling", "cacheWrite">>, <<"cacheWrite", "cacheSync">>,
     <<"cacheSync", "cacheRename">>, <<"cacheWrite", "record">>, <<"cacheSync", "record">>,
     <<"cacheRename", "record">>, <<"record", "served">>, <<"record", "recording">>,
     <<"recording", "served">>}

\* What is left is a number, and nothing is left at the end only.
LEMMA StepsAreCounted ==
    ASSUME NEW r \in CallState
    PROVE  /\ AttemptsLeft(r) \in 0 .. 2 * MaxAttempts - 1
           /\ Distance(r) \in 0 .. 8 * MaxAttempts + 7
           /\ StepsLeft(r) \in 0 .. 8 * MaxAttempts + 8
           /\ r.at \in Ended => StepsLeft(r) = 0
           /\ r.at \notin Ended => Distance(r) > 0 /\ StepsLeft(r) > 0
<1>1. /\ r.at \in Places /\ r.cancelled \in BOOLEAN
      /\ r.attempt \in 0 .. MaxAttempts - 1 /\ r.repair \in {0, 1}
  BY DEF CallState
<1>2. PICK m \in Nat : m = MaxAttempts /\ m > 0
  BY AttemptsAssumption
<1>3. PICK a \in Int : a = r.attempt /\ 0 <= a /\ a <= m - 1
  BY <1>1, <1>2
<1>4. PICK n \in Int : n = AttemptsLeft(r) /\ 0 <= n /\ n <= 2 * m - 1
  BY <1>1, <1>2, <1>3 DEF AttemptsLeft
<1>5. Distance(r) \in 0 .. 8 * m + 7 /\ (r.at \notin Ended => Distance(r) > 0)
      /\ (r.at \in Ended => Distance(r) = 0)
  <2>1. CASE r.at \in Ended
    <3>1. Distance(r) = 0
      BY <2>1 DEF Distance, Ended
    <3> QED
      BY <1>2, <2>1, <3>1
  <2>2. CASE r.at = "served"
    BY <1>2, <1>4, <2>2 DEF Distance, Ended
  <2>3. CASE r.at = "recording"
    BY <1>2, <1>4, <2>3 DEF Distance, Ended
  <2>4. CASE r.at = "record"
    BY <1>2, <1>4, <2>4 DEF Distance, Ended
  <2>5. CASE r.at = "cacheRename"
    BY <1>2, <1>4, <2>5 DEF Distance, Ended
  <2>6. CASE r.at = "cacheSync"
    BY <1>2, <1>4, <2>6 DEF Distance, Ended
  <2>7. CASE r.at = "cacheWrite"
    BY <1>2, <1>4, <2>7 DEF Distance, Ended
  <2>8. CASE r.at = "calling"
    BY <1>2, <1>4, <2>8 DEF Distance, Ended
  <2>9. CASE r.at = "queued"
    BY <1>2, <1>4, <2>9 DEF Distance, Ended
  <2>10. CASE r.at = "generate"
    BY <1>2, <1>4, <2>10 DEF Distance, Ended
  <2>11. CASE r.at = "backoff"
    BY <1>2, <1>4, <2>11 DEF Distance, Ended
  <2>12. CASE r.at = "cacheLookup"
    BY <1>2, <1>4, <2>12 DEF Distance, Ended
  <2>13. CASE r.at = "lookup"
    BY <1>2, <1>4, <2>13 DEF Distance, Ended
  <2> QED
    BY <1>1, <2>1, <2>2, <2>3, <2>4, <2>5, <2>6, <2>7, <2>8, <2>9, <2>10, <2>11, <2>12,
       <2>13 DEF Places
<1>6. PICK d \in Int : d = Distance(r)
  BY <1>5
<1>7. /\ StepsLeft(r) \in 0 .. 8 * m + 8
      /\ r.at \in Ended => StepsLeft(r) = 0
      /\ r.at \notin Ended => StepsLeft(r) > 0
  BY <1>2, <1>5, <1>6 DEF StepsLeft
<1> QED
  BY <1>2, <1>4, <1>5, <1>7

\* A call that goes on with the same counters is nearer to its end.
LEMMA ArrowsCount ==
    ASSUME NEW r \in CallState, NEW s \in CallState, <<r.at, s.at>> \in Arrows,
           s.cancelled = r.cancelled, s.repair = r.repair, s.attempt = r.attempt
    PROVE  StepsLeft(s) < StepsLeft(r)
<1>1. PICK m \in Nat : m = MaxAttempts /\ m > 0
  BY AttemptsAssumption
<1>2. PICK n \in Int : n = AttemptsLeft(r) /\ n = AttemptsLeft(s) /\ 0 <= n /\ n <= 2 * m - 1
  BY <1>1, StepsAreCounted DEF AttemptsLeft
<1>3. PICK at, next : at = r.at /\ next = s.at /\ <<at, next>> \in Arrows
  OBVIOUS
<1>4. at \notin Ended
  BY <1>3 DEF Arrows, Ended
<1>5. Distance(s) < Distance(r)
  BY <1>1, <1>2, <1>3 DEF Arrows, Distance, Ended
<1>6. PICK c \in Int, d \in Int : c = Distance(s) /\ d = Distance(r)
  BY StepsAreCounted, <1>1
<1> QED
  BY <1>3, <1>4, <1>5, <1>6 DEF StepsLeft

\* So is one that makes another attempt, or repairs an answer.
LEMMA RetriesCount ==
    ASSUME NEW r \in CallState, NEW s \in CallState, r.at = "calling",
           s.cancelled = r.cancelled,
           \/ s.at = "backoff" /\ s.repair = r.repair /\ s.attempt = r.attempt + 1
           \/ s.at = "generate" /\ r.repair = 0 /\ s.repair = 1 /\ s.attempt = 0
    PROVE  StepsLeft(s) < StepsLeft(r)
<1>1. PICK m \in Nat : m = MaxAttempts /\ m > 0
  BY AttemptsAssumption
<1>2. PICK a \in Int : a = r.attempt /\ 0 <= a /\ a <= m - 1
  BY <1>1 DEF CallState
<1>3. PICK c \in Int, d \in Int : c = AttemptsLeft(s) /\ d = AttemptsLeft(r)
  BY StepsAreCounted, <1>1
<1>4. Distance(r) = 7 + 4 * d
  BY <1>3 DEF Distance, Ended
<1>5. CASE s.at = "backoff" /\ s.repair = r.repair /\ s.attempt = r.attempt + 1
  <2>1. c = d - 1
    BY <1>1, <1>2, <1>3, <1>5 DEF AttemptsLeft, CallState
  <2>2. Distance(s) = 10 + 4 * c
    BY <1>3, <1>5 DEF Distance, Ended
  <2> QED
    BY <1>4, <1>5, <2>1, <2>2 DEF StepsLeft, Ended
<1>6. CASE s.at = "generate" /\ r.repair = 0 /\ s.repair = 1 /\ s.attempt = 0
  <2>1. c = m - 1 /\ d >= m
    BY <1>1, <1>2, <1>3, <1>6 DEF AttemptsLeft
  <2>2. Distance(s) = 9 + 4 * c
    BY <1>3, <1>6 DEF Distance, Ended
  <2> QED
    BY <1>1, <1>4, <1>6, <2>1, <2>2 DEF StepsLeft, Ended
<1> QED
  BY <1>5, <1>6

\* Whatever a running call does, it is nearer to its end afterwards.
LEMMA StepCounts ==
    ASSUME TypeOK, TypeOK', NEW c \in Callers, Running(c), Cancel(c) \/ Respond(c) \/ Local(c)
    PROVE  StepsLeft(call'[c]) < StepsLeft(call[c])
<1>1. PICK r \in CallState : r = call[c] /\ r.at \notin Ended
  BY DEF TypeOK, Running
<1>2. PICK s \in CallState : s = call'[c]
  BY DEF TypeOK
<1>3. DOMAIN call = Callers
  BY DEF TypeOK
<1>4. StepsLeft(r) > 0
  BY <1>1, StepsAreCounted
<1>5. ASSUME s.at \in Ended PROVE StepsLeft(s) < StepsLeft(r)
  BY <1>2, <1>4, <1>5, StepsAreCounted
<1>6. CASE Cancel(c)
  <2>1. s = [r EXCEPT !.cancelled = TRUE] /\ ~r.cancelled
    BY <1>1, <1>2, <1>3, <1>6 DEF Cancel, Become
  <2>2. s.at = r.at /\ s.cancelled /\ s.repair = r.repair /\ s.attempt = r.attempt
    BY <2>1 DEF CallState
  <2>3. AttemptsLeft(s) = AttemptsLeft(r)
    BY <2>2 DEF AttemptsLeft
  <2>4. Distance(s) = Distance(r)
    BY <2>2, <2>3 DEF Distance
  <2>5. PICK d \in Int : d = Distance(r)
    BY StepsAreCounted, AttemptsAssumption
  <2> QED
    BY <1>1, <1>2, <2>1, <2>2, <2>4, <2>5 DEF StepsLeft
<1>7. ASSUME NEW place, s = [r EXCEPT !.at = place], <<r.at, place>> \in Arrows
      PROVE  StepsLeft(s) < StepsLeft(r)
  <2>1. s.at = place /\ s.cancelled = r.cancelled /\ s.repair = r.repair /\ s.attempt = r.attempt
    BY <1>7 DEF CallState
  <2> QED
    BY <1>7, <2>1, ArrowsCount
<1>8. ASSUME NEW place, NEW reply, s = [r EXCEPT !.at = place, !.reply = reply],
             <<r.at, place>> \in Arrows
      PROVE  StepsLeft(s) < StepsLeft(r)
  <2>1. s.at = place /\ s.cancelled = r.cancelled /\ s.repair = r.repair /\ s.attempt = r.attempt
    BY <1>8 DEF CallState
  <2> QED
    BY <1>8, <2>1, ArrowsCount
<1>9. ASSUME NEW place, NEW tmp, s = [r EXCEPT !.at = place, !.tmp = tmp],
             <<r.at, place>> \in Arrows
      PROVE  StepsLeft(s) < StepsLeft(r)
  <2>1. s.at = place /\ s.cancelled = r.cancelled /\ s.repair = r.repair /\ s.attempt = r.attempt
    BY <1>9 DEF CallState
  <2> QED
    BY <1>9, <2>1, ArrowsCount
<1>10. ASSUME Fail(c) PROVE s.at \in Ended
  <2>1. s = [Fresh EXCEPT !.at = "failed"]
    BY <1>2, <1>3, <1>10 DEF Fail, Become
  <2> QED
    BY <2>1 DEF Fresh, Ended
<1>11. ASSUME NEW place, Goto(c, place) PROVE s = [r EXCEPT !.at = place]
  BY <1>1, <1>2, <1>3, <1>11 DEF Goto, Become
<1>12. CASE FixtureHit(c) \/ FixtureMiss(c) \/ CacheHit(c) \/ CacheMiss(c)
  <2>1. CASE FixtureHit(c)
    <3>1. s = [r EXCEPT !.at = "served", !.reply = fixture[key[c]]] /\ r.at = "lookup"
      BY <1>1, <1>2, <1>3, <2>1 DEF FixtureHit, At, Become
    <3> QED
      BY <1>1, <1>2, <1>8, <3>1 DEF Arrows
  <2>2. CASE FixtureMiss(c)
    <3>1. r.at = "lookup" /\ (Goto(c, "cacheLookup") \/ Fail(c))
      BY <1>1, <2>2 DEF FixtureMiss, At
    <3> QED
      BY <1>1, <1>2, <1>5, <1>7, <1>10, <1>11, <3>1 DEF Arrows
  <2>3. CASE CacheHit(c)
    <3>1. s = [r EXCEPT !.at = "record", !.reply = cache[key[c]]] /\ r.at = "cacheLookup"
      BY <1>1, <1>2, <1>3, <2>3 DEF CacheHit, At, Become
    <3> QED
      BY <1>1, <1>2, <1>8, <3>1 DEF Arrows
  <2>4. CASE CacheMiss(c)
    <3>1. r.at = "cacheLookup" /\ Goto(c, "generate")
      BY <1>1, <2>4 DEF CacheMiss, At
    <3> QED
      BY <1>1, <1>2, <1>7, <1>11, <3>1 DEF Arrows
  <2> QED
    BY <1>12, <2>1, <2>2, <2>3, <2>4
<1>13. CASE Serve(c)
  <2>1. CASE ServeAs(c, "done")
    <3>1. s = [Fresh EXCEPT !.at = "done", !.reply = r.reply]
      BY <1>1, <1>2, <1>3, <2>1 DEF ServeAs
    <3>2. s.at \in Ended
      BY <3>1 DEF Fresh, Ended
    <3> QED
      BY <1>1, <1>2, <1>5, <3>2
  <2> QED
    BY <1>1, <1>2, <1>5, <1>10, <1>13, <2>1 DEF Serve
<1>14. CASE Wait(c) \/ Granted(c) \/ QueueCancelled(c)
  <2>1. CASE Wait(c)
    <3>1. r.at = "generate" /\ (Goto(c, "queued") \/ Fail(c))
      BY <1>1, <2>1 DEF Wait, At
    <3> QED
      BY <1>1, <1>2, <1>5, <1>7, <1>10, <1>11, <3>1 DEF Arrows
  <2>2. CASE Granted(c)
    <3>1. /\ r.at = "queued"
          /\ \E n, l : s = [r EXCEPT !.at = "calling", !.calls = n, !.late = l]
      BY <1>1, <1>2, <1>3, <2>2 DEF Granted, At, Become
    <3>2. /\ s.at = "calling" /\ s.cancelled = r.cancelled
          /\ s.repair = r.repair /\ s.attempt = r.attempt
      BY <3>1 DEF CallState
    <3> QED
      BY <1>1, <1>2, <3>1, <3>2, ArrowsCount DEF Arrows
  <2>3. CASE QueueCancelled(c)
    BY <1>1, <1>2, <1>5, <1>10, <2>3 DEF QueueCancelled
  <2> QED
    BY <1>14, <2>1, <2>2, <2>3
<1>15. CASE Respond(c)
  <2>1. CASE \E d \in Docs : Answer(c, d)
    <3>1. PICK d \in Docs : Answer(c, d)
      BY <2>1
    <3>2. s = [r EXCEPT !.at = "cacheWrite", !.reply = d] /\ r.at = "calling"
      BY <1>1, <1>2, <1>3, <3>1 DEF Answer, At, Become
    <3> QED
      BY <1>1, <1>2, <1>8, <3>2 DEF Arrows
  <2>2. CASE AnswerInvalid(c)
    <3>1. CASE r.repair = 0
      <4>1. s = [r EXCEPT !.at = "generate", !.repair = 1, !.attempt = 0] /\ r.at = "calling"
        BY <1>1, <1>2, <1>3, <2>2, <3>1 DEF AnswerInvalid, At, Become
      <4>2. s.at = "generate" /\ s.cancelled = r.cancelled /\ s.repair = 1 /\ s.attempt = 0
        BY <4>1 DEF CallState
      <4> QED
        BY <1>1, <1>2, <3>1, <4>1, <4>2, RetriesCount
    <3>2. CASE r.repair # 0
      BY <1>1, <1>2, <1>5, <1>10, <2>2, <3>2 DEF AnswerInvalid
    <3> QED
      BY <3>1, <3>2
  <2>3. CASE RateLimited(c)
    <3>1. CASE r.attempt < MaxAttempts - 1
      <4>1. PICK n : n = r.attempt + 1
        OBVIOUS
      <4>2. s = [r EXCEPT !.at = "backoff", !.attempt = n] /\ r.at = "calling"
        BY <1>1, <1>2, <1>3, <2>3, <3>1, <4>1 DEF RateLimited, RateLimitedUpTo, At, Become
      <4>3. s.at = "backoff" /\ s.cancelled = r.cancelled /\ s.repair = r.repair /\ s.attempt = n
        BY <4>2 DEF CallState
      <4> QED
        BY <1>1, <1>2, <4>1, <4>2, <4>3, RetriesCount
    <3>2. CASE ~(r.attempt < MaxAttempts - 1)
      BY <1>1, <1>2, <1>5, <1>10, <2>3, <3>2 DEF RateLimited, RateLimitedUpTo
    <3> QED
      BY <3>1, <3>2
  <2>4. CASE CallFails(c)
    BY <1>1, <1>2, <1>5, <1>10, <2>4 DEF CallFails
  <2> QED
    BY <1>15, <2>1, <2>2, <2>3, <2>4 DEF Respond
<1>16. CASE CallAborted(c) \/ BackoffOver(c) \/ BackoffCancelled(c)
  <2>1. CASE BackoffOver(c)
    <3>1. r.at = "backoff" /\ Goto(c, "generate")
      BY <1>1, <2>1 DEF BackoffOver, At
    <3> QED
      BY <1>1, <1>2, <1>7, <1>11, <3>1 DEF Arrows
  <2> QED
    BY <1>1, <1>2, <1>5, <1>10, <1>16, <2>1 DEF CallAborted, BackoffCancelled
<1>17. CASE CacheGivesUp(c) \/ CacheOpen(c) \/ CacheSync(c) \/ CacheRename(c)
  <2>1. CASE CacheGivesUp(c)
    <3>1. /\ s = [r EXCEPT !.at = "record", !.tmp = "absent"]
          /\ r.at \in {"cacheWrite", "cacheSync", "cacheRename"}
      BY <1>1, <1>2, <1>3, <2>1 DEF CacheGivesUp, Become
    <3>2. <<r.at, "record">> \in Arrows
      BY <3>1 DEF Arrows
    <3> QED
      BY <1>1, <1>2, <1>9, <3>1, <3>2
  <2>2. CASE CacheOpen(c)
    <3>1. s = [r EXCEPT !.at = "cacheSync", !.tmp = "empty"] /\ r.at = "cacheWrite"
      BY <1>1, <1>2, <1>3, <2>2 DEF CacheOpen, At, Become
    <3> QED
      BY <1>1, <1>2, <1>9, <3>1 DEF Arrows
  <2>3. CASE CacheSync(c)
    <3>1. s = [r EXCEPT !.at = "cacheRename", !.tmp = r.reply] /\ r.at = "cacheSync"
      BY <1>1, <1>2, <1>3, <2>3 DEF CacheSync, At, Become
    <3> QED
      BY <1>1, <1>2, <1>9, <3>1 DEF Arrows
  <2>4. CASE CacheRename(c)
    <3>1. s = [r EXCEPT !.at = "record", !.tmp = "absent"] /\ r.at = "cacheRename"
      BY <1>1, <1>2, <1>3, <2>4 DEF CacheRename, At
    <3> QED
      BY <1>1, <1>2, <1>9, <3>1 DEF Arrows
  <2> QED
    BY <1>17, <2>1, <2>2, <2>3, <2>4
<1>18. CASE RecordSkipped(c) \/ RecordRefused(c) \/ RecordOpen(c)
  <2>1. CASE RecordSkipped(c)
    <3>1. r.at = "record" /\ Goto(c, "served")
      BY <1>1, <2>1 DEF RecordSkipped, At
    <3> QED
      BY <1>1, <1>2, <1>7, <1>11, <3>1 DEF Arrows
  <2>2. CASE RecordRefused(c)
    BY <1>1, <1>2, <1>5, <1>10, <2>2 DEF RecordRefused
  <2>3. CASE RecordOpen(c)
    <3>1. s = [r EXCEPT !.at = "recording"] /\ r.at = "record"
      BY <1>1, <1>2, <1>3, <2>3 DEF RecordOpen, At
    <3> QED
      BY <1>1, <1>2, <1>7, <3>1 DEF Arrows
  <2> QED
    BY <1>18, <2>1, <2>2, <2>3
<1>19. CASE RecordWritten(c) \/ RecordBroken(c)
  <2>1. CASE RecordWritten(c)
    <3>1. s = [r EXCEPT !.at = "served"] /\ r.at = "recording"
      BY <1>1, <1>2, <1>3, <2>1 DEF RecordWritten, RecordAs, At
    <3> QED
      BY <1>1, <1>2, <1>7, <3>1 DEF Arrows
  <2>2. CASE RecordBroken(c)
    <3>1. s = [Fresh EXCEPT !.at = "failed"]
      BY <1>2, <1>3, <2>2 DEF RecordBroken, RecordAs
    <3>2. s.at \in Ended
      BY <3>1 DEF Fresh, Ended
    <3> QED
      BY <1>1, <1>2, <1>5, <3>2
  <2> QED
    BY <1>19, <2>1, <2>2
<1> QED
  BY <1>6, <1>12, <1>13, <1>14, <1>15, <1>16, <1>17, <1>18, <1>19 DEF Local

\* A stage call takes at most eight steps for each of the attempts of one generation and
\* eight more, whatever the model answers and whatever the other callers do: neither the
\* retries on 429 nor the repair can run on (gemini.go:56-91, 124-160).
THEOREM CallsEnd ==
    Spec => /\ EveryStepCounts
            /\ [](\A c \in Callers : StepsLeft(call[c]) \in 0 .. 8 * MaxAttempts + 8)
<1>1. TypeOK => \A c \in Callers : StepsLeft(call[c]) \in 0 .. 8 * MaxAttempts + 8
  BY StepsAreCounted DEF TypeOK
<1>2. ASSUME TypeOK, CallsOK, TypeOK', Next
      PROVE  \A c \in Callers :
                 Running(c) /\ call'[c] # call[c] => StepsLeft(call'[c]) < StepsLeft(call[c])
  <2> SUFFICES ASSUME NEW c \in Callers, Running(c), call'[c] # call[c]
               PROVE  StepsLeft(call'[c]) < StepsLeft(call[c])
    OBVIOUS
  <2>1. call \in [Callers -> CallState] /\ call' \in [Callers -> CallState]
    BY <1>2 DEF TypeOK
  <2>2. CASE Crash
    <3>1. call'[c] = Fresh
      BY <2>2 DEF Crash
    <3>2. Fresh.at \in Ended
      BY DEF Fresh, Ended
    <3> QED
      BY <2>1, <3>1, <3>2, StepsAreCounted DEF Running
  <2>3. ASSUME NEW d \in Callers, Begin(d) \/ Cancel(d) \/ Respond(d) \/ Local(d)
        PROVE  StepsLeft(call'[c]) < StepsLeft(call[c])
    <3>1. Moves(d)
      BY <1>2, <2>3, AskingMoves, CallingMoves, AnsweredMoves DEF Local
    <3>2. d = c
      BY <2>1, <3>1 DEF Moves
    <3>3. ~Begin(c)
      BY DEF Begin
    <3> QED
      BY <1>2, <2>3, <3>2, <3>3, StepCounts
  <2> QED
    BY <1>2, <2>2, <2>3 DEF Next
<1> QED
  BY <1>1, <1>2, ProviderTypeOK, PTL DEF Spec, EveryStepCounts
=============================================================================
