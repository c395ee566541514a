------------------------------ MODULE Limiter ------------------------------
(***************************************************************************)
(* The shared rate limiter of the live provider (internal/llm/ratelimit.go)*)
(* and the callers of Wait.  Stage 5 starts one call per persona, and the  *)
(* HTTP server runs several briefs at a time, so Wait is entered by many   *)
(* goroutines; each holds a context that may be cancelled at any moment.   *)
(*                                                                         *)
(* A call of Wait goes through                                             *)
(*                                                                         *)
(*   returned -> entered -> reserved -> sleeping -> returned               *)
(*                                                                         *)
(* where "returned" is one of idle (never called), granted (nil) and       *)
(* failed (a context error).  Time is a natural number: the unit is        *)
(* arbitrary, and a timer may fire any time after its instant.             *)
(***************************************************************************)
EXTENDS Integers, Sequences, FiniteSets

CONSTANTS
    Callers,    \* goroutines that share the limiter
    Minute,     \* length of a minute in clock units
    Rpms,       \* the --rpm values considered
    MaxCalls,   \* bound: calls of Wait, over all goroutines
    Horizon     \* bound: the clock runs freely up to here

ASSUME MinuteAssumption == Minute \in Nat \ {0}
ASSUME RpmAssumption == Rpms \subseteq Int
ASSUME BoundsAssumption == MaxCalls \in Nat /\ Horizon \in Nat

VARIABLES
    now,        \* time.Now()
    interval,   \* Limiter.interval
    next,       \* Limiter.next
    pc,         \* where each caller is in Wait
    slot,       \* the local variable slot of each caller
    cancelled,  \* the callers whose context is done
    calls,      \* calls of Wait made so far, for the bound
    slots,      \* history: every slot handed out, in the order of the lock
    granted,    \* history: the slots of the calls that returned nil
    sent,       \* history: how many calls returned nil
    wasted      \* history: slots each caller reserved and did not use

limiter == <<interval, next>>
history == <<slots, granted, sent, wasted>>
vars == <<now, interval, next, pc, slot, cancelled, calls,
          slots, granted, sent, wasted>>

Returned == {"idle", "granted", "failed"}
Waiting == {"reserved", "sleeping"}
PC == Returned \cup Waiting \cup {"entered"}

\* Mutants of NewLimiter and of the actions below: plausible slips in the code,
\* each of which some property must notice.
NewLimiterNoNegative(rpm) == IF rpm = 0 THEN 0 ELSE Minute \div rpm

\* The distance between two slots; a non-positive rpm disables limiting.
NewLimiter(rpm) == IF rpm <= 0 THEN 0 ELSE Minute \div rpm

Init ==
    /\ now = 0
    /\ interval \in {NewLimiter(r) : r \in Rpms}
    /\ next = 0
    /\ pc = [c \in Callers |-> "idle"]
    /\ slot = [c \in Callers |-> 0]
    /\ cancelled = {}
    /\ calls = 0
    /\ slots = << >>
    /\ granted = {}
    /\ sent = 0
    /\ wasted = [c \in Callers |-> 0]

---------------------------------------------------------------------------
(***************************************************************************)
(* The environment: the clock, and the contexts.                           *)
(***************************************************************************)

\* Past the horizon the clock runs only while somebody waits for it.
Tick ==
    /\ now < Horizon \/ \E c \in Callers : pc[c] \in Waiting /\ now < slot[c]
    /\ now' = now + 1
    /\ UNCHANGED <<limiter, pc, slot, cancelled, calls, history>>

\* A sibling fails, a request times out, a client disconnects.
Cancel(c) ==
    /\ c \notin cancelled
    /\ cancelled' = cancelled \cup {c}
    /\ UNCHANGED <<now, limiter, pc, slot, calls, history>>

---------------------------------------------------------------------------
(***************************************************************************)
(* Wait.                                                                   *)
(***************************************************************************)

Start(c) ==
    /\ pc[c] \in Returned
    /\ calls < MaxCalls
    /\ calls' = calls + 1

\* Lines 32-34: a context that is already done returns without a slot.
EnterCancelled(c) ==
    /\ Start(c)
    /\ c \in cancelled
    /\ pc' = [pc EXCEPT ![c] = "failed"]
    /\ UNCHANGED <<now, limiter, slot, cancelled, history>>

\* Lines 35-37: no limit.
EnterUnlimited(c) ==
    /\ Start(c)
    /\ c \notin cancelled
    /\ interval = 0
    /\ pc' = [pc EXCEPT ![c] = "granted"]
    /\ sent' = sent + 1
    /\ UNCHANGED <<now, limiter, slot, cancelled, slots, granted, wasted>>

EnterUnchecked(c) ==
    /\ Start(c)
    /\ interval # 0
    /\ pc' = [pc EXCEPT ![c] = "entered"]
    /\ UNCHANGED <<now, limiter, slot, cancelled, history>>

Enter(c) ==
    /\ Start(c)
    /\ c \notin cancelled
    /\ interval # 0
    /\ pc' = [pc EXCEPT ![c] = "entered"]
    /\ UNCHANGED <<now, limiter, slot, cancelled, history>>

TakeSlot(c, s, following) ==
    /\ pc[c] = "entered"
    /\ slot' = [slot EXCEPT ![c] = s]
    /\ next' = following
    /\ slots' = Append(slots, s)
    /\ pc' = [pc EXCEPT ![c] = "reserved"]
    /\ UNCHANGED <<now, interval, cancelled, calls, granted, sent, wasted>>

FirstFree == IF next < now THEN now ELSE next

ReserveFromNow(c) == TakeSlot(c, FirstFree, now + interval)
ReserveTwo(c) == TakeSlot(c, FirstFree, FirstFree + 2 * interval)

\* Lines 39-46, under the mutex.
Reserve(c) == TakeSlot(c, FirstFree, FirstFree + interval)

\* The call returns nil: the caller may send its request.
ReturnNil(c) ==
    /\ pc' = [pc EXCEPT ![c] = "granted"]
    /\ granted' = granted \cup {slot[c]}
    /\ sent' = sent + 1
    /\ UNCHANGED <<now, limiter, slot, cancelled, calls, slots, wasted>>

\* The call returns ctx.Err() with a slot in hand: nobody will use it.
ReturnErr(c) ==
    /\ pc' = [pc EXCEPT ![c] = "failed"]
    /\ wasted' = [wasted EXCEPT ![c] = @ + 1]
    /\ UNCHANGED <<now, limiter, slot, cancelled, calls, slots, granted, sent>>

DueEarly(c) ==
    /\ pc[c] = "reserved"
    /\ slot[c] <= now + interval
    /\ IF c \in cancelled THEN ReturnErr(c) ELSE ReturnNil(c)

\* Lines 48-51: the slot has come, and the context is read once more.
Due(c) ==
    /\ pc[c] = "reserved"
    /\ slot[c] <= now
    /\ IF c \in cancelled THEN ReturnErr(c) ELSE ReturnNil(c)

\* Line 52: the slot lies ahead, a timer is started.
Sleep(c) ==
    /\ pc[c] = "reserved"
    /\ now < slot[c]
    /\ pc' = [pc EXCEPT ![c] = "sleeping"]
    /\ UNCHANGED <<now, limiter, slot, cancelled, calls, history>>

TimerFiresOnTheDot(c) ==
    /\ pc[c] = "sleeping"
    /\ slot[c] = now
    /\ ReturnNil(c)

\* Lines 54-58: when both channels are ready, select picks either.
TimerFires(c) ==
    /\ pc[c] = "sleeping"
    /\ slot[c] <= now
    /\ ReturnNil(c)

CtxDone(c) ==
    /\ pc[c] = "sleeping"
    /\ c \in cancelled
    /\ ReturnErr(c)

\* The steps a goroutine takes by itself once it is in Wait.
Step(c) == Reserve(c) \/ Due(c) \/ Sleep(c) \/ TimerFires(c) \/ CtxDone(c)

Next ==
    \/ Tick
    \/ \E c \in Callers :
        \/ Cancel(c)
        \/ EnterCancelled(c) \/ EnterUnlimited(c) \/ Enter(c)
        \/ Reserve(c) \/ Due(c) \/ Sleep(c) \/ TimerFires(c) \/ CtxDone(c)

\* Time passes, and the runtime schedules every goroutine that can run.
\* Nothing obliges anybody to call Wait, or a context to be cancelled.
Fairness == WF_vars(Tick) /\ \A c \in Callers : WF_vars(Step(c))

Spec == Init /\ [][Next]_vars

FairSpec == Spec /\ Fairness

---------------------------------------------------------------------------
(***************************************************************************)
(* Properties.                                                             *)
(***************************************************************************)

\* The type invariant of the limiter and its callers (Limiter, Wait).
TypeOK ==
    /\ now \in Nat
    /\ interval \in Nat
    /\ next \in Nat
    /\ pc \in [Callers -> PC]
    /\ slot \in [Callers -> Nat]
    /\ cancelled \subseteq Callers
    /\ calls \in 0 .. MaxCalls
    /\ slots \in Seq(Nat)
    /\ granted \subseteq Nat
    /\ sent \in Nat
    /\ wasted \in [Callers -> Nat]

\* Any k + 1 consecutive slots handed out span at least k intervals, whatever
\* the callers, their order at the lock and the cancellations between them:
\* the burst of stage 5 cannot trip the provider's quota (ratelimit.go:9-11).
SlotsSpaced ==
    \A j \in 1 .. Len(slots) : \A i \in 1 .. j :
        slots[i] + (j - i) * interval <= slots[j]

\* The limiter never falls behind by more than the callers account for: beyond
\* the interval that is running, each interval by which next lies ahead of the
\* clock belongs to a caller still waiting or to a slot a cancelled caller left
\* unused.  An active caller is delayed by nothing else.
BoundedBacklog ==
    next <= now + interval * (1 + Cardinality({c \in Callers : pc[c] \in Waiting})
                                + Cardinality({c \in Callers : wasted[c] > 0}))

\* However often a cancelled goroutine calls Wait again (generate retries), it
\* leaves at most one slot unused: only the call during which the context was
\* cancelled can hold one (ratelimit.go:27-34).
OneSlotLeakPerContext == \A c \in Callers : wasted[c] <= 1

\* Every call of Wait returns: with nil, or with an error if its context is
\* done.  No caller starves behind the others or behind their leaked slots.
WaitReturns ==
    \A c \in Callers :
        pc[c] \notin Returned
            ~> pc[c] = "granted" \/ (pc[c] = "failed" /\ c \in cancelled)

\* The limiter implements the schedule its users rely on: no permission before
\* its instant, and none within an interval of another one.
Schedule == INSTANCE SlotSchedule WITH
    now <- now, interval <- interval, granted <- granted, sent <- sent
SendsOnSchedule == Schedule!Spec
=============================================================================
