--------------------------- MODULE LimiterProofs ---------------------------
(***************************************************************************)
(* Theorems about the rate limiter, for every set of callers, every rpm    *)
(* and without the bounds of the model-checking runs playing a role.       *)
(***************************************************************************)
EXTENDS Limiter, FiniteSetTheorems, TLAPS

\* The interval computed from a requests-per-minute quota is a natural number.
LEMMA NewLimiterType ==
    ASSUME NEW rpm \in Int
    PROVE  NewLimiter(rpm) \in Nat
<1>1. CASE rpm <= 0
  BY <1>1 DEF NewLimiter
<1>2. CASE rpm > 0
  BY <1>2, MinuteAssumption DEF NewLimiter
<1>3. QED
  BY <1>1, <1>2

\* The type invariant is inductive: Wait keeps the limiter's state well typed
\* through every interleaving of callers, timers and cancellations.
THEOREM LimiterTypeOK == Spec => []TypeOK
<1>1. Init => TypeOK
  <2>1. Init => interval \in Nat
    BY NewLimiterType, RpmAssumption DEF Init
  <2>2. QED
    BY <2>1, BoundsAssumption DEF Init, TypeOK, PC, Returned
<1>2. TypeOK /\ [Next]_vars => TypeOK'
  <2> SUFFICES ASSUME TypeOK, [Next]_vars
               PROVE  TypeOK'
    OBVIOUS
  <2> USE DEF TypeOK, PC, Returned, Waiting, limiter, history
  <2>1. CASE Tick
    BY <2>1 DEF Tick
  <2>2. ASSUME NEW c \in Callers, Cancel(c)
        PROVE  TypeOK'
    BY <2>2 DEF Cancel
  <2>3. ASSUME NEW c \in Callers, EnterCancelled(c)
        PROVE  TypeOK'
    BY <2>3, BoundsAssumption DEF EnterCancelled, Start
  <2>4. ASSUME NEW c \in Callers, EnterUnlimited(c)
        PROVE  TypeOK'
    BY <2>4, BoundsAssumption DEF EnterUnlimited, Start
  <2>5. ASSUME NEW c \in Callers, Enter(c)
        PROVE  TypeOK'
    BY <2>5, BoundsAssumption DEF Enter, Start
  <2>6. ASSUME NEW c \in Callers, Reserve(c)
        PROVE  TypeOK'
    BY <2>6 DEF Reserve, TakeSlot, FirstFree
  <2>7. ASSUME NEW c \in Callers, Due(c) \/ TimerFires(c) \/ CtxDone(c)
        PROVE  TypeOK'
    <3>1. CASE ReturnNil(c)
      <4>1. granted' \subseteq Nat
        BY <3>1 DEF ReturnNil
      <4>2. pc' \in [Callers -> PC]
        BY <3>1 DEF ReturnNil
      <4>3. QED
        BY <3>1, <4>1, <4>2 DEF ReturnNil
    <3>2. CASE ReturnErr(c)
      BY <3>2 DEF ReturnErr
    <3>3. QED
      BY <2>7, <3>1, <3>2 DEF Due, TimerFires, CtxDone
  <2>8. ASSUME NEW c \in Callers, Sleep(c)
        PROVE  TypeOK'
    BY <2>8 DEF Sleep
  <2>9. CASE UNCHANGED vars
    BY <2>9 DEF vars
  <2>10. QED
    BY <2>1, <2>2, <2>3, <2>4, <2>5, <2>6, <2>7, <2>8, <2>9 DEF Next
<1>3. QED
  BY <1>1, <1>2, PTL DEF Spec

----------------------------------------------------------------------------
(***************************************************************************)
(* Spacing.  SlotsSpaced is not inductive by itself: that the next slot is *)
(* far enough from all earlier ones rests on next lying k intervals beyond *)
(* the k-th last slot, which is the second conjunct.                       *)
(***************************************************************************)
SlotsBehindNext ==
    \A i \in 1 .. Len(slots) : slots[i] + (Len(slots) - i + 1) * interval <= next

SpacingInv == SlotsBehindNext /\ SlotsSpaced

\* One more interval.
LEMMA OneMore ==
    ASSUME NEW k \in Nat, NEW d \in Nat
    PROVE  (k + 1) * d = k * d + d /\ k * d \in Nat
  OBVIOUS

\* Handing out a slot no earlier than next, and moving next one interval beyond
\* it, preserves the spacing.
LEMMA TakeSlotSpacing ==
    ASSUME TypeOK, SpacingInv, NEW c \in Callers, Reserve(c)
    PROVE  SpacingInv'
<1> DEFINE n == Len(slots)
<1>1. /\ slots \in Seq(Nat) /\ n \in Nat /\ next \in Nat /\ interval \in Nat
      /\ FirstFree \in Nat /\ next <= FirstFree
  BY DEF TypeOK, FirstFree
<1>2. /\ slots' = Append(slots, FirstFree)
      /\ next' = FirstFree + interval
      /\ interval' = interval
  BY DEF Reserve, TakeSlot
<1>3. /\ Len(slots') = n + 1
      /\ slots'[n + 1] = FirstFree
      /\ \A i \in 1 .. n : slots'[i] = slots[i]
  BY <1>1, <1>2
<1>4. ASSUME NEW i \in 1 .. n
      PROVE  /\ slots[i] \in Nat
             /\ slots[i] + (n - i + 1) * interval <= FirstFree
  BY <1>1, <1>4 DEF SpacingInv, SlotsBehindNext
<1>5. SlotsBehindNext'
  <2> SUFFICES ASSUME NEW i \in 1 .. n + 1
               PROVE  slots'[i] + (n + 1 - i + 1) * interval <= FirstFree + interval
    BY <1>2, <1>3 DEF SlotsBehindNext
  <2>1. CASE i = n + 1
    <3>1. n + 1 - i + 1 = 1 /\ 1 * interval = interval
      BY <2>1, <1>1
    <3>2. (n + 1 - i + 1) * interval = interval
      BY <3>1
    <3>3. QED
      BY <3>2, <2>1, <1>1, <1>3
  <2>2. CASE i \in 1 .. n
    <3> DEFINE k == n - i + 1
    <3>1. k \in Nat /\ n + 1 - i + 1 = k + 1
      BY <2>2, <1>1
    <3>2. (k + 1) * interval = k * interval + interval /\ k * interval \in Nat
      BY <3>1, <1>1, OneMore
    <3>3. slots[i] \in Nat /\ slots[i] + k * interval <= FirstFree
      BY <1>4, <2>2
    <3> HIDE DEF k
    <3>4. slots[i] + (k + 1) * interval <= FirstFree + interval
      BY <3>2, <3>3, <1>1
    <3>5. QED
      BY <3>1, <3>4, <2>2, <1>3
  <2>3. QED
    BY <2>1, <2>2, <1>1
<1>6. SlotsSpaced'
  <2> SUFFICES ASSUME NEW j \in 1 .. n + 1, NEW i \in 1 .. j
               PROVE  slots'[i] + (j - i) * interval <= slots'[j]
    BY <1>2, <1>3 DEF SlotsSpaced
  <2>1. CASE j \in 1 .. n
    <3>1. slots[i] + (j - i) * interval <= slots[j]
      BY <2>1, <1>1 DEF SpacingInv, SlotsSpaced
    <3>2. slots'[i] = slots[i] /\ slots'[j] = slots[j]
      BY <2>1, <1>1, <1>3
    <3>3. QED
      BY <3>1, <3>2
  <2>2. CASE j = n + 1 /\ i = n + 1
    <3>1. (j - i) * interval = 0
      BY <2>2, <1>1
    <3>2. QED
      BY <2>2, <3>1, <1>1, <1>3
  <2>3. CASE j = n + 1 /\ i \in 1 .. n
    BY <2>3, <1>1, <1>3, <1>4
  <2>4. QED
    BY <2>1, <2>2, <2>3, <1>1
<1>7. QED
  BY <1>5, <1>6 DEF SpacingInv

\* Slots are never closer together than the quota allows, however many are
\* handed out (property SlotsSpaced, Wait lines 39-46).
THEOREM LimiterSpacesSlots == Spec => []SlotsSpaced
<1>1. Init => SpacingInv
  BY DEF Init, SpacingInv, SlotsBehindNext, SlotsSpaced
<1>2. TypeOK /\ SpacingInv /\ [Next]_vars => SpacingInv'
  <2> SUFFICES ASSUME TypeOK, SpacingInv, [Next]_vars
               PROVE  SpacingInv'
    OBVIOUS
  <2>1. ASSUME NEW c \in Callers, Reserve(c)
        PROVE  SpacingInv'
    BY <2>1, TakeSlotSpacing
  <2>2. CASE UNCHANGED <<slots, next, interval>>
    BY <2>2 DEF SpacingInv, SlotsBehindNext, SlotsSpaced
  <2>3. CASE Tick
    BY <2>2, <2>3 DEF Tick, limiter, history
  <2>4. ASSUME NEW c \in Callers,
               \/ Cancel(c) \/ EnterCancelled(c) \/ EnterUnlimited(c) \/ Enter(c)
               \/ Due(c) \/ Sleep(c) \/ TimerFires(c) \/ CtxDone(c)
        PROVE  SpacingInv'
    BY <2>2, <2>4 DEF Cancel, EnterCancelled, EnterUnlimited, Enter, Due, Sleep,
                      TimerFires, CtxDone, ReturnNil, ReturnErr, limiter, history
  <2>5. CASE UNCHANGED vars
    BY <2>2, <2>5 DEF vars
  <2>6. QED
    BY <2>1, <2>3, <2>4, <2>5 DEF Next
<1>3. SpacingInv => SlotsSpaced
  BY DEF SpacingInv
<1>4. QED
  BY <1>1, <1>2, <1>3, LimiterTypeOK, PTL DEF Spec
----------------------------------------------------------------------------
(***************************************************************************)
(* Leaked slots.  A caller that left a slot unused is out of Wait and its  *)
(* context stays done, so line 32 turns it away ever after.                *)
(***************************************************************************)
LeakInv ==
    \A c \in Callers :
        /\ wasted[c] <= 1
        /\ wasted[c] > 0 => c \in cancelled /\ pc[c] \in Returned

\* Who has left a slot unused stays out of Wait.
LEMMA LeaksAreOver == Spec => []LeakInv
<1>1. Init => LeakInv
  BY DEF Init, LeakInv, Returned
<1>2. TypeOK /\ LeakInv /\ [Next]_vars => LeakInv'
  <2> SUFFICES ASSUME TypeOK, LeakInv, [Next]_vars,
                      NEW d \in Callers
               PROVE  /\ wasted'[d] <= 1
                      /\ wasted'[d] > 0 => d \in cancelled' /\ pc'[d] \in Returned
    BY DEF LeakInv
  <2> USE DEF TypeOK, LeakInv, Returned, limiter, history
  \* A slot once wasted stays with a caller that its context keeps out.
  <2>1. CASE /\ wasted' = wasted /\ cancelled \subseteq cancelled'
             /\ wasted[d] > 0 => pc'[d] \in Returned
    BY <2>1
  <2>2. CASE UNCHANGED vars \/ Tick
    BY <2>1, <2>2 DEF vars, Tick
  <2>3. CASE \E c \in Callers : Cancel(c) \/ EnterCancelled(c) \/ EnterUnlimited(c)
    BY <2>1, <2>3 DEF Cancel, EnterCancelled, EnterUnlimited, Start
  <2>4. CASE \E c \in Callers : Enter(c) \/ Reserve(c) \/ Sleep(c)
    BY <2>1, <2>4 DEF Enter, Reserve, TakeSlot, Sleep, Start
  <2>5. ASSUME NEW c \in Callers, Due(c) \/ TimerFires(c) \/ CtxDone(c)
        PROVE  /\ wasted'[d] <= 1
               /\ wasted'[d] > 0 => d \in cancelled' /\ pc'[d] \in Returned
    \* Whoever is still in Wait has wasted nothing so far.
    <3>1. wasted[c] = 0
      <4>1. pc[c] \notin Returned /\ wasted[c] \in Nat
        BY <2>5 DEF Due, TimerFires, CtxDone
      <4>2. QED
        BY <4>1
    <3>2. CASE ReturnNil(c)
      BY <2>1, <3>2 DEF ReturnNil
    <3>3. CASE ReturnErr(c) /\ c \in cancelled
      BY <3>1, <3>3 DEF ReturnErr
    <3>4. QED
      BY <2>5, <3>2, <3>3 DEF Due, TimerFires, CtxDone
  <2>6. QED
    BY <2>2, <2>3, <2>4, <2>5 DEF Next
<1>3. QED
  BY <1>1, <1>2, LimiterTypeOK, PTL DEF Spec

\* A context costs the other callers at most one slot, however often its
\* goroutine retries (property OneSlotLeakPerContext, Wait lines 32-34).
THEOREM LimiterLeaksOneSlot == Spec => []OneSlotLeakPerContext
<1>1. LeakInv => OneSlotLeakPerContext
  BY DEF LeakInv, OneSlotLeakPerContext
<1>2. QED
  BY <1>1, LeaksAreOver, PTL

----------------------------------------------------------------------------
(***************************************************************************)
(* Backlog.  That next is not far ahead of the clock is not inductive: when *)
(* a waiting caller returns, next must come closer.  It does because slots  *)
(* that are due count for nobody, so the bound is stated at every instant   *)
(* from now on, with the callers whose slot lies beyond that instant.       *)
(***************************************************************************)
Accounts(c) == pc[c] \in Waiting \/ wasted[c] > 0

Beyond(t) == {c \in Callers : Accounts(c) /\ slot[c] > t}

BacklogInv ==
    /\ IsFiniteSet({c \in Callers : Accounts(c)})
    /\ \A t \in Nat : t >= now => next <= t + interval * (1 + Cardinality(Beyond(t)))

\* The callers beyond an instant are finitely many, since those with a slot are.
LEMMA BeyondIsFinite ==
    ASSUME IsFiniteSet({c \in Callers : Accounts(c)}), NEW t
    PROVE  IsFiniteSet(Beyond(t)) /\ Cardinality(Beyond(t)) \in Nat
<1>1. Beyond(t) \subseteq {c \in Callers : Accounts(c)}
  BY DEF Beyond
<1>2. QED
  BY <1>1, FS_Subset, FS_CardinalityType

\* The slot taken under the mutex is beyond every instant before it.
LEMMA ReserveKeepsBacklog ==
    ASSUME TypeOK, LeakInv, BacklogInv, NEW c \in Callers, Reserve(c)
    PROVE  BacklogInv'
<1>1. /\ now \in Nat /\ next \in Nat /\ interval \in Nat
      /\ FirstFree = IF next < now THEN now ELSE next
      /\ UNCHANGED <<now, interval, wasted>>
      /\ next' = FirstFree + interval
      /\ slot' = [slot EXCEPT ![c] = FirstFree]
      /\ pc' = [pc EXCEPT ![c] = "reserved"]
  BY DEF TypeOK, Reserve, TakeSlot, FirstFree
<1>2. ~Accounts(c)
  BY DEF Reserve, TakeSlot, LeakInv, Accounts, Waiting, Returned
<1>3. /\ Accounts(c)' /\ slot'[c] = FirstFree
      /\ \A d \in Callers \ {c} : (Accounts(d)' <=> Accounts(d)) /\ slot'[d] = slot[d]
  BY <1>1 DEF TypeOK, Accounts, Waiting
<1>4. {d \in Callers : Accounts(d)}' = {d \in Callers : Accounts(d)} \cup {c}
  BY <1>3
<1>5. IsFiniteSet({d \in Callers : Accounts(d)}')
  BY <1>4, FS_AddElement DEF BacklogInv
<1>6. ASSUME NEW t \in Nat, t >= now
      PROVE  next' <= t + interval * (1 + Cardinality(Beyond(t)'))
  <2> DEFINE n == Cardinality(Beyond(t))
  <2>1. IsFiniteSet(Beyond(t)) /\ n \in Nat
    BY BeyondIsFinite DEF BacklogInv
  <2>2. CASE t >= FirstFree
    <3>1. Beyond(t)' = Beyond(t)
      BY <1>1, <1>2, <1>3, <2>2 DEF Beyond
    <3>2. \A m, d \in Nat : d * (1 + m) >= d /\ d * (1 + m) \in Nat
      OBVIOUS
    <3>3. interval * (1 + n) >= interval /\ interval * (1 + n) \in Nat
      BY <1>1, <2>1, <3>2
    <3>4. next' <= t + interval * (1 + n)
      BY <1>1, <2>2, <3>3
    <3>5. QED
      BY <3>1, <3>4
  <2>3. CASE t < FirstFree
    <3>1. FirstFree = next
      BY <1>1, <1>6, <2>3
    <3>2. Beyond(t)' = Beyond(t) \cup {c} /\ c \notin Beyond(t)
      BY <1>1, <1>2, <1>3, <2>3 DEF Beyond
    <3>3. Cardinality(Beyond(t)') = n + 1
      BY <2>1, <3>2, FS_AddElement
    <3>4. next <= t + interval * (1 + n)
      BY <1>6 DEF BacklogInv
    <3>5. interval * (1 + (n + 1)) = interval * (1 + n) + interval
      BY <1>1, <2>1
    <3>6. QED
      BY <1>1, <2>1, <3>1, <3>3, <3>4, <3>5
  <2>4. QED
    BY <1>1, <2>2, <2>3
<1>7. QED
  BY <1>1, <1>5, <1>6 DEF BacklogInv

\* An active caller is delayed by nothing but the callers that wait and the slots
\* that cancelled ones left (property BoundedBacklog, Wait lines 39-46).
THEOREM LimiterBacklogIsExplained == Spec => []BoundedBacklog
<1>1. Init => BacklogInv
  <2> SUFFICES ASSUME Init PROVE BacklogInv
    OBVIOUS
  <2>1. {c \in Callers : Accounts(c)} = {}
    BY DEF Init, Accounts, Waiting
  <2>2. \A t : Beyond(t) = {}
    BY <2>1 DEF Beyond
  <2>3. interval \in Nat
    BY NewLimiterType, RpmAssumption DEF Init
  <2>4. \A t \in Nat : next <= t + interval * (1 + 0)
    BY <2>3 DEF Init
  <2>5. QED
    BY <2>1, <2>2, <2>4, FS_EmptySet DEF BacklogInv
<1>2. TypeOK /\ LeakInv /\ BacklogInv /\ [Next]_vars => BacklogInv'
  <2> SUFFICES ASSUME TypeOK, LeakInv, BacklogInv, [Next]_vars
               PROVE  BacklogInv'
    OBVIOUS
  \* What every step but Reserve does to the accounts.
  <2> DEFINE Settles ==
        /\ now' >= now /\ now' \in Nat
        /\ UNCHANGED <<next, interval>>
        /\ \A d \in Callers : Accounts(d)' => Accounts(d)
        /\ \A d \in Callers : Accounts(d) =>
              slot'[d] = slot[d] /\ (Accounts(d)' \/ slot[d] <= now)
  <2>1. ASSUME Settles PROVE BacklogInv'
    <3>1. {d \in Callers : Accounts(d)}' \subseteq {d \in Callers : Accounts(d)}
      BY <2>1
    <3>2. IsFiniteSet({d \in Callers : Accounts(d)}')
      BY <3>1, FS_Subset DEF BacklogInv
    <3>3. ASSUME NEW t \in Nat, t >= now' PROVE Beyond(t)' = Beyond(t)
      BY <2>1, <3>3 DEF Beyond, TypeOK
    <3>4. ASSUME NEW t \in Nat, t >= now'
          PROVE  next' <= t + interval' * (1 + Cardinality(Beyond(t)'))
      BY <2>1, <3>3, <3>4 DEF BacklogInv, TypeOK
    <3>5. QED
      BY <3>2, <3>4 DEF BacklogInv
  <2> USE DEF Accounts, Waiting, limiter, history
  <2>2. CASE Tick
    BY <2>1, <2>2 DEF Tick, TypeOK
  <2>3. ASSUME NEW c \in Callers, Cancel(c) \/ EnterCancelled(c) \/ EnterUnlimited(c)
        PROVE  BacklogInv'
    BY <2>1, <2>3 DEF Cancel, EnterCancelled, EnterUnlimited, Start, TypeOK, Returned
  <2>4. ASSUME NEW c \in Callers, Enter(c) \/ Sleep(c)
        PROVE  BacklogInv'
    BY <2>1, <2>4 DEF Enter, Sleep, Start, TypeOK, Returned
  <2>5. ASSUME NEW c \in Callers, Reserve(c)
        PROVE  BacklogInv'
    BY <2>5, ReserveKeepsBacklog
  <2>6. ASSUME NEW c \in Callers, Due(c) \/ TimerFires(c) \/ CtxDone(c)
        PROVE  BacklogInv'
    <3>1. CASE ReturnNil(c) /\ slot[c] <= now
      BY <2>1, <3>1 DEF ReturnNil, TypeOK
    <3>2. CASE ReturnErr(c)
      <4>1. Accounts(c)
        BY <2>6 DEF Due, TimerFires, CtxDone
      <4>2. QED
        BY <2>1, <3>2, <4>1 DEF ReturnErr, TypeOK
    <3>3. QED
      BY <2>6, <3>1, <3>2 DEF Due, TimerFires, CtxDone
  <2>7. CASE UNCHANGED vars
    BY <2>1, <2>7 DEF vars, TypeOK
  <2>8. QED
    BY <2>2, <2>3, <2>4, <2>5, <2>6, <2>7 DEF Next
<1>3. TypeOK /\ BacklogInv => BoundedBacklog
  <2> SUFFICES ASSUME TypeOK, BacklogInv PROVE BoundedBacklog
    OBVIOUS
  <2> DEFINE W == {c \in Callers : pc[c] \in Waiting}
             L == {c \in Callers : wasted[c] > 0}
  <2>1. IsFiniteSet(W) /\ IsFiniteSet(L)
    <3>1. W \subseteq {c \in Callers : Accounts(c)} /\ L \subseteq {c \in Callers : Accounts(c)}
      BY DEF Accounts
    <3>2. QED
      BY <3>1, FS_Subset DEF BacklogInv
  <2>2. Beyond(now) \subseteq W \cup L
    BY DEF Beyond, Accounts
  <2>3. Cardinality(W \cup L) <= Cardinality(W) + Cardinality(L) /\ IsFiniteSet(W \cup L)
    <3>1. Cardinality(W \cap L) \in Nat
      BY <2>1, FS_Intersection, FS_CardinalityType
    <3>2. Cardinality(W) \in Nat /\ Cardinality(L) \in Nat
      BY <2>1, FS_CardinalityType
    <3> HIDE DEF W, L
    <3>3. /\ IsFiniteSet(W \cup L)
          /\ Cardinality(W \cup L) = Cardinality(W) + Cardinality(L) - Cardinality(W \cap L)
      BY <2>1, FS_Union
    <3>4. QED
      BY <3>1, <3>2, <3>3
  <2>4. Cardinality(Beyond(now)) <= Cardinality(W) + Cardinality(L)
    BY <2>2, <2>3, <2>1, FS_Subset, FS_CardinalityType
  <2>5. \A m, n, d \in Nat : m <= n => d * (1 + m) <= d * (1 + n)
    OBVIOUS
  <2>6. next <= now + interval * (1 + Cardinality(Beyond(now)))
    BY DEF BacklogInv, TypeOK
  <2>7. Cardinality(Beyond(now)) \in Nat /\ Cardinality(W) + Cardinality(L) \in Nat
    BY <2>1, BeyondIsFinite, FS_CardinalityType DEF BacklogInv
  <2>8. interval * (1 + Cardinality(Beyond(now)))
            <= interval * (1 + (Cardinality(W) + Cardinality(L)))
    BY <2>4, <2>5, <2>7 DEF TypeOK
  <2>9. next <= now + interval * (1 + (Cardinality(W) + Cardinality(L)))
    BY <2>6, <2>7, <2>8 DEF TypeOK
  <2>10. QED
    BY <2>1, <2>9, FS_CardinalityType DEF BoundedBacklog, TypeOK
<1>4. QED
  BY <1>1, <1>2, <1>3, LimiterTypeOK, LeaksAreOver, PTL DEF Spec

----------------------------------------------------------------------------
(***************************************************************************)
(* Refinement.  Callers return in an order of their own, so the schedule of *)
(* the permissions does not follow from the schedule of the slots alone:    *)
(* the slots still held must be apart from each other and from the slots    *)
(* already used, and all of them behind next.                               *)
(***************************************************************************)
Apart(a, b) == a - b >= interval \/ b - a >= interval

Holds(c) == pc[c] \in Waiting

ScheduleInv ==
    /\ \A c \in Callers : Holds(c) \/ pc[c] = "entered" => interval # 0
    /\ \A g \in granted : g <= now /\ g + interval <= next
    /\ \A c \in Callers : Holds(c) => slot[c] + interval <= next
    /\ \A c \in Callers : \A g \in granted : Holds(c) => Apart(slot[c], g)
    /\ \A c, d \in Callers : Holds(c) /\ Holds(d) /\ c # d => Apart(slot[c], slot[d])

\* A slot taken under the mutex is apart from every slot held or used.
LEMMA ReserveKeepsSchedule ==
    ASSUME TypeOK, ScheduleInv, NEW c \in Callers, Reserve(c)
    PROVE  ScheduleInv'
<1>1. /\ FirstFree \in Nat /\ next <= FirstFree /\ interval \in Nat /\ interval # 0
      /\ next \in Nat /\ now \in Nat /\ granted \subseteq Nat
  BY DEF TypeOK, FirstFree, ScheduleInv, Reserve, TakeSlot
<1>2. /\ next' = FirstFree + interval
      /\ UNCHANGED <<now, interval, granted>>
  BY DEF Reserve, TakeSlot
<1>3. /\ slot'[c] = FirstFree /\ Holds(c)' /\ ~Holds(c)
      /\ \A d \in Callers \ {c} : slot'[d] = slot[d] /\ slot[d] \in Nat /\ pc'[d] = pc[d]
  BY DEF Reserve, TakeSlot, TypeOK, Holds, Waiting
<1>4. \A d \in Callers \ {c} : Holds(d)' = Holds(d)
  BY <1>3 DEF Holds
<1>5. \A d \in Callers : Holds(d)' \/ pc'[d] = "entered" => interval # 0
  BY <1>1
<1>6. \A g \in granted : g + interval <= next' /\ FirstFree - g >= interval /\ g <= now
  BY <1>1, <1>2 DEF ScheduleInv
<1>7. \A d \in Callers \ {c} : Holds(d) =>
          slot[d] + interval <= next' /\ FirstFree - slot[d] >= interval
  BY <1>1, <1>2, <1>3 DEF ScheduleInv
<1>8. \A d \in Callers : Holds(d)' => slot'[d] + interval <= next'
  BY <1>1, <1>2, <1>3, <1>4, <1>7
<1>9. \A d \in Callers : \A g \in granted : Holds(d)' => Apart(slot'[d], g)
  BY <1>3, <1>4, <1>6 DEF ScheduleInv, Apart
<1>10. \A d, e \in Callers : Holds(d)' /\ Holds(e)' /\ d # e => Apart(slot'[d], slot'[e])
  <2> SUFFICES ASSUME NEW d \in Callers, NEW e \in Callers,
                      Holds(d)', Holds(e)', d # e
               PROVE  Apart(slot'[d], slot'[e])
    OBVIOUS
  <2>1. CASE d # c /\ e # c
    BY <2>1, <1>3, <1>4 DEF ScheduleInv
  <2>2. CASE d = c
    BY <2>2, <1>3, <1>4, <1>7 DEF Apart
  <2>3. CASE e = c
    BY <2>3, <1>3, <1>4, <1>7 DEF Apart
  <2>4. QED
    BY <2>1, <2>2, <2>3
<1>11. QED
  BY <1>2, <1>5, <1>6, <1>8, <1>9, <1>10 DEF ScheduleInv, Apart

\* Giving the permission: the slot joins the used ones.
LEMMA ReturnKeepsSchedule ==
    ASSUME TypeOK, ScheduleInv, NEW c \in Callers, Holds(c), slot[c] <= now, ReturnNil(c)
    PROVE  ScheduleInv' /\ Schedule!Next
<1>1. /\ granted' = granted \cup {slot[c]}
      /\ sent' = sent + 1
      /\ UNCHANGED <<now, interval, next, slot>>
      /\ ~Holds(c)' /\ pc'[c] # "entered"
      /\ \A d \in Callers \ {c} : pc'[d] = pc[d] /\ Holds(d)' = Holds(d)
  BY DEF ReturnNil, TypeOK, Holds, Waiting, limiter
<1>2. slot[c] \in 0 .. now
  BY DEF TypeOK
<1>3. interval # 0 /\ slot[c] + interval <= next
  BY DEF ScheduleInv
<1>4. \A g \in granted : slot[c] - g >= interval \/ g - slot[c] >= interval
  BY DEF ScheduleInv, Apart
<1>5. Schedule!Grant(slot[c])
  BY <1>1, <1>3, <1>4 DEF Schedule!Grant, Schedule!Far
<1>6. Schedule!Next
  BY <1>2, <1>5 DEF Schedule!Next
<1>7. \A d \in Callers : Holds(d)' => d # c /\ Holds(d)
  BY <1>1
<1>8. \A d \in Callers : \A g \in granted' : Holds(d)' => Apart(slot[d], g)
  BY <1>1, <1>7 DEF ScheduleInv
<1>9. ScheduleInv'
  BY <1>1, <1>2, <1>3, <1>7, <1>8 DEF ScheduleInv, Apart
<1>10. QED
  BY <1>6, <1>9

\* The limiter implements SlotSchedule: every permission is given at or after
\* an instant that is an interval away from all the others (SendsOnSchedule).
THEOREM LimiterOnSchedule == Spec => SendsOnSchedule
<1>1. Init => Schedule!Init
  BY NewLimiterType, RpmAssumption DEF Init, Schedule!Init
<1>2. Init => ScheduleInv
  BY DEF Init, ScheduleInv, Holds, Waiting
<1>3. TypeOK /\ ScheduleInv /\ [Next]_vars =>
          ScheduleInv' /\ [Schedule!Next]_Schedule!schedule
  <2> SUFFICES ASSUME TypeOK, ScheduleInv, [Next]_vars
               PROVE  ScheduleInv' /\ [Schedule!Next]_Schedule!schedule
    OBVIOUS
  <2>1. CASE Tick
    <3>1. Schedule!Next
      BY <2>1 DEF Tick, Schedule!Next, Schedule!Tick, limiter, history
    <3>2. ScheduleInv'
      BY <2>1 DEF Tick, ScheduleInv, TypeOK, Holds, Apart, limiter, history
    <3>3. QED
      BY <3>1, <3>2
  <2>2. ASSUME NEW c \in Callers, Cancel(c) \/ EnterCancelled(c) \/ Enter(c) \/ Sleep(c)
        PROVE  ScheduleInv' /\ UNCHANGED Schedule!schedule
    <3>1. UNCHANGED <<now, interval, next, slot, granted, sent>>
      BY <2>2 DEF Cancel, EnterCancelled, Enter, Sleep, limiter, history
    <3>2. \A d \in Callers : Holds(d)' => Holds(d)
      BY <2>2 DEF Cancel, EnterCancelled, Enter, Sleep, Start, TypeOK, Holds,
                  Waiting, limiter, history
    <3>3. \A d \in Callers : pc'[d] = "entered" => pc[d] = "entered" \/ interval # 0
      BY <2>2 DEF Cancel, EnterCancelled, Enter, Sleep, Start, TypeOK, limiter, history
    <3>4. QED
      BY <3>1, <3>2, <3>3 DEF ScheduleInv, Apart, Schedule!schedule
  <2>3. ASSUME NEW c \in Callers, EnterUnlimited(c)
        PROVE  ScheduleInv' /\ Schedule!Next
    <3>1. Schedule!Next
      BY <2>3 DEF EnterUnlimited, Schedule!Next, Schedule!GrantUnlimited, limiter, history
    <3>2. \A d \in Callers : Holds(d)' => Holds(d)
      BY <2>3 DEF EnterUnlimited, TypeOK, Holds, Waiting
    <3>3. \A d \in Callers : pc'[d] = "entered" => pc[d] = "entered"
      BY <2>3 DEF EnterUnlimited, TypeOK
    <3>4. UNCHANGED <<now, interval, next, slot, granted>>
      BY <2>3 DEF EnterUnlimited, limiter, history
    <3>5. ScheduleInv'
      BY <3>2, <3>3, <3>4 DEF ScheduleInv, Apart
    <3>6. QED
      BY <3>1, <3>5
  <2>4. ASSUME NEW c \in Callers, Reserve(c)
        PROVE  ScheduleInv' /\ UNCHANGED Schedule!schedule
    BY <2>4, ReserveKeepsSchedule DEF Reserve, TakeSlot, Schedule!schedule
  <2>5. ASSUME NEW c \in Callers, Due(c) \/ TimerFires(c) \/ CtxDone(c)
        PROVE  ScheduleInv' /\ [Schedule!Next]_Schedule!schedule
    <3>1. Holds(c)
      BY <2>5 DEF Due, TimerFires, CtxDone, Holds, Waiting
    <3>2. CASE ReturnNil(c) /\ slot[c] <= now
      BY <3>1, <3>2, ReturnKeepsSchedule
    <3>3. CASE ReturnErr(c)
      <4>1. UNCHANGED <<now, interval, next, slot, granted, sent>>
        BY <3>3 DEF ReturnErr, limiter
      <4>2. \A d \in Callers : Holds(d)' => Holds(d)
        BY <3>3 DEF ReturnErr, TypeOK, Holds, Waiting
      <4>3. \A d \in Callers : pc'[d] = "entered" => pc[d] = "entered"
        BY <3>3 DEF ReturnErr, TypeOK
      <4>4. ScheduleInv'
        BY <4>1, <4>2, <4>3 DEF ScheduleInv, Apart
      <4>5. UNCHANGED Schedule!schedule
        BY <4>1 DEF Schedule!schedule
      <4>6. QED
        BY <4>4, <4>5
    <3>4. QED
      BY <2>5, <3>2, <3>3 DEF Due, TimerFires, CtxDone, ReturnNil, ReturnErr
  <2>6. CASE UNCHANGED vars
    BY <2>6 DEF vars, ScheduleInv, Holds, Apart, Schedule!schedule
  <2>7. QED
    BY <2>1, <2>2, <2>3, <2>4, <2>5, <2>6 DEF Next
<1>4. QED
  BY <1>1, <1>2, <1>3, LimiterTypeOK, PTL DEF Spec, SendsOnSchedule, Schedule!Spec
=============================================================================
