------------------------------ MODULE Allocate ------------------------------
(***************************************************************************)
(* The budget allocator (internal/pipeline/allocate.go): a fixed-point     *)
(* loop turns fit weights into target shares under a concentration cap and *)
(* a dust floor, then the targets are reconciled with what each publisher  *)
(* can deliver, and whatever a full publisher cannot take is offered to    *)
(* the others, round after round.                                          *)
(*                                                                         *)
(* Floats become integers.  Shares are exact: numerators over a common     *)
(* `unit'.  Money is counted in small units and divided with \div, so      *)
(* Epsilon, the code's 1e-6, must cover one unit of rounding a candidate.  *)
(***************************************************************************)
EXTENDS Integers, FiniteSetsExt, Loops

CONSTANTS
    Candidates,     \* publisher ids competing for budget
    Weights,        \* bound: values of fit^gamma, 0 for missing data
    Inventory,      \* bound: values of deliverableUSD, 0 for missing data
    Totals,         \* bound: stated budgets, 0 when none is stated
    Policies,       \* bound: [max, min] pairs for MaxShare and MinShare
    Whole,          \* the numerator of a share of 1 in a policy
    Epsilon,        \* money too small to place
    MinAlloc        \* minAllocUSD: the smallest amount worth a row

ASSUME CandidatesAssumption == IsFiniteSet(Candidates) /\ Candidates # {}
ASSUME ValuesAssumption ==
    Weights \subseteq Nat /\ Inventory \subseteq Nat /\ Totals \subseteq Nat
ASSUME PoliciesAssumption ==
    /\ Whole \in Nat \ {0}
    /\ Policies \subseteq [max : 1 .. Whole, min : 0 .. Whole]
ASSUME MoneyAssumption ==
    /\ Epsilon \in Nat
    /\ Epsilon >= Cardinality(Candidates)
    /\ MinAlloc \in Nat
    /\ MinAlloc > Epsilon

VARIABLES
    policy,         \* AllocParams.MaxShare and MinShare
    origWeight,     \* fit^gamma of each candidate, not normalised
    deliverable,    \* the money each candidate's inventory can absorb
    total,          \* AllocParams.TotalUSD, once Allocate has filled it in
    phase,          \* "split", "target", "settle" or "done"
    live,           \* the keys of `share': the surviving candidates
    locked,         \* those pinned at the concentration cap
    share, unit,    \* the share of a survivor is share[id] / unit
    pass,           \* passes of the fixed-point loop made so far
    settled,        \* the loop stopped because nothing changed
    amount,         \* the money given to each survivor
    round,          \* rounds of the reconciliation made so far
    rows            \* the ids emitted as allocations

inputs == <<policy, origWeight, deliverable, total>>
shares == <<live, locked, share, unit, pass, settled>>
vars == <<inputs, phase, shares, amount, round, rows>>

SmallerOf(a, b) == IF a < b THEN a ELSE b

\* With no usable fit at all the split is even.
SplitWeight ==
    IF SumOver(Candidates, origWeight) = 0
    THEN [id \in Candidates |-> 1]
    ELSE origWeight

\* RecommendedBudgetUSD, for fit weights w and capacities d: the budget at
\* which the first publisher that takes a share of it is full.
RecommendedBudget(w, d) ==
    LET able == {id \in Candidates : d[id] > 0}
        sum  == SumOver(able, w)
        ceilings == IF sum = 0
                    THEN {Cardinality(able) * d[id] : id \in able}
                    ELSE {(d[id] * sum) \div w[id] : id \in {i \in able : w[i] > 0}}
    IN IF able = {} THEN 0
       ELSE CHOOSE b \in ceilings : \A c \in ceilings : b <= c

Init ==
    /\ policy \in Policies
    /\ origWeight \in [Candidates -> Weights]
    /\ deliverable \in [Candidates -> Inventory]
    /\ \E stated \in Totals :
        total = IF stated > 0 THEN stated
                ELSE RecommendedBudget(origWeight, deliverable)
    /\ phase = "split"
    /\ live = Candidates
    /\ locked = {}
    /\ share = SplitWeight
    /\ unit = SumOver(Candidates, SplitWeight)
    /\ pass = 0
    /\ settled = FALSE
    /\ amount = [id \in Candidates |-> 0]
    /\ round = 0
    /\ rows = {}

---------------------------------------------------------------------------
(***************************************************************************)
(* The fixed-point loop.                                                   *)
(***************************************************************************)

SinglePass == 1

maxAllocPasses == 5

Free == live \ locked

\* What the locked publishers leave is shared by the free ones in proportion to
\* their weights.  Free shares of zero cannot be scaled and stay as they are.
NormalUnit ==
    IF SumOver(Free, share) > 0 THEN SumOver(Free, SplitWeight) * Whole ELSE unit

NormalIgnoresLocked ==
    IF SumOver(Free, share) > 0
    THEN [id \in Candidates |->
            IF id \in locked THEN policy.max * SumOver(Free, SplitWeight)
            ELSE IF id \in Free THEN SplitWeight[id] * Whole
            ELSE 0]
    ELSE share

Normal ==
    IF SumOver(Free, share) > 0
    THEN [id \in Candidates |->
            IF id \in locked THEN policy.max * SumOver(Free, SplitWeight)
            ELSE IF id \in Free
                 THEN SplitWeight[id] * (Whole - policy.max * Cardinality(locked))
            ELSE 0]
    ELSE share

OverCap(s, u) == {id \in Free : s[id] * Whole > policy.max * u}

SurvivorsInverted(dusty) == IF dusty = {} THEN {live} ELSE {dusty}

SurvivorsUnguarded(dusty) == {live \ dusty}

\* Which of the dusty ones go: all, but never the last survivor, and then map
\* iteration order decides which one is the last.
SurvivorsAfter(dusty) ==
    IF dusty = live THEN {{id} : id \in live} ELSE {live \ dusty}

\* One pass: normalise, pin what exceeds the cap, drop the dust.
Pass ==
    /\ phase = "split"
    /\ pass < maxAllocPasses
    /\ LET s == Normal
           u == NormalUnit
           over == OverCap(s, u)
           dusty == {id \in Free \ over : s[id] * Whole < policy.min * u}
       IN \E rest \in SurvivorsAfter(dusty) :
            /\ live' = rest
            /\ locked' = locked \cup over
            /\ share' = [id \in Candidates |->
                            IF id \in over THEN policy.max * (u \div Whole)
                            ELSE IF id \in rest THEN s[id]
                            ELSE 0]
            /\ unit' = u
            /\ pass' = pass + 1
            /\ settled' = (over = {} /\ rest = live)
            /\ phase' = IF settled' \/ pass' = maxAllocPasses THEN "target" ELSE "split"
    /\ UNCHANGED <<inputs, amount, round, rows>>

---------------------------------------------------------------------------
(***************************************************************************)
(* Reconciliation with the inventory.                                      *)
(***************************************************************************)

TargetUnclamped ==
    /\ phase = "target"
    /\ \E sum \in {SumOver(live, share)} :
         /\ amount' = [id \in Candidates |->
                          IF sum > 0 /\ id \in live
                          THEN (share[id] * total) \div sum ELSE 0]
         /\ phase' = IF sum > 0 THEN "settle" ELSE "done"
    /\ UNCHANGED <<inputs, shares, round, rows>>

\* Each survivor gets its target or its ceiling, whichever is smaller.  When
\* the only survivor has no share at all there is no allocation.
Target ==
    /\ phase = "target"
    /\ \E sum \in {SumOver(live, share)} :
         /\ amount' = [id \in Candidates |->
                          IF sum > 0 /\ id \in live
                          THEN SmallerOf((share[id] * total) \div sum, deliverable[id])
                          ELSE 0]
         /\ phase' = IF sum > 0 THEN "settle" ELSE "done"
    /\ UNCHANGED <<inputs, shares, round, rows>>

Spent == SumOver(live, amount)

Headroom == {id \in live : deliverable[id] - amount[id] > Epsilon}

\* What a survivor is offered of the leftover: its part by weight, or an even
\* part when no survivor with headroom has any weight.
OfferByWeightOnly(id, left) ==
    IF origWeight[id] > 0
    THEN (left * origWeight[id]) \div SumOver(Headroom, origWeight)
    ELSE 0

OfferUndivided(id, left) == left

Offer(id, left) ==
    IF SumOver(Headroom, origWeight) > 0
    THEN (left * origWeight[id]) \div SumOver(Headroom, origWeight)
    ELSE left \div Cardinality(Headroom)

RoundsLeft == round < Cardinality(live)

\* One round: the leftover is offered to whoever has headroom.
Redistribute ==
    /\ phase = "settle"
    /\ RoundsLeft
    /\ Headroom # {}
    /\ \E left \in {total - Spent} :
         /\ left > Epsilon
         /\ amount' = [id \in Candidates |->
                          IF id \in Headroom
                          THEN SmallerOf(amount[id] + Offer(id, left), deliverable[id])
                          ELSE amount[id]]
    /\ round' = round + 1
    /\ UNCHANGED <<inputs, phase, shares, rows>>

\* Nothing left to place, nobody to take it, or no round left: the survivors
\* with an amount worth a row are emitted.
Emit ==
    /\ phase = "settle"
    /\ \/ ~RoundsLeft
       \/ total - Spent <= Epsilon
       \/ Headroom = {}
    /\ rows' = {id \in live : amount[id] >= MinAlloc}
    /\ phase' = "done"
    /\ UNCHANGED <<inputs, shares, amount, round>>

Next == Pass \/ Target \/ Redistribute \/ Emit

Spec == Init /\ [][Next]_vars

---------------------------------------------------------------------------
(***************************************************************************)
(* Properties.                                                             *)
(***************************************************************************)

\* The type invariant of the allocator.
TypeOK ==
    /\ policy \in Policies
    /\ origWeight \in [Candidates -> Weights]
    /\ deliverable \in [Candidates -> Inventory]
    /\ total \in Nat
    /\ phase \in {"split", "target", "settle", "done"}
    /\ live \in SUBSET Candidates
    /\ locked \in SUBSET live
    /\ share \in [Candidates -> Nat]
    /\ unit \in Nat
    /\ pass \in 0 .. maxAllocPasses
    /\ settled \in BOOLEAN
    /\ amount \in [Candidates -> Nat]
    /\ round \in 0 .. Cardinality(Candidates)
    /\ rows \in SUBSET live

\* The dust floor never drops the last survivor (allocate.go:285): some
\* publisher remains however the passes went.
SomeoneSurvives == live # {}

\* The publishers pinned at the cap never hold more than the whole budget, so
\* what they leave to the others, 1 - lockedTotal, is never negative
\* (allocate.go:266).
LockedFitTheWhole == Cardinality(locked) * policy.max <= Whole

\* Five passes are enough: when the loop ends the targets respect the cap,
\* unless the survivors are too few for it, and none is dust unless it is the
\* only one (allocate.go:254-301).
TargetsHonourPolicy ==
    phase = "target" =>
        LET sum == SumOver(live, share) IN
        \A id \in live :
            /\ \/ share[id] * Whole <= policy.max * sum
               \/ policy.max * Cardinality(live) < Whole
            /\ \/ share[id] * Whole >= policy.min * sum
               \/ live = {id}

\* No publisher is ever booked for more than its inventory can deliver, the
\* invariant without exceptions (allocate.go:122-126).
SOVCeiling == \A id \in Candidates : amount[id] <= deliverable[id]

\* However the leftover is passed around, no money is spent that is not there.
NeverOverspends == Spent <= total

\* Money that is left over could not have been placed on the publishers that kept
\* a share, including when there is no row at all: each of them is full, or the
\* only one has no weight and is allotted nothing (allocate.go:343-347, 381-383).
\* A publisher that the dust floor dropped may still have inventory.
ShortfallIsReal ==
    phase = "done" /\ total - Spent > Epsilon =>
        Headroom = {} \/ SumOver(live, share) = 0

\* At or below the recommended budget nothing clips: every survivor receives its
\* target at once (allocate.go:30-32, 41).
NothingClipsAtTheRecommendation ==
    phase = "settle" /\ round = 0 /\ total <= RecommendedBudget(origWeight, deliverable)
        => total - Spent <= Epsilon
=============================================================================
