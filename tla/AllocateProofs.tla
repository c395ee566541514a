--------------------------- MODULE AllocateProofs ---------------------------
(***************************************************************************)
(* The allocator, for any candidates, weights, inventories, budgets and    *)
(* policies: what the cap and the floor promise at the end of the          *)
(* fixed-point loop, and what the reconciliation never does with money.    *)
(***************************************************************************)
EXTENDS Allocate, LoopTheorems

(***************************************************************************)
(* Arithmetic.                                                             *)
(***************************************************************************)

\* Integer division rounds down by less than one.
LEMMA Quotient ==
    ASSUME NEW n \in Nat, NEW d \in Nat, d > 0
    PROVE  /\ n \div d \in Nat
           /\ d * (n \div d) <= n
           /\ n < d * (n \div d) + d
OBVIOUS

\* A positive factor can be taken out of a comparison.
LEMMA Cancel ==
    ASSUME NEW d \in Nat, d > 0, NEW a \in Int, NEW b \in Int, d * a <= d * b
    PROVE  a <= b
OBVIOUS

\* Multiplying by something that is not negative keeps a comparison.
LEMMA Scale ==
    ASSUME NEW d \in Nat, NEW a \in Int, NEW b \in Int, a <= b
    PROVE  d * a <= d * b
OBVIOUS

\* A product of naturals is one.
LEMMA Product ==
    ASSUME NEW a \in Nat, NEW b \in Nat
    PROVE  a * b \in Nat
OBVIOUS

\* Money divided in proportion to weights: the parts fit the money, and rounding
\* leaves at most one unit behind for each of them.
LEMMA PartsFit ==
    ASSUME NEW S, IsFiniteSet(S),
           NEW f, \A x \in S : f[x] \in Nat,
           SumOver(S, f) > 0, NEW money \in Nat,
           NEW q, \A x \in S : q[x] = (f[x] * money) \div SumOver(S, f)
    PROVE  /\ \A x \in S : q[x] \in Nat
           /\ SumOver(S, q) \in Nat
           /\ SumOver(S, q) <= money
           /\ money - SumOver(S, q) <= Cardinality(S)
<1> DEFINE D == SumOver(S, f)
<1>1. D \in Nat /\ D > 0 /\ Cardinality(S) \in Nat
  BY SumIsNat, FS_CardinalityType
<1> HIDE DEF D
<1>2. \A x \in S : q[x] = (f[x] * money) \div D
  BY DEF D
<1>3. \A x \in S : f[x] * money \in Nat
  BY Product
<1>4. \A x \in S : /\ q[x] \in Nat
                   /\ D * q[x] <= f[x] * money
                   /\ f[x] * money < D * q[x] + D
  BY <1>1, <1>2, <1>3, Quotient
<1> DEFINE paid == [x \in S |-> D * q[x]]
           owed == [x \in S |-> money * f[x]]
           slack == [x \in S |-> D]
           most == [x \in S |-> D * q[x] + D]
<1>5. \A x \in S : /\ paid[x] = D * q[x] /\ paid[x] \in Int
                   /\ owed[x] = money * f[x] /\ owed[x] \in Int
                   /\ slack[x] = D /\ slack[x] \in Int
                   /\ most[x] = paid[x] + slack[x] /\ most[x] \in Int
                   /\ paid[x] <= owed[x] /\ owed[x] <= most[x]
  BY <1>1, <1>4
<1> HIDE DEF paid, owed, slack, most
<1>6. SumOver(S, q) \in Nat
  BY <1>4, SumIsNat
<1>7. SumOver(S, paid) = D * SumOver(S, q)
  BY <1>1, <1>4, <1>5, SumTimes
<1>8. SumOver(S, owed) = money * D
  BY <1>5, SumTimes DEF D
<1>9. SumOver(S, slack) = D * Cardinality(S)
  BY <1>1, <1>5, SumOfConstant
<1>10. SumOver(S, most) = SumOver(S, paid) + SumOver(S, slack)
  BY <1>5, SumPlus
<1>11. SumOver(S, paid) <= SumOver(S, owed) /\ SumOver(S, owed) <= SumOver(S, most)
  BY <1>5, SumMonotone
<1>12. D * SumOver(S, q) <= D * money
  BY <1>1, <1>7, <1>8, <1>11
<1>13. D * money <= D * (SumOver(S, q) + Cardinality(S))
  BY <1>1, <1>6, <1>7, <1>8, <1>9, <1>10, <1>11
<1>14. SumOver(S, q) <= money /\ money <= SumOver(S, q) + Cardinality(S)
  BY <1>1, <1>6, <1>12, <1>13, Cancel
<1> QED
  BY <1>1, <1>4, <1>6, <1>14

(***************************************************************************)
(* The candidates.                                                         *)
(***************************************************************************)

\* Every subset of the candidates is finite and no larger than all of them.
LEMMA Subsets ==
    ASSUME NEW S, S \subseteq Candidates
    PROVE  /\ IsFiniteSet(S)
           /\ Cardinality(S) \in Nat
           /\ Cardinality(S) <= Cardinality(Candidates)
           /\ Cardinality(S) = 0 <=> S = {}
BY CandidatesAssumption, FS_Subset, FS_CardinalityType, FS_EmptySet

\* The weights of the split are naturals, and some candidate has a positive one.
LEMMA SplitWeights ==
    ASSUME origWeight \in [Candidates -> Nat]
    PROVE  /\ SplitWeight \in [Candidates -> Nat]
           /\ SumOver(Candidates, SplitWeight) \in Nat
           /\ SumOver(Candidates, SplitWeight) > 0
<1>1. CASE SumOver(Candidates, origWeight) = 0
  <2>1. SplitWeight = [id \in Candidates |-> 1]
    BY <1>1 DEF SplitWeight
  <2>2. SumOver(Candidates, SplitWeight) = 1 * Cardinality(Candidates)
    BY <2>1, CandidatesAssumption, SumOfConstant
  <2> QED
    BY <2>1, <2>2, Subsets, CandidatesAssumption
<1>2. CASE SumOver(Candidates, origWeight) # 0
  <2>1. SumOver(Candidates, origWeight) \in Nat
    BY SumIsNat, CandidatesAssumption
  <2> QED
    BY <1>2, <2>1 DEF SplitWeight
<1> QED
  BY <1>1, <1>2

\* The recommended budget is an amount of money, whatever fits and capacities it
\* is computed from.
LEMMA RecommendedBudgetIsNat ==
    ASSUME NEW w \in [Candidates -> Nat], NEW d \in [Candidates -> Nat]
    PROVE  RecommendedBudget(w, d) \in Nat
<1> DEFINE able == {id \in Candidates : d[id] > 0}
           sum == SumOver(able, w)
           even == {Cardinality(able) * d[id] : id \in able}
           weighed == {(d[id] * sum) \div w[id] : id \in {i \in able : w[i] > 0}}
           ceilings == IF sum = 0 THEN even ELSE weighed
<1>1. RecommendedBudget(w, d) =
        IF able = {} THEN 0 ELSE CHOOSE b \in ceilings : \A c \in ceilings : b <= c
  BY DEF RecommendedBudget
<1>2. IsFiniteSet(able) /\ Cardinality(able) \in Nat /\ able \subseteq Candidates
  BY Subsets
<1>3. sum \in Nat
  BY <1>2, SumIsNat
<1>4. sum = 0 <=> \A id \in able : w[id] = 0
  BY <1>2, SumIsZero
<1> HIDE DEF sum
<1>5. even \subseteq Nat
  BY <1>2, Product
<1>6. weighed \subseteq Nat
  BY <1>2, <1>3, Product, Quotient
<1>7. able # {} => ceilings # {}
  <2>1. CASE sum = 0
    BY <2>1
  <2>2. CASE sum # 0
    <3>1. \E id \in able : w[id] > 0
      BY <2>2, <1>2, <1>4
    <3> QED
      BY <2>2, <3>1
  <2> QED
    BY <2>1, <2>2
<1>8. ceilings \subseteq Nat
  BY <1>5, <1>6
<1> HIDE DEF ceilings, able
<1>9. CASE able # {}
  <2>1. \E b \in ceilings : \A c \in ceilings : b <= c
    BY <1>7, <1>8, <1>9, LeastNatural
  <2> QED
    BY <1>1, <1>8, <1>9, <2>1
<1> QED
  BY <1>1, <1>9

(***************************************************************************)
(* The fixed-point loop: types, a survivor, and a lock that fits.          *)
(***************************************************************************)

\* What the unlocked candidates weigh together, and what the locked ones leave
\* of the whole.
FreeWeight == SumOver(Free, SplitWeight)
Leftover == Whole - policy.max * Cardinality(locked)

NoMoney == [id \in Candidates |-> 0]

\* The inductive invariant of the loop: its types, that it never loses the last
\* survivor, that the locked fit, and that it comes before any money.
LoopInv ==
    /\ TypeOK
    /\ SomeoneSurvives
    /\ LockedFitTheWhole
    /\ phase \in {"split", "target"} => amount = NoMoney /\ round = 0 /\ rows = {}

\* Types of the inputs that never change.
LEMMA InputTypes ==
    ASSUME TypeOK
    PROVE  /\ policy.max \in Nat /\ policy.max > 0 /\ policy.min \in Nat
           /\ origWeight \in [Candidates -> Nat]
           /\ deliverable \in [Candidates -> Nat]
           /\ Whole \in Nat /\ Whole > 0
<1>1. /\ policy \in Policies
      /\ origWeight \in [Candidates -> Weights]
      /\ deliverable \in [Candidates -> Inventory]
  BY DEF TypeOK
<1>2. policy \in [max : 1 .. Whole, min : 0 .. Whole]
  BY <1>1, PoliciesAssumption
<1>3. Whole \in Nat /\ Whole > 0
  BY PoliciesAssumption
<1>4. policy.max \in Nat /\ policy.max > 0 /\ policy.min \in Nat
  BY <1>2, <1>3
<1>5. origWeight \in [Candidates -> Nat] /\ deliverable \in [Candidates -> Nat]
  BY <1>1, ValuesAssumption
<1> QED
  BY <1>3, <1>4, <1>5

\* What the normalisation of a pass returns, with and without a free share to
\* scale.
LEMMA NormalShares ==
    ASSUME LoopInv
    PROVE  /\ Free \subseteq Candidates /\ Free \cap locked = {} /\ locked \subseteq Candidates
           /\ FreeWeight \in Nat /\ Leftover \in Nat /\ SumOver(Free, share) \in Nat
           /\ SplitWeight \in [Candidates -> Nat]
           /\ SumOver(Free, share) > 0 =>
                /\ NormalUnit = FreeWeight * Whole
                /\ \A id \in Free : Normal[id] = SplitWeight[id] * Leftover
                /\ \A id \in locked : Normal[id] = policy.max * FreeWeight
           /\ SumOver(Free, share) = 0 =>
                /\ NormalUnit = unit
                /\ Normal = share
                /\ \A id \in Free : share[id] = 0
           /\ Normal \in [Candidates -> Nat]
           /\ NormalUnit \in Nat
<1>1. /\ Free \subseteq Candidates /\ Free \cap locked = {} /\ locked \subseteq Candidates
      /\ share \in [Candidates -> Nat] /\ unit \in Nat
  BY DEF LoopInv, TypeOK, Free
<1>2. /\ policy.max \in Nat /\ Whole \in Nat /\ Whole > 0 /\ SplitWeight \in [Candidates -> Nat]
  BY InputTypes, SplitWeights DEF LoopInv
<1>3. FreeWeight \in Nat /\ SumOver(Free, share) \in Nat
  BY <1>1, <1>2, Subsets, SumIsNat DEF FreeWeight
<1>4. Leftover \in Nat
  <2>1. Cardinality(locked) \in Nat
    BY <1>1, Subsets
  <2>2. policy.max * Cardinality(locked) \in Nat
    BY <1>2, <2>1, Product
  <2>3. Cardinality(locked) * policy.max = policy.max * Cardinality(locked)
    BY <1>2, <2>1
  <2> QED
    BY <1>2, <2>2, <2>3 DEF LoopInv, LockedFitTheWhole, Leftover
<1>5. CASE SumOver(Free, share) > 0
  <2>1. NormalUnit = FreeWeight * Whole /\ NormalUnit \in Nat
    BY <1>2, <1>3, <1>5, Product DEF NormalUnit, FreeWeight
  <2>2. Normal = [id \in Candidates |->
                    IF id \in locked THEN policy.max * FreeWeight
                    ELSE IF id \in Free THEN SplitWeight[id] * Leftover
                    ELSE 0]
    BY <1>5 DEF Normal, FreeWeight, Leftover
  <2>3. policy.max * FreeWeight \in Nat /\ \A id \in Candidates : SplitWeight[id] * Leftover \in Nat
    BY <1>2, <1>3, <1>4, Product
  <2>4. Normal \in [Candidates -> Nat]
    BY <2>2, <2>3
  <2>5. \A id \in Free : Normal[id] = SplitWeight[id] * Leftover
    BY <1>1, <2>2
  <2>6. \A id \in locked : Normal[id] = policy.max * FreeWeight
    BY <1>1, <2>2
  <2> QED
    BY <1>1, <1>2, <1>3, <1>4, <1>5, <2>1, <2>4, <2>5, <2>6
<1>6. CASE SumOver(Free, share) = 0
  <2>1. \A id \in Free : share[id] = 0
    BY <1>1, <1>6, Subsets, SumIsZero
  <2>2. Normal = share /\ NormalUnit = unit
    BY <1>6 DEF Normal, NormalUnit
  <2> QED
    BY <1>1, <1>2, <1>3, <1>4, <1>6, <2>1, <2>2
<1> QED
  BY <1>3, <1>5, <1>6

\* Those over the cap weigh more than the cap leaves for them, so that locking
\* them too still fits, with something to spare.
LEMMA OverCapFits ==
    ASSUME LoopInv, NEW over, over = OverCap(Normal, NormalUnit)
    PROVE  /\ over \subseteq Free /\ Cardinality(over) \in Nat
           /\ SumOver(over, SplitWeight) \in Nat
           /\ SumOver(over, SplitWeight) <= FreeWeight
           /\ policy.max * (FreeWeight * Cardinality(over))
                <= Leftover * SumOver(over, SplitWeight)
           /\ over # {} => /\ SumOver(Free, share) > 0
                           /\ FreeWeight > 0
                           /\ policy.max * Cardinality(over) < Leftover
<1> DEFINE W == FreeWeight
           R == Leftover
           k == Cardinality(over)
           m == policy.max
           sum == SumOver(over, SplitWeight)
<1>1. /\ Free \subseteq Candidates /\ W \in Nat /\ R \in Nat /\ SumOver(Free, share) \in Nat
      /\ SplitWeight \in [Candidates -> Nat] /\ NormalUnit \in Nat /\ m \in Nat /\ m > 0
      /\ Whole \in Nat /\ Whole > 0
  BY NormalShares, InputTypes DEF LoopInv
<1>2. over \subseteq Free /\ IsFiniteSet(over) /\ IsFiniteSet(Free) /\ k \in Nat
  BY <1>1, Subsets DEF OverCap
<1>3. (k = 0 <=> over = {}) /\ sum \in Nat
  BY <1>1, <1>2, Subsets, SumIsNat
<1>4. sum <= W
  <2>1. W = SumOver(over \cup (Free \ over), SplitWeight)
    BY <1>2 DEF FreeWeight
  <2>2. IsFiniteSet(Free \ over) /\ SumOver(Free \ over, SplitWeight) \in Nat
    BY <1>1, Subsets, SumIsNat
  <2>3. W = sum + SumOver(Free \ over, SplitWeight)
    BY <1>1, <1>2, <2>1, <2>2, SumSplits
  <2> QED
    BY <1>1, <1>3, <2>2, <2>3
<1>5. CASE over = {}
  <2>1. sum = 0 /\ k = 0
    BY <1>3, <1>5, SumEmpty
  <2> QED
    BY <1>1, <1>2, <1>3, <1>4, <1>5, <2>1
<1>6. CASE over # {}
  <2>1. SumOver(Free, share) > 0
    <3>1. SUFFICES ASSUME SumOver(Free, share) = 0 PROVE FALSE
      BY <1>1
    <3>2. PICK id \in over : TRUE
      BY <1>6
    <3>3. Normal[id] = 0
      BY <1>2, <3>1, NormalShares
    <3>4. Normal[id] * Whole > m * NormalUnit
      BY <3>2 DEF OverCap
    <3>5. m * NormalUnit \in Nat
      BY <1>1, Product
    <3> QED
      BY <1>1, <3>3, <3>4, <3>5
  <2>2. NormalUnit = W * Whole /\ \A id \in Free : Normal[id] = SplitWeight[id] * R
    BY <2>1, NormalShares
  <2>3. \A id \in over : m * W + 1 <= R * SplitWeight[id]
    <3> TAKE id \in over
    <3>1. SplitWeight[id] \in Nat
      BY <1>1, <1>2
    <3>2. (SplitWeight[id] * R) * Whole > m * (W * Whole)
      BY <1>2, <2>2 DEF OverCap
    <3>3. Whole * (R * SplitWeight[id]) > Whole * (m * W)
      BY <1>1, <3>1, <3>2
    <3>4. R * SplitWeight[id] \in Nat /\ m * W \in Nat
      BY <1>1, <3>1, Product
    <3>5. ~(R * SplitWeight[id] <= m * W)
      BY <1>1, <3>3, <3>4, Scale
    <3> QED
      BY <3>4, <3>5
  <2> DEFINE lower == [id \in over |-> m * W + 1]
             upper == [id \in over |-> R * SplitWeight[id]]
  <2>4. m * W \in Nat /\ \A id \in over : SplitWeight[id] \in Nat /\ R * SplitWeight[id] \in Nat
    BY <1>1, <1>2, Product
  <2>5. \A id \in over : lower[id] = m * W + 1 /\ upper[id] = R * SplitWeight[id]
                           /\ lower[id] \in Int /\ upper[id] \in Int /\ lower[id] <= upper[id]
    BY <2>3, <2>4
  <2> HIDE DEF lower, upper
  <2>6. SumOver(over, lower) = (m * W + 1) * k
    BY <1>2, <2>4, <2>5, SumOfConstant
  <2>7. SumOver(over, upper) = R * sum
    BY <1>1, <1>2, <2>4, <2>5, SumTimes
  <2>8. (m * W + 1) * k <= R * sum
    BY <1>2, <2>5, <2>6, <2>7, SumMonotone
  <2>9. m * (W * k) + k <= R * sum
    BY <1>1, <1>2, <2>8
  <2>10. R * sum <= R * W
    BY <1>1, <1>3, <1>4, Scale
  <2>11. k > 0 /\ m * (W * k) \in Nat
    BY <1>1, <1>2, <1>3, <1>6, Product
  <2>12. W > 0
    <3>1. SUFFICES ASSUME W = 0 PROVE FALSE
      BY <1>1
    <3>2. R * W = 0
      BY <1>1, <3>1
    <3> HIDE DEF W, R, k, m, sum
    <3> QED
      BY <1>1, <1>2, <1>3, <2>9, <2>10, <2>11, <3>2, Product
  <2>13. W * (m * k) < W * R
    <3>1. R * sum \in Nat /\ R * W \in Nat /\ R * W = W * R /\ m * (W * k) = W * (m * k)
      BY <1>1, <1>2, <1>3, Product
    <3> HIDE DEF W, R, k, m, sum
    <3> QED
      BY <1>2, <2>9, <2>10, <2>11, <3>1
  <2>14. m * k < R
    <3>1. m * k \in Nat
      BY <1>1, <1>2, Product
    <3>2. ~(R <= m * k)
      BY <1>1, <2>13, <3>1, Scale
    <3> QED
      BY <1>1, <3>1, <3>2
  <2>15. m * (W * k) <= R * sum
    <3>1. R * sum \in Nat
      BY <1>1, <1>3, Product
    <3> HIDE DEF W, R, k, m, sum
    <3> QED
      BY <1>2, <2>9, <2>11, <3>1
  <2> QED
    BY <1>2, <1>3, <1>4, <2>1, <2>12, <2>14, <2>15
<1> QED
  BY <1>5, <1>6

\* What a pass does, its local definitions named.
Over == OverCap(Normal, NormalUnit)
Dusty == {id \in Free \ Over : Normal[id] * Whole < policy.min * NormalUnit}

\* What one pass does: the dust goes, or all but one publisher if everything is dust;
\* whoever is over the cap is pinned to it, and the loop ends when nothing changed or it
\* has run its five passes.
LEMMA PassSteps ==
    ASSUME LoopInv, Pass
    PROVE  /\ Over \subseteq Free /\ Dusty \subseteq Free \ Over
           /\ live' \subseteq live /\ live' # {} /\ locked \cup Over \subseteq live'
           /\ \/ live' = live \ Dusty
              \/ /\ Dusty = live
                 /\ \E id \in live : live' = {id}
           /\ locked' = locked \cup Over
           /\ share' = [id \in Candidates |->
                            IF id \in Over THEN policy.max * (NormalUnit \div Whole)
                            ELSE IF id \in live' THEN Normal[id]
                            ELSE 0]
           /\ unit' = NormalUnit
           /\ pass' = pass + 1
           /\ settled' = (Over = {} /\ live' = live)
           /\ phase' = IF settled' \/ pass' = maxAllocPasses THEN "target" ELSE "split"
           /\ phase = "split" /\ pass < maxAllocPasses
           /\ UNCHANGED <<inputs, amount, round, rows>>
<1>1. Over \subseteq Free /\ Dusty \subseteq Free \ Over
  BY DEF Over, Dusty, OverCap
<1>2. locked \subseteq live /\ live # {} /\ Free = live \ locked
  BY DEF LoopInv, TypeOK, SomeoneSurvives, Free
<1>3. PICK rest \in SurvivorsAfter(Dusty) :
        /\ live' = rest
        /\ locked' = locked \cup Over
        /\ share' = [id \in Candidates |->
                        IF id \in Over THEN policy.max * (NormalUnit \div Whole)
                        ELSE IF id \in rest THEN Normal[id]
                        ELSE 0]
        /\ unit' = NormalUnit
        /\ pass' = pass + 1
        /\ settled' = (Over = {} /\ rest = live)
        /\ phase' = IF settled' \/ pass' = maxAllocPasses THEN "target" ELSE "split"
  BY DEF Pass, Over, Dusty
<1>4. phase = "split" /\ pass < maxAllocPasses /\ UNCHANGED <<inputs, amount, round, rows>>
  BY DEF Pass
<1>5. CASE Dusty = live
  <2>1. PICK id \in live : rest = {id}
    BY <1>5 DEF SurvivorsAfter
  <2>2. locked \cup Over = {}
    BY <1>1, <1>2, <1>5
  <2> QED
    BY <1>1, <1>2, <1>3, <1>4, <1>5, <2>1, <2>2
<1>6. CASE Dusty # live
  <2>1. rest = live \ Dusty
    BY <1>6 DEF SurvivorsAfter
  <2>2. rest # {} /\ locked \cup Over \subseteq rest
    BY <1>1, <1>2, <1>6, <2>1
  <2> QED
    BY <1>1, <1>2, <1>3, <1>4, <2>1, <2>2
<1> QED
  BY <1>5, <1>6

\* The shares a pass leaves: those it pins, and the normalised ones.
LEMMA PassShares ==
    ASSUME LoopInv, Pass
    PROVE  /\ \A id \in Over : share'[id] = policy.max * FreeWeight
           /\ \A id \in live' \ Over : share'[id] = Normal[id]
           /\ share' \in [Candidates -> Nat]
<1>1. /\ Over \subseteq Free /\ live' \subseteq Candidates
      /\ share' = [id \in Candidates |->
                        IF id \in Over THEN policy.max * (NormalUnit \div Whole)
                        ELSE IF id \in live' THEN Normal[id]
                        ELSE 0]
  BY PassSteps DEF LoopInv, TypeOK
<1>2. /\ Free \subseteq Candidates /\ FreeWeight \in Nat /\ Normal \in [Candidates -> Nat]
      /\ Whole \in Nat /\ Whole > 0 /\ policy.max \in Nat
  BY NormalShares, InputTypes DEF LoopInv
<1>3. \A id \in live' \ Over : share'[id] = Normal[id]
  BY <1>1
<1>4. CASE Over = {}
  BY <1>1, <1>2, <1>3, <1>4
<1>5. CASE Over # {}
  <2>1. NormalUnit = FreeWeight * Whole
    BY <1>5, OverCapFits, NormalShares DEF Over
  <2>2. NormalUnit \div Whole = FreeWeight
    BY <1>2, <2>1
  <2>3. policy.max * FreeWeight \in Nat
    BY <1>2, Product
  <2>4. \A id \in Over : share'[id] = policy.max * FreeWeight
    BY <1>1, <1>2, <2>2
  <2>5. share' \in [Candidates -> Nat]
    BY <1>1, <1>2, <2>2, <2>3
  <2> QED
    BY <1>3, <2>4, <2>5
<1> QED
  BY <1>4, <1>5

\* What a pass has locked fits, whoever it locked.
LEMMA PassLocks ==
    ASSUME LoopInv, Pass
    PROVE  /\ Cardinality(locked') = Cardinality(locked) + Cardinality(Over)
           /\ Cardinality(locked') \in Nat
           /\ policy.max * Cardinality(locked') <= Whole
           /\ Over # {} => /\ policy.max * Cardinality(locked') < Whole
                           /\ Cardinality(locked') >= Cardinality(locked) + 1
<1> DEFINE m == policy.max
           l == Cardinality(locked)
           k == Cardinality(Over)
<1>1. /\ locked' = locked \cup Over /\ Over \subseteq Free
      /\ Free \cap locked = {} /\ locked \subseteq Candidates /\ Free \subseteq Candidates
      /\ m \in Nat /\ Whole \in Nat
  BY PassSteps, NormalShares, InputTypes DEF LoopInv
<1>2. IsFiniteSet(locked) /\ IsFiniteSet(Over) /\ l \in Nat /\ k \in Nat /\ (k = 0 <=> Over = {})
  BY <1>1, Subsets
<1>3. Cardinality(locked') = l + k
  <2>1. Cardinality(locked \cup Over) = l + k - Cardinality(locked \cap Over)
    BY <1>2, FS_Union
  <2>2. locked \cap Over = {} /\ Cardinality({}) = 0
    BY <1>1, FS_EmptySet
  <2> QED
    BY <1>1, <1>2, <2>1, <2>2
<1>4. l * m <= Whole /\ Leftover = Whole - m * l
  BY DEF LoopInv, LockedFitTheWhole, Leftover
<1>5. Over # {} => m * k < Leftover
  BY OverCapFits DEF Over
<1>6. m * l \in Nat /\ m * k \in Nat /\ l * m = m * l /\ m * (l + k) = m * l + m * k
  BY <1>1, <1>2, Product
<1>7. /\ m * (l + k) <= Whole
      /\ Over # {} => m * (l + k) < Whole /\ k >= 1
  <2>1. k = 0 => m * k = 0
    BY <1>1
  <2> HIDE DEF m, l, k
  <2> QED
    BY <1>1, <1>2, <1>4, <1>5, <1>6, <2>1
<1> QED
  BY <1>2, <1>3, <1>7

\* The loop's invariant holds before the first pass.
LEMMA LoopStarts ==
    ASSUME Init
    PROVE  LoopInv
<1>1. /\ policy \in Policies /\ origWeight \in [Candidates -> Weights]
      /\ deliverable \in [Candidates -> Inventory]
      /\ phase = "split" /\ live = Candidates /\ locked = {} /\ share = SplitWeight
      /\ unit = SumOver(Candidates, SplitWeight) /\ pass = 0 /\ settled = FALSE
      /\ amount = NoMoney /\ round = 0 /\ rows = {}
  BY DEF Init, NoMoney
<1>2. origWeight \in [Candidates -> Nat] /\ deliverable \in [Candidates -> Nat]
  BY <1>1, ValuesAssumption
<1>3. total \in Nat
  <2>1. PICK stated \in Totals :
          total = IF stated > 0 THEN stated ELSE RecommendedBudget(origWeight, deliverable)
    BY DEF Init
  <2>2. RecommendedBudget(origWeight, deliverable) \in Nat /\ stated \in Nat
    BY <1>2, RecommendedBudgetIsNat, ValuesAssumption
  <2> QED
    BY <2>1, <2>2
<1>4. share \in [Candidates -> Nat] /\ unit \in Nat
  BY <1>1, <1>2, SplitWeights
<1>5. Cardinality(Candidates) \in Nat /\ Cardinality(locked) = 0
  BY <1>1, Subsets
<1>6. policy.max \in Nat /\ Whole \in Nat
  BY <1>1, PoliciesAssumption
<1>7. LockedFitTheWhole
  BY <1>5, <1>6 DEF LockedFitTheWhole
<1>8. TypeOK
  <2>1. amount \in [Candidates -> Nat] /\ rows \in SUBSET live /\ locked \in SUBSET live
    BY <1>1 DEF NoMoney
  <2>2. /\ live \in SUBSET Candidates
        /\ phase \in {"split", "target", "settle", "done"}
        /\ pass \in 0 .. maxAllocPasses /\ round \in 0 .. Cardinality(Candidates)
    <3>1. live = Candidates /\ phase = "split" /\ pass = 0 /\ round = 0
      BY <1>1
    <3> QED
      BY <1>5, <3>1 DEF maxAllocPasses
  <2>4. settled \in BOOLEAN
    <3>1. settled = FALSE
      BY <1>1
    <3> QED
      BY <3>1
  <2>3. /\ policy \in Policies /\ origWeight \in [Candidates -> Weights]
        /\ deliverable \in [Candidates -> Inventory]
    BY <1>1
  <2> QED
    BY <1>3, <1>4, <2>1, <2>2, <2>3, <2>4 DEF TypeOK
<1> QED
  BY <1>1, <1>7, <1>8, CandidatesAssumption DEF LoopInv, SomeoneSurvives

\* The money of a target or of an offer is never negative.
LEMMA TargetAmounts ==
    ASSUME LoopInv, Target
    PROVE  amount' \in [Candidates -> Nat]
<1>1. /\ live \subseteq Candidates /\ share \in [Candidates -> Nat] /\ total \in Nat
      /\ deliverable \in [Candidates -> Nat]
  BY InputTypes DEF LoopInv, TypeOK
<1>2. SumOver(live, share) \in Nat
  BY <1>1, Subsets, SumIsNat
<1>3. amount' = [id \in Candidates |->
                    IF SumOver(live, share) > 0 /\ id \in live
                    THEN SmallerOf((share[id] * total) \div SumOver(live, share), deliverable[id])
                    ELSE 0]
  BY DEF Target
<1>4. ASSUME NEW id \in Candidates PROVE amount'[id] \in Nat
  <2>1. CASE SumOver(live, share) > 0
    <3>1. share[id] * total \in Nat
      BY <1>1, Product
    <3>2. (share[id] * total) \div SumOver(live, share) \in Nat
      BY <1>2, <2>1, <3>1, Quotient
    <3> QED
      BY <1>1, <1>3, <3>2 DEF SmallerOf
  <2>2. CASE ~(SumOver(live, share) > 0)
    BY <1>3, <2>2
  <2> QED
    BY <2>1, <2>2
<1> QED
  BY <1>3, <1>4

\* What those with headroom are offered adds up to the leftover, but for one unit
\* of rounding each.
LEMMA OffersFit ==
    ASSUME TypeOK, Headroom # {}, NEW left \in Nat,
           NEW offer, \A id \in Headroom : offer[id] = Offer(id, left)
    PROVE  /\ \A id \in Headroom : Offer(id, left) \in Nat
           /\ SumOver(Headroom, offer) \in Nat
           /\ SumOver(Headroom, offer) <= left
           /\ left - SumOver(Headroom, offer) <= Cardinality(Headroom)
<1>1. /\ Headroom \subseteq Candidates /\ IsFiniteSet(Headroom)
      /\ origWeight \in [Candidates -> Nat]
      /\ Cardinality(Headroom) \in Nat /\ Cardinality(Headroom) > 0
  <2>1. Headroom \subseteq Candidates
    BY DEF TypeOK, Headroom
  <2> QED
    BY <2>1, InputTypes, Subsets
<1>2. CASE SumOver(Headroom, origWeight) > 0
  <2>1. \A id \in Headroom :
          /\ origWeight[id] \in Nat
          /\ offer[id] = (origWeight[id] * left) \div SumOver(Headroom, origWeight)
    BY <1>1, <1>2 DEF Offer
  <2> QED
    BY <1>1, <1>2, <2>1, PartsFit
<1>3. CASE ~(SumOver(Headroom, origWeight) > 0)
  <2> DEFINE one == [id \in Headroom |-> 1]
  <2>1. \A id \in Headroom : one[id] = 1
    OBVIOUS
  <2> HIDE DEF one
  <2>2. SumOver(Headroom, one) = Cardinality(Headroom)
    BY <1>1, <2>1, SumOfConstant
  <2>3. \A id \in Headroom : offer[id] = (one[id] * left) \div SumOver(Headroom, one)
    BY <1>3, <2>1, <2>2 DEF Offer
  <2> QED
    BY <1>1, <2>1, <2>2, <2>3, PartsFit
<1> QED
  BY <1>2, <1>3

\* What a round does.
LEMMA RoundSteps ==
    ASSUME LoopInv, Redistribute
    PROVE  /\ phase = "settle" /\ round < Cardinality(live) /\ Headroom # {}
           /\ total - Spent \in Nat /\ total - Spent > Epsilon
           /\ \A id \in Headroom :
                 amount'[id] = SmallerOf(amount[id] + Offer(id, total - Spent), deliverable[id])
           /\ \A id \in Candidates \ Headroom : amount'[id] = amount[id]
           /\ amount' \in [Candidates -> Nat]
           /\ round' = round + 1
           /\ UNCHANGED <<inputs, phase, shares, rows>>
<1>1. /\ phase = "settle" /\ round < Cardinality(live) /\ Headroom # {}
      /\ total - Spent > Epsilon
      /\ amount' = [id \in Candidates |->
                      IF id \in Headroom
                      THEN SmallerOf(amount[id] + Offer(id, total - Spent), deliverable[id])
                      ELSE amount[id]]
      /\ round' = round + 1
      /\ UNCHANGED <<inputs, phase, shares, rows>>
  BY DEF Redistribute, RoundsLeft
<1>2. /\ live \subseteq Candidates /\ amount \in [Candidates -> Nat] /\ total \in Nat
      /\ deliverable \in [Candidates -> Nat] /\ Headroom \subseteq Candidates /\ TypeOK
  BY InputTypes DEF LoopInv, TypeOK, Headroom
<1>3. Spent \in Nat
  BY <1>2, Subsets, SumIsNat DEF Spent
<1>4. total - Spent \in Nat
  BY <1>1, <1>2, <1>3, MoneyAssumption
<1> DEFINE offer == [id \in Headroom |-> Offer(id, total - Spent)]
<1>5. \A id \in Headroom : offer[id] = Offer(id, total - Spent)
  OBVIOUS
<1>6. \A id \in Headroom : Offer(id, total - Spent) \in Nat
  BY <1>1, <1>2, <1>4, <1>5, OffersFit
<1>7. amount' \in [Candidates -> Nat]
  BY <1>1, <1>2, <1>6 DEF SmallerOf
<1> QED
  BY <1>1, <1>2, <1>4, <1>7

\* The loop's invariant survives a pass, the turn to targets, a round and the end.
LEMMA LoopSteps ==
    ASSUME LoopInv, [Next]_vars
    PROVE  LoopInv'
<1>1. CASE Pass
  <2>1. /\ live' \subseteq live /\ live' # {} /\ locked \cup Over \subseteq live'
        /\ locked' = locked \cup Over
        /\ unit' = NormalUnit /\ pass' = pass + 1 /\ pass < maxAllocPasses
        /\ settled' \in BOOLEAN /\ phase' \in {"split", "target"} /\ phase = "split"
        /\ UNCHANGED <<inputs, amount, round, rows>>
    BY <1>1, PassSteps
  <2>2. share' \in [Candidates -> Nat] /\ NormalUnit \in Nat
    BY <1>1, PassShares, NormalShares
  <2>3. /\ policy.max * Cardinality(locked') <= Whole
        /\ Cardinality(locked') \in Nat /\ policy.max \in Nat
    BY <1>1, PassLocks, InputTypes DEF LoopInv
  <2>4. LockedFitTheWhole'
    <3>1. Cardinality(locked') * policy.max = policy.max * Cardinality(locked')
      BY <2>3
    <3> QED
      BY <2>1, <2>3, <3>1 DEF LockedFitTheWhole, inputs
  <2>5. amount = NoMoney /\ round = 0 /\ rows = {}
    BY <2>1 DEF LoopInv
  <2>6. TypeOK'
    BY <2>1, <2>2, <2>5 DEF LoopInv, TypeOK, inputs, maxAllocPasses
  <2>7. phase' \in {"split", "target"} => amount' = NoMoney' /\ round' = 0 /\ rows' = {}
    BY <2>1, <2>5 DEF NoMoney
  <2> QED
    BY <2>1, <2>4, <2>6, <2>7 DEF LoopInv, SomeoneSurvives
<1>2. CASE Target
  <2>1. /\ UNCHANGED <<inputs, shares, round, rows>>
        /\ phase' \in {"settle", "done"}
    BY <1>2 DEF Target
  <2>2. amount' \in [Candidates -> Nat]
    BY <1>2, TargetAmounts
  <2> QED
    BY <2>1, <2>2 DEF LoopInv, TypeOK, SomeoneSurvives, LockedFitTheWhole, inputs, shares
<1>3. CASE Redistribute
  <2>1. /\ phase = "settle" /\ round < Cardinality(live)
        /\ amount' \in [Candidates -> Nat] /\ round' = round + 1
        /\ UNCHANGED <<inputs, phase, shares, rows>>
    BY <1>3, RoundSteps
  <2>2. /\ Cardinality(live) \in Nat /\ Cardinality(Candidates) \in Nat
        /\ Cardinality(live) <= Cardinality(Candidates)
    BY Subsets, CandidatesAssumption DEF LoopInv, TypeOK
  <2>3. round' \in 0 .. Cardinality(Candidates)
    BY <2>1, <2>2 DEF LoopInv, TypeOK
  <2> QED
    BY <2>1, <2>3 DEF LoopInv, TypeOK, SomeoneSurvives, LockedFitTheWhole, inputs, shares
<1>4. CASE Emit
  <2>1. /\ rows' \subseteq live /\ phase' = "done"
        /\ UNCHANGED <<inputs, shares, amount, round>>
    BY <1>4 DEF Emit
  <2> QED
    BY <2>1 DEF LoopInv, TypeOK, SomeoneSurvives, LockedFitTheWhole, inputs, shares
<1>5. CASE UNCHANGED vars
  BY <1>5 DEF LoopInv, TypeOK, SomeoneSurvives, LockedFitTheWhole, NoMoney, vars, inputs, shares
<1> QED
  BY <1>1, <1>2, <1>3, <1>4, <1>5 DEF Next

\* So it holds throughout.
LEMMA LoopAlways == Spec => []LoopInv
<1>1. Init => LoopInv
  BY LoopStarts
<1>2. LoopInv /\ [Next]_vars => LoopInv'
  BY LoopSteps
<1> QED
  BY <1>1, <1>2, PTL DEF Spec

\* The type invariant of the allocator, for any inputs: in particular a recommended
\* budget is always an amount of money, and nothing is divided by zero.
THEOREM AllocateTypeOK == Spec => []TypeOK
<1>1. LoopInv => TypeOK
  BY DEF LoopInv
<1> QED
  BY <1>1, LoopAlways, PTL

\* Whatever the weights and the floor, some publisher survives every pass.
THEOREM SomeoneAlwaysSurvives == Spec => []SomeoneSurvives
<1>1. LoopInv => SomeoneSurvives
  BY DEF LoopInv
<1> QED
  BY <1>1, LoopAlways, PTL

\* However many publishers are pinned, and in however many passes, together they
\* hold no more than the whole budget.
THEOREM LockedNeverExceedTheWhole == Spec => []LockedFitTheWhole
<1>1. LoopInv => LockedFitTheWhole
  BY DEF LoopInv
<1> QED
  BY <1>1, LoopAlways, PTL

(***************************************************************************)
(* The reconciliation: money.                                              *)
(***************************************************************************)

\* The smaller of two numbers is one of them and at most either.
LEMMA SmallerOfTwo ==
    ASSUME NEW a \in Int, NEW b \in Int
    PROVE  /\ SmallerOf(a, b) <= a /\ SmallerOf(a, b) <= b
           /\ SmallerOf(a, b) = a \/ SmallerOf(a, b) = b
BY DEF SmallerOf

\* Before the targets are turned into money there is none.
LEMMA NothingYet ==
    ASSUME LoopInv, amount = NoMoney
    PROVE  SOVCeiling /\ NeverOverspends
<1>1. /\ live \subseteq Candidates /\ deliverable \in [Candidates -> Nat] /\ total \in Nat
  BY InputTypes DEF LoopInv, TypeOK
<1>2. \A id \in live : amount[id] = 0
  BY <1>1 DEF NoMoney
<1>3. Spent = 0
  BY <1>1, <1>2, Subsets, SumIsZero DEF Spent
<1> QED
  BY <1>1, <1>3 DEF SOVCeiling, NeverOverspends, NoMoney

\* The targets add up to no more than the total.
LEMMA TargetsFit ==
    ASSUME LoopInv, Target
    PROVE  SOVCeiling' /\ NeverOverspends'
<1>1. /\ live \subseteq Candidates /\ share \in [Candidates -> Nat] /\ total \in Nat
      /\ deliverable \in [Candidates -> Nat]
  BY InputTypes DEF LoopInv, TypeOK
<1>2. /\ amount' = [id \in Candidates |->
                    IF SumOver(live, share) > 0 /\ id \in live
                    THEN SmallerOf((share[id] * total) \div SumOver(live, share), deliverable[id])
                    ELSE 0]
      /\ live' = live /\ total' = total /\ deliverable' = deliverable
  BY DEF Target, inputs, shares
<1>3. IsFiniteSet(live) /\ amount' \in [Candidates -> Nat] /\ SumOver(live, share) \in Nat
  BY <1>1, Subsets, TargetAmounts, SumIsNat
<1>4. CASE SumOver(live, share) > 0
  <2> DEFINE target == [id \in live |-> (share[id] * total) \div SumOver(live, share)]
  <2>1. \A id \in live : target[id] = (share[id] * total) \div SumOver(live, share)
    OBVIOUS
  <2>2. \A id \in live : amount'[id] = SmallerOf(target[id], deliverable[id])
    BY <1>1, <1>2, <1>4
  <2> HIDE DEF target
  <2>3. \A id \in live : share[id] \in Nat
    BY <1>1
  <2>4. (\A id \in live : target[id] \in Nat) /\ SumOver(live, target) <= total
        /\ SumOver(live, target) \in Nat
    BY <1>1, <1>3, <1>4, <2>1, <2>3, PartsFit
  <2>5. \A id \in live : /\ amount'[id] \in Int /\ target[id] \in Int
                         /\ amount'[id] <= target[id] /\ amount'[id] <= deliverable[id]
    BY <1>1, <1>3, <2>2, <2>4, SmallerOfTwo
  <2>6. SumOver(live, amount') <= SumOver(live, target) /\ SumOver(live, amount') \in Int
    BY <1>3, <2>5, SumMonotone, SumIsInt
  <2>7. SumOver(live, amount') <= total
    BY <1>1, <2>4, <2>6
  <2>8. \A id \in Candidates : amount'[id] <= deliverable[id]
    <3> TAKE id \in Candidates
    <3>1. CASE id \in live
      BY <3>1, <2>5
    <3>2. CASE id \notin live
      BY <3>2, <1>1, <1>2
    <3> QED
      BY <3>1, <3>2
  <2> QED
    BY <1>2, <2>7, <2>8 DEF SOVCeiling, NeverOverspends, Spent
<1>5. CASE ~(SumOver(live, share) > 0)
  <2>1. \A id \in Candidates : amount'[id] = 0
    BY <1>2, <1>5
  <2>2. SumOver(live, amount') = 0
    BY <1>1, <1>3, <2>1, SumIsZero
  <2> QED
    BY <1>1, <1>2, <2>1, <2>2 DEF SOVCeiling, NeverOverspends, Spent
<1> QED
  BY <1>4, <1>5

\* A round moves no more than the leftover.
LEMMA RoundFits ==
    ASSUME LoopInv, Redistribute, SOVCeiling
    PROVE  SOVCeiling' /\ NeverOverspends'
<1> DEFINE left == total - Spent
           offer == [id \in live |-> IF id \in Headroom THEN Offer(id, left) ELSE 0]
           most == [id \in live |-> amount[id] + offer[id]]
<1>1. /\ live \subseteq Candidates /\ total \in Nat /\ Headroom \subseteq live
      /\ deliverable \in [Candidates -> Nat] /\ amount \in [Candidates -> Nat]
      /\ IsFiniteSet(live) /\ IsFiniteSet(Headroom) /\ TypeOK
  <2>1. live \subseteq Candidates /\ Headroom \subseteq live
    BY DEF LoopInv, TypeOK, Headroom
  <2> QED
    BY <2>1, Subsets, InputTypes DEF LoopInv, TypeOK
<1>2. /\ Headroom # {} /\ left \in Nat
      /\ \A id \in Headroom : amount'[id] = SmallerOf(amount[id] + Offer(id, left), deliverable[id])
      /\ \A id \in Candidates \ Headroom : amount'[id] = amount[id]
      /\ amount' \in [Candidates -> Nat]
      /\ live' = live /\ total' = total /\ deliverable' = deliverable
  BY RoundSteps DEF inputs, shares
<1>3. Spent \in Nat /\ total = Spent + left
  BY <1>1, SumIsNat DEF Spent
<1> HIDE DEF left
<1>4. \A id \in Headroom : offer[id] = Offer(id, left)
  BY <1>1
<1>5. \A id \in live \ Headroom : offer[id] = 0
  OBVIOUS
<1> HIDE DEF offer
<1>6. /\ \A id \in Headroom : offer[id] \in Nat
      /\ SumOver(Headroom, offer) \in Nat /\ SumOver(Headroom, offer) <= left
  BY <1>1, <1>2, <1>4, OffersFit
<1>7. \A id \in live : offer[id] \in Nat /\ amount[id] \in Nat /\ most[id] = amount[id] + offer[id]
  BY <1>1, <1>5, <1>6
<1> HIDE DEF most
<1>8. SumOver(live, offer) = SumOver(Headroom, offer)
  <2>1. IsFiniteSet(live \ Headroom) /\ SumOver(live \ Headroom, offer) = 0
    BY <1>1, <1>5, Subsets, SumIsZero
  <2>2. live = Headroom \cup (live \ Headroom)
    BY <1>1
  <2> QED
    BY <1>1, <1>6, <1>7, <2>1, <2>2, SumSplits
<1>9. SumOver(live, most) = Spent + SumOver(live, offer)
  BY <1>1, <1>7, SumPlus DEF Spent
<1>10. \A id \in live : /\ amount'[id] \in Int /\ most[id] \in Int
                        /\ amount'[id] <= most[id] /\ amount'[id] <= deliverable[id]
  <2> TAKE id \in live
  <2>1. amount[id] <= deliverable[id] /\ deliverable[id] \in Nat /\ amount'[id] \in Nat
    BY <1>1, <1>2 DEF SOVCeiling
  <2>2. CASE id \in Headroom
    BY <1>2, <1>4, <1>7, <2>1, <2>2, SmallerOfTwo
  <2>3. CASE id \notin Headroom
    BY <1>1, <1>2, <1>5, <1>7, <2>1, <2>3
  <2> QED
    BY <2>2, <2>3
<1>11. SumOver(live, amount') <= SumOver(live, most) /\ SumOver(live, amount') \in Int
  BY <1>1, <1>10, SumMonotone, SumIsInt
<1>12. SumOver(live, amount') <= total
  BY <1>2, <1>3, <1>6, <1>8, <1>9, <1>11
<1>13. \A id \in Candidates : amount'[id] <= deliverable[id]
  <2> TAKE id \in Candidates
  <2>1. CASE id \in live
    BY <2>1, <1>10
  <2>2. CASE id \notin live
    BY <2>2, <1>1, <1>2 DEF SOVCeiling
  <2> QED
    BY <2>1, <2>2
<1> QED
  BY <1>2, <1>12, <1>13 DEF SOVCeiling, NeverOverspends, Spent

\* What the reconciliation keeps, at every step of it.
MoneyInv == LoopInv /\ SOVCeiling /\ NeverOverspends

\* No step spends more than the total or than a publisher can deliver.
LEMMA MoneySteps ==
    ASSUME MoneyInv, [Next]_vars
    PROVE  MoneyInv'
<1>1. LoopInv'
  BY LoopSteps DEF MoneyInv
<1>2. CASE Pass
  <2>1. /\ amount' = NoMoney /\ live' \subseteq Candidates
        /\ total' = total /\ total \in Nat
        /\ deliverable' = deliverable /\ deliverable \in [Candidates -> Nat]
    BY <1>2, PassSteps, InputTypes DEF MoneyInv, LoopInv, TypeOK, inputs
  <2>2. \A id \in Candidates : amount'[id] = 0
    BY <2>1 DEF NoMoney
  <2>3. SumOver(live', amount') = 0
    BY <2>1, <2>2, Subsets, SumIsZero
  <2>4. SOVCeiling'
    BY <2>1, <2>2 DEF SOVCeiling
  <2>5. NeverOverspends'
    BY <2>1, <2>3 DEF NeverOverspends, Spent
  <2> QED
    BY <1>1, <2>4, <2>5 DEF MoneyInv
<1>3. CASE Target
  BY <1>1, <1>3, TargetsFit DEF MoneyInv
<1>4. CASE Redistribute
  BY <1>1, <1>4, RoundFits DEF MoneyInv
<1>5. CASE Emit
  BY <1>1, <1>5 DEF MoneyInv, Emit, SOVCeiling, NeverOverspends, Spent, inputs, shares
<1>6. CASE UNCHANGED vars
  BY <1>1, <1>6 DEF MoneyInv, SOVCeiling, NeverOverspends, Spent, vars, inputs, shares
<1> QED
  BY <1>2, <1>3, <1>4, <1>5, <1>6 DEF Next

\* So the money's invariant holds throughout.
LEMMA MoneyAlways == Spec => []MoneyInv
<1>1. Init => MoneyInv
  BY LoopStarts, NothingYet DEF Init, NoMoney, MoneyInv
<1>2. MoneyInv /\ [Next]_vars => MoneyInv'
  BY MoneySteps
<1> QED
  BY <1>1, <1>2, PTL DEF Spec

\* No publisher is booked for more than it can deliver, at any moment of the
\* reconciliation.
THEOREM SOVCeilingHolds == Spec => []SOVCeiling
<1>1. MoneyInv => SOVCeiling
  BY DEF MoneyInv
<1> QED
  BY <1>1, MoneyAlways, PTL

\* However often the leftover is offered around, what is spent stays within the
\* total.
THEOREM AllocateNeverOverspends == Spec => []NeverOverspends
<1>1. MoneyInv => NeverOverspends
  BY DEF MoneyInv
<1> QED
  BY <1>1, MoneyAlways, PTL

(***************************************************************************)
(* The reconciliation: the shortfall.                                      *)
(***************************************************************************)

\* A round after which more than Epsilon is left has filled somebody: so many
\* rounds, so many publishers without headroom.
ShortfallInv ==
    /\ MoneyInv
    /\ phase = "target" => round = 0
    /\ phase = "settle" =>
          \/ total - Spent <= Epsilon
          \/ Cardinality(Headroom) <= Cardinality(live) - round
    /\ ShortfallIsReal

\* Who has no headroom never gets any, and a round that fills nobody places all of
\* the leftover but the rounding.
LEMMA RoundFillsOrPlaces ==
    ASSUME ShortfallInv, Redistribute
    PROVE  \/ total' - Spent' <= Epsilon
           \/ Cardinality(Headroom') <= Cardinality(live') - round'
<1> DEFINE left == total - Spent
           offer == [id \in live |-> IF id \in Headroom THEN Offer(id, left) ELSE 0]
<1>1. /\ live \subseteq Candidates /\ total \in Nat /\ Headroom \subseteq live
      /\ deliverable \in [Candidates -> Nat] /\ amount \in [Candidates -> Nat]
      /\ IsFiniteSet(live) /\ IsFiniteSet(Headroom) /\ TypeOK /\ LoopInv
      /\ Cardinality(Headroom) \in Nat /\ Cardinality(Headroom) <= Cardinality(Candidates)
      /\ Cardinality(live) \in Nat /\ Cardinality(Candidates) \in Nat /\ round \in Nat
  <2>1. live \subseteq Candidates /\ Headroom \subseteq live
    BY DEF ShortfallInv, MoneyInv, LoopInv, TypeOK, Headroom
  <2> QED
    BY <2>1, Subsets, CandidatesAssumption, InputTypes DEF ShortfallInv, MoneyInv, LoopInv, TypeOK
<1>2. /\ phase = "settle" /\ Headroom # {} /\ left \in Nat /\ left > Epsilon
      /\ \A id \in Headroom : amount'[id] = SmallerOf(amount[id] + Offer(id, left), deliverable[id])
      /\ \A id \in Candidates \ Headroom : amount'[id] = amount[id]
      /\ round' = round + 1
      /\ live' = live /\ total' = total /\ deliverable' = deliverable
  BY <1>1, RoundSteps DEF inputs, shares
<1>3. Spent \in Nat /\ total = Spent + left
  BY <1>1, SumIsNat DEF Spent
<1>4. Cardinality(Headroom) <= Cardinality(live) - round
  BY <1>2, MoneyAssumption DEF ShortfallInv
<1> HIDE DEF left
<1>5. Headroom' \subseteq Headroom
  <2> SUFFICES ASSUME NEW id \in live, id \notin Headroom PROVE id \notin Headroom'
    BY <1>2 DEF Headroom
  <2> QED
    BY <1>1, <1>2 DEF Headroom
<1>6. CASE \E id \in Headroom : id \notin Headroom'
  <2>1. PICK id \in Headroom : id \notin Headroom'
    BY <1>6
  <2>2. Headroom' \subseteq Headroom \ {id}
    BY <1>5, <2>1
  <2>3. Cardinality(Headroom \ {id}) = Cardinality(Headroom) - 1 /\ IsFiniteSet(Headroom \ {id})
    BY <1>1, <2>1, FS_RemoveElement
  <2>4. Cardinality(Headroom') <= Cardinality(Headroom) - 1 /\ Cardinality(Headroom') \in Nat
    BY <1>1, <2>2, <2>3, FS_Subset, FS_CardinalityType
  <2> QED
    BY <1>1, <1>2, <1>4, <2>4
<1>7. CASE \A id \in Headroom : id \in Headroom'
  <2>1. \A id \in Headroom : offer[id] = Offer(id, left)
    BY <1>1
  <2>2. \A id \in live \ Headroom : offer[id] = 0
    OBVIOUS
  <2> HIDE DEF offer
  <2>3. /\ \A id \in Headroom : offer[id] \in Nat
        /\ SumOver(Headroom, offer) \in Nat
        /\ left - SumOver(Headroom, offer) <= Cardinality(Headroom)
    BY <1>1, <1>2, <2>1, OffersFit
  <2>4. \A id \in live : offer[id] \in Nat /\ amount[id] \in Nat
    BY <1>1, <2>2, <2>3
  <2>5. \A id \in live : amount'[id] = amount[id] + offer[id]
    <3> TAKE id \in live
    <3>1. CASE id \in Headroom
      <4>1. amount'[id] # deliverable[id]
        <5>1. deliverable'[id] - amount'[id] > Epsilon
          BY <1>7, <3>1 DEF Headroom
        <5> QED
          BY <1>1, <1>2, <5>1, MoneyAssumption
      <4>2. amount[id] + Offer(id, left) \in Int /\ deliverable[id] \in Int
        BY <1>1, <2>1, <2>4, <3>1
      <4> QED
        BY <1>2, <2>1, <3>1, <4>1, <4>2, SmallerOfTwo
    <3>2. CASE id \notin Headroom
      BY <1>1, <1>2, <2>2, <3>2
    <3> QED
      BY <3>1, <3>2
  <2>6. SumOver(live, amount') = Spent + SumOver(live, offer)
    BY <1>1, <2>4, <2>5, SumPlus DEF Spent
  <2>7. SumOver(live, offer) = SumOver(Headroom, offer)
    <3>1. IsFiniteSet(live \ Headroom) /\ SumOver(live \ Headroom, offer) = 0
      BY <1>1, <2>2, Subsets, SumIsZero
    <3>2. live = Headroom \cup (live \ Headroom)
      BY <1>1
    <3> QED
      BY <1>1, <2>3, <2>4, <3>1, <3>2, SumSplits
  <2>8. Spent' = Spent + SumOver(Headroom, offer)
    BY <1>2, <2>6, <2>7 DEF Spent
  <2>9. total' - Spent' <= Epsilon
    BY <1>1, <1>2, <1>3, <2>3, <2>8, MoneyAssumption
  <2> QED
    BY <2>9
<1> QED
  BY <1>6, <1>7

\* A round that leaves money over has filled a publisher, so the rounds cannot run out
\* while one has room.
LEMMA ShortfallSteps ==
    ASSUME ShortfallInv, [Next]_vars
    PROVE  ShortfallInv'
<1>1. MoneyInv'
  BY MoneySteps DEF ShortfallInv
<1>2. CASE Pass
  <2>1. phase = "split" /\ phase' \in {"split", "target"} /\ round' = round
    BY <1>2, PassSteps DEF ShortfallInv, MoneyInv
  <2>2. round = 0
    BY <2>1 DEF ShortfallInv, MoneyInv, LoopInv
  <2> QED
    BY <1>1, <2>1, <2>2 DEF ShortfallInv, ShortfallIsReal
<1>3. CASE Target
  <2>1. /\ phase = "target" /\ round' = round /\ live' = live /\ share' = share
        /\ phase' = IF SumOver(live, share) > 0 THEN "settle" ELSE "done"
    BY <1>3 DEF Target, shares
  <2>2. round = 0
    BY <2>1 DEF ShortfallInv
  <2>3. live' \subseteq Candidates /\ Headroom' \subseteq live'
    BY <2>1 DEF Headroom, ShortfallInv, MoneyInv, LoopInv, TypeOK
  <2>4. IsFiniteSet(live') /\ Cardinality(live') \in Nat
    BY <2>3, Subsets
  <2>5. Cardinality(Headroom') <= Cardinality(live') - round'
    BY <2>1, <2>2, <2>3, <2>4, FS_Subset, FS_CardinalityType
  <2>6. SumOver(live, share) \in Nat
    <3>1. live \subseteq Candidates /\ IsFiniteSet(live) /\ \A id \in live : share[id] \in Nat
      BY <2>1, <2>3, <2>4 DEF ShortfallInv, MoneyInv, LoopInv, TypeOK
    <3> QED
      BY <3>1, SumIsNat
  <2>7. phase' = "done" => SumOver(live', share') = 0
    BY <2>1, <2>6
  <2>8. ShortfallIsReal'
    BY <2>7 DEF ShortfallIsReal
  <2> QED
    BY <1>1, <2>1, <2>5, <2>8 DEF ShortfallInv
<1>4. CASE Redistribute
  <2>1. phase = "settle" /\ phase' = phase
    BY <1>4 DEF Redistribute
  <2> QED
    BY <1>1, <1>4, <2>1, RoundFillsOrPlaces DEF ShortfallInv, ShortfallIsReal
<1>5. CASE Emit
  <2>1. /\ phase = "settle" /\ phase' = "done"
        /\ \/ ~(round < Cardinality(live)) \/ total - Spent <= Epsilon \/ Headroom = {}
        /\ total' = total /\ deliverable' = deliverable /\ live' = live /\ amount' = amount
    BY <1>5 DEF Emit, RoundsLeft, inputs, shares
  <2>2. live \subseteq Candidates /\ Headroom \subseteq Candidates /\ round \in Nat
    BY DEF ShortfallInv, MoneyInv, LoopInv, TypeOK, Headroom
  <2>3. /\ Cardinality(live) \in Nat /\ Cardinality(Headroom) \in Nat
        /\ Cardinality(Headroom) = 0 => Headroom = {}
    BY <2>2, Subsets
  <2>4. total - Spent <= Epsilon \/ Headroom = {}
    BY <2>1, <2>2, <2>3 DEF ShortfallInv
  <2>5. total - Spent \in Int /\ Epsilon \in Int
    <3>1. IsFiniteSet(live) /\ \A id \in live : amount[id] \in Nat
      BY <2>2, Subsets DEF ShortfallInv, MoneyInv, LoopInv, TypeOK
    <3>2. Spent \in Nat
      BY <3>1, SumIsNat DEF Spent
    <3> QED
      BY <3>2, MoneyAssumption DEF ShortfallInv, MoneyInv, LoopInv, TypeOK
  <2>6. ~(total' - Spent' > Epsilon) \/ Headroom' = {}
    BY <2>1, <2>4, <2>5 DEF Spent, Headroom
  <2> QED
    BY <1>1, <2>1, <2>6 DEF ShortfallInv, ShortfallIsReal
<1>6. CASE UNCHANGED vars
  BY <1>1, <1>6 DEF ShortfallInv, ShortfallIsReal, Spent, Headroom, vars, inputs, shares
<1> QED
  BY <1>2, <1>3, <1>4, <1>5, <1>6 DEF Next

\* As many rounds as survivors are enough: whatever money is left at the end, no
\* publisher that kept a share could have taken more of it, or the only one that
\* kept one has no weight.
THEOREM ShortfallIsAlwaysReal == Spec => []ShortfallIsReal
<1>1. Init => ShortfallInv
  <2> SUFFICES ASSUME Init PROVE ShortfallInv
    OBVIOUS
  <2>1. LoopInv /\ amount = NoMoney /\ phase = "split"
    BY LoopStarts DEF Init, NoMoney
  <2>2. MoneyInv
    BY <2>1, NothingYet DEF MoneyInv
  <2> QED
    BY <2>1, <2>2 DEF ShortfallInv, ShortfallIsReal
<1>2. ShortfallInv /\ [Next]_vars => ShortfallInv'
  BY ShortfallSteps
<1>3. ShortfallInv => ShortfallIsReal
  BY DEF ShortfallInv
<1> QED
  BY <1>1, <1>2, <1>3, PTL DEF Spec

(***************************************************************************)
(* The fixed-point loop: the policy.                                       *)
(***************************************************************************)

\* A floor that is positive and below the cap, and a cap that at most four publishers
\* can fill: the documented policy, and any with a cap of a quarter or more.
UsablePolicies ==
    \A p \in Policies : p.min \in 1 .. p.max /\ Whole <= (maxAllocPasses - 1) * p.max

\* Nobody free is dust, but perhaps a survivor who is alone.
NoDust ==
    \A id \in Free :
        \/ live = {id}
        \/ /\ share[id] > 0
           /\ policy.min * FreeWeight <= SplitWeight[id] * Leftover

\* Dust is dropped in the first pass only, since what stays free grows from pass to
\* pass, so that every later pass that changes something locks somebody.
PolicyInv ==
    /\ LoopInv
    /\ unit > 0
    /\ \A i, j \in locked : share[i] = share[j]
    /\ phase = "split" =>
          /\ \A id \in Free : share[id] > 0 => SplitWeight[id] > 0
          /\ pass > 0 => pass <= Cardinality(locked) + 1 /\ NoDust
    /\ TargetsHonourPolicy

\* The weight of a set of candidates is that of a part of it and of the rest.
LEMMA WeightOfPart ==
    ASSUME NEW S, S \subseteq Candidates, NEW P, P \subseteq S,
           NEW f \in [Candidates -> Nat]
    PROVE  /\ SumOver(S, f) \in Nat /\ SumOver(P, f) \in Nat /\ SumOver(S \ P, f) \in Nat
           /\ SumOver(S, f) = SumOver(P, f) + SumOver(S \ P, f)
<1>1. IsFiniteSet(S) /\ IsFiniteSet(P) /\ IsFiniteSet(S \ P)
  BY Subsets
<1>2. S = P \cup (S \ P)
  OBVIOUS
<1>3. \A x \in S : f[x] \in Nat
  OBVIOUS
<1>4. SumOver(P \cup (S \ P), f) = SumOver(P, f) + SumOver(S \ P, f)
  BY <1>1, <1>3, SumSplits
<1> QED
  BY <1>1, <1>2, <1>3, <1>4, SumIsNat

\* Who is left after some are taken away weighs no more.
LEMMA WeightWithout ==
    ASSUME NEW S, S \subseteq Candidates, NEW P, P \subseteq S,
           NEW f \in [Candidates -> Nat]
    PROVE  /\ SumOver(S, f) \in Nat /\ SumOver(S \ P, f) \in Nat
           /\ SumOver(S \ P, f) <= SumOver(S, f)
BY WeightOfPart

\* What a usable policy says of the policy in force.
LEMMA PolicyInForce ==
    ASSUME TypeOK, UsablePolicies
    PROVE  /\ policy.max \in Nat /\ policy.min \in Nat
           /\ policy.min > 0 /\ policy.min <= policy.max
           /\ Whole <= 4 * policy.max
<1>1. policy \in Policies /\ policy.max \in Nat /\ policy.min \in Nat
  BY InputTypes DEF TypeOK
<1>2. policy.min \in 1 .. policy.max /\ Whole <= (maxAllocPasses - 1) * policy.max
  BY <1>1 DEF UsablePolicies
<1> QED
  BY <1>1, <1>2 DEF maxAllocPasses

\* The weight of those who stay free, when there is a share to scale and somebody
\* else to keep: it falls no slower than what is left for it.
LEMMA FreedIsShared ==
    ASSUME LoopInv, Pass, live' = live \ Dusty
    PROVE  /\ FreeWeight' \in Nat
           /\ Leftover' = Leftover - policy.max * Cardinality(Over) /\ Leftover' \in Nat
           /\ Leftover * FreeWeight' <= FreeWeight * Leftover'
<1> DEFINE W == FreeWeight
           R == Leftover
           m == policy.max
           k == Cardinality(Over)
           sum == SumOver(Over, SplitWeight)
           kept == SumOver(Free \ Over, SplitWeight)
           rest == FreeWeight'
<1>1. /\ Over \subseteq Free /\ Dusty \subseteq Free \ Over /\ locked' = locked \cup Over
      /\ policy' = policy /\ origWeight' = origWeight
  BY PassSteps DEF inputs
<1>2. /\ Free \subseteq Candidates /\ SplitWeight \in [Candidates -> Nat]
      /\ W \in Nat /\ R \in Nat /\ m \in Nat /\ Whole \in Nat
  BY NormalShares, InputTypes DEF LoopInv
<1>3. SplitWeight' = SplitWeight
  BY <1>1 DEF SplitWeight
<1>4. Free' = (Free \ Over) \ Dusty
  BY <1>1 DEF Free
<1>5. rest = SumOver((Free \ Over) \ Dusty, SplitWeight)
  BY <1>3, <1>4 DEF FreeWeight
<1>6. kept \in Nat /\ rest \in Nat /\ rest <= kept
  <2>1. Free \ Over \subseteq Candidates
    BY <1>2
  <2> QED
    BY <1>1, <1>2, <1>5, <2>1, WeightWithout
<1>7. sum \in Nat /\ W = sum + kept
  BY <1>1, <1>2, WeightOfPart DEF FreeWeight
<1>8. m * (W * k) <= R * sum /\ k \in Nat
  BY OverCapFits DEF Over
<1>9. Leftover' = R - m * k
  <2>1. /\ Cardinality(locked') = Cardinality(locked) + k /\ Cardinality(locked) \in Nat
        /\ Cardinality(locked') \in Nat
    BY PassLocks, NormalShares, Subsets
  <2>2. Leftover' = Whole - m * Cardinality(locked')
    BY <1>1 DEF Leftover
  <2>3. R = Whole - m * Cardinality(locked)
    BY DEF Leftover
  <2>4. m * (Cardinality(locked) + k) = m * Cardinality(locked) + m * k
    BY <1>2, <1>8, <2>1
  <2>5. m * k \in Nat /\ m * Cardinality(locked) \in Nat
    BY <1>2, <1>8, <2>1, Product
  <2> QED
    BY <1>2, <2>1, <2>2, <2>3, <2>4, <2>5
<1>10. Leftover' \in Nat
  <2>1. policy.max * Cardinality(locked') <= Whole /\ Cardinality(locked') \in Nat
    BY PassLocks
  <2>2. Leftover' = Whole - m * Cardinality(locked') /\ m * Cardinality(locked') \in Nat
    BY <1>1, <1>2, <2>1, Product DEF Leftover
  <2> QED
    BY <1>2, <2>1, <2>2
<1>11. R * rest <= W * (R - m * k)
  <2>1. R * rest <= R * kept
    BY <1>2, <1>6, Scale
  <2>2. R * W = R * sum + R * kept
    BY <1>2, <1>6, <1>7
  <2>3. W * (R - m * k) = R * W - m * (W * k)
    BY <1>2, <1>8
  <2>4. /\ R * rest \in Nat /\ R * kept \in Nat /\ R * sum \in Nat
        /\ m * (W * k) \in Nat /\ R * W \in Nat
    BY <1>2, <1>6, <1>7, <1>8, Product
  <2> HIDE DEF W, R, m, k, sum, kept, rest
  <2> QED
    BY <1>8, <2>1, <2>2, <2>3, <2>4
<1> QED
  BY <1>6, <1>9, <1>10, <1>11

\* When no free share can be scaled nobody is over the cap and all who are free are
\* dust.
LEMMA NothingToScale ==
    ASSUME PolicyInv, UsablePolicies, SumOver(Free, share) = 0
    PROVE  Over = {} /\ Dusty = Free
<1>1. /\ NormalUnit = unit /\ Normal = share /\ \A id \in Free : share[id] = 0
      /\ unit \in Nat /\ unit > 0 /\ Whole \in Nat
      /\ policy.max \in Nat /\ policy.min \in Nat /\ policy.min > 0
  BY NormalShares, PolicyInForce, PoliciesAssumption DEF PolicyInv, LoopInv, TypeOK
<1>2. policy.max * unit \in Nat /\ policy.min * unit > 0 /\ 0 * Whole = 0
  BY <1>1, Product
<1>3. Over = {}
  BY <1>1, <1>2 DEF Over, OverCap
<1>4. Dusty = Free
  BY <1>1, <1>2, <1>3 DEF Dusty
<1> QED
  BY <1>3, <1>4

\* When there is a share to scale somebody free has weight.
LEMMA SomethingToScale ==
    ASSUME PolicyInv, phase = "split", SumOver(Free, share) > 0
    PROVE  FreeWeight > 0
<1>1. /\ Free \subseteq Candidates /\ SplitWeight \in [Candidates -> Nat]
      /\ share \in [Candidates -> Nat]
  BY NormalShares DEF PolicyInv, LoopInv, TypeOK
<1>2. \E id \in Free : share[id] # 0
  BY <1>1, Subsets, SumIsZero
<1>3. PICK id \in Free : SplitWeight[id] > 0
  BY <1>1, <1>2 DEF PolicyInv
<1>4. SplitWeight[id] <= FreeWeight /\ SplitWeight[id] \in Nat /\ FreeWeight \in Nat
  BY <1>1, Subsets, SumIsNat DEF FreeWeight
<1> QED
  BY <1>3, <1>4

\* A product with the whole compares as its other factor does.
LEMMA OfTheWhole ==
    ASSUME NEW a \in Nat, NEW b \in Nat, NEW c \in Nat
    PROVE  a * Whole < b * (c * Whole) <=> a < b * c
<1>1. Whole \in Nat /\ Whole > 0
  BY PoliciesAssumption
<1>2. b * (c * Whole) = Whole * (b * c) /\ a * Whole = Whole * a /\ b * c \in Nat
  BY <1>1, Product
<1>3. a < b * c => Whole * a < Whole * (b * c)
  BY <1>1, <1>2
<1>4. b * c <= a => Whole * (b * c) <= Whole * a
  BY <1>1, <1>2, Scale
<1>5. Whole * (b * c) \in Nat /\ Whole * a \in Nat
  BY <1>1, <1>2, Product
<1> QED
  BY <1>2, <1>3, <1>4, <1>5

\* A survivor that a pass neither locks nor drops has what the floor asks for, before
\* and after: or it is alone.
LEMMA PassLeavesNoDust ==
    ASSUME PolicyInv, UsablePolicies, Pass
    PROVE  NoDust'
<1>1. /\ live' \subseteq live /\ locked' = locked \cup Over
      /\ \/ live' = live \ Dusty
         \/ \E id \in live : live' = {id}
      /\ policy' = policy /\ origWeight' = origWeight
      /\ phase = "split" /\ Over \subseteq Free
  BY PassSteps DEF PolicyInv, inputs
<1>2. /\ Free \subseteq Candidates /\ SplitWeight \in [Candidates -> Nat]
      /\ FreeWeight \in Nat /\ Leftover \in Nat /\ SumOver(Free, share) \in Nat
      /\ policy.max \in Nat /\ policy.min \in Nat /\ policy.min > 0
  BY NormalShares, PolicyInForce DEF PolicyInv, LoopInv
<1>3. SplitWeight' = SplitWeight
  BY <1>1 DEF SplitWeight
<1>4. CASE \E id \in live : live' = {id}
  BY <1>4 DEF NoDust, Free
<1>5. CASE live' = live \ Dusty
  <2> SUFFICES ASSUME NEW id \in Free'
               PROVE  /\ share'[id] > 0
                      /\ policy.min * FreeWeight' <= SplitWeight[id] * Leftover'
    BY <1>1, <1>3 DEF NoDust
  <2>1. id \in Free /\ id \notin Over /\ id \notin Dusty /\ id \in live'
    BY <1>1, <1>5 DEF Free
  <2>2. SumOver(Free, share) > 0
    BY <1>2, <2>1, NothingToScale
  <2>3. FreeWeight > 0
    BY <1>1, <2>2, SomethingToScale
  <2>4. Normal[id] = SplitWeight[id] * Leftover /\ NormalUnit = FreeWeight * Whole
    BY <2>1, <2>2, NormalShares DEF PolicyInv
  <2>5. SplitWeight[id] \in Nat /\ SplitWeight[id] * Leftover \in Nat
    BY <1>2, <2>1, Product
  <2>6. policy.min * FreeWeight <= SplitWeight[id] * Leftover
    <3>1. ~(Normal[id] * Whole < policy.min * NormalUnit)
      BY <2>1 DEF Dusty
    <3>2. ~(SplitWeight[id] * Leftover < policy.min * FreeWeight)
      BY <1>2, <2>4, <2>5, <3>1, OfTheWhole
    <3> QED
      BY <1>2, <2>5, <3>2, Product
  <2>7. share'[id] > 0
    <3>1. share'[id] = SplitWeight[id] * Leftover
      BY <2>1, <2>4, PassShares DEF PolicyInv
    <3>2. policy.min * FreeWeight > 0 /\ policy.min * FreeWeight \in Nat
      BY <1>2, <2>3, Product
    <3> QED
      BY <2>5, <2>6, <3>1, <3>2
  <2>8. /\ FreeWeight' \in Nat /\ Leftover' \in Nat
        /\ Leftover * FreeWeight' <= FreeWeight * Leftover'
    BY <1>5, FreedIsShared DEF PolicyInv
  <2>9. policy.min * FreeWeight' <= SplitWeight[id] * Leftover'
    <3> DEFINE m == policy.min
               W == FreeWeight
               R == Leftover
               w == SplitWeight[id]
               W2 == FreeWeight'
               R2 == Leftover'
    <3>1. /\ m \in Nat /\ W \in Nat /\ W > 0 /\ R \in Nat /\ w \in Nat /\ W2 \in Nat /\ R2 \in Nat
          /\ m * W <= w * R /\ R * W2 <= W * R2
      BY <1>2, <2>3, <2>5, <2>6, <2>8
    <3> HIDE DEF m, W, R, w, W2, R2
    <3>2. W2 * (m * W) <= W2 * (w * R)
      BY <3>1, Product, Scale
    <3>3. w * (R * W2) <= w * (W * R2)
      BY <3>1, Product, Scale
    <3>4. /\ W2 * (m * W) = W * (m * W2) /\ W2 * (w * R) = w * (R * W2)
          /\ w * (W * R2) = W * (w * R2)
      BY <3>1
    <3>5. m * W2 \in Nat /\ w * R2 \in Nat /\ R * W2 \in Nat /\ W * R2 \in Nat
      BY <3>1, Product
    <3>6. W * (m * W2) \in Nat /\ W * (w * R2) \in Nat /\ w * (R * W2) \in Nat
      BY <3>1, <3>5, Product
    <3>7. W * (m * W2) <= W * (w * R2)
      BY <3>2, <3>3, <3>4, <3>6
    <3>8. m * W2 <= w * R2
      BY <3>1, <3>5, <3>7, Cancel
    <3> QED
      BY <3>8 DEF m, w, W2, R2
  <2> QED
    BY <2>7, <2>9
<1> QED
  BY <1>1, <1>4, <1>5

\* A pass that changes something, but for the first, locks somebody.
LEMMA PassLocksSomebody ==
    ASSUME PolicyInv, UsablePolicies, Pass, pass > 0, ~settled'
    PROVE  Over # {}
<1>1. /\ settled' = (Over = {} /\ live' = live) /\ phase = "split"
      /\ live' \subseteq live /\ live' # {} /\ Dusty \subseteq Free
      /\ \/ live' = live \ Dusty
         \/ Dusty = live
      /\ Free \subseteq live
  BY PassSteps DEF PolicyInv, Free
<1>2. NoDust
  BY <1>1 DEF PolicyInv
<1>3. SUFFICES ASSUME Over = {} PROVE FALSE
  OBVIOUS
<1>4. live' # live
  BY <1>1, <1>3
<1>5. PICK id \in Dusty : live # {id}
  BY <1>1, <1>4
<1>6. id \in Free /\ share[id] > 0 /\ policy.min * FreeWeight <= SplitWeight[id] * Leftover
  BY <1>1, <1>2, <1>5 DEF NoDust
<1>7. /\ Free \subseteq Candidates /\ SplitWeight \in [Candidates -> Nat]
      /\ share \in [Candidates -> Nat]
      /\ FreeWeight \in Nat /\ Leftover \in Nat /\ policy.min \in Nat
  BY NormalShares, InputTypes DEF PolicyInv, LoopInv, TypeOK
<1>8. SumOver(Free, share) > 0
  <2>1. share[id] <= SumOver(Free, share) /\ SumOver(Free, share) \in Nat
    BY <1>6, <1>7, Subsets, SumIsNat
  <2> QED
    BY <1>6, <1>7, <2>1
<1>9. Normal[id] = SplitWeight[id] * Leftover /\ NormalUnit = FreeWeight * Whole
  BY <1>6, <1>8, NormalShares DEF PolicyInv
<1>10. SplitWeight[id] * Leftover \in Nat /\ policy.min * FreeWeight \in Nat
  BY <1>6, <1>7, Product
<1>11. Normal[id] * Whole < policy.min * NormalUnit
  BY <1>5 DEF Dusty
<1>12. SplitWeight[id] * Leftover < policy.min * FreeWeight
  BY <1>7, <1>9, <1>10, <1>11, OfTheWhole
<1> QED
  BY <1>6, <1>10, <1>12

\* Five passes are enough: the number of the pass that last changed something is at
\* most one more than the publishers locked, and the cap leaves room for three.
LEMMA FivePassesSettle ==
    ASSUME PolicyInv, UsablePolicies, Pass, ~settled'
    PROVE  phase' = "split" /\ pass' > 0 /\ pass' <= Cardinality(locked') + 1
<1>1. /\ phase = "split" /\ pass' = pass + 1 /\ pass \in Nat /\ pass < 5
      /\ phase' = IF pass' = 5 THEN "target" ELSE "split"
  BY PassSteps DEF PolicyInv, LoopInv, TypeOK, maxAllocPasses
<1>2. /\ Cardinality(locked') \in Nat /\ Cardinality(locked) \in Nat
      /\ Over # {} => /\ policy.max * Cardinality(locked') < Whole
                      /\ Cardinality(locked') >= Cardinality(locked) + 1
  BY PassLocks, NormalShares, Subsets DEF PolicyInv
<1>3. pass' <= Cardinality(locked') + 1
  <2>1. CASE pass = 0
    BY <1>1, <1>2, <2>1
  <2>2. CASE pass > 0
    <3>1. Over # {}
      BY <2>2, PassLocksSomebody
    <3>2. pass <= Cardinality(locked) + 1
      BY <1>1, <2>2 DEF PolicyInv
    <3> QED
      BY <1>1, <1>2, <3>1, <3>2
  <2> QED
    BY <1>1, <2>1, <2>2
<1>4. pass' # 5
  <2>1. SUFFICES ASSUME pass' = 5 PROVE FALSE
    OBVIOUS
  <2>2. Over # {}
    BY <1>1, <2>1, PassLocksSomebody
  <2>3. Cardinality(locked') >= 4
    BY <1>2, <1>3, <2>1
  <2>4. policy.max \in Nat /\ Whole <= 4 * policy.max /\ Whole \in Nat
    BY PolicyInForce, PoliciesAssumption DEF PolicyInv, LoopInv
  <2>5. policy.max * 4 <= policy.max * Cardinality(locked')
    BY <1>2, <2>3, <2>4, Scale
  <2>6. policy.max * Cardinality(locked') \in Nat
    BY <1>2, <2>4, Product
  <2> QED
    BY <1>2, <2>2, <2>4, <2>5, <2>6
<1> QED
  BY <1>1, <1>3, <1>4

\* What a pass keeps of the shares: those of the locked are equal, and the unit and
\* the weights of the free are positive.
LEMMA PassKeepsShares ==
    ASSUME PolicyInv, UsablePolicies, Pass
    PROVE  /\ unit' > 0
           /\ \A i, j \in locked' : share'[i] = share'[j]
           /\ \A id \in Free' : share'[id] > 0 => SplitWeight'[id] > 0
<1>1. /\ live' \subseteq live /\ locked' = locked \cup Over /\ locked \cup Over \subseteq live'
      /\ unit' = NormalUnit /\ origWeight' = origWeight
      /\ phase = "split" /\ Over \subseteq Free
  BY PassSteps DEF PolicyInv, inputs
<1>2. /\ Free \subseteq Candidates /\ Free \cap locked = {}
      /\ SplitWeight \in [Candidates -> Nat]
      /\ FreeWeight \in Nat /\ Leftover \in Nat /\ SumOver(Free, share) \in Nat
      /\ Whole \in Nat /\ Whole > 0
  BY NormalShares, PoliciesAssumption DEF PolicyInv
<1>3. SplitWeight' = SplitWeight
  BY <1>1 DEF SplitWeight
<1>4. \A id \in live' \ Over : share'[id] = Normal[id]
  BY PassShares DEF PolicyInv
<1>5. Free' \subseteq Free \ Over /\ Free' \subseteq live' \ Over
  BY <1>1 DEF Free
<1>6. CASE SumOver(Free, share) > 0
  <2>1. /\ NormalUnit = FreeWeight * Whole
        /\ \A id \in Free : Normal[id] = SplitWeight[id] * Leftover
        /\ \A id \in locked : Normal[id] = policy.max * FreeWeight
    BY <1>6, NormalShares DEF PolicyInv
  <2>2. FreeWeight > 0
    BY <1>1, <1>6, SomethingToScale
  <2>3. unit' > 0
    BY <1>1, <1>2, <2>1, <2>2
  <2>4. \A id \in locked' : share'[id] = policy.max * FreeWeight
    <3> TAKE id \in locked'
    <3>1. CASE id \in Over
      BY <3>1, PassShares DEF PolicyInv
    <3>2. CASE id \notin Over
      BY <1>1, <1>4, <2>1, <3>2
    <3> QED
      BY <3>1, <3>2
  <2>5. \A i, j \in locked' : share'[i] = share'[j]
    BY <2>4
  <2>6. ASSUME NEW id \in Free', share'[id] > 0 PROVE SplitWeight'[id] > 0
    <3>1. share'[id] = SplitWeight[id] * Leftover
      BY <1>4, <1>5, <2>1
    <3>2. SplitWeight[id] \in Nat
      BY <1>2, <1>5
    <3>3. SplitWeight[id] = 0 => SplitWeight[id] * Leftover = 0
      BY <1>2
    <3> QED
      BY <1>3, <2>6, <3>1, <3>2, <3>3
  <2> QED
    BY <2>3, <2>5, <2>6
<1>7. CASE SumOver(Free, share) = 0
  <2>1. NormalUnit = unit /\ Normal = share /\ Over = {} /\ \A id \in Free : share[id] = 0
    BY <1>7, NormalShares, NothingToScale DEF PolicyInv
  <2>2. \A i, j \in locked' : share'[i] = share'[j]
    BY <1>1, <1>4, <2>1 DEF PolicyInv
  <2>3. \A id \in Free' : share'[id] = 0
    BY <1>4, <1>5, <2>1
  <2> QED
    BY <1>1, <2>1, <2>2, <2>3 DEF PolicyInv
<1> QED
  BY <1>2, <1>6, <1>7

\* The targets of a loop that has settled on shares that could be scaled: they add up
\* to the whole, so that what held of each share of the unit holds of the target.
LEMMA SettledShares ==
    ASSUME PolicyInv, UsablePolicies, Pass, settled', SumOver(Free, share) > 0
    PROVE  TargetsHonourPolicy'
<1> DEFINE W == FreeWeight
           R == Leftover
           m == policy.max
           l == Cardinality(locked)
<1>1. /\ Over = {} /\ live' = live /\ policy' = policy /\ phase = "split"
      /\ \/ live' = live \ Dusty
         \/ Dusty = live /\ \E id \in live : live' = {id}
  BY PassSteps DEF PolicyInv, inputs
<1>2. /\ Free \subseteq Candidates /\ Free \cap locked = {} /\ locked \subseteq Candidates
      /\ live = Free \cup locked /\ IsFiniteSet(Free) /\ IsFiniteSet(locked) /\ l \in Nat
      /\ SplitWeight \in [Candidates -> Nat]
      /\ W \in Nat /\ R \in Nat
      /\ Whole \in Nat /\ Whole > 0
      /\ m \in Nat /\ policy.min \in Nat /\ policy.min <= m
  <2>1. live = Free \cup locked
    BY DEF Free, PolicyInv, LoopInv, TypeOK
  <2> QED
    BY <2>1, NormalShares, PolicyInForce, PoliciesAssumption, Subsets DEF PolicyInv, LoopInv
<1>3. /\ NormalUnit = W * Whole
      /\ \A id \in Free : Normal[id] = SplitWeight[id] * R
      /\ \A id \in locked : Normal[id] = m * W
  BY NormalShares DEF PolicyInv
<1>4. \A id \in live : share'[id] = Normal[id]
  BY <1>1, PassShares DEF PolicyInv
<1>5. m * W \in Nat /\ \A id \in Free : SplitWeight[id] \in Nat /\ SplitWeight[id] * R \in Nat
  BY <1>2, Product
<1>6. SumOver(live, share') = W * Whole
  <2>1. \A id \in Free : share'[id] = R * SplitWeight[id] /\ share'[id] \in Int
    BY <1>2, <1>3, <1>4, <1>5
  <2>2. \A id \in locked : share'[id] = m * W /\ share'[id] \in Int
    BY <1>2, <1>3, <1>4, <1>5
  <2>3. SumOver(Free, share') = R * W
    BY <1>2, <1>5, <2>1, SumTimes DEF FreeWeight
  <2>4. SumOver(locked, share') = (m * W) * l
    BY <1>2, <1>5, <2>2, SumOfConstant
  <2>5. SumOver(live, share') = R * W + (m * W) * l
    BY <1>2, <2>1, <2>2, <2>3, <2>4, SumSplits
  <2>6. R = Whole - m * l
    BY DEF Leftover
  <2> HIDE DEF W, R, m, l
  <2>7. R * W + (m * W) * l = W * Whole
    BY <1>2, <2>6
  <2> QED
    BY <2>5, <2>7
<1>7. ASSUME NEW id \in Free
      PROVE  /\ share'[id] * Whole <= m * (W * Whole)
             /\ share'[id] * Whole >= policy.min * (W * Whole) \/ live = {id}
  <2>1. ~(Normal[id] * Whole > m * NormalUnit)
    BY <1>1, <1>7 DEF Over, OverCap
  <2>2. share'[id] * Whole \in Nat /\ m * (W * Whole) \in Nat /\ policy.min * (W * Whole) \in Nat
    BY <1>2, <1>3, <1>4, <1>5, <1>7, Product
  <2>3. id \notin Dusty \/ live = {id}
    BY <1>1, <1>2, <1>7
  <2>4. id \notin Dusty => ~(Normal[id] * Whole < policy.min * NormalUnit)
    BY <1>1, <1>7 DEF Dusty
  <2>5. share'[id] = Normal[id] /\ NormalUnit = W * Whole
    BY <1>2, <1>3, <1>4, <1>7
  <2> QED
    BY <2>1, <2>2, <2>3, <2>4, <2>5
<1>8. ASSUME NEW id \in locked
      PROVE  /\ share'[id] * Whole <= m * (W * Whole)
             /\ share'[id] * Whole >= policy.min * (W * Whole)
  <2>1. share'[id] * Whole = m * (W * Whole)
    BY <1>2, <1>3, <1>4, <1>8
  <2>2. W * Whole \in Nat
    BY <1>2, Product
  <2>3. (W * Whole) * policy.min <= (W * Whole) * m
    BY <1>2, <2>2, Scale
  <2>4. /\ (W * Whole) * policy.min = policy.min * (W * Whole)
        /\ (W * Whole) * m = m * (W * Whole)
        /\ m * (W * Whole) \in Nat /\ policy.min * (W * Whole) \in Nat
    BY <1>2, <2>2, Product
  <2> QED
    BY <2>1, <2>3, <2>4
<1>9. \A id \in live' :
        /\ share'[id] * Whole <= policy'.max * SumOver(live', share')
        /\ share'[id] * Whole >= policy'.min * SumOver(live', share') \/ live' = {id}
  BY <1>1, <1>2, <1>6, <1>7, <1>8
<1> QED
  BY <1>9 DEF TargetsHonourPolicy

\* The targets of a loop that has settled with everybody locked: equal shares, of
\* which the cap allows each, or no such number of publishers could respect it.
LEMMA SettledLocked ==
    ASSUME PolicyInv, UsablePolicies, Pass, settled', SumOver(Free, share) = 0
    PROVE  TargetsHonourPolicy'
<1> DEFINE m == policy.max
           n == Cardinality(live)
           sum == SumOver(live, share')
<1>1. /\ Over = {} /\ live' = live /\ policy' = policy /\ Dusty = Free
      /\ \/ live' = live \ Dusty
         \/ Dusty = live /\ \E id \in live : live' = {id}
  BY PassSteps, NothingToScale DEF PolicyInv, inputs
<1>2. /\ live \subseteq Candidates /\ live = Free \cup locked /\ Free \subseteq live
      /\ live # {} /\ IsFiniteSet(live) /\ n \in Nat
      /\ Whole \in Nat /\ Whole > 0
      /\ m \in Nat /\ policy.min \in Nat /\ policy.min <= m
  <2>1. live \subseteq Candidates /\ live = Free \cup locked /\ live # {}
    BY DEF Free, PolicyInv, LoopInv, TypeOK, SomeoneSurvives
  <2> QED
    BY <2>1, PolicyInForce, PoliciesAssumption, Subsets DEF PolicyInv, LoopInv
<1>3. Normal = share /\ \A id \in Free : share[id] = 0
  BY NormalShares DEF PolicyInv
<1>4. \A id \in live : share'[id] = share[id] /\ share'[id] \in Nat
  BY <1>1, <1>2, <1>3, PassShares DEF PolicyInv
<1>5. sum \in Nat
  BY <1>2, <1>4, SumIsNat
<1>6. CASE Free # {}
  <2>1. PICK id \in live : live = {id}
    BY <1>1, <1>2, <1>6
  <2>2. id \in Free
    BY <1>2, <1>6, <2>1
  <2>3. share'[id] = 0
    BY <1>3, <1>4, <2>1, <2>2
  <2>4. m * sum \in Nat /\ share'[id] * Whole = 0
    BY <1>2, <1>5, <2>3, Product
  <2>5. /\ live' = {id} /\ policy'.max = m /\ SumOver(live', share') = sum
        /\ share'[id] * Whole <= m * sum
    BY <1>1, <2>1, <2>4
  <2> HIDE DEF m, sum
  <2> QED
    BY <2>5 DEF TargetsHonourPolicy
<1>7. CASE Free = {}
  <2>1. live = locked
    BY <1>2, <1>7
  <2>2. PICK c \in Nat : \A id \in live : share'[id] = c
    BY <1>2, <1>4, <2>1 DEF PolicyInv
  <2>3. sum = c * n
    BY <1>2, <2>2, SumOfConstant
  <2>4. m * n <= Whole
    <3>1. n * m <= Whole
      BY <2>1 DEF PolicyInv, LoopInv, LockedFitTheWhole
    <3> QED
      BY <1>2, <3>1
  <2>5. policy.min * sum <= c * Whole
    <3>1. n * policy.min <= n * m
      BY <1>2, Scale
    <3>2. n * policy.min <= Whole
      BY <1>2, <2>4, <3>1, Product
    <3>3. c * (n * policy.min) <= c * Whole
      BY <1>2, <3>2, Product, Scale
    <3> QED
      BY <1>2, <2>3, <3>3
  <2>6. c * Whole <= m * sum \/ m * n < Whole
    <3>1. CASE Whole <= m * n
      <4>1. c * Whole <= c * (m * n)
        BY <1>2, <3>1, Product, Scale
      <4> QED
        BY <1>2, <2>3, <4>1
    <3>2. CASE ~(Whole <= m * n)
      BY <1>2, <3>2, Product
    <3> QED
      BY <3>1, <3>2
  <2>7. \A id \in live' :
          /\ \/ share'[id] * Whole <= policy'.max * SumOver(live', share')
             \/ policy'.max * Cardinality(live') < Whole
          /\ share'[id] * Whole >= policy'.min * SumOver(live', share')
    <3>1. /\ \A id \in live : share'[id] = c
          /\ policy.min * sum \in Nat /\ c * Whole \in Nat
      BY <1>2, <1>5, <2>2, Product
    <3>2. policy' = policy /\ live' = live
      BY <1>1
    <3> QED
      BY <2>5, <2>6, <3>1, <3>2
  <2> QED
    BY <2>7 DEF TargetsHonourPolicy
<1> QED
  BY <1>6, <1>7

\* Under a usable policy, a pass that is not the last one pins somebody.
LEMMA PolicySteps ==
    ASSUME PolicyInv, UsablePolicies, [Next]_vars
    PROVE  PolicyInv'
<1>1. LoopInv'
  BY LoopSteps DEF PolicyInv
<1>2. CASE Pass
  <2>1. /\ unit' > 0
        /\ \A i, j \in locked' : share'[i] = share'[j]
        /\ \A id \in Free' : share'[id] > 0 => SplitWeight'[id] > 0
    BY <1>2, PassKeepsShares
  <2>2. SumOver(Free, share) \in Nat
    BY NormalShares DEF PolicyInv
  <2>3. CASE settled'
    <3>1. TargetsHonourPolicy'
      BY <1>2, <2>2, <2>3, SettledShares, SettledLocked
    <3>2. phase' = "target"
      BY <1>2, <2>3, PassSteps DEF PolicyInv
    <3> QED
      BY <1>1, <2>1, <3>1, <3>2 DEF PolicyInv
  <2>4. CASE ~settled'
    <3>1. phase' = "split" /\ pass' > 0 /\ pass' <= Cardinality(locked') + 1
      BY <1>2, <2>4, FivePassesSettle
    <3>2. NoDust'
      BY <1>2, PassLeavesNoDust
    <3>3. TargetsHonourPolicy'
      BY <3>1 DEF TargetsHonourPolicy
    <3> QED
      BY <1>1, <2>1, <3>1, <3>2, <3>3 DEF PolicyInv
  <2> QED
    BY <2>3, <2>4
<1>3. CASE Target \/ Redistribute \/ Emit
  <2>1. phase' \in {"settle", "done"} /\ UNCHANGED shares
    BY <1>3 DEF Target, Redistribute, Emit
  <2> QED
    BY <1>1, <2>1 DEF PolicyInv, TargetsHonourPolicy, shares
<1>4. CASE UNCHANGED vars
  BY <1>1, <1>4 DEF PolicyInv, TargetsHonourPolicy, NoDust, Free, FreeWeight, Leftover,
                    SplitWeight, vars, inputs, shares
<1> QED
  BY <1>2, <1>3, <1>4 DEF Next

\* Under a usable policy, for any number of candidates and any weights, the loop ends
\* with targets that respect the cap, unless too few survive for it, and the floor.
THEOREM UsablePoliciesAreHonoured ==
    ASSUME UsablePolicies
    PROVE  Spec => []TargetsHonourPolicy
<1>1. Init => PolicyInv
  <2> SUFFICES ASSUME Init PROVE PolicyInv
    OBVIOUS
  <2>1. LoopInv /\ phase = "split" /\ locked = {} /\ pass = 0 /\ share = SplitWeight
        /\ unit = SumOver(Candidates, SplitWeight)
    BY LoopStarts DEF Init
  <2>2. unit > 0
    BY <2>1, SplitWeights, InputTypes DEF LoopInv
  <2> QED
    BY <2>1, <2>2 DEF PolicyInv, TargetsHonourPolicy
<1>2. PolicyInv /\ [Next]_vars => PolicyInv'
  BY PolicySteps
<1>3. PolicyInv => TargetsHonourPolicy
  BY DEF PolicyInv
<1> QED
  BY <1>1, <1>2, <1>3, PTL DEF Spec

---------------------------------------------------------------------------
(***************************************************************************)
(* The recommended budget.                                                 *)
(***************************************************************************)

\* Neither the cap nor the floor has touched anybody.
Unlimited == locked = {} /\ live = Candidates

\* The shares are then the weights, scaled.
SharesAreWeights ==
    Unlimited /\ phase \in {"split", "target"} =>
        \E k \in Nat \ {0} : \A id \in Candidates : share[id] = k * SplitWeight[id]

\* What the recommendation promises where no limit interferes and everybody can deliver.
RecommendationHolds ==
    LET usable == Unlimited /\ \A id \in Candidates : deliverable[id] > 0
    IN phase = "settle" /\ round = 0 /\ usable
           /\ total <= RecommendedBudget(origWeight, deliverable)
       => total - Spent <= Epsilon

BudgetInv == MoneyInv /\ SharesAreWeights /\ RecommendationHolds

\* The recommended budget is the least of the budgets at which somebody is full, if
\* everybody can deliver something.
LEMMA RecommendedIsLeast ==
    ASSUME NEW w \in [Candidates -> Nat], NEW d \in [Candidates -> Nat],
           \A id \in Candidates : d[id] > 0
    PROVE  /\ SumOver(Candidates, w) = 0 =>
                  \A id \in Candidates :
                      RecommendedBudget(w, d) <= Cardinality(Candidates) * d[id]
           /\ SumOver(Candidates, w) # 0 =>
                  \A id \in Candidates : w[id] > 0 =>
                      RecommendedBudget(w, d) <= (d[id] * SumOver(Candidates, w)) \div w[id]
<1>1. {id \in Candidates : d[id] > 0} = Candidates
  OBVIOUS
<1>2. PICK sum \in Nat : sum = SumOver(Candidates, w)
  BY CandidatesAssumption, SumIsNat
<1>3. PICK n \in Nat : n = Cardinality(Candidates)
  BY CandidatesAssumption, FS_CardinalityType
<1>4. PICK ceilings :
          ceilings = IF sum = 0
                     THEN {n * d[id] : id \in Candidates}
                     ELSE {(d[id] * sum) \div w[id] : id \in {i \in Candidates : w[i] > 0}}
  OBVIOUS
<1>5. RecommendedBudget(w, d) = CHOOSE b \in ceilings : \A c \in ceilings : b <= c
  BY <1>1, <1>2, <1>3, <1>4, CandidatesAssumption DEF RecommendedBudget
<1>6. ceilings \subseteq Nat
  <2>1. \A id \in Candidates : n * d[id] \in Nat /\ d[id] * sum \in Nat
    BY Product
  <2>2. ASSUME NEW id \in Candidates, w[id] > 0 PROVE (d[id] * sum) \div w[id] \in Nat
    <3>1. d[id] * sum \in Nat /\ w[id] \in Nat
      BY <2>1
    <3> QED
      BY <2>2, <3>1, Quotient
  <2>3. CASE sum = 0
    BY <1>4, <2>1, <2>3
  <2>4. CASE sum # 0
    BY <1>4, <2>2, <2>4
  <2> QED
    BY <2>3, <2>4
<1>7. ceilings # {}
  <2>1. sum = 0 <=> \A id \in Candidates : w[id] = 0
    BY <1>2, CandidatesAssumption, SumIsZero
  <2>2. CASE sum = 0
    BY <1>4, <2>2, CandidatesAssumption
  <2>3. CASE sum # 0
    <3>1. PICK id \in Candidates : w[id] > 0
      BY <2>1, <2>3
    <3> QED
      BY <1>4, <2>3, <3>1
  <2> QED
    BY <2>2, <2>3
<1>8. \E b \in ceilings : \A c \in ceilings : b <= c
  BY <1>6, <1>7, LeastNatural
<1>9. \A c \in ceilings : RecommendedBudget(w, d) <= c
  BY <1>5, <1>8
<1>10. ASSUME sum = 0, NEW id \in Candidates
       PROVE  RecommendedBudget(w, d) <= n * d[id]
  BY <1>4, <1>9, <1>10
<1>11. ASSUME sum # 0, NEW id \in Candidates, w[id] > 0
       PROVE  RecommendedBudget(w, d) <= (d[id] * sum) \div w[id]
  BY <1>4, <1>9, <1>11
<1> QED
  BY <1>2, <1>3, <1>10, <1>11

\* A part of the money, by weight, is within what its owner can deliver.
LEMMA PartWithin ==
    ASSUME NEW v \in Nat, NEW money \in Nat, NEW d \in Nat, NEW D \in Nat, D > 0,
           v > 0 => money <= (d * D) \div v
    PROVE  (v * money) \div D <= d
<1>1. CASE v = 0
  <2>1. v * money = 0
    BY <1>1
  <2>2. PICK q \in Nat : q = (v * money) \div D /\ D * q <= v * money
    BY Product, Quotient
  <2>3. D * q <= D * 0
    BY <2>1, <2>2
  <2>4. q <= 0
    BY <2>2, <2>3, Cancel
  <2> QED
    BY <2>2, <2>4
<1>2. CASE v > 0
  <2>1. PICK q \in Nat : q = (v * money) \div D /\ D * q <= v * money
    BY Product, Quotient
  <2>2. PICK r \in Nat : r = (d * D) \div v /\ v * r <= d * D
    BY <1>2, Product, Quotient
  <2>3. v * money <= v * r
    BY <1>2, <2>2, Scale
  <2>4. D * q <= D * d
    BY <2>1, <2>2, <2>3, Product
  <2>5. q <= d
    BY <2>1, <2>4, Cancel
  <2> QED
    BY <2>1, <2>5
<1> QED
  BY <1>1, <1>2

\* So up to the recommended budget everybody can take a part by weight.
LEMMA WithinCapacity ==
    ASSUME origWeight \in [Candidates -> Nat], NEW d \in [Candidates -> Nat],
           \A id \in Candidates : d[id] > 0,
           NEW money \in Nat, money <= RecommendedBudget(origWeight, d),
           NEW id \in Candidates
    PROVE  (SplitWeight[id] * money) \div SumOver(Candidates, SplitWeight) <= d[id]
<1>1. PICK D \in Nat : D = SumOver(Candidates, SplitWeight) /\ D > 0
  BY SplitWeights
<1>2. PICK b \in Nat : b = RecommendedBudget(origWeight, d)
  BY RecommendedBudgetIsNat
<1>3. CASE SumOver(Candidates, origWeight) = 0
  <2>1. SplitWeight = [i \in Candidates |-> 1]
    BY <1>3 DEF SplitWeight
  <2>2. D = 1 * Cardinality(Candidates)
    BY <1>1, <2>1, CandidatesAssumption, SumOfConstant
  <2>3. Cardinality(Candidates) \in Nat
    BY CandidatesAssumption, FS_CardinalityType
  <2>4. b <= D * d[id]
    BY <1>2, <1>3, <2>2, <2>3, RecommendedIsLeast
  <2>5. (d[id] * D) \div 1 = D * d[id] /\ SplitWeight[id] = 1
    BY <1>1, <2>1, Product
  <2>6. D * d[id] \in Nat
    BY <1>1, Product
  <2>7. money <= (d[id] * D) \div SplitWeight[id]
    BY <1>2, <2>4, <2>5, <2>6
  <2> QED
    BY <1>1, <2>5, <2>7, PartWithin
<1>4. CASE SumOver(Candidates, origWeight) # 0
  <2>1. SplitWeight = origWeight
    BY <1>4 DEF SplitWeight
  <2>2. ASSUME SplitWeight[id] > 0 PROVE money <= (d[id] * D) \div SplitWeight[id]
    <3>1. b <= (d[id] * D) \div SplitWeight[id]
      BY <1>1, <1>2, <1>4, <2>1, <2>2, RecommendedIsLeast
    <3>2. (d[id] * D) \div SplitWeight[id] \in Nat
      BY <1>1, <2>1, <2>2, Product, Quotient
    <3> QED
      BY <1>2, <3>1, <3>2
  <2> QED
    BY <1>1, <2>1, <2>2, PartWithin
<1> QED
  BY <1>3, <1>4

\* Only the quotient is so close.
LEMMA QuotientIs ==
    ASSUME NEW n \in Nat, NEW d \in Nat, d > 0, NEW q \in Nat, d * q <= n, n < d * q + d
    PROVE  n \div d = q
<1>1. PICK p \in Nat : p = n \div d /\ d * p <= n /\ n < d * p + d
  BY Quotient
<1>2. d * q < d * (p + 1) /\ d * p < d * (q + 1)
  BY <1>1
<1>3. ~(p + 1 <= q) /\ ~(q + 1 <= p)
  <2>1. ASSUME p + 1 <= q PROVE FALSE
    <3>1. d * (p + 1) <= d * q
      BY <2>1, Scale
    <3> QED
      BY <1>2, <3>1, Product
  <2>2. ASSUME q + 1 <= p PROVE FALSE
    <3>1. d * (q + 1) <= d * p
      BY <2>2, Scale
    <3> QED
      BY <1>2, <3>1, Product
  <2> QED
    BY <2>1, <2>2
<1> QED
  BY <1>1, <1>3

\* A factor of both sides of a division can be left out.
LEMMA CommonFactor ==
    ASSUME NEW k \in Nat, k > 0, NEW v \in Nat, NEW money \in Nat, NEW D \in Nat, D > 0
    PROVE  ((k * v) * money) \div (k * D) = (v * money) \div D
<1>1. PICK n \in Nat : n = v * money
  BY Product
<1>2. PICK q \in Nat : q = n \div D /\ D * q <= n /\ n < D * q + D
  BY <1>1, Quotient
<1>3. (k * v) * money = k * n
  BY <1>1
<1>4. k * D \in Nat /\ k * D > 0 /\ k * n \in Nat
  BY <1>1, Product
<1>5. k * (D * q) <= k * n
  BY <1>2, Product, Scale
<1>6. k * (n + 1) <= k * (D * q + D)
  <2>1. n + 1 <= D * q + D
    BY <1>2, Product
  <2> QED
    BY <1>2, <2>1, Product, Scale
<1>7. (k * D) * q <= k * n /\ k * n < (k * D) * q + k * D
  <2>1. /\ (k * D) * q = k * (D * q)
        /\ k * (D * q + D) = (k * D) * q + k * D
        /\ k * (n + 1) = k * n + k
    BY <1>2
  <2> QED
    BY <1>2, <1>4, <1>5, <1>6, <2>1, Product
<1> QED
  BY <1>1, <1>2, <1>3, <1>4, <1>7, QuotientIs

\* A pass that limits nobody scales the weights.
LEMMA PassScales ==
    ASSUME MoneyInv, SharesAreWeights, Pass, Unlimited'
    PROVE  \E k \in Nat \ {0} : \A id \in Candidates : share'[id] = k * SplitWeight'[id]
<1>1. /\ Over \subseteq Free /\ live' \subseteq live /\ locked' = locked \cup Over
      /\ phase = "split" /\ origWeight' = origWeight
  BY PassSteps DEF MoneyInv, inputs
<1>2. locked = {} /\ Over = {} /\ live = Candidates /\ live' = Candidates
  BY <1>1 DEF Unlimited, MoneyInv, LoopInv, TypeOK
<1>3. SplitWeight' = SplitWeight /\ Free = Candidates
  BY <1>1, <1>2 DEF SplitWeight, Free
<1>4. PICK k \in Nat \ {0} : \A id \in Candidates : share[id] = k * SplitWeight[id]
  BY <1>1, <1>2 DEF SharesAreWeights, Unlimited
<1>5. /\ SplitWeight \in [Candidates -> Nat] /\ SumOver(Candidates, SplitWeight) \in Nat
      /\ SumOver(Candidates, SplitWeight) > 0
  BY SplitWeights, InputTypes DEF MoneyInv, LoopInv
<1>6. SumOver(Free, share) > 0
  <2>1. SumOver(Candidates, share) = k * SumOver(Candidates, SplitWeight)
    BY <1>4, <1>5, CandidatesAssumption, SumTimes
  <2> QED
    BY <1>3, <1>4, <1>5, <2>1
<1>7. Leftover = Whole /\ Whole \in Nat \ {0}
  <2>1. Cardinality(locked) = 0 /\ policy.max \in Nat /\ Whole \in Nat /\ Whole > 0
    BY <1>2, FS_EmptySet, InputTypes DEF MoneyInv, LoopInv
  <2> QED
    BY <2>1 DEF Leftover
<1>8. \A id \in Candidates : share'[id] = SplitWeight[id] * Whole
  BY <1>2, <1>3, <1>6, <1>7, PassShares, NormalShares DEF MoneyInv
<1> QED
  BY <1>3, <1>5, <1>7, <1>8

\* The targets are then the parts of the money by weight, and everybody gets theirs.
LEMMA TargetsAreMet ==
    ASSUME MoneyInv, SharesAreWeights, Target, Unlimited,
           \A id \in Candidates : deliverable[id] > 0,
           total <= RecommendedBudget(origWeight, deliverable)
    PROVE  total - SumOver(Candidates, amount') <= Epsilon
<1>1. /\ phase = "target" /\ live = Candidates
      /\ amount' = [id \in Candidates |->
                        IF SumOver(Candidates, share) > 0
                        THEN SmallerOf((share[id] * total) \div SumOver(Candidates, share),
                                       deliverable[id])
                        ELSE 0]
  BY DEF Target, Unlimited
<1>2. /\ origWeight \in [Candidates -> Nat] /\ deliverable \in [Candidates -> Nat]
      /\ total \in Nat
  BY InputTypes DEF MoneyInv, LoopInv, TypeOK
<1>3. PICK k \in Nat \ {0} : \A id \in Candidates : share[id] = k * SplitWeight[id]
  BY <1>1 DEF SharesAreWeights
<1>4. PICK D \in Nat : D = SumOver(Candidates, SplitWeight) /\ D > 0
  BY <1>2, SplitWeights
<1>5. SplitWeight \in [Candidates -> Nat]
  BY <1>2, SplitWeights
<1>6. PICK E \in Nat : E = SumOver(Candidates, share) /\ E = k * D /\ E > 0
  <2>1. SumOver(Candidates, share) = k * D
    BY <1>3, <1>4, <1>5, CandidatesAssumption, SumTimes
  <2> QED
    BY <1>4, <2>1, Product
<1>7. \A id \in Candidates : (share[id] * total) \div E = (SplitWeight[id] * total) \div D
  <2> SUFFICES ASSUME NEW id \in Candidates
               PROVE  (share[id] * total) \div E = (SplitWeight[id] * total) \div D
    OBVIOUS
  <2>1. PICK v \in Nat : v = SplitWeight[id]
    BY <1>5
  <2>2. share[id] = k * v
    BY <1>3, <2>1
  <2>3. ((k * v) * total) \div (k * D) = (v * total) \div D
    BY <1>2, <1>4, CommonFactor
  <2> QED
    BY <1>6, <2>1, <2>2, <2>3
<1>8. \A id \in Candidates : amount'[id] = (SplitWeight[id] * total) \div D
  <2> SUFFICES ASSUME NEW id \in Candidates
               PROVE  amount'[id] = (SplitWeight[id] * total) \div D
    OBVIOUS
  <2>1. PICK q \in Nat : q = (SplitWeight[id] * total) \div D
    BY <1>2, <1>4, <1>5, Product, Quotient
  <2>2. q <= deliverable[id]
    BY <1>2, <1>4, <2>1, WithinCapacity
  <2>3. amount'[id] = SmallerOf(q, deliverable[id])
    BY <1>1, <1>6, <1>7, <2>1
  <2>4. SmallerOf(q, deliverable[id]) = q
    BY <1>2, <2>2 DEF SmallerOf
  <2> QED
    BY <2>1, <2>3, <2>4
<1>9. PICK paid : paid = amount'
  OBVIOUS
<1>10. total - SumOver(Candidates, paid) <= Cardinality(Candidates)
  BY <1>2, <1>4, <1>5, <1>8, <1>9, CandidatesAssumption, PartsFit
<1>11. SumOver(Candidates, paid) \in Nat /\ Cardinality(Candidates) \in Nat
  BY <1>2, <1>4, <1>5, <1>8, <1>9, CandidatesAssumption, PartsFit, FS_CardinalityType
<1> QED
  BY <1>2, <1>9, <1>10, <1>11, MoneyAssumption

\* Up to the recommended budget everybody gets their part of it at once, unless the
\* cap, the floor or a publisher without inventory has moved money (allocate.go:30-41).
THEOREM OnlyLimitsClipTheRecommendation == Spec => []RecommendationHolds
<1>1. Init => BudgetInv
  <2> SUFFICES ASSUME Init PROVE BudgetInv
    OBVIOUS
  <2>1. LoopInv /\ amount = NoMoney /\ phase = "split" /\ share = SplitWeight
    BY LoopStarts DEF Init, NoMoney
  <2>2. MoneyInv
    BY <2>1, NothingYet DEF MoneyInv
  <2>3. SplitWeight \in [Candidates -> Nat]
    BY <2>1, SplitWeights, InputTypes DEF LoopInv
  <2>4. \A id \in Candidates : share[id] = 1 * SplitWeight[id]
    BY <2>1, <2>3
  <2> QED
    BY <2>1, <2>2, <2>4 DEF BudgetInv, SharesAreWeights, RecommendationHolds
<1>2. BudgetInv /\ [Next]_vars => BudgetInv'
  <2> SUFFICES ASSUME BudgetInv, [Next]_vars PROVE BudgetInv'
    OBVIOUS
  <2>1. MoneyInv' /\ MoneyInv /\ SharesAreWeights
    BY MoneySteps DEF BudgetInv
  <2>2. CASE Pass
    <3>1. SharesAreWeights'
      BY <2>1, <2>2, PassScales DEF SharesAreWeights
    <3>2. phase' \in {"split", "target"}
      BY <2>1, <2>2, PassSteps DEF MoneyInv
    <3> QED
      BY <2>1, <3>1, <3>2 DEF BudgetInv, RecommendationHolds
  <2>3. CASE Target
    <3>1. phase' \in {"settle", "done"} /\ UNCHANGED <<inputs, live, locked>>
      BY <2>3 DEF Target, shares
    <3>2. RecommendationHolds'
      <4> SUFFICES ASSUME Unlimited, \A id \in Candidates : deliverable[id] > 0,
                          total <= RecommendedBudget(origWeight, deliverable)
                   PROVE  total - SumOver(Candidates, amount') <= Epsilon
        BY <3>1 DEF RecommendationHolds, Unlimited, Spent, inputs
      <4> QED
        BY <2>1, <2>3, TargetsAreMet
    <3> QED
      BY <2>1, <3>1, <3>2 DEF BudgetInv, SharesAreWeights
  <2>4. CASE Redistribute
    <3>1. phase' = "settle" /\ round' # 0
      <4>1. phase = "settle" /\ phase' = phase /\ round' = round + 1
        BY <2>1, <2>4, RoundSteps DEF MoneyInv
      <4>2. round \in Nat
        BY <2>1 DEF MoneyInv, LoopInv, TypeOK
      <4> QED
        BY <4>1, <4>2
    <3> QED
      BY <2>1, <3>1 DEF BudgetInv, SharesAreWeights, RecommendationHolds
  <2>5. CASE Emit
    BY <2>1, <2>5 DEF Emit, BudgetInv, SharesAreWeights, RecommendationHolds
  <2>6. CASE UNCHANGED vars
    BY <2>1, <2>6 DEF vars, inputs, shares, BudgetInv, SharesAreWeights, RecommendationHolds,
                      Unlimited, SplitWeight, Spent
  <2> QED
    BY <2>2, <2>3, <2>4, <2>5, <2>6 DEF Next
<1>3. BudgetInv => RecommendationHolds
  BY DEF BudgetInv
<1> QED
  BY <1>1, <1>2, <1>3, PTL DEF Spec

(***************************************************************************)
(* The end of both loops.                                                  *)
(***************************************************************************)

\* The most steps that can still follow.
StepsLeft ==
    CASE phase = "split" -> 2 + Cardinality(Candidates) + maxAllocPasses - pass
      [] phase = "target" -> 2 + Cardinality(Candidates)
      [] phase = "settle" -> 1 + Cardinality(Candidates) - round
      [] phase = "done" -> 0

\* Each step brings the end nearer.
EveryStepCounts == [][StepsLeft' < StepsLeft]_vars

\* Whatever the inputs, an allocation takes at most five passes, a round for each
\* candidate and the two steps around them; neither loop can run on
\* (allocate.go:254, 343).
THEOREM AllocationEnds == Spec => EveryStepCounts /\ [](StepsLeft \in Nat)
<1>1. PICK n \in Nat : n = Cardinality(Candidates)
  BY CandidatesAssumption, FS_CardinalityType
<1>2. LoopInv => StepsLeft \in Nat
  BY <1>1 DEF LoopInv, TypeOK, StepsLeft, maxAllocPasses
<1>3. LoopInv /\ [Next]_vars => StepsLeft' < StepsLeft \/ UNCHANGED vars
  <2> SUFFICES ASSUME LoopInv, Next PROVE StepsLeft' < StepsLeft
    OBVIOUS
  <2>1. LoopInv' /\ pass \in 0 .. 5 /\ round \in 0 .. n
    BY <1>1, LoopSteps DEF LoopInv, TypeOK, maxAllocPasses
  <2>2. CASE Pass
    <3>1. phase = "split" /\ phase' \in {"split", "target"} /\ pass' = pass + 1 /\ pass < 5
      BY <2>2, PassSteps DEF maxAllocPasses
    <3> QED
      BY <1>1, <2>1, <3>1 DEF StepsLeft, maxAllocPasses
  <2>3. CASE Target
    <3>1. phase = "target" /\ phase' \in {"settle", "done"} /\ round' = round
      BY <2>3 DEF Target
    <3> QED
      BY <1>1, <2>1, <3>1 DEF StepsLeft
  <2>4. CASE Redistribute
    <3>1. phase = "settle" /\ phase' = "settle" /\ round' = round + 1
      BY <2>4, RoundSteps
    <3> QED
      BY <1>1, <2>1, <3>1 DEF StepsLeft
  <2>5. CASE Emit
    <3>1. phase = "settle" /\ phase' = "done"
      BY <2>5 DEF Emit
    <3> QED
      BY <1>1, <2>1, <3>1 DEF StepsLeft
  <2> QED
    BY <2>2, <2>3, <2>4, <2>5 DEF Next
<1> QED
  BY <1>2, <1>3, LoopAlways, PTL DEF Spec, EveryStepCounts
=============================================================================
