------------------------------ MODULE Scoring ------------------------------
(***************************************************************************)
(* Stage 2 (internal/pipeline/scoring.go, adjacency.go, cpm.go): the six    *)
(* sub-scores of a publisher for a profile, the hard gate they imply and    *)
(* the weighted score, without a model.                                     *)
(*                                                                         *)
(* Categories, subcategories, values and keywords are opaque tokens, as     *)
(* the code compares them.  A sub-score is a multiple of 1/Unit and a       *)
(* weight is in hundredths; a score is a float, whose sums are rounded.     *)
(***************************************************************************)
EXTENDS Loops, SequencesExt

CONSTANTS
    Unit,           \* one point of a sub-score
    Precision,      \* the digits of a float: 2^53 in the code
    AdjacencyEdges, \* pairs of neighbouring categories, written one way
    PriceTierIncome, IncomeIndex,   \* tiers on one axis, in half steps
    IncomePremium, CategoryPremium, \* dollars above the CPM floor
    ValueKeywords   \* what signals each value in a publisher's own words

ASSUME UnitAssumption == Unit \in Nat \ {0} /\ Unit % 20 = 0
ASSUME PrecisionAssumption ==
    Precision \in Nat \ {0} /\ Precision % 8 = 0 /\ 100 * Unit <= 8 * Precision
ASSUME TablesAssumption ==
    \A table \in {PriceTierIncome, IncomeIndex} : \A tier \in DOMAIN table : table[tier] \in Int

NoCategory == ""
GateNone == ""
NotConsumer == "not_consumer_dtc"
CategoryMismatch == "category_mismatch"
DemographicMismatch == "demographic_mismatch"

\* The weights, in hundredths.
Weights == [Category |-> 30, AOVAlignment |-> 20, AgeOverlap |-> 15,
            ValuesMatch |-> 15, GenderFit |-> 10, IncomeTier |-> 10]
SubScores == DOMAIN Weights
NoSubScore == "none"

Least(a, b) == IF a < b THEN a ELSE b
Greatest(a, b) == IF a > b THEN a ELSE b
Clamp(v) == Greatest(0, Least(v, Unit))
Fraction(n, d) == (Unit * n) \div d
Neutral == Unit \div 2

\* Intersection over union of two token sets.
Jaccard(a, b) ==
    IF a = {} \/ b = {} THEN 0
    ELSE Fraction(Cardinality(a \cap b), Cardinality(a \cup b))

\* Neighbourhood is closed symmetrically when the package is initialised.
IsAdjacent(a, b) == <<a, b>> \in AdjacencyEdges \/ <<b, a>> \in AdjacencyEdges

\* The fall-back order drops the subcategories: only equal or adjacent
\* categories count.
CategoryScoreWithoutSubs(p, pub) ==
    IF p.category # NoCategory /\ p.category = pub.category THEN Unit
    ELSE IF IsAdjacent(p.category, pub.category) THEN Neutral ELSE 0

CategoryScore(p, pub) ==
    IF p.category # NoCategory /\ p.category = pub.category THEN Unit
    ELSE IF p.subs \cap pub.subs # {} THEN 2 * (Unit \div 5) + Jaccard(p.subs, pub.subs) \div 2
    ELSE IF IsAdjacent(p.category, pub.category) THEN Neutral
    ELSE 0

\* The ratio of the order values, a quarter or less of which is worth nothing.
AOVScore(advertiser, publisher) ==
    IF advertiser <= 0 \/ publisher <= 0 THEN Neutral
    ELSE Clamp((4 * Fraction(Least(advertiser, publisher), Greatest(advertiser, publisher))
                - Unit) \div 3)

\* The values that the notes, subcategories and category of a publisher signal.
DeriveKeywords(pub) ==
    {value \in DOMAIN ValueKeywords : ValueKeywords[value] \cap pub.words # {}}

\* An age range in a record parses when it has two ends in order.
ParsesAsRange(range) == Len(range) = 2 /\ range[1] <= range[2]

\* The width of the overlap leaves out its last year.
AgeScoreExclusive(p, pub) ==
    LET lo == Greatest(p.ages[1], pub.ages[1])
        hi == Least(p.ages[2], pub.ages[2])
        narrower == Least(p.ages[2] - p.ages[1], pub.ages[2] - pub.ages[1]) + 1
    IN IF ~ParsesAsRange(pub.ages) \/ p.ages = <<0, 0>> THEN Neutral
       ELSE IF hi - lo <= 0 \/ narrower <= 0 THEN 0
       ELSE Clamp(Fraction(hi - lo, narrower))

\* The overlap of the two ranges as a fraction of the narrower one.
AgeScore(p, pub) ==
    LET lo == Greatest(p.ages[1], pub.ages[1])
        hi == Least(p.ages[2], pub.ages[2])
        narrower == Least(p.ages[2] - p.ages[1], pub.ages[2] - pub.ages[1]) + 1
    IN IF ~ParsesAsRange(pub.ages) \/ p.ages = <<0, 0>> THEN Neutral
       ELSE IF hi - lo + 1 <= 0 \/ narrower <= 0 THEN 0
       ELSE Clamp(Fraction(hi - lo + 1, narrower))

\* The share of the advertiser's values that the publisher's keywords signal.
ValuesScore(values, keywords) ==
    IF values = << >> THEN Neutral
    ELSE Fraction(Cardinality({i \in DOMAIN values : values[i] \in keywords}), Len(values))

\* split holds percentages; a skew without a share says nothing.
GenderScore(skew, split) ==
    IF skew \notin {"female", "male"} \cap DOMAIN split THEN Neutral
    ELSE Clamp(Fraction(split[skew] - 30, 50))

IncomeScore(priceTier, incomeTier) ==
    IF priceTier \notin DOMAIN PriceTierIncome \/ incomeTier \notin DOMAIN IncomeIndex
    THEN Neutral
    ELSE LET a == PriceTierIncome[priceTier]
             b == IncomeIndex[incomeTier]
         IN Clamp(Unit - Fraction(Greatest(a, b) - Least(a, b), 4))

SubScoresOf(p, pub) ==
    [Category |-> CategoryScore(p, pub),
     AOVAlignment |-> AOVScore(p.aov, pub.aov),
     AgeOverlap |-> AgeScore(p, pub),
     ValuesMatch |-> ValuesScore(p.values, DeriveKeywords(pub)),
     GenderFit |-> GenderScore(p.skew, pub.split),
     IncomeTier |-> IncomeScore(p.tier, pub.income)]

\* The first gate that applies is the one reported.
HardGate(p, sub) ==
    IF ~p.consumer THEN NotConsumer
    ELSE IF sub.Category = 0 THEN CategoryMismatch
    ELSE IF sub.AgeOverlap = 0 THEN DemographicMismatch
    ELSE GateNone

\* v as a multiple of step, an even one if there are two as near.
Nearest(v, step) ==
    LET q == v \div step
        r == v % step
    IN IF 2 * r < step \/ (2 * r = step /\ q % 2 = 0) THEN step * q ELSE step * (q + 1)

\* The float for v: whole up to Precision, and half as fine at each power of two.
Rounded(v) ==
    IF v <= Precision THEN v
    ELSE Nearest(v, IF v <= 2 * Precision THEN 2 ELSE IF v <= 4 * Precision THEN 4 ELSE 8)

\* The sum so far with the term of s, unless it is left out.
Plus(total, sub, s, omit) ==
    IF s = omit THEN total ELSE Rounded(total + Rounded(Weights[s] * sub[s]))

\* The terms in the order of the code, from left to right.
WeightedSum(sub, omit) ==
    LET category == Plus(0, sub, "Category", omit)
        aov == Plus(category, sub, "AOVAlignment", omit)
        age == Plus(aov, sub, "AgeOverlap", omit)
        values == Plus(age, sub, "ValuesMatch", omit)
        gender == Plus(values, sub, "GenderFit", omit)
    IN Plus(gender, sub, "IncomeTier", omit)

\* A gated publisher scores nothing, whatever its sub-scores.
ScoreOne(p, pub) ==
    LET sub == SubScoresOf(p, pub)
        gate == HardGate(p, sub)
    IN [sub |-> sub, gate |-> gate,
        score |-> IF gate = GateNone THEN WeightedSum(sub, NoSubScore) ELSE 0]

Premium(table, key) == IF key \in DOMAIN table THEN table[key] ELSE 0

\* The modelled price of a thousand impressions, in cents: order value moves it by
\* at most 15%.
EstimateCPM(pub, minAOV, maxAOV) ==
    LET base == 8 + Premium(IncomePremium, pub.income) + Premium(CategoryPremium, pub.category)
        index == IF maxAOV > minAOV
                 THEN Clamp(Fraction(pub.aov - minAOV, maxAOV - minAOV)) ELSE 0
    IN base * (100 + (15 * index) \div Unit)
=============================================================================
