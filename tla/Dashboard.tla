----------------------------- MODULE Dashboard -----------------------------
(***************************************************************************)
(* "disco metrics" (internal/dashboard): every request reads the latest    *)
(* report and the baseline afresh and turns them into one page.            *)
(*                                                                         *)
(* Coordinates, colours and wording are left out; what a chart counts,     *)
(* which rows it has and their order are not.                              *)
(***************************************************************************)
EXTENDS Reports

CONSTANT Tolerance  \* eps: a change no larger is none

ASSUME ToleranceAssumption == Tolerance \in Nat

\* A request for the page; a process serves many, one of them at a time here.
OpenLatest(p) ==
    /\ pc[p] = "serving"
    /\ Run(p).command = "metrics"
    /\ page[p].latest \in Refused \cup {"none"} \/ page[p].baseline # "none"
    /\ Open(p, "latest")
    /\ UNCHANGED <<work, pc, drafts, failures, judge>>

\* The baseline is read only if there is a latest report to compare with it.
OpenComparison(p) ==
    /\ pc[p] = "serving"
    /\ page[p].latest \notin Refused \cup {"none"}
    /\ page[p].baseline = "none"
    /\ Open(p, "baseline")
    /\ UNCHANGED <<work, pc, drafts, failures, judge>>

---------------------------------------------------------------------------
(***************************************************************************)
(* What the page shows of a metric m.                                      *)
(***************************************************************************)

\* Parts of one bar, abstentions taken together; no bar without citations.
ReasonBar(m) ==
    LET n == m.counts
        bar == <<n.consistent, n.weak, n.contradicted, n.concessive + n.advertiser_term, n.unscored>>
    IN IF SumOver(DOMAIN bar, bar) = 0 THEN << >> ELSE bar

\* The code's names in byte order.
NameOrder == <<"AOVAlignment", "AgeOverlap", "Category", "GenderFit", "IncomeTier", "ValuesMatch">>

\* Both charts share one order: most influential first, then by name.
AblationChart(m) == ByInfluence(m.values, NameOrder)

\* The length of the bar of s, out of Unit for the longest of its chart.
BarLength(m, chart, s) ==
    Rate(m.values[<<chart, s>>], Max({m.values[<<chart, t>>] : t \in SubScores}))

\* A finding is text, which has an overlap in thousandths.
ThreeDecimals(v) == (1000 * v + Unit \div 2) \div Unit

\* A dot for each pair that has a finding, where its text puts it, and the mean.
\* Every finding the code writes can be parsed.
Distinctiveness(m) ==
    [points |-> [i \in DOMAIN m.findings |-> ThreeDecimals(m.findings[i].copy)],
     mean |-> m.values.mean_copy_overlap]

AttributionBars(m) ==
    <<m.values.attribution_accuracy, m.values.chance_baseline,
      m.values.high_confidence_rate_real, m.values.high_confidence_rate_control>>

---------------------------------------------------------------------------
(***************************************************************************)
(* The table of a metric's values.                                         *)
(***************************************************************************)

HigherBetter == {"consistency_rate", "coverage_rate", "attribution_accuracy", "lift",
                 "confidence_separation", "high_confidence_rate_real"}
LowerBetter == {"contradiction_rate", "vagueness_rate"}

Arrow(delta) ==
    IF delta > Tolerance THEN "up" ELSE IF delta < -Tolerance THEN "down" ELSE "level"

\* A change is judged only where the code knows which way is better.
Colour(key, delta) ==
    CASE Arrow(delta) = "level" \/ key \notin HigherBetter \cup LowerBetter -> "neutral"
      [] OTHER -> IF Arrow(delta) = (IF key \in HigherBetter THEN "up" ELSE "down")
                  THEN "good" ELSE "bad"

\* base: the values of the same metric in the baseline, if it has it.
Row(name, m, key, base) ==
    IF key \in DOMAIN base
    THEN LET delta == m.values[key] - base[key]
         IN [value |-> m.values[key], delta |-> delta, arrow |-> Arrow(delta),
             colour |-> IF name = "scoring_ablation" THEN "neutral" ELSE Colour(key, delta)]
    ELSE [value |-> m.values[key]]

BaseValues(name, baseline) == IF name \in DOMAIN baseline THEN baseline[name].values ELSE << >>

MetricView(name, m, base) ==
    [rows |-> [key \in DOMAIN m.values |-> Row(name, m, key, base)],
     chart |-> CASE name = "reason_consistency" -> ReasonBar(m)
                 [] name = "scoring_ablation" -> AblationChart(m)
                 [] name = "creative_distinctiveness" -> Distinctiveness(m)
                 [] name = "persona_attribution" -> AttributionBars(m)]

\* What is on the page when latest and baseline have been read.
PageData(latest, baseline) ==
    [metrics |-> [name \in DOMAIN latest |->
                     MetricView(name, latest[name], BaseValues(name, baseline))],
     diff |-> Diff(latest, baseline)]
=============================================================================
