------------------------------ MODULE Metrics ------------------------------
(***************************************************************************)
(* The three metrics of "disco measure" that call no model, over a         *)
(* sequence cs of campaigns: reason consistency, scoring ablation and      *)
(* creative distinctiveness (internal/measure).                            *)
(***************************************************************************)
EXTENDS Drafting

CONSTANTS
    TopN,           \* top5Set keeps this many
    MaxFindings     \* maxFindings

ASSUME FindingsAssumption == MaxFindings \in Nat

Rate(n, d) == IF d = 0 THEN 0 ELSE Fraction(n, d)

---------------------------------------------------------------------------
(***************************************************************************)
(* Reason consistency: is what a reason says true of the sub-scores?       *)
(* Phrase matching is left out: a reason comes with the sub-scores it      *)
(* cites, those it concedes first ("despite ..."), and those it cites in a *)
(* word that describes the advertiser as well.                             *)
(***************************************************************************)

\* A fixed text of a hard gate, or one that echoes the name of a gate.
IsGeneratedReason(reason) == reason.by \in GeneratedGates \/ reason.echoes

ByVerdict == {"consistent", "contradicted", "weak", "unscored"}
Dispositions == ByVerdict \cup {"concessive", "advertiser_term"}

Hundredths(n) == (Unit * n) \div 100

\* An excluded publisher's high score reads as weak evidence of its exclusion.
BandUnsigned(verdict, value) ==
    CASE verdict = "considered" -> "unscored"
      [] verdict # "considered" /\ value >= Hundredths(50) -> "consistent"
      [] verdict # "considered" /\ value <= Hundredths(20) -> "contradicted"
      [] OTHER -> "weak"

\* The verdict says which way a sub-score must point.
Band(verdict, value) ==
    CASE verdict = "excluded" -> IF value <= Hundredths(50) THEN "consistent"
                                 ELSE IF value >= Hundredths(80) THEN "contradicted" ELSE "weak"
      [] verdict = "recommended" -> IF value >= Hundredths(50) THEN "consistent"
                                    ELSE IF value <= Hundredths(20) THEN "contradicted" ELSE "weak"
      [] OTHER -> "unscored"

\* An ambiguous citation is counted and not scored.
Disposition(e, s) ==
    IF s \in e.reason.conceded THEN "concessive"
    ELSE IF s \in e.reason.shared THEN "advertiser_term"
    ELSE Band(e.verdict, e.sub[s])

\* A citation of two abstentions counts under both.
TalliedTwice(e, s) ==
    {d \in Dispositions : CASE d = "concessive" -> s \in e.reason.conceded
                            [] d = "advertiser_term" -> s \in e.reason.shared
                            [] OTHER -> Disposition(e, s) = d}

\* Where a citation is counted.
Tallied(e, s) == {Disposition(e, s)}

Entries(cs) == UNION {{<<i, j>> : j \in DOMAIN cs[i].ledger} : i \in DOMAIN cs}

ReasonConsistency(cs) ==
    LET entry(x) == cs[x[1]].ledger[x[2]]
        checkable == {x \in Entries(cs) : ~IsGeneratedReason(entry(x).reason)}
        vague == {x \in checkable : entry(x).reason.cites = {}}
        citations == UNION {{<<x, s>> : s \in entry(x).reason.cites} : x \in checkable}
        n(d) == Cardinality({x \in citations : d \in Tallied(entry(x[1]), x[2])})
        scored == n("consistent") + n("contradicted") + n("weak")
    IN [values |-> [consistency_rate |-> Rate(n("consistent"), scored),
                    contradiction_rate |-> Rate(n("contradicted"), scored),
                    vagueness_rate |-> Rate(Cardinality(vague), Cardinality(checkable)),
                    coverage_rate |-> Rate(scored, Cardinality(citations))],
        counts |-> [d \in Dispositions |-> n(d)],
        citations |-> Cardinality(citations), vague |-> Cardinality(vague),
        findings |-> {x \in citations : Disposition(entry(x[1]), x[2]) = "contradicted"}]

---------------------------------------------------------------------------
(***************************************************************************)
(* Scoring ablation: does zeroing a weight change the ranking?             *)
(***************************************************************************)

SubScoreNames == <<"Category", "AOVAlignment", "AgeOverlap", "ValuesMatch", "GenderFit",
                   "IncomeTier">>

\* The score again, added up without one sub-score.
AblatedTotal(sub, omit) == WeightedSum(sub, omit)

\* The ungated publishers with their scores; gated ones cannot move.
Ungated(profile) ==
    {e \in {[id |-> pub.id, scored |-> ScoreOne(profile, pub)] : pub \in ToSet(Pubs)} :
        e.scored.gate = GateNone}

\* Best score first, ties by id.
Rank(S, key) ==
    [e \in S |-> 1 + Cardinality({o \in S : \/ key[o] > key[e]
                                           \/ (key[o] = key[e] /\ o.id < e.id)})]

Top(rank) == {e \in DOMAIN rank : rank[e] <= TopN}
FullRank(S) == Rank(S, [e \in S |-> e.scored.score])
\* Ties keep nobody's place.
AblatedRankUntied(S, omit) ==
    LET key(e) == AblatedTotal(e.scored.sub, omit)
    IN [e \in S |-> 1 + Cardinality({o \in S : key(o) > key(e)})]

AblatedRank(S, omit) == Rank(S, [e \in S |-> AblatedTotal(e.scored.sub, omit)])

Moved(a, b) == Greatest(a, b) - Least(a, b)

\* The mean absolute change of rank on one brief.
RankShift(S, omit) ==
    IF S = {} THEN 0
    ELSE Fraction(SumOver(S, [e \in S |-> Moved(FullRank(S)[e], AblatedRank(S, omit)[e])]),
                  Cardinality(S))

Inert == 0      \* no brief

TopChanges(S, omit) == Top(FullRank(S)) # Top(AblatedRank(S, omit))

AblationKeys ==
    ({"top5_change_rate", "mean_rank_shift"} \X SubScores) \cup {<<"mean_ungated_per_brief">>}

\* For each sub-score, the share of the briefs whose top changes, the mean shift,
\* and the brief that serves as the example.
ScoringAblation(cs) ==
    LET ungated(i) == Ungated(cs[i].profile)
        changed(s) == {i \in DOMAIN cs : TopChanges(ungated(i), s)}
        mean(f) == IF cs = << >> THEN 0 ELSE SumOver(DOMAIN cs, f) \div Len(cs)
    IN [values |->
           [key \in AblationKeys |->
               CASE key[1] = "top5_change_rate" -> Rate(Cardinality(changed(key[2])), Len(cs))
                 [] key[1] = "mean_rank_shift" ->
                        mean([i \in DOMAIN cs |-> RankShift(ungated(i), key[2])])
                 [] OTHER -> mean([i \in DOMAIN cs |-> Unit * Cardinality(ungated(i))])],
        findings |-> [s \in SubScores |-> IF changed(s) = {} THEN Inert ELSE Min(changed(s))]]

\* By changes of the top, then by shift, then as the names are listed.
MoreInfluential(values, names, a, b) ==
    LET rate(s) == values[<<"top5_change_rate", s>>]
        shift(s) == values[<<"mean_rank_shift", s>>]
        place(s) == CHOOSE i \in DOMAIN names : names[i] = s
    IN \/ rate(a) > rate(b)
       \/ /\ rate(a) = rate(b)
          /\ shift(a) > shift(b) \/ (shift(a) = shift(b) /\ place(a) < place(b))

\* The sub-scores, most influential first.
ByInfluence(values, names) ==
    InOrder([s \in SubScores |-> {t \in SubScores : MoreInfluential(values, names, t, s)}])

\* The order of the summary: the table of weights breaks ties.
AblationSummary(values) == ByInfluence(values, SubScoreNames)

---------------------------------------------------------------------------
(***************************************************************************)
(* Creative distinctiveness: how alike are the creatives of a campaign?    *)
(***************************************************************************)

\* Levers are compared as the pipeline compares them.
LeverSet(cr) == {NormalizeLever(l) : l \in ToSet(cr.levers)}

PairsOf(cs, i) ==
    LET crs == cs[i].creatives
        pair(j, k) == [brief |-> i, a |-> crs[j].persona, b |-> crs[k].persona,
                       copy |-> Jaccard(crs[j].copy, crs[k].copy),
                       lever |-> Jaccard(LeverSet(crs[j]), LeverSet(crs[k]))]
    IN UNION {{pair(j, k) : k \in j + 1 .. Len(crs)} : j \in DOMAIN crs}

\* The pairs most alike first; ties by brief and personas.
MoreAlike(x, y) ==
    \/ x.copy > y.copy
    \/ /\ x.copy = y.copy
       /\ \/ x.brief < y.brief
          \/ (x.brief = y.brief /\ (x.a < y.a \/ (x.a = y.a /\ x.b < y.b)))

Findings(pairs) == InOrder([x \in pairs |-> {y \in pairs : MoreAlike(y, x)}])

\* The mean over the pairs of each campaign with two creatives, averaged; the
\* worst pair of all.
CreativeDistinctiveness(cs) ==
    LET measured == {i \in DOMAIN cs : Len(cs[i].creatives) >= 2}
        pairs == UNION {PairsOf(cs, i) : i \in measured}
        mean(f) ==
            IF measured = {} THEN 0
            ELSE SumOver(measured, [i \in measured |->
                     SumOver(PairsOf(cs, i), f) \div Cardinality(PairsOf(cs, i))])
                 \div Cardinality(measured)
        sorted == Findings(pairs)
    IN [values |-> [mean_copy_overlap |-> mean([x \in pairs |-> x.copy]),
                    mean_lever_overlap |-> mean([x \in pairs |-> x.lever]),
                    max_copy_overlap |-> IF pairs = {} THEN 0 ELSE sorted[1].copy,
                    campaigns_measured |-> Unit * Cardinality(measured)],
        findings |-> SubSeq(sorted, 1, Least(MaxFindings, Len(sorted)))]
=============================================================================
