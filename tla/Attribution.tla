---------------------------- MODULE Attribution ----------------------------
(***************************************************************************)
(* Persona attribution (internal/measure/attribution.go): a judge is shown *)
(* the creatives of each campaign and asked whose they are, once with the  *)
(* personas they were written for and once, as a control, with others.     *)
(*                                                                         *)
(* Shuffles relabel what is shown and are left out: an item of an answer   *)
(* names a creative of the campaign, or none, and a persona.               *)
(***************************************************************************)
EXTENDS Metrics

CONSTANT
    Confidences     \* "high" among them

VARIABLE judge      \* the metric of each process, as far as it has come

Drops == {"out_of_range", "unknown_persona", "duplicate"}

\* Nothing is judged yet: phase is what happens next, at campaign number at;
\* used are the pairs accepted from the current answer of taken items.
\* Run(p).items bounds the items of an answer.
NoJudge ==
    [phase |-> "next", at |-> 1, used |-> {}, taken |-> 0,
     judged |-> 0, skipped |-> 0, calls |-> 0, chance |-> 0,
     matched |-> 0, correct |-> 0, high |-> 0, findings |-> 0,
     controlMatched |-> 0, controlHigh |-> 0, dropped |-> [d \in Drops |-> 0]]

Cast(c) == [i \in DOMAIN c.creatives |-> c.creatives[i].persona]

\* The distinct elements of a sequence, by first appearance.
Distinct(s) ==
    Outside([i \in DOMAIN s |-> IF s[i] \in {s[j] : j \in 1 .. i - 1} THEN 0 ELSE s[i]], {0})

\* The casts of the campaigns after idx, cyclically, until n personas outside
\* real have been seen.
VisitedCasts(cs, idx, n, real) ==
    LET cast(step) == LET other == 1 + ((idx - 1 + step) % Len(cs))
                      IN IF other = idx THEN << >> ELSE Cast(cs[other])
        before(step) == PersonaIDs \cap UNION {ToSet(cast(k)) : k \in 1 .. step - 1}
        visits == {step \in DOMAIN cs : Cardinality(before(step) \ real) < n}
    IN FlattenSeq([step \in 1 .. Cardinality(visits) |-> cast(step)])

\* The personas of other campaigns are taken as they come.
ControlFirstSeen(cs, idx, n, real) ==
    LET seen == Distinct(VisitedCasts(cs, idx, n, real))
        all == seen \o Outside(IDsOf(Personas), ToSet(seen))
    IN SubSeq(all, 1, Least(n, Len(all)))

\* The n personas of the control: of other campaigns, those outside real first;
\* then of the catalog, in its order, those outside real first.
ControlPersonaIDs(cs, idx, n, real) ==
    LET visited == VisitedCasts(cs, idx, n, real)
        known == Distinct(Outside(visited, ToSet(visited) \ PersonaIDs))
        rest == Outside(IDsOf(Personas), ToSet(known))
        all == Outside(known, real) \o Outside(known, ToSet(known) \ real)
               \o Outside(rest, real) \o Outside(rest, ToSet(rest) \ real)
    IN SubSeq(all, 1, Least(n, Len(all)))

Campaign(p) == drafts[p][judge[p].at]
RealPersonas(p) == ToSet(Cast(Campaign(p)))
ControlPersonas(p) ==
    ToSet(ControlPersonaIDs(drafts[p], judge[p].at, Len(Cast(Campaign(p))), RealPersonas(p)))

JudgeInit == judge = [p \in Procs |-> NoJudge]

\* While pc[p] is "judge", judge[p] goes from phase from to phase to, with the fields of changes.
JudgeStep(p, from, to, changes) ==
    /\ judge[p].phase = from
    /\ judge' = [judge EXCEPT ![p] =
                    [f \in DOMAIN NoJudge |->
                        IF f = "phase" THEN to
                        ELSE IF f \in DOMAIN changes THEN changes[f] ELSE @[f]]]
    /\ UNCHANGED <<work, pc, drafts, failures>>

\* A campaign of fewer than two creatives, or with a persona the catalog does not
\* have, is skipped.
Skipped(c) == Len(Cast(c)) < 2 \/ ~(ToSet(Cast(c)) \subseteq PersonaIDs)

SkipCampaign(p) ==
    /\ judge[p].at <= Len(drafts[p])
    /\ Skipped(Campaign(p))
    /\ JudgeStep(p, "next", "next", [at |-> judge[p].at + 1, skipped |-> judge[p].skipped + 1])

\* The two calls come before anything is counted of either.
JudgeReal(p) ==
    /\ judge[p].at <= Len(drafts[p])
    /\ ~Skipped(Campaign(p))
    /\ JudgeStep(p, "next", "control call", [calls |-> judge[p].calls + 1])

JudgeControl(p) ==
    JudgeStep(p, "control call", "real items",
              [calls |-> judge[p].calls + 1, judged |-> judge[p].judged + 1,
               chance |-> judge[p].chance + Fraction(1, Len(Cast(Campaign(p)))),
               used |-> {}, taken |-> 0])

\* A call without a recorded answer: the metric is reported as skipped, with its
\* calls so far and nothing else.
JudgeUnrecorded(p) ==
    /\ judge[p].at <= Len(drafts[p])
    /\ judge[p].phase = "next" => ~Skipped(Campaign(p))
    /\ \E from \in {"next", "control call"} :
          JudgeStep(p, from, "unrecorded",
                    [f \in DOMAIN NoJudge \ {"phase", "at", "calls", "judged", "skipped"} |->
                        NoJudge[f]])

\* A call that fails in any other way is the end of measure.
JudgeFails(p) ==
    /\ judge[p].phase = "control call"
       \/ (judge[p].phase = "next" /\ judge[p].at <= Len(drafts[p]) /\ ~Skipped(Campaign(p)))
    /\ Goto(p, "error")
    /\ UNCHANGED <<work, drafts, failures, judge>>

\* Why an item is dropped, if it is: creative 0 stands for an index out of range.
DropOf(p, item, personas) ==
    IF item.creative = 0 THEN "out_of_range"
    ELSE IF item.persona \notin personas THEN "unknown_persona"
    ELSE IF \E u \in judge[p].used : u[1] = item.creative \/ u[2] = item.persona THEN "duplicate"
    ELSE "none"

Items(p) ==
    [creative : 0 .. Len(Cast(Campaign(p))), persona : PersonaIDs \cup {0}, confidence : Confidences]

High(item) == IF item.confidence = "high" THEN 1 ELSE 0

\* The next item of the real answer: dropped, right or wrong.
TakeReal(p, item) ==
    LET j == judge[p]
        drop == DropOf(p, item, RealPersonas(p))
        right == Cast(Campaign(p))[item.creative] = item.persona
    IN /\ j.taken < Run(p).items
       /\ JudgeStep(p, "real items", "real items",
             IF drop # "none"
             THEN [taken |-> j.taken + 1, dropped |-> [j.dropped EXCEPT ![drop] = @ + 1]]
             ELSE [taken |-> j.taken + 1, used |-> j.used \cup {<<item.creative, item.persona>>},
                   matched |-> j.matched + 1, high |-> j.high + High(item),
                   correct |-> j.correct + (IF right THEN 1 ELSE 0),
                   findings |-> IF right THEN j.findings ELSE Least(8, j.findings + 1)])

EndReal(p) == JudgeStep(p, "real items", "control items", [used |-> {}, taken |-> 0])

\* Of the control only the confidence counts.
TakeControl(p, item) ==
    LET j == judge[p]
    IN /\ j.taken < Run(p).items
       /\ DropOf(p, item, ControlPersonas(p)) = "none"
       /\ JudgeStep(p, "control items", "control items",
             [taken |-> j.taken + 1, used |-> j.used \cup {<<item.creative, item.persona>>},
              controlMatched |-> j.controlMatched + 1, controlHigh |-> j.controlHigh + High(item)])

EndControl(p) ==
    JudgeStep(p, "control items", "next", [at |-> judge[p].at + 1, used |-> {}, taken |-> 0])

\* All campaigns are judged, or the first unrecorded call ended it.
EndJudging(p) ==
    /\ judge[p].phase = "unrecorded" \/ (judge[p].phase = "next" /\ judge[p].at > Len(drafts[p]))
    /\ Goto(p, "create")
    /\ UNCHANGED <<work, drafts, failures, judge>>

\* The judge is believed if it is surer of the real task than of the control.
PersonaAttribution(j) ==
    LET accuracy == Rate(j.correct, j.matched)
        chance == Rate(j.chance, Unit * j.judged)
        real == Rate(j.high, j.matched)
        control == Rate(j.controlHigh, j.controlMatched)
    IN [values |-> [attribution_accuracy |-> accuracy, chance_baseline |-> chance,
                    lift |-> accuracy - chance, high_confidence_rate_real |-> real,
                    high_confidence_rate_control |-> control,
                    confidence_separation |-> real - control],
        valid |-> real - control >= Hundredths(10),
        judged |-> j.judged, calls |-> j.calls, skipped |-> j.skipped, findings |-> j.findings]
=============================================================================
