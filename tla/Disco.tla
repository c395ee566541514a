------------------------------- MODULE Disco -------------------------------
(***************************************************************************)
(* The command line: processes of disco - run, eval, measure, serve and    *)
(* metrics - over one catalog, one pair of report files and one host.      *)
(***************************************************************************)
EXTENDS Dashboard, Ports

vars == <<work, pc, drafts, failures, judge, fileVars, serverVars>>

Init == DraftInit /\ JudgeInit /\ FilesInit /\ ServerInit

Drafts(p) ==
    /\ Start(p) \/ Draft(p) \/ DraftFails(p) \/ EndDrafts(p)
    /\ UNCHANGED <<judge, fileVars, serverVars>>

Judges(p) ==
    /\ pc[p] = "judge"
    /\ \/ SkipCampaign(p)
       \/ JudgeReal(p) \/ JudgeControl(p)
       \/ JudgeUnrecorded(p) \/ JudgeFails(p)
       \/ judge[p].phase = "real items" /\ \E item \in Items(p) : TakeReal(p, item)
       \/ judge[p].phase = "control items" /\ \E item \in Items(p) : TakeControl(p, item)
       \/ EndReal(p) \/ EndControl(p) \/ EndJudging(p)
    /\ UNCHANGED <<fileVars, serverVars>>

Writes(p) ==
    /\ \/ CreateReport(p) \/ CreateFails(p)
       \/ WriteBlock(p) \/ CloseReport(p) \/ AbandonReport(p)
    /\ UNCHANGED serverVars

Reads(p) ==
    /\ \/ OpenLatest(p) \/ OpenComparison(p) \/ OpenBaseline(p)
       \/ ReadHead(p) \/ ReadTail(p)
       \/ EndMeasure(p)
    /\ UNCHANGED serverVars

Serves(p) ==
    /\ Bind(p) \/ Fallback(p) \/ HandleRun(p) \/ StopServer(p)
    /\ UNCHANGED <<judge, fileVars>>

Next ==
    \/ \E p \in Procs : Drafts(p) \/ Judges(p) \/ Writes(p) \/ Reads(p) \/ Serves(p)
    \/ \E port \in Port : Neighbour(port) /\ UNCHANGED <<judge, fileVars>>

Spec == Init /\ [][Next]_vars

---------------------------------------------------------------------------
(***************************************************************************)
(* What is drafted and checked.                                            *)
(***************************************************************************)

\* Each variable holds what the code can put there.
TypeOK ==
    /\ work \in Workloads /\ Procs \subseteq Process
    /\ \A p \in Procs :
          /\ Len(drafts[p]) <= Len(Run(p).lines)
          /\ Run(p).command = "eval" => Len(failures[p]) = Len(drafts[p])
          /\ judge[p].correct <= judge[p].matched
          /\ judge[p].high <= judge[p].matched /\ judge[p].controlHigh <= judge[p].controlMatched
          /\ page[p].latest \in DOMAIN reports \cup Refused \cup {"none", "mixed"}
          /\ reader[p].at \in {"idle", "head", "tail"}
    /\ \A path \in Files : disk[path] = NoFile \/ ToSet(disk[path]) \subseteq DOMAIN reports \cup {Hole}
    /\ ports \in [Port -> Procs \cup {Nobody, Stranger}]

\* The years of an age range; a range with one open end has none.
Years(range) == range[1] .. range[2]

\* The gate in the ledger of every campaign is what the records say, taken as sets:
\* an advertiser without consumers, no shared or neighbouring category, or two stated
\* age ranges without a year in common (scoring.go, whose sums have an end at each
\* limit that may be off by one, and a neighbourhood that must be symmetric).
GatesAreArithmetic ==
    \A p \in Procs : \A c \in Drafted(p) : \A i \in DOMAIN c.ledger :
        LET q == c.profile
            pub == Pubs[i]
            related == \/ q.category = pub.category /\ q.category # NoCategory
                       \/ q.subs \cap pub.subs # {}
                       \/ {<<q.category, pub.category>>, <<pub.category, q.category>>}
                             \cap AdjacencyEdges # {}
            disjoint == /\ ParsesAsRange(pub.ages) /\ q.ages # <<0, 0>>
                        /\ Years(q.ages) \cap Years(pub.ages) = {}
        IN /\ c.ledger[i].gate # GateNone <=> ~q.consumer \/ ~related \/ disjoint
           /\ c.ledger[i].gate # GateNone => c.ledger[i].verdict = "excluded" /\ i \notin c.allocated

\* Whatever a model answers, a campaign that was drafted can fail the universal checks
\* of disco eval only by the model's own silence: a reason, a lever or a text left out.
\* The rules that the pipeline and the checks share (levers, the catalog, the ledger)
\* agree, and a campaign that asks for clarification says which.
OnlyWordsFailTheChecks ==
    \A p \in Procs : \A c \in Drafted(p) :
        /\ UniversalFailures(c) \subseteq {"no reason", "no lever", "no copy"}
        /\ c.status # "ready" => c.clarifications # << >>
        /\ c.status = "no_recommendation" => c.allocated = {} /\ c.creatives = << >>

---------------------------------------------------------------------------
(***************************************************************************)
(* What is measured.                                                       *)
(***************************************************************************)

\* A reason that gives the hard gate as its ground is never scored against the model:
\* the sub-score that closed the gate agrees with the exclusion (reasons.go reads an
\* excluded publisher's low sub-scores as consistent, scoring.go gates at zero).
GateReasonsAreConsistent ==
    \A p \in Procs : \A c \in Drafted(p) : \A i \in DOMAIN c.ledger :
        LET e == c.ledger[i]
            ground == CASE e.gate = CategoryMismatch -> {"Category"}
                        [] e.gate = DemographicMismatch -> {"AgeOverlap"}
                        [] OTHER -> {}
        IN \A s \in ground \cap e.reason.cites :
               Disposition(e, s) \in {"consistent", "concessive", "advertiser_term"}

\* What the ablation shows is about the sub-scores, however float sums are rounded and
\* ties broken: a sub-score of which no ungated publisher of a brief has any is inert
\* there; in the full ranking and in each ablated one nobody is behind a publisher that
\* is better in none of the sub-scores counted, unless by id; and the top never changes
\* without a shift of ranks (ablation.go:40-61, 82-91).
RanksFollowSubScores ==
    \A p \in {q \in Procs : pc[q] = "create"} :
        \A c \in Drafted(p) : \A s \in SubScores :
            LET S == Ungated(c.profile)
                InOrderOf(rank, counted) ==
                    \A e, o \in S :
                        /\ e.id < o.id
                        /\ \A t \in counted : e.scored.sub[t] >= o.scored.sub[t]
                        => rank[e] < rank[o]
            IN /\ InOrderOf(FullRank(S), SubScores)
               /\ InOrderOf(AblatedRank(S, s), SubScores \ {s})
               /\ (\A e \in S : e.scored.sub[s] = 0) =>
                      RankShift(S, s) = 0 /\ ~TopChanges(S, s)
               /\ TopChanges(S, s) => RankShift(S, s) > 0

\* The control asks for as much as the real task, whatever the casts: as many personas
\* if the catalog has them, all different.  One of the campaign's own is among them only
\* if the other campaigns together have too few others, even if the catalog has more
\* (attribution.go:116-156).
ControlAsHardAsCanBe ==
    \A p \in Procs : pc[p] = "judge" /\ judge[p].at <= Len(drafts[p]) =>
        LET n == Len(Cast(Campaign(p)))
            real == RealPersonas(p)
            ids == ControlPersonaIDs(drafts[p], judge[p].at, n, real)
            others == UNION {ToSet(Cast(drafts[p][i])) : i \in DOMAIN drafts[p] \ {judge[p].at}}
        IN /\ IsInjective(ids) /\ Len(ids) = Least(n, Cardinality(PersonaIDs))
           /\ ToSet(ids) \cap real # {} => Cardinality(others \ real) < n

\* The control has no right answer: its personas are taken "preferring IDs that do not
\* appear in real ... so that, by construction, no correct matching exists in the control
\* task" (attribution.go:107-110, 229-232), so none is the campaign's own as long as the
\* catalog has enough others.
ControlHasNoRightAnswer ==
    \A p \in Procs : pc[p] = "judge" /\ judge[p].phase = "control call" =>
        LET n == Len(Cast(Campaign(p)))
        IN Cardinality(PersonaIDs \ RealPersonas(p)) >= n =>
               ControlPersonas(p) \cap RealPersonas(p) = {}

\* Every reason that the pipeline writes itself is left out of the measure of reasons:
\* campaign.go:236-241 has GeneratedReason so that a metric "can tell the two apart
\* without measuring our own code as if it were the model's".
CodeReasonsAreNotMeasured ==
    \A p \in Procs : \A c \in Drafted(p) : \A i \in DOMAIN c.ledger :
        c.ledger[i].reason.by \in GeneratedGates \cup {"backfill"} =>
            IsGeneratedReason(c.ledger[i].reason)

---------------------------------------------------------------------------
(***************************************************************************)
(* What is written, read and shown.                                        *)
(***************************************************************************)

\* A file with both its blocks is one report or parts of two.
Holds(blocks) ==
    IF blocks = NoFile THEN "absent"
    ELSE IF Len(blocks) # 2 \/ Hole \in ToSet(blocks) THEN Unreadable
    ELSE IF blocks[1] = blocks[2] THEN blocks[1] ELSE "mixed"

Got(r) == CASE r = "none" -> "nothing" [] r = "error" -> Unreadable [] OTHER -> r

\* The last load of p, if p is one of the processes.
LoadState(p) ==
    IF reader[p].at = "idle" THEN "done"
    ELSE IF p \in overlapped.reads THEN "overlapped" ELSE "alone"
LoadOf(p) ==
    IF p \in Procs
    THEN [state |-> LoadState(p), path |-> reader[p].path, got |-> Got(page[p][reader[p].path])]
    ELSE [state |-> "done", path |-> "latest", got |-> "nothing"]

Finished == {p \in Procs : Run(p).command = "measure" /\ pc[p] \in {"diff", "ok"}}

Store == INSTANCE PageStore WITH
    Paths <- Files,
    Clients <- Process,
    Contents <- Process \cup {Committed, "absent", Unreadable, "mixed"},
    Garbled <- Unreadable,
    Spliced <- "mixed",
    file <- [path \in Files |-> Holds(disk[path])],
    writing <- [path \in Files |-> Writers(path)],
    left <- Finished,
    clashed <- overlapped.writes,
    loads <- [p \in Process |-> LoadOf(p)]

\* The report files are safe registers, though they are written in place and without a
\* lock: a report written alone is what the next page shows, what a lone writer leaves
\* torn is an error and not an absence, and a page shows parts of two reports only if it
\* was loaded during a write or the file is left over from two writes that overlapped.
PagesAreSafe == Store!Spec

\* What the diff compares of a metric, if anything.
Compared(data, name) ==
    IF name \in DOMAIN data.diff.compared THEN data.diff.compared[name].both ELSE << >>

BarAgrees(bar, m) == SumOver(DOMAIN bar, bar) = m.citations

ChartAgrees(chart, values) ==
    LET summary == AblationSummary(values)
        rate(s) == values[<<"top5_change_rate", s>>]
    IN /\ ToSet(chart) = SubScores
       /\ \A i \in DOMAIN chart : rate(chart[i]) = rate(summary[i])

DotsAgree(dots, values) ==
    /\ \A i \in DOMAIN dots : dots[i] <= dots[1]
    /\ dots # << >> => dots[1] = ThreeDecimals(values.max_copy_overlap)

\* The arrow may call a change level that the text gives a sign, and then it is none to
\* speak of; the two never point in opposite directions.
RowsAgree(rows, compared) ==
    \A key \in DOMAIN rows :
        IF key \in DOMAIN compared
        THEN CASE rows[key].arrow = "up" -> compared[key].sign = "+"
               [] rows[key].arrow = "down" -> compared[key].sign = "-"
               [] OTHER -> compared[key].delta \in -Tolerance .. Tolerance
        ELSE "arrow" \notin DOMAIN rows[key]

\* The page says of a new report what the report says: the bar has every citation once,
\* the chart has the order of the summary but for ties, the first dot is the worst pair
\* and the report's maximum to the three decimals a finding has, and the table compares
\* exactly the values that the text of the diff does, and in the same direction
\* (dashboard.go and main.go parse, sort and compare each in its own way).
PageAgreesWithReport ==
    \A id \in {p \in Procs : pc[p] = "write head"}, base \in DOMAIN reports :
        LET report == reports[id]
            data == PageData(report, reports[base])
            shown == data.metrics
        IN /\ BarAgrees(shown["reason_consistency"].chart, report["reason_consistency"])
           /\ ChartAgrees(shown["scoring_ablation"].chart, report["scoring_ablation"].values)
           /\ DotsAgree(shown["creative_distinctiveness"].chart.points,
                        report["creative_distinctiveness"].values)
           /\ \A name \in DOMAIN report : RowsAgree(shown[name].rows, Compared(data, name))

\* An address already in use never stops a server: it fails only on an address that
\* cannot be bound at all, or when the system has no port left (server.go's listen).
TakenAddressIsNoFailure ==
    [][\A p \in Procs : pc[p] \in {"bind", "fallback"} /\ pc'[p] = "error" =>
          Run(p).addr \notin Port \/ FreePorts = {}]_vars
=============================================================================
