------------------------------ MODULE Drafting ------------------------------
(***************************************************************************)
(* Campaigns drafted by the commands of disco and the checks of "disco     *)
(* eval": catalog.Load, eval.LoadBriefs, scoring, the verdicts of Fit, the *)
(* grounding of the copy, Build, eval.Check and eval.Run.                  *)
(*                                                                         *)
(* Campaign shows what the loops over a model's answer do to it and        *)
(* Allocate which amounts a publisher may get; here an answer is an input, *)
(* and who gets money is any set of candidates that can deliver.  Each     *)
(* process is one invocation of disco on the files of work.                *)
(***************************************************************************)
EXTENDS Scoring

CONSTANTS
    Workloads,      \* what may be run: records of a catalog, processes, ...
    Process,        \* the processes of all workloads
    Inputs,         \* what a model may answer, for each name a brief has for it
    MinPersonas, MaxPersonas    \* minPersonas and maxPersonas

ASSUME WorkloadsAssumption == \A w \in Workloads : DOMAIN w.runs \subseteq Process

VARIABLES
    work,           \* the workload
    pc,             \* what each process is doing
    drafts,         \* the campaigns each process has drafted, failed ones included
    failures        \* what eval found wrong with each of them

Procs == DOMAIN work.runs
Run(p) == work.runs[p]
Pubs == work.catalog.pubs
Personas == work.catalog.personas
PersonaIDs == {q.id : q \in ToSet(Personas)}
Persona(id) == CHOOSE q \in ToSet(Personas) : q.id = id
IDsOf(records) == [i \in DOMAIN records |-> records[i].id]

IsSeq(s) == s \in Seq(ToSet(s))

\* What is in a record.  Unit is fine enough for a share of the years of an age range
\* and of the publishers of a catalog: the code computes both in floating point.
\* Personas are numbered in the order of their ids.
IsCatalog(catalog) ==
    /\ IsSeq(catalog.pubs) /\ Len(catalog.pubs) <= Unit
    /\ \A pub \in ToSet(catalog.pubs) :
          /\ pub.id \in Int
          /\ IsFiniteSet(pub.subs) /\ pub.aov \in Int /\ pub.ages \in Seq(Int)
          /\ \A skew \in DOMAIN pub.split : pub.split[skew] \in Int
          /\ ParsesAsRange(pub.ages) => pub.ages[2] - pub.ages[1] < Unit
    /\ IsSeq(catalog.personas)
    /\ \A q \in ToSet(catalog.personas) : q.id \in Nat \ {0}

\* What the pipeline has of a model's answers when it builds a campaign: a normalized
\* profile, and a cast of known personas, each once and as many as wanted, which are
\* what Campaign shows its loops to leave.
IsInput(in, catalog) ==
    /\ IsFiniteSet(in.profile.subs) /\ in.profile.aov \in Int
    /\ in.profile.ages \in Int \X Int /\ IsSeq(in.profile.values)
    /\ IsSeq(in.cast) /\ Len(in.cast) \in MinPersonas .. MaxPersonas
    /\ \A i \in DOMAIN in.cast :
          /\ \E q \in ToSet(catalog.personas) : q.id = in.cast[i].persona
          /\ \A j \in DOMAIN in.cast : in.cast[i].persona = in.cast[j].persona => i = j
          /\ IsSeq(in.cast[i].levers) /\ IsFiniteSet(in.cast[i].copy)
    /\ IsSeq(in.answer)
    /\ \A i \in DOMAIN in.answer : in.answer[i].reason.cites \subseteq SubScores

\* A run of disco on one brief has it from its arguments, the others from a file.
ASSUME InputsAssumption ==
    \A w \in Workloads :
        /\ IsCatalog(w.catalog)
        /\ \A p \in DOMAIN w.runs :
              /\ IsSeq(w.runs[p].lines)
              /\ \A line \in ToSet(w.runs[p].lines) :
                    /\ line.kind \in {"brief", "ignored", "malformed"}
                    /\ w.runs[p].command = "run" => line.kind = "brief"
                    /\ line.kind = "brief" =>
                          \A in \in Inputs[line.inputs] : IsInput(in, w.catalog)

\* A catalog is loaded if it has publishers and personas, each once.
Loads ==
    /\ Pubs # << >> /\ IsInjective(IDsOf(Pubs))
    /\ Personas # << >> /\ IsInjective(IDsOf(Personas))

\* The lines of the brief file that are neither blank nor comments, and of
\* those the one asked for, if one is.
Briefs(p) ==
    Outside(Run(p).lines,
            {line \in ToSet(Run(p).lines) : line.kind = "ignored" \/ Run(p).only \notin {0, line.n}})
LinesParse(p) == \A i \in DOMAIN Run(p).lines : Run(p).lines[i].kind # "malformed"

---------------------------------------------------------------------------
(***************************************************************************)
(* Verdicts.  Of a reason the model keeps who wrote it, the sub-scores it  *)
(* names, and how it names them.                                           *)
(***************************************************************************)

WrittenBy(author) ==
    [by |-> author, cites |-> {}, conceded |-> {}, shared |-> {}, echoes |-> FALSE]
NoReason == WrittenBy("nobody")
GateReason(gate) == WrittenBy(gate)
GeneratedGates == {NotConsumer, CategoryMismatch, DemographicMismatch}
NotSelected == [verdict |-> "excluded", rank |-> 0, reason |-> WrittenBy("backfill")]

\* A hard gate overrides the verdict, and explains itself if nobody else did.
ApplyGate(v, gate) ==
    IF gate = GateNone THEN v
    ELSE [verdict |-> "excluded", rank |-> 0,
          reason |-> IF v.reason = NoReason THEN GateReason(gate) ELSE v.reason]

\* The first verdict of the answer on a publisher, or the backfilled one.
Fit(in, pub) ==
    LET judged == {i \in DOMAIN in.answer : in.answer[i].pub = pub.id}
        said == in.answer[Min(judged)]
        verdict == IF judged = {} THEN NotSelected
                   ELSE [verdict |-> said.verdict, rank |-> said.rank, reason |-> said.reason]
    IN ApplyGate(verdict, ScoreOne(in.profile, pub).gate)

\* An advertiser who does not sell to consumers is refused before any ranking.
Verdict(in, pub) ==
    IF in.profile.consumer THEN Fit(in, pub)
    ELSE [verdict |-> "excluded", rank |-> 0, reason |-> GateReason(NotConsumer)]

\* Build gates once more.
Entry(in, pub) ==
    LET scored == ScoreOne(in.profile, pub)
        v == ApplyGate(Verdict(in, pub), scored.gate)
    IN [pub |-> pub.id, verdict |-> v.verdict, rank |-> v.rank, reason |-> v.reason,
        gate |-> scored.gate, score |-> scored.score, sub |-> scored.sub]

Ledger(in) == [i \in DOMAIN Pubs |-> Entry(in, Pubs[i])]

---------------------------------------------------------------------------
(***************************************************************************)
(* The campaign.  A lever is a spelling of a word of the record; of the    *)
(* copy the model keeps its content words and whether a part of it is      *)
(* blank.                                                                  *)
(***************************************************************************)

NormalizeLever(lever) == lever.word

\* What is left is what was asked for: nothing is looked up in the record.
GroundedInAnything(claimed, actual) == claimed

GroundedIn(claimed, actual) ==
    LET words == {NormalizeLever(a) : a \in actual}
    IN Outside(claimed, {c \in ToSet(claimed) : NormalizeLever(c) \notin words})

\* The creatives of a selection, in its order.
Creatives(in) ==
    [i \in DOMAIN in.cast |->
        [persona |-> in.cast[i].persona, copy |-> in.cast[i].copy,
         blank |-> in.cast[i].blank,
         levers |-> GroundedIn(in.cast[i].levers, Persona(in.cast[i].persona).levers)]]

StatusFor(p) ==
    CASE ~p.consumer -> "no_recommendation"
      [] p.consumer /\ p.confidence = "low" -> "needs_clarification"
      [] OTHER -> "ready"

ObjectiveFor(p) ==
    CASE p.business \in {"b2b", "service"} -> "consideration"
      [] p.business = "subscription" -> "conversion"
      [] OTHER -> IF p.tier = "luxury" THEN "awareness" ELSE "conversion"

ClarificationsFor(p) ==
    IF p.missing = << >> THEN <<"what do you sell">> ELSE p.missing

\* Recommended and ungated publishers compete.
Candidates(in) ==
    {i \in DOMAIN Pubs : LET e == Entry(in, Pubs[i])
                         IN e.verdict = "recommended" /\ e.gate = GateNone}

\* Who may get money: any of the candidates that can deliver.
Allocations(in) == SUBSET {i \in Candidates(in) : Pubs[i].impressions > 0}

\* The share-weighted price lies between the lowest and the highest of these.
Prices(allocated) ==
    LET values == {q.aov : q \in ToSet(Pubs)}
    IN {EstimateCPM(Pubs[i], Min(values), Max(values)) : i \in allocated}

Bid(p, allocated) ==
    [strategy |-> IF p.aov > 0 THEN "target_cpa_capped" ELSE "even_pacing",
     cpa |-> IF p.aov > 0 THEN 35 * p.aov ELSE 0,
     prices |-> Prices(allocated)]

Targeting(in, allocated) ==
    [ages |-> IF in.profile.ages[1] > 0 \/ in.profile.ages[2] > 0
              THEN in.profile.ages ELSE << >>,
     skew |-> in.profile.skew,
     personas |-> [i \in DOMAIN in.cast |-> in.cast[i].persona],
     tiers |-> {Pubs[i].income : i \in allocated},
     categories |-> UNION {{Pubs[i].category} \cup Pubs[i].subs : i \in allocated}]

Refusal(in) ==
    [status |-> StatusFor(in.profile), objective |-> ObjectiveFor(in.profile),
     profile |-> in.profile, ledger |-> Ledger(in), allocated |-> {},
     bid |-> [strategy |-> "none", cpa |-> 0, prices |-> {}],
     targeting |-> "none", creatives |-> << >>,
     clarifications |-> <<"which consumer product">>]

Build(in, allocated) ==
    IF StatusFor(in.profile) = "no_recommendation" THEN Refusal(in)
    ELSE [status |-> StatusFor(in.profile), objective |-> ObjectiveFor(in.profile),
          profile |-> in.profile, ledger |-> Ledger(in), allocated |-> allocated,
          bid |-> Bid(in.profile, allocated), targeting |-> Targeting(in, allocated),
          creatives |-> Creatives(in),
          clarifications |-> IF StatusFor(in.profile) = "needs_clarification"
                             THEN ClarificationsFor(in.profile) ELSE << >>]

---------------------------------------------------------------------------
(***************************************************************************)
(* eval.Check: what is wrong with a campaign.                              *)
(***************************************************************************)

LedgerFailures(c) ==
    LET ids == [i \in DOMAIN c.ledger |-> c.ledger[i].pub]
    IN {f \in {"length", "unknown publisher", "twice", "no reason"} :
          CASE f = "length" -> Len(c.ledger) # Len(Pubs)
            [] f = "unknown publisher" -> ToSet(ids) \ ToSet(IDsOf(Pubs)) # {}
            [] f = "twice" -> ~IsInjective(ids)
            [] f = "no reason" -> \E i \in DOMAIN c.ledger : c.ledger[i].reason = NoReason}

LeverFailures(cr) ==
    LET words == {NormalizeLever(a) : a \in Persona(cr.persona).levers}
    IN {f \in {"no lever", "foreign lever"} :
          CASE f = "no lever" -> cr.levers = << >>
            [] f = "foreign lever" -> \E i \in DOMAIN cr.levers :
                                        NormalizeLever(cr.levers[i]) \notin words}

CreativeFailures(c) ==
    LET ids == [i \in DOMAIN c.creatives |-> c.creatives[i].persona]
        known == {i \in DOMAIN ids : ids[i] \in PersonaIDs}
    IN {f \in {"unknown persona", "two for one", "no copy", "count"} :
          CASE f = "unknown persona" -> known # DOMAIN ids
            [] f = "two for one" -> \E i, j \in known : i # j /\ ids[i] = ids[j]
            [] f = "no copy" -> \E i \in known : c.creatives[i].blank
            [] f = "count" -> /\ c.status \in {"ready", "needs_clarification"}
                              /\ Len(ids) \notin MinPersonas .. MaxPersonas}
       \cup UNION {LeverFailures(c.creatives[i]) : i \in known}

\* What is asked of the campaign of one numbered brief.
JudgmentFailures(brief, c) ==
    LET expects == brief.expects
        on == CHOOSE e \in ToSet(c.ledger) : e.pub = brief.pub
    IN {f \in {"status", "money", "signals", "questions", "gate", "rank"} :
          CASE f = "status" -> \/ expects = "refusal" /\ c.status # "no_recommendation"
                               \/ expects = "low signal" /\ c.status # "needs_clarification"
            [] f = "money" -> \/ expects = "refusal" /\ c.allocated # {}
                              \/ expects = "no money" /\ \E i \in c.allocated : Pubs[i].id = brief.pub
            [] f = "signals" -> expects = "low signal" /\ c.profile.missing = << >>
            [] f = "questions" -> expects = "low signal" /\ c.clarifications = << >>
            [] f = "gate" -> /\ expects = "demographics"
                             /\ (on.verdict # "excluded" \/ on.gate # DemographicMismatch)
            [] f = "rank" -> /\ expects = "top two"
                             /\ (on.verdict # "recommended" \/ on.rank = 0 \/ on.rank > 2)}

UniversalFailures(c) == LedgerFailures(c) \cup CreativeFailures(c)
Check(brief, c) == UniversalFailures(c) \cup JudgmentFailures(brief, c)

---------------------------------------------------------------------------
(***************************************************************************)
(* The commands that draft.                                                *)
(***************************************************************************)

\* What the pipeline may draft.
Campaigns(inputs) ==
    UNION {{Build(in, allocated) : allocated \in Allocations(in)} : in \in Inputs[inputs]}

NoCampaign == [status |-> "error"]
Drafted(p) == {c \in ToSet(drafts[p]) : c # NoCampaign}

Drafters == {"run", "eval", "measure"}

DraftInit ==
    /\ work \in Workloads
    /\ pc = [p \in Procs |-> "start"]
    /\ drafts = [p \in Procs |-> << >>]
    /\ failures = [p \in Procs |-> << >>]

Goto(p, label) == pc' = [pc EXCEPT ![p] = label]

\* Flags are parsed, the briefs read, a provider built and the catalog loaded.
Start(p) ==
    /\ pc[p] = "start"
    /\ LET served == Run(p).command \notin Drafters
           bad == \/ Run(p).command # "metrics" /\ ~Loads
                  \/ Run(p).command \in {"eval", "measure"} /\ ~LinesParse(p)
                  \/ Run(p).command = "eval" /\ Run(p).only # 0 /\ Briefs(p) = << >>
                  \/ Run(p).command = "run" /\ Briefs(p) = << >>
       IN Goto(p, IF bad THEN "error" ELSE IF served THEN "bind" ELSE "draft")
    /\ UNCHANGED <<work, drafts, failures>>

\* The pipeline drafts the next brief, from any of the answers it may get.
Draft(p) ==
    /\ pc[p] = "draft"
    /\ Len(drafts[p]) < Len(Briefs(p))
    /\ LET brief == Briefs(p)[Len(drafts[p]) + 1]
       IN \E c \in Campaigns(brief.inputs) :
            /\ drafts' = [drafts EXCEPT ![p] = Append(@, c)]
            /\ failures' = IF Run(p).command = "eval"
                           THEN [failures EXCEPT ![p] = Append(@, Check(brief, c))]
                           ELSE failures
    /\ UNCHANGED <<work, pc>>

\* A failed brief is passed over.
DraftFailsQuietly(p) ==
    /\ pc[p] = "draft"
    /\ Len(drafts[p]) < Len(Briefs(p))
    /\ drafts' = [drafts EXCEPT ![p] = Append(@, NoCampaign)]
    /\ UNCHANGED <<work, pc, failures>>

\* A stage fails: eval reports it and goes on, the others give up.
DraftFails(p) ==
    /\ pc[p] = "draft"
    /\ Len(drafts[p]) < Len(Briefs(p))
    /\ IF Run(p).command = "eval"
       THEN /\ drafts' = [drafts EXCEPT ![p] = Append(@, NoCampaign)]
            /\ failures' = [failures EXCEPT ![p] = Append(@, {"error"})]
            /\ UNCHANGED pc
       ELSE Goto(p, "error") /\ UNCHANGED <<drafts, failures>>
    /\ UNCHANGED work

\* eval ends with an error if a brief failed; measure goes on to its metrics.
EndDrafts(p) ==
    /\ pc[p] = "draft"
    /\ Len(drafts[p]) = Len(Briefs(p))
    /\ Goto(p, IF Run(p).command = "measure" THEN "judge"
               ELSE IF ToSet(failures[p]) \subseteq {{}} THEN "ok" ELSE "error")
    /\ UNCHANGED <<work, drafts, failures>>
=============================================================================
