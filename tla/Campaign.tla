------------------------------ MODULE Campaign ------------------------------
(***************************************************************************)
(* One run of the pipeline (internal/pipeline/run.go): profile, scoring,   *)
(* fit, personas, creatives, campaign.  A model's answer is any sequence   *)
(* of items, known, unknown or repeated; the code takes them one by one,   *)
(* drops some, completes the rest, and Build assembles the result.         *)
(*                                                                         *)
(* Scores, copy and reasons are left out: what is kept of scoring is the   *)
(* hard gate it puts on a publisher.  CreativeStage details stage 5 and    *)
(* Allocate the split of the budget; here each is one step.                *)
(***************************************************************************)
EXTENDS Integers, Sequences, SequencesExt, Loops

CONSTANTS
    PublisherOrder, \* the catalog's publisher ids, in catalog order
    PersonaOrder,   \* the catalog's persona ids, in catalog order
    Strangers,      \* ids a model may invent, in neither catalog
    MinPersonas, MaxPersonas,   \* minPersonas and maxPersonas
    MaxPrimary      \* bound: publishers a model names for a persona

Publishers == ToSet(PublisherOrder)
Personas == ToSet(PersonaOrder)

ASSUME CatalogAssumption ==
    /\ PublisherOrder \in Seq(Publishers) /\ IsInjective(PublisherOrder)
    /\ PersonaOrder \in Seq(Personas) /\ IsInjective(PersonaOrder)
    /\ Strangers \cap (Publishers \cup Personas) = {}
ASSUME CountsAssumption ==
    /\ MinPersonas \in Nat
    /\ MaxPersonas \in Nat
    /\ MinPersonas <= MaxPersonas
ASSUME BoundAssumption == MaxPrimary \in Nat

VARIABLES
    stage,          \* what the run is doing
    consumer,       \* profile.IsConsumerDTC
    confident,      \* profile.Confidence is not "low"
    gate,           \* the hard gate of each publisher
    verdicts,       \* stage 3's verdicts, in order
    picks,          \* stage 4's selected personas, in order
    chosen,         \* how many of them the model chose
    rejected,       \* stage 4's rejected personas
    creatives,      \* stage 5's creatives, in order
    calls,          \* model calls answered
    ledger,         \* the campaign's ledger: an entry for each publisher
    status          \* the campaign's status

profile == <<consumer, confident>>
selection == <<picks, chosen, rejected>>
campaign == <<ledger, status>>
vars == <<stage, profile, gate, verdicts, selection, creatives, calls, campaign>>

GateNone == ""
NotConsumer == "not_consumer_dtc"
Gates == {GateNone, NotConsumer, "mismatch"}
Verdicts == {"recommended", "considered", "excluded"}
Ranks == {0, 1}
Stages == {"profile", "score", "fit", "verdicts", "personas", "picks",
           "rejections", "creatives", "build", "built", "failed"}
Unbuilt == "unbuilt"

Excluded(p) == [pub |-> p, verdict |-> "excluded", rank |-> 0]

Init ==
    /\ stage = "profile"
    /\ consumer = FALSE
    /\ confident = FALSE
    /\ gate = [p \in Publishers |-> GateNone]
    /\ verdicts = << >>
    /\ picks = << >>
    /\ chosen = 0
    /\ rejected = {}
    /\ creatives = << >>
    /\ calls = 0
    /\ ledger = [p \in Publishers |-> Excluded(p)]
    /\ status = Unbuilt

\* A stage one of whose calls failed ends the run.
StageFails ==
    /\ stage \in {"profile", "fit", "personas", "creatives"}
    /\ stage' = "failed"
    /\ UNCHANGED <<profile, gate, verdicts, selection, creatives, calls, campaign>>

---------------------------------------------------------------------------
(***************************************************************************)
(* Stages 1 and 2.                                                         *)
(***************************************************************************)

Profile ==
    /\ stage = "profile"
    /\ consumer' \in BOOLEAN
    /\ confident' \in BOOLEAN
    /\ calls' = calls + 1
    /\ stage' = "score"
    /\ UNCHANGED <<gate, verdicts, selection, creatives, campaign>>

AfterScoringAlways(next, nextVerdicts) ==
    next = "fit" /\ nextVerdicts = verdicts

\* An advertiser this catalog cannot serve goes straight to the campaign.
AfterScoring(next, nextVerdicts) ==
    IF consumer
    THEN next = "fit" /\ nextVerdicts = verdicts
    ELSE next = "build" /\ nextVerdicts = [i \in DOMAIN PublisherOrder |->
                                              Excluded(PublisherOrder[i])]

\* Every publisher is gated when the advertiser does not sell to consumers, and
\* otherwise each of them that does not match.
Score ==
    /\ stage = "score"
    /\ gate' \in [Publishers -> IF consumer THEN Gates \ {NotConsumer}
                                ELSE {NotConsumer}]
    /\ AfterScoring(stage', verdicts')
    /\ UNCHANGED <<profile, selection, creatives, calls, campaign>>

---------------------------------------------------------------------------
(***************************************************************************)
(* Stage 3: the model's verdicts, then one for each publisher it left out. *)
(***************************************************************************)

CallFit ==
    /\ stage = "fit"
    /\ calls' = calls + 1
    /\ stage' = "verdicts"
    /\ UNCHANGED <<profile, gate, verdicts, selection, creatives, campaign>>

Judged == {verdicts[i].pub : i \in DOMAIN verdicts}

ApplyGateToRecommended(v) ==
    IF gate[v.pub] # GateNone /\ v.verdict = "recommended"
    THEN [v EXCEPT !.verdict = "excluded"]
    ELSE v

\* A hard gate is not overridable.
ApplyGate(v) ==
    IF gate[v.pub] = GateNone THEN v ELSE [v EXCEPT !.verdict = "excluded", !.rank = 0]

\* The next verdict of the answer: an unknown publisher or one already judged is
\* skipped.
TakeVerdict(v) ==
    /\ stage = "verdicts"
    /\ v.pub \in Publishers \ Judged
    /\ verdicts' = Append(verdicts, ApplyGate(v))
    /\ UNCHANGED <<stage, profile, gate, selection, creatives, calls, campaign>>

EndVerdictsBare ==
    /\ stage = "verdicts"
    /\ stage' = "personas"
    /\ UNCHANGED <<profile, gate, verdicts, selection, creatives, calls, campaign>>

\* The answer ends: whoever it left out is excluded, in catalog order.
EndVerdicts ==
    /\ stage = "verdicts"
    /\ LET missing == Outside(PublisherOrder, Judged)
       IN verdicts' = verdicts \o [i \in DOMAIN missing |-> ApplyGate(Excluded(missing[i]))]
    /\ stage' = "personas"
    /\ UNCHANGED <<profile, gate, selection, creatives, calls, campaign>>

---------------------------------------------------------------------------
(***************************************************************************)
(* Stage 4: the personas selected, completed to the minimum, and rejected. *)
(***************************************************************************)

CallPersonas ==
    /\ stage = "personas"
    /\ calls' = calls + 1
    /\ stage' = "picks"
    /\ UNCHANGED <<profile, gate, verdicts, selection, creatives, campaign>>

Primaries ==
    {pubs \in SUBSET (Publishers \cup Strangers) : Cardinality(pubs) <= MaxPrimary}

Selected == {picks[i].persona : i \in DOMAIN picks}

TakePickUnfiltered(id, pubs) ==
    /\ stage = "picks"
    /\ Len(picks) < MaxPersonas
    /\ id \in Personas \ Selected
    /\ picks' = Append(picks, [persona |-> id, pubs |-> pubs])
    /\ chosen' = chosen + 1
    /\ UNCHANGED <<stage, profile, gate, verdicts, rejected, creatives, calls, campaign>>

\* The next pick of the answer, for publishers pubs: an unknown persona or one
\* already picked is skipped, and so is all that follows the last allowed.
TakePick(id, pubs) ==
    /\ stage = "picks"
    /\ Len(picks) < MaxPersonas
    /\ id \in Personas \ Selected
    /\ picks' = Append(picks, [persona |-> id, pubs |-> pubs \cap Publishers])
    /\ chosen' = chosen + 1
    /\ UNCHANGED <<stage, profile, gate, verdicts, rejected, creatives, calls, campaign>>

BackfillFromTheTop == SubSeq(PersonaOrder, 1, MinPersonas - Len(picks))

\* The personas that complete the selection to the minimum, in catalog order.
Backfill ==
    LET unseen == Outside(PersonaOrder, Selected)
        wanted == MinPersonas - Len(picks)
    IN SubSeq(unseen, 1, IF wanted < Len(unseen) THEN wanted ELSE Len(unseen))

\* The answer's picks end.  A catalog too small for the minimum is an error.
EndPicks ==
    /\ stage = "picks"
    /\ picks' = picks \o [i \in DOMAIN Backfill |-> [persona |-> Backfill[i], pubs |-> {}]]
    /\ stage' = IF Len(picks') < MinPersonas THEN "failed" ELSE "rejections"
    /\ UNCHANGED <<profile, gate, verdicts, chosen, rejected, creatives, calls, campaign>>

TakeRejectionOfBackfilled(id) ==
    /\ stage = "rejections"
    /\ id \in Personas
    /\ \A i \in 1 .. chosen : picks[i].persona # id
    /\ rejected' = rejected \cup {id}
    /\ UNCHANGED <<stage, profile, gate, verdicts, picks, chosen, creatives, calls, campaign>>

\* The next rejection of the answer: one of a persona that is unknown, or was
\* selected after all, is skipped.
TakeRejection(id) ==
    /\ stage = "rejections"
    /\ id \in Personas \ Selected
    /\ rejected' = rejected \cup {id}
    /\ UNCHANGED <<stage, profile, gate, verdicts, picks, chosen, creatives, calls, campaign>>

EndRejections ==
    /\ stage = "rejections"
    /\ stage' = "creatives"
    /\ UNCHANGED <<profile, gate, verdicts, selection, creatives, calls, campaign>>

---------------------------------------------------------------------------
(***************************************************************************)
(* Stages 5 and 6.                                                         *)
(***************************************************************************)

\* One call for each pick: its creative takes the pick's publishers.
Creatives ==
    /\ stage = "creatives"
    /\ calls' = calls + Len(picks)
    /\ creatives' = picks
    /\ stage' = "build"
    /\ UNCHANGED <<profile, gate, verdicts, selection, campaign>>

StatusFor ==
    IF ~consumer THEN "no_recommendation"
    ELSE IF ~confident THEN "needs_clarification"
    ELSE "ready"

\* The verdict on a publisher, gated once more; without one it is excluded.
LedgerEntry(p) ==
    LET on == {i \in DOMAIN verdicts : verdicts[i].pub = p}
    IN IF on = {} THEN Excluded(p)
       ELSE ApplyGate(verdicts[CHOOSE i \in on : \A j \in on : j <= i])

Build ==
    /\ stage = "build"
    /\ ledger' = [p \in Publishers |-> LedgerEntry(p)]
    /\ status' = StatusFor
    /\ stage' = "built"
    /\ UNCHANGED <<profile, gate, verdicts, selection, creatives, calls>>

Next ==
    \/ StageFails
    \/ Profile
    \/ Score
    \/ CallFit
    \/ \E v \in [pub : Publishers \cup Strangers, verdict : Verdicts, rank : Ranks] :
        TakeVerdict(v)
    \/ EndVerdicts
    \/ CallPersonas
    \/ \E id \in Personas \cup Strangers, pubs \in Primaries : TakePick(id, pubs)
    \/ EndPicks
    \/ \E id \in Personas \cup Strangers : TakeRejection(id)
    \/ EndRejections
    \/ Creatives
    \/ Build

Spec == Init /\ [][Next]_vars

---------------------------------------------------------------------------
(***************************************************************************)
(* Properties.                                                             *)
(***************************************************************************)

VerdictType == [pub : Publishers, verdict : Verdicts, rank : Ranks]
PickType == [persona : Personas, pubs : SUBSET Publishers]

\* The type invariant of a run.
TypeOK ==
    /\ stage \in Stages
    /\ consumer \in BOOLEAN
    /\ confident \in BOOLEAN
    /\ gate \in [Publishers -> Gates]
    /\ verdicts \in Seq(VerdictType)
    /\ picks \in Seq(PickType)
    /\ chosen \in 0 .. Len(picks)
    /\ rejected \in SUBSET Personas
    /\ creatives \in Seq(PickType)
    /\ calls \in Nat
    /\ ledger \in [Publishers -> VerdictType]
    /\ status \in {Unbuilt, "no_recommendation", "needs_clarification", "ready"}

\* A hard gate survives everything the model says: a gated publisher is excluded
\* and unranked among the verdicts the persona stage reads and in the ledger
\* the budget is split over (fit.go:114-126, campaign.go:79-89, 110-113).
GatesHold ==
    \A p \in Publishers : gate[p] # GateNone =>
        /\ ledger[p] = Excluded(p)
        /\ \A i \in DOMAIN verdicts :
            verdicts[i].pub = p => verdicts[i] = Excluded(p)

\* Once stage 3 is over every publisher of the catalog has one verdict, whatever
\* the model repeated, invented or left out, so the ledger can be audited
\* (fit.go:18-20, 72-102).
OneVerdictPerPublisher ==
    stage \in {"personas", "picks", "rejections", "creatives", "build", "built"} =>
        /\ IsInjective([i \in DOMAIN verdicts |-> verdicts[i].pub])
        /\ Judged = Publishers

\* A campaign for a consumer advertiser has three to five creatives, no two of
\* them for one persona (personas.go:16-24, 71-97).
CreativesWithinBounds ==
    status \in {"ready", "needs_clarification"} =>
        /\ Len(creatives) \in MinPersonas .. MaxPersonas
        /\ IsInjective([i \in DOMAIN creatives |-> creatives[i].persona])

\* No persona is both selected and rejected, the ones added to reach the minimum
\* included (personas.go:114-122).
SelectedAreNotRejected == Selected \cap rejected = {}

\* The refusal is made before any ranking model sees the brief: it costs the one
\* call that profiled it and writes no creative (run.go:24-27, 57-59).
RefusalCostsOneCall ==
    stage \in {"build", "built"} /\ ~consumer => calls = 1 /\ creatives = << >>
=============================================================================
