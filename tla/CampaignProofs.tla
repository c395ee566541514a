---------------------------- MODULE CampaignProofs ----------------------------
(***************************************************************************)
(* Proofs about Campaign, for any catalog, any answers of the model and    *)
(* any number of them: the gates hold, the ledger can be audited, the      *)
(* creatives stay within their bounds and a refusal costs one call.        *)
(*                                                                         *)
(* The invariant has three parts, each inductive with the ones before it:  *)
(* what is known at each stage, the verdicts, and the selection.           *)
(***************************************************************************)
EXTENDS Campaign, LoopTheorems, TLAPS

---------------------------------------------------------------------------
(***************************************************************************)
(* What each stage rests on.                                               *)
(***************************************************************************)

Judging == {"fit", "verdicts", "personas", "picks", "rejections", "creatives"}
Assembling == {"build", "built"}
Audited == {"personas", "picks", "rejections", "creatives", "build", "built"}

\* An advertiser the catalog cannot serve is never judged, and until the
\* campaign is assembled nothing has been written for anyone.
StageInv ==
    /\ stage \in Stages
    /\ consumer \in BOOLEAN
    /\ confident \in BOOLEAN
    /\ calls \in Nat
    /\ status \in {Unbuilt, "no_recommendation", "needs_clarification", "ready"}
    /\ stage \in Judging => consumer
    /\ stage \in Judging \cup {"profile", "score"} => creatives = << >>
    /\ stage = "profile" => calls = 0
    /\ stage = "score" => calls = 1
    /\ stage \in Assembling /\ ~consumer => calls = 1 /\ creatives = << >>
    /\ stage # "built" => status = Unbuilt
    /\ status \in {"ready", "needs_clarification"} => consumer

---------------------------------------------------------------------------
(***************************************************************************)
(* The verdicts and the ledger.                                            *)
(***************************************************************************)

Positions == 1 .. Len(verdicts)

VerdictsTyped ==
    /\ gate \in [Publishers -> Gates]
    /\ verdicts \in Seq(VerdictType)

OneVerdictEach == \A i, j \in Positions : verdicts[i].pub = verdicts[j].pub => i = j

EveryoneJudged == stage \in Audited => \A p \in Publishers : p \in Judged

GatedAreExcluded ==
    \A i \in Positions :
        gate[verdicts[i].pub] # GateNone => verdicts[i] = Excluded(verdicts[i].pub)

NotJudgedYet == stage \in {"profile", "score", "fit"} => verdicts = << >>

LedgerTyped == ledger \in [Publishers -> VerdictType]

LedgerGated ==
    \A p \in Publishers :
        ledger[p] # Excluded(p) => stage = "built" /\ gate[p] = GateNone

VerdictInv ==
    /\ VerdictsTyped
    /\ OneVerdictEach
    /\ EveryoneJudged
    /\ GatedAreExcluded
    /\ NotJudgedYet
    /\ LedgerTyped
    /\ LedgerGated

---------------------------------------------------------------------------
(***************************************************************************)
(* The selection and the creatives.                                        *)
(***************************************************************************)

SelectionTyped ==
    /\ picks \in Seq(PickType)
    /\ chosen \in 0 .. Len(picks)
    /\ rejected \in SUBSET Personas
    /\ creatives \in Seq(PickType)

OnePickEach ==
    \A i, j \in 1 .. Len(picks) : picks[i].persona = picks[j].persona => i = j

PicksBounded ==
    /\ Len(picks) <= MaxPersonas
    /\ stage \in {"rejections", "creatives"} => Len(picks) >= MinPersonas
    /\ stage \in Assembling /\ consumer => Len(creatives) >= MinPersonas

RejectedApart ==
    /\ stage \in Stages \ {"rejections", "creatives", "build", "built", "failed"} =>
            rejected = {}
    /\ Selected \cap rejected = {}

CreativesArePicks == creatives # << >> => stage \in Assembling /\ creatives = picks

SelectionInv ==
    /\ SelectionTyped
    /\ OnePickEach
    /\ PicksBounded
    /\ RejectedApart
    /\ CreativesArePicks

---------------------------------------------------------------------------
(***************************************************************************)
(* The proofs about stages and the refusal.                                *)
(***************************************************************************)

\* A run starts with nothing known and nothing called.
LEMMA InitStageInv == Init => StageInv
<1> SUFFICES ASSUME Init PROVE StageInv
  OBVIOUS
<1>1. stage = "profile" /\ consumer = FALSE /\ confident = FALSE
  BY DEF Init
<1>2. calls = 0 /\ status = Unbuilt /\ creatives = << >>
  BY DEF Init
<1> QED
  BY <1>1, <1>2 DEF StageInv, Stages, Judging, Assembling, Unbuilt

\* Each action moves the run one stage, and only Score and Build read consumer.
LEMMA NextStageInv == StageInv /\ SelectionTyped /\ [Next]_vars => StageInv'
<1> SUFFICES ASSUME StageInv, SelectionTyped, [Next]_vars PROVE StageInv'
  OBVIOUS
<1> USE DEF StageInv, Stages, Judging, Assembling, Unbuilt
<1>1. CASE StageFails
  BY <1>1 DEF StageFails, profile, campaign
<1>2. CASE Profile
  BY <1>2 DEF Profile, campaign
<1>3. CASE Score
  BY <1>3 DEF Score, AfterScoring, profile, campaign
<1>4. CASE CallFit
  BY <1>4 DEF CallFit, profile, campaign
<1>5. CASE \E v \in [pub : Publishers \cup Strangers, verdict : Verdicts, rank : Ranks] :
              TakeVerdict(v)
  BY <1>5 DEF TakeVerdict, profile, campaign
<1>6. CASE EndVerdicts
  BY <1>6 DEF EndVerdicts, profile, campaign
<1>7. CASE CallPersonas
  BY <1>7 DEF CallPersonas, profile, campaign
<1>8. CASE \E id \in Personas \cup Strangers, pubs \in Primaries : TakePick(id, pubs)
  BY <1>8 DEF TakePick, profile, campaign
<1>9. CASE EndPicks
  BY <1>9 DEF EndPicks, profile, campaign
<1>10. CASE \E id \in Personas \cup Strangers : TakeRejection(id)
  BY <1>10 DEF TakeRejection, profile, campaign
<1>11. CASE EndRejections
  BY <1>11 DEF EndRejections, profile, campaign
<1>12. CASE Creatives
  <2>1. Len(picks) \in Nat
    BY DEF SelectionTyped
  <2> QED
    BY <1>12, <2>1 DEF Creatives, profile, campaign
<1>13. CASE Build
  BY <1>13 DEF Build, StatusFor, profile
<1>14. CASE UNCHANGED vars
  BY <1>14 DEF vars, profile, campaign
<1> QED
  BY <1>1, <1>2, <1>3, <1>4, <1>5, <1>6, <1>7, <1>8, <1>9, <1>10, <1>11, <1>12,
     <1>13, <1>14 DEF Next

---------------------------------------------------------------------------
(***************************************************************************)
(* The proofs about verdicts.                                              *)
(***************************************************************************)

\* The catalog lists each publisher and each persona.
LEMMA CatalogIsSeq ==
    /\ PublisherOrder \in Seq(Publishers)
    /\ PersonaOrder \in Seq(Personas)
    /\ \A p \in Publishers : \E k \in 1 .. Len(PublisherOrder) : PublisherOrder[k] = p
BY CatalogAssumption DEF Publishers, Personas, ToSet

\* A verdict of exclusion is a verdict, on the publisher it names.
LEMMA ExcludedIsVerdict ==
    ASSUME NEW p \in Publishers
    PROVE  /\ Excluded(p) \in VerdictType
           /\ Excluded(p).pub = p
BY DEF Excluded, VerdictType, Verdicts, Ranks

\* What the gate leaves of a verdict.
LEMMA ApplyGateExcludes ==
    ASSUME NEW v \in VerdictType
    PROVE  /\ ApplyGate(v) \in VerdictType
           /\ ApplyGate(v).pub = v.pub
           /\ gate[v.pub] # GateNone => ApplyGate(v) = Excluded(v.pub)
BY DEF ApplyGate, Excluded, VerdictType, Verdicts, Ranks

\* Nobody is judged at first, and the ledger excludes everyone.
LEMMA InitVerdictInv == Init => VerdictInv
<1> SUFFICES ASSUME Init PROVE VerdictInv
  OBVIOUS
<1>1. VerdictsTyped
  <2>1. gate \in [Publishers -> Gates]
    BY DEF Init, Gates
  <2>2. verdicts = << >>
    BY DEF Init
  <2> QED
    BY <2>1, <2>2 DEF VerdictsTyped
<1>2. LedgerTyped
  BY ExcludedIsVerdict DEF Init, LedgerTyped
<1>3. OneVerdictEach /\ GatedAreExcluded /\ NotJudgedYet
  BY DEF Init, OneVerdictEach, GatedAreExcluded, NotJudgedYet, Positions
<1>4. EveryoneJudged
  BY DEF Init, EveryoneJudged, Audited
<1>5. LedgerGated
  BY DEF Init, LedgerGated
<1> QED
  BY <1>1, <1>2, <1>3, <1>4, <1>5 DEF VerdictInv

\* Steps that touch neither a verdict, a gate nor the ledger, and leave the
\* stages before the audit only by EndVerdicts.
LEMMA FrameVerdictInv ==
    ASSUME VerdictInv, UNCHANGED <<gate, verdicts, ledger>>,
           stage # "built",
           stage' \in Audited => stage \in Audited,
           stage' \in {"profile", "score", "fit"} => stage \in {"profile", "score", "fit"}
    PROVE  VerdictInv'
<1> USE DEF VerdictInv
<1>1. VerdictsTyped' /\ LedgerTyped'
  BY DEF VerdictsTyped, LedgerTyped
<1>2. OneVerdictEach' /\ GatedAreExcluded' /\ NotJudgedYet'
  BY DEF OneVerdictEach, GatedAreExcluded, NotJudgedYet, Positions, Excluded
<1>3. EveryoneJudged'
  BY DEF EveryoneJudged, Judged
<1>4. LedgerGated'
  BY DEF LedgerGated, Excluded
<1> QED
  BY <1>1, <1>2, <1>3, <1>4

\* The refusal writes a verdict for every publisher, in catalog order.
LEMMA ScoreVerdictInv == VerdictInv /\ Score => VerdictInv'
<1> SUFFICES ASSUME VerdictInv, Score PROVE VerdictInv'
  OBVIOUS
<1> USE DEF VerdictInv
<1>1. gate' \in [Publishers -> Gates]
  BY DEF Score, Gates, NotConsumer
<1>2. stage = "score" /\ verdicts = << >> /\ UNCHANGED ledger
  BY DEF Score, NotJudgedYet, campaign
<1>3. LedgerTyped' /\ LedgerGated'
  BY <1>2 DEF LedgerTyped, LedgerGated, Excluded
<1>4. CASE consumer
  <2>1. stage' = "fit" /\ verdicts' = << >>
    BY <1>2, <1>4 DEF Score, AfterScoring
  <2>2. VerdictsTyped' /\ OneVerdictEach' /\ GatedAreExcluded' /\ NotJudgedYet'
    BY <1>1, <2>1 DEF VerdictsTyped, OneVerdictEach, GatedAreExcluded, NotJudgedYet, Positions
  <2>3. EveryoneJudged'
    BY <2>1 DEF EveryoneJudged, Audited
  <2> QED
    BY <1>3, <2>2, <2>3
<1>5. CASE ~consumer
  <2>1. /\ stage' = "build"
        /\ verdicts' = [i \in DOMAIN PublisherOrder |-> Excluded(PublisherOrder[i])]
    BY <1>5 DEF Score, AfterScoring
  <2>2. DOMAIN PublisherOrder = 1 .. Len(PublisherOrder) /\ Len(PublisherOrder) \in Nat
    BY CatalogIsSeq
  <2>3. \A i \in 1 .. Len(PublisherOrder) :
            PublisherOrder[i] \in Publishers
    BY CatalogIsSeq
  <2>4. verdicts' \in Seq(VerdictType) /\ Positions' = 1 .. Len(PublisherOrder)
    <3>1. \A i \in 1 .. Len(PublisherOrder) : Excluded(PublisherOrder[i]) \in VerdictType
      BY <2>3, ExcludedIsVerdict
    <3> QED
      BY <2>1, <2>2, <3>1 DEF Positions
  <2>5. \A i \in 1 .. Len(PublisherOrder) :
            /\ verdicts'[i] = Excluded(PublisherOrder[i])
            /\ verdicts'[i].pub = PublisherOrder[i]
    BY <2>1, <2>2, <2>3, ExcludedIsVerdict
  <2>6. OneVerdictEach'
    BY <2>2, <2>4, <2>5, CatalogAssumption DEF OneVerdictEach, IsInjective
  <2>7. GatedAreExcluded'
    BY <2>4, <2>5 DEF GatedAreExcluded, Excluded
  <2>8. EveryoneJudged'
    BY <2>1, <2>2, <2>5, CatalogIsSeq DEF EveryoneJudged, Judged
  <2> QED
    BY <1>1, <1>3, <2>1, <2>4, <2>6, <2>7, <2>8 DEF VerdictsTyped, NotJudgedYet
<1> QED
  BY <1>4, <1>5

\* A verdict taken is the first on its publisher, and gated.
LEMMA TakeVerdictInv ==
    ASSUME VerdictInv,
           NEW v \in [pub : Publishers \cup Strangers, verdict : Verdicts, rank : Ranks],
           TakeVerdict(v)
    PROVE  VerdictInv'
<1> USE DEF VerdictInv
<1>1. v \in VerdictType /\ v.pub \notin Judged
  BY DEF TakeVerdict, VerdictType
<1>2. stage = "verdicts" /\ UNCHANGED <<stage, gate, ledger>>
  BY DEF TakeVerdict, campaign
<1> DEFINE w == ApplyGate(v)
<1>3. w \in VerdictType /\ w.pub = v.pub /\ (gate[w.pub] # GateNone => w = Excluded(w.pub))
  BY <1>1, ApplyGateExcludes
<1>4. verdicts \in Seq(VerdictType) /\ verdicts' = Append(verdicts, w)
  BY DEF TakeVerdict, VerdictsTyped
<1> HIDE DEF w
<1>5. /\ verdicts' \in Seq(VerdictType)
      /\ Len(verdicts') = Len(verdicts) + 1
      /\ verdicts'[Len(verdicts) + 1] = w
      /\ \A i \in Positions : verdicts'[i] = verdicts[i]
      /\ Len(verdicts) \in Nat
  BY <1>3, <1>4, AppendProperties DEF Positions
<1>6. \A i \in Positions' : i = Len(verdicts) + 1 \/ i \in Positions
  BY <1>5 DEF Positions
<1>7. \A i \in Positions : verdicts[i].pub # w.pub
  BY <1>1, <1>3, <1>4 DEF Judged, Positions
<1>8. OneVerdictEach'
  BY <1>5, <1>6, <1>7 DEF OneVerdictEach
<1>9. GatedAreExcluded'
  <2> SUFFICES ASSUME NEW i \in Positions', gate[verdicts'[i].pub] # GateNone
               PROVE  verdicts'[i] = Excluded(verdicts'[i].pub)
    BY <1>2 DEF GatedAreExcluded, Excluded
  <2>1. CASE i = Len(verdicts) + 1
    BY <1>3, <1>5, <2>1
  <2>2. CASE i \in Positions
    BY <1>5, <2>2 DEF GatedAreExcluded
  <2> QED
    BY <1>6, <2>1, <2>2
<1>10. EveryoneJudged' /\ NotJudgedYet'
  BY <1>2 DEF EveryoneJudged, NotJudgedYet, Audited
<1>11. LedgerTyped' /\ LedgerGated'
  BY <1>2 DEF LedgerTyped, LedgerGated, Excluded
<1> QED
  BY <1>2, <1>5, <1>8, <1>9, <1>10, <1>11 DEF VerdictsTyped

\* Whoever the answer left out is judged, once, and the gate holds for them too.
LEMMA EndVerdictsInv == VerdictInv /\ EndVerdicts => VerdictInv'
<1> SUFFICES ASSUME VerdictInv, EndVerdicts PROVE VerdictInv'
  OBVIOUS
<1> USE DEF VerdictInv
<1> DEFINE missing == Outside(PublisherOrder, Judged)
           added == [i \in DOMAIN missing |-> ApplyGate(Excluded(missing[i]))]
<1>1. /\ stage = "verdicts" /\ stage' = "personas"
      /\ verdicts' = verdicts \o added
      /\ UNCHANGED <<gate, ledger>>
  BY DEF EndVerdicts, campaign
<1>2. missing \in Seq(Publishers \ Judged)
  BY CatalogIsSeq, OutsideIsSeq
<1>3. \A i, j \in 1 .. Len(missing) : missing[i] = missing[j] => i = j
  <2>1. \A a, b \in 1 .. Len(PublisherOrder) :
            PublisherOrder[a] = PublisherOrder[b] => a = b
    BY CatalogIsSeq, CatalogAssumption DEF IsInjective
  <2> QED
    BY <2>1, CatalogIsSeq, OutsideIsInjective
<1>4. \A p \in Publishers \ Judged : \E i \in 1 .. Len(missing) : missing[i] = p
  <2> SUFFICES ASSUME NEW p \in Publishers \ Judged
               PROVE  \E i \in 1 .. Len(missing) : missing[i] = p
    OBVIOUS
  <2>1. PICK k \in 1 .. Len(PublisherOrder) : PublisherOrder[k] = p
    BY CatalogIsSeq
  <2>2. PublisherOrder[k] \notin Judged
    BY <2>1
  <2>3. PublisherOrder \in Seq(Publishers)
    BY CatalogIsSeq
  <2>4. \E i \in 1 .. Len(Outside(PublisherOrder, Judged)) :
            Outside(PublisherOrder, Judged)[i] = PublisherOrder[k]
    BY <2>2, <2>3, OutsideKeepsTheRest, Zenon
  <2> QED
    BY <2>1, <2>4
<1> HIDE DEF missing
<1>5. DOMAIN missing = 1 .. Len(missing) /\ Len(missing) \in Nat
  BY <1>2
<1>6. ASSUME NEW i \in 1 .. Len(missing)
      PROVE  /\ added[i] \in VerdictType
             /\ added[i].pub = missing[i]
             /\ gate[added[i].pub] # GateNone => added[i] = Excluded(added[i].pub)
  <2>1. missing[i] \in Publishers
    BY <1>2
  <2>2. Excluded(missing[i]) \in VerdictType /\ Excluded(missing[i]).pub = missing[i]
    BY <2>1, ExcludedIsVerdict
  <2>3. added[i] = ApplyGate(Excluded(missing[i]))
    BY <1>5
  <2> HIDE DEF added
  <2> QED
    BY <2>2, <2>3, ApplyGateExcludes
<1>7. added \in Seq(VerdictType) /\ Len(added) = Len(missing)
  BY <1>5, <1>6
<1> HIDE DEF added
<1>8. verdicts \in Seq(VerdictType) /\ Len(verdicts) \in Nat
  BY DEF VerdictsTyped
<1>9. /\ verdicts' \in Seq(VerdictType)
      /\ Len(verdicts') = Len(verdicts) + Len(missing)
      /\ \A i \in 1 .. Len(verdicts) : verdicts'[i] = verdicts[i]
      /\ \A i \in 1 .. Len(missing) : verdicts'[Len(verdicts) + i] = added[i]
  BY <1>1, <1>7, <1>8
<1>10. ASSUME NEW i \in Positions'
       PROVE  i \in Positions \/ \E k \in 1 .. Len(missing) : i = Len(verdicts) + k
  <2>1. CASE i <= Len(verdicts)
    BY <1>8, <2>1 DEF Positions
  <2>2. CASE i > Len(verdicts)
    <3>1. i - Len(verdicts) \in 1 .. Len(missing) /\ i = Len(verdicts) + (i - Len(verdicts))
      BY <1>5, <1>8, <1>9, <2>2 DEF Positions
    <3> QED
      BY <3>1
  <2> QED
    BY <1>8, <1>9, <2>1, <2>2 DEF Positions
<1>11. \A i \in Positions : verdicts[i].pub \in Judged
  BY <1>8 DEF Judged, Positions
<1>12. \A k \in 1 .. Len(missing) : added[k].pub \notin Judged
  BY <1>2, <1>6
<1>13. OneVerdictEach'
  <2> SUFFICES ASSUME NEW i \in Positions', NEW j \in Positions',
                      verdicts'[i].pub = verdicts'[j].pub
               PROVE  i = j
    BY DEF OneVerdictEach
  <2>1. CASE i \in Positions /\ j \in Positions
    BY <1>9, <2>1 DEF OneVerdictEach, Positions
  <2>2. CASE i \notin Positions /\ j \notin Positions
    <3>1. PICK k \in 1 .. Len(missing) : i = Len(verdicts) + k
      BY <1>10, <2>2
    <3>2. PICK l \in 1 .. Len(missing) : j = Len(verdicts) + l
      BY <1>10, <2>2
    <3>3. missing[k] = missing[l]
      BY <1>6, <1>9, <3>1, <3>2
    <3> QED
      BY <1>3, <3>1, <3>2, <3>3
  <2>3. CASE i \in Positions /\ j \notin Positions
    <3>1. PICK l \in 1 .. Len(missing) : j = Len(verdicts) + l
      BY <1>10, <2>3
    <3> QED
      BY <1>9, <1>11, <1>12, <2>3, <3>1 DEF Positions
  <2>4. CASE i \notin Positions /\ j \in Positions
    <3>1. PICK k \in 1 .. Len(missing) : i = Len(verdicts) + k
      BY <1>10, <2>4
    <3> QED
      BY <1>9, <1>11, <1>12, <2>4, <3>1 DEF Positions
  <2> QED
    BY <2>1, <2>2, <2>3, <2>4
<1>14. GatedAreExcluded'
  <2> SUFFICES ASSUME NEW i \in Positions', gate[verdicts'[i].pub] # GateNone
               PROVE  verdicts'[i] = Excluded(verdicts'[i].pub)
    BY <1>1 DEF GatedAreExcluded, Excluded
  <2>1. CASE i \in Positions
    BY <1>9, <2>1 DEF GatedAreExcluded, Positions
  <2>2. CASE i \notin Positions
    <3>1. PICK k \in 1 .. Len(missing) : i = Len(verdicts) + k
      BY <1>10, <2>2
    <3> QED
      BY <1>6, <1>9, <3>1
  <2> QED
    BY <2>1, <2>2
<1>15. EveryoneJudged'
  <2> SUFFICES ASSUME NEW p \in Publishers
               PROVE  \E i \in Positions' : verdicts'[i].pub = p
    BY <1>9 DEF EveryoneJudged, Judged, Positions
  <2>1. CASE p \in Judged
    <3>1. PICK i \in Positions : verdicts[i].pub = p
      BY <1>8, <2>1 DEF Judged, Positions
    <3>2. i \in Positions' /\ verdicts'[i].pub = p
      BY <1>5, <1>8, <1>9, <3>1 DEF Positions
    <3> QED
      BY <3>2
  <2>2. CASE p \notin Judged
    <3>1. PICK k \in 1 .. Len(missing) : missing[k] = p
      BY <1>4, <2>2
    <3>2. Len(verdicts) + k \in Positions' /\ verdicts'[Len(verdicts) + k].pub = p
      BY <1>5, <1>6, <1>8, <1>9, <3>1 DEF Positions
    <3> QED
      BY <3>2
  <2> QED
    BY <2>1, <2>2
<1>16. NotJudgedYet' /\ LedgerTyped' /\ LedgerGated'
  BY <1>1 DEF NotJudgedYet, LedgerTyped, LedgerGated, Excluded
<1> QED
  BY <1>1, <1>9, <1>13, <1>14, <1>15, <1>16 DEF VerdictsTyped

\* A publisher's entry is its verdict, the gate applied once more.
LEMMA EntryOfVerdict ==
    ASSUME VerdictInv, NEW p \in Publishers
    PROVE  /\ LedgerEntry(p) \in VerdictType
           /\ gate[p] # GateNone => LedgerEntry(p) = Excluded(p)
<1> USE DEF VerdictInv
<1> DEFINE on == {i \in DOMAIN verdicts : verdicts[i].pub = p}
<1>1. DOMAIN verdicts = Positions /\ \A i \in Positions : verdicts[i] \in VerdictType
  BY DEF VerdictsTyped, Positions
<1>2. CASE on = {}
  <2>1. LedgerEntry(p) = Excluded(p)
    BY <1>2 DEF LedgerEntry
  <2> QED
    BY <2>1, ExcludedIsVerdict
<1>3. CASE on # {}
  <2>1. PICK k \in Positions : verdicts[k].pub = p
    BY <1>1, <1>3
  <2>2. \A i \in on : i = k
    BY <1>1, <2>1 DEF OneVerdictEach
  <2>3. k \in on
    BY <1>1, <2>1
  <2>4. on = {k}
    BY <2>2, <2>3
  <2>5. (CHOOSE i \in on : \A j \in on : j <= i) = k
    <3>1. k <= k
      BY DEF Positions
    <3> HIDE DEF on
    <3> QED
      BY <2>4, <3>1
  <2>6. LedgerEntry(p) = ApplyGate(verdicts[k])
    BY <1>3, <2>5 DEF LedgerEntry
  <2> QED
    BY <1>1, <2>1, <2>6, ApplyGateExcludes
<1> QED
  BY <1>2, <1>3

\* The ledger is the verdicts, gated.
LEMMA BuildVerdictInv == VerdictInv /\ Build => VerdictInv'
<1> SUFFICES ASSUME VerdictInv, Build PROVE VerdictInv'
  OBVIOUS
<1>1. /\ stage = "build" /\ stage' = "built"
      /\ ledger' = [p \in Publishers |-> LedgerEntry(p)]
      /\ UNCHANGED <<gate, verdicts>>
  BY DEF Build
<1>2. LedgerTyped'
  BY <1>1, EntryOfVerdict DEF LedgerTyped
<1>3. LedgerGated'
  BY <1>1, EntryOfVerdict DEF LedgerGated, Excluded
<1>4. (VerdictsTyped /\ OneVerdictEach /\ GatedAreExcluded)'
  BY <1>1 DEF VerdictInv, VerdictsTyped, OneVerdictEach, GatedAreExcluded, Positions, Excluded
<1>5. EveryoneJudged' /\ NotJudgedYet'
  BY <1>1 DEF VerdictInv, EveryoneJudged, NotJudgedYet, Judged, Audited
<1> QED
  BY <1>2, <1>3, <1>4, <1>5 DEF VerdictInv

\* Only the four steps above touch a verdict, a gate or the ledger.
LEMMA NextVerdictInv == VerdictInv /\ [Next]_vars => VerdictInv'
<1> SUFFICES ASSUME VerdictInv, [Next]_vars PROVE VerdictInv'
  OBVIOUS
<1>1. CASE Score
  BY <1>1, ScoreVerdictInv
<1>2. CASE \E v \in [pub : Publishers \cup Strangers, verdict : Verdicts, rank : Ranks] :
              TakeVerdict(v)
  BY <1>2, TakeVerdictInv
<1>3. CASE EndVerdicts
  BY <1>3, EndVerdictsInv
<1>4. CASE Build
  BY <1>4, BuildVerdictInv
<1>5. CASE StageFails \/ Profile \/ CallFit
  BY <1>5, FrameVerdictInv DEF StageFails, Profile, CallFit, campaign, Audited
<1>6. CASE CallPersonas \/ EndPicks \/ EndRejections \/ Creatives
  BY <1>6, FrameVerdictInv DEF CallPersonas, EndPicks, EndRejections, Creatives, campaign, Audited
<1>7. CASE \E id \in Personas \cup Strangers, pubs \in Primaries : TakePick(id, pubs)
  BY <1>7, FrameVerdictInv DEF TakePick, campaign, Audited
<1>8. CASE \E id \in Personas \cup Strangers : TakeRejection(id)
  BY <1>8, FrameVerdictInv DEF TakeRejection, campaign, Audited
<1>9. CASE UNCHANGED vars
  BY <1>9 DEF VerdictInv, VerdictsTyped, OneVerdictEach, EveryoneJudged, GatedAreExcluded,
              NotJudgedYet, LedgerTyped, LedgerGated, Positions, Judged, Excluded, vars, campaign
<1> QED
  BY <1>1, <1>2, <1>3, <1>4, <1>5, <1>6, <1>7, <1>8, <1>9 DEF Next

---------------------------------------------------------------------------
(***************************************************************************)
(* The proofs about the selection.                                         *)
(***************************************************************************)

\* Nobody is selected or rejected at first.
LEMMA InitSelectionInv == Init => SelectionInv
<1> SUFFICES ASSUME Init PROVE SelectionInv
  OBVIOUS
<1>1. picks = << >> /\ chosen = 0 /\ rejected = {} /\ creatives = << >> /\ stage = "profile"
  BY DEF Init
<1>2. SelectionTyped /\ OnePickEach /\ CreativesArePicks
  BY <1>1 DEF SelectionTyped, OnePickEach, CreativesArePicks
<1>3. PicksBounded
  BY <1>1, CountsAssumption DEF PicksBounded, Assembling
<1>4. RejectedApart
  BY <1>1 DEF RejectedApart
<1> QED
  BY <1>2, <1>3, <1>4 DEF SelectionInv

\* A pick taken is new, and there was room for it.
LEMMA TakePickInv ==
    ASSUME SelectionInv, StageInv, NEW id \in Personas \cup Strangers, NEW pubs \in Primaries,
           TakePick(id, pubs)
    PROVE  SelectionInv'
<1> USE DEF SelectionInv
<1> DEFINE pick == [persona |-> id, pubs |-> pubs \cap Publishers]
<1>1. /\ stage = "picks" /\ Len(picks) < MaxPersonas
      /\ id \in Personas \ Selected
      /\ picks' = Append(picks, pick) /\ chosen' = chosen + 1
      /\ UNCHANGED <<stage, rejected, creatives>>
  BY DEF TakePick
<1>2. picks \in Seq(PickType) /\ Len(picks) \in Nat
  BY DEF SelectionTyped
<1>3. pick \in PickType /\ pick.persona = id
  BY <1>1 DEF PickType
<1> HIDE DEF pick
<1>4. /\ picks' \in Seq(PickType)
      /\ Len(picks') = Len(picks) + 1
      /\ picks'[Len(picks) + 1] = pick
      /\ \A i \in 1 .. Len(picks) : picks'[i] = picks[i]
  BY <1>1, <1>2, <1>3, AppendProperties
<1>5. \A i \in 1 .. Len(picks) : picks[i].persona # id
  BY <1>1, <1>2 DEF Selected
<1>6. creatives = << >> /\ rejected = {}
  BY <1>1 DEF StageInv, Judging, RejectedApart, Stages
<1>7. SelectionTyped'
  BY <1>1, <1>2, <1>4 DEF SelectionTyped
<1>8. OnePickEach'
  <2>1. \A i \in 1 .. Len(picks') : i = Len(picks) + 1 \/ i \in 1 .. Len(picks)
    BY <1>2, <1>4
  <2> QED
    BY <1>3, <1>4, <1>5, <2>1 DEF OnePickEach
<1>9. PicksBounded'
  BY <1>1, <1>2, <1>4, CountsAssumption DEF PicksBounded, Assembling
<1>10. RejectedApart' /\ CreativesArePicks'
  BY <1>1, <1>6 DEF RejectedApart, CreativesArePicks
<1> QED
  BY <1>7, <1>8, <1>9, <1>10

\* The personas added are of the catalog, none of them picked already, and as
\* many as the minimum wants if the catalog has them.
LEMMA BackfillProperties ==
    ASSUME SelectionInv
    PROVE  /\ Backfill \in Seq(Personas \ Selected)
           /\ Len(Backfill) \in Nat
           /\ Len(picks) + Len(Backfill) <= MaxPersonas
           /\ \A i, j \in 1 .. Len(Backfill) : Backfill[i] = Backfill[j] => i = j
<1> DEFINE unseen == Outside(PersonaOrder, Selected)
           wanted == MinPersonas - Len(picks)
           n == IF wanted < Len(unseen) THEN wanted ELSE Len(unseen)
<1>1. unseen \in Seq(Personas \ Selected)
  BY CatalogIsSeq, OutsideIsSeq
<1>2. \A i, j \in 1 .. Len(unseen) : unseen[i] = unseen[j] => i = j
  <2>1. \A a, b \in 1 .. Len(PersonaOrder) : PersonaOrder[a] = PersonaOrder[b] => a = b
    BY CatalogIsSeq, CatalogAssumption DEF IsInjective
  <2> QED
    BY <2>1, CatalogIsSeq, OutsideIsInjective
<1>3. Backfill = SubSeq(unseen, 1, n)
  BY DEF Backfill
<1> HIDE DEF unseen
<1>4. Len(unseen) \in Nat /\ Len(picks) \in Nat /\ Len(picks) <= MaxPersonas
  BY <1>1 DEF SelectionInv, SelectionTyped, PicksBounded
<1>5. n \in Int /\ n <= Len(unseen) /\ n <= wanted
  BY <1>4, CountsAssumption
<1> HIDE DEF n
<1>6. CASE n < 1
  <2>1. Backfill = << >>
    BY <1>1, <1>3, <1>5, <1>6
  <2> QED
    BY <2>1, <1>4
<1>7. CASE n >= 1
  <2>1. /\ Backfill \in Seq(Personas \ Selected)
        /\ Len(Backfill) = n
        /\ \A i \in 1 .. n : Backfill[i] = unseen[i]
    BY <1>1, <1>3, <1>5, <1>7, SubSeqProperties
  <2> QED
    BY <1>2, <1>4, <1>5, <1>7, <2>1, CountsAssumption
<1> QED
  BY <1>5, <1>6, <1>7

\* The personas added are new, and fill the selection no further than the minimum.
LEMMA EndPicksInv == SelectionInv /\ StageInv /\ EndPicks => SelectionInv'
<1> SUFFICES ASSUME SelectionInv, StageInv, EndPicks PROVE SelectionInv'
  OBVIOUS
<1> USE DEF SelectionInv
<1> DEFINE added == [i \in DOMAIN Backfill |-> [persona |-> Backfill[i], pubs |-> {}]]
<1>1. /\ stage = "picks"
      /\ picks' = picks \o added
      /\ stage' = IF Len(picks') < MinPersonas THEN "failed" ELSE "rejections"
      /\ UNCHANGED <<chosen, rejected, creatives>>
  BY DEF EndPicks
<1>2. /\ Backfill \in Seq(Personas \ Selected)
      /\ Len(Backfill) \in Nat
      /\ Len(picks) + Len(Backfill) <= MaxPersonas
      /\ \A i, j \in 1 .. Len(Backfill) : Backfill[i] = Backfill[j] => i = j
  BY BackfillProperties
<1>3. \A i \in 1 .. Len(Backfill) :
        added[i] \in PickType /\ added[i].persona = Backfill[i] /\ Backfill[i] \notin Selected
  BY <1>2 DEF PickType
<1>4. added \in Seq(PickType) /\ Len(added) = Len(Backfill)
  <2>1. DOMAIN Backfill = 1 .. Len(Backfill)
    BY <1>2
  <2>2. added \in [1 .. Len(Backfill) -> PickType]
    BY <1>3, <2>1
  <2> HIDE DEF added
  <2> QED
    BY <1>2, <2>2
<1> HIDE DEF added
<1>5. picks \in Seq(PickType) /\ Len(picks) \in Nat /\ chosen \in 0 .. Len(picks)
  BY DEF SelectionTyped
<1>6. /\ picks' \in Seq(PickType)
      /\ Len(picks') = Len(picks) + Len(Backfill)
      /\ \A i \in 1 .. Len(picks) : picks'[i] = picks[i]
      /\ \A i \in 1 .. Len(Backfill) : picks'[Len(picks) + i] = added[i]
  <2>0. picks \o added \in Seq(PickType) /\ Len(picks \o added) = Len(picks) + Len(added)
    BY <1>4, <1>5, ConcatProperties
  <2>1. picks' \in Seq(PickType) /\ Len(picks') = Len(picks) + Len(added)
    BY <1>1, <2>0, Zenon
  <2>2. \A i \in 1 .. Len(picks) : picks'[i] = picks[i]
    BY <1>1, <1>4, <1>5
  <2>3. \A i \in 1 .. Len(added) : picks'[Len(picks) + i] = added[i]
    BY <1>1, <1>4, <1>5
  <2> QED
    BY <1>4, <2>1, <2>2, <2>3
<1>7. creatives = << >> /\ rejected = {}
  BY <1>1 DEF StageInv, Judging, RejectedApart, Stages
<1>8. SelectionTyped'
  BY <1>1, <1>2, <1>5, <1>6, <1>7 DEF SelectionTyped
<1>9. ASSUME NEW i \in 1 .. Len(picks')
      PROVE  i \in 1 .. Len(picks) \/ \E k \in 1 .. Len(Backfill) : i = Len(picks) + k
  <2>1. CASE i <= Len(picks)
    BY <1>5, <2>1
  <2>2. CASE i > Len(picks)
    <3>1. i - Len(picks) \in 1 .. Len(Backfill) /\ i = Len(picks) + (i - Len(picks))
      BY <1>2, <1>5, <1>6, <2>2
    <3> QED
      BY <3>1
  <2> QED
    BY <1>5, <1>6, <2>1, <2>2
<1>10. \A i \in 1 .. Len(picks) : picks[i].persona \in Selected
  BY <1>5 DEF Selected
<1>11. OnePickEach'
  <2> SUFFICES ASSUME NEW i \in 1 .. Len(picks'), NEW j \in 1 .. Len(picks'),
                      picks'[i].persona = picks'[j].persona
               PROVE  i = j
    BY DEF OnePickEach
  <2>1. CASE i \in 1 .. Len(picks) /\ j \in 1 .. Len(picks)
    BY <1>6, <2>1 DEF OnePickEach
  <2>2. CASE i \notin 1 .. Len(picks) /\ j \notin 1 .. Len(picks)
    <3>1. PICK k \in 1 .. Len(Backfill) : i = Len(picks) + k
      BY <1>9, <2>2
    <3>2. PICK l \in 1 .. Len(Backfill) : j = Len(picks) + l
      BY <1>9, <2>2
    <3>3. Backfill[k] = Backfill[l]
      BY <1>3, <1>6, <3>1, <3>2
    <3> QED
      BY <1>2, <3>1, <3>2, <3>3
  <2>3. CASE i \in 1 .. Len(picks) /\ j \notin 1 .. Len(picks)
    <3>1. PICK l \in 1 .. Len(Backfill) : j = Len(picks) + l
      BY <1>9, <2>3
    <3> QED
      BY <1>3, <1>6, <1>10, <2>3, <3>1
  <2>4. CASE i \notin 1 .. Len(picks) /\ j \in 1 .. Len(picks)
    <3>1. PICK k \in 1 .. Len(Backfill) : i = Len(picks) + k
      BY <1>9, <2>4
    <3> QED
      BY <1>3, <1>6, <1>10, <2>4, <3>1
  <2> QED
    BY <2>1, <2>2, <2>3, <2>4
<1>12. PicksBounded'
  BY <1>1, <1>2, <1>5, <1>6, CountsAssumption DEF PicksBounded, Assembling
<1>13. RejectedApart' /\ CreativesArePicks'
  BY <1>1, <1>7 DEF RejectedApart, CreativesArePicks, Stages
<1> QED
  BY <1>8, <1>11, <1>12, <1>13

\* Steps that change neither the selection nor a creative.
LEMMA FrameSelectionInv ==
    ASSUME SelectionInv, UNCHANGED <<picks, chosen, rejected, creatives>>,
           stage' \in {"rejections", "creatives"} => stage \in {"rejections", "creatives"},
           stage' \in Stages \ {"rejections", "creatives", "build", "built", "failed"} =>
              stage \in Stages \ {"rejections", "creatives", "build", "built", "failed"},
           stage' \in Assembling /\ consumer' => stage \in Assembling /\ consumer,
           stage \in Assembling => stage' \in Assembling
    PROVE  SelectionInv'
<1> USE DEF SelectionInv
<1>1. SelectionTyped' /\ OnePickEach'
  BY DEF SelectionTyped, OnePickEach
<1>2. PicksBounded'
  BY DEF PicksBounded
<1>3. RejectedApart'
  BY DEF RejectedApart, Selected
<1>4. CreativesArePicks'
  BY DEF CreativesArePicks
<1> QED
  BY <1>1, <1>2, <1>3, <1>4

\* Rejections and creatives follow the selection as it is.
LEMMA NextSelectionInv == SelectionInv /\ StageInv /\ [Next]_vars => SelectionInv'
<1> SUFFICES ASSUME SelectionInv, StageInv, [Next]_vars PROVE SelectionInv'
  OBVIOUS
<1> USE DEF Assembling, Stages
<1>1. CASE \E id \in Personas \cup Strangers, pubs \in Primaries : TakePick(id, pubs)
  BY <1>1, TakePickInv
<1>2. CASE EndPicks
  BY <1>2, EndPicksInv
<1>3. CASE \E id \in Personas \cup Strangers : TakeRejection(id)
  <2>1. PICK id \in Personas \cup Strangers : TakeRejection(id)
    BY <1>3
  <2>2. /\ stage = "rejections" /\ id \in Personas \ Selected
        /\ rejected' = rejected \cup {id}
        /\ UNCHANGED <<stage, consumer, picks, chosen, creatives>>
    BY <2>1 DEF TakeRejection, profile
  <2>3. SelectionTyped' /\ OnePickEach' /\ CreativesArePicks'
    BY <2>2 DEF SelectionInv, SelectionTyped, OnePickEach, CreativesArePicks
  <2>4. PicksBounded'
    BY <2>2 DEF SelectionInv, PicksBounded
  <2>5. RejectedApart'
    BY <2>2 DEF SelectionInv, RejectedApart, Selected
  <2> QED
    BY <2>3, <2>4, <2>5 DEF SelectionInv
<1>4. CASE Creatives
  <2>1. /\ stage = "creatives" /\ stage' = "build" /\ creatives' = picks
        /\ UNCHANGED <<consumer, picks, chosen, rejected>>
    BY <1>4 DEF Creatives, profile, selection
  <2>2. SelectionTyped' /\ OnePickEach' /\ CreativesArePicks'
    BY <2>1 DEF SelectionInv, SelectionTyped, OnePickEach, CreativesArePicks
  <2>3. PicksBounded'
    BY <2>1 DEF SelectionInv, PicksBounded
  <2>4. RejectedApart'
    BY <2>1 DEF SelectionInv, RejectedApart, Selected
  <2> QED
    BY <2>2, <2>3, <2>4 DEF SelectionInv
<1>5. CASE StageFails \/ CallFit \/ CallPersonas \/ EndRejections
  BY <1>5, FrameSelectionInv DEF StageFails, CallFit, CallPersonas, EndRejections, profile, selection
<1>6. CASE EndVerdicts \/ Build
  BY <1>6, FrameSelectionInv DEF EndVerdicts, Build, profile, selection
<1>7. CASE Profile
  BY <1>7, FrameSelectionInv DEF Profile, selection
<1>8. CASE Score
  BY <1>8, FrameSelectionInv DEF Score, AfterScoring, profile, selection
<1>9. CASE \E v \in [pub : Publishers \cup Strangers, verdict : Verdicts, rank : Ranks] :
              TakeVerdict(v)
  BY <1>9, FrameSelectionInv DEF TakeVerdict, profile, selection
<1>10. CASE UNCHANGED vars
  BY <1>10, FrameSelectionInv DEF vars, profile, selection
<1> QED
  BY <1>1, <1>2, <1>3, <1>4, <1>5, <1>6, <1>7, <1>8, <1>9, <1>10 DEF Next

---------------------------------------------------------------------------
(***************************************************************************)
(* The theorems.                                                           *)
(***************************************************************************)

Inv == StageInv /\ VerdictInv /\ SelectionInv

\* The invariant holds of every run of the pipeline.
THEOREM CampaignInvariant == Spec => []Inv
<1>1. Init => Inv
  BY InitStageInv, InitVerdictInv, InitSelectionInv DEF Inv
<1>2. Inv /\ [Next]_vars => Inv'
  BY NextStageInv, NextVerdictInv, NextSelectionInv DEF Inv, SelectionInv
<1> QED
  BY <1>1, <1>2, PTL DEF Spec

\* What a run carries keeps its type: only ids of the catalogs reach the campaign,
\* whatever ids the model invents.
THEOREM CampaignTypeOK == Spec => []TypeOK
<1>1. Inv => TypeOK
  BY DEF Inv, StageInv, VerdictInv, VerdictsTyped, LedgerTyped, SelectionInv, SelectionTyped, TypeOK
<1> QED
  BY <1>1, CampaignInvariant, PTL

\* No answer of the model moves a gated publisher out of the excluded, in the
\* verdicts or in the ledger.
THEOREM GatesAreHard == Spec => []GatesHold
<1>1. Inv => GatesHold
  BY DEF Inv, VerdictInv, VerdictsTyped, GatedAreExcluded, LedgerGated, GatesHold, Positions
<1> QED
  BY <1>1, CampaignInvariant, PTL

\* Every publisher has exactly one verdict once stage 3 is over.
THEOREM LedgerCanBeAudited == Spec => []OneVerdictPerPublisher
<1>1. ASSUME Inv, stage \in Audited
      PROVE  /\ IsInjective([i \in DOMAIN verdicts |-> verdicts[i].pub])
             /\ Judged = Publishers
  <2>0. verdicts \in Seq(VerdictType)
    BY <1>1 DEF Inv, VerdictInv, VerdictsTyped
  <2>1. DOMAIN verdicts = Positions /\ \A i \in Positions : verdicts[i].pub \in Publishers
    <3>1. DOMAIN verdicts = Positions /\ \A i \in Positions : verdicts[i] \in VerdictType
      BY <2>0 DEF Positions
    <3> QED
      BY <3>1 DEF VerdictType
  <2>2. IsInjective([i \in DOMAIN verdicts |-> verdicts[i].pub])
    BY <1>1, <2>1 DEF Inv, VerdictInv, OneVerdictEach, IsInjective
  <2>3. Judged \subseteq Publishers
    BY <2>1 DEF Judged
  <2>4. Publishers \subseteq Judged
    BY <1>1 DEF Inv, VerdictInv, EveryoneJudged
  <2> QED
    BY <2>2, <2>3, <2>4
<1>2. Inv => OneVerdictPerPublisher
  BY <1>1 DEF OneVerdictPerPublisher, Audited
<1> QED
  BY <1>2, CampaignInvariant, PTL

\* A campaign for a consumer advertiser has as many creatives as it should, each
\* for a persona of its own.
THEOREM CreativesAreBounded == Spec => []CreativesWithinBounds
<1>1. ASSUME Inv, status \in {"ready", "needs_clarification"}
      PROVE  /\ Len(creatives) \in MinPersonas .. MaxPersonas
             /\ IsInjective([i \in DOMAIN creatives |-> creatives[i].persona])
  <2>1. consumer /\ stage = "built"
    BY <1>1 DEF Inv, StageInv, Unbuilt
  <2>2. Len(creatives) >= MinPersonas
    BY <1>1, <2>1 DEF Inv, SelectionInv, PicksBounded, Assembling
  <2>3. creatives = << >> \/ creatives = picks
    BY <1>1 DEF Inv, SelectionInv, CreativesArePicks
  <2>4. Len(creatives) \in Nat /\ Len(creatives) <= MaxPersonas
    BY <1>1, <2>3, CountsAssumption DEF Inv, SelectionInv, SelectionTyped, PicksBounded
  <2>5. \A i, j \in 1 .. Len(creatives) :
            creatives[i].persona = creatives[j].persona => i = j
    BY <1>1, <2>3 DEF Inv, SelectionInv, OnePickEach
  <2>6. DOMAIN creatives = 1 .. Len(creatives)
    BY <1>1 DEF Inv, SelectionInv, SelectionTyped
  <2>7. IsInjective([i \in DOMAIN creatives |-> creatives[i].persona])
    BY <2>5, <2>6 DEF IsInjective
  <2> QED
    BY <2>2, <2>4, <2>7, CountsAssumption
<1>2. Inv => CreativesWithinBounds
  BY <1>1 DEF CreativesWithinBounds
<1> QED
  BY <1>2, CampaignInvariant, PTL

\* No persona is both selected and rejected.
THEOREM SelectedStayUnrejected == Spec => []SelectedAreNotRejected
<1>1. Inv => SelectedAreNotRejected
  BY DEF Inv, SelectionInv, RejectedApart, SelectedAreNotRejected
<1> QED
  BY <1>1, CampaignInvariant, PTL

\* Refusing an advertiser costs one call.
THEOREM RefusalIsCheap == Spec => []RefusalCostsOneCall
<1>1. Inv => RefusalCostsOneCall
  BY DEF Inv, StageInv, Assembling, RefusalCostsOneCall
<1> QED
  BY <1>1, CampaignInvariant, PTL

---------------------------------------------------------------------------
(***************************************************************************)
(* The cost of a run.                                                      *)
(***************************************************************************)

\* The calls a run has paid for when it is at a stage.
CallsCounted ==
    /\ stage = "profile" => calls = 0
    /\ stage \in {"score", "fit"} => calls = 1
    /\ stage \in {"verdicts", "personas"} => calls = 2
    /\ stage \in {"picks", "rejections", "creatives"} => calls = 3
    /\ stage \in Assembling => calls = IF consumer THEN 3 + Len(creatives) ELSE 1

\* Every call is answered once, whatever the answer says.
LEMMA NextCallsCounted ==
    CallsCounted /\ StageInv /\ SelectionTyped /\ [Next]_vars => CallsCounted'
<1> SUFFICES ASSUME CallsCounted, StageInv, SelectionTyped, [Next]_vars PROVE CallsCounted'
  OBVIOUS
<1> USE DEF CallsCounted, Assembling
<1>1. CASE StageFails
  BY <1>1 DEF StageFails
<1>2. CASE Profile \/ CallFit \/ CallPersonas
  BY <1>2 DEF Profile, CallFit, CallPersonas
<1>3. CASE Score
  BY <1>3 DEF Score, AfterScoring, profile, StageInv
<1>4. CASE EndVerdicts \/ EndPicks \/ EndRejections
  BY <1>4 DEF EndVerdicts, EndPicks, EndRejections
<1>5. CASE UNCHANGED <<stage, profile, creatives, calls>>
  BY <1>5 DEF profile
<1>6. CASE Creatives
  <2>1. consumer /\ consumer' = consumer /\ creatives' = picks /\ calls' = 3 + Len(picks)
    BY <1>6 DEF Creatives, StageInv, Judging, profile
  <2>2. stage' = "build" /\ Len(picks) \in Nat
    BY <1>6 DEF Creatives, SelectionTyped
  <2> QED
    BY <2>1, <2>2
<1>7. CASE Build
  BY <1>7 DEF Build, profile
<1> QED
  BY <1>1, <1>2, <1>3, <1>4, <1>5, <1>6, <1>7 DEF Next, TakeVerdict, TakePick, TakeRejection, vars

\* A campaign costs the three calls that profile, judge and select, and one for each
\* of the creatives it carries; none is written for an advertiser it refuses
\* (run.go:39-80).
CampaignCosts ==
    status # Unbuilt =>
        calls = IF consumer THEN 3 + Len(creatives) ELSE 1

\* With CreativesAreBounded: between 3 + MinPersonas and 3 + MaxPersonas calls, whatever
\* the model repeats, invents or leaves out, retries and repairs of a call apart.
THEOREM CampaignsCost ==
    Spec => [](/\ CampaignCosts
               /\ status \in {"ready", "needs_clarification"} =>
                    calls \in 3 + MinPersonas .. 3 + MaxPersonas)
<1>1. Init => CallsCounted
  BY DEF Init, CallsCounted, Assembling
<1>2. Inv /\ CallsCounted /\ [Next]_vars => CallsCounted'
  BY NextCallsCounted DEF Inv, SelectionInv
<1>3. ASSUME Inv, CallsCounted, status # Unbuilt
      PROVE  calls = IF consumer THEN 3 + Len(creatives) ELSE 1
  BY <1>3 DEF Inv, StageInv, CallsCounted, Assembling
<1>4. ASSUME Inv, CallsCounted, CreativesWithinBounds, status \in {"ready", "needs_clarification"}
      PROVE  calls \in 3 + MinPersonas .. 3 + MaxPersonas
  <2>1. consumer /\ status # Unbuilt
    BY <1>4 DEF Inv, StageInv, Unbuilt
  <2>2. calls = 3 + Len(creatives) /\ Len(creatives) \in MinPersonas .. MaxPersonas
    BY <1>3, <1>4, <2>1 DEF CreativesWithinBounds
  <2> QED
    BY <2>2, CountsAssumption
<1>5. Inv /\ CallsCounted /\ CreativesWithinBounds =>
          /\ CampaignCosts
          /\ status \in {"ready", "needs_clarification"} =>
                calls \in 3 + MinPersonas .. 3 + MaxPersonas
  BY <1>3, <1>4 DEF CampaignCosts
<1> QED
  BY <1>1, <1>2, <1>5, CampaignInvariant, CreativesAreBounded, PTL DEF Spec
=============================================================================
