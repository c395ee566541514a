---------------------------- MODULE MeasureProofs ----------------------------
(***************************************************************************)
(* Theorems about what disco drafts, checks and measures, for every        *)
(* catalog, every answer of a model, every list of briefs and any number   *)
(* of processes.                                                           *)
(***************************************************************************)
EXTENDS DiscoProofs, LoopTheorems

\* What may be drafted by p: campaigns of the briefs it was given.
BriefLines(p) == {line \in ToSet(Run(p).lines) : line.kind = "brief"}
Possible(p) == UNION {Campaigns(line.inputs) : line \in BriefLines(p)}

DraftsOK(p) ==
    /\ drafts[p] \in Seq(Possible(p) \cup {NoCampaign})
    /\ Len(drafts[p]) <= Len(Briefs(p))
    /\ drafts[p] # << >> => Loads
    /\ pc[p] = "draft" => Loads /\ LinesParse(p) /\ Run(p).command \in Drafters
    /\ Run(p).command = "eval" => IsSeq(failures[p]) /\ Len(failures[p]) = Len(drafts[p])
    /\ Run(p).command # "eval" => drafts[p] \in Seq(Possible(p))

\* Of what a process has drafted.
DraftsInv ==
    /\ work \in Workloads
    /\ DOMAIN pc = Procs /\ DOMAIN drafts = Procs /\ DOMAIN failures = Procs
    /\ \A p \in Procs : DraftsOK(p)

---------------------------------------------------------------------------
(***************************************************************************)
(* Sequences.                                                              *)
(***************************************************************************)

\* A sequence is one of its own elements; so is what Append makes of it.
LEMMA AppendIsSeq ==
    ASSUME NEW s, IsSeq(s), NEW x
    PROVE  IsSeq(Append(s, x)) /\ Len(Append(s, x)) = Len(s) + 1
<1> DEFINE X == ToSet(s) \cup {x}
           t == Append(s, x)
<1>1. s \in Seq(X)
  BY DEF IsSeq
<1>2. t \in Seq(X) /\ Len(t) = Len(s) + 1
  <2> HIDE DEF X
  <2>1. x \in X
    BY DEF X
  <2>2. QED
    BY <1>1, <2>1, AppendProperties
<1>3. \A i \in 1 .. Len(t) : t[i] \in ToSet(t)
  BY <1>2 DEF ToSet
<1>4. t \in Seq(ToSet(t))
  <2>1. Len(t) \in Nat /\ DOMAIN t = 1 .. Len(t)
    BY <1>2, LenProperties
  <2>2. t \in [1 .. Len(t) -> ToSet(t)]
    <3>1. t = [i \in 1 .. Len(t) |-> t[i]]
      BY <1>2, <2>1, LenProperties
    <3> HIDE DEF t
    <3>2. QED
      BY <1>3, <2>1, <3>1
  <2>3. QED
    BY <2>1, <2>2, SeqDef
<1>5. QED
  BY <1>2, <1>4 DEF IsSeq

---------------------------------------------------------------------------
(***************************************************************************)
(* What has been drafted was drafted from what was asked for.              *)
(***************************************************************************)

\* What may be drafted depends on the workload only.
LEMMA CampaignsStay ==
    ASSUME UNCHANGED work
    PROVE  /\ Pubs' = Pubs /\ Personas' = Personas /\ PersonaIDs' = PersonaIDs
           /\ \A inputs : Campaigns(inputs)' = Campaigns(inputs)
<1>1. Pubs' = Pubs /\ Personas' = Personas /\ PersonaIDs' = PersonaIDs
  BY DEF Pubs, Personas, PersonaIDs
<1>2. \A id : Persona(id)' = Persona(id)
  BY <1>1 DEF Persona
<1>3. \A in : Creatives(in)' = Creatives(in)
  BY <1>2 DEF Creatives
<1>4. \A in : Ledger(in)' = Ledger(in)
  BY <1>1 DEF Ledger
<1>5. \A in : Allocations(in)' = Allocations(in)
  BY <1>1 DEF Allocations, Candidates
<1>6. \A allocated : Prices(allocated)' = Prices(allocated)
  BY <1>1 DEF Prices
<1>7. \A q, allocated : Bid(q, allocated)' = Bid(q, allocated)
  BY <1>6 DEF Bid
<1>8. \A in, allocated : Targeting(in, allocated)' = Targeting(in, allocated)
  BY <1>1 DEF Targeting
<1>9. \A in : Refusal(in)' = Refusal(in)
  BY <1>4 DEF Refusal
<1>10. \A in, allocated : Build(in, allocated)' = Build(in, allocated)
  BY <1>3, <1>4, <1>7, <1>8, <1>9 DEF Build
<1>11. \A inputs : Campaigns(inputs)' = Campaigns(inputs)
  BY <1>5, <1>10 DEF Campaigns
<1>12. QED
  BY <1>1, <1>11

\* What a process is to do, and with which inputs, does not change either.
LEMMA BriefsStay ==
    ASSUME UNCHANGED work
    PROVE  /\ Loads' = Loads /\ Procs' = Procs
           /\ \A p : /\ Run(p)' = Run(p) /\ Briefs(p)' = Briefs(p)
                     /\ Possible(p)' = Possible(p) /\ LinesParse(p)' = LinesParse(p)
<1>1. Procs' = Procs /\ \A p : Run(p)' = Run(p)
  BY WorkStays
<1>2. Loads' = Loads
  BY CampaignsStay DEF Loads
<1>3. \A p : Briefs(p)' = Briefs(p)
  BY <1>1 DEF Briefs
<1>4. \A p : BriefLines(p)' = BriefLines(p)
  BY <1>1 DEF BriefLines
<1>5. \A p : Possible(p)' = Possible(p)
  BY <1>4, CampaignsStay DEF Possible
<1>6. \A p : LinesParse(p)' = LinesParse(p)
  BY <1>1 DEF LinesParse
<1>7. QED
  BY <1>1, <1>2, <1>3, <1>5, <1>6

\* No process drafts while nobody appends to a draft or starts to draft.
LEMMA DraftsStay ==
    ASSUME DraftsInv, UNCHANGED <<work, drafts, failures>>, DOMAIN pc' = Procs,
           \A p \in Procs : pc'[p] = "draft" =>
               \/ pc[p] = "draft"
               \/ Loads /\ LinesParse(p) /\ Run(p).command \in Drafters
    PROVE  DraftsInv'
<1>1. ASSUME NEW p \in Procs PROVE DraftsOK(p)'
  <2>1. DraftsOK(p)
    BY DEF DraftsInv
  <2>2. /\ Loads' = Loads /\ Run(p)' = Run(p) /\ Briefs(p)' = Briefs(p)
        /\ Possible(p)' = Possible(p) /\ LinesParse(p)' = LinesParse(p)
    BY BriefsStay
  <2>3. IsSeq(failures[p])' = IsSeq(failures[p])
    BY DEF IsSeq
  <2>4. QED
    BY <2>1, <2>2, <2>3 DEF DraftsOK
<1>2. QED
  BY <1>1, BriefsStay DEF DraftsInv

\* A brief that is asked for is a line of the file, and not a comment.
LEMMA BriefsAreLines ==
    ASSUME DraftsInv, NEW p \in Procs, LinesParse(p)
    PROVE  Briefs(p) \in Seq(BriefLines(p)) /\ Len(Briefs(p)) <= Len(Run(p).lines)
<1>1. /\ IsSeq(Run(p).lines)
      /\ \A line \in ToSet(Run(p).lines) : line.kind \in {"brief", "ignored", "malformed"}
  <2>1. work \in Workloads
    BY DEF DraftsInv
  <2>2. QED
    BY <2>1, InputsAssumption DEF Run, Procs
<1> DEFINE lines == Run(p).lines
           skipped == {line \in ToSet(lines) :
                          line.kind = "ignored" \/ Run(p).only \notin {0, line.n}}
<1>2. lines \in Seq(ToSet(lines))
  BY <1>1 DEF IsSeq
<1>3. Briefs(p) = Outside(lines, skipped)
  BY DEF Briefs
<1>4. Briefs(p) \in Seq(ToSet(lines) \ skipped)
  <2> HIDE DEF lines, skipped
  <2> QED
    BY <1>2, <1>3, OutsideIsSeq
<1>5. ToSet(lines) \ skipped \subseteq BriefLines(p)
  <2> SUFFICES ASSUME NEW line \in ToSet(lines), line.kind # "ignored"
               PROVE  line.kind = "brief"
    BY DEF BriefLines
  <2>1. line.kind # "malformed"
    BY DEF LinesParse, ToSet
  <2>2. QED
    BY <1>1, <2>1
<1>6. Len(Briefs(p)) <= Len(lines)
  <2> HIDE DEF lines, skipped
  <2> QED
    BY <1>2, <1>3, OutsideIsShorter
<1>7. Briefs(p) \in Seq(BriefLines(p))
  <2> HIDE DEF lines, skipped
  <2> QED
    BY <1>4, <1>5
<1>8. QED
  BY <1>6, <1>7

\* A campaign is never the mark of a failed draft.
LEMMA CampaignsHaveAStatus ==
    ASSUME NEW inputs, NEW c \in Campaigns(inputs)
    PROVE  c # NoCampaign
<1>1. PICK in, allocated : c = Build(in, allocated)
  BY DEF Campaigns
<1>2. StatusFor(in.profile) \in {"no_recommendation", "needs_clarification", "ready"}
  BY DEF StatusFor
<1>3. c.status = StatusFor(in.profile)
  BY <1>1 DEF Build, Refusal
<1>4. QED
  BY <1>2, <1>3 DEF NoCampaign

\* Nothing is drafted at the start.
LEMMA DraftsStart == Init => DraftsInv
<1> SUFFICES ASSUME Init PROVE DraftsInv
  OBVIOUS
<1>1. /\ work \in Workloads
      /\ pc = [p \in Procs |-> "start"]
      /\ drafts = [p \in Procs |-> << >>]
      /\ failures = [p \in Procs |-> << >>]
  BY DEF Init, DraftInit
<1>2. ASSUME NEW p \in Procs PROVE DraftsOK(p)
  <2>1. pc[p] = "start" /\ drafts[p] = << >> /\ failures[p] = << >>
    BY <1>1
  <2>2. Len(Briefs(p)) \in Nat
    <3>1. Run(p).lines \in Seq(ToSet(Run(p).lines))
      BY <1>1, InputsAssumption DEF Run, Procs, IsSeq
    <3>2. QED
      BY <3>1, OutsideIsShorter DEF Briefs
  <2>3. IsSeq(failures[p])
    BY <2>1 DEF IsSeq
  <2>4. Len(drafts[p]) = 0 /\ Len(failures[p]) = 0
    BY <2>1
  <2>5. drafts[p] \in Seq(Possible(p)) /\ drafts[p] \in Seq(Possible(p) \cup {NoCampaign})
    BY <2>1
  <2>6. QED
    BY <2>1, <2>2, <2>3, <2>4, <2>5 DEF DraftsOK
<1>3. QED
  BY <1>1, <1>2 DEF DraftsInv

\* A process that drafts appends a campaign of its next brief, or the mark of a failure.
LEMMA DraftsGrow ==
    ASSUME DraftsInv, NEW p \in Procs, NEW c, UNCHANGED <<work, pc>>, pc[p] = "draft",
           Len(drafts[p]) < Len(Briefs(p)),
           drafts' = [drafts EXCEPT ![p] = Append(@, c)],
           \/ c \in Campaigns(Briefs(p)[Len(drafts[p]) + 1].inputs)
           \/ c = NoCampaign /\ Run(p).command = "eval",
           IF Run(p).command = "eval"
           THEN \E found : failures' = [failures EXCEPT ![p] = Append(@, found)]
           ELSE UNCHANGED failures
    PROVE  DraftsInv'
<1>1. DraftsOK(p) /\ LinesParse(p) /\ Loads
  BY DEF DraftsInv, DraftsOK
<1>2. c \in Possible(p) \cup {NoCampaign} /\ (Run(p).command # "eval" => c \in Possible(p))
  <2>1. Briefs(p) \in Seq(BriefLines(p))
    BY <1>1, BriefsAreLines
  <2>2. Len(drafts[p]) + 1 \in 1 .. Len(Briefs(p))
    <3>1. Len(drafts[p]) \in Nat /\ Len(Briefs(p)) \in Nat
      BY <1>1, <2>1, LenProperties DEF DraftsOK
    <3>2. QED
      BY <3>1
  <2>3. Briefs(p)[Len(drafts[p]) + 1] \in BriefLines(p)
    BY <2>1, <2>2, ElementOfSeq
  <2>4. QED
    BY <2>3 DEF Possible
<1>3. ASSUME NEW q \in Procs PROVE DraftsOK(q)'
  <2>1. DraftsOK(q)
    BY DEF DraftsInv
  <2>2. /\ Loads' = Loads /\ Run(q)' = Run(q) /\ Briefs(q)' = Briefs(q)
        /\ Possible(q)' = Possible(q) /\ LinesParse(q)' = LinesParse(q)
    BY BriefsStay
  <2>3. DOMAIN drafts = Procs /\ DOMAIN failures = Procs
    BY DEF DraftsInv
  <2>4. CASE q # p
    <3>1. drafts'[q] = drafts[q] /\ failures'[q] = failures[q]
      BY <2>3, <2>4
    <3>2. IsSeq(failures[q])' = IsSeq(failures[q])
      BY <3>1 DEF IsSeq
    <3>3. QED
      BY <2>1, <2>2, <3>1, <3>2 DEF DraftsOK
  <2>5. CASE q = p
    <3>1. drafts'[p] = Append(drafts[p], c)
      BY <2>3
    <3>2. /\ drafts'[p] \in Seq(Possible(p) \cup {NoCampaign})
          /\ Len(drafts'[p]) = Len(drafts[p]) + 1
          /\ Run(p).command # "eval" => drafts'[p] \in Seq(Possible(p))
      <4>1. drafts[p] \in Seq(Possible(p) \cup {NoCampaign})
        BY <1>1 DEF DraftsOK
      <4>2. Run(p).command # "eval" => drafts[p] \in Seq(Possible(p))
        BY <1>1 DEF DraftsOK
      <4>3. QED
        BY <1>2, <3>1, <4>1, <4>2, AppendProperties
    <3>3. Len(drafts'[p]) <= Len(Briefs(p))
      <4>1. Len(drafts[p]) \in Nat /\ Len(Briefs(p)) \in Nat
        BY <1>1, BriefsAreLines, LenProperties DEF DraftsOK
      <4>2. QED
        BY <3>2, <4>1
    <3>4. Run(p).command = "eval" =>
              IsSeq(failures'[p]) /\ Len(failures'[p]) = Len(drafts'[p])
      <4> SUFFICES ASSUME Run(p).command = "eval"
                   PROVE  IsSeq(failures'[p]) /\ Len(failures'[p]) = Len(drafts'[p])
        OBVIOUS
      <4>1. PICK found : failures'[p] = Append(failures[p], found)
        BY <2>3
      <4>2. IsSeq(failures[p]) /\ Len(failures[p]) = Len(drafts[p])
        BY <1>1 DEF DraftsOK
      <4>3. QED
        BY <3>2, <4>1, <4>2, AppendIsSeq
    <3>5. IsSeq(failures[p])' = IsSeq(failures'[p])
      BY DEF IsSeq
    <3>6. QED
      BY <1>1, <2>2, <2>5, <3>2, <3>3, <3>4, <3>5 DEF DraftsOK
  <2>6. QED
    BY <2>4, <2>5
<1>4. QED
  BY <1>3, BriefsStay DEF DraftsInv

\* Campaigns come from one place: the pipeline, applied to the input of a brief of the
\* run. A step that adds anything else to the drafts adds no campaign.
LEMMA DraftsSteps == DraftsInv /\ [Next]_vars => DraftsInv'
<1> SUFFICES ASSUME DraftsInv, [Next]_vars PROVE DraftsInv'
  OBVIOUS
<1>0. DOMAIN pc = Procs
  BY DEF DraftsInv
<1>1. CASE UNCHANGED vars
  <2>1. UNCHANGED <<work, pc, drafts, failures>>
    BY <1>1 DEF vars
  <2>2. DOMAIN pc' = Procs
    BY <1>0, <2>1
  <2>3. QED
    BY <2>1, <2>2, DraftsStay
<1>2. ASSUME NEW p \in Procs, Drafts(p) PROVE DraftsInv'
  <2>1. CASE Start(p)
    <3>1. PICK l : /\ pc' = [pc EXCEPT ![p] = l]
                   /\ (l = "draft" => Loads /\ LinesParse(p) /\ Run(p).command \in Drafters)
      <4> DEFINE bad == \/ Run(p).command # "metrics" /\ ~Loads
                        \/ Run(p).command \in {"eval", "measure"} /\ ~LinesParse(p)
                        \/ Run(p).command = "eval" /\ Run(p).only # 0 /\ Briefs(p) = << >>
                        \/ Run(p).command = "run" /\ Briefs(p) = << >>
                 l == IF bad THEN "error"
                      ELSE IF Run(p).command \notin Drafters THEN "bind" ELSE "draft"
      <4>1. pc' = [pc EXCEPT ![p] = l]
        BY <2>1 DEF Start, Goto
      <4>2. ASSUME l = "draft" PROVE Loads /\ LinesParse(p) /\ Run(p).command \in Drafters
        <5>1. ~bad /\ Run(p).command \in Drafters
          BY <4>2
        <5>2. Loads
          BY <5>1 DEF Drafters
        <5>3. LinesParse(p)
          <6>1. CASE Run(p).command \in {"eval", "measure"}
            BY <5>1, <6>1
          <6>2. CASE Run(p).command = "run"
            <7>1. work \in Workloads
              BY DEF DraftsInv
            <7>2. \A line \in ToSet(Run(p).lines) : line.kind = "brief"
              BY <6>2, <7>1, InputsAssumption DEF Run, Procs
            <7>3. QED
              BY <7>2 DEF LinesParse, ToSet
          <6>3. QED
            BY <5>1, <6>1, <6>2 DEF Drafters
        <5>4. QED
          BY <5>1, <5>2, <5>3
      <4>3. QED
        BY <4>1, <4>2
    <3>2. UNCHANGED <<work, drafts, failures>>
      BY <2>1 DEF Start
    <3>3. QED
      BY <1>0, <3>1, <3>2, DraftsStay
  <2>2. CASE Draft(p)
    <3>1. PICK c \in Campaigns(Briefs(p)[Len(drafts[p]) + 1].inputs) :
              /\ drafts' = [drafts EXCEPT ![p] = Append(@, c)]
              /\ failures' = IF Run(p).command = "eval"
                             THEN [failures EXCEPT ![p] =
                                      Append(@, Check(Briefs(p)[Len(drafts[p]) + 1], c))]
                             ELSE failures
      BY <2>2 DEF Draft
    <3>2. UNCHANGED <<work, pc>> /\ pc[p] = "draft" /\ Len(drafts[p]) < Len(Briefs(p))
      BY <2>2 DEF Draft
    <3>3. QED
      BY <3>1, <3>2, DraftsGrow
  <2>3. CASE DraftFails(p)
    <3>1. UNCHANGED work /\ pc[p] = "draft" /\ Len(drafts[p]) < Len(Briefs(p))
      BY <2>3 DEF DraftFails
    <3>2. CASE Run(p).command = "eval"
      <4>1. /\ drafts' = [drafts EXCEPT ![p] = Append(@, NoCampaign)]
            /\ failures' = [failures EXCEPT ![p] = Append(@, {"error"})]
            /\ UNCHANGED pc
        BY <2>3, <3>2 DEF DraftFails
      <4>2. QED
        BY <3>1, <3>2, <4>1, DraftsGrow
    <3>3. CASE Run(p).command # "eval"
      <4>1. pc' = [pc EXCEPT ![p] = "error"] /\ UNCHANGED <<drafts, failures>>
        BY <2>3, <3>3 DEF DraftFails, Goto
      <4>2. QED
        BY <1>0, <3>1, <4>1, DraftsStay
    <3>4. QED
      BY <3>2, <3>3
  <2>4. CASE EndDrafts(p)
    <3>1. PICK l \in {"judge", "ok", "error"} : pc' = [pc EXCEPT ![p] = l]
      BY <2>4 DEF EndDrafts, Goto
    <3>2. UNCHANGED <<work, drafts, failures>>
      BY <2>4 DEF EndDrafts
    <3>3. QED
      BY <1>0, <3>1, <3>2, DraftsStay
  <2>5. QED
    BY <1>2, <2>1, <2>2, <2>3, <2>4 DEF Drafts
<1>3. ASSUME NEW p \in Procs, Judges(p) PROVE DraftsInv'
  <2>1. UNCHANGED <<work, drafts, failures>>
    BY <1>3 DEF Judges, SkipCampaign, JudgeReal, JudgeControl, JudgeUnrecorded, TakeReal,
       TakeControl, EndReal, EndControl, JudgeStep, JudgeFails, EndJudging
  <2>2. UNCHANGED pc \/ \E l \in {"create", "error"} : pc' = [pc EXCEPT ![p] = l]
    BY <1>3 DEF Judges, SkipCampaign, JudgeReal, JudgeControl, JudgeUnrecorded, TakeReal,
       TakeControl, EndReal, EndControl, JudgeStep, JudgeFails, EndJudging, Goto
  <2>3. QED
    BY <1>0, <2>1, <2>2, DraftsStay
<1>4. ASSUME NEW p \in Procs, Writes(p) PROVE DraftsInv'
  <2>1. UNCHANGED <<work, drafts, failures>>
    BY <1>4 DEF Writes, CreateReport, CreateFails, WriteBlock, CloseReport, AbandonReport
  <2>2. \E l \in Labels \ {"draft"} : pc' = [pc EXCEPT ![p] = l]
    BY <1>4 DEF Writes, CreateReport, CreateFails, WriteBlock, CloseReport, AbandonReport, Goto,
       Labels
  <2>3. QED
    BY <1>0, <2>1, <2>2, DraftsStay
<1>5. ASSUME NEW p \in Procs, Reads(p) PROVE DraftsInv'
  <2>1. UNCHANGED <<work, drafts, failures>>
    BY <1>5 DEF Reads, OpenLatest, OpenComparison, OpenBaseline, ReadHead, ReadTail, EndMeasure
  <2>2. UNCHANGED pc \/ pc' = [pc EXCEPT ![p] = "ok"]
    BY <1>5 DEF Reads, OpenLatest, OpenComparison, OpenBaseline, ReadHead, ReadTail, EndMeasure,
       Goto
  <2>3. QED
    BY <1>0, <2>1, <2>2, DraftsStay
<1>6. ASSUME NEW p \in Procs, Serves(p) PROVE DraftsInv'
  <2>1. UNCHANGED <<work, drafts, failures>>
    BY <1>6 DEF Serves, Bind, Fallback, HandleRun, StopServer
  <2>2. \/ UNCHANGED pc
        \/ \E l \in {"serving", "fallback", "error", "killed"} : pc' = [pc EXCEPT ![p] = l]
    BY <1>6 DEF Serves, Bind, Fallback, HandleRun, StopServer, Goto
  <2>3. QED
    BY <1>0, <2>1, <2>2, DraftsStay
<1>7. ASSUME NEW port \in Port, Neighbour(port) PROVE DraftsInv'
  <2>1. UNCHANGED <<work, pc, drafts, failures>>
    BY <1>7 DEF Neighbour
  <2>2. DOMAIN pc' = Procs
    BY <1>0, <2>1
  <2>3. QED
    BY <2>1, <2>2, DraftsStay
<1>8. QED
  BY <1>1, <1>2, <1>3, <1>4, <1>5, <1>6, <1>7 DEF Next

\* Every campaign of a process comes of an answer to one of its briefs, and eval knows
\* of each brief what became of it.
THEOREM DraftsComeFromBriefs == Spec => []DraftsInv
BY DraftsStart, DraftsSteps, PTL DEF Spec

\* The catalog at hand is one.
LEMMA CatalogIsOne ==
    ASSUME DraftsInv
    PROVE  IsCatalog(work.catalog) /\ IsSeq(Pubs) /\ IsSeq(Personas)
BY InputsAssumption DEF DraftsInv, IsCatalog, Pubs, Personas

\* Where a campaign comes from.
LEMMA DraftedIsBuilt ==
    ASSUME DraftsInv, NEW p \in Procs, NEW c \in Drafted(p)
    PROVE  /\ Loads
           /\ \E in, allocated : /\ IsInput(in, work.catalog)
                                 /\ allocated \in Allocations(in) /\ c = Build(in, allocated)
<1>1. DraftsOK(p)
  BY DEF DraftsInv
<1>2. PICK i \in DOMAIN drafts[p] : c = drafts[p][i]
  BY DEF Drafted, ToSet
<1>3. c # NoCampaign
  BY DEF Drafted
<1>4. c \in Possible(p) /\ drafts[p] # << >>
  <2>1. drafts[p] \in Seq(Possible(p) \cup {NoCampaign})
    BY <1>1 DEF DraftsOK
  <2>2. i \in 1 .. Len(drafts[p])
    BY <1>2, <2>1, LenProperties
  <2>3. drafts[p][i] \in Possible(p) \cup {NoCampaign}
    BY <2>1, <2>2, ElementOfSeq
  <2>4. Len(drafts[p]) # 0
    BY <2>1, <2>2, LenProperties
  <2>5. QED
    BY <1>2, <1>3, <2>3, <2>4
<1>5. PICK line \in BriefLines(p) : c \in Campaigns(line.inputs)
  BY <1>4 DEF Possible
<1>6. PICK in \in Inputs[line.inputs] : \E allocated \in Allocations(in) : c = Build(in, allocated)
  BY <1>5 DEF Campaigns
<1>7. IsInput(in, work.catalog)
  <2>1. line \in ToSet(Run(p).lines) /\ line.kind = "brief"
    BY <1>5 DEF BriefLines
  <2>2. work \in Workloads
    BY DEF DraftsInv
  <2>3. QED
    BY <2>1, <2>2, InputsAssumption DEF Run, Procs
<1>8. QED
  BY <1>1, <1>4, <1>6, <1>7 DEF DraftsOK

\* What every campaign has, refused or not.
LEMMA BuiltHas ==
    ASSUME NEW in, NEW allocated \in Allocations(in), NEW c, c = Build(in, allocated)
    PROVE  /\ c.profile = in.profile /\ c.ledger = Ledger(in)
           /\ c.status = StatusFor(in.profile)
           /\ c.allocated \subseteq Candidates(in)
           /\ IF c.status = "no_recommendation"
              THEN c.allocated = {} /\ c.creatives = << >>
              ELSE c.creatives = Creatives(in)
           /\ c.status # "ready" => c.clarifications # << >>
<1>1. allocated \subseteq Candidates(in)
  BY DEF Allocations
<1>2. StatusFor(in.profile) \in {"no_recommendation", "needs_clarification", "ready"}
  BY DEF StatusFor
<1>3. ClarificationsFor(in.profile) # << >> /\ <<"which consumer product">> # << >>
  BY DEF ClarificationsFor
<1>4. QED
  BY <1>1, <1>2, <1>3 DEF Build, Refusal

---------------------------------------------------------------------------
(***************************************************************************)
(* Gates.                                                                  *)
(***************************************************************************)

\* A gate excludes.
LEMMA GatesExclude ==
    ASSUME NEW in, NEW pub, Entry(in, pub).gate # GateNone
    PROVE  Entry(in, pub).verdict = "excluded"
BY DEF Entry, ApplyGate

\* A gate that is open to doubt is none: the sub-score that closed it is 0.
LEMMA GatesAreZeros ==
    ASSUME NEW in, NEW pub
    PROVE  LET e == Entry(in, pub)
           IN /\ e.sub = SubScoresOf(in.profile, pub) /\ e.gate = HardGate(in.profile, e.sub)
              /\ e.gate = CategoryMismatch => e.sub.Category = 0
              /\ e.gate = DemographicMismatch => e.sub.AgeOverlap = 0
BY DEF Entry, ScoreOne, HardGate, CategoryMismatch, DemographicMismatch, NotConsumer, GateNone

\* Whatever reason was written, one that gives the gate as its ground is borne out.
THEOREM GateReasonsAreBorneOut == Spec => []GateReasonsAreConsistent
<1>1. ASSUME DraftsInv PROVE GateReasonsAreConsistent
  <2> SUFFICES ASSUME NEW p \in Procs, NEW c \in Drafted(p), NEW i \in DOMAIN c.ledger,
                      NEW s \in {"Category", "AgeOverlap"},
                      \/ s = "Category" /\ c.ledger[i].gate = CategoryMismatch
                      \/ s = "AgeOverlap" /\ c.ledger[i].gate = DemographicMismatch
               PROVE  Disposition(c.ledger[i], s)
                        \in {"consistent", "concessive", "advertiser_term"}
    BY DEF GateReasonsAreConsistent, CategoryMismatch, DemographicMismatch
  <2>1. PICK in, allocated :
            IsInput(in, work.catalog) /\ allocated \in Allocations(in) /\ c = Build(in, allocated)
    BY <1>1, DraftedIsBuilt
  <2>2. i \in DOMAIN Pubs /\ c.ledger[i] = Entry(in, Pubs[i])
    <3>1. c.ledger = Ledger(in)
      BY <2>1, BuiltHas
    <3>2. QED
      BY <3>1 DEF Ledger
  <2>3. c.ledger[i].verdict = "excluded" /\ c.ledger[i].sub[s] = 0
    <3> DEFINE e == Entry(in, Pubs[i])
    <3>1. c.ledger[i] = e /\ e.gate # GateNone
      BY <2>2 DEF CategoryMismatch, DemographicMismatch, GateNone
    <3>2. e.verdict = "excluded"
      BY <3>1, GatesExclude
    <3>3. /\ e.gate = CategoryMismatch => e.sub.Category = 0
          /\ e.gate = DemographicMismatch => e.sub.AgeOverlap = 0
      BY GatesAreZeros
    <3>4. e.sub[s] = 0
      <4> HIDE DEF e
      <4>1. CASE s = "Category"
        BY <3>1, <3>3, <4>1 DEF CategoryMismatch, DemographicMismatch
      <4>2. CASE s = "AgeOverlap"
        BY <3>1, <3>3, <4>2 DEF CategoryMismatch, DemographicMismatch
      <4>3. QED
        BY <4>1, <4>2
    <3>5. QED
      BY <3>1, <3>2, <3>4
  <2>4. Hundredths(50) \in Nat
    BY UnitAssumption DEF Hundredths
  <2>5. Band("excluded", 0) = "consistent"
    BY <2>4 DEF Band
  <2>6. QED
    BY <2>3, <2>5 DEF Disposition
<1>2. QED
  BY DraftsComeFromBriefs, <1>1, PTL

---------------------------------------------------------------------------
(***************************************************************************)
(* The checks of disco eval.                                               *)
(***************************************************************************)

\* A sequence by another name.
LEMMA SameLength ==
    ASSUME NEW s, IsSeq(s), NEW t, DOMAIN t = DOMAIN s, t = [i \in DOMAIN t |-> t[i]]
    PROVE  Len(t) = Len(s) /\ DOMAIN t = 1 .. Len(s) /\ IsSeq(t)
<1>1. s \in Seq(ToSet(s))
  BY DEF IsSeq
<1>2. Len(s) \in Nat /\ DOMAIN s = 1 .. Len(s)
  BY <1>1, LenProperties
<1>3. \A i \in 1 .. Len(s) : t[i] \in ToSet(t)
  BY <1>2 DEF ToSet
<1>4. t \in [1 .. Len(s) -> ToSet(t)]
  BY <1>2, <1>3
<1>5. t \in Seq(ToSet(t))
  BY <1>2, <1>4, SeqDef
<1>6. QED
  BY <1>2, <1>4, <1>5, LenProperties DEF IsSeq

\* The ledger has every publisher once.
LEMMA LedgerPasses ==
    ASSUME DraftsInv, Loads, NEW in, NEW c, c.ledger = Ledger(in)
    PROVE  LedgerFailures(c) \subseteq {"no reason"}
<1> DEFINE ids == [i \in DOMAIN c.ledger |-> c.ledger[i].pub]
<1>1. \A pub : Entry(in, pub).pub = pub.id
  BY DEF Entry
<1>2. ids = IDsOf(Pubs)
  BY <1>1 DEF Ledger, IDsOf
<1>3. Len(c.ledger) = Len(Pubs)
  <2>1. IsSeq(Pubs)
    BY CatalogIsOne
  <2>2. DOMAIN c.ledger = DOMAIN Pubs /\ c.ledger = [i \in DOMAIN c.ledger |-> c.ledger[i]]
    BY DEF Ledger
  <2>3. QED
    BY <2>1, <2>2, SameLength
<1>4. IsInjective(ids) /\ ToSet(ids) \ ToSet(IDsOf(Pubs)) = {}
  BY <1>2 DEF Loads
<1>5. QED
  BY <1>3, <1>4 DEF LedgerFailures

\* What is kept of the levers of a creative is grounded.
LEMMA LeversPass ==
    ASSUME NEW claimed, IsSeq(claimed), NEW cr,
           cr.levers = GroundedIn(claimed, Persona(cr.persona).levers)
    PROVE  LeverFailures(cr) \subseteq {"no lever"}
<1> DEFINE words == {NormalizeLever(a) : a \in Persona(cr.persona).levers}
           foreign == {l \in ToSet(claimed) : NormalizeLever(l) \notin words}
<1>1. cr.levers \in Seq(ToSet(claimed) \ foreign)
  <2>1. claimed \in Seq(ToSet(claimed))
    BY DEF IsSeq
  <2>2. cr.levers = Outside(claimed, foreign)
    BY DEF GroundedIn
  <2> HIDE DEF foreign
  <2>3. QED
    BY <2>1, <2>2, OutsideIsSeq
<1>2. \A i \in DOMAIN cr.levers : NormalizeLever(cr.levers[i]) \in words
  <2> SUFFICES ASSUME NEW i \in DOMAIN cr.levers PROVE NormalizeLever(cr.levers[i]) \in words
    OBVIOUS
  <2>1. i \in 1 .. Len(cr.levers)
    <3> HIDE DEF foreign
    <3> QED
      BY <1>1, LenProperties
  <2>2. cr.levers[i] \in ToSet(claimed) \ foreign
    <3> HIDE DEF foreign
    <3> QED
      BY <1>1, <2>1, ElementOfSeq
  <2>3. QED
    BY <2>2
<1>3. QED
  BY <1>2 DEF LeverFailures

\* The cast passes, but for what the model left blank.
LEMMA CreativesPass ==
    ASSUME NEW in, IsInput(in, work.catalog), NEW c,
           \/ c.status = "no_recommendation" /\ c.creatives = << >>
           \/ c.creatives = Creatives(in)
    PROVE  CreativeFailures(c) \subseteq {"no lever", "no copy"}
<1> DEFINE ids == [i \in DOMAIN c.creatives |-> c.creatives[i].persona]
           known == {i \in DOMAIN ids : ids[i] \in PersonaIDs}
<1>1. CASE c.status = "no_recommendation" /\ c.creatives = << >>
  <2>1. DOMAIN ids = {} /\ known = {}
    BY <1>1
  <2>2. QED
    BY <1>1, <2>1 DEF CreativeFailures
<1>2. CASE c.creatives = Creatives(in)
  <2>1. DOMAIN ids = DOMAIN in.cast /\ \A i \in DOMAIN in.cast : ids[i] = in.cast[i].persona
    BY <1>2 DEF Creatives
  <2>2. known = DOMAIN ids
    <3>1. \A i \in DOMAIN in.cast : in.cast[i].persona \in PersonaIDs
      BY DEF IsInput, PersonaIDs, Personas
    <3>2. QED
      BY <2>1, <3>1
  <2>3. \A i, j \in known : ids[i] = ids[j] => i = j
    BY <2>1, <2>2 DEF IsInput
  <2>4. Len(ids) \in MinPersonas .. MaxPersonas
    <3>1. IsSeq(in.cast) /\ Len(in.cast) \in MinPersonas .. MaxPersonas
      BY DEF IsInput
    <3>2. ids = [i \in DOMAIN ids |-> ids[i]]
      OBVIOUS
    <3>3. Len(ids) = Len(in.cast)
      <4> HIDE DEF ids
      <4> QED
        BY <2>1, <3>1, <3>2, SameLength
    <3>4. QED
      BY <3>1, <3>3
  <2>5. \A i \in known : LeverFailures(c.creatives[i]) \subseteq {"no lever"}
    <3> SUFFICES ASSUME NEW i \in DOMAIN in.cast
                 PROVE  LeverFailures(c.creatives[i]) \subseteq {"no lever"}
      BY <2>1, <2>2
    <3>1. /\ c.creatives[i].persona = in.cast[i].persona
          /\ c.creatives[i].levers =
                 GroundedIn(in.cast[i].levers, Persona(in.cast[i].persona).levers)
      BY <1>2 DEF Creatives
    <3>2. IsSeq(in.cast[i].levers)
      BY DEF IsInput
    <3>3. QED
      BY <3>1, <3>2, LeversPass
  <2>6. UNION {LeverFailures(c.creatives[i]) : i \in known} \subseteq {"no lever"}
    BY <2>5
  <2> DEFINE Fails(f) ==
        CASE f = "unknown persona" -> known # DOMAIN ids
          [] f = "two for one" -> \E i, j \in known : i # j /\ ids[i] = ids[j]
          [] f = "no copy" -> \E i \in known : c.creatives[i].blank
          [] f = "count" -> /\ c.status \in {"ready", "needs_clarification"}
                            /\ Len(ids) \notin MinPersonas .. MaxPersonas
  <2>7. ~Fails("unknown persona")
    BY <2>2
  <2>8. ~Fails("two for one")
    BY <2>3
  <2>9. ~Fails("count")
    BY <2>4
  <2>10. CreativeFailures(c) =
            {f \in {"unknown persona", "two for one", "no copy", "count"} : Fails(f)}
            \cup UNION {LeverFailures(c.creatives[i]) : i \in known}
    BY DEF CreativeFailures
  <2>11. QED
    <3> HIDE DEF Fails, known
    <3> QED
      BY <2>6, <2>7, <2>8, <2>9, <2>10
<1>3. QED
  BY <1>1, <1>2

\* Whatever is answered, only what the model left unsaid fails the checks of disco eval.
THEOREM OnlySilenceFails == Spec => []OnlyWordsFailTheChecks
<1>1. ASSUME DraftsInv PROVE OnlyWordsFailTheChecks
  <2> SUFFICES ASSUME NEW p \in Procs, NEW c \in Drafted(p)
               PROVE  /\ UniversalFailures(c) \subseteq {"no reason", "no lever", "no copy"}
                      /\ c.status # "ready" => c.clarifications # << >>
                      /\ c.status = "no_recommendation" =>
                             c.allocated = {} /\ c.creatives = << >>
    BY DEF OnlyWordsFailTheChecks
  <2>1. PICK in, allocated :
            IsInput(in, work.catalog) /\ allocated \in Allocations(in) /\ c = Build(in, allocated)
    BY <1>1, DraftedIsBuilt
  <2>2. /\ c.ledger = Ledger(in)
        /\ IF c.status = "no_recommendation" THEN c.allocated = {} /\ c.creatives = << >>
           ELSE c.creatives = Creatives(in)
        /\ c.status # "ready" => c.clarifications # << >>
    BY <2>1, BuiltHas
  <2>3. LedgerFailures(c) \subseteq {"no reason"}
    BY <1>1, <2>2, DraftedIsBuilt, LedgerPasses
  <2>4. CreativeFailures(c) \subseteq {"no lever", "no copy"}
    BY <2>1, <2>2, CreativesPass
  <2>5. QED
    BY <2>2, <2>3, <2>4 DEF UniversalFailures
<1>2. QED
  BY DraftsComeFromBriefs, <1>1, PTL

---------------------------------------------------------------------------
(***************************************************************************)
(* The sub-scores, as numbers.                                             *)
(***************************************************************************)

\* A quotient of a non-negative number is one, and it is no 0 if Unit has room for it.
LEMMA FractionIs ==
    ASSUME NEW n \in Int, NEW d \in Nat, d > 0
    PROVE  /\ Fraction(n, d) \in Int
           /\ n >= 0 => Fraction(n, d) \in Nat
           /\ n > 0 /\ d <= Unit => Fraction(n, d) > 0
           /\ n = 0 => Fraction(n, d) = 0
<1> DEFINE m == Unit * n
<1>1. m \in Int /\ (n >= 0 => m >= 0) /\ (n > 0 => m >= Unit) /\ (n = 0 => m = 0)
  BY UnitAssumption
<1> HIDE DEF m
<1>2. /\ m \div d \in Int
      /\ m >= 0 => m \div d >= 0
      /\ m >= d => m \div d >= 1
      /\ m = 0 => m \div d = 0
  BY <1>1
<1>3. Fraction(n, d) = m \div d
  BY DEF Fraction, m
<1>4. QED
  BY <1>1, <1>2, <1>3, UnitAssumption

\* Half a point and two fifths of one are something.
LEMMA PartsOfUnit ==
    /\ Neutral \in Nat /\ Neutral > 0
    /\ Unit \div 5 \in Nat /\ Unit \div 5 > 0
<1>1. Unit \in Nat /\ Unit >= 20
  <2>1. Unit \in Nat /\ Unit > 0 /\ Unit % 20 = 0
    BY UnitAssumption
  <2>2. Unit < 20 => Unit % 20 = Unit
    BY <2>1
  <2>3. QED
    BY <2>1, <2>2
<1>2. QED
  BY <1>1 DEF Neutral

\* Clamping brings a number into the unit interval, and only what is not positive to zero.
LEMMA ClampIs ==
    ASSUME NEW v \in Int
    PROVE  /\ Clamp(v) \in 0 .. Unit
           /\ Clamp(v) = 0 <=> v <= 0
BY UnitAssumption DEF Clamp, Greatest, Least

\* The overlap of two finite sets is a number.
LEMMA JaccardIsNat ==
    ASSUME NEW a, IsFiniteSet(a), NEW b, IsFiniteSet(b)
    PROVE  Jaccard(a, b) \in Nat
<1>1. CASE a = {} \/ b = {}
  BY <1>1 DEF Jaccard
<1>2. CASE a # {} /\ b # {}
  <2>1. IsFiniteSet(a \cap b) /\ IsFiniteSet(a \cup b)
    BY FS_Subset, FS_Union
  <2>2. Cardinality(a \cap b) \in Nat
    BY <2>1, FS_CardinalityType
  <2>3. Cardinality(a \cup b) \in Nat /\ Cardinality(a \cup b) > 0
    <3>1. a \cup b # {}
      BY <1>2
    <3>2. QED
      BY <2>1, <3>1, FS_CardinalityType, FS_EmptySet
  <2>4. QED
    BY <1>2, <2>2, <2>3, FractionIs DEF Jaccard
<1>3. QED
  BY <1>1, <1>2

\* The category closes the gate exactly on a publisher that has nothing in common.
LEMMA CategoryIs ==
    ASSUME NEW q, IsFiniteSet(q.subs), NEW pub, IsFiniteSet(pub.subs)
    PROVE  /\ CategoryScore(q, pub) \in Int
           /\ CategoryScore(q, pub) # 0 <=>
                 \/ q.category = pub.category /\ q.category # NoCategory
                 \/ q.subs \cap pub.subs # {}
                 \/ {<<q.category, pub.category>>, <<pub.category, q.category>>}
                       \cap AdjacencyEdges # {}
<1>1. Jaccard(q.subs, pub.subs) \in Nat
  BY JaccardIsNat
<1>2. 2 * (Unit \div 5) + Jaccard(q.subs, pub.subs) \div 2 \in Nat \ {0}
  <2> DEFINE u == Unit \div 5
             j == Jaccard(q.subs, pub.subs)
  <2>1. u \in Nat /\ u > 0 /\ j \in Nat
    BY <1>1, PartsOfUnit
  <2> HIDE DEF u, j
  <2>2. 2 * u + j \div 2 \in Nat \ {0}
    BY <2>1
  <2>3. QED
    BY <2>2 DEF u, j
<1>3. Unit \in Nat \ {0} /\ Neutral \in Nat \ {0}
  BY UnitAssumption, PartsOfUnit
<1>4. IsAdjacent(q.category, pub.category) <=>
          {<<q.category, pub.category>>, <<pub.category, q.category>>} \cap AdjacencyEdges # {}
  BY DEF IsAdjacent
<1>5. QED
  BY <1>2, <1>3, <1>4 DEF CategoryScore

\* Two ranges have a year in common if the first to end does not end before the last to
\* begin.
LEMMA RangesMeet ==
    ASSUME NEW a \in Int, NEW b \in Int, NEW x \in Int, NEW y \in Int
    PROVE  (a .. b) \cap (x .. y) = {} <=> Least(b, y) < Greatest(a, x)
<1>1. CASE Least(b, y) < Greatest(a, x)
  <2>1. ASSUME NEW year \in a .. b, year \in x .. y PROVE FALSE
    BY <1>1, <2>1 DEF Greatest, Least
  <2>2. QED
    BY <1>1, <2>1
<1>2. CASE ~(Least(b, y) < Greatest(a, x))
  <2>1. Greatest(a, x) \in a .. b /\ Greatest(a, x) \in x .. y
    BY <1>2 DEF Greatest, Least
  <2>2. QED
    BY <1>2, <2>1
<1>3. QED
  BY <1>1, <1>2

\* The ages close it exactly on two stated ranges without a year in common.
LEMMA AgesAre ==
    ASSUME NEW q, q.ages \in Int \X Int, NEW pub, pub.ages \in Seq(Int),
           ParsesAsRange(pub.ages) => pub.ages[2] - pub.ages[1] < Unit
    PROVE  /\ AgeScore(q, pub) \in Int
           /\ AgeScore(q, pub) = 0 <=>
                 /\ ParsesAsRange(pub.ages) /\ q.ages # <<0, 0>>
                 /\ Years(q.ages) \cap Years(pub.ages) = {}
<1> DEFINE stated == ParsesAsRange(pub.ages) /\ q.ages # <<0, 0>>
<1>1. CASE ~stated
  <2>1. AgeScore(q, pub) = Neutral
    BY <1>1 DEF AgeScore
  <2>2. QED
    BY <1>1, <2>1, PartsOfUnit
<1>2. CASE stated
  <2>1. PICK a \in Int, b \in Int : q.ages[1] = a /\ q.ages[2] = b
    OBVIOUS
  <2>2. PICK x \in Int, y \in Int : pub.ages[1] = x /\ pub.ages[2] = y
    <3>1. Len(pub.ages) = 2
      BY <1>2 DEF ParsesAsRange
    <3>2. pub.ages[1] \in Int /\ pub.ages[2] \in Int
      BY <3>1, ElementOfSeq
    <3>3. QED
      BY <3>2
  <2>3. x <= y /\ y - x < Unit
    BY <1>2, <2>2 DEF ParsesAsRange
  <2> DEFINE lo == Greatest(a, x)
             hi == Least(b, y)
             narrower == Least(b - a, y - x) + 1
  <2>4. lo \in Int /\ hi \in Int /\ narrower \in Int /\ narrower <= Unit
    BY <2>3, UnitAssumption DEF Greatest, Least
  <2>5. Years(q.ages) = a .. b /\ Years(pub.ages) = x .. y
    BY <2>1, <2>2 DEF Years
  <2>6. (a .. b) \cap (x .. y) = {} <=> hi < lo
    BY RangesMeet
  <2>7. lo <= hi => narrower > 0
    BY DEF Greatest, Least
  <2>8. AgeScore(q, pub) = IF hi - lo + 1 <= 0 \/ narrower <= 0 THEN 0
                           ELSE Clamp(Fraction(hi - lo + 1, narrower))
    BY <1>2, <2>1, <2>2 DEF AgeScore
  <2> HIDE DEF lo, hi, narrower
  <2>9. CASE hi < lo
    <3>1. AgeScore(q, pub) = 0
      BY <2>4, <2>8, <2>9
    <3>2. Years(q.ages) \cap Years(pub.ages) = {}
      BY <2>5, <2>6, <2>9
    <3>3. QED
      BY <1>2, <3>1, <3>2
  <2>10. CASE lo <= hi
    <3>1. narrower \in Nat /\ narrower > 0 /\ hi - lo + 1 \in Int /\ hi - lo + 1 > 0
      BY <2>4, <2>7, <2>10
    <3>2. Fraction(hi - lo + 1, narrower) \in Int /\ Fraction(hi - lo + 1, narrower) > 0
      BY <2>4, <3>1, FractionIs
    <3>3. /\ AgeScore(q, pub) = Clamp(Fraction(hi - lo + 1, narrower))
      BY <2>8, <3>1
    <3>4. AgeScore(q, pub) \in Int /\ AgeScore(q, pub) # 0
      BY <3>2, <3>3, ClampIs
    <3>5. QED
      BY <2>4, <2>5, <2>6, <2>10, <3>4
  <2>11. QED
    BY <2>4, <2>9, <2>10
<1>3. QED
  BY <1>1, <1>2

\* A publisher of the catalog and a profile that can be scored.
LEMMA InputsAreProper ==
    ASSUME DraftsInv, NEW in, IsInput(in, work.catalog), NEW i \in DOMAIN Pubs
    PROVE  /\ IsFiniteSet(in.profile.subs) /\ in.profile.aov \in Int
           /\ in.profile.ages \in Int \X Int /\ IsSeq(in.profile.values)
           /\ IsFiniteSet(Pubs[i].subs) /\ Pubs[i].aov \in Int /\ Pubs[i].ages \in Seq(Int)
           /\ \A skew \in DOMAIN Pubs[i].split : Pubs[i].split[skew] \in Int
           /\ ParsesAsRange(Pubs[i].ages) => Pubs[i].ages[2] - Pubs[i].ages[1] < Unit
<1>1. Pubs[i] \in ToSet(work.catalog.pubs)
  BY DEF Pubs, ToSet
<1>2. IsCatalog(work.catalog)
  BY CatalogIsOne
<1>3. QED
  BY <1>1, <1>2 DEF IsCatalog, IsInput

\* The hard gate says what the two sub-scores it reads say.
LEMMA GateIs ==
    ASSUME NEW q, NEW sub
    PROVE  HardGate(q, sub) # GateNone <=> ~q.consumer \/ sub.Category = 0 \/ sub.AgeOverlap = 0
BY DEF HardGate, NotConsumer, CategoryMismatch, DemographicMismatch, GateNone

\* The gates of every campaign are what the records say, taken as sets.
THEOREM GatesFollowTheRecords == Spec => []GatesAreArithmetic
<1>1. ASSUME DraftsInv PROVE GatesAreArithmetic
  <2> SUFFICES ASSUME NEW p \in Procs, NEW c \in Drafted(p), NEW i \in DOMAIN c.ledger
               PROVE  LET q == c.profile
                          pub == Pubs[i]
                          related == \/ q.category = pub.category /\ q.category # NoCategory
                                     \/ q.subs \cap pub.subs # {}
                                     \/ {<<q.category, pub.category>>, <<pub.category, q.category>>}
                                           \cap AdjacencyEdges # {}
                          disjoint == /\ ParsesAsRange(pub.ages) /\ q.ages # <<0, 0>>
                                      /\ Years(q.ages) \cap Years(pub.ages) = {}
                      IN /\ c.ledger[i].gate # GateNone <=> ~q.consumer \/ ~related \/ disjoint
                         /\ c.ledger[i].gate # GateNone =>
                                c.ledger[i].verdict = "excluded" /\ i \notin c.allocated
    BY DEF GatesAreArithmetic
  <2> DEFINE q == c.profile
             pub == Pubs[i]
             related == \/ q.category = pub.category /\ q.category # NoCategory
                        \/ q.subs \cap pub.subs # {}
                        \/ {<<q.category, pub.category>>, <<pub.category, q.category>>}
                              \cap AdjacencyEdges # {}
             disjoint == /\ ParsesAsRange(pub.ages) /\ q.ages # <<0, 0>>
                         /\ Years(q.ages) \cap Years(pub.ages) = {}
  <2>1. PICK in, allocated :
            IsInput(in, work.catalog) /\ allocated \in Allocations(in) /\ c = Build(in, allocated)
    BY <1>1, DraftedIsBuilt
  <2>2. c.ledger = Ledger(in) /\ q = in.profile /\ c.allocated \subseteq Candidates(in)
    BY <2>1, BuiltHas
  <2>3. i \in DOMAIN Pubs /\ c.ledger[i] = Entry(in, pub)
    BY <2>2 DEF Ledger
  <2>4. /\ IsFiniteSet(q.subs) /\ q.ages \in Int \X Int
        /\ IsFiniteSet(pub.subs) /\ pub.ages \in Seq(Int)
        /\ ParsesAsRange(pub.ages) => pub.ages[2] - pub.ages[1] < Unit
    BY <1>1, <2>1, <2>2, <2>3, InputsAreProper
  <2>5. CategoryScore(q, pub) # 0 <=> related
    <3>1. IsFiniteSet(q.subs) /\ IsFiniteSet(pub.subs)
      BY <2>4
    <3> HIDE DEF q, pub
    <3>2. QED
      BY <3>1, CategoryIs
  <2>6. AgeScore(q, pub) = 0 <=> disjoint
    <3> HIDE DEF q, pub
    <3> QED
      BY <2>4, AgesAre
  <2>7. /\ Entry(in, pub).sub = SubScoresOf(q, pub)
        /\ Entry(in, pub).gate = HardGate(q, SubScoresOf(q, pub))
    BY <2>2, GatesAreZeros
  <2>8. /\ SubScoresOf(q, pub).Category = CategoryScore(q, pub)
        /\ SubScoresOf(q, pub).AgeOverlap = AgeScore(q, pub)
    BY DEF SubScoresOf
  <2>9. Entry(in, pub).gate # GateNone <=> ~q.consumer \/ ~related \/ disjoint
    <3> HIDE DEF q, pub, related, disjoint
    <3> QED
      BY <2>5, <2>6, <2>7, <2>8, GateIs
  <2>10. Entry(in, pub).gate # GateNone =>
            Entry(in, pub).verdict = "excluded" /\ i \notin c.allocated
    <3>1. i \in Candidates(in) => Entry(in, pub).gate = GateNone
      BY DEF Candidates
    <3>2. QED
      BY <2>2, <3>1, GatesExclude
  <2>11. QED
    BY <2>3, <2>9, <2>10
<1>2. QED
  BY DraftsComeFromBriefs, <1>1, PTL

---------------------------------------------------------------------------
(***************************************************************************)
(* The ablation.                                                           *)
(***************************************************************************)

\* What a function makes of a finite set is no larger.
LEMMA ImageIsFinite ==
    ASSUME NEW S, IsFiniteSet(S), NEW f
    PROVE  /\ IsFiniteSet({f[x] : x \in S})
           /\ Cardinality({f[x] : x \in S}) <= Cardinality(S)
<1> DEFINE T == {f[x] : x \in S}
           g == [x \in S |-> f[x]]
<1>1. g \in Surjection(S, T)
  BY DEF Surjection
<1>2. QED
  <2> HIDE DEF T, g
  <2>1. IsFiniteSet(T) /\ Cardinality(T) <= Cardinality(S)
    BY <1>1, FS_Surjection
  <2>2. QED
    BY <2>1 DEF T

\* A number is rounded to a multiple of the step, a multiple to itself, and to nothing
\* less than a smaller number is.
LEMMA NearestIs ==
    ASSUME NEW v \in Int, NEW step \in {2, 4, 8}
    PROVE  /\ \E q \in Int : Nearest(v, step) = step * q
           /\ \A w \in Int : v <= w => Nearest(v, step) <= Nearest(w, step)
           /\ \A q \in Int : Nearest(step * q, step) = step * q
<1>1. CASE step = 2
  <2>1. \E q \in Int : Nearest(v, 2) = 2 * q
    <3>1. PICK q \in Int : q = v \div 2
      OBVIOUS
    <3>2. Nearest(v, 2) \in {2 * q, 2 * (q + 1)}
      BY <3>1 DEF Nearest
    <3>3. q + 1 \in Int
      OBVIOUS
    <3>4. QED
      BY <3>2, <3>3, Zenon
  <2>2. ASSUME NEW w \in Int, v <= w PROVE Nearest(v, 2) <= Nearest(w, 2)
    BY <2>2 DEF Nearest
  <2>3. ASSUME NEW q \in Int PROVE Nearest(2 * q, 2) = 2 * q
    BY DEF Nearest
  <2>4. QED
    BY <1>1, <2>1, <2>2, <2>3
<1>2. CASE step = 4
  <2>1. \E q \in Int : Nearest(v, 4) = 4 * q
    BY DEF Nearest
  <2>2. ASSUME NEW w \in Int, v <= w PROVE Nearest(v, 4) <= Nearest(w, 4)
    BY <2>2 DEF Nearest
  <2>3. ASSUME NEW q \in Int PROVE Nearest(4 * q, 4) = 4 * q
    BY DEF Nearest
  <2>4. QED
    BY <1>2, <2>1, <2>2, <2>3
<1>3. CASE step = 8
  <2>1. \E q \in Int : Nearest(v, 8) = 8 * q
    BY DEF Nearest
  <2>2. ASSUME NEW w \in Int, v <= w PROVE Nearest(v, 8) <= Nearest(w, 8)
    BY <2>2 DEF Nearest
  <2>3. ASSUME NEW q \in Int PROVE Nearest(8 * q, 8) = 8 * q
    BY DEF Nearest
  <2>4. QED
    BY <1>3, <2>1, <2>2, <2>3
<1>4. QED
  BY <1>1, <1>2, <1>3

\* So is a float, however large: rounding keeps the order and rounds only once.
LEMMA RoundedIs ==
    ASSUME NEW v \in Int
    PROVE  /\ Rounded(v) \in Int /\ Rounded(0) = 0
           /\ Rounded(Rounded(v)) = Rounded(v)
           /\ \A w \in Int : v <= w => Rounded(v) <= Rounded(w)
<1>1. PICK k \in Nat : Precision = 8 * k
  <2>1. Precision = 8 * (Precision \div 8) /\ Precision \div 8 \in Nat
    BY PrecisionAssumption
  <2>2. QED
    BY <2>1
<1> DEFINE two(x) == Nearest(x, 2)
           four(x) == Nearest(x, 4)
           eight(x) == Nearest(x, 8)
<1>2. \A x \in Int : /\ two(x) \in Int /\ four(x) \in Int /\ eight(x) \in Int
                     /\ \E q \in Int : two(x) = 2 * q
                     /\ \E q \in Int : four(x) = 4 * q
                     /\ \E q \in Int : eight(x) = 8 * q
  <2> SUFFICES ASSUME NEW x \in Int
               PROVE  /\ two(x) \in Int /\ four(x) \in Int /\ eight(x) \in Int
                      /\ \E q \in Int : two(x) = 2 * q
                      /\ \E q \in Int : four(x) = 4 * q
                      /\ \E q \in Int : eight(x) = 8 * q
    OBVIOUS
  <2>1. /\ \E q \in Int : two(x) = 2 * q
        /\ \E q \in Int : four(x) = 4 * q
        /\ \E q \in Int : eight(x) = 8 * q
    BY NearestIs
  <2> HIDE DEF two, four, eight
  <2>2. QED
    BY <2>1
<1>3. \A x, y \in Int : x <= y => two(x) <= two(y) /\ four(x) <= four(y) /\ eight(x) <= eight(y)
  BY NearestIs
<1>4. \A q \in Int : two(2 * q) = 2 * q /\ four(4 * q) = 4 * q /\ eight(8 * q) = 8 * q
  BY NearestIs
<1>5. /\ two(8 * k) = 8 * k /\ two(16 * k) = 16 * k
      /\ four(16 * k) = 16 * k /\ four(32 * k) = 32 * k /\ eight(32 * k) = 32 * k
  <2> HIDE DEF two, four, eight
  <2>1. /\ 8 * k = 2 * (4 * k) /\ 16 * k = 2 * (8 * k) /\ 16 * k = 4 * (4 * k)
        /\ 32 * k = 4 * (8 * k) /\ 32 * k = 8 * (4 * k)
        /\ 4 * k \in Int /\ 8 * k \in Int
    OBVIOUS
  <2>2. QED
    BY <1>4, <2>1
<1>6. \A x \in Int : Rounded(x) = IF x <= 8 * k THEN x ELSE IF x <= 16 * k THEN two(x)
                                  ELSE IF x <= 32 * k THEN four(x) ELSE eight(x)
  <2>1. 2 * Precision = 16 * k /\ 4 * Precision = 32 * k
    BY <1>1
  <2> HIDE DEF two, four, eight
  <2> SUFFICES ASSUME NEW x \in Int
               PROVE  Rounded(x) = IF x <= 8 * k THEN x ELSE IF x <= 16 * k THEN two(x)
                                   ELSE IF x <= 32 * k THEN four(x) ELSE eight(x)
    OBVIOUS
  <2>2. QED
    BY <1>1, <2>1 DEF Rounded, two, four, eight
<1> HIDE DEF two, four, eight
<1>7. \A x \in Int :
          /\ 8 * k <= x => 8 * k <= two(x)
          /\ x <= 16 * k => two(x) <= 16 * k
          /\ 16 * k <= x => 16 * k <= four(x)
          /\ x <= 32 * k => four(x) <= 32 * k
          /\ 32 * k <= x => 32 * k <= eight(x)
  BY <1>3, <1>5
<1>8. Rounded(v) \in Int
  BY <1>2, <1>6
<1>9. Rounded(0) = 0
  BY <1>6
<1>10. Rounded(Rounded(v)) = Rounded(v)
  <2>1. CASE v <= 8 * k
    BY <1>6, <2>1
  <2>2. CASE 8 * k < v /\ v <= 16 * k
    <3>1. Rounded(v) = two(v)
      BY <1>6, <2>2
    <3>2. PICK y \in Int : y = two(v) /\ 8 * k <= y /\ y <= 16 * k /\ two(y) = y
      BY <1>2, <1>4, <1>7, <2>2
    <3>3. QED
      BY <1>6, <3>1, <3>2
  <2>3. CASE 16 * k < v /\ v <= 32 * k
    <3>1. Rounded(v) = four(v)
      BY <1>6, <2>3
    <3>2. PICK y \in Int : y = four(v) /\ 16 * k <= y /\ y <= 32 * k /\ four(y) = y
      BY <1>2, <1>4, <1>7, <2>3
    <3>3. CASE y = 16 * k
      BY <1>5, <1>6, <3>1, <3>2, <3>3
    <3>4. CASE 16 * k < y
      BY <1>6, <3>1, <3>2, <3>4
    <3>5. QED
      BY <3>2, <3>3, <3>4
  <2>4. CASE 32 * k < v
    <3>1. Rounded(v) = eight(v)
      BY <1>6, <2>4
    <3>2. PICK y \in Int : y = eight(v) /\ 32 * k <= y /\ eight(y) = y
      BY <1>2, <1>4, <1>7, <2>4
    <3>3. CASE y = 32 * k
      BY <1>5, <1>6, <3>1, <3>2, <3>3
    <3>4. CASE 32 * k < y
      BY <1>6, <3>1, <3>2, <3>4
    <3>5. QED
      BY <3>2, <3>3, <3>4
  <2>5. QED
    BY <2>1, <2>2, <2>3, <2>4
<1>11. ASSUME NEW w \in Int, v <= w PROVE Rounded(v) <= Rounded(w)
  <2>1. /\ two(v) \in Int /\ four(v) \in Int /\ eight(v) \in Int
        /\ two(w) \in Int /\ four(w) \in Int /\ eight(w) \in Int
    BY <1>2
  <2>2. two(v) <= two(w) /\ four(v) <= four(w) /\ eight(v) <= eight(w)
    BY <1>3, <1>11
  <2>3. QED
    BY <1>6, <1>7, <1>11, <2>1, <2>2
<1>12. QED
  BY <1>8, <1>9, <1>10, <1>11

\* A term added leaves a float, no smaller than a smaller sum with a smaller term; a
\* sub-score of nothing adds nothing to a float.
LEMMA PlusIs ==
    ASSUME NEW sub \in [SubScores -> Int], NEW t \in Int, NEW s \in SubScores, NEW omit
    PROVE  /\ Plus(t, sub, s, omit) \in Int
           /\ Rounded(t) = t => Rounded(Plus(t, sub, s, omit)) = Plus(t, sub, s, omit)
           /\ Rounded(t) = t /\ sub[s] = 0 => Plus(t, sub, s, omit) = t
           /\ \A of \in [SubScores -> Int], u \in Int :
                 t <= u /\ (s # omit => sub[s] <= of[s]) =>
                     Plus(t, sub, s, omit) <= Plus(u, of, s, omit)
<1>1. \A f \in [SubScores -> Int] :
          /\ Weights[s] * f[s] \in Int
          /\ sub[s] <= f[s] => Weights[s] * sub[s] <= Weights[s] * f[s]
          /\ f[s] = 0 => Weights[s] * f[s] = 0
  <2> SUFFICES ASSUME NEW f \in [SubScores -> Int]
               PROVE  /\ Weights[s] * f[s] \in Int
                      /\ sub[s] <= f[s] => Weights[s] * sub[s] <= Weights[s] * f[s]
                      /\ f[s] = 0 => Weights[s] * f[s] = 0
    OBVIOUS
  <2>1. PICK x \in Int, y \in Int : x = sub[s] /\ y = f[s]
    OBVIOUS
  <2>2. Weights[s] \in {30, 20, 15, 10}
    BY DEF SubScores, Weights
  <2>3. PICK w \in {30, 20, 15, 10} : w = Weights[s]
    BY <2>2
  <2>4. w * y \in Int /\ (x <= y => w * x <= w * y) /\ (y = 0 => w * y = 0)
    OBVIOUS
  <2>5. QED
    BY <2>1, <2>3, <2>4
<1>2. \A f \in [SubScores -> Int], u \in Int :
          u + Rounded(Weights[s] * f[s]) \in Int /\ Rounded(Weights[s] * f[s]) \in Int
  BY <1>1, RoundedIs
<1>3. CASE s = omit
  BY <1>3 DEF Plus
<1>4. CASE s # omit
  <2>1. \A f \in [SubScores -> Int], u \in Int :
            Plus(u, f, s, omit) = Rounded(u + Rounded(Weights[s] * f[s]))
    BY <1>4 DEF Plus
  <2>2. Plus(t, sub, s, omit) \in Int /\ Rounded(Plus(t, sub, s, omit)) = Plus(t, sub, s, omit)
    BY <1>2, <2>1, RoundedIs
  <2>3. ASSUME Rounded(t) = t, sub[s] = 0 PROVE Plus(t, sub, s, omit) = t
    <3>1. Rounded(Weights[s] * sub[s]) = 0
      BY <1>1, <2>3, RoundedIs
    <3>2. QED
      BY <2>1, <2>3, <3>1
  <2>4. ASSUME NEW of \in [SubScores -> Int], NEW u \in Int, t <= u, sub[s] <= of[s]
        PROVE  Plus(t, sub, s, omit) <= Plus(u, of, s, omit)
    <3>1. Rounded(Weights[s] * sub[s]) <= Rounded(Weights[s] * of[s])
      BY <1>1, <2>4, RoundedIs
    <3>2. PICK a \in Int, b \in Int :
              /\ a = t + Rounded(Weights[s] * sub[s]) /\ b = u + Rounded(Weights[s] * of[s])
              /\ a <= b
      BY <1>2, <2>4, <3>1
    <3>3. Rounded(a) <= Rounded(b)
      BY <3>2, RoundedIs
    <3>4. Plus(t, sub, s, omit) = Rounded(a) /\ Plus(u, of, s, omit) = Rounded(b)
      BY <2>1, <3>2
    <3>5. QED
      BY <3>3, <3>4
  <2>5. QED
    BY <1>4, <2>2, <2>3, <2>4
<1>5. QED
  BY <1>3, <1>4

\* Nor is a score smaller than that of sub-scores of which none counted is larger.
LEMMA SumGrows ==
    ASSUME NEW sub \in [SubScores -> Int], NEW of \in [SubScores -> Int], NEW omit,
           \A s \in SubScores \ {omit} : sub[s] <= of[s]
    PROVE  /\ WeightedSum(sub, omit) \in Int /\ WeightedSum(of, omit) \in Int
           /\ WeightedSum(sub, omit) <= WeightedSum(of, omit)
<1>1. \A s \in {"Category", "AOVAlignment", "AgeOverlap", "ValuesMatch", "GenderFit",
                "IncomeTier"} : s \in SubScores
  BY DEF SubScores, Weights
<1>2. ASSUME NEW t \in Int, NEW u \in Int, t <= u, NEW s \in SubScores
      PROVE  /\ Plus(t, sub, s, omit) \in Int /\ Plus(u, of, s, omit) \in Int
             /\ Plus(t, sub, s, omit) <= Plus(u, of, s, omit)
  BY <1>2, PlusIs
<1>3. PICK a1, b1 : a1 = Plus(0, sub, "Category", omit) /\ b1 = Plus(0, of, "Category", omit)
  OBVIOUS
<1>4. PICK a2, b2 : a2 = Plus(a1, sub, "AOVAlignment", omit) /\ b2 = Plus(b1, of, "AOVAlignment", omit)
  OBVIOUS
<1>5. PICK a3, b3 : a3 = Plus(a2, sub, "AgeOverlap", omit) /\ b3 = Plus(b2, of, "AgeOverlap", omit)
  OBVIOUS
<1>6. PICK a4, b4 : a4 = Plus(a3, sub, "ValuesMatch", omit) /\ b4 = Plus(b3, of, "ValuesMatch", omit)
  OBVIOUS
<1>7. PICK a5, b5 : a5 = Plus(a4, sub, "GenderFit", omit) /\ b5 = Plus(b4, of, "GenderFit", omit)
  OBVIOUS
<1>8. PICK a6, b6 : a6 = Plus(a5, sub, "IncomeTier", omit) /\ b6 = Plus(b5, of, "IncomeTier", omit)
  OBVIOUS
<1>9. WeightedSum(sub, omit) = a6 /\ WeightedSum(of, omit) = b6
  BY <1>3, <1>4, <1>5, <1>6, <1>7, <1>8, Zenon DEF WeightedSum
<1>10. a1 \in Int /\ b1 \in Int /\ a1 <= b1
  BY <1>1, <1>2, <1>3
<1>11. a2 \in Int /\ b2 \in Int /\ a2 <= b2
  BY <1>1, <1>2, <1>4, <1>10
<1>12. a3 \in Int /\ b3 \in Int /\ a3 <= b3
  BY <1>1, <1>2, <1>5, <1>11
<1>13. a4 \in Int /\ b4 \in Int /\ a4 <= b4
  BY <1>1, <1>2, <1>6, <1>12
<1>14. a5 \in Int /\ b5 \in Int /\ a5 <= b5
  BY <1>1, <1>2, <1>7, <1>13
<1>15. a6 \in Int /\ b6 \in Int /\ a6 <= b6
  BY <1>1, <1>2, <1>8, <1>14
<1>16. QED
  BY <1>9, <1>15

\* What a sub-score of nothing is left out of stays the same.
LEMMA SumWithout ==
    ASSUME NEW sub \in [SubScores -> Int], NEW omit \in SubScores, sub[omit] = 0
    PROVE  WeightedSum(sub, omit) = WeightedSum(sub, NoSubScore)
<1>1. \A s \in {"Category", "AOVAlignment", "AgeOverlap", "ValuesMatch", "GenderFit",
                "IncomeTier"} : s \in SubScores
  BY DEF SubScores, Weights
<1>2. NoSubScore \notin SubScores
  BY DEF SubScores, Weights, NoSubScore
<1>3. ASSUME NEW t \in Int, Rounded(t) = t, NEW s \in SubScores
      PROVE  LET u == Plus(t, sub, s, omit)
             IN u \in Int /\ Rounded(u) = u /\ u = Plus(t, sub, s, NoSubScore)
  <2>1. Plus(t, sub, s, omit) = Plus(t, sub, s, NoSubScore)
    <3>1. CASE s = omit
      BY <1>3, <3>1, PlusIs
    <3>2. CASE s # omit
      BY <1>2, <3>2 DEF Plus
    <3>3. QED
      BY <3>1, <3>2
  <2>2. QED
    BY <1>3, <2>1, PlusIs
<1>4. PICK a1 : a1 = Plus(0, sub, "Category", omit)
  OBVIOUS
<1>5. PICK a2 : a2 = Plus(a1, sub, "AOVAlignment", omit)
  OBVIOUS
<1>6. PICK a3 : a3 = Plus(a2, sub, "AgeOverlap", omit)
  OBVIOUS
<1>7. PICK a4 : a4 = Plus(a3, sub, "ValuesMatch", omit)
  OBVIOUS
<1>8. PICK a5 : a5 = Plus(a4, sub, "GenderFit", omit)
  OBVIOUS
<1>9. PICK a6 : a6 = Plus(a5, sub, "IncomeTier", omit)
  OBVIOUS
<1>10. a1 \in Int /\ Rounded(a1) = a1 /\ a1 = Plus(0, sub, "Category", NoSubScore)
  BY <1>1, <1>3, <1>4, RoundedIs
<1>11. a2 \in Int /\ Rounded(a2) = a2 /\ a2 = Plus(a1, sub, "AOVAlignment", NoSubScore)
  BY <1>1, <1>3, <1>5, <1>10
<1>12. a3 \in Int /\ Rounded(a3) = a3 /\ a3 = Plus(a2, sub, "AgeOverlap", NoSubScore)
  BY <1>1, <1>3, <1>6, <1>11
<1>13. a4 \in Int /\ Rounded(a4) = a4 /\ a4 = Plus(a3, sub, "ValuesMatch", NoSubScore)
  BY <1>1, <1>3, <1>7, <1>12
<1>14. a5 \in Int /\ Rounded(a5) = a5 /\ a5 = Plus(a4, sub, "GenderFit", NoSubScore)
  BY <1>1, <1>3, <1>8, <1>13
<1>15. a6 = Plus(a5, sub, "IncomeTier", NoSubScore)
  BY <1>1, <1>3, <1>9, <1>14
<1>16. WeightedSum(sub, omit) = a6
  BY <1>4, <1>5, <1>6, <1>7, <1>8, <1>9, Zenon DEF WeightedSum
<1>17. WeightedSum(sub, NoSubScore) = a6
  BY <1>10, <1>11, <1>12, <1>13, <1>14, <1>15, Zenon DEF WeightedSum
<1>18. QED
  BY <1>16, <1>17

\* There are six sub-scores, of whole weights.
LEMMA SubScoresAreFinite == IsFiniteSet(SubScores) /\ \A s \in SubScores : Weights[s] \in Int
<1>1. SubScores = {"Category", "AOVAlignment", "AgeOverlap", "ValuesMatch", "GenderFit",
                   "IncomeTier"}
  BY DEF SubScores, Weights
<1>2. IsFiniteSet({"Category"})
  BY FS_Singleton
<1>3. IsFiniteSet({"Category"} \cup {"AOVAlignment"})
  BY <1>2, FS_AddElement
<1>4. IsFiniteSet({"Category", "AOVAlignment"} \cup {"AgeOverlap"})
  <2>1. {"Category", "AOVAlignment"} = {"Category"} \cup {"AOVAlignment"}
    OBVIOUS
  <2>2. QED
    BY <1>3, <2>1, FS_AddElement
<1>5. IsFiniteSet({"Category", "AOVAlignment", "AgeOverlap"} \cup {"ValuesMatch"})
  <2>1. {"Category", "AOVAlignment", "AgeOverlap"}
            = {"Category", "AOVAlignment"} \cup {"AgeOverlap"}
    OBVIOUS
  <2>2. QED
    BY <1>4, <2>1, FS_AddElement
<1>6. IsFiniteSet({"Category", "AOVAlignment", "AgeOverlap", "ValuesMatch"} \cup {"GenderFit"})
  <2>1. {"Category", "AOVAlignment", "AgeOverlap", "ValuesMatch"}
            = {"Category", "AOVAlignment", "AgeOverlap"} \cup {"ValuesMatch"}
    OBVIOUS
  <2>2. QED
    BY <1>5, <2>1, FS_AddElement
<1>7. IsFiniteSet(({"Category", "AOVAlignment", "AgeOverlap", "ValuesMatch"} \cup {"GenderFit"})
                  \cup {"IncomeTier"})
  BY <1>6, FS_AddElement
<1>8. SubScores = ({"Category", "AOVAlignment", "AgeOverlap", "ValuesMatch"} \cup {"GenderFit"})
                  \cup {"IncomeTier"}
  BY <1>1
<1>9. IsFiniteSet(SubScores)
  BY <1>7, <1>8
<1>10. \A s \in SubScores : Weights[s] \in Int
  BY DEF SubScores, Weights
<1>11. QED
  BY <1>9, <1>10

\* Every sub-score is a number.
LEMMA SubScoresAreInts ==
    ASSUME DraftsInv, NEW in, IsInput(in, work.catalog), NEW i \in DOMAIN Pubs
    PROVE  SubScoresOf(in.profile, Pubs[i]) \in [SubScores -> Int]
<1> DEFINE q == in.profile
           pub == Pubs[i]
<1>1. /\ IsFiniteSet(q.subs) /\ q.aov \in Int /\ q.ages \in Int \X Int /\ IsSeq(q.values)
      /\ IsFiniteSet(pub.subs) /\ pub.aov \in Int /\ pub.ages \in Seq(Int)
      /\ \A skew \in DOMAIN pub.split : pub.split[skew] \in Int
      /\ ParsesAsRange(pub.ages) => pub.ages[2] - pub.ages[1] < Unit
  BY InputsAreProper
<1> HIDE DEF q, pub
<1>2. CategoryScore(q, pub) \in Int
  BY <1>1, CategoryIs
<1>3. AgeScore(q, pub) \in Int
  BY <1>1, AgesAre
<1>4. AOVScore(q.aov, pub.aov) \in Int
  <2>1. PICK a \in Int, b \in Int : a = q.aov /\ b = pub.aov
    BY <1>1
  <2>2. CASE a <= 0 \/ b <= 0
    BY <2>1, <2>2, PartsOfUnit DEF AOVScore
  <2>3. CASE ~(a <= 0 \/ b <= 0)
    <3> DEFINE x == Fraction(Least(a, b), Greatest(a, b))
    <3>1. Least(a, b) \in Int /\ Greatest(a, b) \in Nat /\ Greatest(a, b) > 0
      BY <2>3 DEF Least, Greatest
    <3>2. x \in Int
      BY <3>1, FractionIs
    <3>3. AOVScore(a, b) = Clamp((4 * x - Unit) \div 3)
      BY <2>3 DEF AOVScore
    <3> HIDE DEF x
    <3>4. (4 * x - Unit) \div 3 \in Int
      BY <3>2, UnitAssumption
    <3>5. Clamp((4 * x - Unit) \div 3) \in Int
      BY <3>4, ClampIs
    <3>6. QED
      BY <2>1, <3>3, <3>5
  <2>4. QED
    BY <2>2, <2>3
<1>5. ValuesScore(q.values, DeriveKeywords(pub)) \in Int
  <2> DEFINE met == {k \in DOMAIN q.values : q.values[k] \in DeriveKeywords(pub)}
  <2>1. CASE q.values = << >>
    BY <2>1, PartsOfUnit DEF ValuesScore
  <2>2. CASE q.values # << >>
    <3>1. q.values \in Seq(ToSet(q.values))
      BY <1>1 DEF IsSeq
    <3>2. /\ Len(q.values) \in Nat /\ Len(q.values) > 0
          /\ DOMAIN q.values = 1 .. Len(q.values)
      BY <2>2, <3>1, LenProperties, EmptySeq
    <3>3. Cardinality(met) \in Nat
      <4>1. IsFiniteSet(1 .. Len(q.values))
        BY <3>2, FS_Interval
      <4>2. met \in SUBSET (1 .. Len(q.values))
        BY <3>2
      <4> HIDE DEF met
      <4>3. QED
        BY <4>1, <4>2, FS_Subset, FS_CardinalityType
    <3>4. ValuesScore(q.values, DeriveKeywords(pub)) = Fraction(Cardinality(met), Len(q.values))
      BY <2>2 DEF ValuesScore
    <3> HIDE DEF met
    <3>5. QED
      BY <3>2, <3>3, <3>4, FractionIs
  <2>3. QED
    BY <2>1, <2>2
<1>6. GenderScore(q.skew, pub.split) \in Int
  <2>1. CASE q.skew \notin {"female", "male"} \cap DOMAIN pub.split
    BY <2>1, PartsOfUnit DEF GenderScore
  <2>2. CASE q.skew \in {"female", "male"} \cap DOMAIN pub.split
    <3>1. pub.split[q.skew] - 30 \in Int
      BY <1>1, <2>2
    <3>2. Fraction(pub.split[q.skew] - 30, 50) \in Int
      BY <3>1, FractionIs
    <3>3. QED
      BY <2>2, <3>2, ClampIs DEF GenderScore
  <2>3. QED
    BY <2>1, <2>2
<1>7. IncomeScore(q.tier, pub.income) \in Int
  <2>1. CASE q.tier \notin DOMAIN PriceTierIncome \/ pub.income \notin DOMAIN IncomeIndex
    BY <2>1, PartsOfUnit DEF IncomeScore
  <2>2. CASE ~(q.tier \notin DOMAIN PriceTierIncome \/ pub.income \notin DOMAIN IncomeIndex)
    <3>1. PICK a \in Int, b \in Int :
              a = PriceTierIncome[q.tier] /\ b = IncomeIndex[pub.income]
      BY <2>2, TablesAssumption
    <3>2. Greatest(a, b) - Least(a, b) \in Int
      BY DEF Greatest, Least
    <3>3. Unit - Fraction(Greatest(a, b) - Least(a, b), 4) \in Int
      BY <3>2, FractionIs, UnitAssumption
    <3>4. Clamp(Unit - Fraction(Greatest(a, b) - Least(a, b), 4)) \in Int
      BY <3>3, ClampIs
    <3>5. QED
      BY <2>2, <3>1, <3>4 DEF IncomeScore
  <2>3. QED
    BY <2>1, <2>2
<1>8. SubScores = {"Category", "AOVAlignment", "AgeOverlap", "ValuesMatch", "GenderFit",
                   "IncomeTier"}
  BY DEF SubScores, Weights
<1>9. SubScoresOf(q, pub) \in [SubScores -> Int]
  BY <1>2, <1>3, <1>4, <1>5, <1>6, <1>7, <1>8 DEF SubScoresOf
<1>10. QED
  BY <1>9 DEF q, pub

\* The publishers that are ranked: few enough, and scored in full.
LEMMA UngatedAre ==
    ASSUME DraftsInv, NEW in, IsInput(in, work.catalog), NEW S, S = Ungated(in.profile)
    PROVE  /\ IsFiniteSet(S) /\ Cardinality(S) <= Unit
           /\ \A e \in S : /\ e.id \in Int /\ e.scored.sub \in [SubScores -> Int]
                           /\ e.scored.score = WeightedSum(e.scored.sub, NoSubScore)
<1> DEFINE f == [i \in DOMAIN Pubs |->
                    [id |-> Pubs[i].id, scored |-> ScoreOne(in.profile, Pubs[i])]]
           T == {f[i] : i \in DOMAIN Pubs}
<1>1. S \subseteq T
  <2>1. S \subseteq {[id |-> pub.id, scored |-> ScoreOne(in.profile, pub)] : pub \in ToSet(Pubs)}
    BY DEF Ungated
  <2>2. ASSUME NEW pub \in ToSet(Pubs)
        PROVE  [id |-> pub.id, scored |-> ScoreOne(in.profile, pub)] \in T
    <3>1. PICK i \in DOMAIN Pubs : pub = Pubs[i]
      BY <2>2 DEF ToSet
    <3>2. f[i] = [id |-> pub.id, scored |-> ScoreOne(in.profile, pub)]
      BY <3>1
    <3>3. QED
      BY <3>2
  <2>3. QED
    BY <2>1, <2>2
<1>2. Len(Pubs) \in Nat /\ Len(Pubs) <= Unit /\ DOMAIN Pubs = 1 .. Len(Pubs)
  <2>1. Pubs \in Seq(ToSet(Pubs)) /\ Len(Pubs) <= Unit
    BY CatalogIsOne DEF IsSeq, IsCatalog, Pubs
  <2>2. QED
    BY <2>1, LenProperties
<1>3. IsFiniteSet(DOMAIN Pubs) /\ Cardinality(DOMAIN Pubs) <= Unit
  <2> HIDE DEF f, T
  <2>1. PICK n \in Nat : n = Len(Pubs) /\ n <= Unit /\ DOMAIN Pubs = 1 .. n
    BY <1>2
  <2>2. IsFiniteSet(1 .. n) /\ Cardinality(1 .. n) = IF 1 > n THEN 0 ELSE n - 1 + 1
    BY FS_Interval
  <2>3. QED
    BY <2>1, <2>2, UnitAssumption
<1>4. IsFiniteSet(T) /\ Cardinality(T) <= Cardinality(DOMAIN Pubs)
  <2> HIDE DEF f
  <2>1. QED
    BY <1>3, ImageIsFinite
<1>5. IsFiniteSet(S) /\ Cardinality(S) <= Unit
  <2> HIDE DEF T
  <2>1. IsFiniteSet(S) /\ Cardinality(S) <= Cardinality(T)
    BY <1>1, <1>4, FS_Subset
  <2>2. /\ Cardinality(S) \in Nat /\ Cardinality(T) \in Nat
        /\ Cardinality(DOMAIN Pubs) \in Nat
    BY <1>3, <1>4, <2>1, FS_CardinalityType
  <2>3. QED
    BY <1>3, <1>4, <2>1, <2>2, UnitAssumption
<1>6. ASSUME NEW e \in S
      PROVE  /\ e.id \in Int /\ e.scored.sub \in [SubScores -> Int]
             /\ e.scored.score = WeightedSum(e.scored.sub, NoSubScore)
  <2>1. PICK i \in DOMAIN Pubs : e = f[i]
    BY <1>1
  <2>2. e.scored = ScoreOne(in.profile, Pubs[i])
    BY <2>1
  <2>3. e.scored.gate = GateNone
    BY DEF Ungated
  <2>4. e.scored.sub = SubScoresOf(in.profile, Pubs[i])
    BY <2>2 DEF ScoreOne
  <2>5. e.scored.score = WeightedSum(e.scored.sub, NoSubScore)
    BY <2>2, <2>3 DEF ScoreOne
  <2>6. e.id \in Int
    <3>1. e.id = Pubs[i].id /\ Pubs[i] \in ToSet(Pubs)
      BY <2>1 DEF ToSet
    <3>2. QED
      BY <3>1, CatalogIsOne DEF IsCatalog, Pubs
  <2>7. QED
    BY <2>4, <2>5, <2>6, SubScoresAreInts
<1>7. QED
  BY <1>5, <1>6

\* Ranks, spelt out.
LEMMA RanksAre ==
    ASSUME NEW S, NEW s
    PROVE  /\ FullRank(S) =
                 [e \in S |-> 1 + Cardinality({o \in S :
                     \/ o.scored.score > e.scored.score
                     \/ o.scored.score = e.scored.score /\ o.id < e.id})]
           /\ AblatedRank(S, s) =
                 [e \in S |-> 1 + Cardinality({o \in S :
                     \/ AblatedTotal(o.scored.sub, s) > AblatedTotal(e.scored.sub, s)
                     \/ /\ AblatedTotal(o.scored.sub, s) = AblatedTotal(e.scored.sub, s)
                        /\ o.id < e.id})]
BY DEF FullRank, AblatedRank, Rank

\* A rank counts publishers, so it is a number.
LEMMA RanksAreNumbers ==
    ASSUME NEW S, IsFiniteSet(S), NEW s, NEW e \in S
    PROVE  FullRank(S)[e] \in Nat /\ AblatedRank(S, s)[e] \in Nat
<1>1. \A T \in SUBSET S : Cardinality(T) \in Nat
  BY FS_Subset, FS_CardinalityType
<1> DEFINE above == {o \in S : \/ o.scored.score > e.scored.score
                               \/ o.scored.score = e.scored.score /\ o.id < e.id}
           over == {o \in S :
                     \/ AblatedTotal(o.scored.sub, s) > AblatedTotal(e.scored.sub, s)
                     \/ /\ AblatedTotal(o.scored.sub, s) = AblatedTotal(e.scored.sub, s)
                        /\ o.id < e.id}
<1>2. FullRank(S)[e] = 1 + Cardinality(above) /\ AblatedRank(S, s)[e] = 1 + Cardinality(over)
  BY RanksAre
<1>3. above \in SUBSET S /\ over \in SUBSET S
  OBVIOUS
<1> HIDE DEF above, over
<1>4. QED
  BY <1>1, <1>2, <1>3

\* Whoever has no smaller key, and the smaller id, has fewer above.
LEMMA FewerAbove ==
    ASSUME NEW S, IsFiniteSet(S), NEW key, NEW e \in S, NEW o \in S,
           \A x \in S : key[x] \in Int /\ x.id \in Int,
           key[e] >= key[o], e.id < o.id,
           NEW above, above = {x \in S : key[x] > key[e] \/ (key[x] = key[e] /\ x.id < e.id)},
           NEW over, over = {x \in S : key[x] > key[o] \/ (key[x] = key[o] /\ x.id < o.id)}
    PROVE  1 + Cardinality(above) < 1 + Cardinality(over)
<1>1. above \subseteq over
  <2> SUFFICES ASSUME NEW x \in S, key[x] > key[e] \/ (key[x] = key[e] /\ x.id < e.id)
               PROVE  key[x] > key[o] \/ (key[x] = key[o] /\ x.id < o.id)
    OBVIOUS
  <2>1. PICK kx \in Int, ke \in Int, ko \in Int, ix \in Int, ie \in Int, io \in Int :
            /\ kx = key[x] /\ ke = key[e] /\ ko = key[o]
            /\ ix = x.id /\ ie = e.id /\ io = o.id
    OBVIOUS
  <2>2. kx > ko \/ (kx = ko /\ ix < io)
    BY <2>1
  <2>3. QED
    BY <2>1, <2>2
<1>2. e \in over /\ e \notin above
  <2>1. PICK ke \in Int, ko \in Int, ie \in Int, io \in Int :
            ke = key[e] /\ ko = key[o] /\ ie = e.id /\ io = o.id
    OBVIOUS
  <2>2. (ke > ko \/ (ke = ko /\ ie < io)) /\ ~(ke > ke) /\ ~(ie < ie)
    BY <2>1
  <2>3. QED
    BY <2>1, <2>2
<1>3. IsFiniteSet(over)
  BY FS_Subset
<1>4. IsFiniteSet(over \ {e}) /\ Cardinality(over \ {e}) = Cardinality(over) - 1
  BY <1>2, <1>3, FS_RemoveElement
<1>5. above \subseteq over \ {e}
  BY <1>1, <1>2
<1>6. /\ Cardinality(above) <= Cardinality(over \ {e}) /\ IsFiniteSet(above)
  BY <1>4, <1>5, FS_Subset
<1>7. Cardinality(above) \in Nat /\ Cardinality(over) \in Nat
  BY <1>3, <1>6, FS_CardinalityType
<1>8. QED
  BY <1>4, <1>6, <1>7

\* A better publisher with the smaller id is ahead in the full ranking, and in an
\* ablated one if it is better in what is left.
LEMMA BetterIsAhead ==
    ASSUME NEW S, IsFiniteSet(S), NEW s,
           \A x \in S : /\ x.id \in Int /\ x.scored.sub \in [SubScores -> Int]
                        /\ x.scored.score = WeightedSum(x.scored.sub, NoSubScore),
           NEW e \in S, NEW o \in S, e.id < o.id
    PROVE  /\ (\A t \in SubScores : e.scored.sub[t] >= o.scored.sub[t]) =>
                  FullRank(S)[e] < FullRank(S)[o]
           /\ (\A t \in SubScores \ {s} : e.scored.sub[t] >= o.scored.sub[t]) =>
                  AblatedRank(S, s)[e] < AblatedRank(S, s)[o]
<1>1. \A x \in S : \A t \in SubScores : x.scored.sub[t] \in Int
  OBVIOUS
<1>2. \A x \in S : \A omit : WeightedSum(x.scored.sub, omit) \in Int
  BY SumGrows
<1>3. ASSUME \A t \in SubScores : e.scored.sub[t] >= o.scored.sub[t]
      PROVE  FullRank(S)[e] < FullRank(S)[o]
  <2>1. PICK key : key = [x \in S |-> x.scored.score]
    OBVIOUS
  <2>2. \A x \in S : key[x] = x.scored.score /\ key[x] \in Int /\ x.id \in Int
    BY <1>2, <2>1
  <2>3. key[e] >= key[o]
    <3>1. \A t \in SubScores \ {NoSubScore} : o.scored.sub[t] <= e.scored.sub[t]
      BY <1>1, <1>3
    <3>2. WeightedSum(o.scored.sub, NoSubScore) <= WeightedSum(e.scored.sub, NoSubScore)
      BY <3>1, SumGrows
    <3>3. QED
      BY <1>2, <2>2, <3>2
  <2>4. PICK above, over :
            /\ above = {x \in S : key[x] > key[e] \/ (key[x] = key[e] /\ x.id < e.id)}
            /\ over = {x \in S : key[x] > key[o] \/ (key[x] = key[o] /\ x.id < o.id)}
    OBVIOUS
  <2>5. FullRank(S)[e] = 1 + Cardinality(above) /\ FullRank(S)[o] = 1 + Cardinality(over)
    <3>1. above = {x \in S : \/ x.scored.score > e.scored.score
                             \/ x.scored.score = e.scored.score /\ x.id < e.id}
      BY <2>2, <2>4
    <3>2. over = {x \in S : \/ x.scored.score > o.scored.score
                            \/ x.scored.score = o.scored.score /\ x.id < o.id}
      BY <2>2, <2>4
    <3>3. FullRank(S) =
              [y \in S |-> 1 + Cardinality({x \in S :
                  \/ x.scored.score > y.scored.score
                  \/ x.scored.score = y.scored.score /\ x.id < y.id})]
      BY RanksAre, Zenon
    <3>4. QED
      BY <3>1, <3>2, <3>3
  <2>6. 1 + Cardinality(above) < 1 + Cardinality(over)
    BY <2>2, <2>3, <2>4, FewerAbove
  <2>7. QED
    BY <2>5, <2>6
<1>4. ASSUME \A t \in SubScores \ {s} : e.scored.sub[t] >= o.scored.sub[t]
      PROVE  AblatedRank(S, s)[e] < AblatedRank(S, s)[o]
  <2>1. PICK key : key = [x \in S |-> AblatedTotal(x.scored.sub, s)]
    OBVIOUS
  <2>2. \A x \in S : /\ key[x] = AblatedTotal(x.scored.sub, s)
                     /\ key[x] \in Int /\ x.id \in Int
    BY <1>2, <2>1 DEF AblatedTotal
  <2>3. key[e] >= key[o]
    <3>1. \A t \in SubScores \ {s} : o.scored.sub[t] <= e.scored.sub[t]
      BY <1>1, <1>4
    <3>2. WeightedSum(o.scored.sub, s) <= WeightedSum(e.scored.sub, s)
      BY <3>1, SumGrows
    <3>3. QED
      BY <1>2, <2>2, <3>2 DEF AblatedTotal
  <2>4. PICK above, over :
            /\ above = {x \in S : key[x] > key[e] \/ (key[x] = key[e] /\ x.id < e.id)}
            /\ over = {x \in S : key[x] > key[o] \/ (key[x] = key[o] /\ x.id < o.id)}
    OBVIOUS
  <2>5. AblatedRank(S, s)[e] = 1 + Cardinality(above) /\ AblatedRank(S, s)[o] = 1 + Cardinality(over)
    <3>1. above = {x \in S :
                     \/ AblatedTotal(x.scored.sub, s) > AblatedTotal(e.scored.sub, s)
                     \/ /\ AblatedTotal(x.scored.sub, s) = AblatedTotal(e.scored.sub, s)
                        /\ x.id < e.id}
      BY <2>2, <2>4
    <3>2. over = {x \in S :
                    \/ AblatedTotal(x.scored.sub, s) > AblatedTotal(o.scored.sub, s)
                    \/ /\ AblatedTotal(x.scored.sub, s) = AblatedTotal(o.scored.sub, s)
                       /\ x.id < o.id}
      BY <2>2, <2>4
    <3>3. QED
      BY <3>1, <3>2, RanksAre
  <2>6. 1 + Cardinality(above) < 1 + Cardinality(over)
    BY <2>2, <2>3, <2>4, FewerAbove
  <2>7. QED
    BY <2>5, <2>6
<1>5. QED
  BY <1>3, <1>4

\* A sub-score that nobody has any of moves nobody.
LEMMA NothingMovesNobody ==
    ASSUME NEW S, NEW s \in SubScores,
           \A x \in S : /\ x.scored.sub \in [SubScores -> Int] /\ x.scored.sub[s] = 0
                        /\ x.scored.score = WeightedSum(x.scored.sub, NoSubScore)
    PROVE  FullRank(S) = AblatedRank(S, s)
<1>1. \A x \in S : AblatedTotal(x.scored.sub, s) = x.scored.score
  BY SumWithout DEF AblatedTotal
<1> DEFINE above(e) == {o \in S : \/ o.scored.score > e.scored.score
                                  \/ o.scored.score = e.scored.score /\ o.id < e.id}
           over(e) == {o \in S :
                         \/ AblatedTotal(o.scored.sub, s) > AblatedTotal(e.scored.sub, s)
                         \/ /\ AblatedTotal(o.scored.sub, s) = AblatedTotal(e.scored.sub, s)
                            /\ o.id < e.id}
<1>2. \A e \in S : above(e) = over(e)
  BY <1>1
<1>3. /\ FullRank(S) = [e \in S |-> 1 + Cardinality(above(e))]
      /\ AblatedRank(S, s) = [e \in S |-> 1 + Cardinality(over(e))]
  BY DEF FullRank, AblatedRank, Rank
<1>4. QED
  <2> HIDE DEF above, over
  <2> QED
    BY <1>2, <1>3

\* The shift is the sum of the moves, over the number of the ranked.
LEMMA ShiftIs ==
    ASSUME NEW S, IsFiniteSet(S), S # {}, Cardinality(S) <= Unit, NEW s
    PROVE  /\ FullRank(S) = AblatedRank(S, s) => RankShift(S, s) = 0
           /\ \A e \in S : FullRank(S)[e] # AblatedRank(S, s)[e] => RankShift(S, s) > 0
<1> DEFINE moves == [e \in S |-> Moved(FullRank(S)[e], AblatedRank(S, s)[e])]
<1>1. RankShift(S, s) = Fraction(SumOver(S, moves), Cardinality(S))
  BY DEF RankShift
<1>2. ASSUME NEW e \in S
      PROVE  /\ moves[e] \in Nat
             /\ FullRank(S)[e] = AblatedRank(S, s)[e] => moves[e] = 0
             /\ FullRank(S)[e] # AblatedRank(S, s)[e] => moves[e] > 0
  <2>1. PICK a \in Nat, b \in Nat : a = FullRank(S)[e] /\ b = AblatedRank(S, s)[e]
    BY RanksAreNumbers
  <2>2. /\ Moved(a, b) \in Nat
        /\ a = b => Moved(a, b) = 0
        /\ a # b => Moved(a, b) > 0
    BY DEF Moved, Greatest, Least
  <2>3. moves[e] = Moved(a, b)
    BY <2>1
  <2>4. QED
    BY <2>1, <2>2, <2>3
<1>3. Cardinality(S) \in Nat /\ Cardinality(S) > 0
  BY FS_CardinalityType, FS_EmptySet
<1> HIDE DEF moves
<1>4. SumOver(S, moves) \in Nat /\ \A e \in S : moves[e] <= SumOver(S, moves)
  BY <1>2, SumIsNat
<1>5. ASSUME FullRank(S) = AblatedRank(S, s) PROVE RankShift(S, s) = 0
  <2>1. \A e \in S : moves[e] = 0
    BY <1>2, <1>5
  <2>2. SumOver(S, moves) = 0
    BY <1>2, <2>1, SumIsZero
  <2>3. QED
    BY <1>1, <1>3, <2>2, FractionIs
<1>6. ASSUME NEW e \in S, FullRank(S)[e] # AblatedRank(S, s)[e]
      PROVE  RankShift(S, s) > 0
  <2>1. PICK m \in Nat : m = moves[e] /\ m > 0
    BY <1>2, <1>6
  <2>2. SumOver(S, moves) > 0
    BY <1>4, <2>1
  <2>3. QED
    BY <1>1, <1>3, <1>4, <2>2, FractionIs
<1>7. QED
  BY <1>5, <1>6

\* However sums are rounded and ties broken, nobody is behind a publisher that is better
\* in nothing counted, unless by id; a sub-score that nobody has any of is inert; and the
\* top never changes unless ranks do.
THEOREM RanksAlwaysFollowSubScores == Spec => []RanksFollowSubScores
<1>1. ASSUME DraftsInv PROVE RanksFollowSubScores
  <2> SUFFICES ASSUME NEW p \in Procs, NEW c \in Drafted(p), NEW s \in SubScores,
                      NEW S, S = Ungated(c.profile)
               PROVE  /\ \A e, o \in S :
                            e.id < o.id /\ (\A t \in SubScores : e.scored.sub[t] >= o.scored.sub[t])
                                => FullRank(S)[e] < FullRank(S)[o]
                      /\ \A e, o \in S :
                            /\ e.id < o.id
                            /\ \A t \in SubScores \ {s} : e.scored.sub[t] >= o.scored.sub[t]
                            => AblatedRank(S, s)[e] < AblatedRank(S, s)[o]
                      /\ (\A e \in S : e.scored.sub[s] = 0) =>
                             RankShift(S, s) = 0 /\ ~TopChanges(S, s)
                      /\ TopChanges(S, s) => RankShift(S, s) > 0
    BY DEF RanksFollowSubScores
  <2>1. PICK in, allocated :
            IsInput(in, work.catalog) /\ allocated \in Allocations(in) /\ c = Build(in, allocated)
    BY <1>1, DraftedIsBuilt
  <2>2. S = Ungated(in.profile)
    BY <2>1, BuiltHas
  <2>3. /\ IsFiniteSet(S) /\ Cardinality(S) <= Unit
        /\ \A e \in S : /\ e.id \in Int /\ e.scored.sub \in [SubScores -> Int]
                        /\ e.scored.score = WeightedSum(e.scored.sub, NoSubScore)
    BY <1>1, <2>1, <2>2, UngatedAre
  <2>4. DOMAIN FullRank(S) = S /\ DOMAIN AblatedRank(S, s) = S
    BY RanksAre
  <2>5. ASSUME NEW e \in S, NEW o \in S, e.id < o.id
        PROVE  /\ (\A t \in SubScores : e.scored.sub[t] >= o.scored.sub[t]) =>
                      FullRank(S)[e] < FullRank(S)[o]
               /\ (\A t \in SubScores \ {s} : e.scored.sub[t] >= o.scored.sub[t]) =>
                      AblatedRank(S, s)[e] < AblatedRank(S, s)[o]
    BY <2>3, <2>5, BetterIsAhead
  <2>6. ASSUME FullRank(S) = AblatedRank(S, s) PROVE ~TopChanges(S, s)
    BY <2>6 DEF TopChanges
  <2>7. (\A e \in S : e.scored.sub[s] = 0) => FullRank(S) = AblatedRank(S, s)
    BY <2>3, NothingMovesNobody
  <2>8. CASE S = {}
    <3>1. RankShift(S, s) = 0
      BY <2>8 DEF RankShift
    <3>2. Top(FullRank(S)) = {} /\ Top(AblatedRank(S, s)) = {}
      BY <2>4, <2>8 DEF Top
    <3>3. ~TopChanges(S, s)
      BY <3>2 DEF TopChanges
    <3>4. QED
      BY <2>8, <3>1, <3>3
  <2>9. CASE S # {}
    <3>1. ASSUME TopChanges(S, s) PROVE \E e \in S : FullRank(S)[e] # AblatedRank(S, s)[e]
      BY <3>1, <2>4 DEF TopChanges, Top
    <3>2. TopChanges(S, s) => RankShift(S, s) > 0
      BY <2>3, <2>9, <3>1, ShiftIs
    <3>3. FullRank(S) = AblatedRank(S, s) => RankShift(S, s) = 0
      BY <2>3, <2>9, ShiftIs
    <3>4. QED
      BY <2>5, <2>6, <2>7, <3>2, <3>3
  <2>10. QED
    BY <2>8, <2>9
<1>2. QED
  BY DraftsComeFromBriefs, <1>1, PTL

---------------------------------------------------------------------------
(***************************************************************************)
(* The counters of the judge.                                              *)
(***************************************************************************)

Counters == {"at", "matched", "correct", "high", "controlMatched", "controlHigh"}

JudgeOK(j) ==
    /\ \A f \in Counters : j[f] \in Nat
    /\ j["at"] > 0
    /\ j["correct"] <= j["matched"] /\ j["high"] <= j["matched"]
    /\ j["controlHigh"] <= j["controlMatched"]

\* No more is right, or sure, than is counted.
JudgeInv == DOMAIN judge = Procs /\ \A p \in Procs : JudgeOK(judge[p])

\* The counters are fields of the judge's record, and the phase is none of them.
LEMMA CountersAreFields == Counters \subseteq DOMAIN NoJudge \ {"phase"}
BY DEF Counters, NoJudge

\* What a step of the judge leaves in a counter.
LEMMA JudgeStepIs ==
    ASSUME JudgeInv, NEW p \in Procs, NEW from, NEW to, NEW changes,
           JudgeStep(p, from, to, changes)
    PROVE  /\ DOMAIN judge' = Procs
           /\ \A q \in Procs \ {p} : judge'[q] = judge[q]
           /\ \A f \in Counters :
                 judge'[p][f] = IF f \in DOMAIN changes THEN changes[f] ELSE judge[p][f]
<1> DEFINE new == [f \in DOMAIN NoJudge |-> IF f = "phase" THEN to
                      ELSE IF f \in DOMAIN changes THEN changes[f] ELSE judge[p][f]]
<1>1. judge' = [judge EXCEPT ![p] = new]
  BY DEF JudgeStep
<1>2. DOMAIN judge = Procs
  BY DEF JudgeInv
<1>3. judge'[p] = new
  BY <1>1, <1>2
<1>4. \A f \in Counters : new[f] = IF f \in DOMAIN changes THEN changes[f] ELSE judge[p][f]
  BY CountersAreFields
<1>5. QED
  <2> HIDE DEF new
  <2> QED
    BY <1>1, <1>2, <1>3, <1>4

\* The judge starts with every counter at zero.
LEMMA JudgeStart == Init => JudgeInv
<1> SUFFICES ASSUME Init PROVE JudgeInv
  OBVIOUS
<1>1. JudgeOK(NoJudge)
  BY DEF JudgeOK, Counters, NoJudge
<1>2. QED
  BY <1>1 DEF Init, JudgeInit, JudgeInv

\* A step that changes none of these counters, or all of them as they should be.
LEMMA JudgeKeeps ==
    ASSUME JudgeInv, UNCHANGED work, NEW p \in Procs,
           NEW from, NEW to, NEW changes, JudgeStep(p, from, to, changes),
           NEW j, JudgeOK(j),
           \A f \in Counters : j[f] = IF f \in DOMAIN changes THEN changes[f] ELSE judge[p][f]
    PROVE  JudgeInv'
<1>1. /\ DOMAIN judge' = Procs
      /\ \A q \in Procs \ {p} : judge'[q] = judge[q]
      /\ \A f \in Counters : judge'[p][f] = j[f]
  BY JudgeStepIs
<1>2. JudgeOK(judge'[p])
  BY <1>1 DEF JudgeOK, Counters
<1>3. \A q \in Procs : JudgeOK(judge'[q])
  BY <1>1, <1>2 DEF JudgeInv
<1>4. QED
  BY <1>1, <1>3, WorkStays DEF JudgeInv, JudgeOK, Counters

\* What is right, or sure, is counted by the step that counts the item it is about.
LEMMA JudgeSteps == JudgeInv /\ [Next]_vars => JudgeInv'
<1> SUFFICES ASSUME JudgeInv, [Next]_vars PROVE JudgeInv'
  OBVIOUS
<1>1. CASE UNCHANGED <<work, judge>>
  BY <1>1, WorkStays DEF JudgeInv, JudgeOK, Counters
<1>2. ASSUME NEW p \in Procs, Judges(p) PROVE JudgeInv'
  <2> DEFINE j == judge[p]
  <2>0. JudgeOK(j)
    BY DEF JudgeInv
  <2>1. UNCHANGED work
    BY <1>2 DEF Judges, SkipCampaign, JudgeReal, JudgeControl, JudgeUnrecorded, TakeReal,
       TakeControl, EndReal, EndControl, JudgeStep, JudgeFails, EndJudging
  <2>2. ASSUME NEW from, NEW to, NEW changes, JudgeStep(p, from, to, changes),
               JudgeOK([f \in Counters |-> IF f \in DOMAIN changes THEN changes[f] ELSE j[f]])
        PROVE  JudgeInv'
    <3> DEFINE new == [f \in Counters |-> IF f \in DOMAIN changes THEN changes[f] ELSE j[f]]
    <3>1. \A f \in Counters : new[f] = IF f \in DOMAIN changes THEN changes[f] ELSE judge[p][f]
      OBVIOUS
    <3> HIDE DEF new
    <3>2. JudgeOK(new)
      BY <2>2 DEF new
    <3>3. QED
      BY <2>1, <2>2, <3>1, <3>2, JudgeKeeps
  <2> HIDE DEF j
  <2>3. CASE SkipCampaign(p)
    <3> DEFINE changes == [at |-> j.at + 1, skipped |-> j.skipped + 1]
    <3>1. JudgeStep(p, "next", "next", changes)
      BY <2>3 DEF SkipCampaign, j
    <3>2. JudgeOK([f \in Counters |-> IF f \in DOMAIN changes THEN changes[f] ELSE j[f]])
      BY <2>0 DEF JudgeOK, Counters
    <3>3. QED
      <4> HIDE DEF changes
      <4> QED
        BY <2>2, <3>1, <3>2
  <2>4. CASE JudgeReal(p)
    <3> DEFINE changes == [calls |-> j.calls + 1]
    <3>1. JudgeStep(p, "next", "control call", changes)
      BY <2>4 DEF JudgeReal, j
    <3>2. JudgeOK([f \in Counters |-> IF f \in DOMAIN changes THEN changes[f] ELSE j[f]])
      BY <2>0 DEF JudgeOK, Counters
    <3>3. QED
      <4> HIDE DEF changes
      <4> QED
        BY <2>2, <3>1, <3>2
  <2>5. CASE JudgeControl(p)
    <3> DEFINE changes == [calls |-> j.calls + 1, judged |-> j.judged + 1,
                           chance |-> j.chance + Fraction(1, Len(Cast(Campaign(p)))),
                           used |-> {}, taken |-> 0]
    <3>1. JudgeStep(p, "control call", "real items", changes)
      BY <2>5 DEF JudgeControl, j
    <3>2. JudgeOK([f \in Counters |-> IF f \in DOMAIN changes THEN changes[f] ELSE j[f]])
      BY <2>0 DEF JudgeOK, Counters
    <3>3. QED
      <4> HIDE DEF changes
      <4> QED
        BY <2>2, <3>1, <3>2
  <2>6. CASE JudgeUnrecorded(p)
    <3> DEFINE changes == [f \in DOMAIN NoJudge \ {"phase", "at", "calls", "judged", "skipped"} |->
                              NoJudge[f]]
    <3>1. PICK from : JudgeStep(p, from, "unrecorded", changes)
      BY <2>6 DEF JudgeUnrecorded
    <3>2. JudgeOK([f \in Counters |-> IF f \in DOMAIN changes THEN changes[f] ELSE j[f]])
      BY <2>0 DEF JudgeOK, Counters, NoJudge
    <3>3. QED
      <4> HIDE DEF changes
      <4> QED
        BY <2>2, <3>1, <3>2
  <2>7. ASSUME NEW item, TakeReal(p, item) PROVE JudgeInv'
    <3> DEFINE right == Cast(Campaign(p))[item.creative] = item.persona
               drop == DropOf(p, item, RealPersonas(p))
               dropping == [taken |-> j.taken + 1, dropped |-> [j.dropped EXCEPT ![drop] = @ + 1]]
               taking == [taken |-> j.taken + 1,
                          used |-> j.used \cup {<<item.creative, item.persona>>},
                          matched |-> j.matched + 1, high |-> j.high + High(item),
                          correct |-> j.correct + (IF right THEN 1 ELSE 0),
                          findings |-> IF right THEN j.findings ELSE Least(8, j.findings + 1)]
    <3>1. \/ JudgeStep(p, "real items", "real items", dropping)
          \/ JudgeStep(p, "real items", "real items", taking)
      BY <2>7 DEF TakeReal, j
    <3>2. JudgeOK([f \in Counters |-> IF f \in DOMAIN dropping THEN dropping[f] ELSE j[f]])
      BY <2>0 DEF JudgeOK, Counters
    <3>3. JudgeOK([f \in Counters |-> IF f \in DOMAIN taking THEN taking[f] ELSE j[f]])
      <4>1. PICK h \in 0 .. 1, r \in 0 .. 1 : h = High(item) /\ r = IF right THEN 1 ELSE 0
        BY DEF High
      <4>2. /\ j.matched \in Nat /\ j.correct \in Nat /\ j.high \in Nat
            /\ j.correct <= j.matched /\ j.high <= j.matched
        BY <2>0 DEF JudgeOK, Counters
      <4>3. /\ taking.matched = j.matched + 1 /\ taking.high = j.high + h
            /\ taking.correct = j.correct + r
        BY <4>1
      <4>4. /\ taking.matched \in Nat /\ taking.high \in Nat /\ taking.correct \in Nat
            /\ taking.high <= taking.matched /\ taking.correct <= taking.matched
        <5> HIDE DEF taking
        <5> QED
          BY <4>1, <4>2, <4>3
      <4>5. DOMAIN taking = {"taken", "used", "matched", "high", "correct", "findings"}
        OBVIOUS
      <4> HIDE DEF taking
      <4>6. QED
        BY <2>0, <4>4, <4>5 DEF JudgeOK, Counters
    <3>4. QED
      <4> HIDE DEF dropping, taking
      <4> QED
        BY <2>2, <3>1, <3>2, <3>3
  <2>8. CASE EndReal(p)
    <3> DEFINE changes == [used |-> {}, taken |-> 0]
    <3>1. JudgeStep(p, "real items", "control items", changes)
      BY <2>8 DEF EndReal
    <3>2. JudgeOK([f \in Counters |-> IF f \in DOMAIN changes THEN changes[f] ELSE j[f]])
      BY <2>0 DEF JudgeOK, Counters
    <3>3. QED
      <4> HIDE DEF changes
      <4> QED
        BY <2>2, <3>1, <3>2
  <2>9. ASSUME NEW item, TakeControl(p, item) PROVE JudgeInv'
    <3> DEFINE changes == [taken |-> j.taken + 1,
                           used |-> j.used \cup {<<item.creative, item.persona>>},
                           controlMatched |-> j.controlMatched + 1,
                           controlHigh |-> j.controlHigh + High(item)]
    <3>1. JudgeStep(p, "control items", "control items", changes)
      BY <2>9 DEF TakeControl, j
    <3>2. JudgeOK([f \in Counters |-> IF f \in DOMAIN changes THEN changes[f] ELSE j[f]])
      <4>1. High(item) \in 0 .. 1
        BY DEF High
      <4>2. QED
        BY <2>0, <4>1 DEF JudgeOK, Counters
    <3>3. QED
      <4> HIDE DEF changes
      <4> QED
        BY <2>2, <3>1, <3>2
  <2>10. CASE EndControl(p)
    <3> DEFINE changes == [at |-> j.at + 1, used |-> {}, taken |-> 0]
    <3>1. JudgeStep(p, "control items", "next", changes)
      BY <2>10 DEF EndControl, j
    <3>2. JudgeOK([f \in Counters |-> IF f \in DOMAIN changes THEN changes[f] ELSE j[f]])
      BY <2>0 DEF JudgeOK, Counters
    <3>3. QED
      <4> HIDE DEF changes
      <4> QED
        BY <2>2, <3>1, <3>2
  <2>11. CASE JudgeFails(p) \/ EndJudging(p)
    BY <1>1, <2>11 DEF JudgeFails, EndJudging
  <2>12. QED
    BY <1>2, <2>3, <2>4, <2>5, <2>6, <2>7, <2>8, <2>9, <2>10, <2>11 DEF Judges
<1>3. CASE UNCHANGED vars
  BY <1>1, <1>3 DEF vars
<1>4. ASSUME NEW p \in Procs, Drafts(p) \/ Writes(p) \/ Reads(p) \/ Serves(p)
      PROVE  UNCHANGED <<work, judge>>
  <2>1. CASE Drafts(p)
    BY <2>1 DEF Drafts, Start, Draft, DraftFails, EndDrafts
  <2>2. CASE Writes(p)
    BY <2>2 DEF Writes, CreateReport, CreateFails, WriteBlock, CloseReport, AbandonReport
  <2>3. CASE Reads(p)
    BY <2>3 DEF Reads, OpenLatest, OpenComparison, OpenBaseline, ReadHead, ReadTail, EndMeasure
  <2>4. CASE Serves(p)
    BY <2>4 DEF Serves, Bind, Fallback, HandleRun, StopServer
  <2>5. QED
    BY <1>4, <2>1, <2>2, <2>3, <2>4
<1>5. ASSUME NEW port \in Port, Neighbour(port), UNCHANGED judge PROVE JudgeInv'
  BY <1>1, <1>5 DEF Neighbour
<1>6. QED
  BY <1>1, <1>2, <1>3, <1>4, <1>5 DEF Next

---------------------------------------------------------------------------
(***************************************************************************)
(* What files and pages are made of.                                       *)
(***************************************************************************)

\* Every block in a file, and every report on a page, is of a report that was made.
ReportsInv ==
    /\ Committed \in DOMAIN reports
    /\ \A p \in Procs :
          /\ pc[p] \in Writing => p \in DOMAIN reports
          /\ reader[p].at = "tail" => reader[p].head \in DOMAIN reports \cup {Hole, "end"}
          /\ page[p].latest \in DOMAIN reports \cup Refused \cup {"none", "mixed"}
    /\ \A path \in Files :
          disk[path] = NoFile \/ ToSet(disk[path]) \subseteq DOMAIN reports \cup {Hole}

\* At the start only the committed report exists, and the files hold it or nothing.
LEMMA ReportsStart == Init => ReportsInv
<1> SUFFICES ASSUME Init PROVE ReportsInv
  OBVIOUS
<1>1. /\ DOMAIN reports = {Committed}
      /\ pc = [p \in Procs |-> "start"]
      /\ reader = [p \in Procs |-> NotReading]
      /\ page = [p \in Procs |-> NothingRead]
      /\ \A path \in Files : disk[path] = NoFile \/ disk[path] = <<Committed, Committed>>
  BY DEF Init, DraftInit, FilesInit, Files
<1>2. ToSet(<<Committed, Committed>>) \subseteq {Committed}
  BY DEF ToSet
<1>3. QED
  BY <1>1, <1>2 DEF ReportsInv, Writing, NotReading, NothingRead

\* Nothing new is on a page, nor in a file.
LEMMA ReportsStay ==
    ASSUME ReportsInv, UNCHANGED <<work, disk, reports, reader, page>>,
           \A p \in Procs : pc'[p] \in Writing => pc[p] \in Writing
    PROVE  ReportsInv'
<1>1. \A path \in Files : ToSet(disk[path])' = ToSet(disk[path])
  BY DEF ToSet
<1>2. QED
  BY <1>1, WorkStays DEF ReportsInv

\* What is read is in the file, or its end.
LEMMA BlockIsKnown ==
    ASSUME FilesInv, ReportsInv, NEW p \in Procs, reader[p].at # "idle", NEW k \in {1, 2}
    PROVE  Block(reader[p].path, k) \in DOMAIN reports \cup {Hole, "end"}
<1> DEFINE path == reader[p].path
<1>1. path \in Files /\ disk[path] # NoFile
  BY DEF FilesInv, FilesTyped, ReadersInv, ReaderOK, Readings
<1>2. disk[path] \in Seq(Blocks)
  BY <1>1 DEF FilesInv, FilesTyped, Stored
<1>3. Len(disk[path]) \in Nat /\ DOMAIN disk[path] = 1 .. Len(disk[path])
  BY <1>2, LenProperties
<1>4. k <= Len(disk[path]) => disk[path][k] \in ToSet(disk[path])
  BY <1>3 DEF ToSet
<1>5. QED
  BY <1>1, <1>4 DEF Block, ReportsInv

\* A write leaves a block in a file where it was, or puts its own there, or leaves a hole.
LEMMA WrittenBlocks ==
    ASSUME NEW blocks \in Stored, NEW k \in 1 .. 2, NEW b
    PROVE  ToSet(WriteAt(blocks, k, b)) \subseteq ToSet(blocks) \cup {b, Hole}
<1>1. PICK n \in Nat : n = Len(blocks) /\ DOMAIN blocks = 1 .. n
  BY LenProperties DEF Stored
<1>2. PICK m \in Nat : m = Greatest(k, n)
  BY DEF Greatest
<1>3. WriteAt(blocks, k, b) =
          [i \in 1 .. m |-> IF i = k THEN b ELSE IF i <= n THEN blocks[i] ELSE Hole]
  BY <1>1, <1>2 DEF WriteAt
<1>4. \A i \in 1 .. m : i <= n => blocks[i] \in ToSet(blocks)
  BY <1>1 DEF ToSet
<1>5. \A i \in 1 .. m : WriteAt(blocks, k, b)[i] \in ToSet(blocks) \cup {b, Hole}
  BY <1>3, <1>4
<1>6. QED
  BY <1>3, <1>5 DEF ToSet

\* The blocks of a write are those of a report that was made.
LEMMA ReportsWritten ==
    ASSUME FilesInv, ReportsInv, NEW p \in Procs, Writes(p)
    PROVE  ReportsInv'
<1>0. /\ pc \in [Procs -> Labels] /\ disk \in [Files -> Stored \cup {NoFile}]
      /\ Dest(p) \in Files
  BY DEF FilesInv, FilesTyped, Dest, Files
<1>1. CASE CreateReport(p)
  <2>1. /\ DOMAIN reports' = DOMAIN reports \cup {p}
        /\ disk' = [disk EXCEPT ![Dest(p)] = << >>]
        /\ pc' = [pc EXCEPT ![p] = "write head"]
        /\ UNCHANGED <<work, reader, page>>
    BY <1>1 DEF CreateReport, Goto
  <2>2. ToSet(<< >>) = {}
    BY DEF ToSet
  <2>3. \A path \in Files \ {Dest(p)} : disk'[path] = disk[path]
    BY <1>0, <2>1
  <2>4. disk'[Dest(p)] = << >>
    BY <1>0, <2>1
  <2>5. \A path \in Files :
            disk'[path] = NoFile \/ ToSet(disk'[path]) \subseteq DOMAIN reports' \cup {Hole}
    BY <2>1, <2>2, <2>3, <2>4 DEF ReportsInv
  <2>6. \A q \in Procs :
            /\ pc'[q] \in Writing => q \in DOMAIN reports'
            /\ reader'[q].at = "tail" => reader'[q].head \in DOMAIN reports' \cup {Hole, "end"}
            /\ page'[q].latest \in DOMAIN reports' \cup Refused \cup {"none", "mixed"}
    BY <1>0, <2>1 DEF ReportsInv
  <2>7. QED
    BY <2>1, <2>5, <2>6, WorkStays DEF ReportsInv, ToSet
<1>2. CASE WriteBlock(p)
  <2> DEFINE path == Dest(p)
             k == IF pc[p] = "write head" THEN 1 ELSE 2
  <2>1. /\ disk' = [disk EXCEPT ![path] = WriteAt(@, k, p)]
        /\ UNCHANGED <<work, reports, reader, page>>
        /\ \E l \in {"write tail", "close"} : pc' = [pc EXCEPT ![p] = l]
        /\ pc[p] \in Writing
    BY <1>2 DEF WriteBlock, Goto, Writing
  <2>2. disk[path] \in Stored
    BY <1>0, <2>1 DEF FilesInv, WritersInv, WriterOK
  <2>3. p \in DOMAIN reports /\ p \in Blocks
    BY <2>1, WorkloadsAssumption DEF ReportsInv, FilesInv, FilesTyped, Blocks, Procs
  <2>4. ToSet(WriteAt(disk[path], k, p)) \subseteq ToSet(disk[path]) \cup {p, Hole}
    <3>1. k \in 1 .. 2
      OBVIOUS
    <3> HIDE DEF k, path
    <3>2. QED
      BY <2>2, <3>1, WrittenBlocks
  <2>5. disk'[path] = WriteAt(disk[path], k, p) /\ disk[path] # NoFile
    BY <1>0, <2>1, <2>2, NoFileIsNotStored
  <2>6. \A other \in Files \ {path} : disk'[other] = disk[other]
    BY <1>0, <2>1
  <2>7. \A other \in Files :
            disk'[other] = NoFile \/ ToSet(disk'[other]) \subseteq DOMAIN reports' \cup {Hole}
    <3> HIDE DEF path, k
    <3>1. ToSet(disk[path]) \subseteq DOMAIN reports \cup {Hole}
      BY <1>0, <2>5 DEF ReportsInv, path
    <3>2. ToSet(disk'[path]) \subseteq DOMAIN reports \cup {Hole}
      BY <2>3, <2>4, <2>5, <3>1
    <3>3. QED
      BY <2>1, <2>6, <3>2 DEF ReportsInv
  <2>8. \A q \in Procs : pc'[q] \in Writing => q \in DOMAIN reports'
    BY <1>0, <2>1, <2>3 DEF ReportsInv
  <2>9. QED
    BY <2>1, <2>7, <2>8, WorkStays DEF ReportsInv, ToSet
<1>3. CASE CreateFails(p) \/ CloseReport(p) \/ AbandonReport(p)
  <2>1. PICK l \in {"error", "ok", "diff", "killed"} : pc' = [pc EXCEPT ![p] = l]
    BY <1>3 DEF CreateFails, CloseReport, AbandonReport, Goto
  <2>2. UNCHANGED <<work, disk, reports, reader, page>>
    BY <1>3 DEF CreateFails, CloseReport, AbandonReport, fileVars
  <2>3. QED
    BY <1>0, <2>1, <2>2, ReportsStay DEF Writing
<1>4. QED
  BY <1>1, <1>2, <1>3 DEF Writes

\* What a reader decodes is a report that was made, or a refusal.
LEMMA ReportsRead ==
    ASSUME FilesInv, ReportsInv, NEW p \in Procs, Reads(p)
    PROVE  ReportsInv'
<1>0. /\ pc \in [Procs -> Labels] /\ reader \in [Procs -> Readings] /\ page \in [Procs -> Pages]
  BY DEF FilesInv, FilesTyped
<1>1. ASSUME NEW path \in Files, Open(p, path), UNCHANGED <<work, pc>> PROVE ReportsInv'
  <2>1. PICK r \in {"absent", "none"} : page' = Shown(p, path, r)
    BY <1>1 DEF Open
  <2>2. PICK at \in {"idle", "head"} :
            reader' = [reader EXCEPT ![p] = [at |-> at, path |-> path, head |-> Hole]]
    BY <1>1 DEF Open
  <2>3. UNCHANGED <<disk, reports>>
    BY <1>1 DEF Open
  <2>4. \A q \in Procs : reader'[q].at = "tail" => reader'[q] = reader[q]
    BY <1>0, <2>2
  <2>5. \A q \in Procs : page'[q].latest = page[q].latest \/ page'[q].latest = r
    BY <1>0, <2>1 DEF Shown, Pages
  <2>6. \A other \in Files : ToSet(disk[other])' = ToSet(disk[other])
    BY <2>3 DEF ToSet
  <2>7. QED
    BY <1>1, <2>3, <2>4, <2>5, <2>6, WorkStays DEF ReportsInv, Refused
<1>2. CASE ReadHead(p)
  <2>1. /\ reader' = [reader EXCEPT ![p] = [at |-> "tail", path |-> @.path,
                                            head |-> Block(@.path, 1)]]
        /\ UNCHANGED <<work, pc, disk, reports, page>> /\ reader[p].at = "head"
    BY <1>2 DEF ReadHead
  <2>2. Block(reader[p].path, 1) \in DOMAIN reports \cup {Hole, "end"}
    BY <2>1, BlockIsKnown
  <2>3. \A q \in Procs : q # p => reader'[q] = reader[q]
    BY <1>0, <2>1
  <2>4. reader'[p].head = Block(reader[p].path, 1)
    BY <1>0, <2>1
  <2>5. \A other \in Files : ToSet(disk[other])' = ToSet(disk[other])
    BY <2>1 DEF ToSet
  <2>6. QED
    BY <2>1, <2>2, <2>3, <2>4, <2>5, WorkStays DEF ReportsInv
<1>3. CASE ReadTail(p)
  <2>1. /\ reader[p].at = "tail"
        /\ reader' = [reader EXCEPT ![p].at = "idle"]
        /\ UNCHANGED <<work, pc, disk, reports>>
    BY <1>3 DEF ReadTail
  <2>2. PICK tail : tail = Block(reader[p].path, 2) /\ tail \in DOMAIN reports \cup {Hole, "end"}
    BY <2>1, BlockIsKnown
  <2>3. PICK r \in Decoded(reader[p].head, tail) : page' = Shown(p, reader[p].path, r)
    BY <1>3, <2>2 DEF ReadTail
  <2>4. r \in DOMAIN reports \cup {"error", "mixed"}
    BY <2>1, <2>3 DEF ReportsInv, Decoded
  <2>5. \A q \in Procs : page'[q].latest = page[q].latest \/ page'[q].latest = r
    BY <1>0, <2>3 DEF Shown, Pages
  <2>6. \A q \in Procs : reader'[q].at = "tail" => reader'[q] = reader[q]
    BY <1>0, <2>1
  <2>7. \A other \in Files : ToSet(disk[other])' = ToSet(disk[other])
    BY <2>1 DEF ToSet
  <2>8. QED
    BY <2>1, <2>4, <2>5, <2>6, <2>7, WorkStays DEF ReportsInv, Refused
<1>4. CASE EndMeasure(p)
  <2>1. pc' = [pc EXCEPT ![p] = "ok"] /\ UNCHANGED <<work, disk, reports, reader, page>>
    BY <1>4 DEF EndMeasure, Goto, fileVars
  <2>2. QED
    BY <1>0, <2>1, ReportsStay DEF Writing
<1>5. CASE OpenLatest(p) \/ OpenComparison(p) \/ OpenBaseline(p)
  <2>1. \E path \in Files : Open(p, path) /\ UNCHANGED <<work, pc>>
    BY <1>5 DEF OpenLatest, OpenComparison, OpenBaseline, Files
  <2>2. QED
    BY <1>1, <2>1
<1>6. QED
  BY <1>2, <1>3, <1>4, <1>5 DEF Reads

\* Nobody else touches a report, a file or a page.
LEMMA ReportsSteps == FilesInv /\ ReportsInv /\ [Next]_vars => ReportsInv'
<1> SUFFICES ASSUME FilesInv, ReportsInv, [Next]_vars PROVE ReportsInv'
  OBVIOUS
<1>0. pc \in [Procs -> Labels]
  BY DEF FilesInv, FilesTyped
<1>1. ASSUME NEW p \in Procs, UNCHANGED <<work, fileVars>>,
             NEW l, l \notin Writing, pc' = [pc EXCEPT ![p] = l]
      PROVE  ReportsInv'
  BY <1>0, <1>1, ReportsStay DEF fileVars
<1>2. ASSUME UNCHANGED <<work, pc, fileVars>> PROVE ReportsInv'
  BY <1>2, ReportsStay DEF fileVars
<1>3. ASSUME NEW p \in Procs, Drafts(p) PROVE ReportsInv'
  <2>1. UNCHANGED <<work, fileVars>>
    BY <1>3 DEF Drafts, Start, Draft, DraftFails, EndDrafts
  <2>2. (\E l : l \notin Writing /\ pc' = [pc EXCEPT ![p] = l]) \/ UNCHANGED pc
    BY <1>3 DEF Drafts, Start, Draft, DraftFails, EndDrafts, Goto, Writing
  <2>3. QED
    BY <1>1, <1>2, <2>1, <2>2
<1>4. ASSUME NEW p \in Procs, Judges(p) PROVE ReportsInv'
  <2>1. UNCHANGED fileVars
    BY <1>4 DEF Judges
  <2>2. CASE UNCHANGED <<work, pc>>
    BY <1>2, <2>1, <2>2
  <2>3. CASE JudgeFails(p) \/ EndJudging(p)
    <3>1. UNCHANGED work /\ \E l \in {"error", "create"} : pc' = [pc EXCEPT ![p] = l]
      BY <2>3 DEF JudgeFails, EndJudging, Goto
    <3>2. QED
      BY <1>1, <2>1, <3>1 DEF Writing
  <2>4. UNCHANGED <<work, pc>> \/ JudgeFails(p) \/ EndJudging(p)
    BY <1>4 DEF Judges, SkipCampaign, JudgeReal, JudgeControl, JudgeUnrecorded, TakeReal,
                TakeControl, EndReal, EndControl, JudgeStep
  <2>5. QED
    BY <2>2, <2>3, <2>4
<1>5. ASSUME NEW p \in Procs, Serves(p) PROVE ReportsInv'
  <2>1. UNCHANGED <<work, fileVars>>
    BY <1>5 DEF Serves, Bind, Fallback, HandleRun, StopServer
  <2>2. (\E l \in {"serving", "fallback", "error", "killed"} : pc' = [pc EXCEPT ![p] = l])
        \/ UNCHANGED pc
    BY <1>5 DEF Serves, Bind, Fallback, HandleRun, StopServer, Goto
  <2>3. QED
    BY <1>1, <1>2, <2>1, <2>2 DEF Writing
<1>6. ASSUME NEW port \in Port, Neighbour(port), UNCHANGED fileVars PROVE ReportsInv'
  BY <1>2, <1>6 DEF Neighbour
<1>7. CASE UNCHANGED vars
  BY <1>2, <1>7 DEF vars
<1>8. QED
  BY <1>3, <1>4, <1>5, <1>6, <1>7, ReportsWritten, ReportsRead DEF Next

---------------------------------------------------------------------------
(***************************************************************************)
(* What each variable holds.                                               *)
(***************************************************************************)

\* A port is free, or somebody's.
PortsInv == ports \in [Port -> Procs \cup {Nobody, Stranger}]

\* Nobody listens to anything at the start.
LEMMA PortsStart == Init => PortsInv
BY DEF Init, ServerInit, PortsInv

\* A port is taken by a server that binds it or by a neighbour, and freed by its holder.
LEMMA PortsSteps == PortsInv /\ [Next]_vars => PortsInv'
<1> SUFFICES ASSUME PortsInv, [Next]_vars PROVE PortsInv'
  OBVIOUS
<1>1. ASSUME UNCHANGED <<work, ports>> PROVE PortsInv'
  BY <1>1, WorkStays DEF PortsInv
<1>2. ASSUME NEW p \in Procs, Serves(p) PROVE PortsInv'
  <2>1. UNCHANGED work
    BY <1>2 DEF Serves, Bind, Fallback, HandleRun, StopServer
  <2>2. CASE Bind(p)
    BY <2>1, <2>2, WorkStays DEF Bind, PortsInv
  <2>3. CASE Fallback(p)
    BY <2>1, <2>3, WorkStays DEF Fallback, PortsInv
  <2>4. CASE StopServer(p)
    BY <2>1, <2>4, WorkStays DEF StopServer, PortsInv
  <2>5. CASE HandleRun(p)
    BY <1>1, <2>5 DEF HandleRun
  <2>6. QED
    BY <1>2, <2>2, <2>3, <2>4, <2>5 DEF Serves
<1>3. ASSUME NEW port \in Port, Neighbour(port) PROVE PortsInv'
  BY <1>3, WorkStays DEF Neighbour, PortsInv
<1>4. ASSUME NEW p \in Procs, Drafts(p) \/ Judges(p) \/ Writes(p) \/ Reads(p)
      PROVE  UNCHANGED <<work, ports>>
  <2>1. CASE Drafts(p)
    BY <2>1 DEF Drafts, Start, Draft, DraftFails, EndDrafts, serverVars
  <2>2. CASE Judges(p)
    BY <2>2 DEF Judges, SkipCampaign, JudgeReal, JudgeControl, JudgeUnrecorded, JudgeFails,
                TakeReal, TakeControl, EndReal, EndControl, EndJudging, JudgeStep, serverVars
  <2>3. CASE Writes(p)
    BY <2>3
       DEF Writes, CreateReport, CreateFails, WriteBlock, CloseReport, AbandonReport, serverVars
  <2>4. CASE Reads(p)
    BY <2>4 DEF Reads, OpenLatest, OpenComparison, OpenBaseline, ReadHead, ReadTail, EndMeasure,
                serverVars
  <2>5. QED
    BY <1>4, <2>1, <2>2, <2>3, <2>4
<1>5. CASE UNCHANGED vars
  BY <1>1, <1>5 DEF vars, serverVars
<1>6. QED
  BY <1>1, <1>2, <1>3, <1>4, <1>5 DEF Next

\* A list of briefs is no longer than its file.
LEMMA BriefsAreFewer ==
    ASSUME work \in Workloads, NEW p \in Procs
    PROVE  Len(Run(p).lines) \in Nat /\ Len(Briefs(p)) \in Nat
           /\ Len(Briefs(p)) <= Len(Run(p).lines)
<1> DEFINE lines == Run(p).lines
           skipped == {line \in ToSet(lines) :
                          line.kind = "ignored" \/ Run(p).only \notin {0, line.n}}
<1>1. IsSeq(lines)
  BY InputsAssumption DEF Run, Procs
<1>2. lines \in Seq(ToSet(lines))
  BY <1>1 DEF IsSeq
<1>3. Briefs(p) = Outside(lines, skipped)
  BY DEF Briefs
<1>4. QED
  <2> HIDE DEF lines, skipped
  <2>1. Len(lines) \in Nat
    BY <1>2, LenProperties
  <2>2. Len(Briefs(p)) \in Nat /\ Len(Briefs(p)) <= Len(lines)
    BY <1>2, <1>3, OutsideIsShorter
  <2>3. QED
    BY <2>1, <2>2 DEF lines

\* The inductive invariants together say what each variable can hold: in particular
\* that no process checks a campaign it did not draft, that no count of the judge
\* exceeds the one it is a part of, and that no page shows a report nobody made.
THEOREM VariablesHoldWhatTheyCan == Spec => []TypeOK
<1>1. Init => DraftsInv /\ JudgeInv /\ ReportsInv /\ PortsInv /\ FilesInv
  BY DraftsStart, JudgeStart, ReportsStart, PortsStart, FilesStart
<1>2. ReportsInv /\ FilesInv /\ [Next]_vars => ReportsInv'
  BY ReportsSteps
<1>3. DraftsInv /\ JudgeInv /\ ReportsInv /\ PortsInv /\ FilesInv => TypeOK
  <2> SUFFICES ASSUME DraftsInv, JudgeInv, ReportsInv, PortsInv, FilesInv PROVE TypeOK
    OBVIOUS
  <2>1. work \in Workloads /\ Procs \subseteq Process
    BY WorkloadsAssumption DEF FilesInv, FilesTyped, Procs
  <2>2. ASSUME NEW p \in Procs
        PROVE  /\ Len(drafts[p]) <= Len(Run(p).lines)
               /\ Run(p).command = "eval" => Len(failures[p]) = Len(drafts[p])
    <3>1. DraftsOK(p)
      BY DEF DraftsInv
    <3>2. PICK a \in Nat : a = Len(drafts[p])
      BY <3>1, LenProperties DEF DraftsOK
    <3>3. PICK b \in Nat : b = Len(Briefs(p))
      BY <2>1, BriefsAreFewer
    <3>4. PICK c \in Nat : c = Len(Run(p).lines)
      BY <2>1, BriefsAreFewer
    <3>5. a <= b /\ b <= c
      BY <2>1, <3>1, <3>2, <3>3, <3>4, BriefsAreFewer DEF DraftsOK
    <3>6. a <= c
      BY <3>5
    <3>7. QED
      BY <3>1, <3>2, <3>4, <3>6 DEF DraftsOK
  <2>3. ASSUME NEW p \in Procs
        PROVE  /\ judge[p].correct <= judge[p].matched /\ judge[p].high <= judge[p].matched
               /\ judge[p].controlHigh <= judge[p].controlMatched
    BY DEF JudgeInv, JudgeOK
  <2>4. ASSUME NEW p \in Procs
        PROVE  /\ page[p].latest \in DOMAIN reports \cup Refused \cup {"none", "mixed"}
               /\ reader[p].at \in {"idle", "head", "tail"}
    BY DEF ReportsInv, FilesInv, FilesTyped, Readings
  <2>5. QED
    BY <2>1, <2>2, <2>3, <2>4 DEF TypeOK, ReportsInv, PortsInv
<1>4. QED
  BY <1>1, <1>2, <1>3, DraftsSteps, JudgeSteps, PortsSteps, FilesAreTracked, PTL DEF Spec

---------------------------------------------------------------------------
(***************************************************************************)
(* Joined sequences, and what is left of them.                             *)
(***************************************************************************)

\* A sequence after another.
LEMMA JoinIs ==
    ASSUME NEW X, NEW a \in Seq(X), NEW b \in Seq(X)
    PROVE  /\ a \o b \in Seq(X)
           /\ ToSet(a \o b) = ToSet(a) \cup ToSet(b)
           /\ Len(a \o b) = Len(a) + Len(b) /\ \A i \in 1 .. Len(a) : (a \o b)[i] = a[i]
           /\ IsInjective(a) /\ IsInjective(b) /\ ToSet(a) \cap ToSet(b) = {}
                 => IsInjective(a \o b)
<1>1. PICK m \in Nat : m = Len(a) /\ DOMAIN a = 1 .. m
  BY LenProperties
<1>2. PICK n \in Nat : n = Len(b) /\ DOMAIN b = 1 .. n
  BY LenProperties
<1>3. PICK c \in Seq(X) : c = a \o b
  BY ConcatProperties
<1>4. DOMAIN c = 1 .. m + n
  BY <1>1, <1>2, <1>3, ConcatProperties, LenProperties
<1>5. \A i \in 1 .. m + n : c[i] = IF i <= m THEN a[i] ELSE b[i - m]
  BY <1>1, <1>2, <1>3, ConcatProperties
<1>6. \A i \in 1 .. m : c[i] = a[i]
  BY <1>5
<1>7. \A i \in 1 .. n : i + m \in 1 .. m + n /\ c[i + m] = b[i]
  BY <1>5
<1>8. \A i \in 1 .. m + n : i \in 1 .. m \/ i - m \in 1 .. n
  OBVIOUS
<1>12. ASSUME NEW k \in 1 .. m + n
       PROVE  IF k <= m THEN k \in DOMAIN a /\ c[k] = a[k] /\ c[k] \in ToSet(a)
              ELSE k - m \in DOMAIN b /\ c[k] = b[k - m] /\ c[k] \in ToSet(b)
  <2>1. CASE k <= m
    <3>1. k \in DOMAIN a /\ c[k] = a[k]
      BY <1>1, <1>5, <2>1
    <3> QED
      BY <2>1, <3>1 DEF ToSet
  <2>2. CASE ~(k <= m)
    <3>1. k - m \in 1 .. n
      BY <2>2
    <3>2. k - m \in DOMAIN b /\ c[k] = b[k - m]
      BY <1>2, <1>5, <2>2, <3>1
    <3> QED
      BY <2>2, <3>2 DEF ToSet
  <2> QED
    BY <2>1, <2>2
<1>9. ToSet(c) = ToSet(a) \cup ToSet(b)
  <2>1. ToSet(c) \subseteq ToSet(a) \cup ToSet(b)
    BY <1>4, <1>12 DEF ToSet
  <2>2. ToSet(a) \subseteq ToSet(c)
    BY <1>1, <1>4, <1>6 DEF ToSet
  <2>3. ToSet(b) \subseteq ToSet(c)
    BY <1>2, <1>4, <1>7 DEF ToSet
  <2> QED
    BY <2>1, <2>2, <2>3
<1>10. ASSUME IsInjective(a), IsInjective(b), ToSet(a) \cap ToSet(b) = {}
       PROVE  IsInjective(c)
  <2> SUFFICES ASSUME NEW i \in 1 .. m + n, NEW j \in 1 .. m + n, c[i] = c[j]
               PROVE  i = j
    BY <1>4 DEF IsInjective
  <2>1. \A k \in 1 .. m + n : IF k <= m THEN k \in DOMAIN a /\ c[k] = a[k] /\ c[k] \in ToSet(a)
                                ELSE k - m \in DOMAIN b /\ c[k] = b[k - m] /\ c[k] \in ToSet(b)
    BY <1>12
  <2>2. CASE i <= m /\ j <= m
    BY <1>10, <2>1, <2>2 DEF IsInjective
  <2>3. CASE ~(i <= m) /\ ~(j <= m)
    <3>1. i - m = j - m
      BY <1>10, <2>1, <2>3 DEF IsInjective
    <3> QED
      BY <3>1
  <2>4. CASE (i <= m) # (j <= m)
    <3>1. c[i] \in ToSet(a) \cap ToSet(b)
      BY <2>1, <2>4
    <3> QED
      BY <1>10, <3>1
  <2> QED
    BY <2>2, <2>3, <2>4
<1>11. Len(c) = m + n
  BY <1>1, <1>2, <1>3, ConcatProperties
<1> QED
  BY <1>1, <1>2, <1>3, <1>6, <1>9, <1>10, <1>11

\* What FlattenSeq makes of a sequence of sequences: its recursive function exists.
LEMMA FlattenIs ==
    ASSUME NEW X, NEW ss \in Seq(Seq(X))
    PROVE  /\ FlattenSeq(ss) \in Seq(X)
           /\ ToSet(FlattenSeq(ss)) = UNION {ToSet(ss[i]) : i \in 1 .. Len(ss)}
<1>1. CASE Len(ss) = 0
  <2>1. ss = << >>
    BY <1>1, EmptySeq
  <2>2. FlattenSeq(ss) = << >>
    BY <1>1, <2>1 DEF FlattenSeq
  <2>3. ToSet(<< >>) = {} /\ 1 .. Len(ss) = {}
    BY <1>1 DEF ToSet
  <2>4. QED
    BY <2>2, <2>3
<1>2. CASE Len(ss) # 0
  <2>1. PICK L \in Nat : L = Len(ss) /\ L > 0
    BY <1>2
  <2>2. \A i \in 1 .. L : ss[i] \in Seq(X)
    BY <2>1
  <2> DEFINE Body(f, i) == IF i = 1 THEN ss[i] ELSE f[i - 1] \o ss[i]
             Equation(f) == f = [i \in 1 .. L |-> Body(f, i)]
             Joined(f, m) == ToSet(f[m]) = UNION {ToSet(ss[i]) : i \in 1 .. m}
             Solves(f, m) == \A i \in 1 .. m : f[i] = Body(f, i)
             T == {m \in 0 .. L : \E f \in [1 .. m -> Seq(X)] : Solves(f, m)}
  <2>3. 0 \in T
    <3> DEFINE f == [i \in 1 .. 0 |-> << >>]
    <3>1. f \in [1 .. 0 -> Seq(X)] /\ Solves(f, 0)
      OBVIOUS
    <3>2. 0 \in 0 .. L
      BY <2>1
    <3> HIDE DEF f, Solves
    <3> QED
      BY <3>1, <3>2
  <2>4. ASSUME NEW m \in 1 .. L, m - 1 \in T PROVE m \in T
    <3>1. PICK g \in [1 .. m - 1 -> Seq(X)] : Solves(g, m - 1)
      BY <2>4
    <3> DEFINE h == [i \in 1 .. m |-> IF i = m THEN Body(g, m) ELSE g[i]]
    <3>2. Body(g, m) \in Seq(X)
      <4>1. CASE m = 1
        BY <2>2, <4>1
      <4>2. CASE m # 1
        <5>1. g[m - 1] \in Seq(X) /\ ss[m] \in Seq(X)
          BY <2>2, <3>1, <4>2
        <5>2. g[m - 1] \o ss[m] \in Seq(X)
          BY <5>1, ConcatProperties
        <5> QED
          BY <4>2, <5>2
      <4> QED
        BY <4>1, <4>2
    <3>3. h \in [1 .. m -> Seq(X)]
      <4> HIDE DEF Body
      <4> QED
        BY <3>1, <3>2
    <3>4. ASSUME NEW i \in 1 .. m PROVE h[i] = Body(h, i)
      <4>1. CASE i = m
        BY <4>1
      <4>2. CASE i # m
        <5>1. i \in 1 .. m - 1
          BY <4>2
        <5>2. h[i] = g[i] /\ g[i] = Body(g, i)
          BY <3>1, <5>1
        <5>3. i # 1 => h[i - 1] = g[i - 1]
          BY <5>1
        <5> QED
          BY <5>2, <5>3
      <4> QED
        BY <4>1, <4>2
    <3>5. Solves(h, m)
      BY <3>4
    <3> HIDE DEF h, Solves
    <3> QED
      BY <3>3, <3>5
  <2>5. L \in T
    <3> HIDE DEF T
    <3>1. \A n \in 1 .. L : n - 1 \in T => n \in T
      BY <2>4
    <3>2. \A n \in 0 .. L : n \in T
      BY <2>3, <3>1, InductionUpTo
    <3> QED
      BY <3>2
  <2>6. PICK sol \in [1 .. L -> Seq(X)] : Solves(sol, L)
    BY <2>5
  <2> DEFINE chosen == CHOOSE f : Equation(f)
  <2>7. Equation(sol)
    BY <2>6
  <2>8. Equation(chosen)
    BY <2>7
  <2>9. FlattenSeq(ss) = chosen[L]
    BY <1>2, <2>1 DEF FlattenSeq
  <2>10. PICK c : Equation(c) /\ FlattenSeq(ss) = c[L]
    <3> HIDE DEF chosen, Equation
    <3> QED
      BY <2>8, <2>9
  <2>11. \A i \in 1 .. L : c[i] = Body(c, i)
    BY <2>10
  <2>12. c[1] = ss[1]
    BY <2>1, <2>11
  <2>13. \A i \in 1 .. L : i # 1 => c[i] = c[i - 1] \o ss[i]
    BY <2>11
  <2> DEFINE U == {m \in 0 .. L : m = 0 \/ (c[m] \in Seq(X) /\ Joined(c, m))}
  <2>14. ASSUME NEW m \in 1 .. L, m - 1 \in U PROVE m \in U
    <3>1. CASE m = 1
      <4>1. UNION {ToSet(ss[i]) : i \in 1 .. 1} = ToSet(ss[1])
        OBVIOUS
      <4> QED
        BY <2>1, <2>2, <2>12, <3>1, <4>1
    <3>2. CASE m # 1
      <4>1. c[m - 1] \in Seq(X) /\ Joined(c, m - 1)
        BY <2>14, <3>2
      <4>2. ss[m] \in Seq(X) /\ c[m] = c[m - 1] \o ss[m]
        BY <2>2, <2>13, <3>2
      <4>3. c[m] \in Seq(X) /\ ToSet(c[m]) = ToSet(c[m - 1]) \cup ToSet(ss[m])
        BY <4>1, <4>2, JoinIs
      <4>4. 1 .. m = (1 .. m - 1) \cup {m}
        OBVIOUS
      <4>5. UNION {ToSet(ss[i]) : i \in 1 .. m}
                = ToSet(ss[m]) \cup UNION {ToSet(ss[i]) : i \in 1 .. m - 1}
        BY <4>4
      <4>6. Joined(c, m)
        BY <4>1, <4>3, <4>5
      <4>7. m \in 0 .. L
        OBVIOUS
      <4> HIDE DEF Joined
      <4> QED
        BY <4>3, <4>6, <4>7
    <3> QED
      BY <3>1, <3>2
  <2>15. L \in U
    <3>1. 0 \in U
      BY <2>1
    <3> HIDE DEF U
    <3>2. \A n \in 1 .. L : n - 1 \in U => n \in U
      BY <2>14
    <3>3. \A n \in 0 .. L : n \in U
      BY <3>1, <3>2, InductionUpTo
    <3> QED
      BY <3>3
  <2>16. c[L] \in Seq(X) /\ Joined(c, L)
    BY <2>1, <2>15
  <2> QED
    BY <2>1, <2>10, <2>16
<1>3. QED
  BY <1>1, <1>2

\* What is left of a sequence by Outside, as a set.
LEMMA OutsideIs ==
    ASSUME NEW X, NEW s \in Seq(X), NEW S
    PROVE  /\ Outside(s, S) \in Seq(X)
           /\ ToSet(Outside(s, S)) = ToSet(s) \ S
           /\ (\A a, b \in 1 .. Len(s) : s[a] = s[b] /\ s[a] \notin S => a = b)
                 => IsInjective(Outside(s, S))
<1>1. PICK o \in Seq(X \ S) : o = Outside(s, S)
  BY OutsideIsSeq
<1>2. PICK m \in Nat : m = Len(s) /\ DOMAIN s = 1 .. m
  BY LenProperties
<1>3. PICK n \in Nat : n = Len(o) /\ DOMAIN o = 1 .. n
  BY LenProperties
<1>4. \A i \in 1 .. n : o[i] \in X \ S
  BY <1>3, ElementOfSeq
<1>5. o \in Seq(X)
  <2>1. o \in [1 .. n -> X]
    BY <1>3, <1>4, LenProperties
  <2> QED
    BY <2>1, SeqDef
<1>6. \A i \in 1 .. n : \E k \in 1 .. m : s[k] = o[i]
  BY <1>1, <1>2, <1>3, OutsideComesFromTheList
<1>7. \A k \in 1 .. m : s[k] \notin S => \E i \in 1 .. n : o[i] = s[k]
  BY <1>1, <1>2, <1>3, OutsideKeepsTheRest
<1>8. ToSet(o) = ToSet(s) \ S
  <2>1. ToSet(o) \subseteq ToSet(s) \ S
    BY <1>2, <1>3, <1>4, <1>6 DEF ToSet
  <2>2. ToSet(s) \ S \subseteq ToSet(o)
    BY <1>2, <1>3, <1>7 DEF ToSet
  <2> QED
    BY <2>1, <2>2
<1>9. ASSUME \A a, b \in 1 .. Len(s) : s[a] = s[b] /\ s[a] \notin S => a = b
      PROVE  IsInjective(o)
  <2>1. \A i \in 1 .. n, j \in 1 .. n : o[i] = o[j] => i = j
    BY <1>1, <1>3, <1>9, OutsideIsInjective
  <2> QED
    BY <1>3, <2>1 DEF IsInjective
<1> QED
  BY <1>1, <1>5, <1>8, <1>9

\* The distinct elements of s, each once.
LEMMA DistinctIs ==
    ASSUME NEW X, NEW s \in Seq(X), 0 \notin X
    PROVE  /\ Distinct(s) \in Seq(X)
           /\ ToSet(Distinct(s)) = ToSet(s)
           /\ IsInjective(Distinct(s))
<1>1. PICK m \in Nat : m = Len(s) /\ DOMAIN s = 1 .. m
  BY LenProperties
<1>2. \A i \in 1 .. m : s[i] \in X
  BY <1>1, ElementOfSeq
<1> DEFINE Seen(i) == {s[j] : j \in 1 .. i - 1}
<1>3. PICK t : t = [i \in 1 .. m |-> IF s[i] \in Seen(i) THEN 0 ELSE s[i]]
  OBVIOUS
<1>4. Distinct(s) = Outside(t, {0})
  BY <1>1, <1>3 DEF Distinct
<1>5. t \in [1 .. m -> X \cup {0}]
  <2> HIDE DEF Seen
  <2> QED
    BY <1>2, <1>3
<1>6. t \in Seq(X \cup {0}) /\ Len(t) = m /\ DOMAIN t = 1 .. m
  BY <1>5, SeqDef, LenProperties
<1>7. Outside(t, {0}) \in Seq(X)
  <2>1. (X \cup {0}) \ {0} = X
    OBVIOUS
  <2>2. Outside(t, {0}) \in Seq((X \cup {0}) \ {0})
    BY <1>6, OutsideIsSeq
  <2> QED
    BY <2>1, <2>2
<1>8. \A i \in 1 .. m : t[i] # 0 => t[i] = s[i] /\ s[i] \notin Seen(i)
  BY <1>3
<1>9. \A a, b \in 1 .. m : t[a] = t[b] /\ t[a] # 0 => a = b
  <2> SUFFICES ASSUME NEW a \in 1 .. m, NEW b \in 1 .. m, a < b, t[a] = t[b], t[a] # 0 PROVE FALSE
    OBVIOUS
  <2>1. t[a] = s[a] /\ t[b] = s[b] /\ s[b] \notin Seen(b)
    <3> HIDE DEF Seen
    <3> QED
      BY <1>8
  <2>2. a \in 1 .. b - 1
    OBVIOUS
  <2> QED
    BY <2>1, <2>2
<1>10. \A i \in 1 .. m : t[i] = IF s[i] \in Seen(i) THEN 0 ELSE s[i]
  BY <1>3
<1>11. \A i \in 1 .. m : s[i] \in ToSet(t)
  <2> DEFINE T == {n \in 0 .. m : \A i \in 1 .. n : s[i] \in ToSet(t)}
  <2>1. 0 \in T
    OBVIOUS
  <2>2. ASSUME NEW n \in 1 .. m, n - 1 \in T PROVE n \in T
    <3>1. \A i \in 1 .. n - 1 : s[i] \in ToSet(t)
      BY <2>2
    <3>2. s[n] \in ToSet(t)
      <4>1. CASE s[n] \in Seen(n)
        BY <3>1, <4>1
      <4>2. CASE s[n] \notin Seen(n)
        <5>1. t[n] = s[n]
          BY <1>10, <4>2
        <5> QED
          BY <1>6, <5>1 DEF ToSet
      <4> QED
        BY <4>1, <4>2
    <3>3. \A i \in 1 .. n : i \in 1 .. n - 1 \/ i = n
      OBVIOUS
    <3> QED
      BY <3>1, <3>2, <3>3
  <2>3. m \in T
    <3> HIDE DEF T
    <3>1. \A n \in 1 .. m : n - 1 \in T => n \in T
      BY <2>2
    <3>2. \A n \in 0 .. m : n \in T
      BY <2>1, <3>1, InductionUpTo
    <3> QED
      BY <3>2
  <2> QED
    BY <2>3
<1>12. ToSet(t) \ {0} = ToSet(s)
  <2>1. ToSet(t) \ {0} \subseteq ToSet(s)
    <3> HIDE DEF Seen
    <3> QED
      BY <1>1, <1>6, <1>8 DEF ToSet
  <2>2. ToSet(s) \subseteq ToSet(t) \ {0}
    <3>1. \A i \in 1 .. m : s[i] # 0
      BY <1>2
    <3> QED
      BY <1>1, <1>11, <3>1 DEF ToSet
  <2> QED
    BY <2>1, <2>2
<1>13. ToSet(Outside(t, {0})) = ToSet(t) \ {0} /\ IsInjective(Outside(t, {0}))
  <2>1. \A a, b \in 1 .. Len(t) : t[a] = t[b] /\ t[a] \notin {0} => a = b
    BY <1>6, <1>9
  <2> QED
    BY <1>6, <2>1, OutsideIs
<1> QED
  BY <1>4, <1>7, <1>12, <1>13

\* The first n elements of a sequence.
LEMMA PrefixIs ==
    ASSUME NEW X, NEW a \in Seq(X), NEW n \in Nat
    PROVE  LET s == SubSeq(a, 1, Least(n, Len(a)))
           IN /\ Len(s) = Least(n, Len(a)) /\ DOMAIN s = 1 .. Least(n, Len(a))
              /\ \A i \in 1 .. Least(n, Len(a)) : i \in DOMAIN a /\ s[i] = a[i]
              /\ IsInjective(a) => IsInjective(s)
<1>0. PICK s : s = SubSeq(a, 1, Least(n, Len(a)))
  OBVIOUS
<1>1. PICK l \in Nat : l = Len(a) /\ DOMAIN a = 1 .. l
  BY LenProperties
<1>2. PICK k \in Nat : k = Least(n, l) /\ k <= l
  BY DEF Least
<1>3. \A i \in 1 .. k : i \in 1 .. l /\ a[i] \in X
  BY <1>1, <1>2, ElementOfSeq
<1>4. s = SubSeq(a, 1, k)
  BY <1>0, <1>1, <1>2
<1>5. s \in Seq(X) /\ Len(s) = k /\ \A i \in 1 .. k : s[i] = a[i]
  <2>1. /\ s \in Seq(X) /\ Len(s) = (IF 1 <= k THEN k - 1 + 1 ELSE 0)
        /\ \A i \in 1 .. k - 1 + 1 : s[i] = a[1 + i - 1]
    <3>1. /\ SubSeq(a, 1, k) \in Seq(X)
          /\ Len(SubSeq(a, 1, k)) = (IF 1 <= k THEN k - 1 + 1 ELSE 0)
          /\ \A i \in 1 .. k - 1 + 1 : SubSeq(a, 1, k)[i] = a[1 + i - 1]
      <4>1. 1 \in Int /\ k \in Int
        OBVIOUS
      <4> QED
        BY <1>3, <4>1, SubSeqProperties
    <3> QED
      BY <1>4, <3>1
  <2>2. \A i \in 1 .. k : i \in 1 .. k - 1 + 1 /\ 1 + i - 1 = i
    OBVIOUS
  <2>3. \A i \in 1 .. k : s[i] = a[i]
    <3> SUFFICES ASSUME NEW i \in 1 .. k PROVE s[i] = a[i]
      OBVIOUS
    <3>1. s[i] = a[1 + i - 1] /\ 1 + i - 1 = i
      BY <2>1, <2>2
    <3> QED
      BY <3>1
  <2>4. Len(s) = k
    BY <2>1
  <2> QED
    BY <2>1, <2>3, <2>4
<1>6. DOMAIN s = 1 .. k
  BY <1>5, LenProperties
<1>7. IsInjective(a) => IsInjective(s)
  BY <1>1, <1>3, <1>5, <1>6 DEF IsInjective
<1> QED
  BY <1>0, <1>1, <1>2, <1>3, <1>5, <1>6, <1>7

\* A sequence without a repetition is as long as it has elements.
LEMMA AsLongAsItHas ==
    ASSUME NEW X, NEW a \in Seq(X), IsInjective(a)
    PROVE  IsFiniteSet(ToSet(a)) /\ Cardinality(ToSet(a)) = Len(a)
<1>1. PICK n \in Nat : n = Len(a) /\ DOMAIN a = 1 .. n
  BY LenProperties
<1>2. IsFiniteSet(1 .. n) /\ Cardinality(1 .. n) = n
  BY FS_Interval
<1>3. a = [i \in 1 .. n |-> a[i]]
  BY <1>1, LenProperties
<1>4. a \in [1 .. n -> ToSet(a)] /\ \A x \in ToSet(a) : \E i \in 1 .. n : a[i] = x
  BY <1>1, <1>3 DEF ToSet
<1>5. a \in Surjection(1 .. n, ToSet(a))
  BY <1>4 DEF Surjection
<1>6. a \in Injection(1 .. n, ToSet(a))
  BY <1>1, <1>4 DEF Injection, IsInjective
<1> QED
  BY <1>1, <1>2, <1>5, <1>6, FS_Surjection

\* Going round, everyone else is met.
LEMMA RoundRobin ==
    ASSUME NEW L \in Nat, NEW idx \in 1 .. L, NEW i \in 1 .. L, i # idx
    PROVE  \E step \in 1 .. L : 1 + ((idx - 1 + step) % L) = i
<1>1. \A r \in 0 .. L - 1 : r % L = r /\ (r + L) % L = r
  OBVIOUS
<1>2. CASE i > idx
  <2>1. i - idx \in 1 .. L /\ idx - 1 + (i - idx) = i - 1 /\ i - 1 \in 0 .. L - 1
    BY <1>2
  <2>2. PICK step \in 1 .. L : idx - 1 + step = i - 1
    BY <2>1
  <2>3. (i - 1) % L = i - 1
    BY <1>1, <2>1
  <2>4. 1 + ((idx - 1 + step) % L) = i
    BY <2>2, <2>3
  <2> QED
    BY <2>4
<1>3. CASE i < idx
  <2>1. i - idx + L \in 1 .. L /\ idx - 1 + (i - idx + L) = i - 1 + L /\ i - 1 \in 0 .. L - 1
    BY <1>3
  <2>2. PICK step \in 1 .. L : idx - 1 + step = i - 1 + L
    BY <2>1
  <2>3. (i - 1 + L) % L = i - 1
    BY <1>1, <2>1
  <2>4. 1 + ((idx - 1 + step) % L) = i
    BY <2>2, <2>3
  <2> QED
    BY <2>4
<1> QED
  BY <1>2, <1>3

\* A set of numbers up to N that has with each the smaller ones is an interval.
LEMMA DownToOne ==
    ASSUME NEW N \in Nat, NEW V \in SUBSET (1 .. N),
           \A a \in V : \A b \in 1 .. N : b <= a => b \in V
    PROVE  Cardinality(V) \in 0 .. N /\ V = 1 .. Cardinality(V)
<1>1. PICK m \in 0 .. N : V = 1 .. m
  <2>1. CASE V = 1 .. N
    BY <2>1
  <2>2. CASE V # 1 .. N
    <3>1. (1 .. N) \ V # {} /\ (1 .. N) \ V \subseteq Nat
      <4>1. \E a \in 1 .. N : a \notin V
        BY <2>2
      <4> QED
        BY <4>1
    <3>2. PICK k \in (1 .. N) \ V : \A j \in (1 .. N) \ V : k <= j
      BY <3>1, LeastNatural
    <3>3. k - 1 \in 0 .. N
      OBVIOUS
    <3>4. \A a \in 1 .. N : a \in V <=> a <= k - 1
      BY <3>2
    <3>5. V = 1 .. k - 1
      <4>1. \A a \in 1 .. k - 1 : a \in 1 .. N /\ a <= k - 1
        BY <3>3
      <4>2. \A a \in V : a \in 1 .. N /\ a <= k - 1
        BY <3>4
      <4>3. \A a \in V : a \in 1 .. k - 1
        BY <3>3, <4>2
      <4> QED
        BY <3>4, <4>1, <4>3
    <3> QED
      BY <3>3, <3>5
  <2> QED
    BY <2>1, <2>2
<1>2. Cardinality(1 .. m) = m
  BY FS_Interval
<1> QED
  BY <1>1, <1>2

---------------------------------------------------------------------------
(***************************************************************************)
(* The control of the judge.                                               *)
(***************************************************************************)

\* N campaigns with creatives for known personas, and the personas of all but one.
HasCasts(cs, N) ==
    /\ N \in Nat /\ DOMAIN cs = 1 .. N /\ Len(cs) = N
    /\ \A i \in 1 .. N : Cast(cs[i]) \in Seq(PersonaIDs)
Others(cs, idx) == UNION {ToSet(Cast(cs[i])) : i \in DOMAIN cs \ {idx}}

\* The casts that the control looks at are those of all other campaigns, unless those
\* already seen have n personas outside real.
LEMMA VisitedIs ==
    ASSUME IsFiniteSet(PersonaIDs), NEW N, NEW cs, HasCasts(cs, N),
           NEW idx \in 1 .. N, NEW n \in Nat, NEW real
    PROVE  /\ VisitedCasts(cs, idx, n, real) \in Seq(PersonaIDs)
           /\ \/ Cardinality(ToSet(VisitedCasts(cs, idx, n, real)) \ real) >= n
              \/ ToSet(VisitedCasts(cs, idx, n, real)) = Others(cs, idx)
<1>a. /\ N \in Nat /\ DOMAIN cs = 1 .. N /\ Len(cs) = N
      /\ \A i \in 1 .. N : Cast(cs[i]) \in Seq(PersonaIDs)
  BY DEF HasCasts
<1>b. PICK visited : visited = VisitedCasts(cs, idx, n, real)
  OBVIOUS
<1> USE <1>a
<1> DEFINE at(step) == 1 + ((idx - 1 + step) % Len(cs))
           cast(step) == LET other == 1 + ((idx - 1 + step) % Len(cs))
                         IN IF other = idx THEN << >> ELSE Cast(cs[other])
           before(step) == PersonaIDs \cap UNION {ToSet(cast(k)) : k \in 1 .. step - 1}
           visits == {step \in DOMAIN cs : Cardinality(before(step) \ real) < n}
<1>1. \A step \in 1 .. N : at(step) \in 1 .. N
  OBVIOUS
<1>2. \A step \in 1 .. N : cast(step) \in Seq(PersonaIDs)
  <2> SUFFICES ASSUME NEW step \in 1 .. N PROVE cast(step) \in Seq(PersonaIDs)
    OBVIOUS
  <2>1. CASE at(step) = idx
    BY <2>1
  <2>2. CASE at(step) # idx
    BY <1>1, <2>2
  <2> QED
    BY <2>1, <2>2
<1>3. \A step \in 1 .. N :
        cast(step) = << >> \/ \E i \in DOMAIN cs \ {idx} : cast(step) = Cast(cs[i])
  BY <1>1
<1>4. \A i \in DOMAIN cs \ {idx} : \E step \in 1 .. N : cast(step) = Cast(cs[i])
  <2> SUFFICES ASSUME NEW i \in DOMAIN cs \ {idx}
               PROVE  \E step \in 1 .. N : cast(step) = Cast(cs[i])
    OBVIOUS
  <2>1. PICK step \in 1 .. N : 1 + ((idx - 1 + step) % N) = i
    <3>1. i \in 1 .. N /\ i # idx
      OBVIOUS
    <3> QED
      BY <3>1, RoundRobin
  <2>2. cast(step) = Cast(cs[i])
    BY <2>1
  <2> QED
    BY <2>2
<1>5. visited = FlattenSeq([step \in 1 .. Cardinality(visits) |-> cast(step)])
  BY <1>b DEF VisitedCasts
<1> HIDE DEF at, cast
<1>6. \A a, b \in 1 .. N : b <= a => before(b) \subseteq before(a)
  <2> SUFFICES ASSUME NEW a \in 1 .. N, NEW b \in 1 .. N, b <= a PROVE before(b) \subseteq before(a)
    OBVIOUS
  <2>1. 1 .. b - 1 \subseteq 1 .. a - 1
    OBVIOUS
  <2> QED
    BY <2>1
<1>7. \A a \in 1 .. N : /\ IsFiniteSet(before(a) \ real)
                        /\ Cardinality(before(a) \ real) \in Nat
  <2> SUFFICES ASSUME NEW a \in 1 .. N
               PROVE  IsFiniteSet(before(a) \ real) /\ Cardinality(before(a) \ real) \in Nat
    OBVIOUS
  <2>1. before(a) \ real \in SUBSET PersonaIDs
    OBVIOUS
  <2> HIDE DEF before
  <2> QED
    BY <2>1, FS_Subset, FS_CardinalityType
<1>8. PICK m \in 0 .. N : m = Cardinality(visits) /\ visits = 1 .. m
  <2>1. ASSUME NEW a \in visits, NEW b \in 1 .. N, b <= a PROVE b \in visits
    <3>1. before(b) \ real \in SUBSET (before(a) \ real)
      BY <1>6, <2>1
    <3>2. a \in 1 .. N /\ Cardinality(before(a) \ real) < n
      OBVIOUS
    <3> HIDE DEF before
    <3>3. PICK k \in Nat : k = Cardinality(before(a) \ real)
      BY <1>7, <3>2
    <3>4. PICK l \in Nat : l = Cardinality(before(b) \ real)
      BY <1>7
    <3>5. l <= k
      BY <1>7, <3>1, <3>2, <3>3, <3>4, FS_Subset
    <3>6. l < n
      BY <3>2, <3>3, <3>5
    <3> QED
      BY <3>4, <3>6
  <2>2. visits \in SUBSET (1 .. N)
    OBVIOUS
  <2> HIDE DEF visits
  <2>3. Cardinality(visits) \in 0 .. N /\ visits = 1 .. Cardinality(visits)
    BY <2>1, <2>2, DownToOne
  <2> QED
    BY <2>3
<1>9. PICK ss : ss = [step \in 1 .. m |-> cast(step)]
  OBVIOUS
<1>10. ss \in Seq(Seq(PersonaIDs)) /\ Len(ss) = m /\ \A step \in 1 .. m : ss[step] = cast(step)
  <2>1. ss \in [1 .. m -> Seq(PersonaIDs)]
    BY <1>2, <1>9
  <2>2. ss \in Seq(Seq(PersonaIDs))
    BY <2>1, SeqDef
  <2> QED
    BY <1>9, <2>1, <2>2, LenProperties
<1>11. visited = FlattenSeq(ss)
  BY <1>5, <1>8, <1>9
<1>12. /\ visited \in Seq(PersonaIDs)
       /\ ToSet(visited) = UNION {ToSet(ss[step]) : step \in 1 .. Len(ss)}
  BY <1>10, <1>11, FlattenIs
<1>13. ToSet(visited) = UNION {ToSet(cast(step)) : step \in 1 .. m}
  BY <1>10, <1>12
<1>14. ToSet(visited) \subseteq PersonaIDs
  <2>1. DOMAIN visited = 1 .. Len(visited)
    BY <1>12, LenProperties
  <2> QED
    BY <1>12, <2>1, ElementOfSeq DEF ToSet
<1>15. CASE m = N
  <2>1. ToSet(<< >>) = {}
    BY DEF ToSet
  <2>2. ToSet(visited) \subseteq UNION {ToSet(Cast(cs[i])) : i \in DOMAIN cs \ {idx}}
    <3> SUFFICES ASSUME NEW step \in 1 .. N, NEW x \in ToSet(cast(step))
                 PROVE  \E i \in DOMAIN cs \ {idx} : x \in ToSet(Cast(cs[i]))
      BY <1>13, <1>15
    <3> QED
      BY <1>3, <2>1
  <2>3. UNION {ToSet(Cast(cs[i])) : i \in DOMAIN cs \ {idx}} \subseteq ToSet(visited)
    <3> SUFFICES ASSUME NEW i \in DOMAIN cs \ {idx}, NEW x \in ToSet(Cast(cs[i]))
                 PROVE  \E step \in 1 .. N : x \in ToSet(cast(step))
      BY <1>13, <1>15
    <3> QED
      BY <1>4
  <2> QED
    BY <1>b, <1>12, <2>2, <2>3 DEF Others
<1>16. CASE m # N
  <2>1. m + 1 \in 1 .. N /\ m + 1 \notin 1 .. m /\ m + 1 - 1 = m
    BY <1>16
  <2>2. ~(Cardinality(before(m + 1) \ real) < n)
    BY <1>8, <2>1
  <2>3. before(m + 1) = ToSet(visited)
    BY <1>13, <1>14, <2>1
  <2>4. Cardinality(before(m + 1) \ real) \in Nat
    BY <1>7, <2>1
  <2>5. Cardinality(ToSet(visited) \ real) \in Nat /\ ~(Cardinality(ToSet(visited) \ real) < n)
    <3> HIDE DEF before
    <3> QED
      BY <2>2, <2>3, <2>4
  <2> QED
    BY <1>b, <1>12, <2>5
<1> QED
  BY <1>15, <1>16

\* The control is made of the catalog's personas, each once, those of other campaigns
\* outside real first.
LEMMA ControlIs ==
    ASSUME 0 \notin PersonaIDs, IDsOf(Personas) \in Seq(PersonaIDs), IsInjective(IDsOf(Personas)),
           ToSet(IDsOf(Personas)) = PersonaIDs,
           NEW N, NEW cs, HasCasts(cs, N),
           NEW idx \in 1 .. N, NEW n \in Nat, NEW real
    PROVE  LET ids == ControlPersonaIDs(cs, idx, n, real)
           IN /\ IsInjective(ids) /\ Len(ids) = Least(n, Cardinality(PersonaIDs))
              /\ ToSet(ids) \cap real # {} => Cardinality(Others(cs, idx) \ real) < n
<1>0. PICK ids : ids = ControlPersonaIDs(cs, idx, n, real)
  OBVIOUS
<1>1. IsFiniteSet(PersonaIDs) /\ Cardinality(PersonaIDs) = Len(IDsOf(Personas))
  BY AsLongAsItHas
<1>2. PICK visited : visited = VisitedCasts(cs, idx, n, real)
  OBVIOUS
<1>3. /\ visited \in Seq(PersonaIDs)
      /\ \/ Cardinality(ToSet(visited) \ real) >= n
         \/ ToSet(visited) = Others(cs, idx)
  BY <1>1, <1>2, VisitedIs
<1>4. PICK met : met = Outside(visited, ToSet(visited) \ PersonaIDs)
  OBVIOUS
<1>5. met \in Seq(PersonaIDs) /\ ToSet(met) = ToSet(visited)
  <2>1. ToSet(visited) \subseteq PersonaIDs
    BY <1>3, LenProperties, ElementOfSeq DEF ToSet
  <2>2. /\ met \in Seq(PersonaIDs)
        /\ ToSet(met) = ToSet(visited) \ (ToSet(visited) \ PersonaIDs)
    BY <1>3, <1>4, OutsideIs
  <2> QED
    BY <2>1, <2>2
<1>6. PICK known : known = Distinct(met)
  OBVIOUS
<1>7. known \in Seq(PersonaIDs) /\ ToSet(known) = ToSet(visited) /\ IsInjective(known)
  BY <1>5, <1>6, DistinctIs
<1>8. \A s \in Seq(PersonaIDs) : \A S : IsInjective(s) =>
          /\ Outside(s, S) \in Seq(PersonaIDs) /\ ToSet(Outside(s, S)) = ToSet(s) \ S
          /\ IsInjective(Outside(s, S))
  <2> SUFFICES ASSUME NEW s \in Seq(PersonaIDs), NEW S, IsInjective(s)
               PROVE  /\ Outside(s, S) \in Seq(PersonaIDs) /\ ToSet(Outside(s, S)) = ToSet(s) \ S
                      /\ IsInjective(Outside(s, S))
    OBVIOUS
  <2>1. \A a, b \in 1 .. Len(s) : s[a] = s[b] /\ s[a] \notin S => a = b
    BY LenProperties DEF IsInjective
  <2> QED
    BY <2>1, OutsideIs
<1>9. PICK rest : rest = Outside(IDsOf(Personas), ToSet(known))
  OBVIOUS
<1>10. rest \in Seq(PersonaIDs) /\ ToSet(rest) = PersonaIDs \ ToSet(known) /\ IsInjective(rest)
  BY <1>8, <1>9
<1>11. PICK a : a = Outside(known, real)
  OBVIOUS
<1>12. PICK b : b = Outside(known, ToSet(known) \ real)
  OBVIOUS
<1>13. PICK c : c = Outside(rest, real)
  OBVIOUS
<1>14. PICK d : d = Outside(rest, ToSet(rest) \ real)
  OBVIOUS
<1>15. a \in Seq(PersonaIDs) /\ ToSet(a) = ToSet(known) \ real /\ IsInjective(a)
  BY <1>7, <1>8, <1>11
<1>16. b \in Seq(PersonaIDs) /\ ToSet(b) = ToSet(known) \cap real /\ IsInjective(b)
  BY <1>7, <1>8, <1>12
<1>17. c \in Seq(PersonaIDs) /\ ToSet(c) = ToSet(rest) \ real /\ IsInjective(c)
  BY <1>10, <1>8, <1>13
<1>18. d \in Seq(PersonaIDs) /\ ToSet(d) = ToSet(rest) \cap real /\ IsInjective(d)
  BY <1>10, <1>8, <1>14
<1>19. PICK ab : ab = a \o b
  OBVIOUS
<1>20. /\ ab \in Seq(PersonaIDs) /\ ToSet(ab) = ToSet(known) /\ IsInjective(ab)
       /\ Len(ab) = Len(a) + Len(b) /\ \A i \in 1 .. Len(a) : ab[i] = a[i]
  <2>1. /\ ab \in Seq(PersonaIDs) /\ ToSet(ab) = ToSet(a) \cup ToSet(b)
        /\ ToSet(a) \cap ToSet(b) = {} => IsInjective(ab)
        /\ Len(ab) = Len(a) + Len(b) /\ \A i \in 1 .. Len(a) : ab[i] = a[i]
    BY <1>15, <1>16, <1>19, JoinIs
  <2> QED
    BY <1>15, <1>16, <2>1
<1>21. PICK abc : abc = ab \o c
  OBVIOUS
<1>22. /\ abc \in Seq(PersonaIDs) /\ ToSet(abc) = ToSet(known) \cup (ToSet(rest) \ real)
       /\ IsInjective(abc)
       /\ Len(abc) = Len(ab) + Len(c) /\ \A i \in 1 .. Len(ab) : abc[i] = ab[i]
  <2>1. /\ abc \in Seq(PersonaIDs) /\ ToSet(abc) = ToSet(ab) \cup ToSet(c)
        /\ ToSet(ab) \cap ToSet(c) = {} => IsInjective(abc)
        /\ Len(abc) = Len(ab) + Len(c) /\ \A i \in 1 .. Len(ab) : abc[i] = ab[i]
    <3>1. ab \in Seq(PersonaIDs) /\ c \in Seq(PersonaIDs) /\ IsInjective(ab) /\ IsInjective(c)
      BY <1>17, <1>20
    <3>2. /\ ab \o c \in Seq(PersonaIDs) /\ ToSet(ab \o c) = ToSet(ab) \cup ToSet(c)
          /\ ToSet(ab) \cap ToSet(c) = {} => IsInjective(ab \o c)
          /\ Len(ab \o c) = Len(ab) + Len(c)
          /\ \A i \in 1 .. Len(ab) : (ab \o c)[i] = ab[i]
      BY <3>1, JoinIs
    <3> QED
      BY <1>21, <3>2
  <2> QED
    BY <1>10, <1>17, <1>20, <2>1
<1>23. PICK all : all = abc \o d
  OBVIOUS
<1>24. /\ all \in Seq(PersonaIDs) /\ ToSet(all) = PersonaIDs /\ IsInjective(all)
       /\ Len(all) = Len(abc) + Len(d) /\ \A i \in 1 .. Len(abc) : all[i] = abc[i]
  <2>1. /\ all \in Seq(PersonaIDs) /\ ToSet(all) = ToSet(abc) \cup ToSet(d)
        /\ ToSet(abc) \cap ToSet(d) = {} => IsInjective(all)
        /\ Len(all) = Len(abc) + Len(d) /\ \A i \in 1 .. Len(abc) : all[i] = abc[i]
    <3>1. abc \in Seq(PersonaIDs) /\ d \in Seq(PersonaIDs) /\ IsInjective(abc) /\ IsInjective(d)
      BY <1>18, <1>22
    <3>2. /\ abc \o d \in Seq(PersonaIDs) /\ ToSet(abc \o d) = ToSet(abc) \cup ToSet(d)
          /\ ToSet(abc) \cap ToSet(d) = {} => IsInjective(abc \o d)
          /\ Len(abc \o d) = Len(abc) + Len(d)
          /\ \A i \in 1 .. Len(abc) : (abc \o d)[i] = abc[i]
      BY <3>1, JoinIs
    <3> QED
      BY <1>23, <3>2
  <2>2. ToSet(known) \subseteq PersonaIDs
    BY <1>7, LenProperties, ElementOfSeq DEF ToSet
  <2> QED
    BY <1>10, <1>18, <1>22, <2>1, <2>2
<1>25. ids = SubSeq(all, 1, Least(n, Len(all)))
  BY <1>0, <1>2, <1>4, <1>6, <1>9, <1>11, <1>12, <1>13, <1>14, <1>19, <1>21, <1>23
     DEF ControlPersonaIDs
<1>26. Len(all) = Cardinality(PersonaIDs)
  BY <1>24, AsLongAsItHas
<1>27. /\ Len(ids) = Least(n, Len(all)) /\ DOMAIN ids = 1 .. Least(n, Len(all))
       /\ \A i \in 1 .. Least(n, Len(all)) : i \in DOMAIN all /\ ids[i] = all[i]
       /\ IsInjective(ids)
  <2>1. all \in Seq(PersonaIDs) /\ IsInjective(all)
    BY <1>24
  <2> QED
    <3>1. PICK t : t = SubSeq(all, 1, Least(n, Len(all)))
      OBVIOUS
    <3>2. /\ Len(t) = Least(n, Len(all)) /\ DOMAIN t = 1 .. Least(n, Len(all))
          /\ \A i \in 1 .. Least(n, Len(all)) : i \in DOMAIN all /\ t[i] = all[i]
          /\ IsInjective(t)
      BY <2>1, <3>1, PrefixIs
    <3> QED
      BY <1>25, <3>1, <3>2
<1>28. ASSUME ~(Cardinality(Others(cs, idx) \ real) < n) PROVE ToSet(ids) \cap real = {}
  <2>1. Others(cs, idx) \ real \in SUBSET PersonaIDs
    <3>1. \A i \in DOMAIN cs : ToSet(Cast(cs[i])) \subseteq PersonaIDs
      BY LenProperties, ElementOfSeq DEF HasCasts, ToSet
    <3> QED
      BY <3>1 DEF Others
  <2>2. Cardinality(Others(cs, idx) \ real) \in Nat
    BY <1>1, <2>1, FS_Subset, FS_CardinalityType
  <2>3. Cardinality(ToSet(visited) \ real) >= n
    <3>1. PICK k \in Nat : k = Cardinality(Others(cs, idx) \ real)
      BY <2>2
    <3>2. k >= n
      BY <1>28, <3>1
    <3>3. ToSet(visited) = Others(cs, idx) => Cardinality(ToSet(visited) \ real) = k
      BY <3>1
    <3> QED
      BY <1>3, <3>2, <3>3
  <2>4. PICK l \in Nat : l = Len(a) /\ l >= n
    <3>1. Len(a) \in Nat /\ Cardinality(ToSet(a)) = Len(a)
      BY <1>15, AsLongAsItHas, LenProperties
    <3>2. ToSet(a) = ToSet(visited) \ real
      BY <1>7, <1>15
    <3> QED
      BY <2>3, <3>1, <3>2
  <2>5. PICK k \in Nat : k = Least(n, Len(all)) /\ k <= n
    BY <1>24, LenProperties DEF Least
  <2>6. PICK l2 \in Nat : l2 = Len(ab) /\ l <= l2
    BY <1>16, <1>20, <2>4, LenProperties
  <2>7. PICK l3 \in Nat : l3 = Len(abc) /\ l2 <= l3
    BY <1>17, <1>22, <2>6, LenProperties
  <2>8. \A i \in 1 .. k : ids[i] = a[i] /\ i \in 1 .. l
    <3> SUFFICES ASSUME NEW i \in 1 .. k PROVE ids[i] = a[i] /\ i \in 1 .. l
      OBVIOUS
    <3>1. i \in 1 .. l /\ i \in 1 .. l2 /\ i \in 1 .. l3
      BY <2>4, <2>5, <2>6, <2>7
    <3> QED
      BY <1>20, <1>22, <1>24, <1>27, <2>4, <2>5, <2>6, <2>7, <3>1
  <2>9. DOMAIN a = 1 .. l
    BY <1>15, <2>4, LenProperties
  <2>10. ToSet(ids) \subseteq ToSet(a)
    BY <1>27, <2>5, <2>8, <2>9 DEF ToSet
  <2> QED
    BY <1>15, <2>10
<1> QED
  BY <1>0, <1>26, <1>27, <1>28

\* The personas of a catalog that loads have ids of their own, and none is 0.
LEMMA PersonasAreKnown ==
    ASSUME DraftsInv, Loads
    PROVE  /\ 0 \notin PersonaIDs /\ IDsOf(Personas) \in Seq(PersonaIDs)
           /\ IsInjective(IDsOf(Personas)) /\ ToSet(IDsOf(Personas)) = PersonaIDs
<1>1. IsCatalog(work.catalog) /\ IsSeq(Personas) /\ Personas = work.catalog.personas
  BY CatalogIsOne DEF Personas
<1>2. PICK ids : ids = IDsOf(Personas) /\ ids = [i \in DOMAIN Personas |-> Personas[i].id]
  BY DEF IDsOf
<1>3. IsSeq(ids)
  <2>1. DOMAIN ids = DOMAIN Personas /\ ids = [i \in DOMAIN ids |-> ids[i]]
    BY <1>2
  <2> QED
    BY <1>1, <2>1, SameLength
<1>4. ToSet(ids) = PersonaIDs
  BY <1>2 DEF ToSet, PersonaIDs
<1>5. \A q \in ToSet(Personas) : q.id # 0
  BY <1>1 DEF IsCatalog
<1> QED
  BY <1>2, <1>3, <1>4, <1>5 DEF IsSeq, PersonaIDs, Loads

\* The creatives of every campaign are for personas of the catalog.
LEMMA CastsAreKnown ==
    ASSUME NEW in, IsInput(in, work.catalog), NEW c,
           c.creatives = << >> \/ c.creatives = Creatives(in)
    PROVE  Cast(c) \in Seq(PersonaIDs)
<1>1. CASE c.creatives = << >>
  <2>1. Cast(c) = << >>
    BY <1>1 DEF Cast
  <2> QED
    BY <2>1
<1>2. CASE c.creatives = Creatives(in)
  <2>1. IsSeq(in.cast) /\ \A i \in DOMAIN in.cast : in.cast[i].persona \in PersonaIDs
    BY DEF IsInput, PersonaIDs, Personas
  <2>2. Cast(c) = [i \in DOMAIN in.cast |-> in.cast[i].persona]
    BY <1>2 DEF Cast, Creatives
  <2>3. PICK n \in Nat : DOMAIN in.cast = 1 .. n
    BY <2>1, LenProperties DEF IsSeq
  <2>4. Cast(c) \in [1 .. n -> PersonaIDs]
    BY <2>1, <2>2, <2>3
  <2> QED
    BY <2>4, SeqDef
<1> QED
  BY <1>1, <1>2

\* What measure has drafted are campaigns for personas of the catalog.
LEMMA MeasuredHaveCasts ==
    ASSUME DraftsInv, NEW p \in Procs, Run(p).command = "measure"
    PROVE  HasCasts(drafts[p], Len(drafts[p]))
<1>1. drafts[p] \in Seq(Possible(p))
  BY DEF DraftsInv, DraftsOK
<1>2. Len(drafts[p]) \in Nat /\ DOMAIN drafts[p] = 1 .. Len(drafts[p])
  BY <1>1, LenProperties
<1>3. ASSUME NEW i \in 1 .. Len(drafts[p]) PROVE Cast(drafts[p][i]) \in Seq(PersonaIDs)
  <2>1. PICK c : c = drafts[p][i] /\ c \in Possible(p)
    BY <1>1, ElementOfSeq
  <2>2. c # NoCampaign
    BY <2>1, CampaignsHaveAStatus DEF Possible
  <2>3. c \in Drafted(p)
    BY <1>2, <2>1, <2>2 DEF Drafted, ToSet
  <2>4. PICK in, allocated : /\ IsInput(in, work.catalog)
                             /\ allocated \in Allocations(in) /\ c = Build(in, allocated)
    BY <2>3, DraftedIsBuilt
  <2>5. c.creatives = << >> \/ c.creatives = Creatives(in)
    BY <2>4, BuiltHas
  <2>6. Cast(c) \in Seq(PersonaIDs)
    BY <2>4, <2>5, CastsAreKnown
  <2> QED
    BY <2>1, <2>6
<1> QED
  BY <1>2, <1>3 DEF HasCasts

\* The control of every campaign is as long as the real task, or as the catalog, has
\* nobody twice, and shows one of the campaign's own personas only if the other
\* campaigns have too few others.
THEOREM ControlIsAsLongAsTheCast == Spec => []ControlAsHardAsCanBe
<1>1. DraftsInv /\ JudgeInv /\ FilesInv => ControlAsHardAsCanBe
  <2> SUFFICES ASSUME DraftsInv, JudgeInv, FilesInv, NEW p \in Procs,
                      pc[p] = "judge", judge[p].at <= Len(drafts[p])
               PROVE  LET n == Len(Cast(Campaign(p)))
                          real == RealPersonas(p)
                          ids == ControlPersonaIDs(drafts[p], judge[p].at, n, real)
                          others == UNION {ToSet(Cast(drafts[p][i])) :
                                              i \in DOMAIN drafts[p] \ {judge[p].at}}
                      IN /\ IsInjective(ids) /\ Len(ids) = Least(n, Cardinality(PersonaIDs))
                         /\ ToSet(ids) \cap real # {} => Cardinality(others \ real) < n
    BY DEF ControlAsHardAsCanBe
  <2>1. Run(p).command = "measure"
    BY DEF FilesInv, OnlyMeasureWrites
  <2>2. PICK N : N = Len(drafts[p]) /\ HasCasts(drafts[p], N)
    BY <2>1, MeasuredHaveCasts
  <2>3. PICK idx \in 1 .. N : idx = judge[p].at
    <3>1. judge[p].at \in Nat /\ judge[p].at > 0
      BY DEF JudgeInv, JudgeOK, Counters
    <3>2. N \in Nat /\ judge[p].at <= N
      BY <2>2 DEF HasCasts
    <3> QED
      BY <3>1, <3>2
  <2>4. PICK n \in Nat : n = Len(Cast(Campaign(p)))
    BY <2>2, <2>3, LenProperties DEF HasCasts, Campaign
  <2>5. Loads
    <3>1. drafts[p] # << >>
      BY <2>2, <2>3 DEF HasCasts
    <3> QED
      BY <3>1 DEF DraftsInv, DraftsOK
  <2>6. PICK ids : ids = ControlPersonaIDs(drafts[p], idx, n, RealPersonas(p))
    OBVIOUS
  <2>7. /\ IsInjective(ids) /\ Len(ids) = Least(n, Cardinality(PersonaIDs))
        /\ ToSet(ids) \cap RealPersonas(p) # {} =>
               Cardinality(Others(drafts[p], idx) \ RealPersonas(p)) < n
    <3>1. PICK cs : cs = drafts[p] /\ HasCasts(cs, N)
      BY <2>2
    <3>2. PICK real : real = RealPersonas(p)
      OBVIOUS
    <3>3. /\ 0 \notin PersonaIDs /\ IDsOf(Personas) \in Seq(PersonaIDs)
          /\ IsInjective(IDsOf(Personas)) /\ ToSet(IDsOf(Personas)) = PersonaIDs
      BY <2>5, PersonasAreKnown
    <3>4. ids = ControlPersonaIDs(cs, idx, n, real)
      BY <2>6, <3>1, <3>2
    <3>5. /\ IsInjective(ids) /\ Len(ids) = Least(n, Cardinality(PersonaIDs))
          /\ ToSet(ids) \cap real # {} => Cardinality(Others(cs, idx) \ real) < n
      BY <3>1, <3>3, <3>4, ControlIs
    <3> QED
      BY <3>1, <3>2, <3>5
  <2> QED
    BY <2>3, <2>4, <2>6, <2>7 DEF Others
<1> QED
  BY <1>1, DraftsComeFromBriefs, FilesAreTracked, JudgeStart, JudgeSteps, PTL DEF Spec

---------------------------------------------------------------------------
(***************************************************************************)
(* The page of a new report.                                               *)
(***************************************************************************)

\* A report is what was measured, until the first of it is written.
FreshReports == \A p \in Procs : pc[p] = "write head" => reports[p] = MeasureReport(p)

\* What is measured of a process depends on its drafts, its judge and the catalog.
LEMMA MeasuresStay ==
    ASSUME UNCHANGED work, NEW p, drafts'[p] = drafts[p], judge'[p] = judge[p]
    PROVE  MeasureReport(p)' = MeasureReport(p)
<1>1. \A profile : Ungated(profile)' = Ungated(profile)
  BY CampaignsStay DEF Ungated
<1>2. ScoringAblation(drafts[p])' = ScoringAblation(drafts[p])
  BY <1>1 DEF ScoringAblation
<1> QED
  BY <1>2 DEF MeasureReport

\* Nobody measures anew where a report is about to be written.
LEMMA FreshStay ==
    ASSUME FreshReports, UNCHANGED work,
           \A p \in Procs : pc'[p] = "write head" =>
               /\ pc[p] = "write head" /\ drafts'[p] = drafts[p] /\ judge'[p] = judge[p]
               /\ reports'[p] = reports[p]
    PROVE  FreshReports'
<1> SUFFICES ASSUME NEW p \in Procs, pc'[p] = "write head" PROVE reports'[p] = MeasureReport(p)'
  BY WorkStays DEF FreshReports
<1>1. MeasureReport(p)' = MeasureReport(p)
  BY MeasuresStay
<1> QED
  BY <1>1 DEF FreshReports

\* Only a process that is about to write makes a report, and it is its own.
LEMMA FreshSteps ==
    FilesInv /\ DraftsInv /\ JudgeInv /\ ReportsInv /\ FreshReports /\ [Next]_vars => FreshReports'
<1> SUFFICES ASSUME FilesInv, DraftsInv, JudgeInv, ReportsInv, FreshReports, [Next]_vars
             PROVE  FreshReports'
  OBVIOUS
<1>0. /\ pc \in [Procs -> Labels] /\ DOMAIN drafts = Procs /\ DOMAIN judge = Procs
      /\ Procs \subseteq DOMAIN pc
  BY DEF FilesInv, FilesTyped, DraftsInv, JudgeInv
<1>1. ASSUME UNCHANGED <<work, drafts, judge, reports>>,
             \/ UNCHANGED pc
             \/ \E q \in Procs : \E l : l # "write head" /\ pc' = [pc EXCEPT ![q] = l]
      PROVE  FreshReports'
  BY <1>0, <1>1, FreshStay
<1>2. ASSUME NEW q \in Procs, Drafts(q) PROVE FreshReports'
  <2>1. /\ UNCHANGED <<work, judge, reports>> /\ pc[q] # "write head"
        /\ UNCHANGED drafts \/ \E d : drafts' = [drafts EXCEPT ![q] = d]
        /\ UNCHANGED pc \/ \E l : l # "write head" /\ pc' = [pc EXCEPT ![q] = l]
    BY <1>2 DEF Drafts, Start, Draft, DraftFails, EndDrafts, Goto, fileVars
  <2>2. \A p \in Procs : pc'[p] = "write head" =>
            pc[p] = "write head" /\ drafts'[p] = drafts[p]
    BY <1>0, <2>1
  <2> QED
    BY <2>1, <2>2, FreshStay
<1>3. ASSUME NEW q \in Procs, Judges(q) PROVE FreshReports'
  <2>1. /\ UNCHANGED <<work, drafts, reports>> /\ pc[q] # "write head"
        /\ UNCHANGED judge \/ \E j : judge' = [judge EXCEPT ![q] = j]
        /\ UNCHANGED pc \/ \E l : l # "write head" /\ pc' = [pc EXCEPT ![q] = l]
    BY <1>3 DEF Judges, SkipCampaign, JudgeReal, JudgeControl, JudgeUnrecorded, JudgeFails,
                TakeReal, TakeControl, EndReal, EndControl, EndJudging, JudgeStep, Goto, fileVars
  <2>2. \A p \in Procs : pc'[p] = "write head" =>
            pc[p] = "write head" /\ judge'[p] = judge[p]
    BY <1>0, <2>1
  <2> QED
    BY <2>1, <2>2, FreshStay
<1>4. ASSUME NEW q \in Procs, CreateReport(q) PROVE FreshReports'
  <2>1. /\ UNCHANGED <<work, drafts, judge>> /\ pc' = [pc EXCEPT ![q] = "write head"]
        /\ reports' = [id \in DOMAIN reports \cup {q} |->
                          IF id = q THEN MeasureReport(q) ELSE reports[id]]
    BY <1>4 DEF CreateReport, Goto
  <2>2. \A p \in Procs : MeasureReport(p)' = MeasureReport(p)
    BY <2>1, MeasuresStay
  <2>3. reports'[q] = MeasureReport(q)
    BY <2>1
  <2>4. \A p \in Procs \ {q} : pc'[p] = "write head" =>
            pc[p] = "write head" /\ p \in DOMAIN reports /\ reports'[p] = reports[p]
    BY <1>0, <2>1 DEF ReportsInv, Writing
  <2> QED
    BY <2>1, <2>2, <2>3, <2>4, WorkStays DEF FreshReports
<1>5. ASSUME NEW q \in Procs, Writes(q), ~CreateReport(q) PROVE FreshReports'
  <2>1. /\ UNCHANGED <<work, drafts, judge, reports>>
        /\ \E l : l # "write head" /\ pc' = [pc EXCEPT ![q] = l]
    BY <1>5 DEF Writes, CreateFails, WriteBlock, CloseReport, AbandonReport, Goto, fileVars
  <2> QED
    BY <1>1, <2>1
<1>6. ASSUME NEW q \in Procs, Reads(q) \/ Serves(q) PROVE FreshReports'
  <2>1. UNCHANGED <<work, drafts, judge, reports>>
    BY <1>6 DEF Reads, OpenLatest, OpenComparison, OpenBaseline, ReadHead, ReadTail, EndMeasure,
                Open, Serves, Bind, Fallback, HandleRun, StopServer, fileVars
  <2>2. UNCHANGED pc \/ \E l : l # "write head" /\ pc' = [pc EXCEPT ![q] = l]
    BY <1>6 DEF Reads, OpenLatest, OpenComparison, OpenBaseline, ReadHead, ReadTail, EndMeasure,
                Serves, Bind, Fallback, HandleRun, StopServer, Goto
  <2> QED
    BY <1>1, <2>1, <2>2
<1>7. ASSUME NEW port \in Port, Neighbour(port), UNCHANGED <<judge, fileVars>> PROVE FreshReports'
  BY <1>1, <1>7 DEF Neighbour, fileVars
<1>8. CASE UNCHANGED vars
  BY <1>1, <1>8 DEF vars, fileVars
<1> QED
  BY <1>2, <1>3, <1>4, <1>5, <1>6, <1>7, <1>8 DEF Next

\* Each campaign that measure looks at was built from a proper input.
LEMMA MeasuredAreBuilt ==
    ASSUME DraftsInv, NEW p \in Procs, Run(p).command = "measure", NEW i \in DOMAIN drafts[p]
    PROVE  \E in : /\ IsInput(in, work.catalog)
                   /\ drafts[p][i].profile = in.profile /\ drafts[p][i].ledger = Ledger(in)
                   /\ \/ drafts[p][i].creatives = << >>
                      \/ drafts[p][i].creatives = Creatives(in)
<1>1. drafts[p] \in Seq(Possible(p))
  BY DEF DraftsInv, DraftsOK
<1>2. i \in 1 .. Len(drafts[p])
  BY <1>1, LenProperties
<1>3. PICK c : c = drafts[p][i] /\ c \in Possible(p)
  BY <1>1, <1>2, ElementOfSeq
<1>4. c \in Drafted(p)
  BY <1>3, CampaignsHaveAStatus DEF Possible, Drafted, ToSet
<1>5. PICK in, allocated : /\ IsInput(in, work.catalog)
                           /\ allocated \in Allocations(in) /\ c = Build(in, allocated)
  BY <1>4, DraftedIsBuilt
<1>6. /\ c.profile = in.profile /\ c.ledger = Ledger(in)
      /\ c.creatives = << >> \/ c.creatives = Creatives(in)
  BY <1>5, BuiltHas
<1> QED
  BY <1>3, <1>5, <1>6

\* A reason cites sub-scores, whoever wrote it.
LEMMA CitesAre ==
    ASSUME DraftsInv, NEW in, IsInput(in, work.catalog), NEW i \in DOMAIN Pubs
    PROVE  Ledger(in)[i].reason.cites \subseteq SubScores
<1>1. PICK pub : pub = Pubs[i]
  OBVIOUS
<1>2. \A author : WrittenBy(author).cites = {}
  BY DEF WrittenBy
<1>3. \A v, gate : v.reason.cites \subseteq SubScores =>
                       ApplyGate(v, gate).reason.cites \subseteq SubScores
  BY <1>2 DEF ApplyGate, GateReason
<1>4. Fit(in, pub).reason.cites \subseteq SubScores
  <2>1. PICK judged : judged = {j \in DOMAIN in.answer : in.answer[j].pub = pub.id}
    OBVIOUS
  <2>2. PICK verdict : verdict =
            IF judged = {} THEN NotSelected
            ELSE [verdict |-> in.answer[Min(judged)].verdict, rank |-> in.answer[Min(judged)].rank,
                  reason |-> in.answer[Min(judged)].reason]
    OBVIOUS
  <2>3. Fit(in, pub) = ApplyGate(verdict, ScoreOne(in.profile, pub).gate)
    BY <2>1, <2>2 DEF Fit
  <2>4. verdict.reason.cites \subseteq SubScores
    <3>1. CASE judged = {}
      BY <1>2, <2>2, <3>1 DEF NotSelected
    <3>2. CASE judged # {}
      <4>1. DOMAIN in.answer \subseteq Nat
        BY LenProperties DEF IsInput, IsSeq
      <4>2. judged \subseteq Nat
        BY <2>1, <4>1
      <4>3. \E m \in judged : \A n \in judged : m <= n
        BY <3>2, <4>2, LeastNatural
      <4>4. Min(judged) \in judged
        BY <4>3 DEF Min
      <4>5. Min(judged) \in DOMAIN in.answer
        BY <2>1, <4>4
      <4>6. in.answer[Min(judged)].reason.cites \subseteq SubScores
        BY <4>5 DEF IsInput
      <4> QED
        BY <2>2, <3>2, <4>6
    <3> QED
      BY <3>1, <3>2
  <2> QED
    BY <1>3, <2>3, <2>4
<1>5. Verdict(in, pub).reason.cites \subseteq SubScores
  BY <1>2, <1>4 DEF Verdict, GateReason
<1>6. Entry(in, pub).reason = ApplyGate(Verdict(in, pub), ScoreOne(in.profile, pub).gate).reason
  BY DEF Entry
<1>7. Ledger(in)[i] = Entry(in, pub)
  BY <1>1 DEF Ledger
<1> QED
  BY <1>3, <1>5, <1>6, <1>7

\* The citations of every reason that is checked.
Citations(cs) ==
    UNION {{<<x, s>> : s \in cs[x[1]].ledger[x[2]].reason.cites} :
              x \in {y \in Entries(cs) : ~IsGeneratedReason(cs[y[1]].ledger[y[2]].reason)}}

\* There are only so many entries, and citations in them.
LEMMA CitationsAreFinite ==
    ASSUME DraftsInv, NEW p \in Procs, Run(p).command = "measure"
    PROVE  IsFiniteSet(Entries(drafts[p])) /\ IsFiniteSet(Citations(drafts[p]))
<1>1. drafts[p] \in Seq(Possible(p))
  BY DEF DraftsInv, DraftsOK
<1>2. PICK n \in Nat : DOMAIN drafts[p] = 1 .. n
  BY <1>1, LenProperties
<1>3. PICK m \in Nat : DOMAIN Pubs = 1 .. m
  BY CatalogIsOne, LenProperties DEF IsSeq
<1>4. \A i \in 1 .. n : /\ DOMAIN drafts[p][i].ledger = 1 .. m
                        /\ \A j \in 1 .. m : drafts[p][i].ledger[j].reason.cites \subseteq SubScores
  <2> SUFFICES ASSUME NEW i \in 1 .. n
               PROVE  /\ DOMAIN drafts[p][i].ledger = 1 .. m
                      /\ \A j \in 1 .. m : drafts[p][i].ledger[j].reason.cites \subseteq SubScores
    OBVIOUS
  <2>1. PICK in : IsInput(in, work.catalog) /\ drafts[p][i].ledger = Ledger(in)
    BY <1>2, MeasuredAreBuilt
  <2>2. DOMAIN Ledger(in) = 1 .. m
    BY <1>3 DEF Ledger
  <2>3. \A j \in 1 .. m : Ledger(in)[j].reason.cites \subseteq SubScores
    BY <1>3, <2>1, CitesAre
  <2> QED
    BY <2>1, <2>2, <2>3
<1>5. PICK cs : cs = drafts[p]
  OBVIOUS
<1>6. Entries(cs) \subseteq (1 .. n) \X (1 .. m)
  BY <1>2, <1>4, <1>5 DEF Entries
<1>7. Citations(cs) \subseteq ((1 .. n) \X (1 .. m)) \X SubScores
  <2> SUFFICES ASSUME NEW x \in Entries(cs), NEW s \in cs[x[1]].ledger[x[2]].reason.cites
               PROVE  <<x, s>> \in ((1 .. n) \X (1 .. m)) \X SubScores
    BY DEF Citations
  <2>1. x \in (1 .. n) \X (1 .. m) /\ x[1] \in 1 .. n /\ x[2] \in 1 .. m
    BY <1>6
  <2>2. s \in SubScores
    BY <1>4, <1>5, <2>1
  <2> QED
    BY <2>1, <2>2
<1>8. IsFiniteSet((1 .. n) \X (1 .. m))
  <2>1. IsFiniteSet(1 .. n) /\ IsFiniteSet(1 .. m)
    BY FS_Interval
  <2> QED
    BY <2>1, FS_Product
<1>9. IsFiniteSet(((1 .. n) \X (1 .. m)) \X SubScores)
  BY <1>8, SubScoresAreFinite, FS_Product
<1> QED
  BY <1>5, <1>6, <1>7, <1>8, <1>9, FS_Subset

\* Five terms.
LEMMA SumOfFive ==
    ASSUME NEW f, DOMAIN f = 1 .. 5, \A i \in 1 .. 5 : f[i] \in Int
    PROVE  SumOver(DOMAIN f, f) = f[1] + f[2] + f[3] + f[4] + f[5]
<1> DEFINE From(i) == i .. 5
<1>1. ASSUME NEW i \in 1 .. 5
      PROVE  SumOver(From(i), f) = f[i] + SumOver(From(i + 1), f) /\ SumOver(From(i + 1), f) \in Int
  <2>1. /\ IsFiniteSet(From(i)) /\ i \in From(i) /\ From(i) \ {i} = From(i + 1)
        /\ IsFiniteSet(From(i + 1))
    <3>1. IsFiniteSet(i .. 5) /\ IsFiniteSet(i + 1 .. 5)
      <4>1. i \in Int /\ i + 1 \in Int /\ 5 \in Int
        OBVIOUS
      <4> QED
        BY <4>1, FS_Interval
    <3>2. i \in From(i) /\ From(i) \ {i} = From(i + 1)
      OBVIOUS
    <3> QED
      BY <3>1, <3>2
  <2>2. \A j \in From(i) : f[j] \in Int
    OBVIOUS
  <2>3. \A j \in From(i + 1) : f[j] \in Int
    OBVIOUS
  <2> HIDE DEF From
  <2>4. SumOver(From(i), f) = f[i] + SumOver(From(i) \ {i}, f)
    BY <2>1, <2>2, SumAtElement
  <2>5. SumOver(From(i + 1), f) \in Int
    BY <2>1, <2>3, SumIsInt
  <2> QED
    BY <2>1, <2>4, <2>5
<1>2. From(6) = {}
  OBVIOUS
<1>3. SumOver({}, f) = 0
  BY SumEmpty
<1>4. SumOver(From(6), f) = 0
  BY <1>2, <1>3
<1>5. From(1) = DOMAIN f
  OBVIOUS
<1> HIDE DEF From
<1>6. /\ SumOver(From(1), f) = f[1] + SumOver(From(2), f) /\ SumOver(From(2), f) \in Int
      /\ SumOver(From(2), f) = f[2] + SumOver(From(3), f) /\ SumOver(From(3), f) \in Int
      /\ SumOver(From(3), f) = f[3] + SumOver(From(4), f) /\ SumOver(From(4), f) \in Int
      /\ SumOver(From(4), f) = f[4] + SumOver(From(5), f) /\ SumOver(From(5), f) \in Int
      /\ SumOver(From(5), f) = f[5] + SumOver(From(6), f)
  <2>1. 1 + 1 = 2 /\ 2 + 1 = 3 /\ 3 + 1 = 4 /\ 4 + 1 = 5 /\ 5 + 1 = 6
    OBVIOUS
  <2>2. 1 \in 1 .. 5 /\ 2 \in 1 .. 5 /\ 3 \in 1 .. 5 /\ 4 \in 1 .. 5 /\ 5 \in 1 .. 5
    OBVIOUS
  <2> QED
    BY <1>1, <2>1, <2>2
<1>7. f[1] \in Int /\ f[2] \in Int /\ f[3] \in Int /\ f[4] \in Int /\ f[5] \in Int
  OBVIOUS
<1>8. SumOver(From(5), f) = f[5]
  BY <1>4, <1>6, <1>7
<1>9. SumOver(From(4), f) = f[4] + f[5]
  BY <1>6, <1>8
<1>10. SumOver(From(3), f) = f[3] + f[4] + f[5]
  BY <1>6, <1>7, <1>9
<1>11. SumOver(From(2), f) = f[2] + f[3] + f[4] + f[5]
  BY <1>6, <1>7, <1>10
<1>12. SumOver(From(1), f) = f[1] + f[2] + f[3] + f[4] + f[5]
  BY <1>6, <1>7, <1>11
<1> QED
  BY <1>5, <1>12

\* A part of a finite set, and the rest.
LEMMA PartAndRest ==
    ASSUME NEW S, IsFiniteSet(S), NEW T \in SUBSET S
    PROVE  /\ IsFiniteSet(S \ T) /\ Cardinality(T) \in Nat /\ Cardinality(S \ T) \in Nat
           /\ Cardinality(S) = Cardinality(T) + Cardinality(S \ T)
<1>1. IsFiniteSet(T) /\ IsFiniteSet(S \ T)
  BY FS_Subset
<1>2. T \cup (S \ T) = S /\ T \cap (S \ T) = {}
  OBVIOUS
<1>3. Cardinality(T \cup (S \ T)) =
          Cardinality(T) + Cardinality(S \ T) - Cardinality(T \cap (S \ T))
  BY <1>1, FS_Union
<1>4. Cardinality({}) = 0
  BY FS_EmptySet
<1>5. Cardinality(T) \in Nat /\ Cardinality(S \ T) \in Nat
  BY <1>1, FS_CardinalityType
<1>6. Cardinality(S) = Cardinality(T) + Cardinality(S \ T) - 0
  BY <1>2, <1>3, <1>4
<1> QED
  BY <1>1, <1>5, <1>6

\* What f finds to be of kind d.
OfKind(S, f, d) == {x \in S : f[x] = d}

\* A finite set sorted into six kinds.
LEMMA SixKinds ==
    ASSUME NEW S, IsFiniteSet(S), NEW f,
           \A x \in S : f[x] \in {"consistent", "contradicted", "weak", "unscored", "concessive",
                                  "advertiser_term"},
           NEW n, \A d \in Dispositions : n[d] = Cardinality(OfKind(S, f, d))
    PROVE  /\ \A d \in Dispositions : n[d] \in Nat
           /\ Cardinality(S) = n["consistent"] + n["contradicted"] + n["weak"] + n["unscored"]
                                   + n["concessive"] + n["advertiser_term"]
<1> DEFINE Kind(d) == OfKind(S, f, d)
           S1 == S \ Kind("consistent")
           S2 == S1 \ Kind("contradicted")
           S3 == S2 \ Kind("weak")
           S4 == S3 \ Kind("unscored")
           S5 == S4 \ Kind("concessive")
<1>1. /\ Kind("consistent") \in SUBSET S /\ Kind("contradicted") \in SUBSET S1
      /\ Kind("weak") \in SUBSET S2 /\ Kind("unscored") \in SUBSET S3
      /\ Kind("concessive") \in SUBSET S4 /\ Kind("advertiser_term") = S5
  BY DEF OfKind
<1>2. \A d \in Dispositions : n[d] = Cardinality(Kind(d))
  OBVIOUS
<1>3. {"consistent", "contradicted", "weak", "unscored", "concessive", "advertiser_term"}
          = Dispositions
  BY DEF Dispositions, ByVerdict
<1> HIDE DEF Kind
<1>4. /\ IsFiniteSet(S1) /\ Cardinality(Kind("consistent")) \in Nat
      /\ Cardinality(S) = Cardinality(Kind("consistent")) + Cardinality(S1)
  BY <1>1, PartAndRest
<1> HIDE DEF S1
<1>5. /\ IsFiniteSet(S2) /\ Cardinality(Kind("contradicted")) \in Nat
      /\ Cardinality(S1) = Cardinality(Kind("contradicted")) + Cardinality(S2)
  BY <1>1, <1>4, PartAndRest
<1> HIDE DEF S2
<1>6. /\ IsFiniteSet(S3) /\ Cardinality(Kind("weak")) \in Nat
      /\ Cardinality(S2) = Cardinality(Kind("weak")) + Cardinality(S3)
  BY <1>1, <1>5, PartAndRest
<1> HIDE DEF S3
<1>7. /\ IsFiniteSet(S4) /\ Cardinality(Kind("unscored")) \in Nat
      /\ Cardinality(S3) = Cardinality(Kind("unscored")) + Cardinality(S4)
  BY <1>1, <1>6, PartAndRest
<1> HIDE DEF S4
<1>8. /\ IsFiniteSet(S5) /\ Cardinality(Kind("concessive")) \in Nat
      /\ Cardinality(S4) = Cardinality(Kind("concessive")) + Cardinality(S5)
  BY <1>1, <1>7, PartAndRest
<1>9. Cardinality(S5) \in Nat /\ Cardinality(S5) = Cardinality(Kind("advertiser_term"))
  BY <1>1, <1>8, FS_CardinalityType
<1> HIDE DEF S5
<1>10. \A d \in Dispositions : n[d] \in Nat
  BY <1>2, <1>3, <1>4, <1>5, <1>6, <1>7, <1>8, <1>9
<1>11. /\ n["consistent"] = Cardinality(Kind("consistent"))
       /\ n["contradicted"] = Cardinality(Kind("contradicted"))
       /\ n["weak"] = Cardinality(Kind("weak")) /\ n["unscored"] = Cardinality(Kind("unscored"))
       /\ n["concessive"] = Cardinality(Kind("concessive"))
       /\ n["advertiser_term"] = Cardinality(Kind("advertiser_term"))
  BY <1>2, <1>3
<1> QED
  BY <1>4, <1>5, <1>6, <1>7, <1>8, <1>9, <1>10, <1>11

\* Every citation is counted under one disposition.
LEMMA DispositionIs ==
    ASSUME NEW e, NEW s
    PROVE  Disposition(e, s) \in {"consistent", "contradicted", "weak", "unscored", "concessive",
                                  "advertiser_term"}
BY DEF Disposition, Band

\* The bar shows every citation once.
LEMMA BarIs ==
    ASSUME NEW cs, IsFiniteSet(Citations(cs))
    PROVE  BarAgrees(ReasonBar(ReasonConsistency(cs)), ReasonConsistency(cs))
<1> SUFFICES ASSUME NEW bar, bar = ReasonBar(ReasonConsistency(cs))
             PROVE  SumOver(DOMAIN bar, bar) = ReasonConsistency(cs).citations
  BY DEF BarAgrees
<1>0. PICK S : S = Citations(cs) /\ IsFiniteSet(S)
  OBVIOUS
<1>1. PICK f : f = [x \in S |-> Disposition(cs[x[1][1]].ledger[x[1][2]], x[2])]
  OBVIOUS
<1>2. PICK n : n = [d \in Dispositions |-> Cardinality({x \in S : f[x] = d})]
  OBVIOUS
<1>3. ReasonConsistency(cs).citations = Cardinality(S)
  BY <1>0 DEF ReasonConsistency, Citations
<1>4. ReasonConsistency(cs).counts = n
  <2>1. \A d \in Dispositions :
           {x \in S : d \in Tallied(cs[x[1][1]].ledger[x[1][2]], x[2])}
               = {x \in S : f[x] = d}
    BY <1>1 DEF Tallied
  <2>2. ReasonConsistency(cs).counts =
           [d \in Dispositions |->
               Cardinality({x \in S :
                               d \in Tallied(cs[x[1][1]].ledger[x[1][2]], x[2])})]
    BY <1>0 DEF ReasonConsistency, Citations
  <2> QED
    BY <1>2, <2>1, <2>2
<1>5. /\ \A d \in Dispositions : n[d] \in Nat
      /\ Cardinality(S) =
             n["consistent"] + n["contradicted"] + n["weak"] + n["unscored"]
                 + n["concessive"] + n["advertiser_term"]
  <2>1. \A x \in S :
            f[x] \in {"consistent", "contradicted", "weak", "unscored", "concessive",
                      "advertiser_term"}
    BY <1>1, DispositionIs
  <2>2. \A d \in Dispositions : n[d] = Cardinality(OfKind(S, f, d))
    BY <1>2 DEF OfKind
  <2> QED
    BY <1>0, <2>1, <2>2, SixKinds
<1>6. PICK full : full = <<n["consistent"], n["weak"], n["contradicted"],
                           n["concessive"] + n["advertiser_term"], n["unscored"]>>
  OBVIOUS
<1>7. bar = IF SumOver(DOMAIN full, full) = 0 THEN << >> ELSE full
  BY <1>4, <1>6 DEF ReasonBar
<1>8. /\ n["consistent"] \in Nat /\ n["weak"] \in Nat /\ n["contradicted"] \in Nat
      /\ n["concessive"] \in Nat /\ n["advertiser_term"] \in Nat /\ n["unscored"] \in Nat
  BY <1>5 DEF Dispositions, ByVerdict
<1>9. /\ DOMAIN full = 1 .. 5 /\ \A i \in 1 .. 5 : full[i] \in Int
      /\ full[1] + full[2] + full[3] + full[4] + full[5] = Cardinality(S)
  <2>1. DOMAIN full = 1 .. 5
    BY <1>6
  <2>2. /\ full[1] = n["consistent"] /\ full[2] = n["weak"] /\ full[3] = n["contradicted"]
        /\ full[4] = n["concessive"] + n["advertiser_term"] /\ full[5] = n["unscored"]
    BY <1>6
  <2> QED
    BY <1>5, <1>8, <2>1, <2>2
<1>10. SumOver(DOMAIN full, full) = Cardinality(S)
  BY <1>9, SumOfFive
<1>11. CASE SumOver(DOMAIN full, full) = 0
  <2>1. bar = << >> /\ DOMAIN bar = {}
    BY <1>7, <1>11
  <2>2. SumOver({}, bar) = 0
    BY SumEmpty
  <2> QED
    BY <1>3, <1>10, <1>11, <2>1, <2>2
<1> QED
  BY <1>3, <1>7, <1>10, <1>11

\* A rate is a number, whatever it is a share of.
LEMMA RateIsInt ==
    ASSUME NEW n \in Int, NEW d \in Nat
    PROVE  Rate(n, d) \in Int
BY FractionIs DEF Rate

\* So is the mean absolute change of rank.
LEMMA ShiftIsInt ==
    ASSUME NEW S, IsFiniteSet(S), NEW s
    PROVE  RankShift(S, s) \in Int
<1>1. CASE S = {}
  BY <1>1 DEF RankShift
<1>2. CASE S # {}
  <2>1. PICK moves : moves = [e \in S |-> Moved(FullRank(S)[e], AblatedRank(S, s)[e])]
    OBVIOUS
  <2>2. \A e \in S : moves[e] \in Int
    <3> SUFFICES ASSUME NEW e \in S PROVE moves[e] \in Int
      OBVIOUS
    <3>1. PICK a \in Nat, b \in Nat : a = FullRank(S)[e] /\ b = AblatedRank(S, s)[e]
      BY RanksAreNumbers
    <3> QED
      BY <2>1, <3>1 DEF Moved, Greatest, Least
  <2>3. SumOver(S, moves) \in Int
    BY <2>2, SumIsInt
  <2>4. Cardinality(S) \in Nat /\ Cardinality(S) > 0
    BY <1>2, FS_CardinalityType, FS_EmptySet
  <2>5. RankShift(S, s) = Fraction(SumOver(S, moves), Cardinality(S))
    BY <1>2, <2>1 DEF RankShift
  <2> QED
    BY <2>3, <2>4, <2>5, FractionIs
<1> QED
  BY <1>1, <1>2

\* The two figures of every sub-score are numbers.
LEMMA AblationValuesAre ==
    ASSUME DraftsInv, NEW p \in Procs, Run(p).command = "measure", NEW s \in SubScores
    PROVE  /\ ScoringAblation(drafts[p]).values[<<"top5_change_rate", s>>] \in Int
           /\ ScoringAblation(drafts[p]).values[<<"mean_rank_shift", s>>] \in Int
<1>1. drafts[p] \in Seq(Possible(p))
  BY DEF DraftsInv, DraftsOK
<1>2. PICK n \in Nat : n = Len(drafts[p]) /\ DOMAIN drafts[p] = 1 .. n
  BY <1>1, LenProperties
<1>3. PICK cs : cs = drafts[p] /\ DOMAIN cs = 1 .. n /\ n = Len(cs) /\ (cs = << >> <=> n = 0)
  <2>1. drafts[p] = << >> <=> Len(drafts[p]) = 0
    BY <1>1, EmptySeq
  <2> QED
    BY <1>2, <2>1
<1>4. IsFiniteSet(1 .. n)
  <2>1. n \in Int /\ 1 \in Int
    OBVIOUS
  <2> QED
    BY <2>1, FS_Interval
<1>5. PICK shifts : shifts = [i \in 1 .. n |-> RankShift(Ungated(cs[i].profile), s)]
  OBVIOUS
<1>6. PICK changed : changed = {i \in 1 .. n : TopChanges(Ungated(cs[i].profile), s)}
  OBVIOUS
<1>7. PICK values : values = ScoringAblation(cs).values
  OBVIOUS
<1>8. /\ values[<<"top5_change_rate", s>>] = Rate(Cardinality(changed), n)
      /\ values[<<"mean_rank_shift", s>>] = IF n = 0 THEN 0 ELSE SumOver(1 .. n, shifts) \div n
  <2>1. <<"top5_change_rate", s>> \in AblationKeys /\ <<"mean_rank_shift", s>> \in AblationKeys
    BY DEF AblationKeys
  <2>2. values[<<"top5_change_rate", s>>] = Rate(Cardinality(changed), n)
    BY <1>3, <1>6, <1>7, <2>1 DEF ScoringAblation
  <2>3. values[<<"mean_rank_shift", s>>] = IF n = 0 THEN 0 ELSE SumOver(1 .. n, shifts) \div n
    BY <1>3, <1>5, <1>7, <2>1 DEF ScoringAblation
  <2> QED
    BY <2>2, <2>3
<1>9. Cardinality(changed) \in Nat
  BY <1>4, <1>6, FS_Subset, FS_CardinalityType
<1>10. \A i \in 1 .. n : shifts[i] \in Int
  <2> SUFFICES ASSUME NEW i \in 1 .. n PROVE shifts[i] \in Int
    OBVIOUS
  <2>1. PICK in : IsInput(in, work.catalog) /\ cs[i].profile = in.profile
    BY <1>3, MeasuredAreBuilt
  <2>2. IsFiniteSet(Ungated(in.profile))
    BY <2>1, UngatedAre
  <2> QED
    BY <1>5, <2>1, <2>2, ShiftIsInt
<1>11. SumOver(1 .. n, shifts) \in Int
  BY <1>4, <1>10, SumIsInt
<1>12. Rate(Cardinality(changed), n) \in Int
  BY <1>9, RateIsInt
<1>13. n # 0 => SumOver(1 .. n, shifts) \div n \in Int
  BY <1>11
<1> QED
  BY <1>3, <1>7, <1>8, <1>12, <1>13

\* Sorting by influence sorts by rate, whatever list of all the names breaks the ties.
LEMMA InfluenceIsAnOrder ==
    ASSUME NEW values,
           \A s \in SubScores : /\ values[<<"top5_change_rate", s>>] \in Int
                                /\ values[<<"mean_rank_shift", s>>] \in Int,
           NEW names, DOMAIN names \subseteq Int,
           \A s \in SubScores : \E i \in DOMAIN names : names[i] = s,
           NEW ahead, DOMAIN ahead = SubScores, \A s \in SubScores : ahead[s] \subseteq SubScores,
           \A s, t \in SubScores : t \in ahead[s] <=> MoreInfluential(values, names, t, s)
    PROVE  /\ IsStrictOrder(ahead)
           /\ \A s \in SubScores : \A t \in ahead[s] :
                 values[<<"top5_change_rate", t>>] >= values[<<"top5_change_rate", s>>]
<1>1. PICK rate : rate = [s \in SubScores |-> values[<<"top5_change_rate", s>>]]
  OBVIOUS
<1>2. PICK shift : shift = [s \in SubScores |-> values[<<"mean_rank_shift", s>>]]
  OBVIOUS
<1>3. PICK place : place = [s \in SubScores |-> CHOOSE i \in DOMAIN names : names[i] = s]
  OBVIOUS
<1>4. \A s \in SubScores : /\ rate[s] \in Int /\ shift[s] \in Int
                            /\ place[s] \in Int /\ names[place[s]] = s
  BY <1>1, <1>2, <1>3
<1>5. \A s, t \in SubScores : t \in ahead[s] <=>
          \/ rate[t] > rate[s]
          \/ /\ rate[t] = rate[s]
             /\ shift[t] > shift[s] \/ (shift[t] = shift[s] /\ place[t] < place[s])
  <2> SUFFICES ASSUME NEW s \in SubScores, NEW t \in SubScores
               PROVE  t \in ahead[s] <=>
                          \/ rate[t] > rate[s]
                          \/ /\ rate[t] = rate[s]
                             /\ shift[t] > shift[s] \/ (shift[t] = shift[s] /\ place[t] < place[s])
    OBVIOUS
  <2>1. /\ rate[s] = values[<<"top5_change_rate", s>>]
        /\ rate[t] = values[<<"top5_change_rate", t>>]
        /\ shift[s] = values[<<"mean_rank_shift", s>>]
        /\ shift[t] = values[<<"mean_rank_shift", t>>]
        /\ place[s] = CHOOSE i \in DOMAIN names : names[i] = s
        /\ place[t] = CHOOSE i \in DOMAIN names : names[i] = t
    BY <1>1, <1>2, <1>3
  <2>2. t \in ahead[s] <=> MoreInfluential(values, names, t, s)
    OBVIOUS
  <2> QED
    BY <2>1, <2>2 DEF MoreInfluential
<1>6. PICK f : f = [s \in SubScores |-> 0 - rate[s]]
  OBVIOUS
<1>7. PICK g : g = [s \in SubScores |-> 0 - shift[s]]
  OBVIOUS
<1>8. /\ place \in [SubScores -> Int] /\ f \in [SubScores -> Int] /\ g \in [SubScores -> Int]
      /\ \A s \in SubScores : f[s] = 0 - rate[s] /\ g[s] = 0 - shift[s]
  BY <1>3, <1>4, <1>6, <1>7
<1>9. \A s, t \in SubScores :
          f[s] = f[t] /\ g[s] = g[t] /\ place[s] = place[t] /\ place[s] = place[t] => s = t
  BY <1>4
<1>10. \A s, t \in SubScores : t \in ahead[s] <=>
          \/ f[t] < f[s]
          \/ f[t] = f[s] /\ g[t] < g[s]
          \/ f[t] = f[s] /\ g[t] = g[s] /\ place[t] < place[s]
          \/ f[t] = f[s] /\ g[t] = g[s] /\ place[t] = place[s] /\ place[t] < place[s]
  <2> SUFFICES ASSUME NEW s \in SubScores, NEW t \in SubScores
               PROVE  t \in ahead[s] <=>
                          \/ f[t] < f[s]
                          \/ f[t] = f[s] /\ g[t] < g[s]
                          \/ f[t] = f[s] /\ g[t] = g[s] /\ place[t] < place[s]
                          \/ f[t] = f[s] /\ g[t] = g[s] /\ place[t] = place[s] /\ place[t] < place[s]
    OBVIOUS
  <2>1. /\ f[t] < f[s] <=> rate[t] > rate[s]
        /\ f[t] = f[s] <=> rate[t] = rate[s]
        /\ g[t] < g[s] <=> shift[t] > shift[s]
        /\ g[t] = g[s] <=> shift[t] = shift[s]
    <3>1. PICK a \in Int, b \in Int : a = rate[s] /\ b = rate[t]
      BY <1>4
    <3>2. PICK c \in Int, d \in Int : c = shift[s] /\ d = shift[t]
      BY <1>4
    <3>3. f[s] = 0 - a /\ f[t] = 0 - b /\ g[s] = 0 - c /\ g[t] = 0 - d
      BY <1>8, <3>1, <3>2
    <3> QED
      BY <3>1, <3>2, <3>3
  <2> QED
    BY <1>4, <1>5, <2>1
<1>11. DOMAIN ahead = SubScores /\ \A s \in SubScores : ahead[s] \subseteq SubScores
  OBVIOUS
<1>12. IsStrictOrder(ahead)
  <2>1. IsLexicographic(ahead, f, g, place, place)
    BY <1>4, <1>8, <1>9, <1>10, <1>11 DEF IsLexicographic
  <2> QED
    BY <2>1, LexicographicIs
<1>13. \A s \in SubScores : \A t \in ahead[s] : rate[t] >= rate[s]
  BY <1>4, <1>5, <1>11
<1> QED
  BY <1>1, <1>11, <1>12, <1>13

\* Both lists have all the names.
LEMMA NamesAreListed ==
    /\ DOMAIN SubScoreNames \subseteq Int /\ DOMAIN NameOrder \subseteq Int
    /\ \A s \in SubScores : \E i \in DOMAIN SubScoreNames : SubScoreNames[i] = s
    /\ \A s \in SubScores : \E i \in DOMAIN NameOrder : NameOrder[i] = s
<1>1. SubScores = {"Category", "AOVAlignment", "AgeOverlap", "ValuesMatch", "GenderFit",
                   "IncomeTier"}
  BY DEF SubScores, Weights
<1>2. DOMAIN SubScoreNames = 1 .. 6 /\ DOMAIN NameOrder = 1 .. 6
  BY DEF SubScoreNames, NameOrder
<1>3. \A s \in SubScores : \E i \in 1 .. 6 : SubScoreNames[i] = s
  BY <1>1 DEF SubScoreNames
<1>4. \A s \in SubScores : \E i \in 1 .. 6 : NameOrder[i] = s
  BY <1>1 DEF NameOrder
<1> QED
  BY <1>2, <1>3, <1>4

\* The chart has each sub-score once, and the order of the summary but for ties.
LEMMA ChartIs ==
    ASSUME NEW m, \A s \in SubScores : /\ m.values[<<"top5_change_rate", s>>] \in Int
                                       /\ m.values[<<"mean_rank_shift", s>>] \in Int
    PROVE  ChartAgrees(AblationChart(m), m.values)
<1> SUFFICES ASSUME NEW chart, chart = AblationChart(m),
                    NEW summary, summary = AblationSummary(m.values)
             PROVE  /\ ToSet(chart) = SubScores
                    /\ \A i \in DOMAIN chart : m.values[<<"top5_change_rate", chart[i]>>] =
                                               m.values[<<"top5_change_rate", summary[i]>>]
  BY DEF ChartAgrees
<1>1. PICK a : a = [s \in SubScores |->
                       {t \in SubScores : MoreInfluential(m.values, NameOrder, t, s)}]
  OBVIOUS
<1>2. PICK b : b = [s \in SubScores |->
                       {t \in SubScores : MoreInfluential(m.values, SubScoreNames, t, s)}]
  OBVIOUS
<1>3. PICK key : key = [s \in SubScores |-> m.values[<<"top5_change_rate", s>>]]
  OBVIOUS
<1>4. /\ DOMAIN a = SubScores /\ DOMAIN b = SubScores
      /\ \A s \in SubScores : a[s] \subseteq SubScores /\ b[s] \subseteq SubScores
      /\ \A s, t \in SubScores : t \in a[s] <=> MoreInfluential(m.values, NameOrder, t, s)
      /\ \A s, t \in SubScores : t \in b[s] <=> MoreInfluential(m.values, SubScoreNames, t, s)
  BY <1>1, <1>2
<1>5. /\ IsStrictOrder(a) /\ IsStrictOrder(b)
      /\ \A s \in SubScores : \A t \in a[s] :
             m.values[<<"top5_change_rate", t>>] >= m.values[<<"top5_change_rate", s>>]
      /\ \A s \in SubScores : \A t \in b[s] :
             m.values[<<"top5_change_rate", t>>] >= m.values[<<"top5_change_rate", s>>]
  <2>1. PICK values : values = m.values
    OBVIOUS
  <2>2. /\ IsStrictOrder(a)
        /\ \A s \in SubScores : \A t \in a[s] :
               values[<<"top5_change_rate", t>>] >= values[<<"top5_change_rate", s>>]
    BY <1>4, <2>1, NamesAreListed, InfluenceIsAnOrder
  <2>3. /\ IsStrictOrder(b)
        /\ \A s \in SubScores : \A t \in b[s] :
               values[<<"top5_change_rate", t>>] >= values[<<"top5_change_rate", s>>]
    BY <1>4, <2>1, NamesAreListed, InfluenceIsAnOrder
  <2> QED
    BY <2>1, <2>2, <2>3
<1>6. chart = InOrder(a) /\ summary = InOrder(b)
  BY <1>1, <1>2 DEF AblationChart, AblationSummary, ByInfluence
<1>8. IsFiniteSet(SubScores)
  BY SubScoresAreFinite
<1>9. PICK n \in Nat : n = Cardinality(SubScores)
  BY <1>8, FS_CardinalityType
<1>10. /\ chart \in [1 .. n -> SubScores] /\ summary \in [1 .. n -> SubScores]
       /\ {chart[k] : k \in 1 .. n} = SubScores
  <2>1. InOrder(b) \in [1 .. Cardinality(DOMAIN b) -> DOMAIN b]
    BY <1>4, <1>5, <1>8, InOrderIs
  <2>2. /\ InOrder(a) \in [1 .. Cardinality(DOMAIN a) -> DOMAIN a]
        /\ {InOrder(a)[k] : k \in 1 .. Cardinality(DOMAIN a)} = DOMAIN a
    BY <1>4, <1>5, <1>8, InOrderIs
  <2> QED
    BY <1>4, <1>6, <1>9, <2>1, <2>2
<1>11. /\ \A s \in SubScores : key[s] \in Int
       /\ \A s \in SubScores : \A t \in a[s] : key[t] >= key[s]
       /\ \A s \in SubScores : \A t \in b[s] : key[t] >= key[s]
  BY <1>3, <1>4, <1>5
<1>12. \A k \in 1 .. n : key[chart[k]] = key[summary[k]]
  BY <1>4, <1>5, <1>6, <1>8, <1>9, <1>11, SameKeys
<1>13. ToSet(chart) = SubScores
  BY <1>10 DEF ToSet
<1> QED
  BY <1>3, <1>10, <1>12, <1>13

\* The creatives of a campaign that measure looks at: for different personas, with so much
\* copy and so many levers.
HasCreatives(crs, n) ==
    /\ n \in Nat /\ Len(crs) = n /\ DOMAIN crs = 1 .. n
    /\ \A j \in 1 .. n : /\ crs[j].persona \in Nat
                         /\ IsFiniteSet(crs[j].copy) /\ IsFiniteSet(LeverSet(crs[j]))
    /\ \A j, k \in 1 .. n : crs[j].persona = crs[k].persona => j = k

\* The levers that are left of those claimed.
LEMMA LeversAreFew ==
    ASSUME NEW claimed, IsSeq(claimed), NEW actual, NEW cr, cr.levers = GroundedIn(claimed, actual)
    PROVE  IsFiniteSet(LeverSet(cr))
<1> DEFINE words == {NormalizeLever(a) : a \in actual}
           foreign == {l \in ToSet(claimed) : NormalizeLever(l) \notin words}
<1>1. cr.levers \in Seq(ToSet(claimed) \ foreign)
  <2>1. claimed \in Seq(ToSet(claimed))
    BY DEF IsSeq
  <2>2. cr.levers = Outside(claimed, foreign)
    BY DEF GroundedIn
  <2> HIDE DEF foreign
  <2> QED
    BY <2>1, <2>2, OutsideIsSeq
<1> HIDE DEF foreign
<1>2. PICK n \in Nat : DOMAIN cr.levers = 1 .. n
  BY <1>1, LenProperties
<1>3. IsFiniteSet(1 .. n)
  <2>1. 1 \in Int /\ n \in Int
    OBVIOUS
  <2> QED
    BY <2>1, FS_Interval
<1>4. PICK f : f = [i \in 1 .. n |-> NormalizeLever(cr.levers[i])]
  OBVIOUS
<1>5. IsFiniteSet({f[i] : i \in 1 .. n})
  BY <1>3, ImageIsFinite
<1>6. LeverSet(cr) \subseteq {f[i] : i \in 1 .. n}
  BY <1>2, <1>4 DEF LeverSet, ToSet
<1> QED
  BY <1>5, <1>6, FS_Subset

\* Every campaign that measure looks at has such creatives.
LEMMA CreativesAre ==
    ASSUME DraftsInv, NEW p \in Procs, Run(p).command = "measure", NEW i \in DOMAIN drafts[p]
    PROVE  \E n \in Nat : HasCreatives(drafts[p][i].creatives, n)
<1>1. PICK in : /\ IsInput(in, work.catalog)
                /\ drafts[p][i].creatives = << >> \/ drafts[p][i].creatives = Creatives(in)
  BY MeasuredAreBuilt
<1>2. PICK crs : crs = drafts[p][i].creatives
  OBVIOUS
<1>3. CASE crs = << >>
  <2>1. HasCreatives(crs, 0)
    BY <1>3 DEF HasCreatives
  <2> QED
    BY <1>2, <2>1
<1>4. CASE crs = Creatives(in)
  <2>1. IsSeq(in.cast)
    BY <1>1 DEF IsInput
  <2>2. PICK n \in Nat : n = Len(in.cast) /\ DOMAIN in.cast = 1 .. n
    BY <2>1, LenProperties DEF IsSeq
  <2>3. DOMAIN crs = DOMAIN in.cast /\ crs = [j \in DOMAIN crs |-> crs[j]]
    BY <1>4 DEF Creatives
  <2>4. Len(crs) = n
    BY <2>1, <2>2, <2>3, SameLength
  <2>5. \A j \in 1 .. n : crs[j].persona = in.cast[j].persona /\ crs[j].copy = in.cast[j].copy
    BY <1>4, <2>2 DEF Creatives
  <2>6. \A j \in 1 .. n : in.cast[j].persona \in Nat /\ IsFiniteSet(in.cast[j].copy)
    BY <1>1, <2>2, CatalogIsOne DEF IsInput, IsCatalog
  <2>7. \A j, k \in 1 .. n : in.cast[j].persona = in.cast[k].persona => j = k
    BY <1>1, <2>2 DEF IsInput
  <2>8. \A j \in 1 .. n : IsFiniteSet(LeverSet(crs[j]))
    <3> SUFFICES ASSUME NEW j \in 1 .. n PROVE IsFiniteSet(LeverSet(crs[j]))
      OBVIOUS
    <3>1. crs[j].levers = GroundedIn(in.cast[j].levers, Persona(in.cast[j].persona).levers)
      BY <1>4, <2>2 DEF Creatives
    <3>2. IsSeq(in.cast[j].levers)
      BY <1>1, <2>2 DEF IsInput
    <3> QED
      BY <3>1, <3>2, LeversAreFew
  <2>9. HasCreatives(crs, n)
    BY <2>2, <2>3, <2>4, <2>5, <2>6, <2>7, <2>8 DEF HasCreatives
  <2> QED
    BY <1>2, <2>9
<1> QED
  BY <1>1, <1>2, <1>3, <1>4

\* One pair, and all of them.
PairAt(cs, i, j, k) ==
    [brief |-> i, a |-> cs[i].creatives[j].persona, b |-> cs[i].creatives[k].persona,
     copy |-> Jaccard(cs[i].creatives[j].copy, cs[i].creatives[k].copy),
     lever |-> Jaccard(LeverSet(cs[i].creatives[j]), LeverSet(cs[i].creatives[k]))]

\* All the pairs of creatives of the campaigns that have two.
AllPairs(cs) == UNION {PairsOf(cs, i) : i \in {h \in DOMAIN cs : Len(cs[h].creatives) >= 2}}

\* The pairs of one campaign, and what is in them.
LEMMA PairsOfOne ==
    ASSUME NEW cs, NEW i, NEW n \in Nat, HasCreatives(cs[i].creatives, n)
    PROVE  /\ IsFiniteSet(PairsOf(cs, i))
           /\ \A x \in PairsOf(cs, i) : \E j, k \in 1 .. n : x = PairAt(cs, i, j, k)
<1>1. PairsOf(cs, i) = UNION {{PairAt(cs, i, j, k) : k \in j + 1 .. n} : j \in 1 .. n}
  BY DEF PairsOf, PairAt, HasCreatives
<1>2. \A x \in PairsOf(cs, i) : \E j, k \in 1 .. n : x = PairAt(cs, i, j, k)
  <2> SUFFICES ASSUME NEW j \in 1 .. n, NEW k \in j + 1 .. n
               PROVE  \E a, b \in 1 .. n : PairAt(cs, i, j, k) = PairAt(cs, i, a, b)
    BY <1>1
  <2>1. k \in 1 .. n
    OBVIOUS
  <2> QED
    BY <2>1
<1>3. IsFiniteSet(PairsOf(cs, i))
  <2>1. PICK D : D = (1 .. n) \X (1 .. n)
    OBVIOUS
  <2>2. IsFiniteSet(D)
    <3>1. IsFiniteSet(1 .. n)
      BY FS_Interval
    <3> QED
      BY <2>1, <3>1, FS_Product
  <2>3. PICK f : f = [x \in D |-> PairAt(cs, i, x[1], x[2])]
    OBVIOUS
  <2>4. IsFiniteSet({f[x] : x \in D})
    BY <2>2, ImageIsFinite
  <2>5. PairsOf(cs, i) \subseteq {f[x] : x \in D}
    <3> SUFFICES ASSUME NEW y \in PairsOf(cs, i) PROVE \E x \in D : y = f[x]
      OBVIOUS
    <3>1. PICK j \in 1 .. n, k \in 1 .. n : y = PairAt(cs, i, j, k)
      BY <1>2
    <3>2. <<j, k>> \in D /\ f[<<j, k>>] = PairAt(cs, i, j, k)
      BY <2>1, <2>3
    <3> QED
      BY <3>1, <3>2
  <2> QED
    BY <2>4, <2>5, FS_Subset
<1> QED
  BY <1>2, <1>3

\* The overlaps are numbers, and campaign and personas tell one pair from another.
LEMMA PairsAre ==
    ASSUME DraftsInv, NEW p \in Procs, Run(p).command = "measure"
    PROVE  /\ IsFiniteSet(AllPairs(drafts[p]))
           /\ \A x \in AllPairs(drafts[p]) :
                 x.copy \in Int /\ x.brief \in Int /\ x.a \in Int /\ x.b \in Int
           /\ \A x \in AllPairs(drafts[p]) : x.lever \in Int
           /\ \A x, y \in AllPairs(drafts[p]) :
                 x.brief = y.brief /\ x.a = y.a /\ x.b = y.b => x = y
<1>1. drafts[p] \in Seq(Possible(p))
  BY DEF DraftsInv, DraftsOK
<1>2. PICK N \in Nat : DOMAIN drafts[p] = 1 .. N
  BY <1>1, LenProperties
<1>3. PICK cs : cs = drafts[p] /\ DOMAIN cs = 1 .. N
  BY <1>2
<1>4. \A i \in 1 .. N : \E n \in Nat : HasCreatives(cs[i].creatives, n)
  BY <1>3, CreativesAre
<1>5. ASSUME NEW x \in AllPairs(cs)
      PROVE  \E i \in 1 .. N : \E n \in Nat :
                 /\ HasCreatives(cs[i].creatives, n)
                 /\ \E j, k \in 1 .. n : x = PairAt(cs, i, j, k)
  <2>1. PICK i \in 1 .. N : x \in PairsOf(cs, i)
    BY <1>3, <1>5 DEF AllPairs
  <2>2. PICK n \in Nat : HasCreatives(cs[i].creatives, n)
    BY <1>4
  <2> QED
    BY <2>1, <2>2, PairsOfOne
<1>6. IsFiniteSet(AllPairs(cs))
  <2>1. PICK M : M = {i \in 1 .. N : Len(cs[i].creatives) >= 2}
    OBVIOUS
  <2>2. IsFiniteSet(1 .. N)
    <3>1. 1 \in Int /\ N \in Int
      OBVIOUS
    <3> QED
      BY <3>1, FS_Interval
  <2>3. IsFiniteSet(M)
    BY <2>1, <2>2, FS_Subset
  <2>4. PICK f : f = [i \in M |-> PairsOf(cs, i)]
    OBVIOUS
  <2>5. IsFiniteSet({f[i] : i \in M})
    BY <2>3, ImageIsFinite
  <2>6. \A T \in {f[i] : i \in M} : IsFiniteSet(T)
    BY <1>4, <2>1, <2>4, PairsOfOne
  <2>7. AllPairs(cs) = UNION {f[i] : i \in M}
    BY <1>3, <2>1, <2>4 DEF AllPairs
  <2> QED
    BY <2>5, <2>6, <2>7, FS_UNION
<1>7. ASSUME NEW x \in AllPairs(cs)
      PROVE  /\ x.copy \in Int /\ x.brief \in Int /\ x.a \in Int /\ x.b \in Int
             /\ x.lever \in Int
  <2>1. PICK i \in 1 .. N, n \in Nat : /\ HasCreatives(cs[i].creatives, n)
                                       /\ \E j, k \in 1 .. n : x = PairAt(cs, i, j, k)
    BY <1>5
  <2>2. PICK j \in 1 .. n, k \in 1 .. n : x = PairAt(cs, i, j, k)
    BY <2>1
  <2>3. PICK a : a = cs[i].creatives[j] /\ a.persona \in Nat /\ IsFiniteSet(a.copy)
                   /\ IsFiniteSet(LeverSet(a))
    BY <2>1 DEF HasCreatives
  <2>4. PICK b : b = cs[i].creatives[k] /\ b.persona \in Nat /\ IsFiniteSet(b.copy)
                   /\ IsFiniteSet(LeverSet(b))
    BY <2>1 DEF HasCreatives
  <2>5. x.copy = Jaccard(a.copy, b.copy) /\ x.brief = i /\ x.a = a.persona /\ x.b = b.persona
        /\ x.lever = Jaccard(LeverSet(a), LeverSet(b))
    BY <2>2, <2>3, <2>4 DEF PairAt
  <2>6. Jaccard(a.copy, b.copy) \in Nat /\ Jaccard(LeverSet(a), LeverSet(b)) \in Nat
    BY <2>3, <2>4, JaccardIsNat
  <2> QED
    BY <2>3, <2>4, <2>5, <2>6
<1>8. ASSUME NEW x \in AllPairs(cs), NEW y \in AllPairs(cs),
             x.brief = y.brief, x.a = y.a, x.b = y.b
      PROVE  x = y
  <2>1. PICK i \in 1 .. N, n \in Nat : /\ HasCreatives(cs[i].creatives, n)
                                       /\ \E j, k \in 1 .. n : x = PairAt(cs, i, j, k)
    BY <1>5
  <2>2. PICK j \in 1 .. n, k \in 1 .. n : x = PairAt(cs, i, j, k)
    BY <2>1
  <2>3. PICK i2 \in 1 .. N, n2 \in Nat : /\ HasCreatives(cs[i2].creatives, n2)
                                         /\ \E c, d \in 1 .. n2 : y = PairAt(cs, i2, c, d)
    BY <1>5
  <2>4. PICK c \in 1 .. n2, d \in 1 .. n2 : y = PairAt(cs, i2, c, d)
    BY <2>3
  <2>5. x.brief = i /\ y.brief = i2
    BY <2>2, <2>4 DEF PairAt
  <2>6. i = i2 /\ n = n2
    BY <1>8, <2>1, <2>3, <2>5 DEF HasCreatives
  <2>7. /\ x.a = cs[i].creatives[j].persona /\ x.b = cs[i].creatives[k].persona
        /\ y.a = cs[i].creatives[c].persona /\ y.b = cs[i].creatives[d].persona
    BY <2>2, <2>4, <2>6 DEF PairAt
  <2>8. j = c /\ k = d
    BY <1>8, <2>1, <2>6, <2>7 DEF HasCreatives
  <2> QED
    BY <2>2, <2>4, <2>6, <2>8
<1> QED
  BY <1>3, <1>6, <1>7, <1>8

\* The findings are all the pairs, none before one that is more alike.
LEMMA FindingsAre ==
    ASSUME NEW pairs, IsFiniteSet(pairs),
           \A x \in pairs : x.copy \in Int /\ x.brief \in Int /\ x.a \in Int /\ x.b \in Int,
           \A x, y \in pairs : x.brief = y.brief /\ x.a = y.a /\ x.b = y.b => x = y
    PROVE  /\ Cardinality(pairs) \in Nat
           /\ Findings(pairs) \in [1 .. Cardinality(pairs) -> pairs]
           /\ \A k \in 1 .. Cardinality(pairs) : Findings(pairs)[k].copy <= Findings(pairs)[1].copy
<1>1. PICK ahead : ahead = [x \in pairs |-> {y \in pairs : MoreAlike(y, x)}]
  OBVIOUS
<1>2. /\ DOMAIN ahead = pairs /\ \A x \in pairs : ahead[x] \subseteq pairs
      /\ \A x, y \in pairs : y \in ahead[x] <=> MoreAlike(y, x)
  BY <1>1
<1>3. PICK f, g, h, l :
          /\ f = [x \in pairs |-> 0 - x.copy] /\ g = [x \in pairs |-> x.brief]
          /\ h = [x \in pairs |-> x.a] /\ l = [x \in pairs |-> x.b]
  OBVIOUS
<1>4. \A x \in pairs : /\ f[x] = 0 - x.copy /\ g[x] = x.brief /\ h[x] = x.a /\ l[x] = x.b
                       /\ f[x] \in Int /\ g[x] \in Int /\ h[x] \in Int /\ l[x] \in Int
  <2> SUFFICES ASSUME NEW x \in pairs
               PROVE  /\ f[x] = 0 - x.copy /\ g[x] = x.brief /\ h[x] = x.a /\ l[x] = x.b
                      /\ f[x] \in Int /\ g[x] \in Int /\ h[x] \in Int /\ l[x] \in Int
    OBVIOUS
  <2>1. PICK c \in Int : c = x.copy
    OBVIOUS
  <2> QED
    BY <1>3, <2>1
<1>5. \A x, y \in pairs : y \in ahead[x] <=>
          \/ f[y] < f[x]
          \/ f[y] = f[x] /\ g[y] < g[x]
          \/ f[y] = f[x] /\ g[y] = g[x] /\ h[y] < h[x]
          \/ f[y] = f[x] /\ g[y] = g[x] /\ h[y] = h[x] /\ l[y] < l[x]
  <2> SUFFICES ASSUME NEW x \in pairs, NEW y \in pairs
               PROVE  y \in ahead[x] <=>
                          \/ f[y] < f[x]
                          \/ f[y] = f[x] /\ g[y] < g[x]
                          \/ f[y] = f[x] /\ g[y] = g[x] /\ h[y] < h[x]
                          \/ f[y] = f[x] /\ g[y] = g[x] /\ h[y] = h[x] /\ l[y] < l[x]
    OBVIOUS
  <2>1. PICK c \in Int, d \in Int : c = x.copy /\ d = y.copy
    OBVIOUS
  <2>2. f[x] = 0 - c /\ f[y] = 0 - d
    BY <1>4, <2>1
  <2>3. f[y] < f[x] <=> y.copy > x.copy
    BY <2>1, <2>2
  <2>4. f[y] = f[x] <=> y.copy = x.copy
    BY <2>1, <2>2
  <2> QED
    BY <1>2, <1>4, <2>3, <2>4 DEF MoreAlike
<1>6. \A x, y \in pairs : f[x] = f[y] /\ g[x] = g[y] /\ h[x] = h[y] /\ l[x] = l[y] => x = y
  BY <1>4
<1>7. IsStrictOrder(ahead)
  <2>1. IsLexicographic(ahead, f, g, h, l)
    BY <1>2, <1>4, <1>5, <1>6 DEF IsLexicographic
  <2> QED
    BY <2>1, LexicographicIs
<1>8. PICK r : r = Findings(pairs) /\ r = InOrder(ahead)
  BY <1>1 DEF Findings
<1>9. PICK n \in Nat : n = Cardinality(pairs)
  BY FS_CardinalityType
<1>10. InOrder(ahead) \in [1 .. Cardinality(DOMAIN ahead) -> DOMAIN ahead]
  BY <1>2, <1>7, InOrderIs
<1>11. r \in [1 .. n -> pairs]
  BY <1>2, <1>8, <1>9, <1>10
<1>12. \A k \in 1 .. n : \A j \in 1 .. k - 1 : r[j] \in ahead[r[k]]
  BY <1>2, <1>7, <1>8, <1>9, InOrderIs
<1>13. ASSUME NEW k \in 1 .. n PROVE r[k].copy <= r[1].copy
  <2>1. PICK x \in pairs, y \in pairs : x = r[k] /\ y = r[1]
    BY <1>11
  <2>2. x.copy \in Int /\ y.copy \in Int
    OBVIOUS
  <2>3. CASE k = 1
    BY <2>1, <2>2, <2>3
  <2>4. CASE k # 1
    <3>1. 1 \in 1 .. k - 1
      BY <2>4
    <3>2. y \in ahead[x]
      BY <1>12, <2>1, <3>1
    <3>3. MoreAlike(y, x)
      BY <1>2, <3>2
    <3> QED
      BY <2>1, <2>2, <3>3 DEF MoreAlike
  <2> QED
    BY <2>3, <2>4
<1> QED
  BY <1>8, <1>9, <1>11, <1>13

\* What a finding's text says of an overlap is in the order of the overlaps.
LEMMA DecimalsGrow ==
    ASSUME NEW v \in Int, NEW w \in Int, v <= w
    PROVE  ThreeDecimals(v) <= ThreeDecimals(w)
<1>1. PICK u \in Nat : u = Unit /\ u > 0
  BY UnitAssumption
<1>2. PICK h \in Int : h = u \div 2
  BY <1>1
<1>3. PICK a \in Int, b \in Int : a = 1000 * v + h /\ b = 1000 * w + h
  OBVIOUS
<1>4. a <= b
  BY <1>3
<1>5. a \div u <= b \div u
  BY ONLY <1>1, <1>4, u \in Nat, a \in Int, b \in Int
<1> QED
  BY <1>1, <1>2, <1>3, <1>5 DEF ThreeDecimals

\* The worst pair is the first dot, at the three decimals of the value that the report
\* gives as the worst.
LEMMA DotsAre ==
    ASSUME NEW cs, IsFiniteSet(AllPairs(cs)),
           \A x \in AllPairs(cs) : x.copy \in Int /\ x.brief \in Int /\ x.a \in Int /\ x.b \in Int,
           \A x, y \in AllPairs(cs) : x.brief = y.brief /\ x.a = y.a /\ x.b = y.b => x = y
    PROVE  DotsAgree(Distinctiveness(CreativeDistinctiveness(cs)).points,
                     CreativeDistinctiveness(cs).values)
<1> SUFFICES ASSUME NEW dots, dots = Distinctiveness(CreativeDistinctiveness(cs)).points
             PROVE  /\ \A i \in DOMAIN dots : dots[i] <= dots[1]
                    /\ dots # << >> =>
                           dots[1] =
                               ThreeDecimals(CreativeDistinctiveness(cs).values.max_copy_overlap)
  BY DEF DotsAgree
<1>1. PICK pairs : pairs = AllPairs(cs)
  OBVIOUS
<1>2. PICK sorted : sorted = Findings(pairs)
  OBVIOUS
<1>3. PICK n \in Nat : n = Cardinality(pairs)
  BY <1>1, FS_CardinalityType
<1>4. /\ sorted \in [1 .. n -> pairs]
      /\ \A k \in 1 .. n : sorted[k].copy <= sorted[1].copy
  BY <1>1, <1>2, <1>3, FindingsAre
<1>5. sorted \in Seq(pairs)
  BY <1>4, SeqDef
<1>6. PICK m : m = CreativeDistinctiveness(cs)
  OBVIOUS
<1>7. m.findings = SubSeq(sorted, 1, Least(MaxFindings, Len(sorted)))
  BY <1>1, <1>2, <1>6 DEF CreativeDistinctiveness, AllPairs
<1>8. m.values.max_copy_overlap = IF pairs = {} THEN 0 ELSE sorted[1].copy
  BY <1>1, <1>2, <1>6 DEF CreativeDistinctiveness, AllPairs
<1>9. MaxFindings \in Nat
  BY FindingsAssumption
<1>10. PICK k : k = Least(MaxFindings, Len(sorted))
  OBVIOUS
<1>11. DOMAIN m.findings = 1 .. k /\ \A i \in 1 .. k : i \in 1 .. n /\ m.findings[i] = sorted[i]
  BY <1>4, <1>5, <1>7, <1>9, <1>10, PrefixIs
<1>12. dots = [i \in 1 .. k |-> ThreeDecimals(m.findings[i].copy)]
  BY <1>6, <1>11 DEF Distinctiveness
<1>13. \A i \in 1 .. k : 1 \in 1 .. k
  <2>1. k \in Int
    BY <1>4, <1>5, <1>9, <1>10, LenProperties DEF Least
  <2> QED
    BY <2>1
<1>14. \A i \in 1 .. k : /\ dots[i] = ThreeDecimals(sorted[i].copy)
                         /\ dots[1] = ThreeDecimals(sorted[1].copy)
  BY <1>11, <1>12, <1>13
<1>15. ASSUME NEW i \in DOMAIN dots PROVE dots[i] <= dots[1]
  <2>1. i \in 1 .. k /\ i \in 1 .. n /\ 1 \in 1 .. n
    BY <1>11, <1>12, <1>13, <1>15
  <2>2. sorted[i] \in pairs /\ sorted[1] \in pairs
    BY <1>4, <2>1
  <2>3. PICK v \in Int, w \in Int : v = sorted[i].copy /\ w = sorted[1].copy
    BY <1>1, <2>2
  <2>4. v <= w
    BY <1>4, <2>1, <2>3
  <2>5. ThreeDecimals(v) <= ThreeDecimals(w)
    BY <2>4, DecimalsGrow
  <2> QED
    BY <1>14, <2>1, <2>3, <2>5
<1>16. ASSUME dots # << >> PROVE dots[1] = ThreeDecimals(m.values.max_copy_overlap)
  <2>1. DOMAIN dots # {}
    <3>1. ASSUME DOMAIN dots = {} PROVE dots = << >>
      BY <1>12, <3>1
    <3> QED
      BY <1>16, <3>1
  <2>2. PICK i \in 1 .. k : i \in 1 .. n
    BY <1>11, <1>12, <2>1
  <2>3. pairs # {}
    BY <1>4, <2>2
  <2> QED
    BY <1>8, <1>14, <2>2, <2>3
<1> QED
  BY <1>6, <1>15, <1>16

\* The values of a report are numbers.
HasNumbers(report) ==
    \A name \in DOMAIN report : \A key \in DOMAIN report[name].values :
        report[name].values[key] \in Int

\* A row has an arrow exactly if the diff compares its value, and the arrow does not
\* contradict the sign of that comparison.
LEMMA RowsAre ==
    ASSUME NEW report, NEW baseline, NEW name \in DOMAIN report,
           HasNumbers(report), HasNumbers(baseline)
    PROVE  RowsAgree(PageData(report, baseline).metrics[name].rows,
                     Compared(PageData(report, baseline), name))
<1>a. PICK rows : rows = PageData(report, baseline).metrics[name].rows
  OBVIOUS
<1>b. PICK compared : compared = Compared(PageData(report, baseline), name)
  OBVIOUS
<1>c. compared = IF name \in DOMAIN Diff(report, baseline).compared
                 THEN Diff(report, baseline).compared[name].both ELSE << >>
  BY <1>b DEF Compared, PageData
<1> SUFFICES ASSUME NEW key \in DOMAIN rows
             PROVE  IF key \in DOMAIN compared
                    THEN CASE rows[key].arrow = "up" -> compared[key].sign = "+"
                           [] rows[key].arrow = "down" -> compared[key].sign = "-"
                           [] OTHER -> compared[key].delta \in -Tolerance .. Tolerance
                    ELSE "arrow" \notin DOMAIN rows[key]
  BY <1>a, <1>b DEF RowsAgree
<1>1. PICK values : values = report[name].values
  OBVIOUS
<1>2. PICK base : base = BaseValues(name, baseline)
  OBVIOUS
<1>3. /\ DOMAIN rows = DOMAIN values
      /\ \A k \in DOMAIN values : rows[k] = Row(name, report[name], k, base)
  <2>1. PageData(report, baseline).metrics[name] = MetricView(name, report[name], base)
    BY <1>2 DEF PageData
  <2>2. rows = [k \in DOMAIN values |-> Row(name, report[name], k, base)]
    BY <1>1, <1>a, <2>1 DEF MetricView
  <2> QED
    BY <2>2
<1>4. key \in DOMAIN values /\ rows[key] = Row(name, report[name], key, base)
  BY <1>3
<1>5. CASE name \in DOMAIN baseline
  <2>1. base = baseline[name].values
    BY <1>2, <1>5 DEF BaseValues
  <2>2. /\ name \in DOMAIN Diff(report, baseline).compared
        /\ Diff(report, baseline).compared[name] = Deltas(values, base)
    BY <1>1, <1>5, <2>1 DEF Diff
  <2>3. compared = [k \in DOMAIN values \cap DOMAIN base |-> Change(values[k] - base[k])]
    BY <1>c, <2>2 DEF Deltas
  <2>4. CASE key \in DOMAIN base
    <3>1. PICK d \in Int : d = values[key] - base[key]
      <4>1. values[key] \in Int
        BY <1>1, <1>4 DEF HasNumbers
      <4>2. base[key] \in Int
        BY <1>5, <2>1, <2>4 DEF HasNumbers
      <4> QED
        BY <4>1, <4>2
    <3>2. key \in DOMAIN compared /\ compared[key] = Change(d)
      BY <1>4, <2>3, <2>4, <3>1
    <3>3. rows[key].arrow = Arrow(d)
      BY <1>1, <1>4, <2>4, <3>1 DEF Row
    <3>4. /\ Arrow(d) = "up" => Change(d).sign = "+"
          /\ Arrow(d) = "down" => Change(d).sign = "-"
          /\ Arrow(d) \notin {"up", "down"} => Change(d).delta \in -Tolerance .. Tolerance
      BY ToleranceAssumption DEF Arrow, Change
    <3> QED
      BY <3>2, <3>3, <3>4
  <2>5. CASE key \notin DOMAIN base
    <3>1. key \notin DOMAIN compared
      BY <2>3, <2>5
    <3>2. rows[key] = [value |-> values[key]]
      BY <1>1, <1>4, <2>5 DEF Row
    <3>3. "arrow" \notin DOMAIN rows[key]
      BY <3>2
    <3> QED
      BY <3>1, <3>3
  <2> QED
    BY <2>4, <2>5
<1>6. CASE name \notin DOMAIN baseline
  <2>1. base = << >> /\ DOMAIN base = {}
    BY <1>2, <1>6 DEF BaseValues
  <2>2. name \notin DOMAIN Diff(report, baseline).compared
    BY <1>6 DEF Diff
  <2>3. key \notin DOMAIN compared
    BY <1>c, <2>2
  <2>4. rows[key] = [value |-> values[key]]
    BY <1>1, <1>4, <2>1 DEF Row
  <2>5. "arrow" \notin DOMAIN rows[key]
    BY <2>4
  <2> QED
    BY <2>3, <2>5
<1> QED
  BY <1>5, <1>6

---------------------------------------------------------------------------
(***************************************************************************)
(* The numbers of a report.                                                *)
(***************************************************************************)

\* What the judge has added up is a number, and a control is asked for after a
\* campaign that can be judged.
ChanceOK(p) ==
    /\ judge[p].chance \in Int /\ judge[p].judged \in Nat
    /\ pc[p] \in {"start", "draft"} => judge[p].phase = "next"
    /\ judge[p].phase = "control call" => judge[p].at <= Len(drafts[p]) /\ ~Skipped(Campaign(p))

ChanceInv == \A p \in Procs : ChanceOK(p)

\* Nothing is judged at first.
LEMMA ChanceStart == Init => ChanceInv
<1> SUFFICES ASSUME Init, NEW p \in Procs PROVE ChanceOK(p)
  BY DEF ChanceInv
<1>1. judge[p] = NoJudge
  BY DEF Init, JudgeInit
<1> QED
  BY <1>1 DEF NoJudge, ChanceOK

\* Whether a campaign is skipped depends on it and on the catalog.
LEMMA ChanceStays ==
    ASSUME UNCHANGED work, NEW p, ChanceOK(p),
           judge'[p] = judge[p], drafts'[p] = drafts[p] \/ judge[p].phase = "next",
           pc'[p] \in {"start", "draft"} => pc[p] \in {"start", "draft"}
    PROVE  ChanceOK(p)'
<1>1. \A c : Skipped(c)' = Skipped(c)
  BY DEF Skipped, Cast, PersonaIDs, Personas
<1>2. CASE judge[p].phase = "next"
  BY <1>2 DEF ChanceOK
<1>3. CASE judge[p].phase # "next"
  <2>1. drafts'[p] = drafts[p] /\ Campaign(p)' = Campaign(p)
    BY <1>3 DEF Campaign
  <2>2. Skipped(Campaign(p))' <=> Skipped(Campaign(p))
    BY <1>1, <2>1
  <2> QED
    BY <2>1, <2>2 DEF ChanceOK
<1> QED
  BY <1>2, <1>3

\* A step of the judge that comes to another phase than the control's call.
LEMMA ChanceMoves ==
    ASSUME JudgeInv, NEW p \in Procs, ChanceOK(p), pc[p] = "judge",
           NEW from, NEW to, to # "control call", NEW changes, JudgeStep(p, from, to, changes),
           "chance" \in DOMAIN changes => changes.chance \in Int,
           "judged" \in DOMAIN changes => changes.judged \in Nat
    PROVE  ChanceOK(p)'
<1>1. /\ judge'[p].phase = to
      /\ judge'[p].chance = IF "chance" \in DOMAIN changes THEN changes.chance
                            ELSE judge[p].chance
      /\ judge'[p].judged = IF "judged" \in DOMAIN changes THEN changes.judged
                            ELSE judge[p].judged
  <2>1. /\ "phase" \in DOMAIN NoJudge /\ "chance" \in DOMAIN NoJudge
        /\ "judged" \in DOMAIN NoJudge
    BY DEF NoJudge
  <2>2. DOMAIN judge = Procs
    BY DEF JudgeInv
  <2>3. judge' = [judge EXCEPT ![p] =
                     [f \in DOMAIN NoJudge |->
                         IF f = "phase" THEN to
                         ELSE IF f \in DOMAIN changes THEN changes[f] ELSE judge[p][f]]]
    BY DEF JudgeStep
  <2> QED
    BY <2>1, <2>2, <2>3
<1>2. pc'[p] = "judge"
  BY DEF JudgeStep
<1> QED
  BY <1>1, <1>2 DEF ChanceOK

\* A control is called for two creatives at least, so that a share of them is a number.
LEMMA ChanceSteps ==
    FilesInv /\ DraftsInv /\ JudgeInv /\ ChanceInv /\ [Next]_vars => ChanceInv'
<1> SUFFICES ASSUME FilesInv, DraftsInv, JudgeInv, ChanceInv, [Next]_vars PROVE ChanceInv'
  OBVIOUS
<1>0. /\ DOMAIN pc = Procs /\ DOMAIN drafts = Procs /\ DOMAIN judge = Procs
      /\ \A p \in Procs : ChanceOK(p)
  BY DEF FilesInv, FilesTyped, DraftsInv, JudgeInv, ChanceInv
<1>1. ASSUME UNCHANGED <<work, judge>>, NEW q \in Procs,
             \/ UNCHANGED drafts
             \/ pc[q] \in {"start", "draft"} /\ \E d : drafts' = [drafts EXCEPT ![q] = d],
             \/ UNCHANGED pc
             \/ \E l : /\ l = "draft" => pc[q] = "start"
                       /\ l # "start" /\ pc' = [pc EXCEPT ![q] = l]
      PROVE  ChanceInv'
  <2> SUFFICES ASSUME NEW p \in Procs PROVE ChanceOK(p)'
    BY <1>1, WorkStays DEF ChanceInv
  <2>1. drafts'[p] = drafts[p] \/ judge[p].phase = "next"
    BY <1>0, <1>1 DEF ChanceOK
  <2>2. pc'[p] \in {"start", "draft"} => pc[p] \in {"start", "draft"}
    BY <1>0, <1>1
  <2> QED
    BY <1>0, <1>1, <2>1, <2>2, ChanceStays
<1>2. ASSUME NEW q \in Procs, Drafts(q) PROVE ChanceInv'
  <2>1. /\ UNCHANGED <<work, judge>>
        /\ \/ UNCHANGED drafts
           \/ pc[q] \in {"start", "draft"} /\ \E d : drafts' = [drafts EXCEPT ![q] = d]
    BY <1>2 DEF Drafts, Start, Draft, DraftFails, EndDrafts
  <2>2. \/ UNCHANGED pc
        \/ \E l : /\ l = "draft" => pc[q] = "start"
                  /\ l # "start" /\ pc' = [pc EXCEPT ![q] = l]
    BY <1>2 DEF Drafts, Start, Draft, DraftFails, EndDrafts, Goto
  <2> QED
    BY <1>1, <2>1, <2>2
<1>3. ASSUME NEW q \in Procs, Judges(q) PROVE ChanceInv'
  <2>0. UNCHANGED work /\ pc[q] = "judge"
    BY <1>3 DEF Judges, SkipCampaign, JudgeReal, JudgeControl, JudgeUnrecorded, JudgeFails,
                TakeReal, TakeControl, EndReal, EndControl, EndJudging, JudgeStep
  <2>1. ASSUME ChanceOK(q)', UNCHANGED <<work, pc, drafts>>,
               \E j : judge' = [judge EXCEPT ![q] = j]
        PROVE  ChanceInv'
    <3> SUFFICES ASSUME NEW p \in Procs, p # q PROVE ChanceOK(p)'
      BY <2>0, <2>1, WorkStays DEF ChanceInv
    <3>1. judge'[p] = judge[p]
      BY <1>0, <2>1
    <3> QED
      BY <1>0, <2>1, <3>1, ChanceStays
  <2>2. ASSUME NEW from, NEW to, to # "control call", NEW changes, JudgeStep(q, from, to, changes),
               "chance" \in DOMAIN changes => changes.chance \in Int,
               "judged" \in DOMAIN changes => changes.judged \in Nat
        PROVE  ChanceInv'
    <3>1. ChanceOK(q)'
      BY <1>0, <2>0, <2>2, ChanceMoves
    <3>2. UNCHANGED <<work, pc, drafts>> /\ \E j : judge' = [judge EXCEPT ![q] = j]
      BY <2>2 DEF JudgeStep
    <3> QED
      BY <2>1, <3>1, <3>2
  <2>3. CASE SkipCampaign(q)
    <3>1. PICK changes : /\ changes = [at |-> judge[q].at + 1, skipped |-> judge[q].skipped + 1]
                         /\ JudgeStep(q, "next", "next", changes)
      BY <2>3 DEF SkipCampaign
    <3>2. "chance" \notin DOMAIN changes /\ "judged" \notin DOMAIN changes
      BY <3>1
    <3> QED
      BY <2>2, <3>1, <3>2
  <2>4. CASE JudgeReal(q)
    <3>1. PICK changes : /\ changes = [calls |-> judge[q].calls + 1]
                         /\ JudgeStep(q, "next", "control call", changes)
      BY <2>4 DEF JudgeReal
    <3>2. judge' = [judge EXCEPT ![q] =
                       [f \in DOMAIN NoJudge |->
                           IF f = "phase" THEN "control call"
                           ELSE IF f \in DOMAIN changes THEN changes[f] ELSE judge[q][f]]]
      BY <3>1 DEF JudgeStep
    <3>3. /\ "phase" \in DOMAIN NoJudge /\ "chance" \in DOMAIN NoJudge
          /\ "judged" \in DOMAIN NoJudge /\ "at" \in DOMAIN NoJudge
      BY DEF NoJudge
    <3>4. /\ "chance" \notin DOMAIN changes /\ "judged" \notin DOMAIN changes
          /\ "at" \notin DOMAIN changes
      BY <3>1
    <3>5. /\ judge'[q].chance = judge[q].chance /\ judge'[q].judged = judge[q].judged
          /\ judge'[q].at = judge[q].at
      BY <1>0, <3>2, <3>3, <3>4
    <3>6. UNCHANGED <<work, pc, drafts>>
      BY <3>1 DEF JudgeStep
    <3>7. judge[q].at <= Len(drafts[q]) /\ ~Skipped(Campaign(q))
      BY <2>4 DEF JudgeReal
    <3>8. \A c : Skipped(c)' = Skipped(c)
      BY <3>6 DEF Skipped, Cast, PersonaIDs, Personas
    <3>9. Campaign(q)' = Campaign(q)
      BY <3>5, <3>6 DEF Campaign
    <3>10. judge[q].chance \in Int /\ judge[q].judged \in Nat
      BY <1>0 DEF ChanceOK
    <3>11. ChanceOK(q)'
      BY <2>0, <3>5, <3>6, <3>7, <3>8, <3>9, <3>10 DEF ChanceOK
    <3> QED
      BY <2>1, <3>2, <3>6, <3>11
  <2>5. CASE JudgeControl(q)
    <3>1. PICK n : n = Len(Cast(Campaign(q)))
      OBVIOUS
    <3>2. PICK changes : /\ changes = [calls |-> judge[q].calls + 1,
                                       judged |-> judge[q].judged + 1,
                                       chance |-> judge[q].chance + Fraction(1, n),
                                       used |-> {}, taken |-> 0]
                         /\ JudgeStep(q, "control call", "real items", changes)
      BY <2>5, <3>1 DEF JudgeControl
    <3>3. judge[q].at <= Len(drafts[q]) /\ ~Skipped(Campaign(q))
      BY <1>0, <3>2 DEF ChanceOK, JudgeStep
    <3>4. n \in Nat /\ n > 0
      <4>1. Run(q).command = "measure"
        BY <2>0 DEF FilesInv, OnlyMeasureWrites
      <4>2. HasCasts(drafts[q], Len(drafts[q]))
        BY <4>1, MeasuredHaveCasts
      <4>3. judge[q].at \in 1 .. Len(drafts[q])
        <5>1. judge[q].at \in Nat /\ judge[q].at > 0
          BY DEF JudgeInv, JudgeOK, Counters
        <5> QED
          BY <3>3, <4>2, <5>1 DEF HasCasts
      <4>4. Cast(Campaign(q)) \in Seq(PersonaIDs)
        BY <4>2, <4>3 DEF HasCasts, Campaign
      <4>5. n \in Nat
        BY <3>1, <4>4, LenProperties
      <4>6. ~(n < 2)
        BY <3>1, <3>3 DEF Skipped
      <4> QED
        BY <4>5, <4>6
    <3>5. Fraction(1, n) \in Int
      BY <3>4, FractionIs
    <3>6. judge[q].chance \in Int /\ judge[q].judged \in Nat
      BY <1>0 DEF ChanceOK
    <3>7. changes.chance \in Int /\ changes.judged \in Nat
      <4>1. PICK a \in Int, b \in Int, c \in Nat :
                a = judge[q].chance /\ b = Fraction(1, n) /\ c = judge[q].judged
        BY <3>5, <3>6
      <4>2. changes.chance = a + b /\ changes.judged = c + 1
        BY <3>2, <4>1
      <4> QED
        BY <4>2
    <3> QED
      BY <2>2, <3>2, <3>7
  <2>6. CASE JudgeUnrecorded(q)
    <3>1. PICK from, changes :
              /\ changes = [f \in DOMAIN NoJudge
                                \ {"phase", "at", "calls", "judged", "skipped"} |-> NoJudge[f]]
              /\ JudgeStep(q, from, "unrecorded", changes)
      BY <2>6 DEF JudgeUnrecorded
    <3>2. changes.chance \in Int /\ "judged" \notin DOMAIN changes
      BY <3>1 DEF NoJudge
    <3>3. "unrecorded" # "control call"
      OBVIOUS
    <3> QED
      BY ONLY <2>2, <3>1, <3>2, <3>3
  <2>7. ASSUME NEW item, TakeReal(q, item) PROVE ChanceInv'
    <3>1. PICK changes : /\ JudgeStep(q, "real items", "real items", changes)
                         /\ "chance" \notin DOMAIN changes /\ "judged" \notin DOMAIN changes
      <4>1. PICK j, drop, right, dropping, taking :
                /\ dropping = [taken |-> j.taken + 1,
                               dropped |-> [j.dropped EXCEPT ![drop] = @ + 1]]
                /\ taking = [taken |-> j.taken + 1,
                             used |-> j.used \cup {<<item.creative, item.persona>>},
                             matched |-> j.matched + 1, high |-> j.high + High(item),
                             correct |-> j.correct + (IF right THEN 1 ELSE 0),
                             findings |-> IF right THEN j.findings
                                          ELSE Least(8, j.findings + 1)]
                /\ \/ JudgeStep(q, "real items", "real items", dropping)
                   \/ JudgeStep(q, "real items", "real items", taking)
        BY <2>7 DEF TakeReal
      <4>2. /\ "chance" \notin DOMAIN dropping /\ "judged" \notin DOMAIN dropping
            /\ "chance" \notin DOMAIN taking /\ "judged" \notin DOMAIN taking
        BY <4>1
      <4> QED
        BY <4>1, <4>2
    <3> QED
      BY <2>2, <3>1
  <2>8. CASE EndReal(q)
    <3>1. PICK changes : /\ changes = [used |-> {}, taken |-> 0]
                         /\ JudgeStep(q, "real items", "control items", changes)
      BY <2>8 DEF EndReal
    <3>2. "chance" \notin DOMAIN changes /\ "judged" \notin DOMAIN changes
      BY <3>1
    <3> QED
      BY <2>2, <3>1, <3>2
  <2>9. ASSUME NEW item, TakeControl(q, item) PROVE ChanceInv'
    <3>1. PICK changes : /\ JudgeStep(q, "control items", "control items", changes)
                         /\ "chance" \notin DOMAIN changes /\ "judged" \notin DOMAIN changes
      <4>1. PICK j, taking :
                /\ taking = [taken |-> j.taken + 1,
                             used |-> j.used \cup {<<item.creative, item.persona>>},
                             controlMatched |-> j.controlMatched + 1,
                             controlHigh |-> j.controlHigh + High(item)]
                /\ JudgeStep(q, "control items", "control items", taking)
        BY <2>9 DEF TakeControl
      <4>2. "chance" \notin DOMAIN taking /\ "judged" \notin DOMAIN taking
        BY <4>1
      <4> QED
        BY <4>1, <4>2
    <3> QED
      BY <2>2, <3>1
  <2>10. CASE EndControl(q)
    <3>1. PICK changes : /\ changes = [at |-> judge[q].at + 1, used |-> {}, taken |-> 0]
                         /\ JudgeStep(q, "control items", "next", changes)
      BY <2>10 DEF EndControl
    <3>2. "chance" \notin DOMAIN changes /\ "judged" \notin DOMAIN changes
      BY <3>1
    <3> QED
      BY <2>2, <3>1, <3>2
  <2>11. CASE JudgeFails(q) \/ EndJudging(q)
    <3>1. /\ UNCHANGED <<work, drafts, judge>>
          /\ \E l : l # "draft" /\ l # "start" /\ pc' = [pc EXCEPT ![q] = l]
      BY <2>11 DEF JudgeFails, EndJudging, Goto
    <3> QED
      BY <1>1, <3>1
  <2> QED
    BY <1>3, <2>3, <2>4, <2>5, <2>6, <2>7, <2>8, <2>9, <2>10, <2>11 DEF Judges
<1>4. ASSUME NEW q \in Procs, Writes(q) \/ Reads(q) \/ Serves(q) PROVE ChanceInv'
  <2>1. UNCHANGED <<work, drafts, judge>>
    BY <1>4 DEF Writes, CreateReport, CreateFails, WriteBlock, CloseReport, AbandonReport, Reads,
                OpenLatest, OpenComparison, OpenBaseline, ReadHead, ReadTail, EndMeasure, Open,
                Serves, Bind, Fallback, HandleRun, StopServer
  <2>2. UNCHANGED pc \/ \E l : l # "draft" /\ l # "start" /\ pc' = [pc EXCEPT ![q] = l]
    BY <1>4 DEF Writes, CreateReport, CreateFails, WriteBlock, CloseReport, AbandonReport, Reads,
                OpenLatest, OpenComparison, OpenBaseline, ReadHead, ReadTail, EndMeasure,
                Serves, Bind, Fallback, HandleRun, StopServer, Goto
  <2> QED
    BY <1>1, <2>1, <2>2
<1>5. CASE UNCHANGED <<work, pc, drafts, judge>>
  <2> SUFFICES ASSUME NEW p \in Procs PROVE ChanceOK(p)'
    BY <1>5, WorkStays DEF ChanceInv
  <2> QED
    BY <1>0, <1>5, ChanceStays
<1>6. ASSUME NEW port \in Port, Neighbour(port), UNCHANGED judge PROVE ChanceInv'
  BY <1>5, <1>6 DEF Neighbour
<1>7. CASE UNCHANGED vars
  BY <1>5, <1>7 DEF vars
<1> QED
  BY <1>2, <1>3, <1>4, <1>6, <1>7 DEF Next

\* Of the reasons: shares of the citations and of the entries.
LEMMA ReasonNumbers ==
    ASSUME NEW cs, IsFiniteSet(Entries(cs)), IsFiniteSet(Citations(cs))
    PROVE  \A key \in DOMAIN ReasonConsistency(cs).values :
               ReasonConsistency(cs).values[key] \in Int
<1>1. PICK m : m = ReasonConsistency(cs)
  OBVIOUS
<1>2. PICK S : S = Citations(cs) /\ IsFiniteSet(S)
  OBVIOUS
<1>3. PICK f : f = [d \in Dispositions |->
                       {x \in S : d \in Tallied(cs[x[1][1]].ledger[x[1][2]], x[2])}]
  OBVIOUS
<1>4. PICK n : n = [d \in Dispositions |-> Cardinality(f[d])]
  OBVIOUS
<1>5. \A d \in Dispositions : n[d] \in Nat
  <2> SUFFICES ASSUME NEW d \in Dispositions PROVE Cardinality(f[d]) \in Nat
    BY <1>4
  <2>1. f[d] \subseteq S
    BY <1>3
  <2> QED
    BY <1>2, <2>1, FS_Subset, FS_CardinalityType
<1>6. PICK checkable : checkable = {x \in Entries(cs) :
                                       ~IsGeneratedReason(cs[x[1]].ledger[x[2]].reason)}
  OBVIOUS
<1>7. PICK vague : vague = {x \in checkable : cs[x[1]].ledger[x[2]].reason.cites = {}}
  OBVIOUS
<1>8. Cardinality(checkable) \in Nat /\ Cardinality(vague) \in Nat /\ Cardinality(S) \in Nat
  <2>1. checkable \subseteq Entries(cs) /\ vague \subseteq Entries(cs)
    BY <1>6, <1>7
  <2> QED
    BY <1>2, <2>1, FS_Subset, FS_CardinalityType
<1>9. PICK a \in Nat, b \in Nat, c \in Nat :
          a = n["consistent"] /\ b = n["contradicted"] /\ c = n["weak"]
  BY <1>5 DEF Dispositions, ByVerdict
<1>10. m.values = [consistency_rate |-> Rate(a, a + b + c),
                   contradiction_rate |-> Rate(b, a + b + c),
                   vagueness_rate |-> Rate(Cardinality(vague), Cardinality(checkable)),
                   coverage_rate |-> Rate(a + b + c, Cardinality(S))]
  <2>1. /\ a = Cardinality({x \in S : "consistent" \in
                                          Tallied(cs[x[1][1]].ledger[x[1][2]], x[2])})
        /\ b = Cardinality({x \in S : "contradicted" \in
                                          Tallied(cs[x[1][1]].ledger[x[1][2]], x[2])})
        /\ c = Cardinality({x \in S : "weak" \in
                                          Tallied(cs[x[1][1]].ledger[x[1][2]], x[2])})
    BY <1>3, <1>4, <1>9 DEF Dispositions, ByVerdict
  <2> QED
    BY <1>1, <1>2, <1>6, <1>7, <2>1 DEF ReasonConsistency, Citations
<1>11. /\ Rate(a, a + b + c) \in Int /\ Rate(b, a + b + c) \in Int
       /\ Rate(Cardinality(vague), Cardinality(checkable)) \in Int
       /\ Rate(a + b + c, Cardinality(S)) \in Int
  <2>1. \A x \in Nat, y \in Nat : Rate(x, y) \in Int
    BY RateIsInt
  <2>2. PICK d \in Nat : d = a + b + c
    OBVIOUS
  <2> QED
    BY <1>8, <2>1, <2>2
<1> QED
  BY <1>1, <1>10, <1>11

\* Of the judge: shares of what is counted, and their differences.
LEMMA AttributionNumbers ==
    ASSUME NEW j, JudgeOK(j), j.chance \in Int, j.judged \in Nat
    PROVE  \A key \in DOMAIN PersonaAttribution(j).values : PersonaAttribution(j).values[key] \in Int
<1>1. /\ j.correct \in Nat /\ j.matched \in Nat /\ j.high \in Nat
      /\ j.controlHigh \in Nat /\ j.controlMatched \in Nat
  BY DEF JudgeOK, Counters
<1>2. Unit * j.judged \in Nat
  BY UnitAssumption
<1>3. PICK a \in Int, b \in Int, c \in Int, d \in Int :
          /\ a = Rate(j.correct, j.matched) /\ b = Rate(j.chance, Unit * j.judged)
          /\ c = Rate(j.high, j.matched) /\ d = Rate(j.controlHigh, j.controlMatched)
  <2>1. \A x \in Nat, y \in Nat : Rate(x, y) \in Int
    BY RateIsInt
  <2>2. Rate(j.chance, Unit * j.judged) \in Int
    BY <1>2, RateIsInt
  <2>3. Rate(j.correct, j.matched) \in Int
    BY <1>1, <2>1
  <2>4. Rate(j.high, j.matched) \in Int /\ Rate(j.controlHigh, j.controlMatched) \in Int
    BY <1>1, <2>1
  <2> QED
    BY <2>2, <2>3, <2>4
<1>4. PersonaAttribution(j).values =
          [attribution_accuracy |-> a, chance_baseline |-> b, lift |-> a - b,
           high_confidence_rate_real |-> c, high_confidence_rate_control |-> d,
           confidence_separation |-> c - d]
  BY <1>3 DEF PersonaAttribution
<1>5. a - b \in Int /\ c - d \in Int
  OBVIOUS
<1> QED
  BY <1>4, <1>5

\* Of the ablation: the two figures of every sub-score, and how many are ranked.
LEMMA AblationNumbers ==
    ASSUME DraftsInv, NEW p \in Procs, Run(p).command = "measure"
    PROVE  \A key \in DOMAIN ScoringAblation(drafts[p]).values :
               ScoringAblation(drafts[p]).values[key] \in Int
<1>1. drafts[p] \in Seq(Possible(p))
  BY DEF DraftsInv, DraftsOK
<1>2. PICK n \in Nat : n = Len(drafts[p]) /\ DOMAIN drafts[p] = 1 .. n
  BY <1>1, LenProperties
<1>3. PICK cs : cs = drafts[p] /\ DOMAIN cs = 1 .. n /\ n = Len(cs) /\ (cs = << >> <=> n = 0)
  <2>1. drafts[p] = << >> <=> Len(drafts[p]) = 0
    BY <1>1, EmptySeq
  <2> QED
    BY <1>2, <2>1
<1>4. PICK values : values = ScoringAblation(cs).values
  OBVIOUS
<1>5. PICK counts : counts = [i \in 1 .. n |-> Unit * Cardinality(Ungated(cs[i].profile))]
  OBVIOUS
<1>6. DOMAIN values = AblationKeys
  BY <1>4 DEF ScoringAblation
<1>7. values[<<"mean_ungated_per_brief">>] = IF n = 0 THEN 0 ELSE SumOver(1 .. n, counts) \div n
  <2>1. PICK key : key = <<"mean_ungated_per_brief">>
    OBVIOUS
  <2>2. key \in AblationKeys /\ key[1] # "top5_change_rate" /\ key[1] # "mean_rank_shift"
    BY <2>1 DEF AblationKeys
  <2> QED
    BY <1>3, <1>4, <1>5, <2>1, <2>2 DEF ScoringAblation
<1>8. \A i \in 1 .. n : counts[i] \in Int
  <2> SUFFICES ASSUME NEW i \in 1 .. n PROVE counts[i] \in Int
    OBVIOUS
  <2>1. PICK in : IsInput(in, work.catalog) /\ cs[i].profile = in.profile
    BY <1>3, MeasuredAreBuilt
  <2>2. IsFiniteSet(Ungated(in.profile))
    BY <2>1, UngatedAre
  <2>3. Cardinality(Ungated(in.profile)) \in Nat
    BY <2>2, FS_CardinalityType
  <2> QED
    BY <1>5, <2>1, <2>3, UnitAssumption
<1>9. SumOver(1 .. n, counts) \in Int
  <2>1. IsFiniteSet(1 .. n)
    <3>1. 1 \in Int /\ n \in Int
      OBVIOUS
    <3> QED
      BY <3>1, FS_Interval
  <2> QED
    BY <1>8, <2>1, SumIsInt
<1>10. values[<<"mean_ungated_per_brief">>] \in Int
  <2>1. PICK sum \in Int : sum = SumOver(1 .. n, counts)
    BY <1>9
  <2>2. n # 0 => sum \div n \in Int
    OBVIOUS
  <2> QED
    BY <1>7, <2>1, <2>2
<1>11. ASSUME NEW key \in AblationKeys PROVE values[key] \in Int
  <2>1. CASE key = <<"mean_ungated_per_brief">>
    BY <1>10, <2>1
  <2>2. ASSUME NEW s \in SubScores, key = <<"top5_change_rate", s>> \/ key = <<"mean_rank_shift", s>>
        PROVE  values[key] \in Int
    BY <1>3, <1>4, <2>2, AblationValuesAre
  <2> QED
    BY <1>11, <2>1, <2>2 DEF AblationKeys
<1> QED
  BY <1>3, <1>4, <1>6, <1>11

\* The mean of the means of campaigns that have pairs.
LEMMA MeanOfMeansIsInt ==
    ASSUME NEW M, IsFiniteSet(M), M # {}, NEW P, NEW f,
           \A i \in M : IsFiniteSet(P[i]) /\ P[i] # {} /\ \A x \in P[i] : f[x] \in Int
    PROVE  SumOver(M, [i \in M |-> SumOver(P[i], f) \div Cardinality(P[i])])
               \div Cardinality(M) \in Int
<1>1. PICK means : means = [i \in M |-> SumOver(P[i], f) \div Cardinality(P[i])]
  OBVIOUS
<1>2. \A i \in M : means[i] \in Int
  <2> SUFFICES ASSUME NEW i \in M PROVE means[i] \in Int
    OBVIOUS
  <2>1. PICK S : S = P[i] /\ IsFiniteSet(S) /\ S # {} /\ \A x \in S : f[x] \in Int
    OBVIOUS
  <2>2. PICK sum \in Int : sum = SumOver(S, f)
    BY <2>1, SumIsInt
  <2>3. PICK n \in Nat : n = Cardinality(S) /\ n # 0
    BY <2>1, FS_CardinalityType, FS_EmptySet
  <2>4. sum \div n \in Int
    BY <2>3
  <2> QED
    BY <1>1, <2>1, <2>2, <2>3, <2>4
<1>3. PICK sum \in Int : sum = SumOver(M, means)
  BY <1>2, SumIsInt
<1>4. PICK n \in Nat : n = Cardinality(M) /\ n # 0
  BY FS_CardinalityType, FS_EmptySet
<1>5. sum \div n \in Int
  BY <1>4
<1> QED
  BY <1>1, <1>3, <1>4, <1>5

\* Of the creatives: means of overlaps, the worst of them, and how many are measured.
LEMMA CreativeNumbers ==
    ASSUME DraftsInv, NEW p \in Procs, Run(p).command = "measure"
    PROVE  \A key \in DOMAIN CreativeDistinctiveness(drafts[p]).values :
               CreativeDistinctiveness(drafts[p]).values[key] \in Int
<1>1. drafts[p] \in Seq(Possible(p))
  BY DEF DraftsInv, DraftsOK
<1>2. PICK N \in Nat : DOMAIN drafts[p] = 1 .. N
  BY <1>1, LenProperties
<1>3. PICK cs : cs = drafts[p] /\ DOMAIN cs = 1 .. N
  BY <1>2
<1>4. PICK M : M = {i \in DOMAIN cs : Len(cs[i].creatives) >= 2}
  OBVIOUS
<1>5. IsFiniteSet(M)
  <2>1. IsFiniteSet(1 .. N)
    <3>1. 1 \in Int /\ N \in Int
      OBVIOUS
    <3> QED
      BY <3>1, FS_Interval
  <2> QED
    BY <1>3, <1>4, <2>1, FS_Subset
<1>6. PICK P : P = [i \in M |-> PairsOf(cs, i)]
  OBVIOUS
<1>7. PICK pairs : pairs = AllPairs(cs) /\ pairs = UNION {PairsOf(cs, i) : i \in M}
  BY <1>4 DEF AllPairs
<1>8. /\ IsFiniteSet(pairs)
      /\ \A x \in pairs : x.copy \in Int /\ x.brief \in Int /\ x.a \in Int /\ x.b \in Int
      /\ \A x \in pairs : x.lever \in Int
      /\ \A x, y \in pairs : x.brief = y.brief /\ x.a = y.a /\ x.b = y.b => x = y
  BY <1>3, <1>7, PairsAre
<1>9. \A i \in M : IsFiniteSet(P[i]) /\ P[i] # {} /\ P[i] \subseteq pairs
  <2> SUFFICES ASSUME NEW i \in M
               PROVE  IsFiniteSet(PairsOf(cs, i)) /\ PairsOf(cs, i) # {}
                      /\ PairsOf(cs, i) \subseteq pairs
    BY <1>6
  <2>1. PICK n \in Nat : HasCreatives(cs[i].creatives, n)
    BY <1>3, <1>4, CreativesAre
  <2>2. n >= 2
    BY <1>4, <2>1 DEF HasCreatives
  <2>3. IsFiniteSet(PairsOf(cs, i))
    BY <2>1, PairsOfOne
  <2>4. PairsOf(cs, i) = UNION {{PairAt(cs, i, j, k) : k \in j + 1 .. n} : j \in 1 .. n}
    BY <2>1 DEF PairsOf, PairAt, HasCreatives
  <2>5. 1 \in 1 .. n /\ 2 \in 1 + 1 .. n
    BY <2>2
  <2>6. PairAt(cs, i, 1, 2) \in PairsOf(cs, i)
    BY <2>4, <2>5
  <2> QED
    BY <1>7, <2>3, <2>6
<1>10. PICK copies, levers : copies = [x \in pairs |-> x.copy] /\ levers = [x \in pairs |-> x.lever]
  OBVIOUS
<1>11. /\ \A i \in M : \A x \in P[i] : copies[x] \in Int
       /\ \A i \in M : \A x \in P[i] : levers[x] \in Int
  BY <1>8, <1>9, <1>10
<1>12. PICK copy, lever :
           /\ copy = SumOver(M, [i \in M |-> SumOver(P[i], copies) \div Cardinality(P[i])])
                         \div Cardinality(M)
           /\ lever = SumOver(M, [i \in M |-> SumOver(P[i], levers) \div Cardinality(P[i])])
                         \div Cardinality(M)
  OBVIOUS
<1>13. M # {} => copy \in Int /\ lever \in Int
  <2> SUFFICES ASSUME M # {} PROVE copy \in Int /\ lever \in Int
    OBVIOUS
  <2>1. copy \in Int
    BY <1>5, <1>9, <1>11, <1>12, MeanOfMeansIsInt
  <2>2. lever \in Int
    BY <1>5, <1>9, <1>11, <1>12, MeanOfMeansIsInt
  <2> QED
    BY <2>1, <2>2
<1>14. pairs # {} => Findings(pairs)[1].copy \in Int
  <2> SUFFICES ASSUME pairs # {} PROVE Findings(pairs)[1].copy \in Int
    OBVIOUS
  <2>1. PICK n \in Nat : n = Cardinality(pairs) /\ n # 0
    BY <1>8, FS_CardinalityType, FS_EmptySet
  <2>2. Findings(pairs) \in [1 .. n -> pairs]
    BY <1>8, <2>1, FindingsAre
  <2>3. Findings(pairs)[1] \in pairs
    BY <2>1, <2>2
  <2> QED
    BY <1>8, <2>3
<1>15. Unit * Cardinality(M) \in Int
  BY <1>5, FS_CardinalityType, UnitAssumption
<1>16. CreativeDistinctiveness(cs).values =
           [mean_copy_overlap |-> IF M = {} THEN 0 ELSE copy,
            mean_lever_overlap |-> IF M = {} THEN 0 ELSE lever,
            max_copy_overlap |-> IF pairs = {} THEN 0 ELSE Findings(pairs)[1].copy,
            campaigns_measured |-> Unit * Cardinality(M)]
  <2>1. \A f : SumOver(M, [i \in M |-> SumOver(P[i], f) \div Cardinality(P[i])])
                   = SumOver(M, [i \in M |-> SumOver(PairsOf(cs, i), f)
                                                 \div Cardinality(PairsOf(cs, i))])
    <3> SUFFICES ASSUME NEW f
                 PROVE  [i \in M |-> SumOver(P[i], f) \div Cardinality(P[i])]
                            = [i \in M |-> SumOver(PairsOf(cs, i), f)
                                               \div Cardinality(PairsOf(cs, i))]
      OBVIOUS
    <3> QED
      BY <1>6
  <2> QED
    BY <1>4, <1>7, <1>10, <1>12, <2>1 DEF CreativeDistinctiveness
<1>17. \A key \in DOMAIN CreativeDistinctiveness(cs).values :
           CreativeDistinctiveness(cs).values[key] \in Int
  <2>1. PICK a \in Int, b \in Int, c \in Int, d \in Int :
            /\ a = IF M = {} THEN 0 ELSE copy
            /\ b = IF M = {} THEN 0 ELSE lever
            /\ c = IF pairs = {} THEN 0 ELSE Findings(pairs)[1].copy
            /\ d = Unit * Cardinality(M)
    BY <1>13, <1>14, <1>15
  <2>2. CreativeDistinctiveness(cs).values =
            [mean_copy_overlap |-> a, mean_lever_overlap |-> b, max_copy_overlap |-> c,
             campaigns_measured |-> d]
    BY <1>16, <2>1
  <2> QED
    BY <2>2
<1> QED
  BY <1>3, <1>17

\* A report that measure makes is one of numbers.
LEMMA MeasuredNumbers ==
    ASSUME DraftsInv, JudgeInv, ChanceInv, NEW p \in Procs, Run(p).command = "measure"
    PROVE  HasNumbers(MeasureReport(p))
<1>1. PICK a, b, c, d : /\ a = ReasonConsistency(drafts[p])
                        /\ b = ScoringAblation(drafts[p])
                        /\ c = CreativeDistinctiveness(drafts[p])
                        /\ d = PersonaAttribution(judge[p])
  OBVIOUS
<1>2. \A key \in DOMAIN a.values : a.values[key] \in Int
  <2>1. IsFiniteSet(Entries(drafts[p])) /\ IsFiniteSet(Citations(drafts[p]))
    BY CitationsAreFinite
  <2> QED
    BY <1>1, <2>1, ReasonNumbers
<1>3. \A key \in DOMAIN b.values : b.values[key] \in Int
  BY <1>1, AblationNumbers
<1>4. \A key \in DOMAIN c.values : c.values[key] \in Int
  BY <1>1, CreativeNumbers
<1>5. \A key \in DOMAIN d.values : d.values[key] \in Int
  <2>1. JudgeOK(judge[p]) /\ ChanceOK(p)
    BY DEF JudgeInv, ChanceInv
  <2>2. judge[p].chance \in Int /\ judge[p].judged \in Nat
    BY <2>1 DEF ChanceOK
  <2> QED
    BY <1>1, <2>1, <2>2, AttributionNumbers
<1>6. MeasureReport(p) = [reason_consistency |-> a, scoring_ablation |-> b,
                          creative_distinctiveness |-> c, persona_attribution |-> d]
  BY <1>1 DEF MeasureReport
<1> QED
  BY <1>2, <1>3, <1>4, <1>5, <1>6 DEF HasNumbers

\* Every report is one of numbers.
NumbersInv == \A id \in DOMAIN reports : HasNumbers(reports[id])

\* The committed one is.
LEMMA NumbersStart == Init => NumbersInv
<1> SUFFICES ASSUME Init, NEW id \in DOMAIN reports PROVE HasNumbers(reports[id])
  BY DEF NumbersInv
<1>1. work \in Workloads /\ reports[id] = work.committed
  BY DEF Init, DraftInit, FilesInit
<1> QED
  BY <1>1, CommittedAssumption DEF HasNumbers

\* The others are measured.
LEMMA NumbersSteps ==
    FilesInv /\ DraftsInv /\ JudgeInv /\ ChanceInv /\ NumbersInv /\ [Next]_vars => NumbersInv'
<1> SUFFICES ASSUME FilesInv, DraftsInv, JudgeInv, ChanceInv, NumbersInv, [Next]_vars
             PROVE  NumbersInv'
  OBVIOUS
<1>1. CASE UNCHANGED reports
  BY <1>1 DEF NumbersInv
<1>2. ASSUME NEW q \in Procs, CreateReport(q) PROVE NumbersInv'
  <2>1. /\ pc[q] = "create"
        /\ reports' = [id \in DOMAIN reports \cup {q} |->
                          IF id = q THEN MeasureReport(q) ELSE reports[id]]
    BY <1>2 DEF CreateReport
  <2>2. Run(q).command = "measure"
    BY <2>1 DEF FilesInv, OnlyMeasureWrites
  <2>3. HasNumbers(MeasureReport(q))
    BY <2>2, MeasuredNumbers
  <2>4. DOMAIN reports' = DOMAIN reports \cup {q}
    BY <2>1
  <2>5. \A id \in DOMAIN reports' : HasNumbers(reports'[id])
    BY <2>1, <2>3, <2>4 DEF NumbersInv
  <2> QED
    BY <2>5 DEF NumbersInv
<1>3. ASSUME NEW q \in Procs, Drafts(q) \/ Judges(q) \/ Reads(q) \/ Serves(q) PROVE NumbersInv'
  BY <1>1, <1>3 DEF Drafts, Judges, Reads, OpenLatest, OpenComparison, OpenBaseline, ReadHead,
                    ReadTail, EndMeasure, Open, Serves, fileVars
<1>4. ASSUME NEW q \in Procs, Writes(q), ~CreateReport(q) PROVE NumbersInv'
  BY <1>1, <1>4 DEF Writes, CreateFails, WriteBlock, CloseReport, AbandonReport, fileVars
<1>5. ASSUME UNCHANGED fileVars PROVE NumbersInv'
  BY <1>1, <1>5 DEF fileVars
<1>6. CASE UNCHANGED vars
  BY <1>5, <1>6 DEF vars
<1> QED
  BY <1>2, <1>3, <1>4, <1>5, <1>6 DEF Next

---------------------------------------------------------------------------
(***************************************************************************)
(* The page of a new report says what the report does.                     *)
(***************************************************************************)

\* What is shown of a report that measure is about to write is what the report says.
THEOREM PageSaysWhatTheReportSays == Spec => []PageAgreesWithReport
<1>1. ASSUME DraftsInv, FilesInv, ReportsInv, FreshReports, NumbersInv
      PROVE  PageAgreesWithReport
  <2> SUFFICES ASSUME NEW id \in Procs, pc[id] = "write head", NEW base \in DOMAIN reports,
                      NEW report, report = reports[id],
                      NEW data, data = PageData(report, reports[base])
               PROVE
        /\ BarAgrees(data.metrics["reason_consistency"].chart, report["reason_consistency"])
        /\ ChartAgrees(data.metrics["scoring_ablation"].chart, report["scoring_ablation"].values)
        /\ DotsAgree(data.metrics["creative_distinctiveness"].chart.points,
                     report["creative_distinctiveness"].values)
        /\ \A name \in DOMAIN report : RowsAgree(data.metrics[name].rows, Compared(data, name))
    BY DEF PageAgreesWithReport
  <2>1. Run(id).command = "measure"
    BY <1>1 DEF FilesInv, OnlyMeasureWrites, Writing
  <2>2. report = MeasureReport(id)
    BY <1>1 DEF FreshReports
  <2>3. PICK cs : cs = drafts[id]
    OBVIOUS
  <2>4. /\ report["reason_consistency"] = ReasonConsistency(cs)
        /\ report["scoring_ablation"] = ScoringAblation(cs)
        /\ report["creative_distinctiveness"] = CreativeDistinctiveness(cs)
        /\ {"reason_consistency", "scoring_ablation", "creative_distinctiveness"}
               \subseteq DOMAIN report
    <3>1. PICK a, b, c, d : /\ a = ReasonConsistency(cs)
                            /\ b = ScoringAblation(cs)
                            /\ c = CreativeDistinctiveness(cs)
                            /\ d = PersonaAttribution(judge[id])
      OBVIOUS
    <3>2. report = [reason_consistency |-> a, scoring_ablation |-> b,
                    creative_distinctiveness |-> c, persona_attribution |-> d]
      BY <2>2, <2>3, <3>1 DEF MeasureReport
    <3>3. /\ report["reason_consistency"] = a
          /\ report["scoring_ablation"] = b
          /\ report["creative_distinctiveness"] = c
          /\ {"reason_consistency", "scoring_ablation", "creative_distinctiveness"}
                 \subseteq DOMAIN report
      BY ONLY <3>2
    <3> QED
      BY <3>1, <3>3
  <2>5. /\ data.metrics["reason_consistency"].chart = ReasonBar(ReasonConsistency(cs))
        /\ data.metrics["scoring_ablation"].chart = AblationChart(ScoringAblation(cs))
        /\ data.metrics["creative_distinctiveness"].chart
               = Distinctiveness(CreativeDistinctiveness(cs))
    BY <2>4 DEF PageData, MetricView
  <2>6. BarAgrees(data.metrics["reason_consistency"].chart, report["reason_consistency"])
    <3>1. IsFiniteSet(Citations(cs))
      BY <1>1, <2>1, <2>3, CitationsAreFinite
    <3>2. BarAgrees(ReasonBar(ReasonConsistency(cs)), ReasonConsistency(cs))
      BY <3>1, BarIs
    <3> QED
      BY <2>4, <2>5, <3>2
  <2>7. ChartAgrees(data.metrics["scoring_ablation"].chart, report["scoring_ablation"].values)
    <3>1. PICK m : m = ScoringAblation(cs)
      OBVIOUS
    <3>2. \A s \in SubScores : /\ m.values[<<"top5_change_rate", s>>] \in Int
                               /\ m.values[<<"mean_rank_shift", s>>] \in Int
      BY <1>1, <2>1, <2>3, <3>1, AblationValuesAre
    <3>3. ChartAgrees(AblationChart(m), m.values)
      BY <3>2, ChartIs
    <3> QED
      BY <2>4, <2>5, <3>1, <3>3
  <2>8. DotsAgree(data.metrics["creative_distinctiveness"].chart.points,
                  report["creative_distinctiveness"].values)
    <3>1. /\ IsFiniteSet(AllPairs(cs))
          /\ \A x \in AllPairs(cs) : x.copy \in Int /\ x.brief \in Int /\ x.a \in Int /\ x.b \in Int
          /\ \A x, y \in AllPairs(cs) : x.brief = y.brief /\ x.a = y.a /\ x.b = y.b => x = y
      BY <1>1, <2>1, <2>3, PairsAre
    <3>2. DotsAgree(Distinctiveness(CreativeDistinctiveness(cs)).points,
                    CreativeDistinctiveness(cs).values)
      BY <3>1, DotsAre
    <3> QED
      BY <2>4, <2>5, <3>2
  <2>9. ASSUME NEW name \in DOMAIN report
        PROVE  RowsAgree(data.metrics[name].rows, Compared(data, name))
    <3>1. HasNumbers(reports[base])
      BY <1>1 DEF NumbersInv
    <3>2. id \in DOMAIN reports
      BY <1>1 DEF ReportsInv, Writing
    <3>3. HasNumbers(report)
      BY <1>1, <3>2 DEF NumbersInv
    <3> QED
      BY <2>9, <3>1, <3>3, RowsAre
  <2> QED
    BY <2>6, <2>7, <2>8, <2>9
<1>2. Init => FreshReports
  BY DEF Init, DraftInit, FreshReports
<1> QED
  BY <1>1, <1>2, DraftsComeFromBriefs, FilesAreTracked, JudgeStart, JudgeSteps,
     ReportsStart, ReportsSteps, FreshSteps, ChanceStart, ChanceSteps, NumbersStart,
     NumbersSteps, PTL DEF Spec
=============================================================================
