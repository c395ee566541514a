---------------------------- MODULE CreativeProofs ----------------------------
(***************************************************************************)
(* Proofs about CreativeStage, for any catalog and any selection: the      *)
(* error reported is a root cause, each index of the shared slice belongs  *)
(* to the persona selected there, and so the creatives follow the order of *)
(* the selection, whatever order the calls return in.                      *)
(***************************************************************************)
EXTENDS CreativeStage, LoopTheorems, TLAPS

\* The part of the type invariant the steps of a goroutine rest on.
GoroutinesTyped ==
    /\ selected \in Seq(Personas)
    /\ spawned \in 0 .. Len(selected)
    /\ at \in [Indices -> Places]
    /\ out \in [Indices -> Catalog \cup {None}]

\* A goroutine past its lookup knows its persona.
CallersAreKnown ==
    \A i \in Indices : at[i] = "calling" => selected[i] \in Catalog

\* What a goroutine leaves at its index: nothing before it has finished, its own
\* persona after a call that succeeded.
SlotOwned(i) ==
    /\ at[i] # "finished" => out[i] = None
    /\ at[i] = "finished" /\ groupErr = None =>
        out[i] = IF selected[i] \in Catalog THEN selected[i] ELSE None

SlotsOwned == \A i \in Indices : SlotOwned(i)

ReturnedLast ==
    returned => spawned = Len(selected) /\ \A i \in Indices : at[i] = "finished"

\* A goroutine the loop has not reached has not begun, and one it has reached
\* has: Spawn never restarts a goroutine.
SpawnedInOrder == \A i \in Indices : at[i] = "unborn" <=> i > spawned

IInv ==
    /\ GoroutinesTyped
    /\ CallersAreKnown
    /\ SlotsOwned
    /\ ReturnedLast
    /\ SpawnedInOrder

\* The steps of the goroutine at index i.
Step(i) == Skip(i) \/ Call(i) \/ CallOk(i) \/ CallFails(i) \/ CallCancelled(i)

---------------------------------------------------------------------------

\* No goroutine has begun, and every slot is empty.
LEMMA InitIInv == Init => IInv
<1> SUFFICES ASSUME Init PROVE IInv
  OBVIOUS
<1>1. selected \in Seq(Personas)
  BY BoundAssumption DEF Init, Selections
<1>2. GoroutinesTyped
  BY <1>1 DEF Init, GoroutinesTyped, Indices, Places
<1>3. CallersAreKnown
  BY DEF Init, CallersAreKnown
<1>4. SlotsOwned
  BY DEF Init, SlotsOwned, SlotOwned
<1>5. ReturnedLast
  BY DEF Init, ReturnedLast
<1>6. SpawnedInOrder
  BY <1>1 DEF Init, SpawnedInOrder, Indices
<1> QED
  BY <1>2, <1>3, <1>4, <1>5, <1>6 DEF IInv

\* A goroutine that moves, writes at most its own index and never clears the
\* group's error keeps the invariant.
LEMMA StepIInv ==
    ASSUME IInv, NEW i \in Indices, Step(i)
    PROVE  IInv'
<1> USE DEF IInv, GoroutinesTyped
<1>1. selected' = selected /\ spawned' = spawned /\ returned' = returned
  BY DEF Step, Skip, Call, CallOk, WriteAt, CallFails, CallCancelled, Fail
<1>2. Indices' = Indices
  BY <1>1 DEF Indices
<1>3. \E to \in {"calling", "finished"} :
        at' = [at EXCEPT ![i] = to] /\ at[i] \in {"ready", "calling"}
  BY DEF Step, Skip, Call, CallOk, WriteAt, CallFails, CallCancelled, Fail, Move
<1>4. PICK to \in {"calling", "finished"} :
        at' = [at EXCEPT ![i] = to] /\ at[i] \in {"ready", "calling"}
  BY <1>3
<1>5. at' \in [Indices -> Places]
  BY <1>4 DEF Places
<1>6. /\ \A j \in Indices \ {i} : at'[j] = at[j]
      /\ at'[i] = to
  BY <1>4
<1>7. \/ out' = out
      \/ CallOk(i) /\ out' = [out EXCEPT ![i] = selected[i]]
  BY DEF Step, Skip, Call, CallOk, WriteAt, CallFails, CallCancelled, Fail
<1>8. CallOk(i) => selected[i] \in Catalog
  BY DEF CallOk, WriteAt, Move, CallersAreKnown
<1>9. out' \in [Indices -> Catalog \cup {None}]
  BY <1>7, <1>8
<1>10. GoroutinesTyped'
  BY <1>1, <1>2, <1>5, <1>9
<1>11. CallersAreKnown'
  <2> SUFFICES ASSUME NEW j \in Indices, at'[j] = "calling"
               PROVE  selected[j] \in Catalog
    BY <1>1, <1>2 DEF CallersAreKnown
  <2>1. CASE j # i
    BY <2>1, <1>6 DEF CallersAreKnown
  <2>2. CASE j = i
    <3>1. Call(i)
      BY <2>2, <1>5 DEF Step, Skip, CallOk, WriteAt, CallFails, CallCancelled, Fail, Move
    <3> QED
      BY <3>1, <2>2 DEF Call
  <2> QED
    BY <2>1, <2>2
<1>12. groupErr' = None => groupErr = None
  BY DEF Step, Skip, Call, CallOk, WriteAt, CallFails, CallCancelled, Fail
<1>13. SlotsOwned'
  <2> SUFFICES ASSUME NEW j \in Indices PROVE SlotOwned(j)'
    BY <1>2 DEF SlotsOwned
  <2>1. SlotOwned(j)
    BY DEF SlotsOwned
  <2>2. CASE j # i
    <3>1. out'[j] = out[j] /\ at'[j] = at[j]
      BY <2>2, <1>6, <1>7
    <3> QED
      BY <3>1, <2>1, <1>1, <1>12 DEF SlotOwned
  <2>3. CASE j = i
    <3>1. out[i] = None
      BY <2>1, <2>3, <1>4 DEF SlotOwned
    <3>2. CASE Skip(i)
      BY <3>1, <3>2, <2>3, <1>1 DEF Skip, Move, SlotOwned
    <3>3. CASE Call(i)
      BY <3>1, <3>3, <2>3, <1>1 DEF Call, Move, SlotOwned
    <3>4. CASE CallOk(i)
      BY <3>4, <2>3, <1>1, <1>8 DEF CallOk, WriteAt, Move, SlotOwned
    <3>5. CASE CallFails(i) \/ CallCancelled(i)
      <4>1. groupErr' # None /\ at'[i] = "finished"
        BY <3>5 DEF CallFails, CallCancelled, Fail, Move, None
      <4> QED
        BY <4>1, <2>3 DEF SlotOwned
    <3> QED
      BY <3>2, <3>3, <3>4, <3>5 DEF Step
  <2> QED
    BY <2>2, <2>3
<1>14. ~returned
  BY <1>4 DEF ReturnedLast
<1>15. ReturnedLast'
  BY <1>1, <1>14 DEF ReturnedLast
<1>16. SpawnedInOrder'
  BY <1>1, <1>2, <1>4, <1>6 DEF SpawnedInOrder
<1> QED
  BY <1>10, <1>11, <1>13, <1>15, <1>16

\* Beside the goroutines only Spawn, Return and a cancellation change the stage.
LEMMA NextIInv == IInv /\ [Next]_vars => IInv'
<1> SUFFICES ASSUME IInv, [Next]_vars PROVE IInv'
  OBVIOUS
<1> USE DEF IInv, GoroutinesTyped
<1>1. CASE CancelParent \/ UNCHANGED vars
  <2>1. UNCHANGED <<selected, spawned, at, out, groupErr, returned>>
    BY <1>1 DEF CancelParent, vars
  <2> QED
    BY <2>1 DEF CallersAreKnown, SlotsOwned, SlotOwned, ReturnedLast, SpawnedInOrder, Indices
<1>2. CASE Spawn
  <2>1. /\ UNCHANGED <<selected, out, groupErr, returned>>
        /\ spawned < Len(selected)
        /\ spawned' = spawned + 1
        /\ at' = [at EXCEPT ![spawned + 1] = "ready"]
    BY <1>2 DEF Spawn
  <2>2. Indices' = Indices /\ spawned + 1 \in Indices
    BY <2>1 DEF Indices
  <2>3. at[spawned + 1] = "unborn"
    BY <2>2 DEF SpawnedInOrder
  <2>4. at' \in [Indices -> Places]
    BY <2>1, <2>2 DEF Places
  <2>5. GoroutinesTyped'
    BY <2>1, <2>2, <2>4
  <2>6. CallersAreKnown'
    BY <2>1, <2>2 DEF CallersAreKnown
  <2>7. SlotsOwned'
    BY <2>1, <2>2, <2>3 DEF SlotsOwned, SlotOwned
  <2>8. ReturnedLast'
    BY <2>1 DEF ReturnedLast
  <2>9. SpawnedInOrder'
    BY <2>1, <2>2 DEF SpawnedInOrder, Indices
  <2> QED
    BY <2>5, <2>6, <2>7, <2>8, <2>9
<1>3. CASE \E i \in Indices : Step(i)
  BY <1>3, StepIInv
<1>4. CASE Return
  <2>1. UNCHANGED <<selected, spawned, at, out, groupErr>>
    BY <1>4 DEF Return
  <2>2. spawned = Len(selected) /\ \A i \in Indices : at[i] = "finished"
    BY <1>4 DEF Return, WaitForAll
  <2> QED
    BY <2>1, <2>2 DEF CallersAreKnown, SlotsOwned, SlotOwned, ReturnedLast, SpawnedInOrder, Indices
<1> QED
  BY <1>1, <1>2, <1>3, <1>4 DEF Next, Step

\* The invariant holds of every run of the stage.
THEOREM StageInvariant == Spec => []IInv
BY InitIInv, NextIInv, PTL DEF Spec

\* When the stage has returned without an error, the slice holds at each index the
\* persona selected there, or nothing for one the catalog does not know: no call,
\* however late, wrote anywhere but at its own index.
SliceMatchesSelection ==
    returned /\ groupErr = None =>
        out = [i \in Indices |-> IF selected[i] \in Catalog THEN selected[i] ELSE None]

\* The slice matches the selection whatever the order of the calls (creative.go:24-27).
THEOREM SlotsAreOwned == Spec => []SliceMatchesSelection
<1>1. IInv => SliceMatchesSelection
  BY DEF IInv, GoroutinesTyped, ReturnedLast, SlotsOwned, SlotOwned, SliceMatchesSelection
<1> QED
  BY <1>1, StageInvariant, PTL

\* The error of the stage is a cancellation only when its caller's context was
\* done: the one a sibling's failure induces never replaces the failure.
THEOREM RootCause == Spec => []RootCauseReported
<1>1. Init => RootCauseReported
  BY DEF Init, RootCauseReported, None
<1>2. RootCauseReported /\ [Next]_vars => RootCauseReported'
  <2> SUFFICES ASSUME RootCauseReported, [Next]_vars PROVE RootCauseReported'
    OBVIOUS
  <2> USE DEF RootCauseReported
  <2>1. CASE \E i \in Indices : CallFails(i) \/ CallCancelled(i)
    BY <2>1 DEF CallFails, CallCancelled, Fail, GroupDone
  <2>2. CASE UNCHANGED groupErr /\ (parentDone' = parentDone \/ parentDone')
    BY <2>2
  <2> QED
    BY <2>1, <2>2 DEF Next, CancelParent, Spawn, Skip, Call, CallOk, WriteAt, Return, vars
<1> QED
  BY <1>1, <1>2, PTL DEF Spec

---------------------------------------------------------------------------

\* What Creatives returns is computed once, from the finished slice.
KeptOnce ==
    kept = IF returned /\ groupErr = None THEN Outside(out, {None}) ELSE << >>

FlagsTyped ==
    /\ parentDone \in BOOLEAN
    /\ groupErr \in {None, "call", "cancelled"}
    /\ returned \in BOOLEAN

\* No goroutine writes after the stage has returned.
LEMMA NextKeptOnce == IInv /\ KeptOnce /\ [Next]_vars => KeptOnce'
<1> SUFFICES ASSUME IInv, KeptOnce, [Next]_vars PROVE KeptOnce'
  OBVIOUS
<1>1. CASE UNCHANGED <<out, groupErr, returned, kept>>
  BY <1>1 DEF KeptOnce
<1>2. CASE \E i \in Indices : CallOk(i) \/ CallFails(i) \/ CallCancelled(i)
  <2>1. PICK i \in Indices : CallOk(i) \/ CallFails(i) \/ CallCancelled(i)
    BY <1>2
  <2>2. at[i] = "calling" /\ UNCHANGED <<returned, kept>>
    BY <2>1 DEF CallOk, WriteAt, CallFails, CallCancelled, Fail, Move
  <2>3. ~returned
    BY <2>2 DEF IInv, ReturnedLast
  <2> QED
    BY <2>2, <2>3 DEF KeptOnce
<1>3. CASE Return
  BY <1>3 DEF Return, KeptOnce
<1> QED
  BY <1>1, <1>2, <1>3 DEF Next, CancelParent, Spawn, Skip, Call, vars

\* The flags and the error of the group keep their types.
LEMMA NextFlagsTyped == FlagsTyped /\ [Next]_vars => FlagsTyped'
<1> SUFFICES ASSUME FlagsTyped, [Next]_vars PROVE FlagsTyped'
  OBVIOUS
<1> USE DEF FlagsTyped
<1>1. CASE \E i \in Indices : CallFails(i) \/ CallCancelled(i)
  BY <1>1 DEF CallFails, CallCancelled, Fail
<1>2. CASE UNCHANGED <<parentDone, groupErr, returned>>
  BY <1>2
<1>3. CASE CancelParent \/ Return
  BY <1>3 DEF CancelParent, Return
<1> QED
  BY <1>1, <1>2, <1>3 DEF Next, Spawn, Skip, Call, CallOk, WriteAt, vars

\* What is returned comes from the finished slice, in every run of the stage.
THEOREM KeptInvariant == Spec => [](IInv /\ KeptOnce /\ FlagsTyped)
<1>1. Init => KeptOnce /\ FlagsTyped
  BY DEF Init, KeptOnce, FlagsTyped
<1> QED
  BY <1>1, InitIInv, NextIInv, NextKeptOnce, NextFlagsTyped, PTL DEF Spec

\* The shared slice is a sequence of personas and empty slots.
LEMMA SliceIsSeq == GoroutinesTyped => out \in Seq(Catalog \cup {None})
<1> SUFFICES ASSUME GoroutinesTyped PROVE out \in Seq(Catalog \cup {None})
  OBVIOUS
<1>1. out \in [1 .. Len(selected) -> Catalog \cup {None}] /\ Len(selected) \in Nat
  BY DEF GoroutinesTyped, Indices
<1> QED
  BY <1>1

\* The stage's variables keep their types: in particular it returns creatives of
\* the catalog's personas only, and no empty one.
THEOREM StageTypeOK == Spec => []TypeOK
<1>1. ASSUME IInv, KeptOnce, FlagsTyped PROVE TypeOK
  <2>1. Outside(out, {None}) \in Seq((Catalog \cup {None}) \ {None})
    BY <1>1, SliceIsSeq, OutsideIsSeq DEF IInv
  <2>2. (Catalog \cup {None}) \ {None} = Catalog
    BY CatalogAssumption
  <2>3. Outside(out, {None}) \in Seq(Catalog)
    BY <2>1, <2>2
  <2>4. kept \in Seq(Catalog)
    BY <1>1, <2>3 DEF KeptOnce
  <2> QED
    BY <1>1, <2>4 DEF TypeOK, IInv, GoroutinesTyped, FlagsTyped
<1> QED
  BY <1>1, KeptInvariant, PTL

\* The creatives stand in the order of the selection, one for each persona the
\* catalog knows, in every order in which the calls may return.
THEOREM CreativesFollowSelection == Spec => []OneCreativePerPersona
<1>1. ASSUME IInv, KeptOnce, returned, groupErr = None
      PROVE  kept = Outside(selected, Personas \ Catalog)
  <2>1. /\ selected \in Seq(Personas)
        /\ out \in Seq(Catalog \cup {None})
        /\ Len(out) = Len(selected)
    <3>1. GoroutinesTyped
      BY <1>1 DEF IInv
    <3>2. DOMAIN out = 1 .. Len(selected) /\ Len(selected) \in Nat
      BY <3>1 DEF GoroutinesTyped, Indices
    <3> QED
      BY <3>1, <3>2, SliceIsSeq DEF GoroutinesTyped
  <2>2. \A k \in 1 .. Len(out) :
            out[k] = IF selected[k] \in Catalog THEN selected[k] ELSE None
    BY <1>1, <2>1 DEF IInv, ReturnedLast, SlotsOwned, SlotOwned, Indices
  <2>3. \A k \in 1 .. Len(out) : selected[k] \in Personas
    BY <2>1
  <2>4. \A k \in 1 .. Len(out) : out[k] \in {None} <=> selected[k] \in Personas \ Catalog
    BY <2>2, <2>3, CatalogAssumption
  <2>5. \A k \in 1 .. Len(out) : out[k] \notin {None} => out[k] = selected[k]
    BY <2>2
  <2>6. Outside(out, {None}) = Outside(selected, Personas \ Catalog)
    BY <2>1, <2>4, <2>5, OutsideAgrees
  <2> QED
    BY <1>1, <2>6 DEF KeptOnce
<1>2. IInv /\ KeptOnce => OneCreativePerPersona
  BY <1>1 DEF OneCreativePerPersona
<1> QED
  BY <1>2, KeptInvariant, PTL

---------------------------------------------------------------------------
(***************************************************************************)
(* The end of the stage.                                                   *)
(***************************************************************************)

\* The steps a goroutine can still take, its start included.
StepsOf(place) ==
    CASE place = "unborn" -> 3
      [] place = "ready" -> 2
      [] place = "calling" -> 1
      [] place = "finished" -> 0

Remaining == [i \in Indices |-> StepsOf(at[i])]

\* Those of all goroutines, the end of the caller's context and the return.
StepsLeft ==
    SumOver(Indices, Remaining)
      + (IF parentDone THEN 0 ELSE 1) + (IF returned THEN 0 ELSE 1)

\* A step of the stage cannot be taken back.
EveryStepCounts == [][StepsLeft' < StepsLeft]_vars

\* What remains for a goroutine is a number.
LEMMA RemainingIsTyped ==
    ASSUME GoroutinesTyped
    PROVE  /\ IsFiniteSet(Indices) /\ Cardinality(Indices) = Len(selected)
           /\ Len(selected) \in Nat
           /\ \A i \in Indices : Remaining[i] \in Nat /\ Remaining[i] <= 3
<1>1. Len(selected) \in Nat
  BY DEF GoroutinesTyped
<1>2. IsFiniteSet(Indices) /\ Cardinality(Indices) = Len(selected)
  <2>1. PICK n \in Nat : n = Len(selected)
    BY <1>1
  <2>2. /\ IsFiniteSet(1 .. n)
        /\ Cardinality(1 .. n) = IF 1 > n THEN 0 ELSE n - 1 + 1
    BY FS_Interval
  <2>3. Cardinality(1 .. n) = n
    BY ONLY <2>2, n \in Nat
  <2> QED
    BY <2>1, <2>2, <2>3 DEF Indices
<1>3. ASSUME NEW i \in Indices PROVE Remaining[i] \in Nat /\ Remaining[i] <= 3
  <2>1. Remaining[i] = StepsOf(at[i]) /\ at[i] \in Places
    BY DEF Remaining, GoroutinesTyped
  <2> QED
    BY <2>1 DEF StepsOf, Places
<1> QED
  BY <1>1, <1>2, <1>3

\* A goroutine that moves leaves less to do.
LEMMA MoveCounts ==
    ASSUME GoroutinesTyped, GoroutinesTyped', UNCHANGED <<selected, parentDone, returned>>,
           NEW i \in Indices, NEW place \in Places, at' = [at EXCEPT ![i] = place],
           StepsOf(place) < StepsOf(at[i])
    PROVE  StepsLeft' < StepsLeft
<1>1. Indices' = Indices
  BY DEF Indices
<1>2. IsFiniteSet(Indices) /\ \A j \in Indices : Remaining[j] \in Int
  BY RemainingIsTyped
<1>3. at \in [Indices -> Places]
  BY DEF GoroutinesTyped
<1>4. PICK g : g = Remaining'
  OBVIOUS
<1>5. \A j \in Indices : g[j] = StepsOf(at'[j])
  BY <1>1, <1>4 DEF Remaining
<1>6. \A j \in Indices : Remaining[j] = StepsOf(at[j])
  BY DEF Remaining
<1>7. g[i] = StepsOf(place) /\ Remaining[i] = StepsOf(at[i])
  BY <1>3, <1>5, <1>6
<1>8. \A j \in Indices \ {i} : g[j] = Remaining[j]
  BY <1>3, <1>5, <1>6
<1>9. g[i] \in Int
  BY <1>7 DEF StepsOf, Places
<1>10. \A j \in Indices : g[j] \in Int
  BY <1>2, <1>8, <1>9
<1>11. SumOver(Indices, Remaining) = Remaining[i] + SumOver(Indices \ {i}, Remaining)
  BY <1>2, SumAtElement
<1>12. SumOver(Indices, g) = g[i] + SumOver(Indices \ {i}, g)
  BY <1>2, <1>10, SumAtElement
<1>13. IsFiniteSet(Indices \ {i})
  BY <1>2, FS_RemoveElement
<1>14. SumOver(Indices \ {i}, g) = SumOver(Indices \ {i}, Remaining)
  BY <1>8, <1>10, <1>13, SumCongruent
<1>15. SumOver(Indices \ {i}, Remaining) \in Int
  BY <1>2, <1>13, SumIsInt
<1>16. PICK a \in Int, b \in Int : a = Remaining[i] /\ b = g[i] /\ b < a
  BY <1>2, <1>7, <1>9
<1>17. SumOver(Indices, g) < SumOver(Indices, Remaining)
       /\ SumOver(Indices, g) \in Int /\ SumOver(Indices, Remaining) \in Int
  BY <1>11, <1>12, <1>14, <1>15, <1>16
<1>18. SumOver(Indices, g) = SumOver(Indices, Remaining)'
  BY <1>1, <1>4
<1> QED
  BY <1>17, <1>18 DEF StepsLeft

\* The stage takes at most three steps for each persona selected and two more, in every
\* order: no goroutine starts, calls or finishes twice (creative.go:30-77).
THEOREM StageEnds ==
    Spec => EveryStepCounts /\ [](StepsLeft \in 0 .. 3 * Len(selected) + 2)
<1>1. ASSUME IInv PROVE StepsLeft \in 0 .. 3 * Len(selected) + 2
  <2>1. /\ IsFiniteSet(Indices) /\ Cardinality(Indices) = Len(selected) /\ Len(selected) \in Nat
        /\ \A i \in Indices : Remaining[i] \in Nat /\ Remaining[i] <= 3
    BY <1>1, RemainingIsTyped DEF IInv
  <2>2. SumOver(Indices, Remaining) \in Nat
    BY <2>1, SumIsNat
  <2>3. PICK most : most = [i \in Indices |-> 3]
    OBVIOUS
  <2>4. \A i \in Indices : most[i] = 3 /\ Remaining[i] \in Int /\ Remaining[i] <= most[i]
    BY <2>1, <2>3
  <2>5. SumOver(Indices, Remaining) <= SumOver(Indices, most)
    BY <2>1, <2>4, SumMonotone
  <2>6. SumOver(Indices, most) = 3 * Len(selected)
    <3>1. IsFiniteSet(Indices) /\ 3 \in Int /\ \A i \in Indices : most[i] = 3
      BY <2>1, <2>4
    <3>2. SumOver(Indices, most) = 3 * Cardinality(Indices)
      BY <3>1, SumOfConstant
    <3> QED
      BY <2>1, <3>2
  <2> QED
    BY <2>1, <2>2, <2>5, <2>6 DEF StepsLeft
<1>2. ASSUME IInv, IInv', Next PROVE StepsLeft' < StepsLeft
  <2>1. GoroutinesTyped /\ GoroutinesTyped' /\ at \in [Indices -> Places]
    BY <1>2 DEF IInv, GoroutinesTyped
  <2>2. PICK n \in Int : n = SumOver(Indices, Remaining)
    BY <2>1, RemainingIsTyped, SumIsInt
  <2>3. CASE CancelParent \/ Return
    <3>1. UNCHANGED <<selected, at>>
      BY <2>3 DEF CancelParent, Return
    <3>2. Indices' = Indices
      BY <3>1 DEF Indices
    <3>3. SumOver(Indices, Remaining)' = n
      BY <2>2, <3>1, <3>2 DEF Remaining
    <3> QED
      BY <2>2, <2>3, <3>3 DEF StepsLeft, CancelParent, Return, WaitForAll
  <2>4. CASE Spawn
    <3>1. spawned + 1 \in Indices /\ spawned + 1 > spawned
      BY <2>1, <2>4 DEF Spawn, GoroutinesTyped, Indices
    <3>2. at[spawned + 1] = "unborn"
      BY <1>2, <3>1 DEF IInv, SpawnedInOrder
    <3>3. StepsOf("ready") < StepsOf(at[spawned + 1]) /\ "ready" \in Places
      BY <3>2 DEF StepsOf, Places
    <3> QED
      BY <2>1, <2>4, <3>1, <3>3, MoveCounts DEF Spawn
  <2>5. ASSUME NEW i \in Indices, Step(i) PROVE StepsLeft' < StepsLeft
    <3>1. UNCHANGED <<selected, parentDone, returned>>
      BY <2>5 DEF Step, Skip, Call, CallOk, WriteAt, CallFails, CallCancelled, Fail
    <3>2. \/ Move(i, "ready", "finished")
          \/ Move(i, "ready", "calling")
          \/ Move(i, "calling", "finished")
      BY <2>5 DEF Step, Skip, Call, CallOk, WriteAt, CallFails, CallCancelled, Fail
    <3>3. PICK place \in Places :
              at' = [at EXCEPT ![i] = place] /\ StepsOf(place) < StepsOf(at[i])
      BY <3>2 DEF Move, StepsOf, Places
    <3> QED
      BY <2>1, <3>1, <3>3, MoveCounts
  <2> QED
    BY <1>2, <2>3, <2>4, <2>5 DEF Next, Step
<1> QED
  BY <1>1, <1>2, StageInvariant, PTL DEF Spec, EveryStepCounts
=============================================================================
