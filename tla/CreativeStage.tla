---------------------------- MODULE CreativeStage ----------------------------
(***************************************************************************)
(* Stage 5 (internal/pipeline/creative.go): one goroutine per selected     *)
(* persona in an errgroup, each making one model call with the group's     *)
(* context and writing its creative at its own index of a shared slice.    *)
(* The group's context is done when a goroutine has failed or the caller's *)
(* context is done.                                                        *)
(***************************************************************************)
EXTENDS Integers, Sequences, Loops

CONSTANTS
    Personas,       \* persona ids a selection may name
    Catalog,        \* those the catalog knows
    MaxSelected     \* bound: length of the selection

None == "none"

ASSUME CatalogAssumption == Catalog \subseteq Personas /\ None \notin Catalog
ASSUME BoundAssumption == MaxSelected \in Nat

VARIABLES
    selected,   \* sel.Selected: the persona ids, in order
    spawned,    \* how many goroutines the loop has started
    at,         \* where each goroutine is
    out,        \* the shared slice: a persona id, or the zero value None
    parentDone, \* the context given to Creatives is done
    groupErr,   \* the errgroup's first error
    returned,   \* Creatives has returned
    kept        \* the creatives it returned

vars == <<selected, spawned, at, out, parentDone, groupErr, returned, kept>>

Indices == 1 .. Len(selected)
Selections == UNION {[1 .. n -> Personas] : n \in 0 .. MaxSelected}
Places == {"unborn", "ready", "calling", "finished"}

\* The context of the group: cancelled by the first error or by the parent.
GroupDone == parentDone \/ groupErr # None

Init ==
    /\ selected \in {s \in Selections :
                        \A i, j \in DOMAIN s : s[i] = s[j] => i = j}
    /\ spawned = 0
    /\ at = [i \in Indices |-> "unborn"]
    /\ out = [i \in Indices |-> None]
    /\ parentDone = FALSE
    /\ groupErr = None
    /\ returned = FALSE
    /\ kept = << >>

---------------------------------------------------------------------------

\* The request's deadline passes, or its client goes away.
CancelParent ==
    /\ ~returned
    /\ ~parentDone
    /\ parentDone' = TRUE
    /\ UNCHANGED <<selected, spawned, at, out, groupErr, returned, kept>>

\* g.Go: the loop starts the goroutine of the next index.
Spawn ==
    /\ spawned < Len(selected)
    /\ spawned' = spawned + 1
    /\ at' = [at EXCEPT ![spawned + 1] = "ready"]
    /\ UNCHANGED <<selected, out, parentDone, groupErr, returned, kept>>

Move(i, from, to) == at[i] = from /\ at' = [at EXCEPT ![i] = to]

\* A persona the catalog does not know: no call, and no creative.
Skip(i) ==
    /\ selected[i] \notin Catalog
    /\ Move(i, "ready", "finished")
    /\ UNCHANGED <<selected, spawned, out, parentDone, groupErr, returned, kept>>

CallUnknown(i) ==
    /\ Move(i, "ready", "calling")
    /\ UNCHANGED <<selected, spawned, out, parentDone, groupErr, returned, kept>>

\* A known persona: its goroutine calls the model.
Call(i) ==
    /\ selected[i] \in Catalog
    /\ Move(i, "ready", "calling")
    /\ UNCHANGED <<selected, spawned, out, parentDone, groupErr, returned, kept>>

WriteAt(i, k) ==
    /\ Move(i, "calling", "finished")
    /\ out' = [out EXCEPT ![k] = selected[i]]
    /\ UNCHANGED <<selected, spawned, parentDone, groupErr, returned, kept>>

FirstFree == CHOOSE k \in Indices :
                 out[k] = None /\ \A j \in 1 .. k - 1 : out[j] # None

CallOkAppends(i) == WriteAt(i, FirstFree)

\* The model answered: the goroutine owns index i.  A recorded answer comes
\* whether or not the context is done.
CallOk(i) == WriteAt(i, i)

FailLastWins(i, err) ==
    /\ Move(i, "calling", "finished")
    /\ groupErr' = err
    /\ UNCHANGED <<selected, spawned, out, parentDone, returned, kept>>

\* The goroutine returns an error: the group keeps the first one, and its
\* context is cancelled.
Fail(i, err) ==
    /\ Move(i, "calling", "finished")
    /\ groupErr' = IF groupErr = None THEN err ELSE groupErr
    /\ UNCHANGED <<selected, spawned, out, parentDone, returned, kept>>

\* A provider or validation error of the call itself.
CallFails(i) == Fail(i, "call")

CallSeesParentOnly(i) == parentDone /\ Fail(i, "cancelled")

\* The call gives up because its context, the group's, is done.
CallCancelled(i) == GroupDone /\ Fail(i, "cancelled")

\* g.Wait: every goroutine has finished.
WaitForAll ==
    /\ ~returned
    /\ spawned = Len(selected)
    /\ \A i \in Indices : at[i] = "finished"

\* An error returns nothing; otherwise the slots left empty are dropped.
Return ==
    /\ WaitForAll
    /\ returned' = TRUE
    /\ kept' = IF groupErr = None
               THEN Outside(out, {None})
               ELSE << >>
    /\ UNCHANGED <<selected, spawned, at, out, parentDone, groupErr>>

Next ==
    \/ CancelParent
    \/ Spawn
    \/ \E i \in Indices :
        Skip(i) \/ Call(i) \/ CallOk(i) \/ CallFails(i) \/ CallCancelled(i)
    \/ Return

\* The runtime runs every goroutine, and a call whose context is done returns.
\* Nothing obliges the model to answer or a context to be cancelled.
Fairness ==
    /\ WF_vars(Spawn)
    /\ WF_vars(Return)
    /\ \A i \in 1 .. MaxSelected :
        WF_vars(i \in Indices /\ (Skip(i) \/ Call(i) \/ CallCancelled(i)))

Spec == Init /\ [][Next]_vars

FairSpec == Spec /\ Fairness

---------------------------------------------------------------------------
(***************************************************************************)
(* Properties.                                                             *)
(***************************************************************************)

\* The type invariant of the stage and its goroutines.
TypeOK ==
    /\ selected \in Seq(Personas)
    /\ spawned \in 0 .. Len(selected)
    /\ at \in [Indices -> Places]
    /\ out \in [Indices -> Catalog \cup {None}]
    /\ parentDone \in BOOLEAN
    /\ groupErr \in {None, "call", "cancelled"}
    /\ returned \in BOOLEAN
    /\ kept \in Seq(Catalog)

\* The error a user sees is a cause, never the cancellation a sibling's failure
\* induced: the stage reports a cancellation only when its own caller's context
\* was done (creative.go:49-64).
RootCauseReported == groupErr = "cancelled" => parentDone

\* A creative stands for the persona of its own index: whatever order the calls
\* return in, the result follows the order of the selection, with one creative
\* for each persona the catalog knows (creative.go:24-27, 81-91).
OneCreativePerPersona ==
    returned /\ groupErr = None =>
        kept = Outside(selected, Personas \ Catalog)

\* When a call has failed or the caller's context is done the stage returns,
\* even if every other call would hang (creative.go:51-54).
FailureEndsTheStage == GroupDone ~> returned
=============================================================================
