------------------------------ MODULE Reports ------------------------------
(***************************************************************************)
(* The end of "disco measure" (cmd/disco/main.go) and the files it leaves  *)
(* for "disco metrics": a report is written in place, over the latest one  *)
(* or over the baseline, and is read back by whoever opens the file.       *)
(*                                                                         *)
(* A file is a sequence of two blocks, so that a reader or another writer  *)
(* may come between them; a block is named after the report it is part of, *)
(* and a report after the process that measured it.                        *)
(***************************************************************************)
EXTENDS Attribution

VARIABLES
    disk,       \* the files
    reports,    \* the reports finished so far
    reader,     \* what each process is reading
    page,       \* what each process has read: the latest report and the baseline
    overlapped  \* auxiliary: whose writes, and whose last reads, overlapped a write

Files == {"latest", "baseline"}
NoFile == <<"no file">>
Hole == "hole"          \* never written
Committed == "committed"    \* the baseline of the repository
Unreadable == "garbled"     \* what a torn file is to its readers

\* A block is told by its name from everything else that a file or a load may be.
ASSUME ProcessAssumption ==
    Process \cap {"no file", Hole, Committed, "end", "none", "absent", "error", "mixed",
                  Unreadable} = {}

\* A report is a table of numbers, the committed one too (the values of a metric are
\* float64, whatever its file says).
ASSUME CommittedAssumption ==
    \A w \in Workloads : \A name \in DOMAIN w.committed :
        \A key \in DOMAIN w.committed[name].values : w.committed[name].values[key] \in Int

NotReading == [at |-> "idle", path |-> "latest", head |-> Hole]
NothingRead == [latest |-> "none", baseline |-> "none"]

fileVars == <<disk, reports, reader, page, overlapped>>

FilesInit ==
    /\ disk = [latest |-> NoFile,
               baseline |-> IF work.committed = << >> THEN NoFile ELSE <<Committed, Committed>>]
    /\ reports = [id \in {Committed} |-> work.committed]
    /\ reader = [p \in Procs |-> NotReading]
    /\ page = [p \in Procs |-> NothingRead]
    /\ overlapped = [writes |-> {}, reads |-> {}]

MeasureReport(p) ==
    [reason_consistency |-> ReasonConsistency(drafts[p]),
     scoring_ablation |-> ScoringAblation(drafts[p]),
     creative_distinctiveness |-> CreativeDistinctiveness(drafts[p]),
     persona_attribution |-> PersonaAttribution(judge[p])]

Dest(p) == IF Run(p).save THEN "baseline" ELSE "latest"
Writing == {"write head", "write tail", "close"}
Writers(path) == {p \in Procs : pc[p] \in Writing /\ Dest(p) = path}
Readers(path) == {p \in Procs : reader[p].at # "idle" /\ reader[p].path = path}

\* The file at path is opened by p and truncated.
CreateReport(p) ==
    LET path == Dest(p)
    IN /\ pc[p] = "create"
       /\ Goto(p, "write head")
       /\ reports' = [id \in DOMAIN reports \cup {p} |->
                         IF id = p THEN MeasureReport(p) ELSE reports[id]]
       /\ disk' = [disk EXCEPT ![path] = << >>]
       /\ overlapped' = [reads |-> overlapped.reads \cup Readers(path),
                         writes |-> IF Writers(path) = {} THEN overlapped.writes
                                    ELSE overlapped.writes \cup Writers(path) \cup {p}]
       /\ UNCHANGED <<work, drafts, failures, judge, reader, page>>

\* The directory or the file cannot be made: nothing is touched.
CreateFails(p) ==
    /\ pc[p] = "create"
    /\ Goto(p, "error")
    /\ UNCHANGED <<work, drafts, failures, judge, fileVars>>

\* A block lands where its writer has come to, whatever the file has become.
WriteAt(blocks, k, b) ==
    [i \in 1 .. Greatest(k, Len(blocks)) |->
        IF i = k THEN b ELSE IF i <= Len(blocks) THEN blocks[i] ELSE Hole]

WriteBlock(p) ==
    /\ pc[p] \in {"write head", "write tail"}
    /\ disk' = [disk EXCEPT ![Dest(p)] = WriteAt(@, IF pc[p] = "write head" THEN 1 ELSE 2, p)]
    /\ Goto(p, IF pc[p] = "write head" THEN "write tail" ELSE "close")
    /\ UNCHANGED <<work, drafts, failures, judge, reports, reader, page, overlapped>>

\* A write fails, or the process is killed: what is there stays.
AbandonReport(p) ==
    /\ pc[p] \in Writing
    /\ \E label \in {"error", "killed"} : Goto(p, label)
    /\ UNCHANGED <<work, drafts, failures, judge, fileVars>>

\* Unless it is the new baseline, the report is then compared with the baseline.
CloseReport(p) ==
    /\ pc[p] = "close"
    /\ Goto(p, IF Run(p).save THEN "ok" ELSE "diff")
    /\ UNCHANGED <<work, drafts, failures, judge, fileVars>>

---------------------------------------------------------------------------
(***************************************************************************)
(* Reading a report.                                                       *)
(***************************************************************************)

Block(path, k) == IF k <= Len(disk[path]) THEN disk[path][k] ELSE "end"

\* The end of a torn report taken for a missing one.
DecodedLeniently(head, tail) ==
    IF "end" \in {head, tail} THEN {"absent"}
    ELSE IF Hole \in {head, tail} THEN {"error"}
    ELSE IF head = tail THEN {head} ELSE {"error", "mixed"}

\* What may come of two blocks: parts of two reports may fit together.
Decoded(head, tail) ==
    IF {"end", Hole} \cap {head, tail} # {} THEN {"error"}
    ELSE IF head = tail THEN {head} ELSE {"error", "mixed"}

Refused == {"absent", "error"}

\* p starts reading the file at path; the latest report is read first.
Shown(p, path, r) ==
    [page EXCEPT ![p] = IF path = "latest" THEN [latest |-> r, baseline |-> "none"]
                        ELSE [@ EXCEPT !.baseline = r]]

Open(p, path) ==
    LET absent == disk[path] = NoFile
    IN /\ reader[p].at = "idle"
       /\ reader' = [reader EXCEPT ![p] = [at |-> IF absent THEN "idle" ELSE "head",
                                           path |-> path, head |-> Hole]]
       /\ page' = Shown(p, path, IF absent THEN "absent" ELSE "none")
       /\ overlapped' = [overlapped EXCEPT !.reads = IF Writers(path) = {} THEN @ \ {p}
                                                     ELSE @ \cup {p}]
       /\ UNCHANGED <<disk, reports>>

ReadHead(p) ==
    /\ reader[p].at = "head"
    /\ reader' = [reader EXCEPT ![p] = [at |-> "tail", path |-> @.path,
                                        head |-> Block(@.path, 1)]]
    /\ UNCHANGED <<work, pc, drafts, failures, judge, disk, reports, page, overlapped>>

ReadTail(p) ==
    /\ reader[p].at = "tail"
    /\ \E r \in Decoded(reader[p].head, Block(reader[p].path, 2)) :
          page' = Shown(p, reader[p].path, r)
    /\ reader' = [reader EXCEPT ![p].at = "idle"]
    /\ UNCHANGED <<work, pc, drafts, failures, judge, disk, reports, overlapped>>

\* measure ends with the comparison, if there is a baseline to compare with.
OpenBaseline(p) ==
    /\ pc[p] = "diff"
    /\ page[p].baseline = "none"
    /\ Open(p, "baseline")
    /\ UNCHANGED <<work, pc, drafts, failures, judge>>

EndMeasure(p) ==
    /\ pc[p] = "diff"
    /\ page[p].baseline # "none"
    /\ Goto(p, "ok")
    /\ UNCHANGED <<work, drafts, failures, judge, fileVars>>

\* What a comparison says: a report made before a metric or a value existed lacks
\* it, and of the rest each change is printed with its sign.
Change(delta) == [delta |-> delta, sign |-> IF delta < 0 THEN "-" ELSE "+"]

Deltas(values, base) ==
    [absent |-> DOMAIN base \ DOMAIN values, new |-> DOMAIN values \ DOMAIN base,
     both |-> [k \in DOMAIN values \cap DOMAIN base |-> Change(values[k] - base[k])]]

Diff(current, baseline) ==
    [absent |-> DOMAIN baseline \ DOMAIN current, new |-> DOMAIN current \ DOMAIN baseline,
     compared |-> [name \in DOMAIN current \cap DOMAIN baseline |->
                      Deltas(current[name].values, baseline[name].values)]]
=============================================================================
