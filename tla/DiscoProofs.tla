----------------------------- MODULE DiscoProofs -----------------------------
(***************************************************************************)
(* Theorems about the processes of disco, for every catalog, every         *)
(* workload and any number of processes: the report files are the safe     *)
(* registers of PageStore, and servers get a port whenever there is one.   *)
(***************************************************************************)
EXTENDS Disco, SequenceTheorems, TLAPS

Blocks == Process \cup {Committed, Hole}
Stored == {s \in Seq(Blocks) : Len(s) <= 2}
Results == Process \cup {Committed, "none", "absent", "error", "mixed"}

\* No stored sequence is the mark of a missing file.
LEMMA NoFileIsNotStored == NoFile \notin Stored
<1>1. "no file" \notin Blocks
  BY ProcessAssumption DEF Blocks, Committed, Hole, Unreadable
<1>2. SUFFICES ASSUME NoFile \in Seq(Blocks) PROVE FALSE
  BY DEF Stored
<1>3. Len(NoFile) = 1 /\ NoFile[1] = "no file"
  BY DEF NoFile
<1>4. NoFile[1] \in Blocks
  <2>1. 1 \in 1 .. Len(NoFile)
    <3>1. 1 \in 1 .. 1
      OBVIOUS
    <3>2. QED
      BY <1>3, <3>1, Zenon
  <2>2. QED
    BY <1>2, <2>1, ElementOfSeq
<1>5. QED
  BY <1>1, <1>3, <1>4

\* A write keeps a file a sequence of at most two blocks, with the new block in its place.
LEMMA WriteAtStores ==
    ASSUME NEW blocks \in Stored, NEW k \in 1 .. 2, NEW b \in Blocks
    PROVE  /\ WriteAt(blocks, k, b) \in Stored
           /\ Len(WriteAt(blocks, k, b)) = Greatest(k, Len(blocks))
           /\ \A i \in 1 .. Greatest(k, Len(blocks)) : WriteAt(blocks, k, b)[i] =
                  IF i = k THEN b ELSE IF i <= Len(blocks) THEN blocks[i] ELSE Hole
<1> DEFINE n == Greatest(k, Len(blocks))
           new == WriteAt(blocks, k, b)
<1>1. blocks \in Seq(Blocks) /\ Len(blocks) \in 0 .. 2
  <2>1. blocks \in Seq(Blocks) /\ Len(blocks) <= 2
    BY DEF Stored
  <2>2. Len(blocks) \in Nat
    BY <2>1, LenProperties
  <2> HIDE DEF Blocks, Stored
  <2> DEFINE l == Len(blocks)
  <2>3. l <= 2
    BY <2>1
  <2>4. l \in Nat
    BY <2>2
  <2>5. l \in 0 .. 2
    <3> HIDE DEF l
    <3> QED
      BY <2>3, <2>4
  <2>6. QED
    BY <2>1, <2>5
<1>2. n \in 1 .. 2
  BY <1>1 DEF Greatest
<1>3. \A i \in 1 .. Len(blocks) : blocks[i] \in Blocks
  BY <1>1, ElementOfSeq
<1>4. new \in [1 .. n -> Blocks]
  BY <1>2, <1>3 DEF WriteAt, Blocks
<1>5. new \in Seq(Blocks)
  BY <1>2, <1>4, SeqDef
<1>6. Len(new) = n
  BY <1>2, <1>4, <1>5, LenProperties
<1>7. QED
  BY <1>2, <1>5, <1>6 DEF Stored, WriteAt

\* What files hold: the report that both blocks are of, parts of two, or nothing that
\* can be read.
Held == Process \cup {Committed, Unreadable, "mixed"}

LEMMA StoredHolds ==
    ASSUME NEW blocks \in Stored
    PROVE  /\ Holds(blocks) \in Held /\ "absent" \notin Held
           /\ Len(blocks) # 2 => Holds(blocks) = Unreadable
           /\ Len(blocks) = 2 =>
                 \/ Hole \in {blocks[1], blocks[2]} /\ Holds(blocks) = Unreadable
                 \/ /\ Hole \notin {blocks[1], blocks[2]}
                    /\ blocks[1] = blocks[2] => Holds(blocks) = blocks[1]
                    /\ blocks[1] # blocks[2] => Holds(blocks) = "mixed"
<1>1. blocks # NoFile /\ blocks \in Seq(Blocks)
  BY NoFileIsNotStored DEF Stored
<1>2. "absent" \notin Held
  BY ProcessAssumption DEF Held, Committed, Unreadable
<1>3. CASE Len(blocks) # 2
  BY <1>1, <1>2, <1>3 DEF Holds, Held
<1>4. CASE Len(blocks) = 2
  <2>1. DOMAIN blocks = {1, 2}
    <3>1. DOMAIN blocks = 1 .. 2
      BY <1>1, <1>4, LenProperties
    <3>2. QED
      BY <3>1
  <2>2. ToSet(blocks) = {blocks[1], blocks[2]}
    BY <2>1 DEF ToSet
  <2>3. blocks[1] \in Blocks
    BY <1>1, <1>4, ElementOfSeq
  <2>4. CASE Hole \in {blocks[1], blocks[2]}
    BY <1>1, <1>2, <1>4, <2>2, <2>4, Zenon DEF Holds, Held
  <2>5. CASE Hole \notin {blocks[1], blocks[2]}
    <3>1. blocks[1] \in Held
      BY <2>3, <2>5 DEF Blocks, Held
    <3>2. Holds(blocks) = IF blocks[1] = blocks[2] THEN blocks[1] ELSE "mixed"
      BY <1>1, <1>4, <2>2, <2>5, Zenon DEF Holds
    <3>3. Holds(blocks) \in Held
      BY <3>1, <3>2 DEF Held
    <3>4. QED
      BY <1>2, <1>4, <2>5, <3>2, <3>3
  <2>6. QED
    BY <2>4, <2>5
<1>5. QED
  BY <1>3, <1>4

---------------------------------------------------------------------------
(***************************************************************************)
(* The invariant of the files.                                             *)
(***************************************************************************)

Labels == {"start", "draft", "judge", "create", "write head", "write tail", "close", "diff",
           "bind", "fallback", "serving", "ok", "error", "killed"}
Readings == [at : {"idle", "head", "tail"}, path : Files, head : Blocks \cup {"end"}]
Pages == [latest : Results, baseline : Results]

FilesTyped ==
    /\ work \in Workloads
    /\ pc \in [Procs -> Labels]
    /\ disk \in [Files -> Stored \cup {NoFile}]
    /\ reader \in [Procs -> Readings]
    /\ page \in [Procs -> Pages]
    /\ overlapped.writes \subseteq Procs /\ overlapped.reads \subseteq Procs

\* Only measure comes where a report is written.
OnlyMeasureWrites ==
    \A p \in Procs :
        pc[p] \in {"judge", "create", "diff"} \cup Writing => Run(p).command = "measure"

\* What an undisturbed writer has written so far.
Progress(p) ==
    LET blocks == disk[Dest(p)]
    IN /\ pc[p] = "write head" => Len(blocks) = 0
       /\ pc[p] = "write tail" => Len(blocks) = 1 /\ blocks[1] = p
       /\ pc[p] = "close" => Len(blocks) = 2 /\ blocks[1] = p /\ blocks[2] = p

WriterOK(p) ==
    /\ disk[Dest(p)] # NoFile
    /\ p \notin overlapped.writes => Progress(p)
    /\ \A q \in Writers(Dest(p)) : q = p \/ {p, q} \subseteq overlapped.writes
WritersInv == \A p \in Procs : pc[p] \in Writing => WriterOK(p)

\* An undisturbed reader has the file to itself.
ReaderOK(r) ==
    /\ disk[reader[r].path] # NoFile
    /\ r \notin overlapped.reads =>
          /\ Writers(reader[r].path) = {}
          /\ reader[r].at = "tail" => reader[r].head = Block(reader[r].path, 1)
ReadersInv == \A r \in Procs : reader[r].at # "idle" => ReaderOK(r)

FilesInv == FilesTyped /\ OnlyMeasureWrites /\ WritersInv /\ ReadersInv

\* No process writes or reads before it has started.
LEMMA FilesStart == Init => Store!Init /\ FilesInv
<1> SUFFICES ASSUME Init PROVE Store!Init /\ FilesInv
  OBVIOUS
<1>1. /\ work \in Workloads /\ Procs \subseteq Process
      /\ pc = [p \in Procs |-> "start"]
  BY WorkloadsAssumption DEF Init, DraftInit, Procs
<1>2. /\ reader = [p \in Procs |-> NotReading]
      /\ page = [p \in Procs |-> NothingRead]
      /\ overlapped = [writes |-> {}, reads |-> {}]
      /\ \A path \in Files : disk[path] = NoFile \/ disk[path] = <<Committed, Committed>>
      /\ DOMAIN disk = Files
  BY DEF Init, FilesInit, Files
<1>3. disk \in [Files -> Stored \cup {NoFile}]
  <2>1. <<Committed, Committed>> \in Stored
    <3>1. Committed \in Blocks
      BY DEF Blocks
    <3>2. QED
      BY <3>1 DEF Stored
  <2>2. disk = [path \in Files |-> disk[path]]
    BY <1>2 DEF Init, FilesInit, Files
  <2>3. QED
    BY <1>2, <2>1, <2>2
<1>4. FilesTyped
  <2>1. NotReading \in Readings /\ NothingRead \in Pages
    BY DEF NotReading, NothingRead, Readings, Pages, Files, Results, Blocks
  <2>2. pc \in [Procs -> Labels]
    BY <1>1 DEF Labels
  <2>3. reader \in [Procs -> Readings] /\ page \in [Procs -> Pages]
    BY <1>2, <2>1
  <2>4. overlapped.writes = {} /\ overlapped.reads = {}
    BY <1>2
  <2>5. QED
    BY <1>1, <1>3, <2>2, <2>3, <2>4 DEF FilesTyped
<1>5. OnlyMeasureWrites /\ WritersInv /\ ReadersInv
  BY <1>1, <1>2 DEF OnlyMeasureWrites, WritersInv, ReadersInv, Writing, NotReading
<1>6. Store!Init
  <2>1. \A path \in Files : Writers(path) = {}
    BY <1>1 DEF Writers, Writing
  <2>2. \A path \in Files :
            Holds(disk[path]) \in Process \cup {Committed, "absent", Unreadable, "mixed"}
    <3> SUFFICES ASSUME NEW path \in Files
                 PROVE  Holds(disk[path]) \in Held \cup {"absent"}
      BY DEF Held
    <3>1. CASE disk[path] = NoFile
      BY <3>1 DEF Holds
    <3>2. CASE disk[path] \in Stored
      BY <3>2, StoredHolds
    <3>3. QED
      BY <1>3, <3>1, <3>2
  <2>3. \A p \in Process : LoadOf(p).state = "done"
    BY <1>2 DEF LoadOf, LoadState, NotReading
  <2>4. Finished = {}
    BY <1>1 DEF Finished
  <2>5. QED
    BY <1>2, <2>1, <2>2, <2>3, <2>4 DEF Store!Init
<1>7. QED
  BY <1>4, <1>5, <1>6 DEF FilesInv

---------------------------------------------------------------------------
(***************************************************************************)
(* The steps.                                                              *)
(***************************************************************************)

\* A workload does not change, nor what its processes were asked to do.
LEMMA WorkStays ==
    ASSUME UNCHANGED work
    PROVE  Procs' = Procs /\ \A p : Run(p)' = Run(p) /\ Dest(p)' = Dest(p)
BY DEF Procs, Run, Dest

\* What the abstraction is made of.
LEMMA StoreStays ==
    ASSUME UNCHANGED <<work, disk, reader, page, overlapped>>,
           \A path \in Files : Writers(path)' = Writers(path),
           Finished' = Finished
    PROVE  UNCHANGED Store!storeVars
<1>1. \A path \in Files : Holds(disk[path])' = Holds(disk[path])
  BY DEF Holds
<1>2. \A p : LoadOf(p)' = LoadOf(p)
  BY WorkStays DEF LoadOf, LoadState, Got
<1>3. QED
  BY <1>1, <1>2, WorkStays DEF Store!storeVars

\* A step that leaves the files and the labels alone changes nothing that matters.
LEMMA StepAside ==
    ASSUME FilesInv, UNCHANGED <<work, pc, disk, reader, page, overlapped>>
    PROVE  FilesInv' /\ UNCHANGED Store!storeVars
<1>1. \A path : Writers(path)' = Writers(path)
  BY WorkStays DEF Writers
<1>2. UNCHANGED Store!storeVars
  <2>1. Finished' = Finished
    BY WorkStays DEF Finished
  <2>2. QED
    BY <1>1, <2>1, StoreStays
<1>3. \A p : Progress(p)' <=> Progress(p)
  BY WorkStays DEF Progress
<1>4. \A path, k : Block(path, k)' = Block(path, k)
  BY DEF Block
<1>5. \A p : WriterOK(p)' <=> WriterOK(p)
  BY <1>1, <1>3, WorkStays DEF WriterOK
<1>6. \A r : ReaderOK(r)' <=> ReaderOK(r)
  BY <1>1, <1>4 DEF ReaderOK
<1>7. FilesTyped' /\ OnlyMeasureWrites'
  BY WorkStays DEF FilesInv, FilesTyped, OnlyMeasureWrites
<1>8. WritersInv' /\ ReadersInv'
  BY <1>5, <1>6, WorkStays DEF FilesInv, WritersInv, ReadersInv
<1>9. QED
  BY <1>2, <1>7, <1>8 DEF FilesInv

\* So does a step of a process that neither was writing nor will be.
LEMMA StepElsewhere ==
    ASSUME FilesInv, UNCHANGED <<work, disk, reader, page, overlapped>>,
           NEW p \in Procs, pc[p] \notin Writing,
           NEW l \in Labels \ (Writing \cup {"diff"}), pc' = [pc EXCEPT ![p] = l],
           Run(p).command = "measure" => (pc[p] \in {"diff", "ok"} <=> l = "ok"),
           l \in {"judge", "create"} => Run(p).command = "measure"
    PROVE  FilesInv' /\ UNCHANGED Store!storeVars
<1>1. pc \in [Procs -> Labels]
  BY DEF FilesInv, FilesTyped
<1>2. \A path : Writers(path)' = Writers(path)
  BY <1>1, WorkStays DEF Writers
<1>3. Finished' = Finished
  BY <1>1, WorkStays DEF Finished
<1>4. UNCHANGED Store!storeVars
  BY <1>2, <1>3, StoreStays
<1>5. FilesTyped'
  BY <1>1, WorkStays DEF FilesInv, FilesTyped
<1>6. OnlyMeasureWrites'
  BY <1>1, WorkStays DEF FilesInv, OnlyMeasureWrites
<1>7. WritersInv'
  <2>1. \A q \in Procs : pc'[q] \in Writing => pc'[q] = pc[q]
    BY <1>1
  <2>2. \A q \in Procs : pc'[q] = pc[q] => (Progress(q)' <=> Progress(q))
    BY WorkStays DEF Progress
  <2>3. QED
    BY <1>2, <2>1, <2>2, WorkStays DEF FilesInv, WritersInv, WriterOK
<1>8. ReadersInv'
  <2>1. \A path, k : Block(path, k)' = Block(path, k)
    BY DEF Block
  <2>2. QED
    BY <1>2, <2>1, WorkStays DEF FilesInv, ReadersInv, ReaderOK
<1>9. QED
  BY <1>4, <1>5, <1>6, <1>7, <1>8 DEF FilesInv

\* Truncating begins a write: everyone who reads the file, and everyone who writes it,
\* is overlapped from then on.
LEMMA StepCreate ==
    ASSUME FilesInv, NEW p \in Procs, NEW path, path = Dest(p), CreateReport(p)
    PROVE  FilesInv' /\ Store!BeginWrite(path, p)
<1>1. /\ pc[p] = "create" /\ pc' = [pc EXCEPT ![p] = "write head"]
      /\ disk' = [disk EXCEPT ![path] = << >>]
      /\ overlapped'.reads = overlapped.reads \cup Readers(path)
      /\ overlapped'.writes = IF Writers(path) = {} THEN overlapped.writes
                              ELSE overlapped.writes \cup Writers(path) \cup {p}
      /\ UNCHANGED <<work, reader, page>>
  BY DEF CreateReport, Goto
<1>2. pc \in [Procs -> Labels] /\ disk \in [Files -> Stored \cup {NoFile}]
  BY DEF FilesInv, FilesTyped
<1>3. path \in Files
  BY DEF Dest, Files
<1>4. p \in Process
  BY WorkloadsAssumption DEF FilesInv, FilesTyped, Procs
<1>5. Run(p).command = "measure"
  BY <1>1 DEF FilesInv, OnlyMeasureWrites
<1>6. \A other \in Files :
          Writers(other)' = IF other = path THEN Writers(other) \cup {p} ELSE Writers(other)
  BY <1>1, <1>2, WorkStays DEF Writers, Writing
<1>7. \A other \in Files : p \notin Writers(other)
  BY <1>1 DEF Writers, Writing
<1>8. << >> \in Stored /\ Len(<< >>) = 0 /\ << >> # NoFile
  <2>1. << >> \in Stored /\ Len(<< >>) = 0
    BY EmptySeq DEF Stored
  <2>2. QED
    BY <2>1, NoFileIsNotStored
<1>9. FilesTyped'
  <2>1. pc' \in [Procs -> Labels] /\ disk' \in [Files -> Stored \cup {NoFile}]
    BY <1>1, <1>2, <1>3, <1>8 DEF Labels
  <2>2. overlapped'.writes \subseteq Procs /\ overlapped'.reads \subseteq Procs
    BY <1>1 DEF FilesInv, FilesTyped, Writers, Readers
  <2>3. QED
    BY <1>1, <2>1, <2>2, WorkStays DEF FilesInv, FilesTyped
<1>10. OnlyMeasureWrites'
  BY <1>1, <1>2, <1>5, WorkStays DEF FilesInv, OnlyMeasureWrites
<1>11. WritersInv'
  <2> SUFFICES ASSUME NEW q \in Procs, pc'[q] \in Writing
               PROVE  WriterOK(q)'
    BY <1>1, WorkStays DEF WritersInv
  <2>1. Dest(q)' = Dest(q) /\ Dest(q) \in Files
    BY <1>1, WorkStays DEF Dest, Files
  <2>2. q # p => pc'[q] = pc[q] /\ WriterOK(q)
    BY <1>1, <1>2 DEF FilesInv, WritersInv
  <2>3. CASE Dest(q) = path
    <3>1. disk'[path] = << >>
      BY <1>1, <1>2, <1>3
    <3>2. q \in Writers(path) \cup {p}
      BY <2>2, <2>3 DEF Writers
    <3>3. Writers(path) # {} => Writers(path) \cup {p} \subseteq overlapped'.writes
      BY <1>1
    <3>4. q = p => Progress(q)'
      <4> SUFFICES ASSUME q = p PROVE Progress(p)'
        OBVIOUS
      <4>1. pc'[p] = "write head"
        BY <1>1, <1>2
      <4>2. QED
        BY <2>1, <2>3, <3>1, <4>1, <1>8 DEF Progress
    <3>5. \A r \in Writers(path)' : r = q \/ {q, r} \subseteq overlapped'.writes
      BY <3>2, <3>3, <1>3, <1>6
    <3>6. q \notin overlapped'.writes => Progress(q)'
      BY <3>2, <3>3, <3>4
    <3>7. QED
      BY <2>1, <2>3, <3>1, <3>5, <3>6, <1>8 DEF WriterOK
  <2>4. CASE Dest(q) # path
    <3>1. q # p
      BY <2>4
    <3>2. disk'[Dest(q)] = disk[Dest(q)] /\ Writers(Dest(q))' = Writers(Dest(q))
      BY <2>1, <2>4, <1>1, <1>2, <1>6
    <3>3. Progress(q)' <=> Progress(q)
      BY <2>1, <2>2, <3>1, <3>2 DEF Progress
    <3>4. overlapped.writes \subseteq overlapped'.writes
      BY <1>1
    <3>5. QED
      BY <2>1, <2>2, <3>1, <3>2, <3>3, <3>4 DEF WriterOK
  <2>5. QED
    BY <2>3, <2>4
<1>12. ReadersInv'
  <2> SUFFICES ASSUME NEW r \in Procs, reader[r].at # "idle"
               PROVE  ReaderOK(r)'
    BY WorkStays, <1>1 DEF ReadersInv
  <2>1. reader[r].path \in Files /\ ReaderOK(r)
    BY DEF FilesInv, FilesTyped, Readings, ReadersInv
  <2>2. CASE reader[r].path = path
    <3>1. r \in overlapped'.reads
      BY <2>2, <1>1 DEF Readers
    <3>2. disk'[path] = << >>
      BY <1>1, <1>2, <1>3
    <3>3. QED
      BY <2>2, <3>1, <3>2, <1>1, <1>8 DEF ReaderOK
  <2>3. CASE reader[r].path # path
    <3>1. disk'[reader[r].path] = disk[reader[r].path]
      BY <2>1, <2>3, <1>1, <1>2
    <3>2. Writers(reader[r].path)' = Writers(reader[r].path)
      BY <2>1, <2>3, <1>1, <1>6
    <3>3. Block(reader[r].path, 1)' = Block(reader[r].path, 1)
      <4>1. reader' = reader
        BY <1>1
      <4>2. QED
        BY <3>1, <4>1 DEF Block
    <3>4. QED
      BY <2>1, <3>1, <3>2, <3>3, <1>1 DEF ReaderOK
  <2>4. QED
    BY <2>2, <2>3
<1>13. Store!BeginWrite(path, p)
  <2> DEFINE file == [f \in Files |-> Holds(disk[f])]
             writing == [f \in Files |-> Writers(f)]
             loads == [r \in Process |-> LoadOf(r)]
  <2>1. file' = [file EXCEPT ![path] = Unreadable]
    <3>1. Holds(<< >>) = Unreadable
      BY <1>8 DEF Holds
    <3>2. \A f \in Files : Holds(disk[f])' = IF f = path THEN Unreadable ELSE Holds(disk[f])
      BY <3>1, <1>1, <1>2, <1>3 DEF Holds
    <3>3. QED
      BY <3>2
  <2>2. loads' = [r \in Process |-> IF loads[r].state # "done" /\ loads[r].path = path
                                    THEN [loads[r] EXCEPT !.state = "overlapped"] ELSE loads[r]]
    <3> SUFFICES ASSUME NEW r \in Process
                 PROVE  LoadOf(r)' = IF LoadOf(r).state # "done" /\ LoadOf(r).path = path
                                     THEN [LoadOf(r) EXCEPT !.state = "overlapped"]
                                     ELSE LoadOf(r)
      OBVIOUS
    <3> DEFINE got == Got(page[r][reader[r].path])
    <3>1. Procs' = Procs /\ got' = got
      BY <1>1, WorkStays DEF Got
    <3>2. CASE r \notin Procs
      BY <3>1, <3>2 DEF LoadOf
    <3>3. CASE r \in Procs
      <4> HIDE DEF got
      <4>1. LoadOf(r) = [state |-> LoadState(r), path |-> reader[r].path, got |-> got]
        BY <3>3 DEF LoadOf, got
      <4>2. LoadOf(r)' = [state |-> LoadState(r)', path |-> reader[r].path, got |-> got]
        BY <3>1, <3>3, <1>1 DEF LoadOf, got
      <4>3. LoadState(r)' = IF LoadState(r) # "done" /\ reader[r].path = path
                            THEN "overlapped" ELSE LoadState(r)
        BY <3>3, <1>1 DEF LoadState, Readers
      <4>4. QED
        BY <4>1, <4>2, <4>3
    <3>4. QED
      BY <3>2, <3>3
  <2>3. UNCHANGED Finished
    <3>1. \A q \in Procs : pc'[q] \in {"diff", "ok"} <=> pc[q] \in {"diff", "ok"}
      BY <1>1, <1>2
    <3>2. Procs' = Procs /\ \A q : Run(q)' = Run(q)
      BY <1>1, WorkStays
    <3>3. QED
      BY <3>1, <3>2 DEF Finished
  <2>4. writing' = [writing EXCEPT ![path] = @ \cup {p}]
    BY <1>3, <1>6
  <2>5. overlapped'.writes = IF writing[path] = {} THEN overlapped.writes
                             ELSE overlapped.writes \cup writing'[path]
    BY <1>1, <1>3, <2>4
  <2>6. \A other \in Files : p \notin writing[other]
    BY <1>7
  <2>7. Unreadable \in (Process \cup {Committed, "absent", Unreadable, "mixed"}) \ {"absent"}
    BY DEF Unreadable
  <2>8. /\ writing'[path] \cap overlapped'.writes = {} =>
                Unreadable \in writing'[path] \cup {Unreadable}
        /\ file' = [file EXCEPT ![path] = Unreadable]
    BY <2>1
  <2> HIDE DEF file, writing, loads
  <2>9. Store!Damage(path)
    BY <2>7, <2>8, Zenon DEF Store!Damage, file, writing
  <2>10. QED
    BY <2>2, <2>3, <2>4, <2>5, <2>6, <2>9, Zenon DEF Store!BeginWrite, file, writing, loads
<1>14. QED
  BY <1>9, <1>10, <1>11, <1>12, <1>13 DEF FilesInv

\* A block that lands is a write of the abstraction; that it lands in its place is what
\* keeps the file of an undisturbed writer whole.
LEMMA StepWrite ==
    ASSUME FilesInv, NEW p \in Procs, NEW path, path = Dest(p), WriteBlock(p)
    PROVE  FilesInv' /\ Store!Write(path)
<1> DEFINE k == IF pc[p] = "write head" THEN 1 ELSE 2
           new == WriteAt(disk[path], k, p)
<1>1. /\ pc[p] \in {"write head", "write tail"}
      /\ pc' = [pc EXCEPT ![p] = IF pc[p] = "write head" THEN "write tail" ELSE "close"]
      /\ disk' = [disk EXCEPT ![path] = new]
      /\ UNCHANGED <<work, reader, page, overlapped>>
  BY DEF WriteBlock, Goto
<1>2. pc \in [Procs -> Labels] /\ disk \in [Files -> Stored \cup {NoFile}]
  BY DEF FilesInv, FilesTyped
<1>3. path \in Files /\ p \in Blocks
  BY WorkloadsAssumption DEF Dest, Files, FilesInv, FilesTyped, Procs, Blocks
<1>4. /\ Procs' = Procs
      /\ \A q : Run(q)' = Run(q) /\ Dest(q)' = Dest(q)
  BY <1>1, WorkStays
<1>5. p \in Writers(path) /\ WriterOK(p) /\ disk[path] \in Stored
  BY <1>1, <1>2, <1>3 DEF Writers, Writing, FilesInv, WritersInv, WriterOK
<1>6. /\ new \in Stored /\ new # NoFile
      /\ Len(new) = Greatest(k, Len(disk[path]))
      /\ \A i \in 1 .. Greatest(k, Len(disk[path])) : new[i] =
             IF i = k THEN p ELSE IF i <= Len(disk[path]) THEN disk[path][i] ELSE Hole
  <2> HIDE DEF k
  <2>1. k \in 1 .. 2
    BY DEF k
  <2>2. /\ new \in Stored
        /\ Len(new) = Greatest(k, Len(disk[path]))
        /\ \A i \in 1 .. Greatest(k, Len(disk[path])) : new[i] =
               IF i = k THEN p ELSE IF i <= Len(disk[path]) THEN disk[path][i] ELSE Hole
    <3>1. ASSUME NEW blocks \in Stored, NEW at \in 1 .. 2
          PROVE  /\ WriteAt(blocks, at, p) \in Stored
                 /\ Len(WriteAt(blocks, at, p)) = Greatest(at, Len(blocks))
                 /\ \A i \in 1 .. Greatest(at, Len(blocks)) : WriteAt(blocks, at, p)[i] =
                        IF i = at THEN p ELSE IF i <= Len(blocks) THEN blocks[i] ELSE Hole
      BY <1>3, WriteAtStores
    <3>2. disk[path] \in Stored
      BY <1>5
    <3>3. QED
      BY <2>1, <3>1, <3>2, Zenon
  <2>3. new # NoFile
    BY <2>2, NoFileIsNotStored
  <2>4. QED
    BY <2>2, <2>3
<1> HIDE DEF new
<1>7. \A q \in Procs : pc'[q] \in Writing <=> pc[q] \in Writing
  BY <1>1, <1>2 DEF Writing
<1>8. \A other : Writers(other)' = Writers(other)
  BY <1>4, <1>7 DEF Writers
<1>9. FilesTyped'
  BY <1>1, <1>2, <1>3, <1>4, <1>6 DEF FilesInv, FilesTyped, Labels
<1>10. OnlyMeasureWrites'
  <2>1. Run(p).command = "measure"
    BY <1>1 DEF FilesInv, OnlyMeasureWrites, Writing
  <2>2. QED
    BY <2>1, <1>1, <1>2, <1>4 DEF FilesInv, OnlyMeasureWrites
<1>11. WritersInv'
  <2> SUFFICES ASSUME NEW q \in Procs, pc'[q] \in Writing
               PROVE  WriterOK(q)'
    BY <1>4 DEF WritersInv
  <2>1. WriterOK(q) /\ Dest(q) \in Files
    BY <1>7 DEF FilesInv, WritersInv, Dest, Files
  <2>2. disk'[Dest(q)] # NoFile
    BY <2>1, <1>1, <1>2, <1>3, <1>6 DEF WriterOK
  <2>3. \A r \in Writers(Dest(q))' : r = q \/ {q, r} \subseteq overlapped'.writes
    BY <2>1, <1>1, <1>4, <1>8 DEF WriterOK
  <2>4. ASSUME q \notin overlapped.writes
        PROVE  Progress(q)'
    <3>1. CASE q = p
      <4>1. disk'[Dest(p)] = new /\ Dest(p)' = Dest(p)
        BY <1>1, <1>2, <1>3, <1>4
      <4>2. CASE pc[p] = "write head"
        <5>1. pc'[p] = "write tail" /\ k = 1 /\ Len(disk[path]) = 0
          BY <3>1, <4>2, <2>4, <1>1, <1>2, <1>5 DEF WriterOK, Progress
        <5>2. Len(new) = 1 /\ new[1] = p
          <6>1. Greatest(1, 0) = 1 /\ 1 \in 1 .. 1
            BY DEF Greatest
          <6>2. QED
            BY <5>1, <6>1, <1>6
        <5>3. QED
          BY <3>1, <4>1, <5>1, <5>2 DEF Progress
      <4>3. CASE pc[p] = "write tail"
        <5>1. pc'[p] = "close" /\ k = 2 /\ Len(disk[path]) = 1 /\ disk[path][1] = p
          BY <3>1, <4>3, <2>4, <1>1, <1>2, <1>5 DEF WriterOK, Progress
        <5>2. Len(new) = 2 /\ new[1] = p /\ new[2] = p
          <6>1. Greatest(2, 1) = 2 /\ 1 \in 1 .. 2 /\ 2 \in 1 .. 2 /\ 1 # 2 /\ 1 <= 1
            BY DEF Greatest
          <6>2. QED
            BY <5>1, <6>1, <1>6
        <5>3. QED
          BY <3>1, <4>1, <5>1, <5>2 DEF Progress
      <4>4. QED
        BY <1>1, <4>2, <4>3
    <3>2. CASE q # p
      <4>1. Dest(q) # path
        <5>1. Dest(q) = path => {q, p} \subseteq overlapped.writes
          BY <2>1, <3>2, <1>5 DEF WriterOK
        <5>2. QED
          BY <5>1, <2>4
      <4>2. disk'[Dest(q)] = disk[Dest(q)] /\ pc'[q] = pc[q]
        BY <4>1, <3>2, <2>1, <1>1, <1>2
      <4>3. Progress(q)' <=> Progress(q)
        BY <4>2, <1>4 DEF Progress
      <4>4. QED
        BY <4>3, <2>1, <2>4 DEF WriterOK
    <3>3. QED
      BY <3>1, <3>2
  <2>5. q \notin overlapped'.writes => Progress(q)'
    BY <2>4, <1>1
  <2>6. QED
    BY <2>2, <2>3, <2>5, <1>4 DEF WriterOK
<1>12. ReadersInv'
  <2> SUFFICES ASSUME NEW r \in Procs, reader[r].at # "idle"
               PROVE  ReaderOK(r)'
    BY <1>1, <1>4 DEF ReadersInv
  <2>1. ReaderOK(r) /\ reader[r].path \in Files /\ reader' = reader
    BY <1>1 DEF FilesInv, FilesTyped, Readings, ReadersInv
  <2>2. disk'[reader[r].path] # NoFile
    BY <2>1, <1>1, <1>2, <1>3, <1>6 DEF ReaderOK
  <2>3. CASE r \in overlapped.reads
    BY <2>1, <2>2, <2>3, <1>1 DEF ReaderOK
  <2>4. CASE r \notin overlapped.reads
    <3>1. Writers(reader[r].path) = {} /\ reader[r].path # path
      BY <2>1, <2>4, <1>5 DEF ReaderOK
    <3>2. disk'[reader[r].path] = disk[reader[r].path]
      BY <3>1, <2>1, <1>1, <1>2
    <3>3. Block(reader[r].path, 1)' = Block(reader[r].path, 1)
      BY <3>2, <2>1 DEF Block
    <3>4. QED
      BY <2>1, <2>2, <3>1, <3>3, <1>1, <1>8 DEF ReaderOK
  <2>5. QED
    BY <2>3, <2>4
<1>13. Store!Write(path)
  <2> DEFINE file == [f \in Files |-> Holds(disk[f])]
             writing == [f \in Files |-> Writers(f)]
  <2>1. Holds(new) \in (Process \cup {Committed, "absent", Unreadable, "mixed"}) \ {"absent"}
    BY <1>6, StoredHolds DEF Held
  <2>2. file' = [file EXCEPT ![path] = Holds(new)]
    <3>1. \A f \in Files : Holds(disk[f])' = IF f = path THEN Holds(new) ELSE Holds(disk[f])
      BY <1>1, <1>2, <1>3 DEF Holds
    <3>2. QED
      BY <3>1
  <2>3. writing' = writing /\ writing[path] # {}
    BY <1>3, <1>5, <1>8
  <2>4. UNCHANGED Finished
    <3>1. \A q \in Procs : pc'[q] \in {"diff", "ok"} <=> pc[q] \in {"diff", "ok"}
      BY <1>1, <1>2
    <3>2. QED
      BY <3>1, <1>4 DEF Finished
  <2>5. \A r : LoadOf(r)' = LoadOf(r)
    BY <1>1, <1>4 DEF LoadOf, LoadState, Got
  <2>6. ASSUME writing'[path] \cap overlapped'.writes = {}
        PROVE  Holds(new) \in writing'[path] \cup {Unreadable}
    <3>1. p \in writing'[path] /\ p \notin overlapped.writes
      BY <1>1, <1>3, <1>5, <2>3, <2>6
    <3>2. Progress(p) /\ p # Hole
      <4>1. p \in Process
        BY WorkloadsAssumption DEF FilesInv, FilesTyped, Procs
      <4>2. QED
        BY <1>5, <3>1, <4>1, ProcessAssumption DEF WriterOK
    <3>3. CASE pc[p] = "write head"
      <4>1. k = 1 /\ Len(disk[path]) = 0
        BY <3>2, <3>3 DEF Progress
      <4>2. Len(new) = 1 /\ new \in Stored
        <5>1. Greatest(1, 0) = 1
          BY DEF Greatest
        <5>2. QED
          BY <1>6, <4>1, <5>1
      <4>3. Holds(new) = Unreadable
        <5>1. Len(new) # 2
          BY <4>2
        <5>2. QED
          BY <4>2, <5>1, StoredHolds, Zenon
      <4>4. QED
        BY <4>3
    <3>4. CASE pc[p] = "write tail"
      <4>1. k = 2 /\ Len(disk[path]) = 1 /\ disk[path][1] = p
        BY <3>2, <3>4 DEF Progress
      <4>2. Len(new) = 2 /\ new[1] = p /\ new[2] = p
        <5>1. Greatest(2, 1) = 2 /\ 1 \in 1 .. 2 /\ 2 \in 1 .. 2 /\ 1 # 2 /\ 1 <= 1
          BY DEF Greatest
        <5>2. QED
          BY <4>1, <5>1, <1>6
      <4>3. Holds(new) = p
        BY <1>6, <3>2, <4>2, StoredHolds
      <4>4. QED
        BY <3>1, <4>3
    <3>5. QED
      BY <1>1, <3>3, <3>4
  <2>7. Store!Damage(path)
    <3> HIDE DEF file, writing
    <3>1. \E v \in (Process \cup {Committed, "absent", Unreadable, "mixed"}) \ {"absent"} :
              /\ writing'[path] \cap overlapped'.writes = {} =>
                     v \in writing'[path] \cup {Unreadable}
              /\ file' = [file EXCEPT ![path] = v]
      BY <2>1, <2>2, <2>6
    <3>2. QED
      BY <3>1 DEF Store!Damage, file, writing
  <2>8. QED
    BY <1>1, <2>3, <2>4, <2>5, <2>7 DEF Store!Write
<1>14. QED
  BY <1>9, <1>10, <1>11, <1>12, <1>13 DEF FilesInv

\* A writer that leaves, with its report finished or not, leaves the files as they are.
LEMMA StepLeave ==
    ASSUME FilesInv, UNCHANGED <<work, disk, reader, page, overlapped>>,
           NEW p \in Procs, NEW path, path = Dest(p), pc[p] \in Writing,
           NEW l \in {"error", "killed", "ok", "diff"}, pc' = [pc EXCEPT ![p] = l]
    PROVE  /\ FilesInv' /\ p \in Process /\ path \in Files
           /\ p \in Writers(path) /\ WriterOK(p)
           /\ Run(p).command = "measure"
           /\ [f \in Files |-> Holds(disk[f])]' = [f \in Files |-> Holds(disk[f])]
           /\ [f \in Files |-> Writers(f)]'
                 = [[f \in Files |-> Writers(f)] EXCEPT ![path] = @ \ {p}]
           /\ [r \in Process |-> LoadOf(r)]' = [r \in Process |-> LoadOf(r)]
           /\ Finished' = Finished \cup (IF l \in {"ok", "diff"} THEN {p} ELSE {})
<1>1. pc \in [Procs -> Labels]
  BY DEF FilesInv, FilesTyped
<1>2. /\ p \in Process /\ path \in Files
      /\ p \in Writers(path) /\ WriterOK(p)
      /\ Run(p).command = "measure"
  BY WorkloadsAssumption DEF FilesInv, FilesTyped, OnlyMeasureWrites, WritersInv, Writers,
     Procs, Dest, Files
<1>3. \A f : Writers(f)' = IF f = path THEN Writers(f) \ {p} ELSE Writers(f)
  BY <1>1, WorkStays DEF Writers, Writing
<1>4. \A f : Writers(f)' \subseteq Writers(f)
  BY <1>3
<1>5. FilesTyped'
  BY <1>1, WorkStays DEF FilesInv, FilesTyped, Labels
<1>6. OnlyMeasureWrites'
  BY <1>1, <1>2, WorkStays DEF FilesInv, OnlyMeasureWrites
<1>7. WritersInv'
  <2>1. \A q \in Procs : pc'[q] \in Writing => pc'[q] = pc[q]
    BY <1>1 DEF Writing
  <2>2. \A q \in Procs : pc'[q] = pc[q] => (Progress(q)' <=> Progress(q))
    BY WorkStays DEF Progress
  <2>3. QED
    BY <1>4, <2>1, <2>2, WorkStays DEF FilesInv, WritersInv, WriterOK
<1>8. ReadersInv'
  <2>1. \A f, k : Block(f, k)' = Block(f, k)
    BY DEF Block
  <2>2. \A f : Writers(f) = {} => Writers(f)' = {}
    BY <1>4
  <2>3. QED
    BY <2>1, <2>2, WorkStays DEF FilesInv, ReadersInv, ReaderOK
<1>9. [f \in Files |-> Holds(disk[f])]' = [f \in Files |-> Holds(disk[f])]
  BY DEF Holds
<1>10. [f \in Files |-> Writers(f)]' = [[f \in Files |-> Writers(f)] EXCEPT ![path] = @ \ {p}]
  BY <1>2, <1>3
<1>11. [r \in Process |-> LoadOf(r)]' = [r \in Process |-> LoadOf(r)]
  <2>1. \A r : LoadOf(r)' = LoadOf(r)
    BY WorkStays DEF LoadOf, LoadState, Got
  <2>2. QED
    BY <2>1
<1>12. Finished' = Finished \cup (IF l \in {"ok", "diff"} THEN {p} ELSE {})
  <2>1. /\ \A q \in Procs : pc'[q] = IF q = p THEN l ELSE pc[q]
        /\ Procs' = Procs /\ \A q : Run(q)' = Run(q)
    BY <1>1, WorkStays
  <2>2. Finished' = {q \in Procs : Run(q).command = "measure" /\ pc'[q] \in {"diff", "ok"}}
    BY <2>1 DEF Finished
  <2>3. CASE l \in {"ok", "diff"}
    <3>1. \A q : q \in Finished' <=> q \in Finished \/ q = p
      BY <1>2, <2>1, <2>2, <2>3 DEF Finished
    <3>2. QED
      BY <2>3, <3>1
  <2>4. CASE l \notin {"ok", "diff"}
    <3>1. \A q : q \in Finished' <=> q \in Finished
      BY <2>1, <2>2, <2>4 DEF Finished, Writing
    <3>2. QED
      BY <2>4, <3>1
  <2>5. QED
    BY <2>3, <2>4
<1>13. FilesInv'
  BY <1>5, <1>6, <1>7, <1>8 DEF FilesInv
<1>14. QED
  BY <1>2, <1>9, <1>10, <1>11, <1>12, <1>13

\* A failed or killed measure abandons its write.
LEMMA StepAbandon ==
    ASSUME FilesInv, NEW p \in Procs, NEW path, path = Dest(p), AbandonReport(p)
    PROVE  FilesInv' /\ Store!AbandonWrite(path, p)
<1>1. PICK l \in {"error", "killed"} : pc' = [pc EXCEPT ![p] = l]
  BY DEF AbandonReport, Goto
<1>2. pc[p] \in Writing /\ UNCHANGED <<work, disk, reader, page, overlapped>>
  BY DEF AbandonReport, fileVars
<1>3. UNCHANGED overlapped.writes
  BY <1>2
<1> DEFINE file == [f \in Files |-> Holds(disk[f])]
           writing == [f \in Files |-> Writers(f)]
           loads == [r \in Process |-> LoadOf(r)]
<1>4. /\ FilesInv' /\ path \in Files /\ p \in Writers(path)
      /\ file' = file /\ writing' = [writing EXCEPT ![path] = @ \ {p}]
      /\ loads' = loads /\ Finished' = Finished
  BY <1>1, <1>2, StepLeave
<1>5. p \in writing[path]
  BY <1>4
<1>6. QED
  BY <1>3, <1>4, <1>5, Zenon DEF Store!AbandonWrite

\* A measure that closes its file undisturbed leaves its report there.
LEMMA StepClose ==
    ASSUME FilesInv, NEW p \in Procs, NEW path, path = Dest(p), CloseReport(p)
    PROVE  FilesInv' /\ Store!EndWrite(path, p)
<1>1. PICK l \in {"ok", "diff"} : pc' = [pc EXCEPT ![p] = l]
  BY DEF CloseReport, Goto
<1>2. pc[p] = "close" /\ UNCHANGED <<work, disk, reader, page, overlapped>>
  BY DEF CloseReport, fileVars
<1>3. UNCHANGED overlapped.writes
  BY <1>2
<1> DEFINE file == [f \in Files |-> Holds(disk[f])]
           writing == [f \in Files |-> Writers(f)]
           loads == [r \in Process |-> LoadOf(r)]
<1>4. /\ FilesInv' /\ path \in Files /\ p \in Writers(path)
      /\ file' = file /\ writing' = [writing EXCEPT ![path] = @ \ {p}]
      /\ loads' = loads /\ Finished' = Finished \cup {p}
      /\ WriterOK(p) /\ p \in Process
  BY <1>1, <1>2, StepLeave DEF Writing
<1>5. p \in writing[path]
  BY <1>4
<1>6. p \notin overlapped.writes => file[path] = p
  <2> SUFFICES ASSUME p \notin overlapped.writes PROVE Holds(disk[path]) = p
    BY <1>4
  <2>1. /\ disk[path] # NoFile /\ Len(disk[path]) = 2
        /\ disk[path][1] = p /\ disk[path][2] = p
    BY <1>2, <1>4 DEF WriterOK, Progress
  <2>2. p # Hole
    BY <1>4, ProcessAssumption
  <2>3. disk[path] \in Stored
    BY <1>4, <2>1 DEF FilesInv, FilesTyped
  <2>4. QED
    BY <2>1, <2>2, <2>3, StoredHolds
<1>7. QED
  BY <1>3, <1>4, <1>5, <1>6, Zenon DEF Store!EndWrite

\* A reader's step touches nothing but its own load.
LEMMA StepRead ==
    ASSUME FilesInv, UNCHANGED <<work, pc, disk>>, NEW p \in Procs,
           NEW x \in Readings, reader' = [reader EXCEPT ![p] = x],
           NEW y \in Pages, page' = [page EXCEPT ![p] = y],
           overlapped'.writes = overlapped.writes,
           \A r \in Procs \ {p} : r \in overlapped'.reads <=> r \in overlapped.reads,
           overlapped'.reads \subseteq Procs,
           x.at # "idle" => ReaderOK(p)'
    PROVE  /\ FilesInv' /\ p \in Process
           /\ [f \in Files |-> Holds(disk[f])]' = [f \in Files |-> Holds(disk[f])]
           /\ [f \in Files |-> Writers(f)]' = [f \in Files |-> Writers(f)]
           /\ [r \in Process |-> LoadOf(r)]'
                 = [[r \in Process |-> LoadOf(r)] EXCEPT ![p] = LoadOf(p)']
           /\ Finished' = Finished
<1>1. p \in Process /\ reader \in [Procs -> Readings] /\ page \in [Procs -> Pages]
  BY WorkloadsAssumption DEF FilesInv, FilesTyped, Procs
<1>2. \A path : Writers(path)' = Writers(path)
  BY WorkStays DEF Writers
<1>3. Finished' = Finished
  BY WorkStays DEF Finished
<1>4. FilesTyped'
  BY <1>1, WorkStays DEF FilesInv, FilesTyped
<1>5. OnlyMeasureWrites'
  BY WorkStays DEF FilesInv, OnlyMeasureWrites
<1>6. WritersInv'
  <2>1. \A q : Progress(q)' <=> Progress(q)
    BY WorkStays DEF Progress
  <2>2. QED
    BY <1>2, <2>1, WorkStays DEF FilesInv, WritersInv, WriterOK
<1>7. ReadersInv'
  <2> SUFFICES ASSUME NEW r \in Procs, reader'[r].at # "idle"
               PROVE  ReaderOK(r)'
    BY WorkStays DEF ReadersInv
  <2>1. CASE r = p
    BY <1>1, <2>1
  <2>2. CASE r # p
    <3>1. reader'[r] = reader[r] /\ (r \in overlapped'.reads <=> r \in overlapped.reads)
      BY <1>1, <2>2
    <3>2. ReaderOK(r)
      BY <3>1 DEF FilesInv, ReadersInv
    <3>3. \A path, k : Block(path, k)' = Block(path, k)
      BY DEF Block
    <3>4. QED
      BY <1>2, <3>1, <3>2, <3>3 DEF ReaderOK
  <2>3. QED
    BY <2>1, <2>2
<1>8. [f \in Files |-> Holds(disk[f])]' = [f \in Files |-> Holds(disk[f])]
  BY DEF Holds
<1>9. [f \in Files |-> Writers(f)]' = [f \in Files |-> Writers(f)]
  BY <1>2
<1>10. [r \in Process |-> LoadOf(r)]' = [[r \in Process |-> LoadOf(r)] EXCEPT ![p] = LoadOf(p)']
  <2>1. ASSUME NEW r \in Process, r # p
        PROVE  LoadOf(r)' = LoadOf(r)
    <3>1. CASE r \notin Procs
      BY <3>1, WorkStays DEF LoadOf
    <3>2. CASE r \in Procs
      <4>1. /\ reader'[r] = reader[r] /\ page'[r] = page[r]
            /\ (r \in overlapped'.reads <=> r \in overlapped.reads)
        BY <1>1, <2>1, <3>2
      <4>2. LoadState(r)' = LoadState(r)
        BY <4>1 DEF LoadState
      <4>3. QED
        BY <3>2, <4>1, <4>2, WorkStays DEF LoadOf, Got
    <3>3. QED
      BY <3>1, <3>2
  <2>2. QED
    BY <1>1, <2>1
<1>11. QED
  BY <1>1, <1>3, <1>4, <1>5, <1>6, <1>7, <1>8, <1>9, <1>10 DEF FilesInv

\* A load begins alone if nobody is writing; a missing file is a load that is over.
LEMMA StepOpen ==
    ASSUME FilesInv, NEW p \in Procs, NEW path \in Files, Open(p, path), UNCHANGED <<work, pc>>
    PROVE  FilesInv' /\ (Store!BeginLoad(path, p) \/ Store!LoadAbsent(path, p))
<1> DEFINE absent == disk[path] = NoFile
           x == [at |-> IF absent THEN "idle" ELSE "head", path |-> path, head |-> Hole]
           r == IF absent THEN "absent" ELSE "none"
           y == IF path = "latest" THEN [latest |-> r, baseline |-> "none"]
                ELSE [page[p] EXCEPT !.baseline = r]
           file == [f \in Files |-> Holds(disk[f])]
           writing == [f \in Files |-> Writers(f)]
           loads == [q \in Process |-> LoadOf(q)]
<1>1. /\ reader[p].at = "idle" /\ reader' = [reader EXCEPT ![p] = x]
      /\ page' = [page EXCEPT ![p] = y]
      /\ overlapped' = [overlapped EXCEPT !.reads = IF Writers(path) = {} THEN @ \ {p}
                                                    ELSE @ \cup {p}]
      /\ UNCHANGED disk
  BY DEF Open, Shown
<1>2. /\ reader \in [Procs -> Readings] /\ page \in [Procs -> Pages]
      /\ overlapped.reads \subseteq Procs
  BY DEF FilesInv, FilesTyped
<1>3. x = [at |-> IF absent THEN "idle" ELSE "head", path |-> path, head |-> Hole]
  OBVIOUS
<1>4. x \in Readings
  BY <1>3 DEF Readings, Blocks
<1>5. y \in Pages
  BY <1>2 DEF Pages, Results
<1>6. reader'[p] = x /\ page'[p] = y
  BY <1>1, <1>2
<1> HIDE DEF x, y
<1>7. Writers(path)' = Writers(path)
  BY WorkStays DEF Writers
<1>8. /\ overlapped'.writes = overlapped.writes
      /\ \A q \in Procs \ {p} : q \in overlapped'.reads <=> q \in overlapped.reads
      /\ overlapped'.reads \subseteq Procs
      /\ p \in overlapped'.reads <=> Writers(path) # {}
  BY <1>1, <1>2
<1>9. x.at # "idle" => ReaderOK(p)'
  <2> SUFFICES ASSUME x.at # "idle" PROVE ReaderOK(p)'
    OBVIOUS
  <2>1. reader'[p].path = path /\ reader'[p].at = "head" /\ disk'[path] # NoFile
    BY <1>1, <1>3, <1>6
  <2>2. QED
    BY <2>1, <1>7, <1>8 DEF ReaderOK
<1>10. /\ FilesInv' /\ p \in Process /\ file' = file /\ writing' = writing
       /\ loads' = [loads EXCEPT ![p] = LoadOf(p)'] /\ Finished' = Finished
  BY <1>1, <1>4, <1>5, <1>8, <1>9, StepRead
<1>11. loads[p].state = "done"
  BY <1>1, <1>10 DEF LoadOf, LoadState
<1>12. page'[p][path] = r
  BY <1>2, <1>6 DEF y, Files, Pages
<1>13. LoadOf(p)' = [state |-> LoadState(p)', path |-> path, got |-> Got(r)]
  BY <1>3, <1>6, <1>12, WorkStays DEF LoadOf
<1>14. writing[path] = Writers(path) /\ file[path] = Holds(disk[path])
  OBVIOUS
<1>15. CASE absent
  <2>1. Writers(path) = {}
    BY <1>15 DEF FilesInv, WritersInv, WriterOK, Writers
  <2>2. Holds(disk[path]) = "absent"
    BY <1>15 DEF Holds
  <2>3. LoadState(p)' = "done"
    BY <1>3, <1>6, <1>15 DEF LoadState
  <2>4. Got(r) = "absent"
    BY <1>15 DEF Got
  <2>5. Store!LoadAbsent(path, p)
    BY <1>8, <1>10, <1>11, <1>13, <1>14, <2>1, <2>2, <2>3, <2>4, Zenon DEF Store!LoadAbsent
  <2>6. QED
    BY <1>10, <2>5
<1>16. CASE ~absent
  <2>1. LoadState(p)' = IF Writers(path) = {} THEN "alone" ELSE "overlapped"
    BY <1>3, <1>6, <1>8, <1>16 DEF LoadState
  <2>2. Got(r) = "nothing"
    BY <1>16 DEF Got
  <2>3. Store!BeginLoad(path, p)
    BY <1>8, <1>10, <1>11, <1>13, <1>14, <2>1, <2>2, Zenon DEF Store!BeginLoad
  <2>4. QED
    BY <1>10, <2>3
<1>17. QED
  BY <1>15, <1>16

\* What a reader finds in a file that is there.
LEMMA BlocksRead ==
    ASSUME FilesInv, NEW path \in Files, disk[path] # NoFile, NEW k \in 1 .. 2
    PROVE  disk[path] \in Stored /\ Block(path, k) \in Blocks \cup {"end"}
<1>1. disk[path] \in Stored
  BY DEF FilesInv, FilesTyped
<1>2. disk[path] \in Seq(Blocks) /\ Len(disk[path]) \in Nat
  BY <1>1, LenProperties DEF Stored
<1>3. CASE k <= Len(disk[path])
  <2>1. k \in 1 .. Len(disk[path])
    BY <1>2, <1>3
  <2>2. disk[path][k] \in Blocks
    BY <1>2, <2>1, ElementOfSeq
  <2>3. QED
    BY <1>1, <1>3, <2>2 DEF Block
<1>4. CASE ~(k <= Len(disk[path]))
  BY <1>1, <1>4 DEF Block
<1>5. QED
  BY <1>3, <1>4

\* Half a load is none.
LEMMA StepHead ==
    ASSUME FilesInv, NEW p \in Procs, ReadHead(p)
    PROVE  FilesInv' /\ UNCHANGED Store!storeVars
<1> DEFINE path == reader[p].path
           x == [at |-> "tail", path |-> path, head |-> Block(path, 1)]
           loads == [q \in Process |-> LoadOf(q)]
<1>1. /\ reader[p].at = "head"
      /\ reader' = [reader EXCEPT ![p] = x]
      /\ UNCHANGED <<work, pc, disk, page, overlapped>>
  BY DEF ReadHead
<1>2. /\ reader \in [Procs -> Readings] /\ page \in [Procs -> Pages]
      /\ overlapped.reads \subseteq Procs
  BY DEF FilesInv, FilesTyped
<1>3. reader[p] \in Readings /\ path \in Files /\ ReaderOK(p)
  BY <1>1, <1>2 DEF Readings, FilesInv, ReadersInv
<1>4. x \in Readings
  <2>1. 1 \in 1 .. 2
    OBVIOUS
  <2>2. Block(path, 1) \in Blocks \cup {"end"}
    BY <1>3, <2>1, BlocksRead DEF ReaderOK
  <2>3. QED
    BY <1>3, <2>2 DEF Readings
<1>6. page' = [page EXCEPT ![p] = page[p]] /\ page[p] \in Pages
  BY <1>1, <1>2
<1>7. reader'[p] = x
  BY <1>1, <1>2
<1>8. ReaderOK(p)'
  <2>1. reader'[p].path = path /\ reader'[p].head = Block(path, 1)
    BY <1>7
  <2>2. \A f : Writers(f)' = Writers(f) /\ Block(f, 1)' = Block(f, 1)
    BY <1>1, WorkStays DEF Writers, Block
  <2>3. QED
    BY <1>1, <1>3, <2>1, <2>2 DEF ReaderOK
<1> HIDE DEF x
<1>9. /\ FilesInv' /\ p \in Process
      /\ [f \in Files |-> Holds(disk[f])]' = [f \in Files |-> Holds(disk[f])]
      /\ [f \in Files |-> Writers(f)]' = [f \in Files |-> Writers(f)]
      /\ loads' = [loads EXCEPT ![p] = LoadOf(p)'] /\ Finished' = Finished
  BY <1>1, <1>2, <1>4, <1>6, <1>8, StepRead
<1>10. LoadOf(p)' = LoadOf(p)
  <2>1. reader'[p].path = path /\ reader'[p].at = "tail"
    BY <1>7 DEF x
  <2>2. LoadState(p)' = LoadState(p)
    BY <1>1, <2>1 DEF LoadState
  <2>3. QED
    BY <1>1, <2>1, <2>2, WorkStays DEF LoadOf, Got
<1>11. loads' = loads
  BY <1>9, <1>10
<1>12. QED
  BY <1>1, <1>9, <1>11 DEF Store!storeVars

\* What an undisturbed reader makes of the two blocks is a reading of what the file holds.
LEMMA DecodedIsHeld ==
    ASSUME FilesInv, NEW path \in Files, disk[path] # NoFile,
           NEW head \in Blocks \cup {"end"}, NEW r \in Decoded(head, Block(path, 2))
    PROVE  /\ r \in Results \ {"none", "absent"}
           /\ Got(r) \in Held
           /\ head = Block(path, 1) => Got(r) \in Store!Readings(Holds(disk[path]))
<1> DEFINE tail == Block(path, 2)
<1>1. disk[path] \in Stored /\ tail \in Blocks \cup {"end"}
  BY BlocksRead
<1>2. /\ \A q \in Process \cup {Committed} : q \notin {"none", "absent", "error", "mixed"}
      /\ "end" \notin Blocks
  BY ProcessAssumption DEF Blocks, Committed, Hole
<1>3. \/ r = "error" /\ ~(head = tail /\ head \notin {"end", Hole})
      \/ r = "mixed" /\ head # tail /\ {"end", Hole} \cap {head, tail} = {}
      \/ r = head /\ head = tail /\ head \notin {"end", Hole}
  BY Zenon DEF Decoded
<1>4. r \in Results \ {"none", "absent"} /\ Got(r) = IF r = "error" THEN Unreadable ELSE r
  <2>1. CASE r \in {"error", "mixed"}
    BY <2>1 DEF Got, Results
  <2>2. CASE r = head /\ head \notin {"end", Hole}
    <3>1. r \in Process \cup {Committed}
      BY <2>2 DEF Blocks
    <3>2. QED
      BY <1>2, <3>1, Zenon DEF Got, Results
  <2>3. QED
    BY <1>3, <2>1, <2>2
<1>5. Got(r) \in Held
  BY <1>4 DEF Held, Results
<1>6. ASSUME head = Block(path, 1)
      PROVE  Got(r) \in Store!Readings(Holds(disk[path]))
  <2>1. CASE Len(disk[path]) = 2
    <3>1. head = disk[path][1] /\ tail = disk[path][2]
      BY <1>6, <2>1 DEF Block
    <3>2. head \in Blocks /\ tail \in Blocks
      <4>1. disk[path] \in Seq(Blocks)
        BY <1>1 DEF Stored
      <4>2. QED
        BY <2>1, <3>1, <4>1, ElementOfSeq
    <3>3. \/ Hole \in {head, tail} /\ Holds(disk[path]) = Unreadable
          \/ /\ Hole \notin {head, tail}
             /\ head = tail => Holds(disk[path]) = head
             /\ head # tail => Holds(disk[path]) = "mixed"
      BY <1>1, <2>1, <3>1, StoredHolds
    <3>4. CASE r = "error"
      <4>1. Holds(disk[path]) \in {Unreadable, "mixed"}
        BY <1>2, <1>3, <3>2, <3>3, <3>4 DEF Blocks
      <4>2. QED
        BY <1>4, <3>4, <4>1 DEF Store!Readings
    <3>5. CASE r = "mixed"
      <4>1. Holds(disk[path]) = "mixed"
        BY <1>2, <1>3, <3>2, <3>3, <3>5 DEF Blocks
      <4>2. QED
        BY <1>4, <3>5, <4>1 DEF Store!Readings
    <3>6. CASE r \notin {"error", "mixed"}
      <4>1. Holds(disk[path]) = r
        BY <1>3, <3>3, <3>6
      <4>2. QED
        BY <1>4, <3>6, <4>1 DEF Store!Readings
    <3>7. QED
      BY <3>4, <3>5, <3>6
  <2>2. CASE Len(disk[path]) # 2
    <3>1. tail = "end"
      <4>1. disk[path] \in Seq(Blocks) /\ Len(disk[path]) <= 2
        BY <1>1 DEF Stored
      <4>2. Len(disk[path]) \in Nat
        BY <4>1, LenProperties
      <4>3. PICK l : l = Len(disk[path])
        OBVIOUS
      <4>4. l \in Nat /\ l <= 2 /\ l # 2
        BY ONLY <2>2, <4>1, <4>2, <4>3, Zenon
      <4>5. ~(2 <= l)
        BY ONLY <4>4
      <4>6. QED
        BY <4>3, <4>5, Zenon DEF Block
    <3>2. r = "error"
      BY <1>3, <3>1
    <3>3. Holds(disk[path]) = Unreadable
      BY <1>1, <2>2, StoredHolds
    <3>4. QED
      BY <1>4, <3>2, <3>3 DEF Store!Readings
  <2>3. QED
    BY <2>1, <2>2
<1>7. QED
  BY <1>4, <1>5, <1>6

\* A load ends with what the file holds if no write overlapped it.
LEMMA StepTail ==
    ASSUME FilesInv, NEW p \in Procs, ReadTail(p)
    PROVE  FilesInv' /\ Store!EndLoad(p)
<1> DEFINE path == reader[p].path
           x == [reader[p] EXCEPT !.at = "idle"]
           file == [f \in Files |-> Holds(disk[f])]
           loads == [q \in Process |-> LoadOf(q)]
<1>1. /\ reader[p].at = "tail" /\ reader' = [reader EXCEPT ![p] = x]
      /\ UNCHANGED <<work, pc, disk, overlapped>>
  BY DEF ReadTail
<1>2. PICK r \in Decoded(reader[p].head, Block(path, 2)) : page' = Shown(p, path, r)
  BY DEF ReadTail
<1> DEFINE y == IF path = "latest" THEN [latest |-> r, baseline |-> "none"]
                ELSE [page[p] EXCEPT !.baseline = r]
<1>3. /\ reader \in [Procs -> Readings] /\ page \in [Procs -> Pages]
      /\ overlapped.reads \subseteq Procs
  BY DEF FilesInv, FilesTyped
<1>4. /\ reader[p] \in Readings /\ path \in Files /\ reader[p].head \in Blocks \cup {"end"}
      /\ ReaderOK(p) /\ disk[path] # NoFile
  BY <1>1, <1>3 DEF Readings, FilesInv, ReadersInv, ReaderOK
<1>5. /\ r \in Results \ {"none", "absent"}
      /\ Got(r) \in Held
      /\ reader[p].head = Block(path, 1) => Got(r) \in Store!Readings(Holds(disk[path]))
  BY <1>4, DecodedIsHeld
<1>6. page' = [page EXCEPT ![p] = y]
  BY <1>2 DEF Shown
<1>7. x \in Readings /\ x.at = "idle" /\ x.path = path
  BY <1>4 DEF Readings
<1>8. y \in Pages
  BY <1>3, <1>5 DEF Pages, Results
<1>9. reader'[p] = x /\ page'[p] = y
  BY <1>1, <1>3, <1>6
<1> HIDE DEF x
<1>10. page'[p][path] = r
  BY <1>3, <1>4, <1>9 DEF Files, Pages
<1> HIDE DEF y
<1>11. /\ FilesInv' /\ p \in Process /\ file' = file
       /\ [f \in Files |-> Writers(f)]' = [f \in Files |-> Writers(f)]
       /\ loads' = [loads EXCEPT ![p] = LoadOf(p)'] /\ Finished' = Finished
  BY <1>1, <1>3, <1>6, <1>7, <1>8, StepRead
<1>12. loads[p] = [state |-> LoadState(p), path |-> path, got |-> Got(page[p][path])]
  BY <1>11 DEF LoadOf
<1>13. LoadOf(p)' = [state |-> "done", path |-> path, got |-> Got(r)]
  <2>1. LoadState(p)' = "done"
    BY <1>7, <1>9 DEF LoadState
  <2>2. QED
    BY <1>1, <1>7, <1>9, <1>10, <2>1, WorkStays DEF LoadOf
<1>14. LoadState(p) # "done" /\ (LoadState(p) = "alone" => p \notin overlapped.reads)
  BY <1>1 DEF LoadState
<1>15. loads[p].state = LoadState(p) /\ loads[p].path = path
  BY <1>12
<1>16. loads[p].state = "alone" => Got(r) \in Store!Readings(file[loads[p].path])
  BY <1>1, <1>4, <1>5, <1>14, <1>15 DEF ReaderOK
<1>17. loads' = [loads EXCEPT ![p] = [state |-> "done", path |-> loads[p].path, got |-> Got(r)]]
  BY <1>11, <1>13, <1>15
<1> HIDE DEF loads, file
<1>18. loads[p].state # "done"
  BY <1>14, <1>15
<1>19. overlapped'.writes = overlapped.writes
  BY <1>1
<1>20. Got(r) \in Process \cup {Committed, "absent", Unreadable, "mixed"}
  BY <1>5 DEF Held
<1>21. QED
  BY <1>11, <1>16, <1>17, <1>18, <1>19, <1>20, Zenon DEF Store!EndLoad, loads, file

\* Drafting is done aside of the files.
LEMMA DraftsAside ==
    ASSUME FilesInv, NEW p \in Procs, Drafts(p)
    PROVE  FilesInv' /\ UNCHANGED Store!storeVars
<1>1. UNCHANGED <<disk, reader, page, overlapped>>
  BY DEF Drafts, fileVars
<1>2. CASE Start(p)
  <2>1. PICK l \in {"error", "bind", "draft"} : pc' = [pc EXCEPT ![p] = l]
    BY <1>2 DEF Start, Goto
  <2>2. pc[p] = "start" /\ UNCHANGED work
    BY <1>2 DEF Start
  <2>3. QED
    BY <1>1, <2>1, <2>2, StepElsewhere DEF Labels, Writing
<1>3. CASE Draft(p)
  BY <1>1, <1>3, StepAside DEF Draft
<1>4. CASE DraftFails(p)
  <2>1. CASE UNCHANGED pc
    BY <1>1, <1>4, <2>1, StepAside DEF DraftFails
  <2>2. CASE pc' = [pc EXCEPT ![p] = "error"]
    <3>1. pc[p] = "draft" /\ UNCHANGED work
      BY <1>4 DEF DraftFails
    <3>2. QED
      BY <1>1, <2>2, <3>1, StepElsewhere DEF Labels, Writing
  <2>3. QED
    BY <1>4, <2>1, <2>2 DEF DraftFails, Goto
<1>5. CASE EndDrafts(p)
  <2>1. PICK l \in {"judge", "ok", "error"} :
            /\ pc' = [pc EXCEPT ![p] = l]
            /\ l = "judge" <=> Run(p).command = "measure"
    BY <1>5 DEF EndDrafts, Goto
  <2>2. pc[p] = "draft" /\ UNCHANGED work
    BY <1>5 DEF EndDrafts
  <2>3. QED
    BY <1>1, <2>1, <2>2, StepElsewhere DEF Labels, Writing
<1>6. QED
  BY <1>2, <1>3, <1>4, <1>5 DEF Drafts

\* So is judging, of which only the end changes a label.
LEMMA JudgesAside ==
    ASSUME FilesInv, NEW p \in Procs, Judges(p)
    PROVE  FilesInv' /\ UNCHANGED Store!storeVars
<1>1. pc[p] = "judge" /\ UNCHANGED <<disk, reader, page, overlapped>>
  BY DEF Judges, fileVars
<1>2. Run(p).command = "measure"
  BY <1>1 DEF FilesInv, OnlyMeasureWrites
<1>3. \/ UNCHANGED <<work, pc>>
      \/ JudgeFails(p) \/ EndJudging(p)
  BY DEF Judges, SkipCampaign, JudgeReal, JudgeControl, JudgeUnrecorded, TakeReal,
     TakeControl, EndReal, EndControl, JudgeStep
<1>4. CASE UNCHANGED <<work, pc>>
  BY <1>1, <1>4, StepAside
<1>5. CASE JudgeFails(p) \/ EndJudging(p)
  <2>1. PICK l \in {"create", "error"} : pc' = [pc EXCEPT ![p] = l]
    BY <1>5 DEF JudgeFails, EndJudging, Goto
  <2>2. UNCHANGED work
    BY <1>5 DEF JudgeFails, EndJudging
  <2>3. QED
    BY <1>1, <1>2, <2>1, <2>2, StepElsewhere DEF Labels, Writing
<1>6. QED
  BY <1>3, <1>4, <1>5

\* And so are the servers' ports.
LEMMA ServesAside ==
    ASSUME FilesInv, NEW p \in Procs, Serves(p)
    PROVE  FilesInv' /\ UNCHANGED Store!storeVars
<1>1. UNCHANGED <<work, disk, reader, page, overlapped>>
  BY DEF Serves, fileVars, Bind, Fallback, HandleRun, StopServer
<1>2. CASE HandleRun(p)
  BY <1>1, <1>2, StepAside DEF HandleRun
<1>3. CASE Bind(p) \/ Fallback(p) \/ StopServer(p)
  <2>1. PICK l \in {"serving", "fallback", "error", "killed"} : pc' = [pc EXCEPT ![p] = l]
    BY <1>3 DEF Bind, Fallback, StopServer, Goto
  <2>2. pc[p] \in {"bind", "fallback", "serving"}
    BY <1>3 DEF Bind, Fallback, StopServer
  <2>3. QED
    BY <1>1, <2>1, <2>2, StepElsewhere DEF Labels, Writing
<1>4. QED
  BY <1>2, <1>3 DEF Serves

\* Every write is a write of the abstraction.
LEMMA WritesAreWrites ==
    ASSUME FilesInv, NEW p \in Procs, Writes(p)
    PROVE  FilesInv' /\ [Store!Next]_(Store!storeVars)
<1> DEFINE path == Dest(p)
<1>1. path \in Files /\ p \in Process
  BY WorkloadsAssumption DEF Dest, Files, FilesInv, FilesTyped, Procs
<1>2. CASE CreateReport(p)
  BY <1>1, <1>2, StepCreate DEF Store!Next
<1>3. CASE CreateFails(p)
  <2>1. pc[p] = "create" /\ pc' = [pc EXCEPT ![p] = "error"]
    BY <1>3 DEF CreateFails, Goto
  <2>2. UNCHANGED <<work, disk, reader, page, overlapped>>
    BY <1>3 DEF CreateFails, fileVars
  <2>3. QED
    BY <2>1, <2>2, StepElsewhere DEF Labels, Writing
<1>4. CASE WriteBlock(p)
  BY <1>1, <1>4, StepWrite DEF Store!Next
<1>5. CASE CloseReport(p)
  BY <1>1, <1>5, StepClose DEF Store!Next
<1>6. CASE AbandonReport(p)
  BY <1>1, <1>6, StepAbandon DEF Store!Next
<1>7. QED
  BY <1>2, <1>3, <1>4, <1>5, <1>6 DEF Writes

\* Every read is a read of the abstraction, or half of one.
LEMMA ReadsAreLoads ==
    ASSUME FilesInv, NEW p \in Procs, Reads(p)
    PROVE  FilesInv' /\ [Store!Next]_(Store!storeVars)
<1>1. p \in Process
  BY WorkloadsAssumption DEF FilesInv, FilesTyped, Procs
<1>2. CASE OpenLatest(p) \/ OpenComparison(p) \/ OpenBaseline(p)
  <2>1. PICK path \in Files : Open(p, path)
    BY <1>2 DEF OpenLatest, OpenComparison, OpenBaseline, Files
  <2>2. UNCHANGED <<work, pc>>
    BY <1>2 DEF OpenLatest, OpenComparison, OpenBaseline
  <2>3. QED
    BY <1>1, <2>1, <2>2, StepOpen DEF Store!Next
<1>3. CASE ReadHead(p)
  BY <1>3, StepHead
<1>4. CASE ReadTail(p)
  BY <1>1, <1>4, StepTail DEF Store!Next
<1>5. CASE EndMeasure(p)
  <2>1. pc[p] = "diff" /\ pc' = [pc EXCEPT ![p] = "ok"]
    BY <1>5 DEF EndMeasure, Goto
  <2>2. UNCHANGED <<work, disk, reader, page, overlapped>>
    BY <1>5 DEF EndMeasure, fileVars
  <2>3. QED
    BY <2>1, <2>2, StepElsewhere DEF Labels, Writing
<1>6. QED
  BY <1>2, <1>3, <1>4, <1>5 DEF Reads

\* A step of any process, or of a neighbour, is a step of the abstraction or none.
LEMMA StepOfStore ==
    FilesInv /\ [Next]_vars => FilesInv' /\ [Store!Next]_(Store!storeVars)
<1> SUFFICES ASSUME FilesInv, [Next]_vars
             PROVE  FilesInv' /\ [Store!Next]_(Store!storeVars)
  OBVIOUS
<1>1. CASE UNCHANGED vars
  <2>1. UNCHANGED <<work, pc, disk, reader, page, overlapped>>
    BY <1>1 DEF vars, fileVars
  <2>2. QED
    BY <2>1, StepAside
<1>2. ASSUME NEW p \in Procs, Drafts(p) \/ Judges(p) \/ Writes(p) \/ Reads(p) \/ Serves(p)
      PROVE  FilesInv' /\ [Store!Next]_(Store!storeVars)
  BY <1>2, DraftsAside, JudgesAside, ServesAside, WritesAreWrites, ReadsAreLoads
<1>3. ASSUME NEW port \in Port, Neighbour(port), UNCHANGED fileVars
      PROVE  FilesInv' /\ [Store!Next]_(Store!storeVars)
  BY <1>3, StepAside DEF Neighbour, fileVars
<1>4. QED
  BY <1>1, <1>2, <1>3 DEF Next

\* What the abstraction rests on always holds: a writer without a rival has written a
\* prefix of its report, and a reader without a writer has what the file has.
THEOREM FilesAreTracked == Spec => []FilesInv
BY FilesStart, StepOfStore, PTL DEF Spec

\* Whatever the catalog and however many processes measure, show and are killed, the
\* report files are safe registers (main.go's cmdMeasure, dashboard.go).
THEOREM PagesAreSafeRegisters == Spec => PagesAreSafe
<1>1. Spec => []FilesInv
  BY FilesAreTracked
<1>2. QED
  BY <1>1, FilesStart, StepOfStore, PTL DEF Spec, PagesAreSafe, Store!Spec

---------------------------------------------------------------------------
(***************************************************************************)
(* The servers.                                                            *)
(***************************************************************************)

\* An address in use is tried again on any port, and one step changes one label.
THEOREM TakenAddressIsTriedAgain == Spec => TakenAddressIsNoFailure
<1> DEFINE Failure == \E p \in Procs :
               /\ pc[p] \in {"bind", "fallback"} /\ pc'[p] = "error"
               /\ Run(p).addr \in Port /\ FreePorts # {}
<1>1. FilesInv /\ [Next]_vars => ~Failure
  <2> SUFFICES ASSUME FilesInv, [Next]_vars, NEW p \in Procs,
                      pc[p] \in {"bind", "fallback"}, pc'[p] = "error",
                      Run(p).addr \in Port
               PROVE  FreePorts = {}
    OBVIOUS
  <2>1. pc \in [Procs -> Labels]
    BY DEF FilesInv, FilesTyped
  <2>2. \A q \in Procs \ {p} : \A l : pc' # [pc EXCEPT ![q] = l]
    BY <2>1
  <2>3. UNCHANGED pc => FALSE
    OBVIOUS
  <2>4. CASE UNCHANGED vars
    BY <2>3, <2>4 DEF vars
  <2>5. ASSUME NEW q \in Procs, Drafts(q)
        PROVE  FreePorts = {}
    <3>1. q = p
      BY <2>2, <2>3, <2>5 DEF Drafts, Start, Draft, DraftFails, EndDrafts, Goto
    <3>2. QED
      BY <3>1, <2>3, <2>5 DEF Drafts, Start, Draft, DraftFails, EndDrafts
  <2>6. ASSUME NEW q \in Procs, Judges(q)
        PROVE  FreePorts = {}
    <3>1. pc[q] = "judge"
      BY <2>6 DEF Judges
    <3>2. UNCHANGED pc \/ \E l : pc' = [pc EXCEPT ![q] = l]
      BY <2>6 DEF Judges, SkipCampaign, JudgeReal, JudgeControl, JudgeUnrecorded, TakeReal,
         TakeControl, EndReal, EndControl, JudgeStep, JudgeFails, EndJudging, Goto
    <3>3. QED
      BY <3>1, <3>2, <2>2, <2>3
  <2>7. ASSUME NEW q \in Procs, Writes(q)
        PROVE  FreePorts = {}
    <3>1. pc[q] \in {"create"} \cup Writing
      BY <2>7 DEF Writes, CreateReport, CreateFails, WriteBlock, CloseReport, AbandonReport, Writing
    <3>2. \E l : pc' = [pc EXCEPT ![q] = l]
      BY <2>7 DEF Writes, CreateReport, CreateFails, WriteBlock, CloseReport, AbandonReport, Goto
    <3>3. QED
      BY <3>1, <3>2, <2>2 DEF Writing
  <2>8. ASSUME NEW q \in Procs, Reads(q)
        PROVE  FreePorts = {}
    <3>1. UNCHANGED pc \/ (pc[q] = "diff" /\ pc' = [pc EXCEPT ![q] = "ok"])
      BY <2>8 DEF Reads, OpenLatest, OpenComparison, OpenBaseline, ReadHead, ReadTail,
         EndMeasure, Goto
    <3>2. QED
      BY <3>1, <2>2, <2>3
  <2>9. ASSUME NEW q \in Procs, Serves(q)
        PROVE  FreePorts = {}
    <3>1. CASE Bind(q)
      BY <3>1, <2>1, <2>2 DEF Bind, Goto, Retried
    <3>2. CASE Fallback(q)
      BY <3>2, <2>1, <2>2 DEF Fallback, Goto
    <3>3. CASE HandleRun(q)
      BY <3>3, <2>3 DEF HandleRun
    <3>4. CASE StopServer(q)
      BY <3>4, <2>1, <2>2 DEF StopServer, Goto
    <3>5. QED
      BY <3>1, <3>2, <3>3, <3>4, <2>9 DEF Serves
  <2>10. ASSUME NEW port \in Port, Neighbour(port)
         PROVE  FreePorts = {}
    BY <2>10, <2>3 DEF Neighbour
  <2>11. QED
    BY <2>4, <2>5, <2>6, <2>7, <2>8, <2>9, <2>10 DEF Next
<1>2. FilesInv /\ [Next]_vars =>
          [\A p \in Procs : pc[p] \in {"bind", "fallback"} /\ pc'[p] = "error" =>
              Run(p).addr \notin Port \/ FreePorts = {}]_vars
  BY <1>1
<1>3. QED
  BY FilesAreTracked, <1>2, PTL DEF Spec, TakenAddressIsNoFailure
=============================================================================
