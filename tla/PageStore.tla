----------------------------- MODULE PageStore -----------------------------
(***************************************************************************)
(* What the files of "disco measure" and "disco metrics" promise: safe     *)
(* registers without a lock.  A client whose write succeeds and overlapped *)
(* no other leaves its report; if it fails, it leaves that or an error.    *)
(* Writes that overlap may leave anything, a splice of reports included,   *)
(* but a file.  A load that overlaps no write sees what the file holds.    *)
(***************************************************************************)
CONSTANTS
    Paths,          \* the files
    Clients,        \* who reads and writes; a client writes one report
    Contents,       \* what a file can hold, the reports of Clients included
    Garbled,        \* of these, what no load can decode,
    Spliced         \* and parts of two reports, which one may

VARIABLES
    file,           \* what each file holds
    writing,        \* who is writing each file
    left,           \* the clients whose write has succeeded
    clashed,        \* the writers that another one overlapped
    loads           \* the last load of each client: of which file, whether it is "done"
                    \* or, so far, "alone" or "overlapped" by a write, and what came of it

storeVars == <<file, writing, left, clashed, loads>>

Init ==
    /\ file \in [Paths -> Contents]
    /\ writing = [path \in Paths |-> {}]
    /\ left = {}
    /\ clashed = {}
    /\ \A r \in Clients : loads[r].state = "done"

\* What the writers make of a file.
Damage(path) ==
    \E v \in Contents \ {"absent"} :
        /\ writing'[path] \cap clashed' = {} => v \in writing'[path] \cup {Garbled}
        /\ file' = [file EXCEPT ![path] = v]

BeginWrite(path, w) ==
    /\ \A other \in Paths : w \notin writing[other]
    /\ writing' = [writing EXCEPT ![path] = @ \cup {w}]
    /\ clashed' = IF writing[path] = {} THEN clashed ELSE clashed \cup writing'[path]
    /\ loads' = [r \in Clients |-> IF loads[r].state # "done" /\ loads[r].path = path
                                   THEN [loads[r] EXCEPT !.state = "overlapped"]
                                   ELSE loads[r]]
    /\ Damage(path)
    /\ UNCHANGED left

Write(path) ==
    /\ writing[path] # {}
    /\ UNCHANGED <<writing, left, clashed, loads>>
    /\ Damage(path)

EndWrite(path, w) ==
    /\ w \in writing[path]
    /\ writing' = [writing EXCEPT ![path] = @ \ {w}]
    /\ left' = left \cup {w}
    /\ w \notin clashed => file[path] = w
    /\ UNCHANGED <<file, clashed, loads>>

AbandonWrite(path, w) ==
    /\ w \in writing[path]
    /\ writing' = [writing EXCEPT ![path] = @ \ {w}]
    /\ UNCHANGED <<file, left, clashed, loads>>

BeginLoad(path, r) ==
    /\ loads[r].state = "done"
    /\ loads' = [loads EXCEPT ![r] =
                    [state |-> IF writing[path] = {} THEN "alone" ELSE "overlapped",
                     path |-> path, got |-> "nothing"]]
    /\ UNCHANGED <<file, writing, left, clashed>>

\* What a load may make of a file that nobody writes.
Readings(v) == IF v = Spliced THEN {Spliced, Garbled} ELSE {v}

EndLoad(r) ==
    /\ loads[r].state # "done"
    /\ \E v \in Contents :
          /\ loads[r].state = "alone" => v \in Readings(file[loads[r].path])
          /\ loads' = [loads EXCEPT ![r] = [state |-> "done", path |-> @.path, got |-> v]]
    /\ UNCHANGED <<file, writing, left, clashed>>

\* A file that is not there takes no time to load.
LoadAbsent(path, r) ==
    /\ loads[r].state = "done"
    /\ writing[path] = {} /\ file[path] = "absent"
    /\ loads' = [loads EXCEPT ![r] = [state |-> "done", path |-> path, got |-> "absent"]]
    /\ UNCHANGED <<file, writing, left, clashed>>

Next ==
    \/ \E path \in Paths : Write(path)
    \/ \E path \in Paths, c \in Clients :
          \/ BeginWrite(path, c) \/ EndWrite(path, c) \/ AbandonWrite(path, c)
          \/ BeginLoad(path, c) \/ LoadAbsent(path, c)
    \/ \E r \in Clients : EndLoad(r)

Spec == Init /\ [][Next]_storeVars
=============================================================================
