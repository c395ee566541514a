------------------------------- MODULE Ports -------------------------------
(***************************************************************************)
(* The two servers, "disco serve" and "disco metrics": Listen with its     *)
(* fall-back (internal/server/server.go) among other programs that take    *)
(* and free ports, and the handler of /api/run.                            *)
(***************************************************************************)
EXTENDS Drafting

CONSTANTS
    Port, Ephemeral,    \* all ports, and those the system assigns
    Requests            \* what clients send to /api/run: [method, body]

VARIABLES
    ports,      \* who listens on each
    replies     \* the last answer of each server to a run request

Nobody == "nobody"
Stranger == "stranger"
NoReply == [code |-> 0]

ServerInit ==
    /\ ports \in [Port -> {Nobody, Stranger}]
    /\ \A port \in Port \ work.contended : ports[port] = Nobody
    /\ replies = [p \in Procs |-> NoReply]

serverVars == <<ports, replies>>

\* A wanted port outside Port stands for an address that cannot be bound: malformed,
\* or not permitted.  Only an address in use is tried again.
NeverRetried(addr) == FALSE
Retried(addr) == addr \in Port

\* listen's first attempt.
Bind(p) ==
    LET addr == Run(p).addr
        bound == addr \in Port /\ ports[addr] = Nobody
    IN /\ pc[p] = "bind"
       /\ Goto(p, IF bound THEN "serving" ELSE IF Retried(addr) THEN "fallback" ELSE "error")
       /\ ports' = IF bound THEN [ports EXCEPT ![addr] = p] ELSE ports
       /\ UNCHANGED <<work, drafts, failures, replies>>

FreePorts == {port \in Ephemeral : ports[port] = Nobody}

\* listen's second attempt, with port 0.
Fallback(p) ==
    /\ pc[p] = "fallback"
    /\ IF FreePorts = {} THEN Goto(p, "error") /\ UNCHANGED ports
       ELSE /\ Goto(p, "serving")
            /\ \E port \in FreePorts : ports' = [ports EXCEPT ![port] = p]
    /\ UNCHANGED <<work, drafts, failures, replies>>

\* Another program takes or frees a port it contends for.
Neighbour(port) ==
    /\ port \in work.contended
    /\ ports[port] \in {Nobody, Stranger}
    /\ ports' = [ports EXCEPT ![port] = IF @ = Nobody THEN Stranger ELSE Nobody]
    /\ UNCHANGED <<work, pc, drafts, failures, replies>>

\* A server runs until its process is stopped.
StopServer(p) ==
    /\ pc[p] = "serving"
    /\ Goto(p, "killed")
    /\ ports' = [port \in Port |-> IF ports[port] = p THEN Nobody ELSE ports[port]]
    /\ UNCHANGED <<work, drafts, failures, replies>>

\* The handler refuses what is not a POST with a brief; a stage that fails, or the
\* deadline of the request, is an internal error.
Answers(p, request) ==
    IF request.method # "POST" THEN {[code |-> 405]}
    ELSE IF request.body \in {"unreadable", "blank"} THEN {[code |-> 400]}
    ELSE {[code |-> 500]} \cup
         {[code |-> 200, campaign |-> c] : c \in Campaigns(Run(p).inputs)}

HandleRun(p) ==
    /\ pc[p] = "serving"
    /\ Run(p).command = "serve"
    /\ \E request \in Requests : \E answer \in Answers(p, request) :
          replies' = [replies EXCEPT ![p] = answer]
    /\ UNCHANGED <<work, pc, drafts, failures, ports>>
=============================================================================
