------------------------------ MODULE PocketIC ------------------------------
(***************************************************************************)
(* The client of the PocketIC server: the process Start spawns and Close   *)
(* kills, the port file through which it learns where the server listens,  *)
(* and do, which turns the server's answers (done, started, busy) into one *)
(* blocking call.  One call is under way at a time.                        *)
(***************************************************************************)
EXTENDS Naturals

VARIABLES
  server,    \* the spawned process
  portFile,  \* how much of its port the server wrote
  base,      \* what Start took for the port
  busy,      \* another computation holds the instance
  call       \* the call under way

pvars == <<server, portFile, base, busy, call>>

\* phase: post and poll are do's and pollGraph's loops; late: the deadline
\* the two share has passed; op: the operation pollGraph follows; graph: the
\* operations that resolved; ran: how often the server executed the call.
Calls ==
  [phase : {"idle", "post", "poll", "answered", "failed"}, late : BOOLEAN,
   op : {"none", "own", "other"}, graph : SUBSET {"own", "other"},
   running : BOOLEAN, ran : 0..2]

Idle == [phase |-> "idle", late |-> FALSE, op |-> "none", graph |-> {},
         running |-> FALSE, ran |-> 0]

PTypeOK ==
  /\ server \in {"none", "running", "dead"}
  /\ portFile \in {"absent", "half", "full"}
  /\ base \in {"unset", "half", "full"}
  /\ busy \in BOOLEAN
  /\ call \in Calls

PInit ==
  /\ server = "none" /\ portFile = "absent" /\ base = "unset"
  /\ busy = FALSE /\ call = Idle

-----------------------------------------------------------------------------
(***************************************************************************)
(* Start and Close.                                                        *)
(***************************************************************************)

Spawn == server' = "running" /\ UNCHANGED <<portFile, base, busy, call>>

\* waitPort takes a port once the newline that ends it is there.
PortIsWritten == portFile = "full"

PortRead ==
  /\ PortIsWritten /\ base' = portFile
  /\ UNCHANGED <<server, portFile, busy, call>>

\* A mistake: Start returns its error and no one kills the server.
LeaveServer == UNCHANGED pvars

\* Thirty seconds went by without a port: Start kills what it spawned.
PortWaitEnds == server' = "dead" /\ UNCHANGED <<portFile, base, busy, call>>

Close ==
  /\ server' = "dead" /\ portFile' = "absent"
  /\ UNCHANGED <<base, busy, call>>

\* The server: it writes its port in two pieces, it may exit (its --ttl, a
\* crash), and the instance progresses by itself once auto_progress is on.
WritePort ==
  /\ server = "running" /\ base = "unset"
  /\ \/ portFile = "absent" /\ portFile' = "half"
     \/ portFile = "half" /\ portFile' = "full"
  /\ UNCHANGED <<server, base, busy, call>>

ServerExits ==
  /\ server = "running" /\ server' = "dead"
  /\ UNCHANGED <<portFile, base, busy, call>>

OthersCompute ==
  /\ server = "running" /\ call.phase \in {"post", "poll"}
  /\ busy' = ~busy
  /\ call' = IF busy THEN [call EXCEPT !.graph = @ \union {"other"}] ELSE call
  /\ UNCHANGED <<server, portFile, base>>

-----------------------------------------------------------------------------
(***************************************************************************)
(* do.                                                                     *)
(***************************************************************************)

\* A call opens with its deadline ahead.
Open == /\ call' = [Idle EXCEPT !.phase = "post"]
        /\ UNCHANGED <<server, portFile, base, busy>>

Answering == server = "running" /\ base = "full"

Execute(c) == [c EXCEPT !.ran = @ + 1]

\* 200: the call ran and this is its answer.
PostDone ==
  /\ call.phase = "post" /\ Answering /\ ~busy
  /\ call' = [Execute(call) EXCEPT !.phase = "answered", !.op = "own"]
  /\ UNCHANGED <<server, portFile, base, busy>>

\* 202: the call runs, its operation is the one to poll.
PostStarted ==
  /\ call.phase = "post" /\ Answering /\ ~busy
  /\ call' = [call EXCEPT !.phase = "poll", !.op = "own", !.running = TRUE]
  /\ UNCHANGED <<server, portFile, base, busy>>

\* A mistake: 409 has the shape of 202 and is followed like it.
FollowTheBusyOne ==
  /\ call.phase = "post" /\ Answering /\ busy
  /\ call' = [call EXCEPT !.phase = "poll", !.op = "other"]
  /\ UNCHANGED <<server, portFile, base, busy>>

\* 409: the instance is taken; the request is sent again until the deadline.
PostBusy ==
  /\ call.phase = "post" /\ Answering /\ busy
  /\ call' = IF call.late THEN [call EXCEPT !.phase = "failed"] ELSE call
  /\ UNCHANGED <<server, portFile, base, busy>>

\* A mistake: a request whose answer was lost is sent again.
SendAgain ==
  /\ call.phase \in {"post", "poll"}
  /\ \E c \in {call, IF Answering /\ ~busy /\ call.phase = "post" /\ call.ran = 0
                       THEN Execute(call) ELSE call} :
       call' = IF c.late THEN [c EXCEPT !.phase = "failed"] ELSE c
  /\ UNCHANGED <<server, portFile, base, busy>>

\* No answer (nothing listens there, the HTTP timeout) or a status that is not
\* one of the above: an error, whether or not the server got to run the call.
AnswerLost ==
  /\ call.phase \in {"post", "poll"}
  /\ \E c \in {call, IF Answering /\ ~busy /\ call.phase = "post"
                       THEN Execute(call) ELSE call} :
       call' = [c EXCEPT !.phase = "failed"]
  /\ UNCHANGED <<server, portFile, base, busy>>

Resolve ==
  /\ call.running /\ server = "running"
  /\ call' = [Execute(call) EXCEPT !.running = FALSE, !.graph = @ \union {"own"}]
  /\ UNCHANGED <<server, portFile, base, busy>>

\* A mistake: pollGraph has no deadline of its own.
PollForever ==
  /\ call.phase = "poll" /\ Answering
  /\ call' = IF call.op \in call.graph THEN [call EXCEPT !.phase = "answered"] ELSE call
  /\ UNCHANGED <<server, portFile, base, busy>>

\* pollGraph: 200 or 202 is the answer, 404 asks again until the deadline.
Poll ==
  /\ call.phase = "poll" /\ Answering
  /\ call' = IF call.op \in call.graph THEN [call EXCEPT !.phase = "answered"]
             ELSE IF call.late THEN [call EXCEPT !.phase = "failed"]
             ELSE call
  /\ UNCHANGED <<server, portFile, base, busy>>

\* maxWait goes by.
TimePasses ==
  /\ call.phase \in {"post", "poll"} /\ ~call.late
  /\ call' = [call EXCEPT !.late = TRUE]
  /\ UNCHANGED <<server, portFile, base, busy>>

\* A connection nothing answers is refused or times out.
Unanswered == ~Answering /\ AnswerLost

Roundtrip == PostDone \/ PostStarted \/ PostBusy \/ Poll \/ Unanswered

Environment == WritePort \/ ServerExits \/ OthersCompute \/ AnswerLost \/ Resolve

-----------------------------------------------------------------------------
\* do's promise to its callers: the server runs a call at most once, and the
\* answer a call returns is the answer of that one execution, however the
\* busy answers, the polling and the deadline interleave.
CallsRunOnce ==
  /\ call.ran <= 1
  /\ call.phase = "answered" => call.ran = 1 /\ call.op = "own"
=============================================================================
