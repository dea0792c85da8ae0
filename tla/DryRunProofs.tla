---------------------------- MODULE DryRunProofs ----------------------------
(***************************************************************************)
(* Proofs about DryRun, for every proposal and every mainnet history: the  *)
(* server runs each call at most once and an answer is that execution's,   *)
(* no dry run leaves its server behind, the mirror fails only where        *)
(* mainnet lacks what is named, the registry accepts the batch, and a dry  *)
(* run that succeeds resolved its proposal.                                *)
(***************************************************************************)
EXTENDS DryRun, MirrorProofs

\* What is true of the call under way: it has not run while it is posted, its
\* own operation is the one polled, and an operation that is still running has
\* not counted yet.
CallInv ==
  /\ call \in Calls
  /\ call.running => call.ran = 0
  /\ call.phase \in {"idle", "post"} => call.ran = 0 /\ ~call.running /\ call.op = "none"
  /\ call.phase = "poll" => call.op = "own"
  /\ call.phase = "answered" => call.ran = 1 /\ call.op = "own"
  /\ "own" \in call.graph => call.ran = 1
  /\ call.ran <= 1

\* What is true of the server: it is spawned once, and dead in the end.
ServerInv ==
  /\ pc \in {"seeds", "pin", "walk", "start", "port", "calls", "close", "done"}
  /\ pc \in {"seeds", "pin", "walk", "start"} => server = "none"
  /\ pc = "done" => server # "running"

-----------------------------------------------------------------------------
(***************************************************************************)
(* The client.                                                             *)
(***************************************************************************)

LEMMA OpenKeeps == Open => CallInv'
<1> SUFFICES ASSUME Open PROVE CallInv'
  OBVIOUS
<1>1. call' = [phase |-> "post", late |-> FALSE, op |-> "none", graph |-> {},
               running |-> FALSE, ran |-> 0]
  BY DEF Open, Idle
<1>2. call' \in Calls
  BY <1>1 DEF Calls
<1> QED
  BY <1>1, <1>2 DEF CallInv

LEMMA IdleKeeps == call' = Idle => CallInv'
  BY DEF CallInv, Idle, Calls

LEMMA PostKeeps ==
  CallInv /\ (PostDone \/ PostStarted \/ PostBusy \/ Poll) => CallInv'
<1> SUFFICES ASSUME CallInv, PostDone \/ PostStarted \/ PostBusy \/ Poll PROVE CallInv'
  OBVIOUS
<1> USE DEF CallInv, Calls, Execute
<1>1. CASE PostDone
  <2>1. call' = [phase |-> "answered", late |-> call.late, op |-> "own",
                 graph |-> call.graph, running |-> call.running, ran |-> call.ran + 1]
    BY <1>1 DEF PostDone
  <2>2. call.phase = "post" /\ call.ran = 0 /\ ~call.running /\ "own" \notin call.graph
    BY <1>1 DEF PostDone
  <2> QED
    BY <2>1, <2>2
<1>2. CASE PostStarted
  BY <1>2 DEF PostStarted
<1>3. CASE PostBusy
  BY <1>3 DEF PostBusy
<1>4. CASE Poll
  BY <1>4 DEF Poll
<1> QED
  BY <1>1, <1>2, <1>3, <1>4

LEMMA ServerKeeps ==
  CallInv /\ (AnswerLost \/ Resolve \/ OthersCompute \/ TimePasses) => CallInv'
<1> SUFFICES ASSUME CallInv, AnswerLost \/ Resolve \/ OthersCompute \/ TimePasses
             PROVE  CallInv'
  OBVIOUS
<1> USE DEF CallInv, Calls, Execute
<1>1. CASE AnswerLost
  BY <1>1 DEF AnswerLost
<1>2. CASE Resolve
  <2>1. call' = [phase |-> call.phase, late |-> call.late, op |-> call.op,
                 graph |-> call.graph \union {"own"}, running |-> FALSE,
                 ran |-> call.ran + 1]
    BY <1>2 DEF Resolve
  <2>2. call.running /\ call.ran = 0 /\ call.phase \in {"poll", "failed"}
    BY <1>2 DEF Resolve
  <2> QED
    BY <2>1, <2>2
<1>3. CASE OthersCompute
  BY <1>3 DEF OthersCompute
<1>4. CASE TimePasses
  BY <1>4 DEF TimePasses
<1> QED
  BY <1>1, <1>2, <1>3, <1>4

-----------------------------------------------------------------------------
(***************************************************************************)
(* The dry run.                                                            *)
(***************************************************************************)

LEMMA CallInvInductive == CallInv /\ [Next]_vars => CallInv'
<1> SUFFICES ASSUME CallInv, [Next]_vars PROVE CallInv'
  OBVIOUS
<1>1. ASSUME UNCHANGED call PROVE CallInv'
  BY <1>1 DEF CallInv
<1>2. CASE UNCHANGED vars
  BY <1>2, <1>1 DEF vars, pvars
<1>3. CASE MainnetMoves \/ ReadFails \/ StartFails \/ ExecuteLocally
  BY <1>3, <1>1 DEF MainnetMoves, ReadFails, StartFails, ExecuteLocally, pvars
<1>4. CASE InCall
  <2>1. AnswerLost \/ PostDone \/ PostStarted \/ PostBusy \/ Poll
    BY <1>4 DEF InCall, Roundtrip, Unanswered
  <2> QED
    BY <2>1, PostKeeps, ServerKeeps
<1>5. CASE DeadlineNears
  BY <1>5, ServerKeeps DEF DeadlineNears
<1>6. CASE ServerStep
  <2>1. CASE WritePort \/ ServerExits
    BY <2>1, <1>1 DEF WritePort, ServerExits
  <2> QED
    BY <1>6, <2>1, ServerKeeps DEF ServerStep, Environment
<1>7. CASE Command
  <2>1. CASE CallOpens
    BY <2>1, OpenKeeps DEF CallOpens
  <2>2. CASE CallReturns \/ CallFails
    BY <2>2, IdleKeeps DEF CallReturns, CallFails
  <2>3. CASE FetchSeeds \/ PinVersion \/ NothingToMirror \/ Walk \/ WalkEnds
    BY <2>3, <1>1 DEF FetchSeeds, PinVersion, NothingToMirror, Walk, WalkEnds, pvars
  <2>4. CASE StartServer \/ PortFound \/ PortNotFound \/ CloseServer
    BY <2>4, <1>1
    DEF StartServer, Spawn, PortFound, PortRead, PortNotFound, PortWaitEnds, CloseServer, Close
  <2> QED
    BY <1>7, <2>1, <2>2, <2>3, <2>4 DEF Command
<1> QED
  BY <1>2, <1>3, <1>4, <1>5, <1>6, <1>7 DEF Next

LEMMA ServerInvInductive == ServerInv /\ [Next]_vars => ServerInv'
<1> SUFFICES ASSUME ServerInv, [Next]_vars PROVE ServerInv'
  OBVIOUS
<1>1. ASSUME UNCHANGED <<pc, server>> PROVE ServerInv'
  BY <1>1 DEF ServerInv
<1>2. CASE UNCHANGED vars
  BY <1>2, <1>1 DEF vars, dvars, pvars
<1>3. CASE MainnetMoves \/ ReadFails \/ StartFails \/ ExecuteLocally
  BY <1>3 DEF MainnetMoves, ReadFails, StartFails, ExecuteLocally, Fail, pvars, ServerInv
<1>4. CASE InCall \/ DeadlineNears
  BY <1>4, <1>1
  DEF InCall, DeadlineNears, TimePasses, Roundtrip, Unanswered, AnswerLost, PostDone,
      PostStarted, PostBusy, Poll, dvars
<1>5. CASE ServerStep
  BY <1>5
  DEF ServerStep, Environment, WritePort, ServerExits, OthersCompute, AnswerLost, Resolve,
      dvars, ServerInv
<1>6. CASE Command
  <2>1. CASE FetchSeeds \/ PinVersion \/ NothingToMirror \/ Walk \/ WalkEnds
    BY <2>1
    DEF FetchSeeds, PinVersion, NothingToMirror, Walk, WalkEnds, Fail, pvars, ServerInv
  <2>2. CASE StartServer \/ PortFound \/ PortNotFound \/ CloseServer
    BY <2>2
    DEF StartServer, Spawn, PortFound, PortRead, PortNotFound, PortWaitEnds, CloseServer,
        Close, Fail, ServerInv
  <2>3. CASE CallOpens
    BY <2>3, <1>1 DEF CallOpens, Open, dvars
  <2>4. CASE CallReturns \/ CallFails
    BY <2>4 DEF CallReturns, CallFails, Fail, ServerInv
  <2> QED
    BY <1>6, <2>1, <2>2, <2>3, <2>4 DEF Command
<1> QED
  BY <1>2, <1>3, <1>4, <1>5, <1>6 DEF Next

LEMMA InitInv == Init => CallInv /\ ServerInv
  BY DEF Init, PInit, CallInv, ServerInv, Idle, Calls

-----------------------------------------------------------------------------
(***************************************************************************)
(* The mirror and the verdict.                                             *)
(***************************************************************************)

\* No root of the scope was lost.
RootsHeld(w, scope) ==
  /\ \A s \in ToSet(scope.subnets) : SubnetHeld(w, s)
  /\ \A n \in ToSet(scope.nodes) : NodeHeld(w, n)
  /\ \A o \in ToSet(scope.operators) : OperatorHeld(w, o)
  /\ \A v \in ToSet(scope.versions) : VersionHeld(w, v)

\* The walk w of a's scope over the mainnet m.
WalkOK(a, m, w) ==
  /\ w \in Walks /\ Copied(w, m)
  /\ ~w.failed => Closed(w, m) /\ RootsHeld(w, MirrorScope(a))
  /\ Resolves(a, m) => ~w.failed /\ AllPresent(w, m)

\* The reads are over and none failed.
Planned == pc \in {"start", "port", "calls"} \/ result = "ok"

BasicsInv ==
  /\ action \in Actions /\ history \in Histories /\ latest \in DOMAIN history
  /\ pc \in {"seeds", "pin", "walk", "start", "port", "calls", "close", "done"}
  /\ known \subseteq Providers
  /\ pinned \in 0..latest
  /\ at \in 0..Len(Script)
  /\ pc \notin {"calls", "close", "done"} => at = 0
  /\ pc = "calls" => at < Len(Script)
  /\ local \in {"none", "open", "executed", "failed"}
  /\ result \in {"none", "ok", "error"}
  /\ pc \notin {"close", "done"} => result = "none"

MirrorInv ==
  /\ pinned = 0 => walk = StartWalk(NoScope)
  /\ pinned # 0 => Mirrors /\ WalkOK(action, history[pinned], walk)
  /\ pc \in {"seeds", "pin"} => pinned = 0
  /\ pc = "walk" => pinned # 0
  /\ Planned => ~walk.failed /\ walk.todo = NoScope /\ (Mirrors => pinned # 0)

\* The providers are those of one moment, and a proposal that was submitted
\* passed governance on them.
VerdictInv ==
  /\ (pc \in {"pin", "walk"} \/ Planned) /\ action.kind \in Seeders =>
       \E j \in 1..latest : known = history[j].providers
  /\ (pc = "calls" /\ at >= 17) \/ result = "ok" => ~GovernanceRejects

-----------------------------------------------------------------------------
(* Proposals and their scopes. *)

Names == {"instance", "create", "install_registry", "install_root", "install_governance",
          "set_time", "auto_progress", "manage_neuron", "get_proposal_info"}

\* s is n calls long.
OfLength(s, n) == s \in Seq([what : Names, await : BOOLEAN]) /\ Len(s) = n

LEMMA CallsAre ==
  ASSUME NEW w \in Names
  PROVE  OfLength(Direct(w), 1) /\ OfLength(Update(w), 2)
  BY DEF OfLength, Direct, Update

LEMMA Longer ==
  ASSUME NEW s, NEW t, NEW n \in Nat, NEW k \in Nat, OfLength(s, n), OfLength(t, k)
  PROVE  OfLength(s \o t, n + k)
<1> DEFINE C == [what : Names, await : BOOLEAN]
<1>1. s \in Seq(C) /\ t \in Seq(C)
  BY DEF OfLength
<1>4. Len(s) = n /\ Len(t) = k
  BY DEF OfLength
<1>2. s \o t \in Seq(C)
  <2> HIDE DEF C
  <2> QED
    BY <1>1
<1>3. Len(s \o t) = n + k
  <2> HIDE DEF C
  <2> QED
    BY <1>1, <1>4
<1> QED
  BY <1>2, <1>3 DEF OfLength

\* Where an element of a concatenation comes from.
LEMMA ConcatAt ==
  ASSUME NEW C, NEW i \in Seq(C), NEW m \in Seq(C)
  PROVE  /\ \A x \in 1..Len(i) : (i \o m)[x] = i[x]
         /\ \A x \in 1..Len(m) : (i \o m)[Len(i) + x] = m[x]
<1>1. \A x \in 1..Len(i) : (i \o m)[x] = i[x]
  OBVIOUS
<1>2. \A x \in 1..Len(m) : (i \o m)[Len(i) + x] = m[x]
  OBVIOUS
<1> QED
  BY <1>1, <1>2

LEMMA ScriptIs == Len(Script) = 18 /\ Script[17] = [what |-> "manage_neuron", await |-> TRUE]
<1> DEFINE a == Direct("instance")
           b == a \o Update("create")
           c == b \o Update("install_registry")
           d == c \o Update("create")
           e == d \o Update("install_root")
           f == e \o Update("create")
           g == f \o Update("install_governance")
           h == g \o Direct("set_time")
           i == h \o Direct("auto_progress")
           m == Update("manage_neuron")
           j == i \o m
           k == j \o Direct("get_proposal_info")
<1>1. /\ OfLength(Update("create"), 2) /\ OfLength(Update("install_registry"), 2)
      /\ OfLength(Update("install_root"), 2) /\ OfLength(Update("install_governance"), 2)
      /\ OfLength(m, 2) /\ OfLength(Direct("set_time"), 1)
      /\ OfLength(Direct("auto_progress"), 1) /\ OfLength(Direct("get_proposal_info"), 1)
      /\ OfLength(a, 1)
  BY CallsAre DEF Names
<1> HIDE DEF a, m
<1>2. OfLength(b, 3)
  <2>1. OfLength(b, 1 + 2)
    BY <1>1, Longer
  <2> QED
    BY <2>1
<1> HIDE DEF b
<1>3. OfLength(c, 5)
  <2>1. OfLength(c, 3 + 2)
    BY <1>1, <1>2, Longer
  <2> QED
    BY <2>1
<1> HIDE DEF c
<1>4. OfLength(d, 7)
  <2>1. OfLength(d, 5 + 2)
    BY <1>1, <1>3, Longer
  <2> QED
    BY <2>1
<1> HIDE DEF d
<1>5. OfLength(e, 9)
  <2>1. OfLength(e, 7 + 2)
    BY <1>1, <1>4, Longer
  <2> QED
    BY <2>1
<1> HIDE DEF e
<1>6. OfLength(f, 11)
  <2>1. OfLength(f, 9 + 2)
    BY <1>1, <1>5, Longer
  <2> QED
    BY <2>1
<1> HIDE DEF f
<1>7. OfLength(g, 13)
  <2>1. OfLength(g, 11 + 2)
    BY <1>1, <1>6, Longer
  <2> QED
    BY <2>1
<1> HIDE DEF g
<1>8. OfLength(h, 14)
  <2>1. OfLength(h, 13 + 1)
    BY <1>1, <1>7, Longer
  <2> QED
    BY <2>1
<1> HIDE DEF h
<1>9. OfLength(i, 15)
  <2>1. OfLength(i, 14 + 1)
    BY <1>1, <1>8, Longer
  <2> QED
    BY <2>1
<1> HIDE DEF i
<1>10. OfLength(j, 17) /\ j[17] = m[2]
  <2>1. OfLength(j, 15 + 2)
    BY <1>1, <1>9, Longer
  <2> DEFINE C == [what : Names, await : BOOLEAN]
  <2>2. i \in Seq(C) /\ m \in Seq(C) /\ Len(i) = 15 /\ Len(m) = 2
    BY <1>1, <1>9 DEF OfLength
  <2> HIDE DEF C
  <2>4. 2 \in 1..Len(m) /\ Len(i) + 2 = 17
    BY <2>2
  <2>7. i \in Seq(C) /\ m \in Seq(C)
    BY <2>2
  <2>5. \A x \in 1..Len(m) : (i \o m)[Len(i) + x] = m[x]
    BY ONLY <2>7, ConcatAt
  <2>6. (i \o m)[Len(i) + 2] = m[2]
    BY <2>4, <2>5, Zenon
  <2>3. j[17] = m[2]
    BY <2>4, <2>6, Zenon
  <2> QED
    BY <2>1, <2>3
<1> HIDE DEF j
<1>11. Len(k) = 18 /\ k[17] = j[17]
  <2>1. OfLength(k, 17 + 1)
    BY <1>1, <1>10, Longer
  <2> DEFINE C == [what : Names, await : BOOLEAN]
             q == Direct("get_proposal_info")
  <2>2. j \in Seq(C) /\ q \in Seq(C) /\ Len(j) = 17 /\ Len(q) = 1
    BY <1>1, <1>10 DEF OfLength
  <2>3. k = j \o q
    OBVIOUS
  <2> HIDE DEF C, q, k
  <2>7. j \in Seq(C) /\ q \in Seq(C)
    BY <2>2
  <2>5. \A x \in 1..Len(j) : (j \o q)[x] = j[x]
    BY ONLY <2>7, ConcatAt
  <2>6. 17 \in 1..Len(j)
    BY <2>2
  <2>4. k[17] = j[17]
    BY <2>3, <2>5, <2>6, Zenon
  <2> QED
    BY <2>1, <2>4 DEF OfLength
<1>12. Script = k
  BY Zenon DEF Script, a, b, c, d, e, f, g, h, i, j, m
<1>13. m[2] = [what |-> "manage_neuron", await |-> TRUE]
  BY DEF m, Update
<1> HIDE DEF k
<1> QED
  BY <1>10, <1>11, <1>12, <1>13

LEMMA MainnetsAre ==
  ASSUME NEW h \in Histories, NEW i \in DOMAIN h
  PROVE  h[i] \in Mainnet /\ MainnetOK(h[i]) /\ h \in Seq(Mainnet) /\ DOMAIN h = 1..Len(h)
         /\ Len(h) \in Nat /\ Len(h) # 0
  BY DryRunAssumption

LEMMA NodeListIs ==
  ASSUME NEW S \in SUBSET Nodes
  PROVE  SetToSeq(S) \in Seq(Nodes) /\ ToSet(SetToSeq(S)) = S
<1>1. IsFiniteSet(S)
  BY LocalRegistryAssumption, FS_Subset
<1>2. SetToSeq(S) \in Seq(S) /\ ToSet(SetToSeq(S)) = S
  BY <1>1, SetToSeqIs
<1> QED
  BY <1>2

LEMMA OperatorListIs ==
  ASSUME NEW S \in SUBSET Operators
  PROVE  SetToSeq(S) \in Seq(Operators) /\ ToSet(SetToSeq(S)) = S
<1>1. IsFiniteSet(S)
  BY LocalRegistryAssumption, FS_Subset
<1>2. SetToSeq(S) \in Seq(S) /\ ToSet(SetToSeq(S)) = S
  BY <1>1, SetToSeqIs
<1> QED
  BY <1>2

LEMMA KindsAre ==
  ASSUME NEW a \in Action
  PROVE  \/ a.kind = "membership" /\ a.subnet \in Subnets
              /\ a.add \in SUBSET Nodes /\ a.remove \in SUBSET Nodes
         \/ a.kind = "deploy_guestos" /\ a.subnet \in Subnets /\ a.version \in Versions
         \/ a.kind = "update_subnet" /\ a.subnet \in Subnets
         \/ a.kind = "remove_nodes" /\ a.nodes \in SUBSET Nodes
         \/ a.kind = "remove_node_operators" /\ a.operators \in SUBSET Operators
         \/ a.kind = "add_data_centers"
         \/ a.kind = "add_node_provider" /\ a.provider \in Providers
         \/ a.kind = "remove_node_provider" /\ a.provider \in Providers
         \/ a.kind = "add_node_operator" /\ a.provider \in Providers /\ a.dc \in Dcs
  BY DEF Action

\* A kind mirrors, and then a mainnet resolves what it names exactly if it has
\* every root; or it seeds.
LEMMA ScopeIs ==
  ASSUME NEW a \in Action, NEW m \in Mainnet
  PROVE  /\ MirrorScope(a) \in Scope
         /\ a.kind \in Seeders => MirrorScope(a) = NoScope
         /\ a.kind \notin Seeders =>
              (Resolves(a, m) <=> AllPresent(StartWalk(MirrorScope(a)), m))
<1> DEFINE sc == MirrorScope(a)
           all == /\ ToSet(sc.subnets) \subseteq Present(m.subnets)
                  /\ ToSet(sc.nodes) \subseteq Present(m.nodes)
                  /\ ToSet(sc.operators) \subseteq Present(m.operators)
                  /\ ToSet(sc.versions) \subseteq m.versions
<1>1. AllPresent(StartWalk(sc), m) <=> all
  BY DEF AllPresent, StartWalk
<1>2. NoScope \in Scope /\ ToSet(<<>>) = {} /\ \A x : ToSet(<<x>>) = {x}
  BY DEF NoScope, Scope, ToSet
<1> SUFFICES /\ sc \in Scope
             /\ a.kind \in Seeders => sc = NoScope
             /\ a.kind \notin Seeders => (Resolves(a, m) <=> all)
  BY <1>1
<1>3. CASE a.kind = "membership" /\ a.subnet \in Subnets
           /\ a.add \in SUBSET Nodes /\ a.remove \in SUBSET Nodes
  <2> DEFINE b == SetToSeq(a.add) \o SetToSeq(a.remove)
  <2>1. b \in Seq(Nodes) /\ ToSet(b) = a.add \union a.remove
    BY <1>3, NodeListIs, ToSetIs
  <2>2. sc = [NoScope EXCEPT !.subnets = <<a.subnet>>, !.nodes = b]
    BY <1>3 DEF MirrorScope
  <2>3. Resolves(a, m) <=> a.subnet \in Present(m.subnets)
                             /\ (a.add \union a.remove) \subseteq Present(m.nodes)
    BY <1>3 DEF Resolves
  <2> HIDE DEF b, sc
  <2>4. sc = [subnets |-> <<a.subnet>>, nodes |-> b, operators |-> <<>>, versions |-> <<>>]
    BY <2>2 DEF NoScope
  <2>5. sc \in Scope
    BY <1>3, <2>1, <2>4 DEF Scope
  <2> QED
    BY <1>2, <1>3, <2>1, <2>3, <2>4, <2>5 DEF Seeders
<1>4. CASE a.kind = "deploy_guestos" /\ a.subnet \in Subnets /\ a.version \in Versions
  <2>1. sc = [subnets |-> <<a.subnet>>, nodes |-> <<>>, operators |-> <<>>,
              versions |-> <<a.version>>]
    BY <1>4 DEF MirrorScope, NoScope
  <2>2. Resolves(a, m) <=> a.subnet \in Present(m.subnets) /\ a.version \in m.versions
    BY <1>4 DEF Resolves
  <2> HIDE DEF sc
  <2> QED
    BY <1>2, <1>4, <2>1, <2>2 DEF Seeders, Scope
<1>5. CASE a.kind = "update_subnet" /\ a.subnet \in Subnets
  <2>1. sc = [subnets |-> <<a.subnet>>, nodes |-> <<>>, operators |-> <<>>, versions |-> <<>>]
    BY <1>5 DEF MirrorScope, NoScope
  <2>2. Resolves(a, m) <=> a.subnet \in Present(m.subnets)
    BY <1>5 DEF Resolves
  <2> HIDE DEF sc
  <2> QED
    BY <1>2, <1>5, <2>1, <2>2 DEF Seeders, Scope
<1>6. CASE a.kind = "remove_nodes" /\ a.nodes \in SUBSET Nodes
  <2>1. sc = [subnets |-> <<>>, nodes |-> SetToSeq(a.nodes), operators |-> <<>>, versions |-> <<>>]
    BY <1>6 DEF MirrorScope, NoScope
  <2>2. Resolves(a, m) <=> a.nodes \subseteq Present(m.nodes)
    BY <1>6 DEF Resolves
  <2>3. SetToSeq(a.nodes) \in Seq(Nodes) /\ ToSet(SetToSeq(a.nodes)) = a.nodes
    BY <1>6, NodeListIs
  <2> HIDE DEF sc
  <2> QED
    BY <1>2, <1>6, <2>1, <2>2, <2>3 DEF Seeders, Scope
<1>7. CASE a.kind = "remove_node_operators" /\ a.operators \in SUBSET Operators
  <2>1. sc = [subnets |-> <<>>, nodes |-> <<>>, operators |-> SetToSeq(a.operators),
              versions |-> <<>>]
    BY <1>7 DEF MirrorScope, NoScope
  <2>2. Resolves(a, m) <=> a.operators \subseteq Present(m.operators)
    BY <1>7 DEF Resolves
  <2>3. SetToSeq(a.operators) \in Seq(Operators) /\ ToSet(SetToSeq(a.operators)) = a.operators
    BY <1>7, OperatorListIs
  <2> HIDE DEF sc
  <2> QED
    BY <1>2, <1>7, <2>1, <2>2, <2>3 DEF Seeders, Scope
<1>8. CASE a.kind \in Seeders
  <2>1. sc = NoScope
    BY <1>8 DEF MirrorScope, Seeders
  <2> QED
    BY <1>2, <1>8, <2>1
<1> QED
  BY <1>3, <1>4, <1>5, <1>6, <1>7, <1>8, KindsAre DEF Seeders
-----------------------------------------------------------------------------
(* The reads. *)

\* The first step of a walk: every root is held, none is copied.
LEMMA WalkBegins ==
  ASSUME NEW a \in Action, a.kind \notin Seeders, NEW m \in Mainnet
  PROVE  WalkOK(a, m, StartWalk(MirrorScope(a)))
<1> DEFINE sc == MirrorScope(a)
           w == StartWalk(sc)
<1>1. sc \in Scope /\ (Resolves(a, m) <=> AllPresent(w, m))
  BY ScopeIs
<1>2. w.todo = sc
  BY DEF StartWalk
<1> HIDE DEF sc
<1>3. w \in Walks /\ Copied(w, m) /\ ~w.failed /\ Closed(w, m)
  BY <1>1, WalkStarts, Zenon
<1>4. RootsHeld(w, sc)
  BY <1>2 DEF RootsHeld, SubnetHeld, NodeHeld, OperatorHeld, VersionHeld
<1> HIDE DEF w
<1>5. WalkOK(a, m, w)
  BY <1>1, <1>3, <1>4 DEF WalkOK, sc
<1> QED
  BY <1>5, Zenon DEF w, sc

LEMMA WalkGoesOn ==
  ASSUME NEW a \in Action, NEW m \in Mainnet, MainnetOK(m), NEW w,
         WalkOK(a, m, w), ~w.failed, w.todo # NoScope
  PROVE  WalkOK(a, m, WalkOne(w, m))
<1> DEFINE sc == MirrorScope(a)
           r == WalkOne(w, m)
<1>1. sc \in Scope
  BY ScopeIs
<1>2. /\ w \in Walks /\ Copied(w, m) /\ Closed(w, m) /\ RootsHeld(w, sc)
      /\ Resolves(a, m) => AllPresent(w, m)
  BY DEF WalkOK
<1>3. Progress(w, r, m)
  BY <1>2, WalkProgress
<1> HIDE DEF sc, r
<1>4. ~r.failed => RootsHeld(r, sc)
  <2> SUFFICES ASSUME ~r.failed PROVE RootsHeld(r, sc)
    OBVIOUS
  <2>1. KeepsRoots(w, r)
    BY <1>3 DEF Progress
  <2>2. /\ ToSet(sc.subnets) \subseteq Subnets /\ ToSet(sc.nodes) \subseteq Nodes
        /\ ToSet(sc.operators) \subseteq Operators /\ ToSet(sc.versions) \subseteq Versions
    BY <1>1 DEF Scope, ToSet
  <2> QED
    BY <1>2, <2>1, <2>2 DEF RootsHeld, KeepsRoots
<1>5. WalkOK(a, m, r)
  BY <1>2, <1>3, <1>4 DEF Progress, WalkOK, sc
<1> QED
  BY <1>5, Zenon DEF r

LEMMA StepKinds ==
  [Next]_vars =>
    \/ UNCHANGED dvars \/ FetchSeeds \/ PinVersion \/ NothingToMirror \/ Walk \/ WalkEnds
    \/ StartServer \/ PortFound \/ PortNotFound \/ CallReturns \/ CallFails \/ CloseServer
    \/ MainnetMoves \/ ReadFails \/ StartFails \/ ExecuteLocally
  BY DEF vars, Next, Command, InCall, DeadlineNears, ServerStep, CallOpens

LEMMA StepFrame == [Next]_vars => action' = action /\ history' = history
<1> USE DEF dvars
<1> QED
  BY StepKinds DEF FetchSeeds, PinVersion, NothingToMirror, Walk, WalkEnds, StartServer,
     PortFound, PortNotFound, CallReturns, CallFails, CloseServer, MainnetMoves, ReadFails,
     StartFails, ExecuteLocally

LEMMA BasicsKept == BasicsInv /\ [Next]_vars => BasicsInv'
<1> SUFFICES ASSUME BasicsInv, [Next]_vars PROVE BasicsInv'
  OBVIOUS
<1> DEFINE N == Len(Script)
<1>1. N = 18
  BY ScriptIs
<1>2. /\ history \in Histories /\ latest \in 1..Len(history) /\ Len(history) \in Nat
      /\ DOMAIN history = 1..Len(history)
      /\ \A i \in 1..Len(history) : history[i] \in Mainnet
  BY MainnetsAre DEF BasicsInv
<1>3. action' = action /\ history' = history
  BY StepFrame
<1>4. history[latest].providers \subseteq Providers
  BY <1>2 DEF Mainnet
<1> HIDE DEF N
<1> USE <1>1, <1>2, <1>3 DEF BasicsInv, Fail, N
<1>5. CASE UNCHANGED dvars
  BY <1>5 DEF dvars
<1>6. CASE FetchSeeds
  BY <1>4, <1>6 DEF FetchSeeds
<1>7. CASE PinVersion
  BY <1>7 DEF PinVersion
<1>8. CASE NothingToMirror \/ Walk \/ WalkEnds
  BY <1>8 DEF NothingToMirror, Walk, WalkEnds
<1>9. CASE StartServer \/ PortFound \/ PortNotFound
  BY <1>9 DEF StartServer, PortFound, PortNotFound
<1>10. CASE CallReturns
  <2>1. /\ pc = "calls" /\ at \in 0..17 /\ result = "none"
        /\ UNCHANGED <<action, history, latest, known, pinned, walk>>
    BY <1>10 DEF CallReturns
  <2>2. \/ pc' = "close" /\ result' = "error" /\ at' = at /\ local' = local
        \/ /\ at' = at + 1 /\ local' \in {"open", local}
           /\ \/ at = 17 /\ pc' = "close" /\ result' = "ok"
              \/ at # 17 /\ pc' = pc /\ result' = result
    BY <1>10, <2>1 DEF CallReturns
  <2>6. at' \in 0..18 /\ (pc' = "calls" => at' < 18)
    <3>1. at \in Nat /\ at <= 17
      BY <2>1
    <3>2. \/ at' = at /\ pc' = "close"
          \/ at' = at + 1 /\ (at = 17 => pc' = "close")
      BY ONLY <2>2
    <3> QED
      BY ONLY <3>1, <3>2
  <2>3. /\ pc' \in {"calls", "close"} /\ result' \in {"none", "ok", "error"}
        /\ pc' = "calls" => result' = "none"
        /\ local' \in {"none", "open", "executed", "failed"}
    BY <2>1, <2>2
  <2>4. action' \in Actions /\ history' \in Histories /\ latest' \in DOMAIN history'
        /\ known' \subseteq Providers /\ pinned' \in 0..latest'
    BY <2>1
  <2>5. at' \in 0..Len(Script) /\ (pc' = "calls" => at' < Len(Script))
    BY <2>6
  <2> QED
    BY <2>3, <2>4, <2>5
<1>11. CASE CallFails \/ CloseServer
  BY <1>11 DEF CallFails, CloseServer
<1>12. CASE MainnetMoves
  BY <1>12 DEF MainnetMoves
<1>13. CASE ReadFails \/ StartFails
  BY <1>13 DEF ReadFails, StartFails
<1>14. CASE ExecuteLocally
  BY <1>14 DEF ExecuteLocally
<1> QED
  BY <1>5, <1>6, <1>7, <1>8, <1>9, <1>10, <1>11, <1>12, <1>13, <1>14, StepKinds
-----------------------------------------------------------------------------
(* The mirror. *)

\* A step that leaves the mirror alone, and is past the reads or not.
LEMMA MirrorLeft ==
  ASSUME MirrorInv, UNCHANGED <<action, history, pinned, walk>>,
         pc' \in {"seeds", "pin"} => pinned = 0,
         pc' = "walk" => pinned # 0,
         Planned' => Planned
  PROVE  MirrorInv'
  BY DEF MirrorInv, Mirrors

LEMMA MirrorKept == BasicsInv /\ MirrorInv /\ [Next]_vars => MirrorInv'
<1> SUFFICES ASSUME BasicsInv, MirrorInv, [Next]_vars PROVE MirrorInv'
  OBVIOUS
<1>1. /\ history \in Histories /\ latest \in 1..Len(history) /\ action \in Action
      /\ pinned \in 0..latest /\ Len(history) \in Nat
      /\ \A i \in 1..Len(history) : history[i] \in Mainnet /\ MainnetOK(history[i])
  BY MainnetsAre, DryRunAssumption DEF BasicsInv
<1>2. pinned # 0 => history[pinned] \in Mainnet /\ MainnetOK(history[pinned])
  BY <1>1
<1>3. CASE UNCHANGED dvars
  BY <1>3, MirrorLeft DEF dvars, MirrorInv, Planned
<1>4. CASE FetchSeeds
  BY <1>4, MirrorLeft DEF FetchSeeds, MirrorInv, Planned, BasicsInv
<1>5. CASE PinVersion
  <2>1. /\ pc' = "walk" /\ pinned' = latest /\ result' = result /\ pc = "pin"
        /\ walk' = StartWalk(MirrorScope(action)) /\ Mirrors
        /\ action' = action /\ history' = history
    BY <1>5 DEF PinVersion
  <2>2. action.kind \notin Seeders
    BY <1>1, <2>1, ScopeIs DEF Mirrors
  <2>3. WalkOK(action, history[latest], StartWalk(MirrorScope(action)))
    BY <1>1, <2>2, WalkBegins
  <2>4. pinned' # 0 /\ ~Planned'
    BY <1>1, <2>1 DEF Planned, BasicsInv
  <2>5. WalkOK(action', history'[pinned'], walk')
    BY <2>1, <2>3, Zenon
  <2>6. Mirrors'
    BY <2>1 DEF Mirrors
  <2> QED
    BY <2>1, <2>4, <2>5, <2>6 DEF MirrorInv
<1>6. CASE NothingToMirror
  <2>1. pc = "pin" /\ ~Mirrors /\ pc' = "start" /\ pinned = 0
        /\ UNCHANGED <<action, history, pinned, walk>>
    BY <1>6 DEF NothingToMirror, MirrorInv
  <2>2. walk = StartWalk(NoScope) /\ ~Mirrors'
    BY <2>1 DEF MirrorInv, Mirrors
  <2>3. ~walk.failed /\ walk.todo = NoScope
    BY <2>2 DEF StartWalk
  <2> QED
    BY <2>1, <2>2, <2>3 DEF MirrorInv
<1>7. CASE Walk
  <2>1. /\ pc = "walk" /\ ~walk.failed /\ walk.todo # NoScope
        /\ walk' = WalkOne(walk, history[pinned]) /\ pinned # 0
        /\ UNCHANGED <<action, history, pc, pinned, result>>
    BY <1>7 DEF Walk, WalkDone, ReadVersion, MirrorInv
  <2>2. WalkOK(action, history[pinned], walk)
    BY <2>1 DEF MirrorInv
  <2>3. WalkOK(action, history[pinned], WalkOne(walk, history[pinned]))
    BY <1>1, <1>2, <2>1, <2>2, WalkGoesOn
  <2>4. WalkOK(action', history'[pinned'], walk')
    BY <2>1, <2>3, Zenon
  <2>5. ~Planned'
    BY <2>1 DEF Planned, BasicsInv
  <2>6. Mirrors'
    BY <2>1 DEF Mirrors, MirrorInv
  <2> QED
    BY <2>1, <2>4, <2>5, <2>6 DEF MirrorInv
<1>8. CASE WalkEnds
  <2>1. CASE walk.failed
    BY <1>8, <2>1, MirrorLeft DEF WalkEnds, Fail, Planned
  <2>2. CASE ~walk.failed
    <3>1. /\ pc = "walk" /\ walk.todo = NoScope /\ pc' = "start" /\ pinned # 0
          /\ UNCHANGED <<action, history, pinned, walk>>
      BY <1>8, <2>2 DEF WalkEnds, WalkDone, MirrorInv
    <3>2. Mirrors'
      BY <3>1 DEF Mirrors, MirrorInv
    <3> QED
      BY <2>2, <3>1, <3>2 DEF MirrorInv
  <2> QED
    BY <2>1, <2>2
<1>9. CASE StartServer \/ PortFound \/ PortNotFound
  BY <1>9, MirrorLeft DEF StartServer, PortFound, PortNotFound, Fail, Planned
<1>10. CASE CallReturns
  BY <1>10, MirrorLeft DEF CallReturns, Fail, Planned
<1>11. CASE CallFails \/ CloseServer
  BY <1>11, MirrorLeft DEF CallFails, CloseServer, Fail, Planned
<1>12. CASE MainnetMoves
  BY <1>12, MirrorLeft DEF MainnetMoves, Planned, MirrorInv
<1>13. CASE ReadFails \/ StartFails
  BY <1>13, MirrorLeft DEF ReadFails, StartFails, Fail, Planned
<1>14. CASE ExecuteLocally
  BY <1>14, MirrorLeft DEF ExecuteLocally, Planned
<1> QED
  BY <1>3, <1>4, <1>5, <1>6, <1>7, <1>8, <1>9, <1>10, <1>11, <1>12, <1>13, <1>14, StepKinds

-----------------------------------------------------------------------------
(* The verdict. *)

LEMMA VerdictLeft ==
  ASSUME BasicsInv, VerdictInv, UNCHANGED <<action, history, known>>,
         latest' \in Nat, latest \in Nat, latest <= latest',
         pc' \in {"pin", "walk"} \/ Planned' => pc \in {"pin", "walk"} \/ Planned,
         (pc' = "calls" /\ at' >= 17) \/ result' = "ok" =>
           (pc = "calls" /\ at >= 17) \/ result = "ok"
  PROVE  VerdictInv'
<1>1. GovernanceRejects' <=> GovernanceRejects
  BY DEF GovernanceRejects, Seeds
<1>2. 1..latest \subseteq 1..latest'
  OBVIOUS
<1> QED
  BY <1>1, <1>2 DEF VerdictInv

LEMMA VerdictKept == BasicsInv /\ VerdictInv /\ [Next]_vars => VerdictInv'
<1> SUFFICES ASSUME BasicsInv, VerdictInv, [Next]_vars PROVE VerdictInv'
  OBVIOUS
<1>1. latest \in Nat /\ latest \in 1..latest /\ at \in Nat
  <2>1. at \in 0..18
    BY ScriptIs DEF BasicsInv
  <2>2. latest \in 1..Len(history)
    BY MainnetsAre DEF BasicsInv
  <2> QED
    BY <2>1, <2>2, MainnetsAre DEF BasicsInv
<1>3. CASE UNCHANGED dvars
  BY <1>1, <1>3, VerdictLeft DEF dvars, Planned
<1>4. CASE FetchSeeds
  <2>1. /\ pc = "seeds" /\ pc' = "pin" /\ result' = "none"
        /\ UNCHANGED <<action, history, latest>>
        /\ action.kind \in Seeders => known' = history[latest].providers
    BY <1>4 DEF FetchSeeds, BasicsInv
  <2> QED
    BY <1>1, <2>1 DEF VerdictInv
<1>5. CASE PinVersion \/ NothingToMirror \/ Walk
  BY <1>1, <1>5, VerdictLeft DEF PinVersion, NothingToMirror, Walk, Planned, BasicsInv
<1>6. CASE WalkEnds
  BY <1>1, <1>6, VerdictLeft DEF WalkEnds, Fail, Planned, BasicsInv
<1>7. CASE StartServer \/ PortFound \/ PortNotFound
  BY <1>1, <1>7, VerdictLeft
  DEF StartServer, PortFound, PortNotFound, Fail, Planned, BasicsInv
<1>8. CASE CallReturns
  <2>1. /\ pc = "calls" /\ result = "none"
        /\ UNCHANGED <<action, history, latest, known>>
    BY <1>8 DEF CallReturns, BasicsInv
  <2>2. CASE CanisterRejects
    BY <1>1, <1>8, <2>1, <2>2, VerdictLeft DEF CallReturns, Fail, Planned
  <2>3. CASE ~CanisterRejects
    <3>1. /\ at' = at + 1
          /\ result' = "ok" => at + 1 = 18
          /\ pc' = "calls" \/ result' = "ok"
      BY <1>8, <2>1, <2>3, ScriptIs DEF CallReturns
    <3>2. CASE at + 1 = 17
      <4>1. Script[at + 1].await /\ Script[at + 1].what = "manage_neuron"
        BY <3>2, ScriptIs
      <4>2. ~GovernanceRejects
        BY <2>3, <4>1 DEF CanisterRejects
      <4>3. ~GovernanceRejects'
        BY <2>1, <4>2 DEF GovernanceRejects, Seeds
      <4> QED
        BY <2>1, <4>3 DEF VerdictInv, Planned
    <3>3. CASE at + 1 # 17
      <4>1. at' >= 17 => at >= 17
        BY <1>1, <3>1, <3>3
      <4>2. result' = "ok" => at >= 17
        BY <1>1, <3>1
      <4> QED
        BY <1>1, <2>1, <4>1, <4>2, VerdictLeft DEF Planned
    <3> QED
      BY <3>2, <3>3
  <2> QED
    BY <2>2, <2>3
<1>9. CASE CallFails \/ CloseServer
  BY <1>1, <1>9, VerdictLeft DEF CallFails, CloseServer, Fail, Planned
<1>10. CASE MainnetMoves
  BY <1>1, <1>10, VerdictLeft DEF MainnetMoves, Planned
<1>11. CASE ReadFails \/ StartFails
  BY <1>1, <1>11, VerdictLeft DEF ReadFails, StartFails, Fail, Planned
<1>12. CASE ExecuteLocally
  BY <1>1, <1>12, VerdictLeft DEF ExecuteLocally, Planned
<1> QED
  BY <1>3, <1>4, <1>5, <1>6, <1>7, <1>8, <1>9, <1>10, <1>11, <1>12, StepKinds
-----------------------------------------------------------------------------
(* What the invariants mean. *)

DryInv == CallInv /\ ServerInv /\ BasicsInv /\ MirrorInv /\ VerdictInv

LEMMA DryInit == Init => DryInv
<1> SUFFICES ASSUME Init PROVE DryInv
  OBVIOUS
<1>1. /\ action \in Actions /\ history \in Histories /\ latest = 1
      /\ pc = "seeds" /\ known = {} /\ pinned = 0 /\ walk = StartWalk(NoScope)
      /\ at = 0 /\ local = "none" /\ result = "none"
  BY DEF Init
<1>2. 1 \in DOMAIN history
  BY <1>1, DryRunAssumption
<1>3. BasicsInv
  BY <1>1, <1>2, ScriptIs DEF BasicsInv
<1>4. MirrorInv /\ VerdictInv
  BY <1>1 DEF MirrorInv, VerdictInv, Planned
<1> QED
  BY <1>3, <1>4, InitInv DEF DryInv

LEMMA DryKept == DryInv /\ [Next]_vars => DryInv'
  BY CallInvInductive, ServerInvInductive, BasicsKept, MirrorKept, VerdictKept DEF DryInv

LEMMA HistoryIs ==
  ASSUME BasicsInv
  PROVE  /\ action \in Action /\ history \in Histories
         /\ latest \in 1..Len(history) /\ pinned \in 0..latest
         /\ latest \in 1..latest /\ (pinned # 0 => pinned \in 1..latest)
         /\ \A i \in 1..latest : history[i] \in Mainnet /\ MainnetOK(history[i])
<1>1. /\ action \in Action /\ history \in Histories /\ latest \in 1..Len(history)
      /\ Len(history) \in Nat /\ pinned \in 0..latest
  BY MainnetsAre, DryRunAssumption DEF BasicsInv
<1>2. \A i \in 1..Len(history) : history[i] \in Mainnet /\ MainnetOK(history[i])
  BY <1>1, MainnetsAre
<1> QED
  BY <1>1, <1>2

LEMMA SoundHolds == BasicsInv /\ MirrorInv => SoundTargetIsMirrored
<1> SUFFICES ASSUME BasicsInv, MirrorInv, walk.failed
             PROVE  \E i \in 1..latest : ~Resolves(action, history[i])
  BY DEF SoundTargetIsMirrored
<1>1. pinned # 0
  BY DEF MirrorInv, StartWalk
<1>2. ~Resolves(action, history[pinned])
  BY <1>1 DEF MirrorInv, WalkOK
<1> QED
  BY <1>1, <1>2, HistoryIs

\* A walk that ended without a failure found every root.
LEMMA EndedWalk ==
  ASSUME NEW a \in Action, a.kind \notin Seeders, NEW m \in Mainnet, MainnetOK(m),
         NEW w, WalkOK(a, m, w), ~w.failed, w.todo = NoScope
  PROVE  Resolves(a, m)
<1> DEFINE sc == MirrorScope(a)
<1>1. sc \in Scope /\ (Resolves(a, m) <=> AllPresent(StartWalk(sc), m))
  BY ScopeIs
<1>2. w \in Walks /\ Copied(w, m) /\ RootsHeld(w, sc)
  BY DEF WalkOK
<1> HIDE DEF sc
<1>3. /\ ToSet(w.todo.subnets) = {} /\ ToSet(w.todo.nodes) = {}
      /\ ToSet(w.todo.operators) = {} /\ ToSet(w.todo.versions) = {}
  BY DEF NoScope, ToSet
<1>4. /\ ToSet(sc.subnets) \subseteq Subnets /\ ToSet(sc.nodes) \subseteq Nodes
      /\ ToSet(sc.operators) \subseteq Operators /\ ToSet(sc.versions) \subseteq Versions
  BY <1>1 DEF Scope, ToSet
<1>5. ASSUME NEW k \in w.seen PROVE value(m, k) # None
  BY <1>2, CopiedValue
<1>6. ToSet(sc.subnets) \subseteq Present(m.subnets)
  BY <1>2, <1>3, <1>4, <1>5, PresentValues, MainnetParts DEF RootsHeld, SubnetHeld
<1>7. ToSet(sc.nodes) \subseteq Present(m.nodes)
  BY <1>2, <1>3, <1>4, <1>5, PresentValues, MainnetParts DEF RootsHeld, NodeHeld
<1>8. ToSet(sc.operators) \subseteq Present(m.operators)
  BY <1>2, <1>3, <1>4, <1>5, PresentValues, MainnetParts DEF RootsHeld, OperatorHeld
<1>9. ToSet(sc.versions) \subseteq m.versions
  BY <1>2, <1>3, <1>4, <1>5, PresentValues DEF RootsHeld, VersionHeld
<1>10. AllPresent(StartWalk(sc), m)
  BY <1>6, <1>7, <1>8, <1>9 DEF AllPresent, StartWalk
<1> QED
  BY <1>1, <1>10

\* What governance checked at submission, mainnet's providers say.
LEMMA SeededVerdict ==
  ASSUME action \in Action, action.kind \in Seeders, ~GovernanceRejects,
         NEW m, known = m.providers
  PROVE  Resolves(action, m)
<1>1. CASE action.kind = "add_data_centers"
  BY <1>1 DEF Resolves
<1>2. CASE action.kind = "add_node_provider"
  <2>1. action.provider \in known => Seeds.providers = {action.provider}
    BY <1>2 DEF Seeds, DryRunSeeds, NoSeeds
  <2> QED
    BY <1>2, <2>1 DEF Resolves, GovernanceRejects
<1>3. CASE action.kind = "remove_node_provider"
  <2>1. action.provider \notin known => Seeds.providers = {}
    BY <1>3 DEF Seeds, DryRunSeeds, NoSeeds
  <2> QED
    BY <1>3, <2>1 DEF Resolves, GovernanceRejects
<1>4. CASE action.kind = "add_node_operator"
  <2>1. Seeds.providers = {action.provider} \intersect known
    BY <1>4 DEF Seeds, DryRunSeeds
  <2> QED
    BY <1>4, <2>1 DEF Resolves, GovernanceRejects
<1> QED
  BY <1>1, <1>2, <1>3, <1>4 DEF Seeders

LEMMA OkHolds == BasicsInv /\ MirrorInv /\ VerdictInv => OkMeansResolved
<1> SUFFICES ASSUME BasicsInv, MirrorInv, VerdictInv, result = "ok"
             PROVE  \E i \in 1..latest : Resolves(action, history[i])
  BY DEF OkMeansResolved
<1>1. /\ action \in Action /\ latest \in 1..latest /\ (pinned # 0 => pinned \in 1..latest)
      /\ \A i \in 1..latest : history[i] \in Mainnet /\ MainnetOK(history[i])
  BY HistoryIs
<1>2. CASE action.kind \in Seeders
  <2>1. PICK j \in 1..latest : known = history[j].providers
    BY <1>2 DEF VerdictInv, Planned
  <2>2. ~GovernanceRejects
    BY DEF VerdictInv
  <2>3. Resolves(action, history[j])
    BY <1>1, <1>2, <2>1, <2>2, SeededVerdict
  <2> QED
    BY <2>3
<1>3. CASE action.kind \notin Seeders /\ Mirrors
  <2>1. pinned # 0 /\ ~walk.failed /\ walk.todo = NoScope
    BY <1>3 DEF MirrorInv, Planned
  <2>2. WalkOK(action, history[pinned], walk)
    BY <2>1 DEF MirrorInv
  <2>3. Resolves(action, history[pinned])
    BY <1>1, <1>3, <2>1, <2>2, EndedWalk
  <2> QED
    BY <1>1, <2>1, <2>3
<1>4. CASE action.kind \notin Seeders /\ ~Mirrors
  <2>1. MirrorScope(action) = NoScope
    BY <1>4 DEF Mirrors
  <2>2. Resolves(action, history[latest]) <=> AllPresent(StartWalk(NoScope), history[latest])
    BY <1>1, <1>4, <2>1, ScopeIs
  <2>3. AllPresent(StartWalk(NoScope), history[latest])
    BY DEF AllPresent, StartWalk, NoScope, ToSet
  <2> QED
    BY <1>1, <2>2, <2>3
<1> QED
  BY <1>2, <1>3, <1>4

\* The batch of a proposal that seeds nothing and mirrors nothing.
LEMMA NothingPlanted == minimalRegistryInit(NoSeeds, StartWalk(NoScope)) = <<>>
<1> DEFINE w == StartWalk(NoScope)
           ops == seedMutations(<<>>, <<>>, <<>>) \o seedProviderMutations({})
           dcm == seedDataCenterMutations(<<>>, Keys(ops))
           fab == ops \o dcm
           kept == Kept(fab, {i \in DOMAIN fab : fab[i].key \notin Keys(w.out)})
<1>1. w.out = <<>> /\ w.subnets = <<>> /\ w.versions = <<>>
  BY DEF StartWalk
<1>2. ops = <<>>
  BY DEF seedMutations, seedProviderMutations
<1>3. Table(dcm, FabDcs({}, Keys(ops)))
  BY ShortLists, DcTable
<1>4. dcm \in Seq({})
  <2>1. FabDcs({}, Keys(ops)) = {}
    BY DEF FabDcs
  <2> HIDE DEF dcm, ops
  <2> QED
    BY <1>3, <2>1 DEF Table, Listed
<1>5. fab \in Seq({})
  <2> HIDE DEF dcm, ops
  <2>1. ops \in Seq({})
    BY <1>2
  <2> QED
    BY <1>4, <2>1
<1>6. minimalRegistryInit(NoSeeds, w) = mirrorPrecedence(fab, w.out) \o w.out
  BY <1>1 DEF minimalRegistryInit, NoSeeds
<1>7. mirrorPrecedence(fab, w.out) = kept
  BY DEF mirrorPrecedence
<1> HIDE DEF fab
<1>8. kept \in Seq({})
  <2> DEFINE keep == {i \in DOMAIN fab : fab[i].key \notin Keys(w.out)}
  <2>1. keep \in SUBSET (1..Len(fab))
    BY <1>5
  <2> HIDE DEF keep
  <2>2. Kept(fab, keep) \in Seq({})
    BY <1>5, <2>1, KeptIs
  <2> QED
    BY <2>2 DEF keep
<1> HIDE DEF kept, w
<1>9. kept = <<>>
  BY <1>8
<1>10. kept \o w.out = <<>>
  BY <1>1, <1>9
<1> QED
  BY <1>6, <1>7, <1>10 DEF w

\* What a kind seeds: nothing, or one subnet that is not a mainnet subnet
\* unless it is the system subnet, with providers and data centers.
LEMMA SeedsAre ==
  ASSUME action \in Action
  PROVE  \/ Seeds = NoSeeds
         \/ /\ action.kind \in Seeders
            /\ \E s, P, dcs, D : /\ s \in Subnets => s = System
                                 /\ Listed(dcs, D)
                                 /\ Seeds = [providers |-> P, subnets |-> <<s>>, dcs |-> dcs]
<1> DEFINE Sd(s, P, dcs) == [providers |-> P, subnets |-> <<s>>, dcs |-> dcs]
<1>1. SUFFICES \/ Seeds = NoSeeds
               \/ \E s, P, dcs, D : /\ action.kind \in Seeders
                                    /\ s \in Subnets => s = System
                                    /\ Listed(dcs, D) /\ Seeds = Sd(s, P, dcs)
  OBVIOUS
<1>2. CASE action.kind = "add_data_centers"
  <2>1. Seeds = Sd(System, {}, <<>>)
    BY <1>2 DEF Seeds, DryRunSeeds, NoSeeds
  <2> HIDE DEF Sd
  <2> QED
    BY <1>2, <2>1, ShortLists DEF Seeders
<1>3. CASE action.kind = "add_node_provider"
  <2>1. Seeds = NoSeeds \/ Seeds = Sd(System, {action.provider}, <<>>)
    BY <1>3 DEF Seeds, DryRunSeeds, NoSeeds
  <2> HIDE DEF Sd
  <2> QED
    BY <1>3, <2>1, ShortLists DEF Seeders
<1>4. CASE action.kind = "add_node_operator"
  <2>1. Seeds = Sd(System, {action.provider} \intersect known, <<action.dc>>)
    BY <1>4 DEF Seeds, DryRunSeeds
  <2>2. Listed(<<action.dc>>, {action.dc})
    BY ShortLists
  <2> HIDE DEF Sd
  <2> QED
    BY <1>4, <2>1, <2>2 DEF Seeders
<1>5. CASE action.kind = "remove_node_provider"
  <2>1. Seeds = NoSeeds \/ Seeds = Sd(SeedSubnet, {action.provider}, <<>>)
    BY <1>5 DEF Seeds, DryRunSeeds, NoSeeds
  <2>2. SeedSubnet \notin Subnets
    BY LocalRegistryAssumption
  <2> HIDE DEF Sd
  <2> QED
    BY <1>5, <2>1, <2>2, ShortLists DEF Seeders
<1>6. CASE action.kind \notin Seeders
  BY <1>6 DEF Seeds, DryRunSeeds, Seeders
<1> QED
  BY <1>2, <1>3, <1>4, <1>5, <1>6 DEF Seeders

LEMMA BatchHolds == BasicsInv /\ MirrorInv => BatchIsAccepted
<1> SUFFICES ASSUME BasicsInv, MirrorInv, pc = "start"
             PROVE  RegistryAccepts(minimalRegistryInit(AllSeeds, walk))
  BY DEF BatchIsAccepted, Batch
<1>1. /\ action \in Action /\ latest \in 1..latest /\ (pinned # 0 => pinned \in 1..latest)
      /\ \A i \in 1..latest : history[i] \in Mainnet /\ MainnetOK(history[i])
  BY HistoryIs
<1>2. ~walk.failed /\ walk.todo = NoScope /\ (pinned # 0 <=> Mirrors)
  BY DEF MirrorInv, Planned
<1>3. PICK m \in Mainnet : MainnetOK(m) /\ walk \in Walks /\ Copied(walk, m) /\ Closed(walk, m)
  <2>1. CASE pinned # 0
    BY <1>1, <1>2, <2>1 DEF MirrorInv, WalkOK
  <2>2. CASE pinned = 0
    <3>1. walk = StartWalk(NoScope) /\ NoScope \in Scope
      BY <2>2 DEF MirrorInv, NoScope, Scope
    <3>2. walk \in Walks /\ Copied(walk, history[latest]) /\ Closed(walk, history[latest])
      BY <3>1, WalkStarts, Zenon
    <3> QED
      BY <1>1, <3>2
  <2> QED
    BY <2>1, <2>2
<1>4. ASSUME NEW s, s \in Subnets => s = System, NEW P, NEW dcs, NEW D, Listed(dcs, D),
             AllSeeds = [providers |-> P, subnets |-> <<s>>, dcs |-> dcs]
      PROVE  RegistryAccepts(minimalRegistryInit(AllSeeds, walk))
  <2> DEFINE B == minimalRegistryInit([providers |-> P, subnets |-> <<s>>, dcs |-> dcs], walk)
  <2>1. Table(B, Planted(s, P, D, walk, m))
    BY <1>3, <1>4, BatchTable
  <2> HIDE DEF B
  <2>2. RegistryAccepts(B)
    BY <1>2, <1>3, <1>4, <2>1, Accepted
  <2> QED
    BY <1>4, <2>2, Zenon DEF B
<1>5. CASE Mirrors
  <2>1. action.kind \notin Seeders
    BY <1>1, <1>3, <1>5, ScopeIs DEF Mirrors
  <2>2. Seeds = NoSeeds
    BY <1>1, <2>1, SeedsAre
  <2>3. AllSeeds = [providers |-> {}, subnets |-> <<System>>, dcs |-> <<>>]
    <3>1. AllSeeds = [NoSeeds EXCEPT !.subnets = Append(@, System)]
      BY <1>5, <2>2, Zenon DEF AllSeeds
    <3>2. Append(<<>>, System) = <<System>>
      OBVIOUS
    <3> QED
      BY <3>1, <3>2 DEF NoSeeds
  <2> QED
    BY <1>4, <2>3, ShortLists
<1>6. CASE ~Mirrors /\ Seeds = NoSeeds
  <2>1. minimalRegistryInit(AllSeeds, walk) = <<>>
    BY <1>2, <1>6, NothingPlanted, Zenon DEF AllSeeds, MirrorInv
  <2>2. RegistryAccepts(<<>>)
    BY DEF RegistryAccepts
  <2> QED
    BY <2>1, <2>2, Zenon
<1>7. CASE ~Mirrors /\ Seeds # NoSeeds
  <2>1. PICK s, P, dcs, D : /\ s \in Subnets => s = System
                            /\ Listed(dcs, D)
                            /\ Seeds = [providers |-> P, subnets |-> <<s>>, dcs |-> dcs]
    BY <1>1, <1>7, SeedsAre
  <2>2. AllSeeds = [providers |-> P, subnets |-> <<s>>, dcs |-> dcs]
    BY <1>7, <2>1 DEF AllSeeds
  <2> QED
    BY <1>4, <2>1, <2>2
<1> QED
  BY <1>5, <1>6, <1>7

\* A walk has the type the state declares, and its mutations its keys.
LEMMA WalkTyped ==
  ASSUME NEW m, NEW w \in Walks, Copied(w, m)
  PROVE  w.todo \in Scope /\ w.seen \subseteq RecordKey /\ Keys(w.out) = w.seen
<1> DEFINE M == {Insert(k, value(m, k)) : k \in w.seen}
<1>1. Listed(w.out, M)
  BY MirrorTable DEF Table
<1>2. \A k \in w.seen : Insert(k, value(m, k)).key = k
  BY InsertIs
<1>3. {e.key : e \in M} = w.seen
  BY <1>2
<1> HIDE DEF M
<1>4. Keys(w.out) = w.seen
  BY <1>1, <1>3, KeysAre
<1> QED
  BY <1>4, ScopeParts

\* The types of what surrounds a call.
PortTypes ==
  /\ server \in {"none", "running", "dead"}
  /\ portFile \in {"absent", "half", "full"}
  /\ base \in {"unset", "half", "full"}
  /\ busy \in BOOLEAN

LEMMA PortTypesKept == PortTypes /\ [Next]_vars => PortTypes'
<1> SUFFICES ASSUME PortTypes, [Next]_vars PROVE PortTypes'
  OBVIOUS
<1>1. ASSUME UNCHANGED <<server, portFile, base, busy>> PROVE PortTypes'
  BY <1>1 DEF PortTypes
<1>2. CASE UNCHANGED vars
  BY <1>2, <1>1 DEF vars, pvars
<1>3. CASE MainnetMoves \/ ReadFails \/ StartFails \/ ExecuteLocally
  BY <1>3, <1>1 DEF MainnetMoves, ReadFails, StartFails, ExecuteLocally, pvars
<1>4. CASE InCall \/ DeadlineNears
  BY <1>4, <1>1
  DEF InCall, DeadlineNears, TimePasses, Roundtrip, Unanswered, AnswerLost, PostDone,
      PostStarted, PostBusy, Poll
<1>5. CASE ServerStep
  <2>1. CASE WritePort
    BY <2>1 DEF WritePort, PortTypes
  <2>2. CASE ServerExits
    BY <2>2 DEF ServerExits, PortTypes
  <2>3. CASE OthersCompute
    <3>1. busy' \in BOOLEAN
      BY <2>3 DEF OthersCompute
    <3> QED
      BY <2>3, <3>1 DEF OthersCompute, PortTypes
  <2>4. CASE AnswerLost \/ Resolve
    BY <2>4, <1>1 DEF AnswerLost, Resolve
  <2> QED
    BY <1>5, <2>1, <2>2, <2>3, <2>4 DEF ServerStep, Environment
<1>6. CASE Command
  <2>1. CASE FetchSeeds \/ PinVersion \/ NothingToMirror \/ Walk \/ WalkEnds
    BY <2>1, <1>1 DEF FetchSeeds, PinVersion, NothingToMirror, Walk, WalkEnds, pvars
  <2>2. CASE StartServer \/ PortNotFound \/ CloseServer
    BY <2>2 DEF StartServer, Spawn, PortNotFound, PortWaitEnds, CloseServer, Close, PortTypes
  <2>3. CASE PortFound
    BY <2>3 DEF PortFound, PortRead, PortIsWritten, PortTypes
  <2>4. CASE CallOpens \/ CallReturns \/ CallFails
    BY <2>4, <1>1 DEF CallOpens, Open, CallReturns, CallFails
  <2> QED
    BY <1>6, <2>1, <2>2, <2>3, <2>4 DEF Command
<1> QED
  BY <1>2, <1>3, <1>4, <1>5, <1>6 DEF Next

LEMMA TypeHolds == DryInv /\ PortTypes => TypeOK
<1> SUFFICES ASSUME DryInv, PortTypes PROVE TypeOK
  OBVIOUS
<1>1. BasicsInv /\ MirrorInv /\ CallInv
  BY DEF DryInv
<1>2. latest \in 1..Len(history) /\ pinned \in 0..latest /\ Len(history) \in Nat
  BY <1>1, HistoryIs, MainnetsAre
<1>3. walk.todo \in Scope /\ walk.seen \subseteq RecordKey /\ Keys(walk.out) = walk.seen
  <2>1. \E m : walk \in Walks /\ Copied(walk, m)
    <3>1. CASE pinned # 0
      BY <1>1, <3>1 DEF MirrorInv, WalkOK
    <3>2. CASE pinned = 0
      <4>1. walk = StartWalk(NoScope) /\ NoScope \in Scope
        BY <1>1, <3>2 DEF MirrorInv, NoScope, Scope
      <4>2. walk \in Walks /\ Copied(walk, None)
        BY <4>1, WalkStarts, Zenon
      <4> QED
        BY <4>2
    <3> QED
      BY <3>1, <3>2
  <2> QED
    BY <2>1, WalkTyped
<1>4. PTypeOK
  BY <1>1 DEF PTypeOK, PortTypes, CallInv
<1> QED
  BY <1>1, <1>2, <1>3, <1>4 DEF TypeOK, BasicsInv

-----------------------------------------------------------------------------
\* The inductive invariant of the dry run.
THEOREM DryInvHolds == Spec => [](DryInv /\ PortTypes)
<1>1. Init => PortTypes
  BY DEF Init, PInit, PortTypes
<1> QED
  BY <1>1, DryInit, DryKept, PortTypesKept, PTL DEF Spec

(***************************************************************************)
(* The state a dry run keeps has its type: in particular the walk copies   *)
(* only keys of the registry, and marks exactly the keys it copied         *)
(* (copyKey).                                                              *)
(***************************************************************************)
THEOREM TypeCorrect == Spec => []TypeOK
  BY DryInvHolds, TypeHolds, PTL

(***************************************************************************)
(* A mirror fails only for a proposal that names what mainnet did not      *)
(* hold: with every read at one version, whatever one record refers to is  *)
(* there when its own record is read (newMainnetRegistry, buildMirror).    *)
(***************************************************************************)
THEOREM SoundTargetsAreMirrored == Spec => []SoundTargetIsMirrored
<1>1. DryInv => SoundTargetIsMirrored
  BY SoundHolds DEF DryInv
<1> QED
  BY <1>1, DryInvHolds, PTL

(***************************************************************************)
(* The registry canister accepts the batch of every dry run: the mirror is *)
(* closed under what its records refer to, the fabricated records beside   *)
(* it are too, and no key is inserted twice (buildMirror, seedMutations,   *)
(* mirrorPrecedence).                                                      *)
(***************************************************************************)
THEOREM BatchesAreAccepted == Spec => []BatchIsAccepted
<1>1. DryInv => BatchIsAccepted
  BY BatchHolds DEF DryInv
<1> QED
  BY <1>1, DryInvHolds, PTL

(***************************************************************************)
(* A dry run that succeeds means mainnet held what the proposal names:     *)
(* every root of the scope was copied, and governance checked the provider *)
(* against the ones mainnet reported (MirrorScope, DryRunSeeds).           *)
(***************************************************************************)
THEOREM OkIsResolved == Spec => []OkMeansResolved
<1>1. DryInv => OkMeansResolved
  BY OkHolds DEF DryInv
<1> QED
  BY <1>1, DryInvHolds, PTL

(***************************************************************************)
(* The server runs a call at most once, and the answer a call returns is   *)
(* the one of that execution (Client.do, pollGraph).                       *)
(***************************************************************************)
THEOREM CallsRunAtMostOnce == Spec => []CallsRunOnce
<1>1. CallInv => CallsRunOnce
  BY DEF CallInv, CallsRunOnce
<1> QED
  BY <1>1, InitInv, CallInvInductive, PTL DEF Spec

(***************************************************************************)
(* When a dry run is over its server is not running (Start, Close).        *)
(***************************************************************************)
THEOREM ServerIsStopped == Spec => []NoServerLeftBehind
<1>1. ServerInv => NoServerLeftBehind
  BY DEF ServerInv, NoServerLeftBehind
<1> QED
  BY <1>1, InitInv, ServerInvInductive, PTL DEF Spec
=============================================================================
