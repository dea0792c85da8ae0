------------------------------- MODULE DryRun -------------------------------
(***************************************************************************)
(* The dry run of one proposal: read the providers and the records the     *)
(* proposal needs from mainnet, spawn a PocketIC server, install registry, *)
(* root and governance on it, submit the very same action, read the        *)
(* proposal back and stop the server.  Mainnet's registry moves on while   *)
(* the records are read.                                                   *)
(***************************************************************************)
EXTENDS LocalRegistry, PocketIC

CONSTANTS
  Actions,    \* the proposals to rehearse
  Histories   \* what mainnet goes through: a sequence of mainnets each

\* What the payload of each kind that reads or seeds the registry names.
Action ==
  [kind : {"membership"}, subnet : Subnets, add : SUBSET Nodes, remove : SUBSET Nodes]
    \union [kind : {"deploy_guestos"}, subnet : Subnets, version : Versions, traps : BOOLEAN]
    \union [kind : {"update_subnet"}, subnet : Subnets, traps : BOOLEAN]
    \union [kind : {"remove_nodes"}, nodes : SUBSET Nodes]
    \union [kind : {"remove_node_operators"}, operators : SUBSET Operators]
    \union [kind : {"add_data_centers"}]
    \union [kind : {"add_node_provider", "remove_node_provider"}, provider : Providers]
    \union [kind : {"add_node_operator"}, provider : Providers, dc : Dcs]

ASSUME DryRunAssumption ==
  /\ Actions \subseteq Action
  /\ \A h \in Histories : /\ h \in Seq(Mainnet) /\ h # <<>>
                         /\ \A i \in DOMAIN h : MainnetOK(h[i])

VARIABLES
  action,    \* the proposal
  history,   \* mainnet's registry, version by version
  latest,    \* the version it is at
  pc,
  known,     \* the providers mainnet's governance reported
  pinned,    \* the registry version the mirror reads, 0 before it is taken
  walk,      \* the mirror under construction
  at,        \* how many of the calls returned
  local,     \* the proposal on the local NNS
  result     \* what dryRun returns

dvars == <<action, history, latest, pc, known, pinned, walk, at, local, result>>
vars == <<dvars, pvars>>

Update(what) == <<[what |-> what, await |-> FALSE], [what |-> what, await |-> TRUE]>>
Direct(what) == <<[what |-> what, await |-> TRUE]>>

\* dryRun's and BringUpWith's calls, in order; an update is submitted first
\* and awaited second.
Script ==
  Direct("instance")
    \o Update("create") \o Update("install_registry")
    \o Update("create") \o Update("install_root")
    \o Update("create") \o Update("install_governance")
    \o Direct("set_time") \o Direct("auto_progress")
    \o Update("manage_neuron") \o Direct("get_proposal_info")

TypeOK ==
  /\ action \in Actions /\ history \in Histories /\ latest \in DOMAIN history
  /\ pc \in {"seeds", "pin", "walk", "start", "port", "calls", "close", "done"}
  /\ known \subseteq Providers
  /\ pinned \in 0..Len(history)
  /\ walk.todo \in Scope /\ walk.seen \subseteq RecordKey
  /\ Keys(walk.out) = walk.seen
  /\ at \in 0..Len(Script)
  /\ local \in {"none", "open", "executed", "failed"}
  /\ result \in {"none", "ok", "error"}
  /\ PTypeOK

Init ==
  /\ action \in Actions /\ history \in Histories /\ latest = 1
  /\ pc = "seeds" /\ known = {} /\ pinned = 0 /\ walk = StartWalk(NoScope)
  /\ at = 0 /\ local = "none" /\ result = "none"
  /\ PInit

-----------------------------------------------------------------------------
(***************************************************************************)
(* What the dry run reads from mainnet.                                    *)
(***************************************************************************)

\* The NNS executes proposals of its own while the dry run reads.
MainnetMoves ==
  /\ pc \in {"seeds", "pin", "walk"} /\ latest < Len(history)
  /\ latest' = latest + 1
  /\ UNCHANGED <<action, history, pc, known, pinned, walk, at, local, result, pvars>>

Seeders == {"add_data_centers", "add_node_provider", "add_node_operator",
            "remove_node_provider"}

Seeds == DryRunSeeds(action, known)

\* dryRunMirror: the system subnet rides along with any mirror.
Mirrors == MirrorScope(action) # NoScope
AllSeeds ==
  IF Mirrors THEN [Seeds EXCEPT !.subnets = Append(@, System)] ELSE Seeds

Batch == minimalRegistryInit(AllSeeds, walk)

\* dryRunSeeds: the providers are read for a kind that seeds, else nothing is.
FetchSeeds ==
  /\ pc = "seeds" /\ pc' = "pin"
  /\ known' = IF action.kind \in Seeders THEN history[latest].providers ELSE {}
  /\ UNCHANGED <<action, history, latest, pinned, walk, at, local, result, pvars>>

\* newMainnetRegistry: one version for every read that follows.
PinVersion ==
  /\ pc = "pin" /\ Mirrors
  /\ pinned' = latest /\ walk' = StartWalk(MirrorScope(action)) /\ pc' = "walk"
  /\ UNCHANGED <<action, history, latest, known, at, local, result, pvars>>

NothingToMirror ==
  /\ pc = "pin" /\ ~Mirrors /\ pc' = "start"
  /\ UNCHANGED <<action, history, latest, known, pinned, walk, at, local, result, pvars>>

\* A mistake: each read is of the latest version.
ReadLatest == latest

\* value: the version every read of the walk names.
ReadVersion == pinned

WalkDone == walk.failed \/ walk.todo = NoScope

Walk ==
  /\ pc = "walk" /\ ~WalkDone
  /\ walk' = WalkOne(walk, history[ReadVersion])
  /\ UNCHANGED <<action, history, latest, pc, known, pinned, at, local, result, pvars>>

Fail(to) == pc' = to /\ result' = "error"

WalkEnds ==
  /\ pc = "walk" /\ WalkDone
  /\ IF walk.failed THEN Fail("done") ELSE pc' = "start" /\ UNCHANGED result
  /\ UNCHANGED <<action, history, latest, known, pinned, walk, at, local, pvars>>

\* A read that fails ends the dry run before anything was spawned.
ReadFails ==
  /\ pc \in {"seeds", "pin", "walk"} /\ Fail("done")
  /\ UNCHANGED <<action, history, latest, known, pinned, walk, at, local, pvars>>

-----------------------------------------------------------------------------
(***************************************************************************)
(* The server and the calls.                                               *)
(***************************************************************************)

StartServer ==
  /\ pc = "start" /\ pc' = "port" /\ Spawn
  /\ UNCHANGED <<action, history, latest, known, pinned, walk, at, local, result>>

\* checkVersion, or the binary does not start.
StartFails ==
  /\ pc = "start" /\ Fail("done")
  /\ UNCHANGED <<action, history, latest, known, pinned, walk, at, local, pvars>>

PortFound ==
  /\ pc = "port" /\ PortRead /\ pc' = "calls"
  /\ UNCHANGED <<action, history, latest, known, pinned, walk, at, local, result>>

PortNotFound ==
  /\ pc = "port" /\ PortWaitEnds /\ Fail("done")
  /\ UNCHANGED <<action, history, latest, known, pinned, walk, at, local>>

\* Governance's checks at submission, on the providers it was given.
GovernanceRejects ==
  \/ action.kind = "add_node_provider" /\ action.provider \in Seeds.providers
  \/ action.kind \in {"remove_node_provider", "add_node_operator"}
       /\ action.provider \notin Seeds.providers

\* The canisters' verdict on the call that was answered.
CanisterRejects ==
  LET c == Script[at + 1]
  IN \/ c.await /\ c.what = "install_registry"
          /\ \E batch \in {Batch} : ~RegistryAccepts(batch)
     \/ c.await /\ c.what = "manage_neuron" /\ GovernanceRejects

\* SubmitAs: the proposal is on the local NNS, adopted by its own neuron.
Submitted == Script[at + 1] = [what |-> "manage_neuron", await |-> TRUE]

\* What the registry refuses at execution, when the proposal is adopted: to
\* disable sev_enabled, a version without measurements, a chip id missing.
Traps == action.kind \in {"update_subnet", "deploy_guestos"} /\ action.traps

\* The instance progresses by itself and executes what was adopted; what it
\* executes after the proposal was read back no one sees.
ExecuteLocally ==
  /\ local = "open" /\ server = "running" /\ pc = "calls"
  /\ local' = IF Traps THEN "failed" ELSE "executed"
  /\ UNCHANGED <<action, history, latest, pc, known, pinned, walk, at, result, pvars>>

CallOpens ==
  /\ pc = "calls" /\ call.phase = "idle" /\ Open
  /\ UNCHANGED dvars

\* unwrapResult: an answer that is a rejection ends the dry run, an answer
\* that is one moves it on.
CallReturns ==
  /\ pc = "calls" /\ call.phase = "answered" /\ call' = Idle
  /\ IF CanisterRejects THEN Fail("close") /\ UNCHANGED <<at, local>>
     ELSE /\ at' = at + 1 /\ local' = IF Submitted THEN "open" ELSE local
          /\ IF at + 1 = Len(Script) THEN pc' = "close" /\ result' = "ok"
             ELSE UNCHANGED <<pc, result>>
  /\ UNCHANGED <<action, history, latest, known, pinned, walk,
                 server, portFile, base, busy>>

CallFails ==
  /\ pc = "calls" /\ call.phase = "failed" /\ Fail("close") /\ call' = Idle
  /\ UNCHANGED <<action, history, latest, known, pinned, walk, at, local,
                 server, portFile, base, busy>>

\* The deferred Close, on every path once Start succeeded.
CloseServer ==
  /\ pc = "close" /\ pc' = "done" /\ Close
  /\ UNCHANGED <<action, history, latest, known, pinned, walk, at, local, result>>

-----------------------------------------------------------------------------

InCall == Roundtrip /\ UNCHANGED dvars

\* What dryRun does by itself; the rest is up to mainnet and the server.
Command ==
  \/ FetchSeeds \/ PinVersion \/ NothingToMirror \/ Walk \/ WalkEnds
  \/ StartServer \/ PortFound \/ PortNotFound
  \/ CallOpens \/ CallReturns \/ CallFails \/ CloseServer

ServerStep == Environment /\ pc # "done" /\ UNCHANGED dvars

DeadlineNears == TimePasses /\ UNCHANGED dvars

Next ==
  \/ Command \/ InCall \/ DeadlineNears
  \/ MainnetMoves \/ ReadFails \/ StartFails \/ ServerStep \/ ExecuteLocally

Fairness == WF_vars(Command) /\ WF_vars(InCall) /\ WF_vars(DeadlineNears)

Spec == Init /\ [][Next]_vars /\ Fairness

-----------------------------------------------------------------------------
(***************************************************************************)
(* Properties.                                                             *)
(***************************************************************************)

\* The registry accepts what the dry run plants: the mirror is closed, no key
\* is inserted twice, subnet_list names each subnet once.  Else a dry run of a
\* sound proposal fails and stops its submission (buildMirror, seedMutations,
\* mirrorPrecedence).
BatchIsAccepted ==
  pc = "start" => \A batch \in {Batch} : RegistryAccepts(batch)

\* What the payload names, on a mainnet.
Resolves(a, m) ==
  CASE a.kind = "membership" ->
         a.subnet \in Present(m.subnets) /\ (a.add \union a.remove) \subseteq Present(m.nodes)
    [] a.kind = "deploy_guestos" ->
         a.subnet \in Present(m.subnets) /\ a.version \in m.versions
    [] a.kind = "update_subnet" -> a.subnet \in Present(m.subnets)
    [] a.kind = "remove_nodes" -> a.nodes \subseteq Present(m.nodes)
    [] a.kind = "remove_node_operators" -> a.operators \subseteq Present(m.operators)
    [] a.kind = "add_node_provider" -> a.provider \notin m.providers
    [] a.kind \in {"remove_node_provider", "add_node_operator"} -> a.provider \in m.providers
    [] OTHER -> TRUE

\* The mirror fails only for a proposal that names what mainnet, at some moment
\* of the run, did not hold: whatever mainnet does between two of its reads, a
\* node, operator or version that one record refers to is there when its own
\* record is read (newMainnetRegistry, buildMirror).
SoundTargetIsMirrored ==
  walk.failed => \E i \in 1..latest : ~Resolves(action, history[i])

\* A dry run that succeeds means mainnet, at some moment of the run, held what
\* the proposal names: the local registry and governance never make up the
\* entity the proposal is about (MirrorScope, DryRunSeeds).
OkMeansResolved ==
  result = "ok" => \E i \in 1..latest : Resolves(action, history[i])

\* What updateSubnetPreflight's comment says of a change the registry refuses:
\* "the dry-run then fails hard on it" (plan_update_subnet.go).
RefusedChangeFailsDryRun == result = "ok" => local # "failed"

\* However the dry run ends, its server is not left running (Start's Kill on a
\* port that never came, the deferred Close).
NoServerLeftBehind == pc = "done" => server # "running"

\* A dry run ends: a busy instance, an operation that never resolves and a
\* server that died all run into a deadline (do, pollGraph, waitPort).
Terminates == <>(pc = "done")
=============================================================================
