----------------------------- MODULE Preflight -----------------------------
(***************************************************************************)
(* The preflight that plan and apply run before a proposal is submitted:   *)
(* what each kind of proposal reads of the live records, how the planners  *)
(* grade it, and what the gate does with the verdict.  A behaviour is one  *)
(* command.  Its reads are separate calls, so other proposals may execute  *)
(* between them, and between the verdict and the execution: MaxMoves of    *)
(* them.                                                                   *)
(***************************************************************************)
EXTENDS Registry, Sequences

CONSTANT MaxMoves

ASSUME MaxMovesAssumption == MaxMoves \in Nat

VARIABLES pc, job
vars == <<reg, pc, job>>

Level == {"unknown", "clean", "warn", "noop"}

SubnetRecord == [members : SUBSET Nodes, version : Versions, sev : BOOLEAN,
                 setting : Settings]

\* What the fetchers returned so far; where nothing was read, Go's zero value.
Seen ==
  [subnet : SubnetRecord \union {NoRecord},
   elected : BOOLEAN, measured : Optional(BOOLEAN), unverified : BOOLEAN,
   chipless : SUBSET Nodes, undecided : SUBSET Nodes,
   registered : SUBSET Nodes, owners : SUBSET Operators,
   heirs : SUBSET Operators, dcs : SUBSET Dcs,
   operatorExists : BOOLEAN, providers : SUBSET Providers]

NothingSeen ==
  [subnet |-> NoRecord,
   elected |-> FALSE, measured |-> {}, unverified |-> FALSE,
   chipless |-> {}, undecided |-> {}, registered |-> {}, owners |-> {},
   heirs |-> {}, dcs |-> {}, operatorExists |-> FALSE, providers |-> {}]

Read == {"subnet", "chips", "version", "nodes", "owners", "heirs", "dcs",
         "operator", "providers"}

\* The fetches of a kind's Preflight, in order.
Reads(kind) ==
  CASE kind = "membership" -> <<"subnet", "chips">>
    [] kind = "deploy_guestos" -> <<"subnet", "version">>
    [] kind = "update_subnet" -> <<"subnet">>
    [] kind = "remove_nodes" -> <<"nodes">>
    [] kind = "remove_node_operators" -> <<"owners">>
    [] kind = "remove_node_provider" -> <<"heirs">>
    [] kind = "add_data_centers" -> <<"dcs">>
    [] kind = "add_node_provider" -> <<"providers">>
    [] kind = "add_node_operator" -> <<"dcs", "operator", "providers">>

-----------------------------------------------------------------------------
(***************************************************************************)
(* The planners: what was seen, graded.                                    *)
(***************************************************************************)

\* The declared changes that would change nothing.
NoOpAdds(a, s) == a.add \intersect s.subnet.members
NoOpRemoves(a, s) == a.remove \ s.subnet.members

\* A mistake: any warning makes the proposal a no-op.
AnyWarningIsNoOp(a, s) ==
  IF NoOpAdds(a, s) = {} /\ NoOpRemoves(a, s) = {} THEN "clean" ELSE "noop"

membershipPreflight(a, s) ==
  LET warned == NoOpAdds(a, s) # {} \/ NoOpRemoves(a, s) # {}
      allNoOp == a.add \subseteq s.subnet.members
                 /\ a.remove \intersect s.subnet.members = {}
  IN IF ~warned THEN "clean" ELSE IF allNoOp THEN "noop" ELSE "warn"

\* A mistake: only chips that could not be read are flagged.
ChiplessUnflagged(level, s) ==
  IF level = "clean" /\ s.undecided # {} THEN "warn" ELSE level

\* fold: a node without a chip, or one that could not be read, is flagged.
sevAdmission(level, s) ==
  IF level = "clean" /\ s.chipless \union s.undecided # {} THEN "warn" ELSE level

\* A mistake: the version the subnet runs is not looked at.
SameVersionUnflagged(a, s) ==
  IF ~s.unverified /\ ~s.elected THEN "noop"
  ELSE IF s.unverified THEN "warn" ELSE "clean"

planDeployGuestos(a, s) ==
  IF a.version = s.subnet.version \/ (~s.unverified /\ ~s.elected) THEN "noop"
  ELSE IF s.unverified THEN "warn" ELSE "clean"

sevLaunchGate(level, s) ==
  IF level = "clean" /\ s.subnet.sev /\ s.measured # {TRUE} THEN "warn" ELSE level

\* Turning sev_enabled off is refused by the registry, turning it on may trap.
updateSubnetPreflight(a, s) ==
  LET blocking == s.subnet.sev /\ FALSE \in a.sev
      noted == \/ ~s.subnet.sev /\ TRUE \in a.sev
               \/ EmptyList \in a.set /\ s.subnet.setting # EmptyList
      allNoOp == a.set \subseteq {s.subnet.setting} /\ a.sev \subseteq {s.subnet.sev}
  IN IF blocking THEN "warn"
     ELSE IF allNoOp THEN "noop" ELSE IF noted THEN "warn" ELSE "clean"

\* One grade for the kinds whose targets have to be in a particular state.
preconditionPreflight(blocking, issues, noop) ==
  IF ~blocking /\ ~issues THEN "clean"
  ELSE IF ~blocking /\ noop THEN "noop" ELSE "warn"

\* planCheck gives the fetchers no subnets to look in, so that no node is seen
\* to be a member.
planRemoveNodes(a, s) ==
  LET gone == a.nodes \ s.registered
  IN preconditionPreflight(FALSE, gone # {}, gone = a.nodes)

\* The explorer answers for an operator it does not know as for one without
\* nodes, so each is taken to be known.
planRemoveNodeOperators(s) == preconditionPreflight(s.owners # {}, FALSE, FALSE)

\* The query answers for an unknown provider as for one without operators, so
\* each is taken to be registered.
planRemoveNodeProvider(s) == preconditionPreflight(s.heirs # {}, FALSE, FALSE)

\* A mistake: the length of a record is not looked at.
LengthUnflagged(a, s) ==
  preconditionPreflight(a.dcs \intersect s.dcs # {}, FALSE, FALSE)

planAddDataCenters(a, s) ==
  preconditionPreflight(a.dcs \intersect (s.dcs \union TooLong) # {}, FALSE, FALSE)

planAddNodeProvider(a, s) ==
  preconditionPreflight(a.provider \in s.providers, FALSE, FALSE)

planAddNodeOperator(a, s) ==
  preconditionPreflight(
    s.operatorExists \/ a.dc \notin s.dcs \/ a.provider \notin s.providers,
    a.allowance = 0, FALSE)

Grade(a, s) ==
  CASE a.kind = "membership" -> sevAdmission(membershipPreflight(a, s), s)
    [] a.kind = "deploy_guestos" -> sevLaunchGate(planDeployGuestos(a, s), s)
    [] a.kind = "update_subnet" -> updateSubnetPreflight(a, s)
    [] a.kind = "remove_nodes" -> planRemoveNodes(a, s)
    [] a.kind = "remove_node_operators" -> planRemoveNodeOperators(s)
    [] a.kind = "remove_node_provider" -> planRemoveNodeProvider(s)
    [] a.kind = "add_data_centers" -> planAddDataCenters(a, s)
    [] a.kind = "add_node_provider" -> planAddNodeProvider(a, s)
    [] a.kind = "add_node_operator" -> planAddNodeOperator(a, s)

-----------------------------------------------------------------------------
NoJob == [action |-> NoRecord, cmd |-> "plan", force |-> FALSE, todo |-> <<>>,
          left |-> {}, seen |-> NothingSeen, level |-> "unknown", moves |-> 0]

Init == reg \in Registries /\ pc = "idle" /\ job = NoJob

\* plan has no --force, and always lets an unreadable elected set pass.
allowUnverified == job.cmd = "plan" \/ job.force

\* The ids a kind looks up one by one.
Ids(a) == CASE a.kind = "membership" -> a.add
            [] a.kind = "remove_nodes" -> a.nodes
            [] a.kind = "remove_node_operators" -> a.ops
            [] OTHER -> {}

Start(a, cmd, force) ==
  /\ pc = "idle"
  /\ cmd = "plan" => ~force
  /\ pc' = "reading"
  /\ job' = [NoJob EXCEPT !.action = a, !.cmd = cmd, !.force = force,
                          !.todo = Reads(a.kind), !.left = Ids(a)]
  /\ UNCHANGED reg

Reading(read) == pc = "reading" /\ job.todo # <<>> /\ Head(job.todo) = read

\* A fetch that is one call, or one pinned to a version, returned s.
Fetched(s) ==
  /\ job' = [job EXCEPT !.seen = s, !.todo = Tail(@)]
  /\ UNCHANGED <<reg, pc>>

\* A membership change reads chips only for a subnet it found to have SEV on.
FetchSubnet ==
  /\ Reading("subnet")
  /\ job' = [job EXCEPT
       !.seen.subnet = [members |-> reg.members, version |-> reg.version,
                        sev |-> reg.sev, setting |-> reg.setting],
       !.todo = IF job.action.kind = "membership" /\ (~reg.sev \/ job.left = {})
                THEN <<>> ELSE Tail(@)]
  /\ UNCHANGED <<reg, pc>>

\* An elected version's record is read, and decoded or not.
FetchElectedVersions(decoded) ==
  LET v == job.action.version
  IN /\ Reading("version")
     /\ Fetched([job.seen EXCEPT
          !.elected = v \in reg.elected,
          !.measured = {m \in BOOLEAN : /\ decoded /\ v \in reg.elected
                                        /\ m <=> v \in Measured}])

\* A mistake: an unreadable elected set is downgraded without --force.
AlwaysUnverified ==
  /\ Reading("version")
  /\ Fetched([job.seen EXCEPT !.unverified = TRUE])

ElectionUnreadable ==
  /\ Reading("version")
  /\ allowUnverified
  /\ Fetched([job.seen EXCEPT !.unverified = TRUE])

FetchOperators ==
  /\ Reading("heirs")
  /\ Fetched([job.seen EXCEPT !.heirs = Heirs(reg, job.action.provider)])

FetchDataCenters ==
  LET asked == IF job.action.kind = "add_data_centers"
               THEN job.action.dcs ELSE {job.action.dc}
  IN /\ Reading("dcs")
     /\ Fetched([job.seen EXCEPT !.dcs = reg.dcs \intersect asked])

FetchNodeOperatorExists ==
  /\ Reading("operator")
  /\ Fetched([job.seen EXCEPT !.operatorExists = Exists(reg, job.action.operator)])

FetchNodeProviders ==
  /\ Reading("providers")
  /\ Fetched([job.seen EXCEPT !.providers = reg.providers])

\* One of the ids of a loop was looked up.
LookedUp(id, s) ==
  /\ job' = [job EXCEPT !.seen = s, !.left = @ \ {id},
                        !.todo = IF job.left = {id} THEN Tail(@) ELSE @]
  /\ UNCHANGED <<reg, pc>>

\* A record that cannot be read leaves its node undecided, as one that does
\* not exist does.
checkSevAdmission(n, answered) ==
  /\ Reading("chips")
  /\ n \in job.left
  /\ LookedUp(n,
       CASE ~answered \/ reg.nodes[n] = NoRecord ->
              [job.seen EXCEPT !.undecided = @ \union {n}]
         [] answered /\ reg.nodes[n] # NoRecord ->
              [job.seen EXCEPT !.chipless =
                 @ \union {m \in {n} : ~reg.nodes[n].chip}])

FetchNodeStatus(n) ==
  /\ Reading("nodes")
  /\ n \in job.left
  /\ LookedUp(n, [job.seen EXCEPT
       !.registered = @ \union {m \in {n} : reg.nodes[n] # NoRecord}])

FetchOperatorNodes(o) ==
  /\ Reading("owners")
  /\ o \in job.left
  /\ LookedUp(o, [job.seen EXCEPT
       !.owners = @ \union {p \in {o} : Owned(reg, o) # {}}])

\* Any other failed fetch ends the command.
FetchFails ==
  /\ pc = "reading"
  /\ job.todo # <<>>
  /\ Head(job.todo) # "chips"
  /\ Head(job.todo) = "version" => ~allowUnverified
  /\ pc' = "failed"
  /\ UNCHANGED <<reg, job>>

\* A mistake: the gate lets everything through ungraded.
UncheckedGate ==
  /\ pc = "reading"
  /\ job.todo = <<>>
  /\ pc' = "graded"
  /\ UNCHANGED <<reg, job>>

\* plan reports the verdict; apply refuses a no-op unless it is forced.
planCheck ==
  LET level == Grade(job.action, job.seen)
  IN /\ pc = "reading"
     /\ job.todo = <<>>
     /\ job' = [job EXCEPT !.level = level]
     /\ pc' = IF job.cmd = "plan" \/ (level = "noop" /\ ~job.force)
              THEN "reported" ELSE "graded"
     /\ UNCHANGED reg

\* Without --yes, or without the operator's confirmation, apply stops here.
Confirm(yes) ==
  /\ pc = "graded"
  /\ pc' = IF yes THEN "sent" ELSE "reported"
  /\ UNCHANGED <<reg, job>>

\* The proposal is adopted and executed, or rejected.
Conclude(adopted) ==
  /\ pc = "sent"
  /\ pc' = "concluded"
  /\ reg' = IF adopted THEN Result(reg, job.action) ELSE reg
  /\ UNCHANGED job

OthersMove ==
  /\ pc \in {"reading", "graded", "sent"}
  /\ job.moves < MaxMoves
  /\ RegistryMoves
  /\ job' = [job EXCEPT !.moves = @ + 1]
  /\ UNCHANGED pc

Next ==
  \/ \E a \in Action, cmd \in {"plan", "apply"}, force \in BOOLEAN :
       Start(a, cmd, force)
  \/ FetchSubnet
  \/ \E decoded \in BOOLEAN : FetchElectedVersions(decoded)
  \/ ElectionUnreadable
  \/ FetchOperators
  \/ FetchDataCenters
  \/ FetchNodeOperatorExists
  \/ FetchNodeProviders
  \/ \E n \in Nodes, answered \in BOOLEAN : checkSevAdmission(n, answered)
  \/ \E n \in Nodes : FetchNodeStatus(n)
  \/ \E o \in Operators : FetchOperatorNodes(o)
  \/ FetchFails
  \/ planCheck
  \/ \E yes \in BOOLEAN : Confirm(yes)
  \/ \E adopted \in BOOLEAN : Conclude(adopted)
  \/ OthersMove

Spec == Init /\ [][Next]_vars

-----------------------------------------------------------------------------
Job ==
  [action : Action \union {NoRecord}, cmd : {"plan", "apply"}, force : BOOLEAN,
   todo : Seq(Read), left : SUBSET (Nodes \union Operators), seen : Seen,
   level : Level, moves : 0..MaxMoves]

\* The records and the command in progress have their types, and the command
\* has an action and has read what its verdict needs once it has one.
TypeOK ==
  /\ reg \in RegistryState
  /\ pc \in {"idle", "reading", "graded", "sent", "reported", "concluded", "failed"}
  /\ job \in Job
  /\ pc = "idle" <=> job.action = NoRecord
  /\ job.level # "unknown" <=> pc \in {"graded", "sent", "reported", "concluded"}

\* The verdict is given, and nothing has moved since the command began.
Fresh == /\ pc \in {"graded", "sent", "reported"}
         /\ job.moves = 0

\* A proposal refused as a no-op (plan.go:92, main.go:433) is one whose
\* execution would indeed leave every record as it is: an operator who has to
\* pass --force is never told so of a proposal with work to do.
NoOpChangesNothing ==
  Fresh /\ job.level = "noop" => Result(reg, job.action) = reg

\* What the fetchers never look at: whether the nodes a membership change adds
\* are registered when the subnet has SEV off, whether a node to be removed is
\* in a subnet, whether a provider to be removed is known.
Checked(a) ==
  CASE a.kind = "membership" -> \A n \in a.add : reg.nodes[n] # NoRecord
    [] a.kind = "remove_nodes" -> a.nodes \intersect reg.members = {}
    [] a.kind = "remove_node_provider" -> a.provider \in reg.providers
    [] OTHER -> TRUE

\* A proposal graded clean (plan.go:90, "nothing to flag; safe to submit") and
\* executed at once does not fail, and does all that it declares: no trap after
\* adoption, no record silently skipped, no operator left behind.
CleanTakesEffect ==
  Fresh /\ job.level = "clean" /\ Checked(job.action) =>
    ~Fails(reg, job.action) /\ Done(After(reg, job.action), job.action)

\* A proposal whose declared state already holds, such as one that has been
\* executed, is never graded clean, for the kinds whose fetchers can tell
\* (plan.go:70-73): a second apply of it is flagged whatever the state file says.
DoneIsFlagged ==
  LET a == job.action
      untold == {"remove_node_operators", "remove_node_provider"}
      empty == a.kind = "membership" /\ a.add \union a.remove = {}
  IN Fresh /\ a.kind \notin untold /\ ~empty /\ Done(reg, a) => job.level # "clean"

\* A deploy that is submitted without --force names a version that was elected:
\* an elected set that could not be read stops apply (action.go:247-251), it is
\* never mistaken for one that is empty or for one that holds the version.
SubmittedDeployIsElected ==
  pc = "sent" /\ job.moves = 0 /\ job.action.kind = "deploy_guestos" /\ ~job.force =>
    job.action.version \in reg.elected

\* Whatever moved since it was read, a proposal graded clean that does not
\* fail does all that it declares.  The exceptions are the two removals whose
\* precondition another proposal can undo without a trap: a node registered in
\* time makes the registry skip its operator (plan_removal.go:74-77), and an
\* operator added in time is orphaned.
CleanFailsLoudly ==
  LET a == job.action
      exempt == {"remove_node_operators", "remove_node_provider"}
  IN pc \in {"graded", "sent", "reported"} /\ job.level = "clean"
     /\ a.kind \notin exempt /\ ~Fails(reg, a) => Done(After(reg, a), a)

\* A node is removed only after its subnet gave it up: kinds.go:68 says of a
\* node that is still a member "remove it from its subnet first; preflight
\* checks this before the proposal is cut".
CleanRemovalIsUnassigned ==
  Fresh /\ job.action.kind = "remove_nodes" /\ job.level = "clean" =>
    job.action.nodes \intersect reg.members = {}
=============================================================================
