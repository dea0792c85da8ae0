------------------------------- MODULE Report -------------------------------
(***************************************************************************)
(* reconcile: one report on the whole inventory, pieced together from many *)
(* reads of a network that moves on between them.  The node records and    *)
(* the running versions are read by pools of goroutines, the rest one      *)
(* after the other.  An item is one thing the report compares; a row that  *)
(* is not OK flags its item.                                               *)
(***************************************************************************)
EXTENDS Resources

CONSTANTS
  Configs,    \* inventories
  Histories,  \* what the network goes through: a sequence of worlds each
  Vouched,    \* the chips AMD vouches for
  Slots       \* goroutines of a pool that read at a time: 16 in the code

ASSUME SlotsAssumption == Slots \in Nat \ {0}
\* A node names its operator by the operator's block, node_operator.<name>.id.
ASSUME ConfigsAssumption ==
  \A c \in Configs :
    c \in Inventory
      /\ \A n \in ToSet(c.nodes) : n.operator \in Optional(Ids(c.operators))
ASSUME NoneAssumption == None \notin Operators
ASSUME HistoriesAssumption ==
  \A h \in Histories : h \in Seq(World) /\ h # <<>>

VARIABLES
  config, worlds,
  now,      \* the world the network is in
  started,  \* the world it was in when the report began
  pc,
  todo,     \* what the step at hand still has to read, in order
  live,     \* FetchSubnetMembership's answer for the subnet at hand
  pool,     \* the pool of goroutines
  status,   \* nodeStatusAll's map
  owned,    \* byProvider and byOperator, one pair per answer
  lookups,  \* FetchElectedVersions' map: version, elected or not
  flagged, unelected, verdict

vars == <<config, worlds, now, started, pc, todo, live, pool, status, owned,
          lookups, flagged, unelected, verdict>>

\* queue: not started; busy: each running task's step; free: the semaphore;
\* got: the map the tasks fill; err: firstErr was set.
NoPool == [queue |-> {}, busy |-> {}, free |-> Slots, got |-> {}, err |-> FALSE]
PoolOf(ids) == [NoPool EXCEPT !.queue = ids]
PoolDone == pool.queue = {} /\ pool.busy = {}

Labels == {"load", "members", "pending", "facts", "records", "dcs",
           "providers", "operators", "chips", "versions", "elected", "done"}

TypeOK ==
  /\ config \in Configs /\ worlds \in Histories
  /\ started \in DOMAIN worlds /\ now \in started..Len(worlds)
  /\ pc \in Labels
  /\ live \subseteq Nodes
  /\ pool.queue \subseteq Nodes /\ pool.free \in 0..Slots
  /\ Cardinality({t.id : t \in pool.busy}) = Cardinality(pool.busy)
  /\ Cardinality({a.id : a \in pool.got}) = Cardinality(pool.got)
  /\ verdict \in {"none", "clean", "drift", "error"}

Init ==
  /\ config \in Configs /\ worlds \in Histories /\ now = 1 /\ started = 1
  /\ pc = "load" /\ todo = <<>> /\ live = {} /\ pool = NoPool
  /\ status = {} /\ owned = {} /\ lookups = {}
  /\ flagged = {} /\ unelected = {} /\ verdict = "none"

world == worlds[now]

-----------------------------------------------------------------------------
(***************************************************************************)
(* The classifiers: what each flags, from the answers alone.               *)
(***************************************************************************)

SubnetBlock(s) == CHOOSE b \in ToSet(config.subnets) : b.id = s

\* Reconcile: a declared node that is no live member is missing or
\* deregistered, a live member without a declaration unmanaged.
Reconcile(s, members) ==
  LET declared == {n.id : n \in {b \in ToSet(config.nodes) : b.subnet = s}}
  IN {<<"member", s, n>> : n \in (declared \ members) \union (members \ declared)}

\* A mistake: the empty fields of the live record are compared as they are.
NoDefaults(s, facts) ==
  LET b == SubnetBlock(s)
  IN IF /\ DeclaredType(b) = facts.type /\ DeclaredCostSchedule(b) = facts.schedule
        /\ b.admins = facts.admins /\ b.sev = (facts.sev = TRUE)
     THEN {} ELSE {<<"record", s>>}

\* ReconcileSubnetRecord, reconcileAdmins, ReconcileSubnetFeatures.
ReconcileSubnetRecord(s, facts) ==
  LET b == SubnetBlock(s)
      type == IF facts.type = None THEN "application" ELSE facts.type
      schedule == IF facts.schedule = None THEN "normal" ELSE facts.schedule
  IN IF /\ DeclaredType(b) = type /\ DeclaredCostSchedule(b) = schedule
        /\ b.admins = facts.admins /\ b.sev = (facts.sev = TRUE)
     THEN {} ELSE {<<"record", s>>}

\* ReconcileDataCenters, on the record's region, None when there is no record.
ReconcileDataCenter(d, region) ==
  IF region = None \/ (d.region # None /\ d.region # region)
  THEN {<<"dc", d.id>>} ELSE {}

GoneProvider(p) == \E b \in ToSet(config.providers) : b.id = p /\ b.gone

\* classifyOperator: an operator its provider owns where it is declared to.
classifyOperator(op, answers) ==
  \E o \in answers :
    /\ o.id = op.id
    /\ op.dc # None => o.dc = op.dc
    /\ \A d \in ToSet(config.dcs) :
         d.id = op.dc /\ d.region # None /\ o.region # None => d.region = o.region

Answers(kind, id) == UNION {a.got : a \in {b \in owned : b.kind = kind /\ b.id = id}}

\* ReconcileProviders: a retired operator must be gone, another one owned by
\* its provider; a provider that was not asked flags its operators.
ReconcileProviders ==
  {<<"operator", op.id>> : op \in
     {o \in ToSet(config.operators) :
        /\ o.provider # None
        /\ LET answers == Answers("provider", o.provider)
           IN IF o.gone \/ GoneProvider(o.provider)
                THEN \E a \in answers : a.id = o.id
              ELSE \/ o.provider \notin Ids(config.providers)
                   \/ ~classifyOperator(o, answers)}}

Lists(n) == {o \in Ids(config.operators) : n \in Answers("operator", o)}

\* The owner of each node, as a Go map built in map order has it: one of the
\* operators that list it.
Owners ==
  {f \in [Nodes -> Optional(Operators)] :
     \A n \in Nodes : IF Lists(n) = {} THEN f[n] = None ELSE f[n] \in Lists(n)}

\* ReconcileOperatorNodes, both ways.
ReconcileOperatorNodes(owner) ==
  LET tied == {n \in ToSet(config.nodes) : n.operator # None}
  IN {<<"owner", n.id>> : n \in {b \in tied :
        IF b.gone THEN owner[b.id] # None ELSE owner[b.id] # b.operator}}
     \union {<<"unmanaged", owner[n], n>> : n \in
        {m \in Nodes : owner[m] # None /\ m \notin {b.id : b \in tied}}}

\* A mistake: no owner among the declared operators is taken for gone.
ListsProveAbsence == {}

\* ApplyNodeStatus: a decommissioned node must have no record either.
ApplyNodeStatus ==
  {<<"owner", n.id>> : n \in {b \in ToSet(config.nodes) :
     /\ b.operator # None /\ b.gone
     /\ \E a \in status : a.id = b.id /\ a.got # None}}

\* ReconcileNodeSev and ApplyChipVerification: a node with a record carries
\* the declared chip, and AMD does not refuse it.
ReconcileNodeSev(refused) ==
  {<<"chip", n.id>> : n \in {b \in ToSet(config.nodes) :
     /\ ~b.gone
     /\ \E a \in status : a.id = b.id /\ a.got # None
          /\ (a.got.chip # b.chip \/ a.got.chip \in refused)}}

\* ReconcileNodeVersionsElected: a version that was read and is not the
\* expected one.  That the NNS has not elected the expected one is only noted.
ReconcileNodeVersions(got) ==
  {<<"version", n.id>> : n \in {b \in VersionCheckedNodes(config) :
     \E a \in got : a.id = b.id /\ a.got \notin {None, ExpectedVersion(config, b)}}}

Unelected ==
  {n.id : n \in {b \in VersionCheckedNodes(config) :
     <<ExpectedVersion(config, b), FALSE>> \in lookups}}

-----------------------------------------------------------------------------
(***************************************************************************)
(* The pools.                                                              *)
(***************************************************************************)

Same == UNCHANGED <<config, worlds, now, started>>
Found == <<status, owned, lookups, flagged, unelected, verdict>>
InPool == Same /\ UNCHANGED <<pc, todo, live, Found>>

\* A mistake: a task that runs still waits to be started.
TakeTwice(id) ==
  /\ id \in pool.queue /\ pool.free > 0
  /\ pool' = [pool EXCEPT !.free = @ - 1,
                          !.busy = @ \union {[id |-> id, step |-> "record"]}]
  /\ InPool

Take(id) ==
  /\ id \in pool.queue /\ pool.free > 0
  /\ pool' = [pool EXCEPT !.queue = @ \ {id}, !.free = @ - 1,
                          !.busy = @ \union {[id |-> id, step |-> "record"]}]
  /\ InPool

Finished(t) == [pool EXCEPT !.busy = @ \ {t}, !.free = @ + 1]

Answer(t, got, direct) ==
  [Finished(t) EXCEPT !.got = @ \union {[id |-> t.id, got |-> got, direct |-> direct]}]

\* fetchNodeStatus: one record, None when the node is not registered.
RecordRead(t) ==
  /\ pc \in {"pending", "records"}
  /\ pool' = Answer(t, world.nodes[t.id], TRUE)
  /\ InPool

\* A mistake: the early return on an error keeps its slot.
SlotIsLost(t) ==
  /\ pc \in {"pending", "records"}
  /\ pool' = [Finished(t) EXCEPT !.err = TRUE, !.free = pool.free]
  /\ InPool

RecordFails(t) ==
  /\ pc \in {"pending", "records"}
  /\ pool' = [Finished(t) EXCEPT !.err = TRUE]
  /\ InPool

\* nodeVersions: the record for the endpoint, the node itself, and the
\* dashboard if the node does not answer.  A failure stays on the row.
Endpoint(t) ==
  /\ pc = "versions" /\ t.step = "record" /\ Registered(world, t.id)
  /\ pool' = [pool EXCEPT !.busy = (@ \ {t}) \union {[t EXCEPT !.step = "node"]}]
  /\ InPool

NodeAnswers(t) ==
  /\ pc = "versions" /\ t.step = "node" /\ world.running[t.id] # None
  /\ pool' = Answer(t, world.running[t.id], TRUE)
  /\ InPool

NodeUnreachable(t) ==
  /\ pc = "versions" /\ t.step = "node"
  /\ pool' = [pool EXCEPT !.busy = (@ \ {t}) \union {[t EXCEPT !.step = "dashboard"]}]
  /\ InPool

\* The dashboard may lag: it reports what the node ran at some moment so far.
DashboardAnswers(t) ==
  /\ pc = "versions" /\ t.step = "dashboard"
  /\ \E k \in 1..now : worlds[k].running[t.id] # None
                       /\ pool' = Answer(t, worlds[k].running[t.id], FALSE)
  /\ InPool

VersionUnread(t) ==
  /\ pc = "versions" /\ t.step \in {"record", "dashboard"}
  /\ pool' = Answer(t, None, TRUE)
  /\ InPool

Task ==
  \/ \E id \in pool.queue : Take(id)
  \/ \E t \in pool.busy :
       \/ RecordRead(t) \/ RecordFails(t) \/ Endpoint(t) \/ NodeAnswers(t)
       \/ NodeUnreachable(t) \/ DashboardAnswers(t) \/ VersionUnread(t)

-----------------------------------------------------------------------------
(***************************************************************************)
(* The report.                                                             *)
(***************************************************************************)

IdsInOrder(blocks) == [i \in DOMAIN blocks |-> blocks[i].id]

Stop(v) == pc' = "done" /\ verdict' = v
Error == Stop("error") /\ UNCHANGED <<todo, live, pool, status, owned, lookups,
                                      flagged, unelected>>

\* LoadConfig, and the early return when there is nothing to report on.
Load ==
  /\ pc = "load" /\ started' = now /\ UNCHANGED <<config, worlds, now>>
  /\ UNCHANGED <<live, pool, status, owned, lookups, flagged, unelected>>
  /\ IF ~Loads(config) THEN Stop("error") /\ UNCHANGED todo
     ELSE IF config.subnets = <<>> /\ config.providers = <<>> /\ config.nodes = <<>>
       THEN Stop("clean") /\ UNCHANGED todo
     ELSE /\ pc' = "members" /\ todo' = IdsInOrder(config.subnets)
          /\ UNCHANGED verdict

\* FetchSubnetMembership, then the records of the declared nodes it lacks.
ReadMembers ==
  /\ pc = "members" /\ todo # <<>> /\ pc' = "pending"
  /\ live' = world.members[Head(todo)]
  /\ pool' = PoolOf({n.id : n \in {b \in ToSet(config.nodes) : b.subnet = Head(todo)}}
                      \ live')
  /\ Same /\ UNCHANGED <<todo, Found>>

\* A mistake: wg.Wait's map is used whatever firstErr says.
PartialMap == FALSE

PoolFailed == pool.err

PendingEnds ==
  /\ pc = "pending" /\ PoolDone /\ Same
  /\ IF PoolFailed THEN Error
     ELSE /\ pc' = "facts" /\ flagged' = flagged \union Reconcile(Head(todo), live)
          /\ UNCHANGED <<todo, live, pool, status, owned, lookups, unelected, verdict>>

\* FetchSubnetRecordFacts
ReadFacts ==
  /\ pc = "facts" /\ pc' = "members" /\ todo' = Tail(todo)
  /\ flagged' = flagged
       \union ReconcileSubnetRecord(Head(todo), world.facts[Head(todo)])
  /\ Same /\ UNCHANGED <<live, pool, status, owned, lookups, unelected, verdict>>

\* nodeStatusAll, the decommissioned nodes included.
SubnetsEnd ==
  /\ pc = "members" /\ todo = <<>> /\ pc' = "records"
  /\ pool' = PoolOf(Ids(config.nodes))
  /\ Same /\ UNCHANGED <<todo, live, Found>>

RecordsEnd ==
  /\ pc = "records" /\ PoolDone /\ Same
  /\ IF PoolFailed THEN Error
     ELSE /\ pc' = "dcs" /\ status' = pool.got
          /\ UNCHANGED <<todo, live, pool, owned, lookups, flagged, unelected, verdict>>

\* FetchDataCenters reads all of them at one registry version.  The providers
\* are next, and without a provider the operators are skipped too.
ReadDataCenters ==
  /\ pc = "dcs"
  /\ flagged' = flagged \union
       UNION {ReconcileDataCenter(d, world.dcs[d.id]) : d \in ToSet(config.dcs)}
  /\ IF config.providers = <<>> THEN pc' = "chips" /\ UNCHANGED todo
     ELSE pc' = "providers" /\ todo' = IdsInOrder(config.providers)
  /\ Same /\ UNCHANGED <<live, pool, status, owned, lookups, unelected, verdict>>

Add(kind, id, got) == owned' = owned \union {[kind |-> kind, id |-> id, got |-> got]}

\* providerOperators, one query per provider.
ReadProvider ==
  /\ pc = "providers" /\ todo # <<>> /\ todo' = Tail(todo)
  /\ Add("provider", Head(todo), OwnedBy(world, Head(todo)))
  /\ Same /\ UNCHANGED <<pc, live, pool, status, lookups, flagged, unelected, verdict>>

ProvidersEnd ==
  /\ pc = "providers" /\ todo = <<>> /\ pc' = "operators"
  /\ todo' = IdsInOrder(config.operators)
  /\ flagged' = flagged \union ReconcileProviders
  /\ Same /\ UNCHANGED <<live, pool, status, owned, lookups, unelected, verdict>>

\* operatorNodes, one query per operator.
ReadOperator ==
  /\ pc = "operators" /\ todo # <<>> /\ todo' = Tail(todo)
  /\ Add("operator", Head(todo), NodesOf(world, Head(todo)))
  /\ Same /\ UNCHANGED <<pc, live, pool, status, lookups, flagged, unelected, verdict>>

OperatorsEnd ==
  /\ pc = "operators" /\ todo = <<>> /\ pc' = "chips"
  /\ \E owner \in Owners :
       flagged' = flagged \union ReconcileOperatorNodes(owner) \union ApplyNodeStatus
  /\ Same /\ UNCHANGED <<todo, live, pool, status, owned, lookups, unelected, verdict>>

\* verifyChips, then nodeVersions starts.  AMD may refuse a chip it does not
\* vouch for, and may leave any question open.
CheckChips ==
  /\ pc = "chips" /\ pc' = "versions"
  /\ \E refused \in SUBSET (ChipIds \ Vouched) :
       flagged' = flagged \union ReconcileNodeSev(refused)
  /\ pool' = PoolOf({n.id : n \in VersionCheckedNodes(config)})
  /\ Same /\ UNCHANGED <<todo, live, status, owned, lookups, unelected, verdict>>

VersionsEnd ==
  /\ pc = "versions" /\ PoolDone /\ pc' = "elected"
  /\ flagged' = flagged \union ReconcileNodeVersions(pool.got)
  /\ todo' = SetToSeq({ExpectedVersion(config, n) : n \in VersionCheckedNodes(config)})
  /\ Same /\ UNCHANGED <<live, pool, status, owned, lookups, unelected, verdict>>

\* FetchElectedVersions, one record per version.
ReadElected ==
  /\ pc = "elected" /\ todo # <<>> /\ todo' = Tail(todo)
  /\ lookups' = lookups \union {<<Head(todo), Head(todo) \in world.elected>>}
  /\ Same /\ UNCHANGED <<pc, live, pool, status, owned, flagged, unelected, verdict>>

\* A mistake: a lookup that failed reads as a version that is not elected.
FailedIsUnelected ==
  /\ pc = "elected" /\ todo # <<>> /\ todo' = Tail(todo)
  /\ lookups' = lookups \union {<<Head(todo), FALSE>>}
  /\ Same /\ UNCHANGED <<pc, live, pool, status, owned, flagged, unelected, verdict>>

\* electedVersions: a lookup that fails leaves the whole set unknown.
ElectedUnread ==
  /\ pc = "elected" /\ todo # <<>> /\ todo' = <<>> /\ lookups' = {}
  /\ Same /\ UNCHANGED <<pc, live, pool, status, owned, flagged, unelected, verdict>>

Conclude ==
  /\ pc = "elected" /\ todo = <<>> /\ unelected' = Unelected
  /\ Stop(IF flagged = {} THEN "clean" ELSE "drift")
  /\ Same /\ UNCHANGED <<todo, live, pool, status, owned, lookups, flagged>>

\* Any other read that fails ends the report, the state file's included.
ReadFails ==
  /\ \/ pc = "facts"
     \/ pc = "dcs" /\ config.dcs # <<>>
     \/ pc = "chips" /\ config.nodes # <<>>
     \/ pc \in {"members", "providers", "operators"} /\ todo # <<>>
  /\ Error /\ Same

\* The network, before and during the report.
WorldMoves ==
  /\ pc # "done" /\ now < Len(worlds) /\ now' = now + 1
  /\ started' = IF pc = "load" THEN now' ELSE started
  /\ UNCHANGED <<config, worlds, pc, todo, live, pool, Found>>

Report ==
  \/ Load \/ ReadMembers \/ PendingEnds \/ ReadFacts \/ SubnetsEnd \/ RecordsEnd
  \/ ReadDataCenters \/ ReadProvider \/ ProvidersEnd \/ ReadOperator
  \/ OperatorsEnd \/ CheckChips \/ VersionsEnd \/ ReadElected \/ Conclude

Next == Report \/ Task \/ ElectedUnread \/ ReadFails \/ WorldMoves

\* Every read has a timeout, so the report and its goroutines get on.
Spec == Init /\ [][Next]_vars /\ WF_vars(Report) /\ WF_vars(Task)

-----------------------------------------------------------------------------
(***************************************************************************)
(* Properties.  Holds says of a world, without a word of how the report    *)
(* finds out, that it agrees with the inventory on an item.                *)
(***************************************************************************)

Holds(item, w) ==
  CASE item[1] = "member" ->
         (item[3] \in w.members[item[2]])
           <=> (\E n \in ToSet(config.nodes) : n.id = item[3] /\ n.subnet = item[2])
    [] item[1] = "record" ->
         LET b == SubnetBlock(item[2]) f == w.facts[item[2]]
         IN /\ f.type = b.type \/ {f.type, b.type} \subseteq {None, "application"}
            /\ DeclaredCostSchedule(b) = (IF f.schedule = None THEN "normal" ELSE f.schedule)
            /\ b.admins = f.admins /\ b.sev = (f.sev = TRUE)
    [] item[1] = "dc" ->
         \E d \in ToSet(config.dcs) :
           d.id = item[2] /\ w.dcs[d.id] # None /\ d.region \in {None, w.dcs[d.id]}
    [] item[1] = "operator" ->
         \E o \in ToSet(config.operators) :
           /\ o.id = item[2]
           /\ LET r == w.operators[o.id]
                  owned_by == r # None /\ r.provider = o.provider
              IN IF o.gone \/ GoneProvider(o.provider) THEN ~owned_by
                 ELSE /\ owned_by /\ o.provider \in Ids(config.providers)
                      /\ o.dc \in {None, r.dc}
                      /\ \A d \in ToSet(config.dcs) :
                           d.id = o.dc =>
                             d.region = None \/ w.dcs[r.dc] \in {None, d.region}
    [] item[1] = "owner" ->
         LET b == Block(config, item[2])
         IN IF b.gone THEN ~Registered(w, b.id)
            ELSE Registered(w, b.id) /\ w.nodes[b.id].operator = b.operator
    [] item[1] = "unmanaged" -> item[3] \notin NodesOf(w, item[2])
    [] item[1] = "chip" ->
         LET b == Block(config, item[2])
         IN Registered(w, b.id) => w.nodes[b.id].chip = b.chip
    [] item[1] = "version" ->
         w.running[item[2]] \in {None, ExpectedVersion(config, Block(config, item[2]))}

\* What of the inventory the report looks at: nothing when it declares neither
\* subnet, provider nor node, operators and ownership only with a provider, and
\* a retired operator only when its provider is declared, and so asked.
Tied == {n \in ToSet(config.nodes) : n.operator # None}
OwnershipItems ==
  {<<"operator", o.id>> : o \in {p \in ToSet(config.operators) :
      p.provider # None /\ (p.gone => p.provider \in Ids(config.providers))}}
    \union {<<"owner", n.id>> : n \in Tied}
    \union {<<"unmanaged", o, n>> : o \in Ids(config.operators),
                                      n \in Nodes \ {b.id : b \in Tied}}
DcItems == {"dc"} \X Ids(config.dcs)
OtherItems ==
  {<<"member", s, n>> : s \in Ids(config.subnets), n \in Nodes}
    \union ({"record"} \X Ids(config.subnets))
    \union {<<"chip", n.id>> : n \in {b \in ToSet(config.nodes) : ~b.gone}}
    \union {<<"version", n.id>> : n \in VersionCheckedNodes(config)}

Early == config.subnets = <<>> /\ config.providers = <<>> /\ config.nodes = <<>>
CheckedItems ==
  IF Early THEN {}
  ELSE OtherItems \union DcItems
         \union (IF config.providers = <<>> THEN {} ELSE OwnershipItems)

\* A version the node itself did not report proves nothing: it was not read,
\* or comes from a dashboard that lags.
Secondhand ==
  {<<"version", n.id>> : n \in {b \in VersionCheckedNodes(config) :
     ~\E a \in pool.got : a.id = b.id /\ a.direct /\ a.got # None}}

SomeTime(P(_)) == \E k \in started..now : P(worlds[k])

\* A report without drift is right on every item it covers: at some moment
\* while it ran the network agreed with the inventory, although each answer
\* is of another moment, answers come out of order, and any may fail.
CleanReportWasTrue ==
  verdict = "clean" =>
    \A item \in CheckedItems \ Secondhand :
      SomeTime(LAMBDA w : Holds(item, w))

\* What OperatorDecommissioned says of a retired operator that is no drift: it
\* was absent from the registry.
RetiredIsAbsent ==
  verdict = "clean" /\ config.providers # <<>> =>
    \A o \in ToSet(config.operators) :
      o.provider # None /\ o.gone =>
        SomeTime(LAMBDA w : w.operators[o.id] = None \/ w.operators[o.id].provider # o.provider)

\* A row of drift is never made up: at some moment while the report ran the
\* network disagreed on that very item, or AMD does not vouch for the chip.
DriftWasTrue ==
  \A item \in flagged :
    \/ SomeTime(LAMBDA w : ~Holds(item, w))
    \/ pc \in {"elected", "done"} /\ item \in Secondhand
    \/ item[1] = "chip" /\ Block(config, item[2]).chip \notin Vouched

\* NOT ELECTED is noted only of a version the registry was read not to hold:
\* a lookup that fails never reads as "not elected".
UnelectedIsReal ==
  \A n \in unelected :
    SomeTime(LAMBDA w : ExpectedVersion(config, Block(config, n)) \notin w.elected)

\* The report ends, whatever fails and however many nodes wait for a slot.
ReportEnds == <>(pc = "done")
=============================================================================
