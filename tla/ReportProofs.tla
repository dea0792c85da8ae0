--------------------------- MODULE ReportProofs ---------------------------
(***************************************************************************)
(* Proofs about Report, for every inventory, every history of the network  *)
(* and every number of slots: a row of drift was true at some moment of    *)
(* the report, a version noted as not elected was read as not elected, a   *)
(* clean report was right, and every slot is busy or free.                 *)
(***************************************************************************)
EXTENDS Report, FiniteSetTheorems, TLAPS

-----------------------------------------------------------------------------
(***************************************************************************)
(* Inventories.                                                            *)
(***************************************************************************)

\* Where ids are unique, a block is the only one with its id.
UniqueBlocks(blocks) ==
  \A a, b \in ToSet(blocks) : a.id = b.id => a = b

LEMMA UniqueIdsAreUnique ==
  ASSUME NEW S, NEW blocks \in Seq(S), UniqueIds(blocks)
  PROVE  UniqueBlocks(blocks)
<1> PICK n \in Nat : n = Len(blocks) /\ DOMAIN blocks = 1..n
  OBVIOUS
<1> DEFINE f == [i \in 1..n |-> blocks[i].id]
<1>1. f \in Surjection(1..n, Ids(blocks))
  BY DEF Surjection, Ids
<1>2. IsFiniteSet(1..n) /\ Cardinality(1..n) = n
  <2>1. 1 \in Int /\ n \in Int
    OBVIOUS
  <2>2. /\ IsFiniteSet(1..n)
        /\ Cardinality(1..n) = IF 1 > n THEN 0 ELSE n - 1 + 1
    BY <2>1, FS_Interval, Zenon
  <2> QED BY <2>2
<1>3. f \in Injection(1..n, Ids(blocks))
  <2>1. Cardinality(Ids(blocks)) = Cardinality(1..n)
    BY <1>2 DEF UniqueIds
  <2> HIDE DEF f
  <2> QED BY <1>1, <1>2, <2>1, FS_Surjection
<1>4. \A i, j \in 1..n : blocks[i].id = blocks[j].id => i = j
  BY <1>3 DEF Injection, IsInjective
<1> QED BY <1>4 DEF UniqueBlocks, ToSet

LEMMA ElementsOf ==
  ASSUME NEW S, NEW s \in Seq(S)
  PROVE  ToSet(s) \subseteq S
BY DEF ToSet

LEMMA DeclaredIds ==
  ASSUME config \in Configs
  PROVE  /\ \A n \in ToSet(config.nodes) : n.id \in Nodes
         /\ \A o \in ToSet(config.operators) : o.id \in Operators
<1> DEFINE N == [id : Nodes, subnet : Optional(Subnets), operator : Optional(Operators),
                 gone : BOOLEAN, version : Optional(Versions \union {OptOut}),
                 chip : Optional(ChipIds)]
           O == [id : Operators, provider : Optional(Providers), dc : Optional(Dcs),
                 gone : BOOLEAN]
<1>1. config.nodes \in Seq(N) /\ config.operators \in Seq(O)
  BY ConfigsAssumption DEF Inventory
<1>2. (\A n \in N : n.id \in Nodes) /\ (\A o \in O : o.id \in Operators)
  OBVIOUS
<1> HIDE DEF N, O
<1>3. ToSet(config.nodes) \subseteq N /\ ToSet(config.operators) \subseteq O
  BY <1>1, ElementsOf
<1> QED BY <1>2, <1>3

UniqueInventory ==
  /\ UniqueBlocks(config.nodes) /\ UniqueBlocks(config.operators)
  /\ UniqueBlocks(config.dcs)

LEMMA LoadedIsUnique ==
  ASSUME config \in Configs, Loads(config)
  PROVE  UniqueInventory
<1>1. config \in Inventory
  BY ConfigsAssumption
<1>2. \E S : config.nodes \in Seq(S)
  BY <1>1 DEF Inventory
<1>3. \E S : config.operators \in Seq(S)
  BY <1>1 DEF Inventory
<1>4. \E S : config.dcs \in Seq(S)
  BY <1>1 DEF Inventory
<1>5. UniqueIds(config.nodes) /\ UniqueIds(config.operators) /\ UniqueIds(config.dcs)
  BY DEF Loads, checkUnique
<1> QED BY <1>2, <1>3, <1>4, <1>5, UniqueIdsAreUnique DEF UniqueInventory

LEMMA DeclaredIsItsBlock ==
  ASSUME UniqueInventory, NEW b \in ToSet(config.nodes)
  PROVE  Block(config, b.id) = b
BY DEF UniqueInventory, UniqueBlocks, Block

-----------------------------------------------------------------------------
(***************************************************************************)
(* The moments of a report.                                                *)
(***************************************************************************)

Moments == started..now

Fresh == /\ flagged = {} /\ unelected = {} /\ lookups = {}
         /\ owned = {} /\ status = {} /\ pool = NoPool

\* What of the state does not depend on the answers.
Frame ==
  /\ config \in Configs /\ worlds \in Histories
  /\ started \in Nat /\ now \in Nat /\ started <= now
  /\ pc = "load" => Fresh
  /\ pc \notin {"load", "done"} => UniqueInventory

\* From the load on, the moments of the report are kept.
Onward ==
  /\ config' = config /\ worlds' = worlds
  /\ pc # "load" => Moments \subseteq Moments' /\ pc' # "load"

LEMMA FrameInit == Init => Frame
BY DEF Init, Frame, Fresh

LEMMA FrameNext ==
  ASSUME Frame, [Next]_vars
  PROVE  Frame' /\ Onward
<1> USE DEF Frame
<1>1. CASE Load
  <2>1. CASE ~Loads(config)
    BY <1>1, <2>1 DEF Load, Stop, Onward, Moments, Fresh, UniqueInventory
  <2>2. CASE Loads(config)
    <3>1. UniqueInventory
      BY <2>2, LoadedIsUnique
    <3> QED BY <1>1, <2>2, <3>1 DEF Load, Stop, Onward, Moments, Fresh, UniqueInventory
  <2> QED BY <2>1, <2>2
<1>2. CASE WorldMoves
  BY <1>2 DEF WorldMoves, Onward, Moments, Found, Fresh, UniqueInventory
<1>3. CASE /\ pc # "load" /\ pc' # "load" /\ Same
           /\ pc = "done" => pc' = "done"
  BY <1>3 DEF Same, Onward, Moments, UniqueInventory
<1>4. ASSUME Report, ~Load PROVE /\ pc # "load" /\ pc' # "load" /\ Same /\ pc # "done"
  BY <1>4 DEF Report, ReadMembers, PendingEnds, Error, Stop, ReadFacts, SubnetsEnd, RecordsEnd,
     ReadDataCenters, ReadProvider, ProvidersEnd, ReadOperator, OperatorsEnd, CheckChips,
     VersionsEnd, ReadElected, Conclude
<1>5. CASE Task
  <2>1. pc' = pc /\ Same
    BY <1>5 DEF Task, Take, InPool, RecordRead, RecordFails, Endpoint, NodeAnswers,
       NodeUnreachable, DashboardAnswers, VersionUnread
  <2>2. pc # "load"
    BY <1>5 DEF Fresh, NoPool, Task
  <2> QED BY <1>3, <2>1, <2>2
<1>6. CASE ElectedUnread \/ ReadFails
  BY <1>3, <1>6 DEF ElectedUnread, ReadFails, Error, Stop
<1>7. CASE UNCHANGED vars
  BY <1>7 DEF vars, Onward, Moments, Fresh, UniqueInventory
<1> QED BY <1>1, <1>2, <1>3, <1>4, <1>5, <1>6, <1>7 DEF Next

LEMMA FrameHolds == Spec => []Frame
<1>1. Init => Frame
  BY FrameInit
<1>2. Frame /\ [Next]_vars => Frame'
  BY FrameNext
<1> QED BY <1>1, <1>2, PTL DEF Spec

\* A moment of the report stays one.
LEMMA MomentsAreKept ==
  ASSUME Frame, Onward, pc # "load"
  PROVE  \A k \in Moments : k \in Moments' /\ worlds'[k] = worlds[k]
BY DEF Onward

LEMMA NowIsAMoment ==
  ASSUME Frame
  PROVE  now \in Moments /\ world = worlds[now]
BY DEF Frame, Moments, world

-----------------------------------------------------------------------------
(***************************************************************************)
(* Elected versions.                                                       *)
(***************************************************************************)

\* A version looked up and not found was not elected at the lookup.
LookupsWereTrue ==
  \A l \in lookups :
    l[2] = FALSE => \E k \in Moments : l[1] \notin worlds[k].elected

NotElected(n) ==
  \E k \in Moments : ExpectedVersion(config, Block(config, n)) \notin worlds[k].elected

ElectedInv == LookupsWereTrue /\ \A n \in unelected : NotElected(n)

LEMMA ElectedNext ==
  ASSUME Frame, ElectedInv, [Next]_vars
  PROVE  ElectedInv'
<1>1. Frame' /\ Onward
  BY FrameNext
<1>2. CASE pc = "load"
  <2>1. lookups' = {} /\ unelected' = {}
    BY <1>2 DEF Frame, Fresh, NoPool, Next, Report, Load, ReadMembers, PendingEnds, ReadFacts,
       SubnetsEnd, RecordsEnd, ReadDataCenters, ReadProvider, ProvidersEnd, ReadOperator,
       OperatorsEnd, CheckChips, VersionsEnd, ReadElected, Conclude, Task, ElectedUnread,
       ReadFails, WorldMoves, Found, vars
  <2> QED BY <2>1 DEF ElectedInv, LookupsWereTrue
<1>3. CASE pc # "load"
  <2>1. \A k \in Moments : k \in Moments' /\ worlds'[k] = worlds[k]
    BY <1>1, <1>3, MomentsAreKept
  <2>2. config' = config
    BY <1>1 DEF Onward
  <2>3. \A l \in lookups : l[2] = FALSE => \E k \in Moments' : l[1] \notin worlds'[k].elected
    BY <2>1 DEF ElectedInv, LookupsWereTrue
  <2>4. \A n \in unelected : NotElected(n)'
    BY <2>1, <2>2 DEF ElectedInv, NotElected
  <2>5. CASE UNCHANGED <<lookups, unelected>>
    BY <2>3, <2>4, <2>5 DEF ElectedInv, LookupsWereTrue
  <2>6. CASE ReadElected
    <3>1. now \in Moments /\ world = worlds[now]
      BY NowIsAMoment
    <3>2. LookupsWereTrue'
      <4>1. SUFFICES ASSUME NEW l \in lookups', l[2] = FALSE
                     PROVE  \E k \in Moments' : l[1] \notin worlds'[k].elected
        BY DEF LookupsWereTrue
      <4>2. CASE l \in lookups
        BY <2>3, <4>1, <4>2
      <4>3. CASE l = <<Head(todo), Head(todo) \in world.elected>>
        <5>1. l[1] = Head(todo) /\ l[2] = (Head(todo) \in world.elected)
          BY <4>3
        <5>2. l[1] \notin worlds[now].elected
          BY <3>1, <4>1, <5>1
        <5> QED BY <2>1, <3>1, <5>2
      <4> QED BY <2>6, <4>1, <4>2, <4>3 DEF ReadElected
    <3> QED BY <2>4, <2>6, <3>2 DEF ReadElected, ElectedInv
  <2>7. CASE ElectedUnread
    BY <2>4, <2>7 DEF ElectedUnread, ElectedInv, LookupsWereTrue
  <2>8. CASE Conclude
    <3>1. UniqueInventory
      BY <2>8 DEF Conclude, Frame
    <3>2. ASSUME NEW n \in Unelected PROVE NotElected(n)
      <4>1. PICK b \in VersionCheckedNodes(config) :
              n = b.id /\ <<ExpectedVersion(config, b), FALSE>> \in lookups
        BY <3>2 DEF Unelected
      <4>2. Block(config, n) = b
        BY <3>1, <4>1, DeclaredIsItsBlock DEF VersionCheckedNodes
      <4>3. \E k \in Moments : ExpectedVersion(config, b) \notin worlds[k].elected
        BY <4>1 DEF ElectedInv, LookupsWereTrue
      <4> QED BY <4>2, <4>3 DEF NotElected
    <3>3. \A n \in unelected' : NotElected(n)'
      BY <2>1, <2>2, <2>8, <3>2 DEF Conclude, NotElected
    <3> QED BY <2>3, <2>8, <3>3 DEF Conclude, ElectedInv, LookupsWereTrue
  <2>9. ASSUME Report, ~ReadElected, ~Conclude PROVE UNCHANGED <<lookups, unelected>>
    BY <2>9 DEF Report, Load, ReadMembers, PendingEnds, Error, ReadFacts, SubnetsEnd, RecordsEnd,
       ReadDataCenters, ReadProvider, ProvidersEnd, ReadOperator, OperatorsEnd, CheckChips,
       VersionsEnd, Found
  <2>10. ASSUME Task PROVE UNCHANGED <<lookups, unelected>>
    BY <2>10 DEF Task, Take, InPool, Found, RecordRead, RecordFails, Endpoint, NodeAnswers,
       NodeUnreachable, DashboardAnswers, VersionUnread
  <2>11. ASSUME ReadFails \/ WorldMoves \/ UNCHANGED vars PROVE UNCHANGED <<lookups, unelected>>
    BY <2>11 DEF ReadFails, Error, WorldMoves, Found, vars
  <2> QED BY <2>5, <2>6, <2>7, <2>8, <2>9, <2>10, <2>11 DEF Next
<1> QED BY <1>2, <1>3

\* NOT ELECTED is noted only of a version the registry was read not to hold
\* at some moment of the report (electedVersions, nns/reconcile_version.go).
THEOREM NotedIsUnelected == Spec => []UnelectedIsReal
<1>1. Init => ElectedInv
  BY DEF Init, ElectedInv, LookupsWereTrue
<1>2. Frame /\ ElectedInv /\ [Next]_vars => ElectedInv'
  BY ElectedNext
<1>3. ElectedInv => UnelectedIsReal
  BY DEF ElectedInv, NotElected, UnelectedIsReal, SomeTime, Moments
<1> QED BY <1>1, <1>2, <1>3, FrameHolds, PTL DEF Spec

-----------------------------------------------------------------------------
(***************************************************************************)
(* The pools.                                                              *)
(***************************************************************************)

\* A node is queued, read or answered for, once; outside the three steps
\* that use a pool nothing is queued and no task runs.
PoolShape ==
  /\ pool = [queue |-> pool.queue, busy |-> pool.busy, free |-> pool.free,
             got |-> pool.got, err |-> pool.err]
  /\ \A t \in pool.busy : t = [id |-> t.id, step |-> t.step] /\ t.id \notin pool.queue

PoolOnce ==
  /\ \A t, u \in pool.busy : t.id = u.id => t = u
  /\ \A a \in pool.got : a.id \notin pool.queue
  /\ \A a \in pool.got, t \in pool.busy : a.id # t.id
  /\ \A a, b \in pool.got : a.id = b.id => a = b

PoolInv ==
  /\ PoolShape /\ PoolOnce
  /\ pc \notin {"pending", "records", "versions"} => PoolDone

LEMMA TakeKeepsOnce ==
  ASSUME PoolShape, PoolOnce, NEW id \in pool.queue, Take(id)
  PROVE  PoolShape' /\ PoolOnce'
<1> DEFINE t == [id |-> id, step |-> "record"]
<1>1. pool' = [queue |-> pool.queue \ {id}, busy |-> pool.busy \union {t},
               free |-> pool.free - 1, got |-> pool.got, err |-> pool.err]
  BY DEF Take, PoolShape
<1>2. t.id = id /\ t = [id |-> t.id, step |-> t.step]
  OBVIOUS
<1> HIDE DEF t
<1>3. PoolShape'
  BY <1>1, <1>2 DEF PoolShape
<1>4. PoolOnce'
  BY <1>1, <1>2 DEF PoolShape, PoolOnce
<1> QED BY <1>3, <1>4

LEMMA AnswerKeepsOnce ==
  ASSUME PoolShape, PoolOnce, NEW t \in pool.busy, NEW got, NEW direct,
         pool' = Answer(t, got, direct)
  PROVE  /\ PoolShape' /\ PoolOnce'
         /\ pool'.got = pool.got \union {[id |-> t.id, got |-> got, direct |-> direct]}
<1> DEFINE a == [id |-> t.id, got |-> got, direct |-> direct]
<1>1. pool' = [queue |-> pool.queue, busy |-> pool.busy \ {t}, free |-> pool.free + 1,
               got |-> pool.got \union {a}, err |-> pool.err]
  BY DEF Answer, Finished, PoolShape
<1>2. a.id = t.id
  OBVIOUS
<1>3. pool'.got = pool.got \union {[id |-> t.id, got |-> got, direct |-> direct]}
  BY <1>1
<1> HIDE DEF a
<1>4. PoolShape'
  BY <1>1 DEF PoolShape
<1>5. PoolOnce'
  BY <1>1, <1>2 DEF PoolShape, PoolOnce
<1> QED BY <1>3, <1>4, <1>5

LEMMA FailureKeepsOnce ==
  ASSUME PoolShape, PoolOnce, NEW t \in pool.busy, RecordFails(t)
  PROVE  PoolShape' /\ PoolOnce' /\ pool'.got = pool.got
<1>1. pool' = [queue |-> pool.queue, busy |-> pool.busy \ {t}, free |-> pool.free + 1,
               got |-> pool.got, err |-> TRUE]
  BY DEF RecordFails, Finished, PoolShape
<1> QED BY <1>1 DEF PoolShape, PoolOnce

LEMMA StepKeepsOnce ==
  ASSUME PoolShape, PoolOnce, NEW t \in pool.busy, NEW step,
         pool' = [pool EXCEPT !.busy = (@ \ {t}) \union {[t EXCEPT !.step = step]}]
  PROVE  PoolShape' /\ PoolOnce' /\ pool'.got = pool.got
<1> DEFINE u == [id |-> t.id, step |-> step]
<1>1. [t EXCEPT !.step = step] = u
  BY DEF PoolShape
<1>2. pool' = [queue |-> pool.queue, busy |-> (pool.busy \ {t}) \union {u},
               free |-> pool.free, got |-> pool.got, err |-> pool.err]
  BY <1>1 DEF PoolShape
<1>3. u.id = t.id /\ u = [id |-> u.id, step |-> u.step]
  OBVIOUS
<1> HIDE DEF u
<1>4. PoolShape'
  BY <1>2, <1>3 DEF PoolShape
<1>5. PoolOnce'
  BY <1>2, <1>3 DEF PoolShape, PoolOnce
<1> QED BY <1>2, <1>4, <1>5

LEMMA NewPoolIsOnce ==
  ASSUME NEW ids, pool' = PoolOf(ids)
  PROVE  PoolShape' /\ PoolOnce' /\ pool'.got = {}
<1>1. pool' = [queue |-> ids, busy |-> {}, free |-> Slots, got |-> {}, err |-> FALSE]
  BY DEF PoolOf, NoPool
<1> QED BY <1>1 DEF PoolShape, PoolOnce

LEMMA PoolInit == Init => PoolInv
BY DEF Init, PoolInv, PoolShape, PoolOnce, NoPool, PoolDone

LEMMA PoolNext ==
  ASSUME PoolInv, [Next]_vars
  PROVE  PoolInv'
<1> USE DEF PoolInv
<1>1. ASSUME pool' = pool,
             pc' \notin {"pending", "records", "versions"} => PoolDone
      PROVE  PoolInv'
  BY <1>1 DEF PoolShape, PoolOnce, PoolDone
<1>2. CASE Task
  <2>1. pc' = pc
    BY <1>2 DEF Task, Take, InPool, RecordRead, RecordFails, Endpoint, NodeAnswers,
       NodeUnreachable, DashboardAnswers, VersionUnread
  <2>2. pc \in {"pending", "records", "versions"}
    BY <1>2 DEF Task, PoolDone
  <2>3. PoolShape' /\ PoolOnce'
    <3>1. ASSUME NEW id \in pool.queue, Take(id) PROVE PoolShape' /\ PoolOnce'
      BY <3>1, TakeKeepsOnce
    <3>2. ASSUME NEW t \in pool.busy,
                 RecordRead(t) \/ NodeAnswers(t) \/ DashboardAnswers(t) \/ VersionUnread(t)
          PROVE  PoolShape' /\ PoolOnce'
      BY <3>2, AnswerKeepsOnce DEF RecordRead, NodeAnswers, DashboardAnswers, VersionUnread
    <3>3. ASSUME NEW t \in pool.busy, RecordFails(t) PROVE PoolShape' /\ PoolOnce'
      BY <3>3, FailureKeepsOnce
    <3>4. ASSUME NEW t \in pool.busy, Endpoint(t) \/ NodeUnreachable(t)
          PROVE  PoolShape' /\ PoolOnce'
      BY <3>4, StepKeepsOnce DEF Endpoint, NodeUnreachable
    <3> QED BY <1>2, <3>1, <3>2, <3>3, <3>4 DEF Task
  <2> QED BY <2>1, <2>2, <2>3
<1>3. CASE ReadMembers
  BY <1>3, NewPoolIsOnce DEF ReadMembers
<1>4. CASE SubnetsEnd
  BY <1>4, NewPoolIsOnce DEF SubnetsEnd
<1>5. CASE CheckChips
  BY <1>5, NewPoolIsOnce DEF CheckChips
<1>6. CASE PendingEnds \/ RecordsEnd \/ VersionsEnd
  BY <1>1, <1>6 DEF PendingEnds, Error, RecordsEnd, VersionsEnd
<1>7. CASE Load \/ ReadFacts \/ ReadDataCenters \/ ReadProvider \/ ProvidersEnd
           \/ ReadOperator \/ OperatorsEnd
  BY <1>1, <1>7 DEF Load, Stop, ReadFacts, ReadDataCenters, ReadProvider, ProvidersEnd,
     ReadOperator, OperatorsEnd
<1>8. CASE ReadElected \/ ElectedUnread \/ Conclude \/ ReadFails \/ WorldMoves \/ UNCHANGED vars
  BY <1>1, <1>8 DEF ReadElected, ElectedUnread, Conclude, ReadFails, Error, Stop, WorldMoves, vars
<1> QED BY <1>2, <1>3, <1>4, <1>5, <1>6, <1>7, <1>8 DEF Next, Report

LEMMA PoolHolds == Spec => []PoolInv
<1>1. Init => PoolInv
  BY PoolInit
<1>2. PoolInv /\ [Next]_vars => PoolInv'
  BY PoolNext
<1> QED BY <1>1, <1>2, PTL DEF Spec

-----------------------------------------------------------------------------
(***************************************************************************)
(* Types.                                                                  *)
(***************************************************************************)

\* Each goroutine that runs holds a slot of the semaphore.
SlotsInv ==
  /\ IsFiniteSet(pool.busy) /\ IsFiniteSet(pool.got)
  /\ pool.free \in Nat /\ Cardinality(pool.busy) + pool.free = Slots
  /\ pool.queue \subseteq Nodes

TypeInv ==
  /\ now \in 1..Len(worlds) /\ started \in 1..now
  /\ pc \in Labels /\ live \subseteq Nodes
  /\ pc \in {"members", "pending", "facts"} => todo \in Seq(Subnets)
  /\ pc \in {"pending", "facts"} => todo # <<>>
  /\ verdict \in {"none", "clean", "drift", "error"}

\* A task starts on a slot, and its slot is free again when it ends.
LEMMA TakeKeepsSlots ==
  ASSUME PoolShape, SlotsInv, NEW id \in pool.queue, Take(id)
  PROVE  SlotsInv'
<1> DEFINE t == [id |-> id, step |-> "record"]
<1>1. pool' = [queue |-> pool.queue \ {id}, busy |-> pool.busy \union {t},
               free |-> pool.free - 1, got |-> pool.got, err |-> pool.err]
  BY DEF Take, PoolShape
<1>2. t \notin pool.busy /\ pool.free > 0
  <2>1. t.id = id
    OBVIOUS
  <2> HIDE DEF t
  <2> QED
    BY <2>1 DEF Take, PoolShape
<1> HIDE DEF t
<1>3. IsFiniteSet(pool.busy \union {t}) /\ Cardinality(pool.busy \union {t}) = Cardinality(pool.busy) + 1
  BY <1>2, FS_AddElement DEF SlotsInv
<1>4. Cardinality(pool.busy) \in Nat
  BY FS_CardinalityType DEF SlotsInv
<1> QED
  BY <1>1, <1>2, <1>3, <1>4, SlotsAssumption DEF SlotsInv

LEMMA EndKeepsSlots ==
  ASSUME PoolShape, SlotsInv, NEW t \in pool.busy, NEW got, IsFiniteSet(got), NEW err,
         pool' = [queue |-> pool.queue, busy |-> pool.busy \ {t}, free |-> pool.free + 1,
                  got |-> got, err |-> err]
  PROVE  SlotsInv'
<1>1. /\ IsFiniteSet(pool.busy \ {t})
      /\ Cardinality(pool.busy \ {t}) = Cardinality(pool.busy) - 1
  BY FS_RemoveElement DEF SlotsInv
<1>2. Cardinality(pool.busy) \in Nat
  BY FS_CardinalityType DEF SlotsInv
<1> QED
  BY <1>1, <1>2, SlotsAssumption DEF SlotsInv

LEMMA AnswerKeepsSlots ==
  ASSUME PoolShape, SlotsInv, NEW t \in pool.busy, NEW got, NEW direct,
         pool' = Answer(t, got, direct)
  PROVE  SlotsInv'
<1> DEFINE a == [id |-> t.id, got |-> got, direct |-> direct]
<1>1. pool' = [queue |-> pool.queue, busy |-> pool.busy \ {t}, free |-> pool.free + 1,
               got |-> pool.got \union {a}, err |-> pool.err]
  BY DEF Answer, Finished, PoolShape
<1> HIDE DEF a
<1>2. IsFiniteSet(pool.got \union {a})
  BY FS_AddElement DEF SlotsInv
<1> QED
  BY <1>1, <1>2, EndKeepsSlots

LEMMA StepKeepsSlots ==
  ASSUME PoolShape, PoolOnce, SlotsInv, NEW t \in pool.busy, NEW step,
         pool' = [pool EXCEPT !.busy = (@ \ {t}) \union {[t EXCEPT !.step = step]}]
  PROVE  SlotsInv'
<1> DEFINE u == [id |-> t.id, step |-> step]
<1>1. [t EXCEPT !.step = step] = u
  BY DEF PoolShape
<1>2. pool' = [queue |-> pool.queue, busy |-> (pool.busy \ {t}) \union {u},
               free |-> pool.free, got |-> pool.got, err |-> pool.err]
  BY <1>1 DEF PoolShape
<1>3. u.id = t.id
  OBVIOUS
<1> HIDE DEF u
<1>4. u \notin pool.busy \ {t}
  BY <1>3 DEF PoolOnce
<1>5. /\ IsFiniteSet(pool.busy \ {t})
      /\ Cardinality(pool.busy \ {t}) = Cardinality(pool.busy) - 1
  BY FS_RemoveElement DEF SlotsInv
<1>6. /\ IsFiniteSet((pool.busy \ {t}) \union {u})
      /\ Cardinality((pool.busy \ {t}) \union {u}) = Cardinality(pool.busy \ {t}) + 1
  BY <1>4, <1>5, FS_AddElement
<1>7. Cardinality(pool.busy) \in Nat
  BY FS_CardinalityType DEF SlotsInv
<1> QED
  BY <1>2, <1>5, <1>6, <1>7 DEF SlotsInv

LEMMA NewPoolIsFree ==
  ASSUME NEW ids, ids \subseteq Nodes, pool' = PoolOf(ids)
  PROVE  SlotsInv'
<1>1. pool' = [queue |-> ids, busy |-> {}, free |-> Slots, got |-> {}, err |-> FALSE]
  BY DEF PoolOf, NoPool
<1>2. IsFiniteSet({}) /\ Cardinality({}) = 0
  BY FS_EmptySet
<1> QED
  BY <1>1, <1>2, SlotsAssumption DEF SlotsInv

LEMMA SlotsNext ==
  ASSUME Frame, PoolInv, SlotsInv, [Next]_vars
  PROVE  SlotsInv'
<1>1. ASSUME pool' = pool PROVE SlotsInv'
  BY <1>1 DEF SlotsInv
<1>2. CASE Task
  <2> USE DEF PoolInv
  <2>1. ASSUME NEW id \in pool.queue, Take(id) PROVE SlotsInv'
    BY <2>1, TakeKeepsSlots
  <2>2. ASSUME NEW t \in pool.busy,
               RecordRead(t) \/ NodeAnswers(t) \/ DashboardAnswers(t) \/ VersionUnread(t)
        PROVE  SlotsInv'
    BY <2>2, AnswerKeepsSlots DEF RecordRead, NodeAnswers, DashboardAnswers, VersionUnread
  <2>3. ASSUME NEW t \in pool.busy, RecordFails(t) PROVE SlotsInv'
    <3>1. pool' = [queue |-> pool.queue, busy |-> pool.busy \ {t}, free |-> pool.free + 1,
                   got |-> pool.got, err |-> TRUE]
      BY <2>3 DEF RecordFails, Finished, PoolShape
    <3> QED
      BY <3>1, EndKeepsSlots DEF SlotsInv
  <2>4. ASSUME NEW t \in pool.busy, Endpoint(t) \/ NodeUnreachable(t) PROVE SlotsInv'
    BY <2>4, StepKeepsSlots DEF Endpoint, NodeUnreachable
  <2> QED
    BY <1>2, <2>1, <2>2, <2>3, <2>4 DEF Task
<1>3. \A n \in ToSet(config.nodes) : n.id \in Nodes
  BY DeclaredIds DEF Frame
<1>4. CASE ReadMembers
  BY <1>3, <1>4, NewPoolIsFree DEF ReadMembers
<1>5. CASE SubnetsEnd
  <2>1. Ids(config.nodes) \subseteq Nodes
    BY <1>3 DEF Ids, ToSet
  <2> QED
    BY <1>5, <2>1, NewPoolIsFree DEF SubnetsEnd
<1>6. CASE CheckChips
  BY <1>3, <1>6, NewPoolIsFree DEF CheckChips, VersionCheckedNodes
<1>7. CASE PendingEnds \/ RecordsEnd \/ VersionsEnd
  BY <1>1, <1>7 DEF PendingEnds, Error, RecordsEnd, VersionsEnd
<1>8. CASE Load \/ ReadFacts \/ ReadDataCenters \/ ReadProvider \/ ProvidersEnd
           \/ ReadOperator \/ OperatorsEnd
  BY <1>1, <1>8 DEF Load, Stop, ReadFacts, ReadDataCenters, ReadProvider, ProvidersEnd,
     ReadOperator, OperatorsEnd
<1>9. CASE ReadElected \/ ElectedUnread \/ Conclude \/ ReadFails \/ WorldMoves \/ UNCHANGED vars
  BY <1>1, <1>9 DEF ReadElected, ElectedUnread, Conclude, ReadFails, Error, Stop, WorldMoves, vars
<1> QED
  BY <1>2, <1>4, <1>5, <1>6, <1>7, <1>8, <1>9 DEF Next, Report

LEMMA TypeNext ==
  ASSUME Frame, TypeInv, [Next]_vars
  PROVE  TypeInv'
<1>1. /\ worlds \in Seq(World) /\ Len(worlds) \in Nat
      /\ \A s \in Subnets : world.members[s] \subseteq Nodes
  <2>1. worlds \in Seq(World)
    BY HistoriesAssumption DEF Frame
  <2>2. world \in World /\ Len(worlds) \in Nat
    BY <2>1 DEF world, TypeInv
  <2> QED
    BY <2>1, <2>2 DEF World
<1>2. IdsInOrder(config.subnets) \in Seq(Subnets)
  <2> DEFINE B == [id : Subnets, type : Optional(Types), schedule : Optional(Schedules),
                   admins : SUBSET Admins, sev : BOOLEAN]
  <2>1. config.subnets \in Seq(B)
    BY ConfigsAssumption DEF Frame, Inventory
  <2>2. \A b \in B : b.id \in Subnets
    OBVIOUS
  <2> HIDE DEF B
  <2>3. \A i \in DOMAIN config.subnets : config.subnets[i].id \in Subnets
    BY <2>1, <2>2
  <2> QED
    BY <2>1, <2>3 DEF IdsInOrder
<1>3. ASSUME UNCHANGED <<config, worlds, now, started, live>>, pc' \in Labels,
             verdict' \in {"none", "clean", "drift", "error"},
             pc' \in {"members", "pending", "facts"} => todo' \in Seq(Subnets),
             pc' \in {"pending", "facts"} => todo' # <<>>
      PROVE  TypeInv'
  BY <1>3 DEF TypeInv
<1> USE DEF TypeInv, Labels, Same, Found, Stop, Error
<1>4. CASE Task
  <2>1. UNCHANGED <<config, worlds, now, started, pc, todo, live, Found>>
    BY <1>4 DEF Task, Take, InPool, RecordRead, RecordFails, Endpoint, NodeAnswers,
       NodeUnreachable, DashboardAnswers, VersionUnread
  <2> QED
    BY <2>1, <1>3
<1>5. CASE Load
  BY <1>1, <1>2, <1>5 DEF Load
<1>6. CASE ReadMembers
  <2>1. Head(todo) \in Subnets
    BY <1>6 DEF ReadMembers
  <2> QED
    BY <1>1, <1>6, <2>1 DEF ReadMembers
<1>7. CASE PendingEnds \/ SubnetsEnd
  BY <1>3, <1>7 DEF PendingEnds, SubnetsEnd
<1>8. CASE ReadFacts
  <2>1. todo \in Seq(Subnets) /\ todo # <<>>
    BY <1>8 DEF ReadFacts
  <2>2. Tail(todo) \in Seq(Subnets)
    BY <2>1
  <2> QED
    BY <1>3, <1>8, <2>2 DEF ReadFacts
<1>9. CASE RecordsEnd \/ ReadDataCenters \/ ReadProvider \/ ProvidersEnd \/ ReadOperator
           \/ OperatorsEnd \/ CheckChips \/ VersionsEnd
  BY <1>3, <1>9
  DEF RecordsEnd, ReadDataCenters, ReadProvider, ProvidersEnd, ReadOperator, OperatorsEnd,
      CheckChips, VersionsEnd, Add
<1>10. CASE ReadElected \/ ElectedUnread \/ Conclude \/ ReadFails
  BY <1>3, <1>10 DEF ReadElected, ElectedUnread, Conclude, ReadFails
<1>11. CASE WorldMoves
  BY <1>1, <1>11 DEF WorldMoves
<1>12. CASE UNCHANGED vars
  BY <1>3, <1>12 DEF vars
<1> QED
  BY <1>4, <1>5, <1>6, <1>7, <1>8, <1>9, <1>10, <1>11, <1>12 DEF Next, Report

\* Where ids are unique, there are as many elements as ids.
LEMMA AsManyIds ==
  ASSUME NEW S, IsFiniteSet(S), \A x, y \in S : x.id = y.id => x = y
  PROVE  Cardinality({x.id : x \in S}) = Cardinality(S)
<1> DEFINE T == {x.id : x \in S}
           f == [x \in S |-> x.id]
<1>1. f \in Bijection(S, T)
  BY DEF Bijection, Injection, Surjection, IsInjective
<1> HIDE DEF f, T
<1>2. Cardinality(T) = Cardinality(S)
  BY <1>1, FS_Bijection DEF ExistsBijection
<1> QED
  BY <1>2 DEF T

(***************************************************************************)
(* The state a report keeps has its type: in particular a node is never    *)
(* read by two goroutines nor answered for twice, and no goroutine keeps   *)
(* its slot of the semaphore (fetchNodeStatus, nodeVersions).              *)
(***************************************************************************)
THEOREM TypeCorrect == Spec => []TypeOK
<1>1. Init => TypeInv /\ SlotsInv
  <2> SUFFICES ASSUME Init PROVE TypeInv /\ SlotsInv
    OBVIOUS
  <2>1. SlotsInv
    BY FS_EmptySet, SlotsAssumption DEF Init, NoPool, SlotsInv
  <2>2. Len(worlds) \in Nat \ {0}
    BY HistoriesAssumption DEF Init
  <2> QED
    BY <2>1, <2>2 DEF Init, TypeInv, Labels
<1>2. Frame /\ PoolInv /\ TypeInv /\ SlotsInv /\ [Next]_vars => TypeInv' /\ SlotsInv'
  BY TypeNext, SlotsNext
<1>3. Frame /\ PoolInv /\ TypeInv /\ SlotsInv => TypeOK
  <2> SUFFICES ASSUME Frame, PoolInv, TypeInv, SlotsInv PROVE TypeOK
    OBVIOUS
  <2>1. DOMAIN worlds = 1..Len(worlds) /\ Len(worlds) \in Nat
    BY HistoriesAssumption DEF Frame
  <2>2. started \in DOMAIN worlds /\ now \in started..Len(worlds)
    BY <2>1 DEF TypeInv
  <2>3. pool.free \in 0..Slots
    BY FS_CardinalityType, SlotsAssumption DEF SlotsInv
  <2>4. Cardinality({t.id : t \in pool.busy}) = Cardinality(pool.busy)
    BY AsManyIds DEF PoolInv, PoolOnce, SlotsInv
  <2>5. Cardinality({a.id : a \in pool.got}) = Cardinality(pool.got)
    BY AsManyIds DEF PoolInv, PoolOnce, SlotsInv
  <2> QED
    BY <2>2, <2>3, <2>4, <2>5 DEF TypeOK, TypeInv, SlotsInv, Frame
<1> QED
  BY <1>1, <1>2, <1>3, FrameHolds, PoolHolds, PTL DEF Spec

-----------------------------------------------------------------------------
(***************************************************************************)
(* The answers: each is of a moment of the report, and each provider and   *)
(* operator is asked.                                                      *)
(***************************************************************************)

RecordOf(a) == \E k \in Moments : a.got = worlds[k].nodes[a.id]
VersionOf(a) == a.got = None \/ \E k \in Moments : a.got = worlds[k].running[a.id]
MembersOf(s) == \E k \in Moments : live = worlds[k].members[s]
OwnersOf(a) ==
  \E k \in Moments : \/ a.kind = "provider" /\ a.got = OwnedBy(worlds[k], a.id)
                     \/ a.kind = "operator" /\ a.got = NodesOf(worlds[k], a.id)

RecordsWereTrue ==
  /\ \A a \in status : RecordOf(a)
  /\ pc = "records" => \A a \in pool.got : RecordOf(a)

VersionsWereTrue ==
  pc = "versions" => \A a \in pool.got : a.direct => VersionOf(a)

MembersWereTrue == pc = "pending" => MembersOf(Head(todo))

OwnersWereTrue == \A a \in owned : OwnersOf(a)

\* What has not been answered for is still to do.
Asked(kind, ids) ==
  /\ \E S : todo \in Seq(S)
  /\ \A id \in ids : id \in ToSet(todo) \/ \E a \in owned : a.kind = kind /\ a.id = id

AllAreAsked ==
  /\ pc = "providers" => Asked("provider", Ids(config.providers))
  /\ pc = "operators" => Asked("operator", Ids(config.operators))

AnswersInv == RecordsWereTrue /\ VersionsWereTrue /\ MembersWereTrue
                /\ OwnersWereTrue /\ AllAreAsked

\* An answer stays an answer of a moment.
LEMMA AnswersAreKept ==
  ASSUME Frame, Onward, pc # "load"
  PROVE  /\ \A a : RecordOf(a) => RecordOf(a)'
         /\ \A a : VersionOf(a) => VersionOf(a)'
         /\ \A a : OwnersOf(a) => OwnersOf(a)'
<1>1. \A k \in Moments : k \in Moments' /\ worlds'[k] = worlds[k]
  BY MomentsAreKept
<1>2. \A a : RecordOf(a) => RecordOf(a)'
  BY <1>1 DEF RecordOf
<1>3. \A a : VersionOf(a) => VersionOf(a)'
  BY <1>1 DEF VersionOf
<1>4. \A a : OwnersOf(a) => OwnersOf(a)'
  BY <1>1 DEF OwnersOf, OwnedBy, NodesOf, Registered
<1> QED BY <1>2, <1>3, <1>4

LEMMA HeadOrTail ==
  ASSUME NEW S, NEW s \in Seq(S), s # <<>>
  PROVE  /\ \A x \in ToSet(s) : x = Head(s) \/ x \in ToSet(Tail(s))
         /\ Tail(s) \in Seq(S)
<1>1. ASSUME NEW i \in DOMAIN s, i # 1 PROVE s[i] = Tail(s)[i - 1] /\ i - 1 \in DOMAIN Tail(s)
  BY <1>1
<1>2. \A i \in DOMAIN s : i = 1 \/ s[i] \in ToSet(Tail(s))
  BY <1>1 DEF ToSet
<1> QED BY <1>2 DEF ToSet

LEMMA InOrder ==
  ASSUME NEW S, NEW blocks \in Seq(S)
  PROVE  /\ \E T : IdsInOrder(blocks) \in Seq(T)
         /\ Ids(blocks) = ToSet(IdsInOrder(blocks))
<1>1. IdsInOrder(blocks) \in Seq(Ids(blocks))
  BY DEF IdsInOrder, Ids
<1> QED BY <1>1 DEF IdsInOrder, Ids, ToSet

LEMMA AnswersInit == Init => AnswersInv
BY DEF Init, AnswersInv, RecordsWereTrue, VersionsWereTrue, MembersWereTrue, OwnersWereTrue,
   AllAreAsked

\* What a task adds is an answer of now.
LEMMA TaskAnswers ==
  ASSUME Frame, PoolInv, Task
  PROVE  /\ UNCHANGED <<config, worlds, now, started, pc, todo, live, Found>>
         /\ pc = "records" => \A a \in pool'.got : a \in pool.got \/ RecordOf(a)
         /\ pc = "versions" => \A a \in pool'.got : a.direct => a \in pool.got \/ VersionOf(a)
<1>1. UNCHANGED <<config, worlds, now, started, pc, todo, live, Found>>
  BY DEF Task, Take, InPool, Same, RecordRead, RecordFails, Endpoint, NodeAnswers,
     NodeUnreachable, DashboardAnswers, VersionUnread
<1>2. now \in Moments /\ world = worlds[now]
  BY NowIsAMoment
<1>3. ASSUME NEW id \in pool.queue, Take(id) PROVE pool'.got = pool.got
  BY <1>3 DEF Take, PoolInv, PoolShape
<1>4. ASSUME NEW t \in pool.busy, RecordFails(t) PROVE pool'.got = pool.got
  BY <1>4, FailureKeepsOnce DEF PoolInv
<1>5. ASSUME NEW t \in pool.busy, Endpoint(t) \/ NodeUnreachable(t) PROVE pool'.got = pool.got
  BY <1>5, StepKeepsOnce DEF PoolInv, Endpoint, NodeUnreachable
<1>6. ASSUME NEW t \in pool.busy, RecordRead(t)
      PROVE  /\ pc # "versions"
             /\ \A a \in pool'.got : a \in pool.got \/ RecordOf(a)
  <2>1. pool'.got = pool.got \union {[id |-> t.id, got |-> world.nodes[t.id], direct |-> TRUE]}
    BY <1>6, AnswerKeepsOnce DEF PoolInv, RecordRead
  <2>2. RecordOf([id |-> t.id, got |-> world.nodes[t.id], direct |-> TRUE])
    BY <1>2 DEF RecordOf
  <2> QED BY <1>6, <2>1, <2>2 DEF RecordRead
<1>7. ASSUME NEW t \in pool.busy, NodeAnswers(t)
      PROVE  /\ pc # "records"
             /\ \A a \in pool'.got : a \in pool.got \/ VersionOf(a)
  <2>1. pool'.got = pool.got \union {[id |-> t.id, got |-> world.running[t.id], direct |-> TRUE]}
    BY <1>7, AnswerKeepsOnce DEF PoolInv, NodeAnswers
  <2>2. VersionOf([id |-> t.id, got |-> world.running[t.id], direct |-> TRUE])
    BY <1>2 DEF VersionOf
  <2> QED BY <1>7, <2>1, <2>2 DEF NodeAnswers
<1>8. ASSUME NEW t \in pool.busy, VersionUnread(t)
      PROVE  /\ pc # "records"
             /\ \A a \in pool'.got : a \in pool.got \/ VersionOf(a)
  <2>1. pool'.got = pool.got \union {[id |-> t.id, got |-> None, direct |-> TRUE]}
    BY <1>8, AnswerKeepsOnce DEF PoolInv, VersionUnread
  <2>2. VersionOf([id |-> t.id, got |-> None, direct |-> TRUE])
    BY DEF VersionOf
  <2> QED BY <1>8, <2>1, <2>2 DEF VersionUnread
<1>9. ASSUME NEW t \in pool.busy, DashboardAnswers(t)
      PROVE  /\ pc # "records"
             /\ \A a \in pool'.got : a.direct => a \in pool.got
  <2>1. PICK k \in 1..now :
          pool'.got = pool.got
            \union {[id |-> t.id, got |-> worlds[k].running[t.id], direct |-> FALSE]}
    BY <1>9, AnswerKeepsOnce DEF PoolInv, DashboardAnswers
  <2> DEFINE d == [id |-> t.id, got |-> worlds[k].running[t.id], direct |-> FALSE]
  <2>2. d.direct = FALSE
    OBVIOUS
  <2>3. pool'.got = pool.got \union {d}
    BY <2>1
  <2> HIDE DEF d
  <2>4. \A a \in pool'.got : a.direct => a \in pool.got
    BY <2>2, <2>3
  <2> QED BY <1>9, <2>4 DEF DashboardAnswers
<1> QED BY <1>1, <1>3, <1>4, <1>5, <1>6, <1>7, <1>8, <1>9 DEF Task

LEMMA AnswersNextLoading ==
  ASSUME Frame, pc = "load", [Next]_vars
  PROVE  AnswersInv'
<1>1. /\ status' = {} /\ owned' = {}
      /\ pc' \in {"load", "members", "done"}
  BY DEF Frame, Fresh, NoPool, Next, Report, Load, Stop, ReadMembers, PendingEnds, ReadFacts,
     SubnetsEnd, RecordsEnd, ReadDataCenters, ReadProvider, ProvidersEnd, ReadOperator,
     OperatorsEnd, CheckChips, VersionsEnd, ReadElected, Conclude, Task, ElectedUnread,
     ReadFails, WorldMoves, Found, vars
<1> QED BY <1>1 DEF AnswersInv, RecordsWereTrue, VersionsWereTrue, MembersWereTrue,
         OwnersWereTrue, AllAreAsked

\* A step that changes none of the answers, and asks nothing new.
LEMMA AnswersQuiet ==
  ASSUME Frame, Onward, pc # "load", AnswersInv,
         UNCHANGED <<status, owned>>,
         \/ UNCHANGED <<pc, pool, live, todo>>
         \/ pc' \notin {"pending", "records", "versions", "providers", "operators"}
  PROVE  AnswersInv'
<1>1. /\ \A k \in Moments : k \in Moments' /\ worlds'[k] = worlds[k]
      /\ config' = config
  BY MomentsAreKept DEF Onward
<1>2. RecordsWereTrue' /\ VersionsWereTrue' /\ OwnersWereTrue'
  BY AnswersAreKept DEF AnswersInv, RecordsWereTrue, VersionsWereTrue, OwnersWereTrue
<1>3. MembersWereTrue'
  BY <1>1 DEF AnswersInv, MembersWereTrue, MembersOf
<1>4. AllAreAsked'
  BY <1>1 DEF AnswersInv, AllAreAsked, Asked
<1> QED BY <1>2, <1>3, <1>4 DEF AnswersInv

\* A read of a provider's operators or of an operator's nodes.
LEMMA AskedNext ==
  ASSUME NEW kind, NEW ids, NEW got, Asked(kind, ids),
         todo # <<>>, todo' = Tail(todo), Add(kind, Head(todo), got)
  PROVE  Asked(kind, ids)'
<1>1. PICK S : todo \in Seq(S)
  BY DEF Asked
<1>2. /\ \A x \in ToSet(todo) : x = Head(todo) \/ x \in ToSet(Tail(todo))
      /\ Tail(todo) \in Seq(S)
  BY <1>1, HeadOrTail
<1>3. [kind |-> kind, id |-> Head(todo), got |-> got] \in owned' /\ owned \subseteq owned'
  BY DEF Add
<1>4. ASSUME NEW id \in ids
      PROVE  id \in ToSet(todo') \/ \E a \in owned' : a.kind = kind /\ a.id = id
  BY <1>2, <1>3 DEF Asked
<1> QED BY <1>2, <1>4 DEF Asked

LEMMA AnswersNext ==
  ASSUME Frame, PoolInv, AnswersInv, [Next]_vars
  PROVE  AnswersInv'
<1>1. Frame' /\ Onward
  BY FrameNext
<1>2. CASE pc = "load"
  BY <1>2, AnswersNextLoading
<1>3. CASE pc # "load"
  <2>1. /\ \A k \in Moments : k \in Moments' /\ worlds'[k] = worlds[k]
        /\ config' = config
    BY <1>1, <1>3, MomentsAreKept DEF Onward
  <2>2. now \in Moments /\ now \in Moments' /\ world = worlds[now] /\ world = worlds'[now]
    BY <2>1, NowIsAMoment
  <2>3. /\ \A a \in status : RecordOf(a)'
        /\ \A a \in owned : OwnersOf(a)'
    BY <1>1, <1>3, AnswersAreKept DEF AnswersInv, RecordsWereTrue, OwnersWereTrue
  <2> DEFINE Idle == pc' \notin {"pending", "records", "versions", "providers", "operators"}
  <2>4. CASE UNCHANGED <<status, owned>> /\ (Idle \/ UNCHANGED <<pc, pool, live, todo>>)
    BY <1>1, <1>3, <2>4, AnswersQuiet
  <2>5. CASE Task
    <3>1. /\ UNCHANGED <<pc, todo, live, status, owned>>
          /\ pc = "records" => \A a \in pool'.got : a \in pool.got \/ RecordOf(a)
          /\ pc = "versions" => \A a \in pool'.got : a.direct => a \in pool.got \/ VersionOf(a)
      BY <2>5, TaskAnswers DEF Found
    <3>2. RecordsWereTrue'
      BY <1>1, <1>3, <2>3, <3>1, AnswersAreKept DEF AnswersInv, RecordsWereTrue
    <3>3. VersionsWereTrue'
      BY <1>1, <1>3, <3>1, AnswersAreKept DEF AnswersInv, VersionsWereTrue
    <3>4. MembersWereTrue'
      BY <2>1, <3>1 DEF AnswersInv, MembersWereTrue, MembersOf
    <3>5. OwnersWereTrue' /\ AllAreAsked'
      BY <2>1, <2>3, <3>1 DEF AnswersInv, OwnersWereTrue, AllAreAsked, Asked
    <3> QED BY <3>2, <3>3, <3>4, <3>5 DEF AnswersInv
  <2>6. CASE ReadMembers
    <3>1. MembersWereTrue'
      BY <2>2, <2>6 DEF ReadMembers, MembersWereTrue, MembersOf
    <3> QED BY <2>3, <2>6, <3>1 DEF ReadMembers, Found, AnswersInv, RecordsWereTrue,
            VersionsWereTrue, OwnersWereTrue, AllAreAsked
  <2>7. CASE SubnetsEnd
    <3>1. pool'.got = {}
      BY <2>7, NewPoolIsOnce DEF SubnetsEnd
    <3> QED BY <2>3, <2>7, <3>1 DEF SubnetsEnd, Found, AnswersInv, RecordsWereTrue,
            VersionsWereTrue, MembersWereTrue, OwnersWereTrue, AllAreAsked
  <2>8. CASE CheckChips
    <3>1. pool'.got = {}
      BY <2>8, NewPoolIsOnce DEF CheckChips
    <3> QED BY <2>3, <2>8, <3>1 DEF CheckChips, AnswersInv, RecordsWereTrue,
            VersionsWereTrue, MembersWereTrue, OwnersWereTrue, AllAreAsked
  <2>9. CASE RecordsEnd
    <3>1. \A a \in status' : RecordOf(a)'
      BY <1>1, <1>3, <2>3, <2>9, AnswersAreKept
         DEF RecordsEnd, Error, AnswersInv, RecordsWereTrue
    <3>2. pc' \in {"dcs", "done"} /\ owned' = owned
      BY <2>9 DEF RecordsEnd, Error, Stop
    <3> QED BY <2>3, <3>1, <3>2 DEF AnswersInv, RecordsWereTrue,
            VersionsWereTrue, MembersWereTrue, OwnersWereTrue, AllAreAsked
  <2>10. CASE ReadDataCenters \/ ProvidersEnd
    <3>1. UNCHANGED <<status, owned>> /\ pc' \in {"chips", "providers", "operators"}
      BY <2>10 DEF ReadDataCenters, ProvidersEnd
    <3>2. AllAreAsked'
      <4>1. config \in Inventory
        BY ConfigsAssumption DEF Frame
      <4>2. /\ \E T : IdsInOrder(config.providers) \in Seq(T)
            /\ Ids(config.providers) = ToSet(IdsInOrder(config.providers))
        BY <4>1, InOrder DEF Inventory
      <4>3. /\ \E T : IdsInOrder(config.operators) \in Seq(T)
            /\ Ids(config.operators) = ToSet(IdsInOrder(config.operators))
        BY <4>1, InOrder DEF Inventory
      <4>4. CASE ReadDataCenters
        BY <2>1, <4>2, <4>4 DEF ReadDataCenters, AllAreAsked, Asked
      <4>5. CASE ProvidersEnd
        BY <2>1, <4>3, <4>5 DEF ProvidersEnd, AllAreAsked, Asked
      <4> QED BY <2>10, <4>4, <4>5
    <3> QED BY <2>3, <3>1, <3>2 DEF AnswersInv, RecordsWereTrue,
            VersionsWereTrue, MembersWereTrue, OwnersWereTrue
  <2>11. CASE ReadProvider
    <3>0. PICK a : a = [kind |-> "provider", id |-> Head(todo), got |-> OwnedBy(world, Head(todo))]
      OBVIOUS
    <3>1. OwnersOf(a)'
      <4>1. a.kind = "provider" /\ a.got = OwnedBy(worlds'[now], a.id)
        BY <2>2, <3>0
      <4> QED BY <2>2, <4>1 DEF OwnersOf, OwnedBy
    <3>2. owned' = owned \union {a}
      BY <2>11, <3>0 DEF ReadProvider, Add
    <3>3. OwnersWereTrue'
      BY <2>3, <3>1, <3>2 DEF OwnersWereTrue
    <3>4. AllAreAsked'
      <4>1. Asked("provider", Ids(config.providers))'
        BY <2>1, <2>11, AskedNext DEF ReadProvider, AnswersInv, AllAreAsked
      <4> QED BY <2>11, <4>1 DEF ReadProvider, AllAreAsked
    <3> QED BY <2>3, <2>11, <3>3, <3>4 DEF ReadProvider, AnswersInv, RecordsWereTrue,
            VersionsWereTrue, MembersWereTrue
  <2>12. CASE ReadOperator
    <3>0. PICK a : a = [kind |-> "operator", id |-> Head(todo), got |-> NodesOf(world, Head(todo))]
      OBVIOUS
    <3>1. OwnersOf(a)'
      <4>1. a.kind = "operator" /\ a.got = NodesOf(worlds'[now], a.id)
        BY <2>2, <3>0
      <4> QED BY <2>2, <4>1 DEF OwnersOf, NodesOf, Registered
    <3>2. owned' = owned \union {a}
      BY <2>12, <3>0 DEF ReadOperator, Add
    <3>3. OwnersWereTrue'
      BY <2>3, <3>1, <3>2 DEF OwnersWereTrue
    <3>4. AllAreAsked'
      <4>1. Asked("operator", Ids(config.operators))'
        BY <2>1, <2>12, AskedNext DEF ReadOperator, AnswersInv, AllAreAsked
      <4> QED BY <2>12, <4>1 DEF ReadOperator, AllAreAsked
    <3> QED BY <2>3, <2>12, <3>3, <3>4 DEF ReadOperator, AnswersInv, RecordsWereTrue,
            VersionsWereTrue, MembersWereTrue
  <2>13. ASSUME PendingEnds \/ ReadFacts \/ OperatorsEnd \/ VersionsEnd \/ ReadElected
                \/ Conclude \/ ElectedUnread \/ ReadFails
         PROVE  UNCHANGED <<status, owned>> /\ Idle
    BY <2>13 DEF PendingEnds, Error, Stop, ReadFacts, OperatorsEnd, VersionsEnd, ReadElected,
       Conclude, ElectedUnread, ReadFails
  <2>14. ASSUME WorldMoves \/ UNCHANGED vars
         PROVE  UNCHANGED <<status, owned, pc, pool, live, todo>>
    BY <2>14 DEF WorldMoves, Found, vars
  <2>15. ~Load
    BY <1>3 DEF Load
  <2> HIDE DEF Idle
  <2> QED BY <2>4, <2>5, <2>6, <2>7, <2>8, <2>9, <2>10, <2>11, <2>12, <2>13, <2>14, <2>15
          DEF Next, Report
<1> QED BY <1>2, <1>3

LEMMA AnswersHold == Spec => []AnswersInv
<1>1. Init => AnswersInv
  BY AnswersInit
<1>2. Frame /\ PoolInv /\ AnswersInv /\ [Next]_vars => AnswersInv'
  BY AnswersNext
<1> QED BY <1>1, <1>2, FrameHolds, PoolHolds, PTL DEF Spec

-----------------------------------------------------------------------------
(***************************************************************************)
(* The classifiers: what one flags on a true answer does not hold then.    *)
(***************************************************************************)

LEMMA MemberDrift ==
  ASSUME NEW s, NEW w, NEW item \in Reconcile(s, w.members[s])
  PROVE  ~Holds(item, w) /\ item[1] = "member"
<1> DEFINE declared == {n.id : n \in {b \in ToSet(config.nodes) : b.subnet = s}}
<1>1. PICK n : /\ item = <<"member", s, n>>
               /\ n \in (declared \ w.members[s]) \union (w.members[s] \ declared)
  BY DEF Reconcile
<1>2. n \in declared <=> \E b \in ToSet(config.nodes) : b.id = n /\ b.subnet = s
  OBVIOUS
<1>3. ~((n \in w.members[s]) <=> (\E b \in ToSet(config.nodes) : b.id = n /\ b.subnet = s))
  BY <1>1, <1>2
<1>4. item[1] = "member" /\ item[2] = s /\ item[3] = n
  BY <1>1
<1> QED BY <1>3, <1>4, Zenon DEF Holds

LEMMA RecordDrift ==
  ASSUME NEW s, NEW w, NEW item \in ReconcileSubnetRecord(s, w.facts[s])
  PROVE  ~Holds(item, w) /\ item[1] = "record"
<1> DEFINE b == SubnetBlock(s)
           f == w.facts[s]
<1>1. /\ item = <<"record", s>>
      /\ ~(/\ DeclaredType(b) = IF f.type = None THEN "application" ELSE f.type
           /\ DeclaredCostSchedule(b) = IF f.schedule = None THEN "normal" ELSE f.schedule
           /\ b.admins = f.admins /\ b.sev = (f.sev = TRUE))
  BY DEF ReconcileSubnetRecord
<1>2. item[1] = "record" /\ item[2] = s
  BY <1>1
<1>3. (f.type = b.type \/ {f.type, b.type} \subseteq {None, "application"})
        => DeclaredType(b) = IF f.type = None THEN "application" ELSE f.type
  BY DEF DeclaredType
<1> QED BY <1>1, <1>2, <1>3, Zenon DEF Holds

LEMMA DcDrift ==
  ASSUME UniqueInventory, NEW w, NEW d \in ToSet(config.dcs),
         NEW item \in ReconcileDataCenter(d, w.dcs[d.id])
  PROVE  ~Holds(item, w) /\ item[1] = "dc"
<1>1. /\ item = <<"dc", d.id>>
      /\ \/ w.dcs[d.id] = None
         \/ d.region # None /\ d.region # w.dcs[d.id]
  BY DEF ReconcileDataCenter
<1>2. item[1] = "dc" /\ item[2] = d.id
  BY <1>1
<1>3. ~ \E e \in ToSet(config.dcs) :
          e.id = d.id /\ w.dcs[e.id] # None /\ e.region \in {None, w.dcs[e.id]}
  BY <1>1 DEF UniqueInventory, UniqueBlocks
<1> QED BY <1>2, <1>3 DEF Holds

LEMMA ChipDrift ==
  ASSUME UniqueInventory, NEW w, NEW b \in ToSet(config.nodes),
         Registered(w, b.id), w.nodes[b.id].chip # b.chip
  PROVE  ~Holds(<<"chip", b.id>>, w)
BY DeclaredIsItsBlock DEF Holds

LEMMA VersionDrift ==
  ASSUME UniqueInventory, NEW w, NEW b \in ToSet(config.nodes),
         w.running[b.id] \notin {None, ExpectedVersion(config, b)}
  PROVE  ~Holds(<<"version", b.id>>, w)
BY DeclaredIsItsBlock DEF Holds

LEMMA OwnerDrift ==
  ASSUME UniqueInventory, NEW w, NEW b \in ToSet(config.nodes),
         IF b.gone THEN Registered(w, b.id)
         ELSE ~(Registered(w, b.id) /\ w.nodes[b.id].operator = b.operator)
  PROVE  ~Holds(<<"owner", b.id>>, w)
BY DeclaredIsItsBlock DEF Holds

LEMMA UnmanagedDrift ==
  ASSUME NEW w, NEW o, NEW n, n \in NodesOf(w, o)
  PROVE  ~Holds(<<"unmanaged", o, n>>, w)
BY DEF Holds

\* An operator that holds is owned by its provider in that world, and there
\* classifyOperator finds nothing wrong with the provider's whole answer.
LEMMA OperatorHolds ==
  ASSUME UniqueInventory, NEW w, NEW o \in ToSet(config.operators), o.id \in Operators,
         Holds(<<"operator", o.id>>, w)
  PROVE  IF o.gone \/ GoneProvider(o.provider)
           THEN \A a \in OwnedBy(w, o.provider) : a.id # o.id
         ELSE /\ o.provider \in Ids(config.providers)
              /\ classifyOperator(o, OwnedBy(w, o.provider))
<1> DEFINE r == w.operators[o.id]
           owned_by == r # None /\ r.provider = o.provider
<1>1. PICK p \in ToSet(config.operators) :
        /\ p.id = o.id
        /\ LET q == w.operators[p.id]
               ob == q # None /\ q.provider = p.provider
           IN IF p.gone \/ GoneProvider(p.provider) THEN ~ob
              ELSE /\ ob /\ p.provider \in Ids(config.providers)
                   /\ p.dc \in {None, q.dc}
                   /\ \A d \in ToSet(config.dcs) :
                        d.id = p.dc => d.region = None \/ w.dcs[q.dc] \in {None, d.region}
  BY DEF Holds
<1>2. p = o
  BY <1>1 DEF UniqueInventory, UniqueBlocks
<1>3. IF o.gone \/ GoneProvider(o.provider) THEN ~owned_by
      ELSE /\ owned_by /\ o.provider \in Ids(config.providers)
           /\ o.dc \in {None, r.dc}
           /\ \A d \in ToSet(config.dcs) :
                d.id = o.dc => d.region = None \/ w.dcs[r.dc] \in {None, d.region}
  BY <1>1, <1>2
<1>4. (\E a \in OwnedBy(w, o.provider) : a.id = o.id) => owned_by
  BY DEF OwnedBy
<1>5. owned_by => [id |-> o.id, dc |-> r.dc, region |-> w.dcs[r.dc]] \in OwnedBy(w, o.provider)
  BY DEF OwnedBy
<1>6. CASE o.gone \/ GoneProvider(o.provider)
  BY <1>3, <1>4, <1>6
<1>7. CASE ~(o.gone \/ GoneProvider(o.provider))
  <2> DEFINE a == [id |-> o.id, dc |-> r.dc, region |-> w.dcs[r.dc]]
  <2>1. a.id = o.id /\ a.dc = r.dc /\ a.region = w.dcs[r.dc]
    OBVIOUS
  <2>2. a \in OwnedBy(w, o.provider)
    BY <1>3, <1>5, <1>7
  <2> HIDE DEF a, owned_by
  <2>3. classifyOperator(o, OwnedBy(w, o.provider))
    BY <1>3, <1>7, <2>1, <2>2 DEF classifyOperator
  <2> QED BY <1>3, <1>7, <2>3
<1> QED BY <1>6, <1>7

-----------------------------------------------------------------------------
(***************************************************************************)
(* The classifiers, the other way: what one leaves alone does hold then.   *)
(***************************************************************************)

LEMMA MembersAgree ==
  ASSUME NEW s, NEW w, Reconcile(s, w.members[s]) = {}, NEW n
  PROVE  Holds(<<"member", s, n>>, w)
<1> DEFINE declared == {b.id : b \in {c \in ToSet(config.nodes) : c.subnet = s}}
<1>1. n \in declared <=> n \in w.members[s]
  BY DEF Reconcile
<1>2. n \in declared <=> \E b \in ToSet(config.nodes) : b.id = n /\ b.subnet = s
  OBVIOUS
<1>3. (n \in w.members[s]) <=> (\E b \in ToSet(config.nodes) : b.id = n /\ b.subnet = s)
  BY <1>1, <1>2
<1> DEFINE item == <<"member", s, n>>
<1>4. item[1] = "member" /\ item[2] = s /\ item[3] = n
  OBVIOUS
<1> HIDE DEF item
<1>5. Holds(item, w)
  BY <1>3, <1>4, Zenon DEF Holds
<1> QED BY <1>5 DEF item

LEMMA RecordAgrees ==
  ASSUME NEW s, NEW w, ReconcileSubnetRecord(s, w.facts[s]) = {}
  PROVE  Holds(<<"record", s>>, w)
<1> DEFINE b == SubnetBlock(s)
           f == w.facts[s]
           item == <<"record", s>>
<1>1. /\ DeclaredType(b) = IF f.type = None THEN "application" ELSE f.type
      /\ DeclaredCostSchedule(b) = IF f.schedule = None THEN "normal" ELSE f.schedule
      /\ b.admins = f.admins /\ b.sev = (f.sev = TRUE)
  BY DEF ReconcileSubnetRecord
<1>2. f.type = b.type \/ {f.type, b.type} \subseteq {None, "application"}
  BY <1>1 DEF DeclaredType
<1>3. item[1] = "record" /\ item[2] = s
  OBVIOUS
<1> HIDE DEF item
<1>4. Holds(item, w)
  BY <1>1, <1>2, <1>3, Zenon DEF Holds
<1> QED BY <1>4 DEF item

LEMMA DcAgrees ==
  ASSUME NEW w, NEW d \in ToSet(config.dcs), ReconcileDataCenter(d, w.dcs[d.id]) = {}
  PROVE  Holds(<<"dc", d.id>>, w)
<1>1. w.dcs[d.id] # None /\ d.region \in {None, w.dcs[d.id]}
  BY DEF ReconcileDataCenter
<1> QED BY <1>1 DEF Holds

LEMMA ChipAgrees ==
  ASSUME UniqueInventory, NEW w, NEW b \in ToSet(config.nodes),
         Registered(w, b.id) => w.nodes[b.id].chip = b.chip
  PROVE  Holds(<<"chip", b.id>>, w)
BY DeclaredIsItsBlock DEF Holds

LEMMA VersionAgrees ==
  ASSUME UniqueInventory, NEW w, NEW b \in ToSet(config.nodes),
         w.running[b.id] \in {None, ExpectedVersion(config, b)}
  PROVE  Holds(<<"version", b.id>>, w)
BY DeclaredIsItsBlock DEF Holds

LEMMA OwnerAgrees ==
  ASSUME UniqueInventory, NEW w, NEW b \in ToSet(config.nodes),
         IF b.gone THEN ~Registered(w, b.id)
         ELSE Registered(w, b.id) /\ w.nodes[b.id].operator = b.operator
  PROVE  Holds(<<"owner", b.id>>, w)
BY DeclaredIsItsBlock DEF Holds

LEMMA ManagedAgrees ==
  ASSUME NEW w, NEW o, NEW n, n \notin NodesOf(w, o)
  PROVE  Holds(<<"unmanaged", o, n>>, w)
BY DEF Holds

LEMMA OperatorAgrees ==
  ASSUME NEW w, NEW o \in ToSet(config.operators), o.id \in Operators,
         o.provider \in Ids(config.providers),
         IF o.gone \/ GoneProvider(o.provider)
           THEN \A a \in OwnedBy(w, o.provider) : a.id # o.id
         ELSE classifyOperator(o, OwnedBy(w, o.provider))
  PROVE  Holds(<<"operator", o.id>>, w)
<1> DEFINE r == w.operators[o.id]
           owned_by == r # None /\ r.provider = o.provider
           item == <<"operator", o.id>>
<1>1. IF o.gone \/ GoneProvider(o.provider) THEN ~owned_by
      ELSE /\ owned_by /\ o.provider \in Ids(config.providers)
           /\ o.dc \in {None, r.dc}
           /\ \A d \in ToSet(config.dcs) :
                d.id = o.dc => d.region = None \/ w.dcs[r.dc] \in {None, d.region}
  <2>1. CASE o.gone \/ GoneProvider(o.provider)
    <3>1. owned_by => [id |-> o.id, dc |-> r.dc, region |-> w.dcs[r.dc]] \in OwnedBy(w, o.provider)
      BY DEF OwnedBy
    <3> QED BY <2>1, <3>1
  <2>2. CASE ~(o.gone \/ GoneProvider(o.provider))
    <3>1. PICK a \in OwnedBy(w, o.provider) :
            /\ a.id = o.id
            /\ o.dc # None => a.dc = o.dc
            /\ \A d \in ToSet(config.dcs) :
                 d.id = o.dc /\ d.region # None /\ a.region # None => d.region = a.region
      BY <2>2 DEF classifyOperator
    <3>2. owned_by /\ a.dc = r.dc /\ a.region = w.dcs[r.dc]
      BY <3>1 DEF OwnedBy
    <3> HIDE DEF owned_by
    <3> QED BY <2>2, <3>1, <3>2
  <2> QED BY <2>1, <2>2
<1>2. item[1] = "operator" /\ item[2] = o.id
  OBVIOUS
<1> HIDE DEF item
<1>3. Holds(item, w)
  BY <1>1, <1>2, Zenon DEF Holds
<1> QED BY <1>3 DEF item

-----------------------------------------------------------------------------
(***************************************************************************)
(* Drift.                                                                  *)
(***************************************************************************)

Drifted(item) == \E k \in Moments : ~Holds(item, worlds[k])

Explained(item) ==
  \/ Drifted(item)
  \/ pc \in {"elected", "done"} /\ item \in Secondhand
  \/ item[1] = "chip" /\ Block(config, item[2]).chip \notin Vouched

FlaggedInv == \A item \in flagged : Explained(item)

LEMMA ProviderDrift ==
  ASSUME Frame, AnswersInv, pc = "providers", todo = <<>>, NEW item \in ReconcileProviders
  PROVE  Drifted(item)
<1>1. UniqueInventory /\ now \in Moments
  BY NowIsAMoment DEF Frame
<1>2. PICK o \in ToSet(config.operators) :
        /\ item = <<"operator", o.id>>
        /\ LET answers == Answers("provider", o.provider)
           IN IF o.gone \/ GoneProvider(o.provider)
                THEN \E a \in answers : a.id = o.id
              ELSE \/ o.provider \notin Ids(config.providers)
                   \/ ~classifyOperator(o, answers)
  BY DEF ReconcileProviders
<1>3. o.id \in Operators
  BY DeclaredIds DEF Frame
<1>4. SUFFICES ASSUME \A k \in Moments : Holds(<<"operator", o.id>>, worlds[k])
               PROVE  FALSE
  BY <1>2 DEF Drifted
<1>5. \A k \in Moments :
        IF o.gone \/ GoneProvider(o.provider)
          THEN \A a \in OwnedBy(worlds[k], o.provider) : a.id # o.id
        ELSE /\ o.provider \in Ids(config.providers)
             /\ classifyOperator(o, OwnedBy(worlds[k], o.provider))
  BY <1>1, <1>3, <1>4, OperatorHolds
<1>6. \A b \in owned : b.kind = "provider" /\ b.id = o.provider =>
        \E k \in Moments : b.got = OwnedBy(worlds[k], o.provider)
  BY DEF AnswersInv, OwnersWereTrue, OwnersOf
<1>7. CASE o.gone \/ GoneProvider(o.provider)
  BY <1>2, <1>5, <1>6, <1>7 DEF Answers
<1>8. CASE ~(o.gone \/ GoneProvider(o.provider))
  <2>1. o.provider \in Ids(config.providers) /\ ~classifyOperator(o, Answers("provider", o.provider))
    BY <1>1, <1>2, <1>5, <1>8
  <2>2. PICK b \in owned : b.kind = "provider" /\ b.id = o.provider
    BY <2>1 DEF AnswersInv, AllAreAsked, Asked, ToSet
  <2>3. PICK k \in Moments : b.got = OwnedBy(worlds[k], o.provider)
    BY <1>6, <2>2
  <2>4. OwnedBy(worlds[k], o.provider) \subseteq Answers("provider", o.provider)
    BY <2>2, <2>3 DEF Answers
  <2>5. classifyOperator(o, OwnedBy(worlds[k], o.provider))
    BY <1>5, <1>8
  <2> QED BY <2>1, <2>4, <2>5 DEF classifyOperator
<1> QED BY <1>7, <1>8

LEMMA OwnershipDrift ==
  ASSUME Frame, AnswersInv, pc = "operators", todo = <<>>, NEW owner \in Owners,
         NEW item \in ReconcileOperatorNodes(owner) \union ApplyNodeStatus
  PROVE  Drifted(item)
<1>1. UniqueInventory
  BY DEF Frame
<1>3. \A n \in Nodes :
        owner[n] # None => \E k \in Moments : n \in NodesOf(worlds[k], owner[n])
  <2>1. SUFFICES ASSUME NEW n \in Nodes, owner[n] # None
                 PROVE  \E k \in Moments : n \in NodesOf(worlds[k], owner[n])
    OBVIOUS
  <2>2. n \in Answers("operator", owner[n])
    BY <2>1 DEF Owners, Lists
  <2> QED BY <2>2 DEF Answers, AnswersInv, OwnersWereTrue, OwnersOf
<1>4. \A n \in Nodes, o \in Ids(config.operators) :
        owner[n] # o => \E k \in Moments : ~(Registered(worlds[k], n)
                                              /\ worlds[k].nodes[n].operator = o)
  <2>1. SUFFICES ASSUME NEW n \in Nodes, NEW o \in Ids(config.operators), owner[n] # o
                 PROVE  \E k \in Moments : ~(Registered(worlds[k], n)
                                              /\ worlds[k].nodes[n].operator = o)
    OBVIOUS
  <2>2. PICK a \in owned : a.kind = "operator" /\ a.id = o
    BY DEF AnswersInv, AllAreAsked, Asked, ToSet
  <2>3. PICK k \in Moments : a.got = NodesOf(worlds[k], o)
    BY <2>2 DEF AnswersInv, OwnersWereTrue, OwnersOf
  <2>4. CASE n \in NodesOf(worlds[k], o)
    <3>1. o \in Lists(n)
      BY <2>2, <2>3, <2>4 DEF Lists, Answers
    <3>2. owner[n] \in Lists(n)
      BY <3>1 DEF Owners
    <3>3. \E j \in Moments : n \in NodesOf(worlds[j], owner[n])
      BY <3>2 DEF Lists, Answers, AnswersInv, OwnersWereTrue, OwnersOf
    <3> QED BY <2>1, <3>3 DEF NodesOf
  <2>5. CASE n \notin NodesOf(worlds[k], o)
    BY <2>5 DEF NodesOf
  <2> QED BY <2>4, <2>5
<1>5. ASSUME NEW b \in ToSet(config.nodes), b.operator # None, item = <<"owner", b.id>>,
             \E k \in Moments :
               IF b.gone THEN Registered(worlds[k], b.id)
               ELSE ~(Registered(worlds[k], b.id) /\ worlds[k].nodes[b.id].operator = b.operator)
      PROVE  Drifted(item)
  BY <1>1, <1>5, OwnerDrift DEF Drifted
<1>6. CASE item \in ReconcileOperatorNodes(owner) /\ item[1] = "owner"
  <2>1. PICK b \in ToSet(config.nodes) :
          /\ b.operator # None /\ item = <<"owner", b.id>>
          /\ IF b.gone THEN owner[b.id] # None ELSE owner[b.id] # b.operator
    BY <1>6 DEF ReconcileOperatorNodes
  <2>2. b.id \in Nodes
    BY DeclaredIds DEF Frame
  <2>3. b.operator \in Ids(config.operators)
    BY <2>1, ConfigsAssumption DEF Frame, Optional
  <2>4. CASE b.gone
    BY <1>3, <1>5, <2>1, <2>2, <2>4 DEF NodesOf
  <2>5. CASE ~b.gone
    BY <1>4, <1>5, <2>1, <2>2, <2>3, <2>5
  <2> QED BY <2>4, <2>5
<1>7. CASE item \in ReconcileOperatorNodes(owner) /\ item[1] # "owner"
  <2>1. PICK n \in Nodes : owner[n] # None /\ item = <<"unmanaged", owner[n], n>>
    BY <1>7 DEF ReconcileOperatorNodes
  <2> QED BY <1>3, <2>1, UnmanagedDrift DEF Drifted
<1>8. CASE item \in ApplyNodeStatus
  <2>1. PICK b \in ToSet(config.nodes) :
          /\ b.operator # None /\ b.gone /\ item = <<"owner", b.id>>
          /\ \E a \in status : a.id = b.id /\ a.got # None
    BY <1>8 DEF ApplyNodeStatus
  <2>2. \E k \in Moments : Registered(worlds[k], b.id)
    BY <2>1 DEF AnswersInv, RecordsWereTrue, RecordOf, Registered
  <2> QED BY <1>5, <2>1, <2>2
<1> QED BY <1>6, <1>7, <1>8

\* What explains a row goes on explaining it.
LEMMA ExplanationsAreKept ==
  ASSUME Frame, Onward, pc # "load",
         pc \in {"elected", "done"} => pc' \in {"elected", "done"} /\ pool' = pool
  PROVE  \A item : Explained(item) => Explained(item)'
<1>1. /\ \A k \in Moments : k \in Moments' /\ worlds'[k] = worlds[k]
      /\ config' = config
  BY MomentsAreKept DEF Onward
<1>2. \A item, w : Holds(item, w)' <=> Holds(item, w)
  BY <1>1 DEF Holds, SubnetBlock, GoneProvider
<1>3. \A item : Drifted(item) => Drifted(item)'
  BY <1>1, <1>2 DEF Drifted
<1>4. pc \in {"elected", "done"} => Secondhand' = Secondhand
  BY <1>1 DEF Secondhand
<1> QED BY <1>1, <1>3, <1>4 DEF Explained

LEMMA ChipsDrift ==
  ASSUME Frame, AnswersInv, pc = "chips", NEW refused \in SUBSET (ChipIds \ Vouched),
         NEW item \in ReconcileNodeSev(refused)
  PROVE  Explained(item)
<1>1. UniqueInventory
  BY DEF Frame
<1>2. PICK b \in ToSet(config.nodes), a \in status :
        /\ item = <<"chip", b.id>> /\ a.id = b.id /\ a.got # None
        /\ a.got.chip # b.chip \/ a.got.chip \in refused
  BY DEF ReconcileNodeSev
<1>3. PICK k \in Moments : a.got = worlds[k].nodes[b.id]
  BY <1>2 DEF AnswersInv, RecordsWereTrue, RecordOf
<1>4. CASE a.got.chip # b.chip
  BY <1>1, <1>2, <1>3, <1>4, ChipDrift DEF Explained, Drifted, Registered
<1>5. CASE a.got.chip = b.chip
  BY <1>1, <1>2, <1>5, DeclaredIsItsBlock DEF Explained
<1> QED BY <1>4, <1>5

\* A version row was read from the node, or is second-hand.
LEMMA VersionsDrift ==
  ASSUME Frame, PoolInv, AnswersInv, pc = "versions", NEW item \in ReconcileNodeVersions(pool.got)
  PROVE  Drifted(item) \/ item \in Secondhand
<1>1. UniqueInventory
  BY DEF Frame
<1>2. PICK b \in VersionCheckedNodes(config), a \in pool.got :
        /\ item = <<"version", b.id>> /\ a.id = b.id
        /\ a.got \notin {None, ExpectedVersion(config, b)}
  BY DEF ReconcileNodeVersions
<1>3. b \in ToSet(config.nodes)
  BY DEF VersionCheckedNodes
<1>4. CASE a.direct
  <2>1. PICK k \in Moments : a.got = worlds[k].running[b.id]
    BY <1>2, <1>4 DEF AnswersInv, VersionsWereTrue, VersionOf
  <2> QED BY <1>1, <1>2, <1>3, <2>1, VersionDrift DEF Drifted
<1>5. CASE ~a.direct
  <2>1. \A c \in pool.got : c.id = b.id => ~c.direct
    BY <1>2, <1>5 DEF PoolInv, PoolOnce
  <2> QED BY <1>2, <2>1 DEF Secondhand
<1> QED BY <1>4, <1>5

LEMMA FlaggedNext ==
  ASSUME Frame, PoolInv, AnswersInv, FlaggedInv, [Next]_vars
  PROVE  FlaggedInv'
<1>1. Frame' /\ Onward
  BY FrameNext
<1>2. CASE pc = "load"
  <2>1. flagged' = {}
    BY <1>2 DEF Frame, Fresh, NoPool, Next, Report, Load, ReadMembers, PendingEnds, ReadFacts,
       SubnetsEnd, RecordsEnd, ReadDataCenters, ReadProvider, ProvidersEnd, ReadOperator,
       OperatorsEnd, CheckChips, VersionsEnd, ReadElected, Conclude, Task, ElectedUnread,
       ReadFails, WorldMoves, Found, vars
  <2> QED BY <2>1 DEF FlaggedInv
<1>3. CASE pc # "load"
  <2>1. ~Load
    BY <1>3 DEF Load
  <2>2. pc \in {"elected", "done"} => pc' \in {"elected", "done"} /\ pool' = pool
    <3>1. pc \in {"elected", "done"} => ~Task
      BY DEF PoolInv, PoolDone, Task
    <3> QED BY <2>1, <3>1 DEF Next, Report, ReadMembers, PendingEnds, ReadFacts, SubnetsEnd,
            RecordsEnd, ReadDataCenters, ReadProvider, ProvidersEnd, ReadOperator, OperatorsEnd,
            CheckChips, VersionsEnd, ReadElected, Conclude, Stop, ElectedUnread, ReadFails,
            WorldMoves, vars
  <2>3. \A item : Explained(item) => Explained(item)'
    BY <1>1, <1>3, <2>2, ExplanationsAreKept
  <2>4. SUFFICES ASSUME NEW item \in flagged', item \notin flagged
                 PROVE  Explained(item)'
    BY <2>3 DEF FlaggedInv
  <2>5. now \in Moments /\ world = worlds[now]
    BY NowIsAMoment
  <2>6. CASE PendingEnds
    <3>1. item \in Reconcile(Head(todo), live) /\ pc = "pending"
      BY <2>4, <2>6 DEF PendingEnds, Error
    <3>2. PICK k \in Moments : live = worlds[k].members[Head(todo)]
      BY <3>1 DEF AnswersInv, MembersWereTrue, MembersOf
    <3>3. ~Holds(item, worlds[k])
      BY <3>1, <3>2, MemberDrift
    <3> QED BY <2>3, <3>3 DEF Explained, Drifted
  <2>7. CASE ReadFacts
    <3>1. item \in ReconcileSubnetRecord(Head(todo), world.facts[Head(todo)])
      BY <2>4, <2>7 DEF ReadFacts
    <3>2. ~Holds(item, worlds[now])
      BY <2>5, <3>1, RecordDrift
    <3> QED BY <2>3, <2>5, <3>2 DEF Explained, Drifted
  <2>8. CASE ReadDataCenters
    <3>1. PICK d \in ToSet(config.dcs) : item \in ReconcileDataCenter(d, world.dcs[d.id])
      BY <2>4, <2>8 DEF ReadDataCenters
    <3>2. UniqueInventory
      BY <2>8 DEF ReadDataCenters, Frame
    <3>3. ~Holds(item, worlds[now])
      BY <2>5, <3>1, <3>2, DcDrift
    <3> QED BY <2>3, <2>5, <3>3 DEF Explained, Drifted
  <2>9. CASE ProvidersEnd
    <3>1. item \in ReconcileProviders /\ pc = "providers" /\ todo = <<>>
      BY <2>4, <2>9 DEF ProvidersEnd
    <3> QED BY <2>3, <3>1, ProviderDrift DEF Explained
  <2>10. CASE OperatorsEnd
    <3>1. PICK owner \in Owners : item \in ReconcileOperatorNodes(owner) \union ApplyNodeStatus
      BY <2>4, <2>10 DEF OperatorsEnd
    <3>2. Drifted(item)
      BY <2>10, <3>1, OwnershipDrift DEF OperatorsEnd
    <3> QED BY <2>3, <3>2 DEF Explained
  <2>11. CASE CheckChips
    <3>1. PICK refused \in SUBSET (ChipIds \ Vouched) : item \in ReconcileNodeSev(refused)
      BY <2>4, <2>11 DEF CheckChips
    <3> QED BY <2>3, <2>11, <3>1, ChipsDrift DEF CheckChips
  <2>12. CASE VersionsEnd
    <3>1. item \in ReconcileNodeVersions(pool.got) /\ pc = "versions" /\ pc' = "elected"
      BY <2>4, <2>12 DEF VersionsEnd
    <3>2. Drifted(item) \/ item \in Secondhand
      BY <3>1, VersionsDrift
    <3>3. config' = config /\ pool' = pool
      BY <2>12 DEF VersionsEnd, Same
    <3>4. item \in Secondhand => item \in Secondhand'
      BY <3>3 DEF Secondhand
    <3> QED BY <2>3, <3>1, <3>2, <3>4 DEF Explained
  <2>13. ASSUME Report, ~PendingEnds, ~ReadFacts, ~ReadDataCenters, ~ProvidersEnd, ~OperatorsEnd,
                ~CheckChips, ~VersionsEnd
         PROVE  flagged' = flagged
    BY <2>1, <2>13 DEF Report, ReadMembers, SubnetsEnd, RecordsEnd, Error, ReadProvider,
       ReadOperator, ReadElected, Conclude, Found
  <2>14. ASSUME Task PROVE flagged' = flagged
    BY <2>14, TaskAnswers DEF Found
  <2>15. ASSUME ElectedUnread \/ ReadFails \/ WorldMoves \/ UNCHANGED vars
         PROVE  flagged' = flagged
    BY <2>15 DEF ElectedUnread, ReadFails, Error, WorldMoves, Found, vars
  <2> QED BY <2>4, <2>6, <2>7, <2>8, <2>9, <2>10, <2>11, <2>12, <2>13, <2>14, <2>15 DEF Next
<1> QED BY <1>2, <1>3

\* A row of drift was true: at some moment of the report the network did
\* disagree on its item.  A version row that was not read from the node, and
\* a chip AMD does not vouch for, are the exceptions (reconcile, main.go).
THEOREM DriftIsReal == Spec => []DriftWasTrue
<1>1. Init => FlaggedInv
  BY DEF Init, FlaggedInv
<1>2. Frame /\ PoolInv /\ AnswersInv /\ FlaggedInv /\ [Next]_vars => FlaggedInv'
  BY FlaggedNext
<1>3. FlaggedInv => DriftWasTrue
  BY DEF FlaggedInv, Explained, Drifted, DriftWasTrue, SomeTime, Moments
<1> QED BY <1>1, <1>2, <1>3, FrameHolds, PoolHolds, AnswersHold, PTL DEF Spec

-----------------------------------------------------------------------------
(***************************************************************************)
(* A clean report: what each step looked at and did not flag did hold.     *)
(***************************************************************************)

Held(item) == \E k \in Moments : Holds(item, worlds[k])

\* The report is at one of these steps, or came to a clean end.
Past(labels) == pc \in labels \/ (pc = "done" /\ verdict = "clean" /\ ~Early)

FromElected == {"elected"}
FromVersions == {"versions"} \union FromElected
FromChips == {"chips"} \union FromVersions
FromOperators == {"operators"} \union FromChips
FromProviders == {"providers"} \union FromOperators
FromRecords == {"records", "dcs"} \union FromProviders

SubnetHeld(s) == Held(<<"record", s>>) /\ \A n \in Nodes : Held(<<"member", s, n>>)

SubnetsInv ==
  /\ pc \in {"members", "pending", "facts"} =>
       /\ \E S : todo \in Seq(S)
       /\ pc # "members" => todo # <<>>
       /\ \A s \in Ids(config.subnets) : s \in ToSet(todo) \/ SubnetHeld(s)
  /\ pc = "facts" => \A n \in Nodes : Held(<<"member", Head(todo), n>>)
  /\ Past(FromRecords) => \A s \in Ids(config.subnets) : SubnetHeld(s)

DcsInv == Past(FromProviders) => \A d \in Ids(config.dcs) : Held(<<"dc", d>>)

AskedOperators ==
  {o \in ToSet(config.operators) :
     o.provider # None /\ (o.gone => o.provider \in Ids(config.providers))}

OperatorsInv ==
  Past(FromOperators) /\ config.providers # <<>> =>
    \A o \in AskedOperators : Held(<<"operator", o.id>>)

OwnershipInv ==
  Past(FromChips) /\ config.providers # <<>> =>
    /\ \A n \in Tied : Held(<<"owner", n.id>>)
    /\ \A o \in Ids(config.operators), n \in Nodes \ {b.id : b \in Tied} :
         Held(<<"unmanaged", o, n>>)

ChipsInv ==
  Past(FromVersions) =>
    \A b \in ToSet(config.nodes) : ~b.gone => Held(<<"chip", b.id>>)

VersionsInv ==
  Past(FromElected) =>
    \A b \in VersionCheckedNodes(config) :
      <<"version", b.id>> \in Secondhand \/ Held(<<"version", b.id>>)

CoverInv ==
  flagged = {} => SubnetsInv /\ DcsInv /\ OperatorsInv /\ OwnershipInv /\ ChipsInv /\ VersionsInv

\* The nodes a pool still accounts for.
InHand(id) == \/ id \in pool.queue
              \/ \E t \in pool.busy : t.id = id
              \/ \E a \in pool.got : a.id = id

\* Every declared node's record is read, or the report ends with an error.
StatusInv ==
  /\ pc = "records" /\ pool.err # TRUE => \A id \in Ids(config.nodes) : InHand(id)
  /\ pc \in {"dcs"} \union FromProviders =>
       \A id \in Ids(config.nodes) : \E a \in status : a.id = id

EndInv == verdict = "clean" => pc = "done" /\ flagged = {}

LEMMA HeldIsKept ==
  ASSUME Frame, Onward, pc # "load"
  PROVE  \A item : Held(item) => Held(item)'
<1>1. /\ \A k \in Moments : k \in Moments' /\ worlds'[k] = worlds[k]
      /\ config' = config
  BY MomentsAreKept DEF Onward
<1>2. \A item, w : Holds(item, w)' <=> Holds(item, w)
  BY <1>1 DEF Holds, SubnetBlock, GoneProvider
<1> QED BY <1>1, <1>2 DEF Held

\* How a report moves on, and by which step it gets past each reading.
LEMMA PastNext ==
  ASSUME Frame, PoolInv, [Next]_vars, pc # "load"
  PROVE  /\ flagged \subseteq flagged'
         /\ Past(FromRecords)' => Past(FromRecords) \/ SubnetsEnd
         /\ Past(FromProviders)' => Past(FromProviders) \/ ReadDataCenters
         /\ Past(FromOperators)' =>
              Past(FromOperators) \/ ProvidersEnd \/ config'.providers = <<>>
         /\ Past(FromChips)' => Past(FromChips) \/ OperatorsEnd \/ config'.providers = <<>>
         /\ Past(FromVersions)' => Past(FromVersions) \/ CheckChips
         /\ Past(FromElected)' =>
              (Past(FromElected) /\ UNCHANGED pool) \/ VersionsEnd
<1> DEFINE Goal ==
         /\ flagged \subseteq flagged'
         /\ Past(FromRecords)' => Past(FromRecords) \/ SubnetsEnd
         /\ Past(FromProviders)' => Past(FromProviders) \/ ReadDataCenters
         /\ Past(FromOperators)' =>
              Past(FromOperators) \/ ProvidersEnd \/ config'.providers = <<>>
         /\ Past(FromChips)' => Past(FromChips) \/ OperatorsEnd \/ config'.providers = <<>>
         /\ Past(FromVersions)' => Past(FromVersions) \/ CheckChips
         /\ Past(FromElected)' =>
              (Past(FromElected) /\ UNCHANGED pool) \/ VersionsEnd
<1> SUFFICES Goal
  OBVIOUS
<1> USE DEF Past, FromRecords, FromProviders, FromOperators, FromChips, FromVersions, FromElected
<1>1. config' = config
  BY FrameNext DEF Onward
<1>2. Early' = Early
  BY <1>1 DEF Early
<1>3. ASSUME UNCHANGED <<pc, verdict, flagged>>, pc \in {"elected", "done"} => pool' = pool
      PROVE  Goal
  BY <1>2, <1>3
<1>4. CASE Task
  <2>1. UNCHANGED <<pc, verdict, flagged>>
    BY <1>4, TaskAnswers DEF Found
  <2>2. pc \notin {"elected", "done"}
    BY <1>4 DEF PoolInv, PoolDone, Task
  <2> QED BY <1>3, <2>1, <2>2
<1>5. CASE WorldMoves \/ ElectedUnread \/ ReadElected \/ ReadProvider \/ ReadOperator
           \/ UNCHANGED vars
  BY <1>3, <1>5 DEF WorldMoves, ElectedUnread, ReadElected, ReadProvider, ReadOperator, Found, vars
<1>6. CASE ReadFails
  BY <1>6 DEF ReadFails, Error, Stop
<1>7. CASE ReadMembers \/ ReadFacts \/ SubnetsEnd
  BY <1>7 DEF ReadMembers, ReadFacts, SubnetsEnd, Found
<1>8. CASE PendingEnds \/ RecordsEnd
  BY <1>8 DEF PendingEnds, RecordsEnd, Error, Stop
<1>9. CASE ReadDataCenters
  BY <1>1, <1>9 DEF ReadDataCenters
<1>10. CASE ProvidersEnd \/ OperatorsEnd
  BY <1>10 DEF ProvidersEnd, OperatorsEnd
<1>11. CASE CheckChips \/ VersionsEnd
  BY <1>11 DEF CheckChips, VersionsEnd
<1>12. CASE Conclude
  BY <1>12 DEF Conclude, Stop
<1>13. ~Load
  BY DEF Load
<1> HIDE DEF Goal, Past, FromRecords, FromProviders, FromOperators, FromChips, FromVersions,
         FromElected
<1> QED
  BY <1>4, <1>5, <1>6, <1>7, <1>8, <1>9, <1>10, <1>11, <1>12, <1>13 DEF Next, Report

LEMMA SubnetsNext ==
  ASSUME Frame, PoolInv, AnswersInv, SubnetsInv, [Next]_vars, pc # "load", flagged' = {}
  PROVE  SubnetsInv'
<1>1. Frame' /\ Onward
  BY FrameNext
<1>2. config' = config /\ \A item : Held(item) => Held(item)'
  BY <1>1, HeldIsKept DEF Onward
<1>3. \A s : SubnetHeld(s) => SubnetHeld(s)'
  BY <1>2 DEF SubnetHeld
<1>4. Past(FromRecords)' => \A s \in Ids(config.subnets) : SubnetHeld(s)'
  <2>1. CASE Past(FromRecords)
    BY <1>3, <2>1 DEF SubnetsInv
  <2>2. CASE SubnetsEnd
    BY <1>3, <2>2 DEF SubnetsInv, SubnetsEnd, ToSet
  <2> QED BY <2>1, <2>2, PastNext
<1>5. CASE UNCHANGED <<pc, todo>>
  BY <1>2, <1>3, <1>4, <1>5 DEF SubnetsInv
<1>6. CASE pc' \notin {"members", "pending", "facts"}
  BY <1>2, <1>4, <1>6 DEF SubnetsInv
<1>7. CASE ReadMembers
  BY <1>2, <1>3, <1>4, <1>7 DEF SubnetsInv, ReadMembers
<1>8. CASE PendingEnds
  <2>1. CASE pc' = "facts"
    <3>1. Reconcile(Head(todo), live) = {} /\ todo' = todo /\ pc = "pending"
      BY <1>8, <2>1 DEF PendingEnds, Error, Stop
    <3>2. PICK k \in Moments : live = worlds[k].members[Head(todo)]
      BY <3>1 DEF AnswersInv, MembersWereTrue, MembersOf
    <3>3. \A n \in Nodes : Held(<<"member", Head(todo), n>>)
      BY <3>1, <3>2, MembersAgree DEF Held
    <3> QED BY <1>2, <1>3, <1>4, <2>1, <3>1, <3>3 DEF SubnetsInv
  <2>2. CASE pc' = "done"
    BY <1>6, <2>2
  <2> QED BY <1>8, <2>1, <2>2 DEF PendingEnds, Error, Stop
<1>9. CASE ReadFacts
  <2>1. now \in Moments /\ world = worlds[now]
    BY NowIsAMoment
  <2>2. ReconcileSubnetRecord(Head(todo), world.facts[Head(todo)]) = {}
    BY <1>9 DEF ReadFacts
  <2>3. Held(<<"record", Head(todo)>>)
    BY <2>1, <2>2, RecordAgrees DEF Held
  <2>4. SubnetHeld(Head(todo))
    BY <1>9, <2>3 DEF SubnetsInv, SubnetHeld, ReadFacts
  <2>5. PICK S : todo \in Seq(S)
    BY <1>9 DEF SubnetsInv, ReadFacts
  <2>6. /\ \A x \in ToSet(todo) : x = Head(todo) \/ x \in ToSet(Tail(todo))
        /\ Tail(todo) \in Seq(S)
    BY <1>9, <2>5, HeadOrTail DEF SubnetsInv, ReadFacts
  <2>7. \A s \in Ids(config.subnets) : s \in ToSet(Tail(todo)) \/ SubnetHeld(s)'
    BY <1>3, <1>9, <2>4, <2>6 DEF SubnetsInv, ReadFacts
  <2> QED BY <1>2, <1>4, <1>9, <2>6, <2>7 DEF SubnetsInv, ReadFacts
<1>10. ASSUME Task \/ WorldMoves \/ UNCHANGED vars PROVE UNCHANGED <<pc, todo>>
  BY <1>10, TaskAnswers DEF WorldMoves, vars
<1>11. ASSUME SubnetsEnd \/ RecordsEnd \/ ReadDataCenters \/ ReadProvider \/ ProvidersEnd
              \/ ReadOperator \/ OperatorsEnd \/ CheckChips \/ VersionsEnd \/ ReadElected
              \/ Conclude \/ ElectedUnread \/ ReadFails
       PROVE  pc' \notin {"members", "pending", "facts"}
  BY <1>11 DEF SubnetsEnd, RecordsEnd, ReadDataCenters, ReadProvider, ProvidersEnd, ReadOperator,
     OperatorsEnd, CheckChips, VersionsEnd, ReadElected, Conclude, ElectedUnread, ReadFails,
     Error, Stop
<1>12. ~Load
  BY DEF Load
<1> QED BY <1>5, <1>6, <1>7, <1>8, <1>9, <1>10, <1>11, <1>12 DEF Next, Report

LEMMA DcsNext ==
  ASSUME Frame, PoolInv, DcsInv, [Next]_vars, pc # "load", flagged' = {}
  PROVE  DcsInv'
<1>1. Frame' /\ Onward
  BY FrameNext
<1>2. config' = config /\ \A item : Held(item) => Held(item)'
  BY <1>1, HeldIsKept DEF Onward
<1>3. CASE Past(FromProviders)
  BY <1>2, <1>3 DEF DcsInv
<1>4. CASE ReadDataCenters
  <2>1. now \in Moments /\ world = worlds[now]
    BY NowIsAMoment
  <2>2. \A d \in ToSet(config.dcs) : ReconcileDataCenter(d, world.dcs[d.id]) = {}
    BY <1>4 DEF ReadDataCenters
  <2>3. \A d \in ToSet(config.dcs) : Held(<<"dc", d.id>>)
    BY <2>1, <2>2, DcAgrees DEF Held
  <2> QED BY <1>2, <2>3 DEF DcsInv, Ids, ToSet
<1> QED BY <1>3, <1>4, PastNext DEF DcsInv

LEMMA OperatorsNext ==
  ASSUME Frame, PoolInv, AnswersInv, OperatorsInv, [Next]_vars, pc # "load", flagged' = {}
  PROVE  OperatorsInv'
<1>1. Frame' /\ Onward
  BY FrameNext
<1>2. config' = config /\ \A item : Held(item) => Held(item)'
  BY <1>1, HeldIsKept DEF Onward
<1>3. CASE Past(FromOperators)
  BY <1>2, <1>3 DEF OperatorsInv, AskedOperators
<1>4. CASE ProvidersEnd
  <2>1. SUFFICES ASSUME NEW o \in AskedOperators PROVE Held(<<"operator", o.id>>)
    BY <1>2 DEF OperatorsInv, AskedOperators
  <2>2. o \in ToSet(config.operators) /\ o.id \in Operators
    BY DeclaredIds DEF Frame, AskedOperators
  <2> DEFINE answers == Answers("provider", o.provider)
  <2>3. IF o.gone \/ GoneProvider(o.provider)
          THEN \A a \in answers : a.id # o.id
        ELSE /\ o.provider \in Ids(config.providers)
             /\ classifyOperator(o, answers)
    BY <1>4 DEF ProvidersEnd, ReconcileProviders, AskedOperators
  <2>4. o.provider \in Ids(config.providers)
    BY <2>3 DEF AskedOperators, GoneProvider, Ids, ToSet
  <2>5. PICK b \in owned : b.kind = "provider" /\ b.id = o.provider
    BY <1>4, <2>4 DEF ProvidersEnd, AnswersInv, AllAreAsked, Asked, ToSet
  <2>6. PICK k \in Moments : b.got = OwnedBy(worlds[k], o.provider)
    BY <2>5 DEF AnswersInv, OwnersWereTrue, OwnersOf
  <2>7. CASE o.gone \/ GoneProvider(o.provider)
    <3>1. OwnedBy(worlds[k], o.provider) \subseteq answers
      BY <2>5, <2>6 DEF Answers
    <3>2. Holds(<<"operator", o.id>>, worlds[k])
      BY <2>2, <2>3, <2>4, <2>7, <3>1, OperatorAgrees
    <3> QED BY <3>2 DEF Held
  <2>8. CASE ~(o.gone \/ GoneProvider(o.provider))
    <3>1. PICK a \in answers :
            /\ a.id = o.id
            /\ o.dc # None => a.dc = o.dc
            /\ \A d \in ToSet(config.dcs) :
                 d.id = o.dc /\ d.region # None /\ a.region # None => d.region = a.region
      BY <2>3, <2>8 DEF classifyOperator
    <3>2. PICK j \in Moments : a \in OwnedBy(worlds[j], o.provider)
      BY <3>1 DEF Answers, AnswersInv, OwnersWereTrue, OwnersOf
    <3>3. classifyOperator(o, OwnedBy(worlds[j], o.provider))
      BY <3>1, <3>2 DEF classifyOperator
    <3>4. Holds(<<"operator", o.id>>, worlds[j])
      BY <2>2, <2>4, <2>8, <3>3, OperatorAgrees
    <3> QED BY <3>4 DEF Held
  <2> QED BY <2>7, <2>8
<1> QED BY <1>3, <1>4, PastNext DEF OperatorsInv

LEMMA OwnershipNext ==
  ASSUME Frame, PoolInv, AnswersInv, StatusInv, OwnershipInv, [Next]_vars, pc # "load",
         flagged' = {}
  PROVE  OwnershipInv'
<1>1. Frame' /\ Onward
  BY FrameNext
<1>2. config' = config /\ \A item : Held(item) => Held(item)'
  BY <1>1, HeldIsKept DEF Onward
<1>3. CASE Past(FromChips)
  BY <1>2, <1>3 DEF OwnershipInv, Tied
<1>4. CASE OperatorsEnd
  <2>1. PICK owner \in Owners : ReconcileOperatorNodes(owner) = {} /\ ApplyNodeStatus = {}
    BY <1>4 DEF OperatorsEnd
  <2>2. UniqueInventory
    BY <1>4 DEF OperatorsEnd, Frame
  <2>3. ASSUME NEW n \in Nodes, owner[n] # None
        PROVE  \E k \in Moments : n \in NodesOf(worlds[k], owner[n])
    <3>1. n \in Answers("operator", owner[n])
      BY <2>3 DEF Owners, Lists
    <3> QED BY <3>1 DEF Answers, AnswersInv, OwnersWereTrue, OwnersOf
  <2>4. ASSUME NEW b \in Tied PROVE Held(<<"owner", b.id>>)
    <3>1. b \in ToSet(config.nodes) /\ b.operator # None /\ b.id \in Nodes
      BY DeclaredIds DEF Frame, Tied
    <3>2. IF b.gone THEN owner[b.id] = None ELSE owner[b.id] = b.operator
      BY <2>1, <3>1 DEF ReconcileOperatorNodes
    <3>3. CASE b.gone
      <4>1. PICK a \in status : a.id = b.id
        BY <1>4, <3>1 DEF OperatorsEnd, StatusInv, FromProviders, FromOperators, Ids, ToSet
      <4>2. a.got = None
        BY <2>1, <3>1, <3>3, <4>1 DEF ApplyNodeStatus
      <4>3. PICK k \in Moments : a.got = worlds[k].nodes[b.id]
        BY <4>1 DEF AnswersInv, RecordsWereTrue, RecordOf
      <4>4. ~Registered(worlds[k], b.id)
        BY <4>2, <4>3 DEF Registered
      <4> QED BY <2>2, <3>1, <3>3, <4>4, OwnerAgrees DEF Held
    <3>4. CASE ~b.gone
      <4>1. PICK k \in Moments : b.id \in NodesOf(worlds[k], b.operator)
        BY <2>3, <3>1, <3>2, <3>4
      <4>2. Registered(worlds[k], b.id) /\ worlds[k].nodes[b.id].operator = b.operator
        BY <4>1 DEF NodesOf
      <4> QED BY <2>2, <3>1, <3>4, <4>2, OwnerAgrees DEF Held
    <3> QED BY <3>3, <3>4
  <2>5. ASSUME NEW o \in Ids(config.operators), NEW n \in Nodes \ {b.id : b \in Tied}
        PROVE  Held(<<"unmanaged", o, n>>)
    <3>1. owner[n] = None
      BY <2>1 DEF ReconcileOperatorNodes, Tied
    <3>2. Lists(n) = {}
      <4>1. Ids(config.operators) \subseteq Operators
        BY DeclaredIds DEF Frame, Ids, ToSet
      <4> QED BY <3>1, <4>1, NoneAssumption DEF Owners, Lists
    <3>3. PICK a \in owned : a.kind = "operator" /\ a.id = o
      BY <1>4 DEF OperatorsEnd, AnswersInv, AllAreAsked, Asked, ToSet
    <3>4. PICK k \in Moments : a.got = NodesOf(worlds[k], o)
      BY <3>3 DEF AnswersInv, OwnersWereTrue, OwnersOf
    <3>5. n \notin NodesOf(worlds[k], o)
      BY <3>2, <3>3, <3>4 DEF Lists, Answers
    <3> QED BY <3>5, ManagedAgrees DEF Held
  <2> QED BY <1>2, <2>4, <2>5 DEF OwnershipInv, Tied
<1> QED BY <1>3, <1>4, PastNext DEF OwnershipInv

LEMMA ChipsNext ==
  ASSUME Frame, PoolInv, AnswersInv, StatusInv, ChipsInv, [Next]_vars, pc # "load",
         flagged' = {}
  PROVE  ChipsInv'
<1>1. Frame' /\ Onward
  BY FrameNext
<1>2. config' = config /\ \A item : Held(item) => Held(item)'
  BY <1>1, HeldIsKept DEF Onward
<1>3. CASE Past(FromVersions)
  BY <1>2, <1>3 DEF ChipsInv
<1>4. CASE CheckChips
  <2>1. SUFFICES ASSUME NEW b \in ToSet(config.nodes), ~b.gone PROVE Held(<<"chip", b.id>>)
    BY <1>2 DEF ChipsInv
  <2>2. PICK refused \in SUBSET (ChipIds \ Vouched) : ReconcileNodeSev(refused) = {}
    BY <1>4 DEF CheckChips
  <2>3. UniqueInventory
    BY <1>4 DEF CheckChips, Frame
  <2>4. PICK a \in status : a.id = b.id
    BY <1>4 DEF CheckChips, StatusInv, FromProviders, FromOperators, FromChips, Ids, ToSet
  <2>5. a.got = None \/ a.got.chip = b.chip
    BY <2>1, <2>2, <2>4 DEF ReconcileNodeSev
  <2>6. PICK k \in Moments : a.got = worlds[k].nodes[b.id]
    BY <2>4 DEF AnswersInv, RecordsWereTrue, RecordOf
  <2> QED BY <2>3, <2>5, <2>6, ChipAgrees DEF Held, Registered
<1> QED BY <1>3, <1>4, PastNext DEF ChipsInv

LEMMA VersionsNext ==
  ASSUME Frame, PoolInv, AnswersInv, VersionsInv, [Next]_vars, pc # "load", flagged' = {}
  PROVE  VersionsInv'
<1>1. Frame' /\ Onward
  BY FrameNext
<1>2. config' = config /\ \A item : Held(item) => Held(item)'
  BY <1>1, HeldIsKept DEF Onward
<1>3. pool' = pool => Secondhand' = Secondhand
  BY <1>2 DEF Secondhand
<1>4. CASE Past(FromElected) /\ pool' = pool
  BY <1>2, <1>3, <1>4 DEF VersionsInv
<1>5. CASE VersionsEnd
  <2>1. SUFFICES ASSUME NEW b \in VersionCheckedNodes(config), <<"version", b.id>> \notin Secondhand
                 PROVE  Held(<<"version", b.id>>)
    BY <1>2, <1>3, <1>5 DEF VersionsInv, VersionsEnd
  <2>2. b \in ToSet(config.nodes) /\ UniqueInventory
    BY <1>5 DEF VersionCheckedNodes, VersionsEnd, Frame
  <2>3. PICK a \in pool.got : a.id = b.id /\ a.direct /\ a.got # None
    BY <2>1 DEF Secondhand
  <2>4. a.got = ExpectedVersion(config, b)
    BY <1>5, <2>3 DEF VersionsEnd, ReconcileNodeVersions
  <2>5. PICK k \in Moments : a.got = worlds[k].running[b.id]
    BY <1>5, <2>3 DEF VersionsEnd, AnswersInv, VersionsWereTrue, VersionOf
  <2> QED BY <2>2, <2>4, <2>5, VersionAgrees DEF Held
<1> QED BY <1>4, <1>5, PastNext DEF VersionsInv

LEMMA TasksLoseNone ==
  ASSUME PoolInv, Task, pc = "records"
  PROVE  pool'.err = TRUE \/ (pool'.err = pool.err /\ \A id : InHand(id) => InHand(id)')
<1>1. ASSUME NEW id \in pool.queue, Take(id)
      PROVE  pool'.err = pool.err /\ \A i : InHand(i) => InHand(i)'
  <2> DEFINE t == [id |-> id, step |-> "record"]
  <2>1. /\ pool'.queue = pool.queue \ {id} /\ pool'.busy = pool.busy \union {t}
        /\ pool'.got = pool.got /\ pool'.err = pool.err
    BY <1>1 DEF Take, PoolInv, PoolShape
  <2>2. t.id = id
    OBVIOUS
  <2> HIDE DEF t
  <2> QED BY <2>1, <2>2 DEF InHand
<1>2. ASSUME NEW t \in pool.busy, RecordRead(t)
      PROVE  pool'.err = pool.err /\ \A i : InHand(i) => InHand(i)'
  <2> DEFINE a == [id |-> t.id, got |-> world.nodes[t.id], direct |-> TRUE]
  <2>1. /\ pool'.queue = pool.queue /\ pool'.busy = pool.busy \ {t}
        /\ pool'.got = pool.got \union {a} /\ pool'.err = pool.err
    BY <1>2 DEF RecordRead, Answer, Finished, PoolInv, PoolShape
  <2>2. a.id = t.id
    OBVIOUS
  <2> HIDE DEF a
  <2> QED BY <2>1, <2>2 DEF InHand
<1>3. ASSUME NEW t \in pool.busy, RecordFails(t) PROVE pool'.err = TRUE
  BY <1>3 DEF RecordFails, Finished, PoolInv, PoolShape
<1>4. ASSUME NEW t \in pool.busy
      PROVE  ~(Endpoint(t) \/ NodeAnswers(t) \/ NodeUnreachable(t) \/ DashboardAnswers(t)
               \/ VersionUnread(t))
  BY DEF Endpoint, NodeAnswers, NodeUnreachable, DashboardAnswers, VersionUnread
<1> QED BY <1>1, <1>2, <1>3, <1>4 DEF Task

LEMMA StatusNext ==
  ASSUME Frame, PoolInv, StatusInv, [Next]_vars, pc # "load"
  PROVE  StatusInv'
<1>1. config' = config
  BY FrameNext DEF Onward
<1> DEFINE On == {"dcs"} \union FromProviders
<1>2. "records" \notin On /\ \A l \in {"members", "pending", "facts", "done"} : l \notin On
  BY DEF FromProviders, FromOperators, FromChips, FromVersions, FromElected
<1>3. CASE Task
  <2>1. pc' = pc /\ status' = status
    BY <1>3, TaskAnswers DEF Found
  <2> QED BY <1>1, <1>3, <2>1, TasksLoseNone DEF StatusInv
<1>4. CASE SubnetsEnd
  <2>1. pool'.queue = Ids(config.nodes)
    BY <1>4 DEF SubnetsEnd, PoolOf, NoPool
  <2> HIDE DEF On
  <2>2. pc' \notin On
    BY <1>2, <1>4 DEF SubnetsEnd
  <2> QED BY <1>1, <2>1, <2>2 DEF StatusInv, InHand, On
<1>5. CASE RecordsEnd
  <2>1. CASE pc' = "done"
    BY <1>2, <2>1 DEF StatusInv
  <2>2. CASE pc' = "dcs"
    <3>1. status' = pool.got /\ pool.err # TRUE /\ PoolDone /\ pc = "records"
      BY <1>5, <2>2 DEF RecordsEnd, Error, Stop, PoolFailed
    <3>2. \A id \in Ids(config.nodes) : \E a \in status' : a.id = id
      BY <3>1 DEF StatusInv, InHand, PoolDone
    <3> QED BY <1>1, <2>2, <3>2 DEF StatusInv
  <2> QED BY <1>5, <2>1, <2>2 DEF RecordsEnd, Error, Stop
<1>6. CASE UNCHANGED <<pc, pool, status>>
  BY <1>1, <1>6 DEF StatusInv, InHand
<1>7. CASE /\ pc \in On \/ pc' \notin On
           /\ pc' # "records" /\ status' = status
  BY <1>1, <1>7 DEF StatusInv
<1> HIDE DEF On
<1>8. ASSUME ReadMembers \/ PendingEnds \/ ReadFacts \/ ReadFails \/ Conclude
      PROVE  pc' \in {"members", "pending", "facts", "done"} /\ status' = status
  BY <1>8 DEF ReadMembers, PendingEnds, Error, Stop, ReadFacts, ReadFails, Conclude, Found
<1>9. ASSUME ReadDataCenters \/ ReadProvider \/ ProvidersEnd \/ ReadOperator \/ OperatorsEnd
             \/ CheckChips \/ VersionsEnd \/ ReadElected \/ ElectedUnread
      PROVE  pc \in On /\ pc' # "records" /\ status' = status
  BY <1>9 DEF ReadDataCenters, ReadProvider, ProvidersEnd, ReadOperator, OperatorsEnd, CheckChips,
     VersionsEnd, ReadElected, ElectedUnread, On, FromProviders, FromOperators, FromChips,
     FromVersions, FromElected
<1>10. ASSUME WorldMoves \/ UNCHANGED vars PROVE UNCHANGED <<pc, pool, status>>
  BY <1>10 DEF WorldMoves, Found, vars
<1>11. ~Load
  BY DEF Load
<1> QED BY <1>2, <1>3, <1>4, <1>5, <1>6, <1>7, <1>8, <1>9, <1>10, <1>11 DEF Next, Report

CleanInv == StatusInv /\ CoverInv /\ EndInv

LEMMA CleanNext ==
  ASSUME Frame, PoolInv, AnswersInv, CleanInv, [Next]_vars
  PROVE  CleanInv'
<1>1. EndInv'
  BY DEF Frame, Fresh, CleanInv, EndInv, Next, Report, Load, ReadMembers, PendingEnds, Error, Stop, ReadFacts,
     SubnetsEnd, RecordsEnd, ReadDataCenters, ReadProvider, ProvidersEnd, ReadOperator,
     OperatorsEnd, CheckChips, VersionsEnd, ReadElected, Conclude, Task, Take, InPool, Found,
     RecordRead, RecordFails, Endpoint, NodeAnswers, NodeUnreachable, DashboardAnswers,
     VersionUnread, ElectedUnread, ReadFails, WorldMoves, vars
<1>2. CASE pc # "load"
  <2>1. StatusInv'
    BY <1>2, StatusNext DEF CleanInv
  <2>2. SUFFICES ASSUME flagged' = {}
                 PROVE  /\ SubnetsInv' /\ DcsInv' /\ OperatorsInv' /\ OwnershipInv'
                        /\ ChipsInv' /\ VersionsInv'
    BY <1>1, <2>1 DEF CleanInv, CoverInv
  <2>3. flagged = {}
    BY <1>2, <2>2, PastNext
  <2> QED BY <1>2, <2>2, <2>3, SubnetsNext, DcsNext, OperatorsNext, OwnershipNext, ChipsNext,
          VersionsNext DEF CleanInv, CoverInv
<1>3. CASE pc = "load"
  <2>1. \/ pc' = "load"
        \/ pc' = "done" /\ (verdict' = "error" \/ Early')
        \/ pc' = "members" /\ todo' = IdsInOrder(config'.subnets)
    BY <1>3 DEF Frame, Fresh, NoPool, Next, Report, Load, Stop, ReadMembers, PendingEnds,
       ReadFacts, SubnetsEnd, RecordsEnd, ReadDataCenters, ReadProvider, ProvidersEnd,
       ReadOperator, OperatorsEnd, CheckChips, VersionsEnd, ReadElected, Conclude, Task,
       ElectedUnread, ReadFails, WorldMoves, vars, Early
  <2> USE DEF FromRecords, FromProviders, FromOperators, FromChips, FromVersions, FromElected
  <2>2. StatusInv'
    BY <2>1 DEF StatusInv
  <2>3. ~Past(FromRecords)'
    BY <2>1 DEF Past
  <2>4. DcsInv' /\ OperatorsInv' /\ OwnershipInv' /\ ChipsInv' /\ VersionsInv'
    BY <2>3 DEF Past, DcsInv, OperatorsInv, OwnershipInv, ChipsInv, VersionsInv
  <2>5. SubnetsInv'
    <3>1. config' \in Inventory
      BY FrameNext, ConfigsAssumption DEF Frame
    <3>2. /\ \E T : IdsInOrder(config'.subnets) \in Seq(T)
          /\ Ids(config'.subnets) = ToSet(IdsInOrder(config'.subnets))
      BY <3>1, InOrder DEF Inventory
    <3> QED BY <2>1, <2>3, <3>2 DEF SubnetsInv
  <2> QED BY <1>1, <2>2, <2>4, <2>5 DEF CleanInv, CoverInv
<1> QED BY <1>2, <1>3

LEMMA CleanInit == Init => CleanInv
BY DEF Init, CleanInv, StatusInv, CoverInv, EndInv, SubnetsInv, DcsInv, OperatorsInv,
   OwnershipInv, ChipsInv, VersionsInv, Past, FromRecords, FromProviders, FromOperators,
   FromChips, FromVersions, FromElected

\* At a clean end every item the report covers, second-hand versions aside,
\* was as declared at some moment.
LEMMA CleanIsCovered == CleanInv => CleanReportWasTrue
<1> SUFFICES ASSUME CleanInv, verdict = "clean",
                    NEW item \in CheckedItems \ Secondhand
             PROVE  Held(item)
  BY DEF CleanReportWasTrue, SomeTime, Held, Moments
<1>1. ~Early
  BY DEF CheckedItems
<1>2. flagged = {} /\ \A L : Past(L)
  BY <1>1 DEF CleanInv, EndInv, Past
<1>3. /\ \A s \in Ids(config.subnets) : SubnetHeld(s)
      /\ \A d \in Ids(config.dcs) : Held(<<"dc", d>>)
      /\ \A b \in ToSet(config.nodes) : ~b.gone => Held(<<"chip", b.id>>)
      /\ \A b \in VersionCheckedNodes(config) :
           <<"version", b.id>> \in Secondhand \/ Held(<<"version", b.id>>)
  BY <1>2 DEF CleanInv, CoverInv, SubnetsInv, DcsInv, ChipsInv, VersionsInv
<1>4. CASE item \in OtherItems
  <2>1. CASE item \in {<<"member", s, n>> : s \in Ids(config.subnets), n \in Nodes}
    <3>1. PICK s \in Ids(config.subnets), n \in Nodes : item = <<"member", s, n>>
      BY <2>1
    <3> QED BY <1>3, <3>1 DEF SubnetHeld
  <2>2. CASE item \in {"record"} \X Ids(config.subnets)
    <3>1. PICK s \in Ids(config.subnets) : item = <<"record", s>>
      BY <2>2
    <3> QED BY <1>3, <3>1 DEF SubnetHeld
  <2>3. CASE item \in {<<"chip", n.id>> : n \in {b \in ToSet(config.nodes) : ~b.gone}}
    BY <1>3, <2>3
  <2>4. CASE item \in {<<"version", n.id>> : n \in VersionCheckedNodes(config)}
    BY <1>3, <2>4
  <2> QED BY <1>4, <2>1, <2>2, <2>3, <2>4 DEF OtherItems
<1>5. CASE item \in DcItems
  BY <1>3, <1>5 DEF DcItems
<1>6. CASE item \in OwnershipItems /\ config.providers # <<>>
  <2>1. /\ \A o \in AskedOperators : Held(<<"operator", o.id>>)
        /\ \A n \in Tied : Held(<<"owner", n.id>>)
        /\ \A o \in Ids(config.operators), n \in Nodes \ {b.id : b \in Tied} :
             Held(<<"unmanaged", o, n>>)
    BY <1>2, <1>6 DEF CleanInv, CoverInv, OperatorsInv, OwnershipInv
  <2> QED BY <1>6, <2>1 DEF OwnershipItems, AskedOperators
<1> QED BY <1>1, <1>4, <1>5, <1>6 DEF CheckedItems

\* A clean report is right on every item it covers, at some moment while it
\* ran, although its answers are of different moments (reconcile, main.go).
THEOREM CleanIsTrue == Spec => []CleanReportWasTrue
<1>1. Init => CleanInv
  BY CleanInit
<1>2. Frame /\ PoolInv /\ AnswersInv /\ CleanInv /\ [Next]_vars => CleanInv'
  BY CleanNext
<1>3. CleanInv => CleanReportWasTrue
  BY CleanIsCovered
<1> QED BY <1>1, <1>2, <1>3, FrameHolds, PoolHolds, AnswersHold, PTL DEF Spec
=============================================================================
