--------------------------- MODULE LocalRegistry ---------------------------
(***************************************************************************)
(* The registry a dry run plants.  An action names the mainnet records to  *)
(* copy (its scope) or the ones to make up (its seeds); the copies and the *)
(* fabricated records become one batch of INSERTs, which the registry      *)
(* canister accepts at init or refuses as a whole.                         *)
(* A key is a tuple whose first part names the record's kind.              *)
(***************************************************************************)
EXTENDS Naturals, FiniteSets, SequencesExt

CONSTANTS
  Subnets, Nodes, Operators, Providers, Dcs, Versions, HostVersions,
  System,      \* dryRunSystemSubnet, one of Subnets
  SeedSubnet, SeedNode, SeedOperator, SeedDc, SeedVersion,  \* placeholders
  None         \* a field a record leaves empty, a record that is not there

ASSUME LocalRegistryAssumption ==
  /\ System \in Subnets /\ SeedSubnet \notin Subnets
  /\ SeedNode \notin Nodes /\ SeedOperator \notin Operators
  /\ SeedDc \notin Dcs /\ SeedVersion \notin Versions
  /\ IsFiniteSet(Nodes) /\ IsFiniteSet(Operators)

nodeKeyPurposes == <<"signing", "dkg", "committee", "idkg">>

NodeKeys(n) ==
  <<<<"crypto_tls_cert", n>>>>
    \o [i \in 1..4 |-> <<"crypto_record", n, nodeKeyPurposes[i]>>]

-----------------------------------------------------------------------------
(***************************************************************************)
(* A mainnet: what its registry and governance hold at one version.        *)
(***************************************************************************)

Optional(S) == S \union {None}

SubnetRecord == [members : SUBSET Nodes, version : Versions]
NodeRecord == [operator : Operators, hostos : Optional(HostVersions)]
OperatorRecord == [dc : Dcs]

\* What a key holds; a record whose fields nothing reads is "mainnet".
Values ==
  {"mainnet"} \union NodeRecord \union OperatorRecord
    \union [system : BOOLEAN, members : SUBSET Nodes, version : Versions]

ASSUME NoneAssumption == None \notin Values \union HostVersions

Mainnet ==
  [subnets : [Subnets -> Optional(SubnetRecord)],
   nodes : [Nodes -> Optional(NodeRecord)],
   operators : [Operators -> Optional(OperatorRecord)],
   dcs : SUBSET Dcs, versions : SUBSET Versions, hostos : SUBSET HostVersions,
   providers : SUBSET Providers]

Present(f) == {x \in DOMAIN f : f[x] # None}

\* The registry keeps these at every version, so a mainnet is closed.
MainnetOK(m) ==
  /\ \A s \in Present(m.subnets) :
       m.subnets[s].members \subseteq Present(m.nodes)
       /\ m.subnets[s].version \in m.versions
  /\ \A n \in Present(m.nodes) :
       m.nodes[n].operator \in Present(m.operators)
       /\ m.nodes[n].hostos \in Optional(m.hostos)
  /\ \A o \in Present(m.operators) : m.operators[o].dc \in m.dcs

\* get_value: the record under a key, None when the key is not present.
value(m, key) ==
  CASE key[1] = "subnet_record" ->
         IF m.subnets[key[2]] = None THEN None
         ELSE [system |-> key[2] = System, members |-> m.subnets[key[2]].members,
               version |-> m.subnets[key[2]].version]
    [] key[1] \in {"threshold_key", "cup"} ->
         IF m.subnets[key[2]] = None THEN None ELSE "mainnet"
    [] key[1] = "node_record" -> m.nodes[key[2]]
    [] key[1] \in {"crypto_tls_cert", "crypto_record"} ->
         IF m.nodes[key[2]] = None THEN None ELSE "mainnet"
    [] key[1] = "node_operator_record" -> m.operators[key[2]]
    [] key[1] = "data_center_record" -> IF key[2] \in m.dcs THEN "mainnet" ELSE None
    [] key[1] = "replica_version" -> IF key[2] \in m.versions THEN "mainnet" ELSE None
    [] key[1] = "hostos_version" -> IF key[2] \in m.hostos THEN "mainnet" ELSE None

-----------------------------------------------------------------------------
(***************************************************************************)
(* The walk over the scope.  todo holds the roots still to copy, seen the  *)
(* keys copied, out the mutations, subnets and versions what has to be     *)
(* merged with the seeds.                                                  *)
(***************************************************************************)

NoScope == [subnets |-> <<>>, nodes |-> <<>>, operators |-> <<>>, versions |-> <<>>]

\* The records a kind's execution dereferences.
MirrorScope(a) ==
  CASE a.kind = "membership" ->
         [NoScope EXCEPT !.subnets = <<a.subnet>>,
                         !.nodes = SetToSeq(a.add) \o SetToSeq(a.remove)]
    [] a.kind = "deploy_guestos" ->
         [NoScope EXCEPT !.subnets = <<a.subnet>>, !.versions = <<a.version>>]
    [] a.kind = "update_subnet" -> [NoScope EXCEPT !.subnets = <<a.subnet>>]
    [] a.kind = "remove_nodes" -> [NoScope EXCEPT !.nodes = SetToSeq(a.nodes)]
    [] a.kind = "remove_node_operators" ->
         [NoScope EXCEPT !.operators = SetToSeq(a.operators)]
    [] OTHER -> NoScope

\* The keys a walk copies, and the roots it starts from.
RecordKey ==
  ({"subnet_record", "threshold_key", "cup"} \X Subnets)
    \union ({"node_record", "crypto_tls_cert"} \X Nodes)
    \union ({"crypto_record"} \X Nodes \X ToSet(nodeKeyPurposes))
    \union ({"node_operator_record"} \X Operators)
    \union ({"data_center_record"} \X Dcs)
    \union ({"replica_version"} \X Versions)
    \union ({"hostos_version"} \X HostVersions)

Scope == [subnets : Seq(Subnets), nodes : Seq(Nodes), operators : Seq(Operators),
          versions : Seq(Versions)]

StartWalk(scope) ==
  [todo |-> scope, seen |-> {}, out |-> <<>>, subnets |-> <<>>,
   versions |-> <<>>, failed |-> FALSE]

\* A mistake: a copied key is not marked, and is copied again.
CopyAgain(w, key, m) ==
  IF w.failed THEN w
  ELSE IF value(m, key) = None THEN [w EXCEPT !.failed = TRUE]
  ELSE [w EXCEPT !.out = Append(@, [key |-> key, value |-> value(m, key)])]

\* Every key the walk copies is required: one that is missing fails it.
copyKey(w, key, m) ==
  IF w.failed \/ key \in w.seen THEN w
  ELSE IF value(m, key) = None THEN [w EXCEPT !.failed = TRUE]
  ELSE [w EXCEPT !.seen = @ \union {key},
                 !.out = Append(@, [key |-> key, value |-> value(m, key)])]

\* One key after the other.
copyKeys(w, keys, m) ==
  LET copied[i \in 0..Len(keys)] ==
        IF i = 0 THEN w ELSE copyKey(copied[i - 1], keys[i], m)
  IN copied[Len(keys)]

\* A subnet brings its members and the version it runs.
copySubnet(w, s, m) ==
  IF <<"subnet_record", s>> \in w.seen THEN w
  ELSE LET v == copyKeys(w, <<<<"subnet_record", s>>, <<"threshold_key", s>>,
                              <<"cup", s>>>>, m)
       IN IF v.failed THEN v
          ELSE [v EXCEPT !.todo.nodes = @ \o SetToSeq(m.subnets[s].members),
                         !.todo.versions = Append(@, m.subnets[s].version),
                         !.subnets = Append(@, s)]

\* A node brings its keys, the HostOS version it is pinned to and its operator.
copyNode(w, n, m) ==
  IF <<"node_record", n>> \in w.seen THEN w
  ELSE LET v == copyKeys(w, <<<<"node_record", n>>>> \o NodeKeys(n), m)
           hostos == m.nodes[n].hostos
       IN IF v.failed THEN v
          ELSE [(IF hostos = None THEN v
                 ELSE copyKey(v, <<"hostos_version", hostos>>, m))
                EXCEPT !.todo.operators = Append(@, m.nodes[n].operator)]

\* An operator brings its data center.
copyOperator(w, o, m) ==
  IF <<"node_operator_record", o>> \in w.seen THEN w
  ELSE LET v == copyKey(w, <<"node_operator_record", o>>, m)
       IN IF v.failed THEN v
          ELSE copyKey(v, <<"data_center_record", m.operators[o].dc>>, m)

copyVersion(w, ver, m) ==
  IF <<"replica_version", ver>> \in w.seen THEN w
  ELSE LET v == copyKey(w, <<"replica_version", ver>>, m)
       IN IF v.failed THEN v ELSE [v EXCEPT !.versions = Append(@, ver)]

\* buildMirror: one root after the other, subnets first as they add nodes and
\* versions, nodes next as they add operators.
WalkOne(w, m) ==
  LET t == w.todo
  IN IF t.subnets # <<>>
       THEN copySubnet([w EXCEPT !.todo.subnets = Tail(@)], Head(t.subnets), m)
     ELSE IF t.nodes # <<>>
       THEN copyNode([w EXCEPT !.todo.nodes = Tail(@)], Head(t.nodes), m)
     ELSE IF t.operators # <<>>
       THEN copyOperator([w EXCEPT !.todo.operators = Tail(@)], Head(t.operators), m)
     ELSE copyVersion([w EXCEPT !.todo.versions = Tail(@)], Head(t.versions), m)

-----------------------------------------------------------------------------
(***************************************************************************)
(* The seeds.                                                              *)
(***************************************************************************)

NoSeeds == [providers |-> {}, subnets |-> <<>>, dcs |-> <<>>]

\* A mistake: the target is seeded whether mainnet has it or not.
SeedsUnconditionally(a, known) ==
  CASE a.kind = "add_data_centers" -> [NoSeeds EXCEPT !.subnets = <<System>>]
    [] a.kind = "add_node_provider" /\ a.provider \in known ->
         [NoSeeds EXCEPT !.providers = {a.provider}, !.subnets = <<System>>]
    [] a.kind = "add_node_operator" ->
         [providers |-> {a.provider}, subnets |-> <<System>>, dcs |-> <<a.dc>>]
    [] a.kind = "remove_node_provider" ->
         [NoSeeds EXCEPT !.providers = {a.provider}, !.subnets = <<SeedSubnet>>]
    [] OTHER -> NoSeeds

\* What a kind's validation needs, given the providers mainnet reports.
DryRunSeeds(a, known) ==
  CASE a.kind = "add_data_centers" -> [NoSeeds EXCEPT !.subnets = <<System>>]
    [] a.kind = "add_node_provider" /\ a.provider \in known ->
         [NoSeeds EXCEPT !.providers = {a.provider}, !.subnets = <<System>>]
    [] a.kind = "add_node_operator" ->
         [providers |-> {a.provider} \intersect known, subnets |-> <<System>>,
          dcs |-> <<a.dc>>]
    [] a.kind = "remove_node_provider" /\ a.provider \in known ->
         [NoSeeds EXCEPT !.providers = {a.provider}, !.subnets = <<SeedSubnet>>]
    [] OTHER -> NoSeeds

Insert(key, v) == [key |-> key, value |-> v]

\* seedNodes: a node with its four keys, its certificate and no operator.
seedNodes(n) ==
  Append([i \in 1..5 |-> Insert(NodeKeys(n)[i], "seed")],
         Insert(<<"node_record", n>>, [operator |-> None, hostos |-> None]))

\* One fabricated node each: the seeds plant at most one subnet.
NodeOf(s) == <<SeedNode, s>>

\* A subnet's node, record and matching pair of threshold key and CUP; the
\* first seeded subnet is the system subnet.
seedSubnet(s, first) ==
  seedNodes(NodeOf(s)) \o
  <<Insert(<<"subnet_record", s>>,
           [system |-> first, members |-> {NodeOf(s)}, version |-> SeedVersion]),
    Insert(<<"threshold_key", s>>, "seed"), Insert(<<"cup", s>>, "seed")>>

\* The elements of s at the positions in keep, in their order.
Kept(s, keep) ==
  LET kept[i \in 0..Len(s)] ==
        IF i = 0 THEN <<>>
        ELSE IF i \in keep THEN Append(kept[i - 1], s[i]) ELSE kept[i - 1]
  IN kept[Len(s)]

\* A mistake: a mirrored subnet is listed although the seeds listed it.
MergeTwice(seeded, mirrored) == seeded \o mirrored

\* subnet_list is one key for both: each subnet is named once.
MergeSubnets(seeded, mirrored) ==
  seeded \o Kept(mirrored, {i \in DOMAIN mirrored : ~Contains(seeded, mirrored[i])})

\* seedMutations: every record of the seeded subnets, the merged list, and the
\* versions in use that the mirror does not bring.
seedMutations(seeded, mirrored, versions) ==
  IF seeded = <<>> /\ mirrored = <<>> /\ versions = <<>> THEN <<>>
  ELSE FlattenSeq([i \in DOMAIN seeded |-> seedSubnet(seeded[i], i = 1)])
       \o <<Insert(<<"subnet_list">>, MergeSubnets(seeded, mirrored))>>
       \o (IF seeded = <<>> \/ Contains(versions, SeedVersion) THEN <<>>
           ELSE <<Insert(<<"replica_version", SeedVersion>>, "seed")>>)

\* seedProviderMutations: the placeholder operator and its data center.
seedProviderMutations(providers) ==
  IF providers = {} THEN <<>>
  ELSE <<Insert(<<"node_operator_record", SeedOperator>>, [dc |-> SeedDc]),
         Insert(<<"data_center_record", SeedDc>>, "seed")>>

\* seedDataCenterMutations: a data center a provider seed wrote is skipped.
seedDataCenterMutations(dcs, taken) ==
  LET fresh == Kept(dcs, {i \in DOMAIN dcs :
                            <<"data_center_record", dcs[i]>> \notin taken})
  IN [i \in DOMAIN fresh |-> Insert(<<"data_center_record", fresh[i]>>, "seed")]

Keys(batch) == {batch[i].key : i \in DOMAIN batch}

\* A mistake: the fabricated record stays beside the real one.
NoPrecedence(seeded, mirrored) == seeded

\* The mirror wins over a fabricated record with the same key.
mirrorPrecedence(seeded, mirrored) ==
  Kept(seeded, {i \in DOMAIN seeded : seeded[i].key \notin Keys(mirrored)})

\* minimalRegistryInit: the batch of a dry run.
minimalRegistryInit(seeds, walk) ==
  \* a function, so that fabricated is evaluated once
  LET subnets == seedMutations(seeds.subnets, walk.subnets, walk.versions)
      operators == subnets \o seedProviderMutations(seeds.providers)
      fabricated == operators \o seedDataCenterMutations(seeds.dcs, Keys(operators))
      Merged[f \in {fabricated}] == mirrorPrecedence(f, walk.out) \o walk.out
  IN Merged[fabricated]

-----------------------------------------------------------------------------
(***************************************************************************)
(* The registry canister at init.  A batch without mutations is accepted;  *)
(* any other goes through the invariants, on all its records at once.      *)
(***************************************************************************)

RegistryAccepts(batch) ==
  LET rec == [k \in Keys(batch) |->
                batch[CHOOSE i \in DOMAIN batch : batch[i].key = k].value]
      has(key) == key \in DOMAIN rec
      listed == IF has(<<"subnet_list">>) THEN rec[<<"subnet_list">>] ELSE <<>>
      RecordsOf(kind) == {k[2] : k \in {j \in DOMAIN rec : j[1] = kind}}
  IN \/ batch = <<>>
     \/ /\ \A i, j \in DOMAIN batch : batch[i].key = batch[j].key => i = j
        /\ IsInjective(listed)
        /\ ToSet(listed) = RecordsOf("subnet_record")
        /\ \E s \in RecordsOf("subnet_record") : rec[<<"subnet_record", s>>].system
        /\ \A s \in RecordsOf("subnet_record") :
             /\ has(<<"threshold_key", s>>) /\ has(<<"cup", s>>)
             /\ rec[<<"threshold_key", s>>] = rec[<<"cup", s>>]
             /\ has(<<"replica_version", rec[<<"subnet_record", s>>].version>>)
             /\ \A n \in rec[<<"subnet_record", s>>].members : has(<<"node_record", n>>)
        /\ \A n \in RecordsOf("node_record") :
             LET r == rec[<<"node_record", n>>]
             IN /\ \A i \in 1..5 : has(NodeKeys(n)[i])
                /\ r.operator # None => has(<<"node_operator_record", r.operator>>)
                /\ r.hostos # None => has(<<"hostos_version", r.hostos>>)
        /\ \A o \in RecordsOf("node_operator_record") :
             has(<<"data_center_record", rec[<<"node_operator_record", o>>].dc>>)
=============================================================================
