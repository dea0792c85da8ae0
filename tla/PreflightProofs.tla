-------------------------- MODULE PreflightProofs --------------------------
(***************************************************************************)
(* What a verdict of the preflight is worth, for any registry, any         *)
(* proposal and any number of moves of others: the safety theorems of      *)
(* Preflight.                                                              *)
(***************************************************************************)
EXTENDS Preflight, TLAPS

\* The fields of each kind.
LEMMA Kinds ==
  ASSUME NEW a \in Action
  PROVE  \/ a.kind = "membership" /\ a.add \subseteq Nodes /\ a.remove \subseteq Nodes
         \/ a.kind = "deploy_guestos" /\ a.version \in Versions
         \/ /\ a.kind = "update_subnet"
            /\ a.set = {} \/ \E v \in Settings : a.set = {v}
            /\ a.sev = {} \/ \E v \in BOOLEAN : a.sev = {v}
         \/ a.kind = "remove_nodes" /\ a.nodes \subseteq Nodes
         \/ a.kind = "remove_node_operators" /\ a.ops \subseteq Operators
         \/ a.kind = "remove_node_provider" /\ a.provider \in Providers
         \/ a.kind = "add_data_centers" /\ a.dcs \subseteq Dcs
         \/ a.kind = "add_node_provider" /\ a.provider \in Providers
         \/ /\ a.kind = "add_node_operator" /\ a.operator \in Operators
            /\ a.provider \in Providers /\ a.dc \in Dcs
  BY DEF Action, Optional

LEMMA RemovedNodes ==
  ASSUME NEW a \in Action, a.kind = "remove_nodes"
  PROVE  a.nodes # {}
<1>1. a \in [kind : {"remove_nodes"}, nodes : (SUBSET Nodes) \ {{}}]
  BY DEF Action
<1>2. a.nodes \notin {{}}
  BY <1>1
<1> QED
  BY Zenon, <1>2

LEMMA RemovedOperators ==
  ASSUME NEW a \in Action, a.kind = "remove_node_operators"
  PROVE  a.ops # {}
<1>1. a \in [kind : {"remove_node_operators"}, ops : (SUBSET Operators) \ {{}}]
  BY DEF Action
<1>2. a.ops \notin {{}}
  BY <1>1
<1> QED
  BY Zenon, <1>2

LEMMA AddedDcs ==
  ASSUME NEW a \in Action, a.kind = "add_data_centers"
  PROVE  a.dcs # {}
<1>1. a \in [kind : {"add_data_centers"}, dcs : (SUBSET Dcs) \ {{}}]
  BY DEF Action
<1>2. a.dcs \notin {{}}
  BY <1>1
<1> QED
  BY Zenon, <1>2

LEMMA DeclaredIs ==
  /\ \A x : Declared({}, x) = x
  /\ \A v, x : Declared({v}, x) = v
<1>1. \A x : Declared({}, x) = x
  BY DEF Declared
<1>2. ASSUME NEW v, NEW x PROVE Declared({v}, x) = v
  BY DEF Declared
<1> QED
  BY <1>1, <1>2

\* What update_subnet makes of the two fields.
UpdatedTo(r, a, x, y) ==
  /\ After(r, a) = [r EXCEPT !.setting = x, !.sev = y]
  /\ a.set \subseteq {x} /\ a.sev \subseteq {y}
  /\ a.set \subseteq {r.setting} => x = r.setting
  /\ a.sev \subseteq {r.sev} => y = r.sev

LEMMA Updated ==
  ASSUME NEW r \in RegistryState, NEW a \in Action, a.kind = "update_subnet"
  PROVE  \E x \in Settings, y \in BOOLEAN : UpdatedTo(r, a, x, y)
<1> DEFINE x == Declared(a.set, r.setting)
           y == Declared(a.sev, r.sev)
<1>1. After(r, a) = [r EXCEPT !.setting = x, !.sev = y]
  BY DEF After
<1>2. r.setting \in Settings /\ r.sev \in BOOLEAN
  BY DEF RegistryState
<1>3. /\ a.set = {} \/ \E v \in Settings : a.set = {v}
      /\ a.sev = {} \/ \E v \in BOOLEAN : a.sev = {v}
  BY Kinds
<1>4. /\ x \in Settings /\ a.set \subseteq {x}
      /\ a.set \subseteq {r.setting} => x = r.setting
  BY <1>2, <1>3, DeclaredIs
<1>5. /\ y \in BOOLEAN /\ a.sev \subseteq {y}
      /\ a.sev \subseteq {r.sev} => y = r.sev
  BY <1>2, <1>3, DeclaredIs
<1> HIDE DEF x, y
<1> QED
  BY <1>1, <1>4, <1>5 DEF UpdatedTo

-----------------------------------------------------------------------------
(* The registry keeps its own invariants. *)

RegInv == reg \in RegistryState /\ RegistryOK(reg)

LEMMA AfterType ==
  ASSUME NEW r \in RegistryState, NEW a \in Action
  PROVE  After(r, a) \in RegistryState
<1>1. CASE a.kind = "membership"
  BY <1>1, Kinds DEF After, RegistryState
<1>2. CASE a.kind = "deploy_guestos"
  BY <1>2, Kinds DEF After, RegistryState
<1>3. CASE a.kind = "update_subnet"
  <2>1. PICK x \in Settings, y \in BOOLEAN : UpdatedTo(r, a, x, y)
    BY <1>3, Updated
  <2> QED
    BY <2>1 DEF UpdatedTo, RegistryState
<1>4. CASE a.kind = "remove_nodes"
  BY <1>4, Kinds DEF After, RegistryState
<1>5. CASE a.kind = "remove_node_operators"
  BY <1>5, Kinds DEF After, RegistryState
<1>6. CASE a.kind = "remove_node_provider"
  BY <1>6, Kinds DEF After, RegistryState
<1>7. CASE a.kind = "add_data_centers"
  BY <1>7, Kinds DEF After, RegistryState
<1>8. CASE a.kind = "add_node_provider"
  BY <1>8, Kinds DEF After, RegistryState
<1>9. CASE a.kind = "add_node_operator"
  BY <1>9, Kinds DEF After, RegistryState, OperatorRecord
<1> QED
  BY <1>1, <1>2, <1>3, <1>4, <1>5, <1>6, <1>7, <1>8, <1>9, Kinds

\* An execution that does not fail leaves a sound registry.
LEMMA AfterOK ==
  ASSUME NEW r \in RegistryState, RegistryOK(r), NEW a \in Action, ~Fails(r, a)
  PROVE  RegistryOK(After(r, a))
<1>1. CASE a.kind \in {"membership", "deploy_guestos", "remove_nodes",
                       "remove_node_operators"}
  BY <1>1 DEF Fails
<1>2. CASE a.kind = "update_subnet"
  <2>1. SevHolds(After(r, a))
    BY <1>2 DEF Fails
  <2>2. /\ After(r, a).members = r.members /\ After(r, a).nodes = r.nodes
        /\ After(r, a).version = r.version /\ After(r, a).elected = r.elected
        /\ After(r, a).dcs = r.dcs
    BY <1>2 DEF After, RegistryState
  <2> QED
    BY <2>1, <2>2 DEF RegistryOK
<1>3. CASE a.kind = "remove_node_provider"
  BY <1>3 DEF After, RegistryState, RegistryOK, SevHolds
<1>4. CASE a.kind = "add_data_centers"
  BY <1>4 DEF After, RegistryState, RegistryOK, SevHolds
<1>5. CASE a.kind = "add_node_provider"
  BY <1>5 DEF After, RegistryState, RegistryOK, SevHolds
<1>6. CASE a.kind = "add_node_operator"
  BY <1>6 DEF After, RegistryState, RegistryOK, SevHolds
<1> QED
  BY <1>1, <1>2, <1>3, <1>4, <1>5, <1>6, Kinds

LEMMA ResultKeeps ==
  ASSUME RegInv, NEW a \in Action, reg' = Result(reg, a)
  PROVE  RegInv'
  BY AfterType, AfterOK DEF RegInv, Result

LEMMA RegNext == ASSUME RegInv, RegistryMoves PROVE RegInv'
<1>1. ASSUME NEW n \in Nodes, NEW rec \in NodeRecord, RegisterNode(n, rec)
      PROVE  RegInv'
  BY <1>1, NoRecordAssumption
  DEF RegisterNode, RegInv, RegistryState, RegistryOK, SevHolds
<1>2. ASSUME NEW v \in Versions, Elect(v) \/ Unelect(v)
      PROVE  RegInv'
  BY <1>2 DEF Elect, Unelect, RegInv, RegistryState, RegistryOK, SevHolds
<1>3. ASSUME NEW a \in Action, ExecuteOther(a)
      PROVE  RegInv'
  BY <1>3, ResultKeeps DEF ExecuteOther
<1> QED
  BY <1>1, <1>2, <1>3 DEF RegistryMoves

-----------------------------------------------------------------------------
(* The verdict, as a function of what was seen. *)

\* Whatever was seen, a clean proposal that is executed is done.
LEMMA CleanIsDone ==
  ASSUME NEW r \in RegistryState, NEW a \in Action, NEW s,
         Grade(a, s) = "clean", ~Fails(r, a),
         a.kind \notin {"remove_node_operators", "remove_node_provider"}
  PROVE  Done(After(r, a), a)
<1>1. CASE a.kind = "membership"
  <2>1. membershipPreflight(a, s) = "clean"
    BY <1>1 DEF Grade, sevAdmission
  <2>2. a.add \intersect a.remove = {}
    BY <2>1 DEF membershipPreflight, NoOpAdds, NoOpRemoves
  <2> QED
    BY <1>1, <2>2 DEF Done, After, RegistryState
<1>2. CASE a.kind = "deploy_guestos"
  BY <1>2 DEF Done, After, RegistryState
<1>3. CASE a.kind = "update_subnet"
  <2>1. a.set \subseteq {After(r, a).setting} /\ a.sev \subseteq {After(r, a).sev}
    <3>1. PICK x \in Settings, y \in BOOLEAN : UpdatedTo(r, a, x, y)
      BY <1>3, Updated
    <3> QED
      BY <3>1 DEF UpdatedTo, RegistryState
  <2> QED
    BY <1>3, <2>1 DEF Done
<1>4. CASE a.kind = "remove_nodes"
  BY <1>4, Kinds DEF Done, After, RegistryState
<1>5. CASE a.kind = "add_data_centers"
  <2>1. a.dcs \intersect TooLong = {}
    BY <1>5 DEF Grade, planAddDataCenters, preconditionPreflight
  <2> QED
    BY <1>5, <2>1 DEF Done, After, RegistryState
<1>6. CASE a.kind = "add_node_provider"
  BY <1>6 DEF Done, After, RegistryState
<1>7. CASE a.kind = "add_node_operator"
  BY <1>7, Kinds DEF Done, After, RegistryState
<1> QED
  BY <1>1, <1>2, <1>3, <1>4, <1>5, <1>6, <1>7, Kinds

\* What a command has read of r, when t is to be read yet and left looked up.
SubnetSeen(r, s) ==
  s.subnet = [members |-> r.members, version |-> r.version, sev |-> r.sev,
              setting |-> r.setting]

Unfit(r, n) == r.nodes[n] = NoRecord \/ ~r.nodes[n].chip

ReadSoFar(r, a, s, t, left, lax) ==
  CASE a.kind = "membership" ->
         \/ t = <<"subnet", "chips">> /\ left = a.add
         \/ /\ SubnetSeen(r, s)
            /\ \/ t = <<"chips">> /\ left # {}
               \/ t = <<>> /\ (r.sev => left = {})
            /\ \A n \in a.add \ left :
                 r.sev /\ Unfit(r, n) => n \in s.chipless \union s.undecided
    [] a.kind = "deploy_guestos" ->
         \/ t = <<"subnet", "version">> /\ ~s.unverified
         \/ t = <<"version">> /\ SubnetSeen(r, s) /\ ~s.unverified
         \/ /\ t = <<>> /\ SubnetSeen(r, s)
            /\ s.unverified => lax
            /\ ~s.unverified =>
                 /\ s.elected <=> a.version \in r.elected
                 /\ s.measured = {TRUE} => a.version \in Measured
    [] a.kind = "update_subnet" ->
         t = <<"subnet">> \/ (t = <<>> /\ SubnetSeen(r, s))
    [] a.kind = "remove_nodes" ->
         /\ (t = <<"nodes">> /\ left # {}) \/ (t = <<>> /\ left = {})
         /\ left \subseteq a.nodes
         /\ s.registered = {n \in a.nodes \ left : r.nodes[n] # NoRecord}
    [] a.kind = "remove_node_operators" ->
         /\ (t = <<"owners">> /\ left # {}) \/ (t = <<>> /\ left = {})
         /\ left \subseteq a.ops
         /\ s.owners = {o \in a.ops \ left : Owned(r, o) # {}}
    [] a.kind = "remove_node_provider" ->
         t = <<"heirs">> \/ (t = <<>> /\ s.heirs = Heirs(r, a.provider))
    [] a.kind = "add_data_centers" ->
         t = <<"dcs">> \/ (t = <<>> /\ s.dcs = r.dcs \intersect a.dcs)
    [] a.kind = "add_node_provider" ->
         t = <<"providers">> \/ (t = <<>> /\ s.providers = r.providers)
    [] a.kind = "add_node_operator" ->
         \/ t = <<"dcs", "operator", "providers">>
         \/ /\ s.dcs = r.dcs \intersect {a.dc}
            /\ \/ t = <<"operator", "providers">>
               \/ /\ s.operatorExists = Exists(r, a.operator)
                  /\ \/ t = <<"providers">>
                     \/ t = <<>> /\ s.providers = r.providers

LEMMA SubnetFields ==
  ASSUME NEW r, NEW s, SubnetSeen(r, s)
  PROVE  /\ s.subnet.members = r.members /\ s.subnet.version = r.version
         /\ s.subnet.sev = r.sev /\ s.subnet.setting = r.setting
  BY DEF SubnetSeen

\* A verdict that turns a proposal away is about one that would do nothing.
LEMMA NoOpIsReal ==
  ASSUME NEW r \in RegistryState, RegistryOK(r), NEW a \in Action,
         NEW s \in Seen, NEW left, NEW lax, ReadSoFar(r, a, s, <<>>, left, lax),
         Grade(a, s) = "noop"
  PROVE  Result(r, a) = r
<1>1. CASE a.kind = "membership"
  <2>1. /\ s.subnet.members = r.members
        /\ a.add \subseteq s.subnet.members
        /\ a.remove \intersect s.subnet.members = {}
    BY <1>1
    DEF ReadSoFar, SubnetSeen, Grade, sevAdmission, membershipPreflight
  <2>2. (r.members \union a.add) \ a.remove = r.members
    BY <2>1
  <2>3. After(r, a) = r
    BY <1>1, <2>2 DEF After, RegistryState
  <2> QED
    BY <2>3 DEF Result
<1>2. CASE a.kind = "deploy_guestos"
  <2>1. \/ a.version = r.version
        \/ a.version \notin r.elected
    <3>1. /\ SubnetSeen(r, s)
          /\ ~s.unverified => (s.elected <=> a.version \in r.elected)
      BY <1>2 DEF ReadSoFar
    <3>2. a.version = s.subnet.version \/ (~s.unverified /\ ~s.elected)
      BY <1>2 DEF Grade, sevLaunchGate, planDeployGuestos
    <3> QED
      BY <3>1, <3>2, SubnetFields
  <2>2. CASE a.version = r.version
    <3>1. After(r, a) = r
      BY <1>2, <2>2 DEF After, RegistryState
    <3> QED
      BY <3>1 DEF Result
  <2>3. CASE a.version \notin r.elected
    BY <1>2, <2>3 DEF Result, Fails, After, RegistryState, RegistryOK
  <2> QED
    BY <2>1, <2>2, <2>3
<1>3. CASE a.kind = "update_subnet"
  <2>1. a.set \subseteq {r.setting} /\ a.sev \subseteq {r.sev}
    <3>1. SubnetSeen(r, s)
      BY <1>3 DEF ReadSoFar
    <3>2. a.set \subseteq {s.subnet.setting} /\ a.sev \subseteq {s.subnet.sev}
      BY Zenon, <1>3 DEF Grade, updateSubnetPreflight
    <3> QED
      BY <3>1, <3>2, SubnetFields
  <2>2. After(r, a) = [r EXCEPT !.setting = r.setting, !.sev = r.sev]
    BY <1>3, <2>1, Updated DEF UpdatedTo
  <2>3. After(r, a) = r
    BY <2>2 DEF RegistryState
  <2> QED
    BY <2>3 DEF Result
<1>4. CASE a.kind = "remove_nodes"
  <2>1. \A n \in a.nodes : r.nodes[n] = NoRecord
    BY <1>4
    DEF ReadSoFar, Grade, planRemoveNodes, preconditionPreflight
  <2>2. [n \in Nodes |-> IF n \in a.nodes THEN NoRecord ELSE r.nodes[n]] = r.nodes
    BY <2>1 DEF RegistryState
  <2>3. After(r, a) = r
    BY <1>4, <2>2 DEF After, RegistryState
  <2> QED
    BY <2>3 DEF Result
<1>5. CASE a.kind \notin {"membership", "deploy_guestos", "update_subnet",
                          "remove_nodes"}
  BY <1>5, Kinds
  DEF Grade, planRemoveNodeOperators, planRemoveNodeProvider,
      planAddDataCenters, planAddNodeProvider, planAddNodeOperator,
      preconditionPreflight
<1> QED
  BY <1>1, <1>2, <1>3, <1>4, <1>5

LEMMA CleanIsNotNoted ==
  ASSUME NEW a, NEW s, a.kind = "update_subnet", Grade(a, s) = "clean"
  PROVE  /\ ~(s.subnet.sev /\ FALSE \in a.sev)
         /\ ~(~s.subnet.sev /\ TRUE \in a.sev)
<1> DEFINE blocking == s.subnet.sev /\ FALSE \in a.sev
           noted == \/ ~s.subnet.sev /\ TRUE \in a.sev
                    \/ EmptyList \in a.set /\ s.subnet.setting # EmptyList
           allNoOp == /\ a.set \subseteq {s.subnet.setting}
                      /\ a.sev \subseteq {s.subnet.sev}
<1>1. (IF blocking THEN "warn" ELSE IF allNoOp THEN "noop"
       ELSE IF noted THEN "warn" ELSE "clean") = "clean"
  BY Zenon DEF Grade, updateSubnetPreflight
<1> HIDE DEF blocking, noted, allNoOp
<1>2. ~blocking /\ ~noted
  BY <1>1
<1> QED
  BY Zenon, <1>2 DEF blocking, noted

\* A clean verdict on what the registry holds now.
LEMMA CleanIsRight ==
  ASSUME NEW r \in RegistryState, RegistryOK(r), NEW a \in Action,
         NEW s \in Seen, NEW left, NEW lax, ReadSoFar(r, a, s, <<>>, left, lax),
         Grade(a, s) = "clean",
         a.kind = "membership" => \A n \in a.add : r.nodes[n] # NoRecord,
         a.kind = "remove_nodes" => a.nodes \intersect r.members = {},
         a.kind = "remove_node_provider" => a.provider \in r.providers
  PROVE  ~Fails(r, a) /\ Done(After(r, a), a)
<1>1. CASE a.kind = "membership"
  <2>1. /\ membershipPreflight(a, s) = "clean"
        /\ s.chipless \union s.undecided = {}
    BY <1>1 DEF Grade, sevAdmission
  <2>2. SubnetSeen(r, s) /\ (r.sev => \A n \in a.add : ~Unfit(r, n))
    BY <1>1, <2>1 DEF ReadSoFar
  <2>3. RegistryOK(After(r, a))
    BY <1>1, <2>2, Kinds DEF After, RegistryState, RegistryOK, SevHolds, Unfit
  <2> QED
    BY <1>1, <2>3, CleanIsDone DEF Fails
<1>2. CASE a.kind = "deploy_guestos"
  <2>1. SubnetSeen(r, s) /\ a.version \in r.elected
    BY <1>2 DEF ReadSoFar, Grade, sevLaunchGate, planDeployGuestos
  <2>2. r.sev => a.version \in Measured
    <3>1. planDeployGuestos(a, s) = "clean" /\ (s.subnet.sev => s.measured = {TRUE})
      BY <1>2 DEF Grade, sevLaunchGate
    <3>2. ~s.unverified
      BY <3>1 DEF planDeployGuestos
    <3>3. s.measured = {TRUE} => a.version \in Measured
      BY <1>2, <3>2 DEF ReadSoFar
    <3> QED
      BY <2>1, <3>1, <3>3, SubnetFields
  <2>3. RegistryOK(After(r, a))
    BY <1>2, <2>1, <2>2 DEF After, RegistryState, RegistryOK, SevHolds
  <2> QED
    BY <1>2, <2>3, CleanIsDone DEF Fails
<1>3. CASE a.kind = "update_subnet"
  <2>1. SubnetSeen(r, s)
    BY <1>3 DEF ReadSoFar
  <2>2. ~(r.sev /\ FALSE \in a.sev) /\ ~(~r.sev /\ TRUE \in a.sev)
    <3>1. /\ ~(s.subnet.sev /\ FALSE \in a.sev)
          /\ ~(~s.subnet.sev /\ TRUE \in a.sev)
      BY Zenon, <1>3, CleanIsNotNoted
    <3> QED
      BY <2>1, <3>1, SubnetFields
  <2>3. SevHolds(After(r, a))
    <3>1. PICK x \in Settings, y \in BOOLEAN : UpdatedTo(r, a, x, y)
      BY <1>3, Updated
    <3>2. /\ After(r, a).members = r.members /\ After(r, a).nodes = r.nodes
          /\ After(r, a).version = r.version /\ After(r, a).sev = y
      BY <3>1 DEF UpdatedTo, RegistryState
    <3>3. y => r.sev
      <4>1. a.sev = {} \/ \E v \in BOOLEAN : a.sev = {v}
        BY <1>3, Kinds
      <4>2. r.sev \in BOOLEAN
        BY DEF RegistryState
      <4> QED
        BY <2>2, <3>1, <4>1, <4>2 DEF UpdatedTo
    <3> QED
      BY <3>2, <3>3 DEF RegistryOK, SevHolds
  <2> QED
    BY <1>3, <2>2, <2>3, CleanIsDone DEF Fails
<1>4. CASE a.kind = "remove_nodes"
  <2>1. RegistryOK(After(r, a))
    BY <1>4, Kinds DEF After, RegistryState, RegistryOK, SevHolds
  <2> QED
    BY <1>4, <2>1, CleanIsDone DEF Fails
<1>5. CASE a.kind = "remove_node_operators"
  <2>1. \A o \in a.ops : Owned(r, o) = {}
    BY <1>5
    DEF ReadSoFar, Grade, planRemoveNodeOperators, preconditionPreflight
  <2>2. RegistryOK(After(r, a))
    BY <1>5 DEF After, RegistryState, RegistryOK, SevHolds
  <2>3. \A o \in a.ops : ~Exists(After(r, a), o)
    BY <1>5, <2>1, Kinds DEF After, RegistryState, Exists
  <2> QED
    BY <1>5, <2>2, <2>3 DEF Fails, Done
<1>6. CASE a.kind = "remove_node_provider"
  <2>1. Heirs(r, a.provider) = {}
    BY <1>6
    DEF ReadSoFar, Grade, planRemoveNodeProvider, preconditionPreflight
  <2>2. Heirs(After(r, a), a.provider) = {} /\ a.provider \notin After(r, a).providers
    BY <1>6, <2>1 DEF After, RegistryState, Heirs, Exists
  <2> QED
    BY <1>6, <2>2 DEF Fails, Done
<1>7. CASE a.kind = "add_data_centers"
  <2>1. a.dcs \intersect r.dcs = {}
    BY <1>7 DEF ReadSoFar, Grade, planAddDataCenters, preconditionPreflight
  <2> QED
    BY <1>7, <2>1, CleanIsDone DEF Fails
<1>8. CASE a.kind = "add_node_provider"
  <2>1. a.provider \notin r.providers
    BY <1>8 DEF ReadSoFar, Grade, planAddNodeProvider, preconditionPreflight
  <2> QED
    BY <1>8, <2>1, CleanIsDone DEF Fails
<1>9. CASE a.kind = "add_node_operator"
  <2>1. ~Exists(r, a.operator) /\ a.dc \in r.dcs /\ a.provider \in r.providers
    BY <1>9 DEF ReadSoFar, Grade, planAddNodeOperator, preconditionPreflight
  <2> QED
    BY <1>9, <2>1, CleanIsDone DEF Fails
<1> QED
  BY <1>1, <1>2, <1>3, <1>4, <1>5, <1>6, <1>7, <1>8, <1>9, Kinds

LEMMA DoneIsSeen ==
  ASSUME NEW r \in RegistryState, NEW a \in Action, Done(r, a),
         NEW s \in Seen, NEW left, NEW lax, ReadSoFar(r, a, s, <<>>, left, lax),
         a.kind \notin {"remove_node_operators", "remove_node_provider"},
         a.kind = "membership" => a.add \union a.remove # {}
  PROVE  Grade(a, s) # "clean"
<1>1. CASE a.kind = "membership"
  <2>1. /\ s.subnet.members = r.members
        /\ a.add \subseteq r.members /\ a.remove \intersect r.members = {}
    BY <1>1 DEF ReadSoFar, SubnetSeen, Done
  <2>2. membershipPreflight(a, s) # "clean"
    BY <1>1, <2>1 DEF membershipPreflight, NoOpAdds, NoOpRemoves
  <2> QED
    BY <1>1, <2>2 DEF Grade, sevAdmission
<1>2. CASE a.kind = "deploy_guestos"
  <2>1. SubnetSeen(r, s) /\ r.version = a.version
    BY <1>2 DEF ReadSoFar, Done
  <2>2. planDeployGuestos(a, s) = "noop"
    BY <2>1, SubnetFields DEF planDeployGuestos
  <2> QED
    BY <1>2, <2>2 DEF Grade, sevLaunchGate
<1>3. CASE a.kind = "update_subnet"
  <2>1. SubnetSeen(r, s) /\ a.set \subseteq {r.setting} /\ a.sev \subseteq {r.sev}
    BY <1>3 DEF ReadSoFar, Done
  <2>2. a.set \subseteq {s.subnet.setting} /\ a.sev \subseteq {s.subnet.sev}
    BY <2>1, SubnetFields
  <2>3. updateSubnetPreflight(a, s) \in {"warn", "noop"}
    BY Zenon, <2>2 DEF updateSubnetPreflight
  <2> QED
    BY <1>3, <2>3 DEF Grade
<1>4. CASE a.kind = "remove_nodes"
  <2>1. s.registered = {} /\ a.nodes # {}
    BY <1>4, RemovedNodes DEF ReadSoFar, Done
  <2> QED
    BY <1>4, <2>1 DEF Grade, planRemoveNodes, preconditionPreflight
<1>5. CASE a.kind = "add_data_centers"
  <2>1. a.dcs # {} /\ s.dcs = a.dcs
    BY <1>5, AddedDcs DEF ReadSoFar, Done
  <2> QED
    BY <1>5, <2>1 DEF Grade, planAddDataCenters, preconditionPreflight
<1>6. CASE a.kind = "add_node_provider"
  BY <1>6 DEF ReadSoFar, Done, Grade, planAddNodeProvider, preconditionPreflight
<1>7. CASE a.kind = "add_node_operator"
  <2>1. [provider |-> a.provider, dc |-> a.dc] \in OperatorRecord
    BY <1>7, Kinds DEF OperatorRecord
  <2>2. Exists(r, a.operator)
    BY <1>7, <2>1, NoRecordAssumption DEF Done, Exists
  <2> QED
    BY <1>7, <2>2
    DEF ReadSoFar, Grade, planAddNodeOperator, preconditionPreflight
<1> QED
  BY <1>1, <1>2, <1>3, <1>4, <1>5, <1>6, <1>7, Kinds

-----------------------------------------------------------------------------
(* The command. *)

LEMMA GradeLevel ==
  ASSUME NEW a \in Action, NEW s
  PROVE  Grade(a, s) \in Level \ {"unknown"}
<1>1. membershipPreflight(a, s) \in Level \ {"unknown"}
  BY DEF membershipPreflight, Level
<1>2. planDeployGuestos(a, s) \in Level \ {"unknown"}
  BY DEF planDeployGuestos, Level
<1>3. updateSubnetPreflight(a, s) \in Level \ {"unknown"}
  BY Zenon DEF updateSubnetPreflight, Level
<1>4. \A b, i, n : preconditionPreflight(b, i, n) \in Level \ {"unknown"}
  BY DEF preconditionPreflight, Level
<1> QED
  BY <1>1, <1>2, <1>3, <1>4, Kinds
  DEF Grade, sevAdmission, sevLaunchGate, planRemoveNodes,
      planRemoveNodeOperators, planRemoveNodeProvider, planAddDataCenters,
      planAddNodeProvider, planAddNodeOperator, Level

\* Every list of reads that can be ahead: the rests of Reads(kind).
Lists ==
  {<<>>, <<"subnet", "chips">>, <<"chips">>, <<"subnet", "version">>,
   <<"version">>, <<"subnet">>, <<"nodes">>, <<"owners">>, <<"heirs">>,
   <<"dcs">>, <<"dcs", "operator", "providers">>, <<"operator", "providers">>,
   <<"providers">>}

LEMMA ListsType == Lists \subseteq Seq(Read)
<1>1. /\ <<>> \in Seq(Read) /\ <<"subnet", "chips">> \in Seq(Read)
      /\ <<"chips">> \in Seq(Read) /\ <<"subnet", "version">> \in Seq(Read)
      /\ <<"version">> \in Seq(Read) /\ <<"subnet">> \in Seq(Read)
  BY DEF Read
<1>2. /\ <<"nodes">> \in Seq(Read) /\ <<"owners">> \in Seq(Read)
      /\ <<"heirs">> \in Seq(Read) /\ <<"dcs">> \in Seq(Read)
      /\ <<"dcs", "operator", "providers">> \in Seq(Read)
      /\ <<"operator", "providers">> \in Seq(Read)
      /\ <<"providers">> \in Seq(Read)
  BY DEF Read
<1> QED
  BY Zenon, <1>1, <1>2 DEF Lists

\* The first of a list, and the rest.
LEMMA ListSteps ==
  ASSUME NEW t \in Lists
  PROVE  /\ t # <<>> /\ Head(t) = "subnet" =>
               \/ t = <<"subnet", "chips">> /\ Tail(t) = <<"chips">>
               \/ t = <<"subnet", "version">> /\ Tail(t) = <<"version">>
               \/ t = <<"subnet">> /\ Tail(t) = <<>>
         /\ t # <<>> /\ Head(t) = "dcs" =>
               \/ t = <<"dcs">> /\ Tail(t) = <<>>
               \/ /\ t = <<"dcs", "operator", "providers">>
                  /\ Tail(t) = <<"operator", "providers">>
         /\ t # <<>> /\ Head(t) = "operator" =>
               t = <<"operator", "providers">> /\ Tail(t) = <<"providers">>
         /\ \A x \in {"chips", "version", "nodes", "owners", "heirs", "providers"} :
               t # <<>> /\ Head(t) = x => t = <<x>> /\ Tail(t) = <<>>
<1>1. /\ Head(<<"subnet", "chips">>) = "subnet"
      /\ Tail(<<"subnet", "chips">>) = <<"chips">>
      /\ Head(<<"subnet", "version">>) = "subnet"
      /\ Tail(<<"subnet", "version">>) = <<"version">>
  OBVIOUS
<1>2. /\ Head(<<"dcs", "operator", "providers">>) = "dcs"
      /\ Tail(<<"dcs", "operator", "providers">>) = <<"operator", "providers">>
      /\ Head(<<"operator", "providers">>) = "operator"
      /\ Tail(<<"operator", "providers">>) = <<"providers">>
  OBVIOUS
<1>3. \A x : Head(<<x>>) = x /\ Tail(<<x>>) = <<>>
  OBVIOUS
<1>4. CASE t \in {<<>>, <<"subnet", "chips">>, <<"subnet", "version">>, <<"subnet">>}
  BY Zenon, <1>1, <1>3, <1>4
<1>5. CASE t \in {<<"dcs">>, <<"dcs", "operator", "providers">>,
                  <<"operator", "providers">>}
  BY Zenon, <1>2, <1>3, <1>5
<1>6. CASE \E x \in {"chips", "version", "nodes", "owners", "heirs", "providers"} :
             t = <<x>>
  BY Zenon, <1>3, <1>6
<1> QED
  BY Zenon, <1>4, <1>5, <1>6 DEF Lists

LEMMA ReadsType == \A a \in Action : Reads(a.kind) \in Lists
<1> SUFFICES ASSUME NEW a \in Action PROVE Reads(a.kind) \in Lists
  OBVIOUS
<1> QED
  BY Kinds DEF Reads, Lists

\* At most as far as what was read when nothing has moved since.
ReadInv ==
  pc \in {"reading", "graded", "sent", "reported"} /\ job.moves = 0 =>
    ReadSoFar(reg, job.action, job.seen, job.todo, job.left, allowUnverified)

\* The verdict is what was seen, graded; a no-op is only sent with --force.
VerdictInv ==
  /\ pc \in {"graded", "sent", "reported"} =>
       job.todo = <<>> /\ job.level = Grade(job.action, job.seen)
  /\ pc \in {"graded", "sent"} =>
       job.cmd = "apply" /\ (job.level = "noop" => job.force)

IInv == TypeOK /\ RegistryOK(reg) /\ ReadInv /\ VerdictInv

LEMMA IInvInit == Init => IInv
<1> SUFFICES ASSUME Init PROVE IInv
  OBVIOUS
<1>1. reg \in RegistryState /\ RegistryOK(reg)
  BY RegistriesAssumption DEF Init
<1>2. NothingSeen \in Seen
  BY DEF NothingSeen, Seen, Optional
<1>3. job \in Job
  BY <1>2, MaxMovesAssumption DEF Init, NoJob, Job, Level
<1> QED
  BY <1>1, <1>3 DEF Init, NoJob, IInv, TypeOK, ReadInv, VerdictInv

\* A fetch leaves the command reading.
LEMMA StillReading ==
  ASSUME IInv, pc = "reading", UNCHANGED <<reg, pc>>, job' \in Job,
         job'.action = job.action, job'.level = job.level,
         ReadInv'
  PROVE  IInv'
  BY DEF IInv, TypeOK, VerdictInv

LEMMA TailType ==
  ASSUME NEW q \in Seq(Read), q # <<>>
  PROVE  Tail(q) \in Seq(Read)
  OBVIOUS

LEMMA FetchedType ==
  ASSUME IInv, pc = "reading", job.todo # <<>>, NEW s \in Seen, Fetched(s)
  PROVE  /\ job' \in Job /\ UNCHANGED <<reg, pc>>
         /\ job'.action = job.action /\ job'.level = job.level
         /\ job'.seen = s /\ job'.todo = Tail(job.todo) /\ job'.left = job.left
         /\ job'.moves = job.moves /\ job'.cmd = job.cmd /\ job'.force = job.force
<1>1. job \in Job
  BY DEF IInv, TypeOK
<1>2. job' = [job EXCEPT !.seen = s, !.todo = Tail(job.todo)]
  BY DEF Fetched
<1>3. Tail(job.todo) \in Seq(Read)
  BY <1>1, TailType DEF Job
<1> QED
  BY <1>1, <1>2, <1>3 DEF Job, Fetched

LEMMA StartKeeps ==
  ASSUME IInv, NEW a \in Action, NEW cmd \in {"plan", "apply"},
         NEW force \in BOOLEAN, Start(a, cmd, force)
  PROVE  IInv'
<1>1. NothingSeen \in Seen
  BY DEF NothingSeen, Seen, Optional
<1>2. Ids(a) \subseteq Nodes \union Operators
  BY Kinds DEF Ids
<1>3. /\ pc' = "reading" /\ reg' = reg /\ job' \in Job
      /\ job'.action = a /\ job'.seen = NothingSeen /\ job'.todo = Reads(a.kind)
      /\ job'.left = Ids(a) /\ job'.level = "unknown"
  <2>1. job' = [NoJob EXCEPT !.action = a, !.cmd = cmd, !.force = force,
                             !.todo = Reads(a.kind), !.left = Ids(a)]
    BY DEF Start
  <2>2. Reads(a.kind) \in Seq(Read)
    BY ReadsType, ListsType
  <2>3. job' = [action |-> a, cmd |-> cmd, force |-> force,
                todo |-> Reads(a.kind), left |-> Ids(a),
                seen |-> NothingSeen, level |-> "unknown", moves |-> 0]
    BY <2>1 DEF NoJob
  <2>4. 0 \in 0..MaxMoves
    BY MaxMovesAssumption
  <2>5. "unknown" \in Level
    BY DEF Level
  <2>6. job' \in Job
    BY <1>1, <1>2, <2>2, <2>3, <2>4, <2>5 DEF Job
  <2>7. pc' = "reading" /\ reg' = reg
    BY DEF Start
  <2>8. /\ job'.action = a /\ job'.seen = NothingSeen /\ job'.todo = Reads(a.kind)
        /\ job'.left = Ids(a) /\ job'.level = "unknown"
    BY <2>3
  <2> QED
    BY <2>6, <2>7, <2>8
<1>4. \A lax : ReadSoFar(reg, a, NothingSeen, Reads(a.kind), Ids(a), lax)
  <2>1. CASE a.kind \in {"membership", "deploy_guestos", "update_subnet"}
    BY <2>1 DEF ReadSoFar, Reads, Ids, NothingSeen
  <2>2. CASE a.kind = "remove_nodes"
    BY <2>2, RemovedNodes DEF ReadSoFar, Reads, Ids, NothingSeen
  <2>3. CASE a.kind = "remove_node_operators"
    BY <2>3, RemovedOperators DEF ReadSoFar, Reads, Ids, NothingSeen
  <2>4. CASE a.kind \in {"remove_node_provider", "add_data_centers",
                         "add_node_provider", "add_node_operator"}
    BY <2>4 DEF ReadSoFar, Reads
  <2> QED
    BY <2>1, <2>2, <2>3, <2>4, Kinds
<1> QED
  BY <1>3, <1>4, NoActionAssumption DEF IInv, TypeOK, ReadInv, VerdictInv

\* A fetch that is one call.
LEMMA FetchedKeeps ==
  ASSUME IInv, pc = "reading", job.todo # <<>>, NEW s \in Seen, Fetched(s),
         job.moves = 0 =>
           ReadSoFar(reg, job.action, s, Tail(job.todo), job.left, allowUnverified)
  PROVE  IInv'
<1>1. ReadInv'
  BY FetchedType DEF ReadInv, allowUnverified
<1> QED
  BY <1>1, FetchedType, StillReading

\* What a command in progress has read, and what it reads next.
LEMMA AtRead ==
  ASSUME IInv, NEW x, Reading(x)
  PROVE  /\ pc = "reading" /\ job.todo # <<>> /\ Head(job.todo) = x
         /\ job \in Job /\ job.seen \in Seen /\ job.action \in Action
         /\ job.todo \in Seq(Read)
         /\ job.moves = 0 =>
              /\ job.todo \in Lists
              /\ ReadSoFar(reg, job.action, job.seen, job.todo, job.left,
                           allowUnverified)
<1>1. pc = "reading" /\ job.todo # <<>> /\ Head(job.todo) = x
  BY DEF Reading
<1>2. job \in Job /\ job.seen \in Seen /\ job.todo \in Seq(Read)
  BY DEF IInv, TypeOK, Job
<1>3. job.action \in Action
  BY <1>1, <1>2 DEF IInv, TypeOK, Job
<1>4. ASSUME job.moves = 0
      PROVE  ReadSoFar(reg, job.action, job.seen, job.todo, job.left,
                       allowUnverified)
  BY <1>1, <1>4 DEF IInv, ReadInv
<1>5. ASSUME NEW r, NEW a \in Action, NEW s, NEW t, NEW left, NEW lax,
             ReadSoFar(r, a, s, t, left, lax)
      PROVE  t \in Lists
  BY <1>5, Kinds DEF ReadSoFar, Lists
<1> QED
  BY <1>1, <1>2, <1>3, <1>4, <1>5

\* Which kinds make which read.
LEMMA Readers ==
  ASSUME NEW r, NEW a \in Action, NEW s, NEW t, NEW left, NEW lax,
         ReadSoFar(r, a, s, t, left, lax), t # <<>>
  PROVE  /\ Head(t) = "subnet" =>
              a.kind \in {"membership", "deploy_guestos", "update_subnet"}
         /\ Head(t) = "chips" => a.kind = "membership"
         /\ Head(t) = "version" => a.kind = "deploy_guestos"
         /\ Head(t) = "nodes" => a.kind = "remove_nodes"
         /\ Head(t) = "owners" => a.kind = "remove_node_operators"
         /\ Head(t) = "heirs" => a.kind = "remove_node_provider"
         /\ Head(t) = "dcs" => a.kind \in {"add_data_centers", "add_node_operator"}
         /\ Head(t) = "operator" => a.kind = "add_node_operator"
         /\ Head(t) = "providers" =>
              a.kind \in {"add_node_provider", "add_node_operator"}
<1>1. /\ Head(<<"subnet", "chips">>) = "subnet"
      /\ Head(<<"subnet", "version">>) = "subnet"
      /\ Head(<<"dcs", "operator", "providers">>) = "dcs"
      /\ Head(<<"operator", "providers">>) = "operator"
      /\ \A x : Head(<<x>>) = x
  OBVIOUS
<1>2. CASE a.kind = "membership"
  <2>1. t = <<"subnet", "chips">> \/ t = <<"chips">>
    BY <1>2 DEF ReadSoFar
  <2>2. Head(t) \in {"subnet", "chips"}
    BY Zenon, <1>1, <2>1
  <2> QED
    BY <1>2, <2>2
<1>3. CASE a.kind = "deploy_guestos"
  <2>1. t = <<"subnet", "version">> \/ t = <<"version">>
    BY <1>3 DEF ReadSoFar
  <2>2. Head(t) \in {"subnet", "version"}
    BY Zenon, <1>1, <2>1
  <2> QED
    BY <1>3, <2>2
<1>4. CASE a.kind = "add_node_operator"
  <2>1. \/ t = <<"dcs", "operator", "providers">>
        \/ t = <<"operator", "providers">> \/ t = <<"providers">>
    BY <1>4 DEF ReadSoFar
  <2>2. Head(t) \in {"dcs", "operator", "providers"}
    BY Zenon, <1>1, <2>1
  <2> QED
    BY <1>4, <2>2
<1>5. CASE a.kind \in {"update_subnet", "remove_nodes", "remove_node_operators",
                       "remove_node_provider", "add_data_centers",
                       "add_node_provider"}
  <2>1. \/ a.kind = "update_subnet" /\ t = <<"subnet">>
        \/ a.kind = "remove_nodes" /\ t = <<"nodes">>
        \/ a.kind = "remove_node_operators" /\ t = <<"owners">>
        \/ a.kind = "remove_node_provider" /\ t = <<"heirs">>
        \/ a.kind = "add_data_centers" /\ t = <<"dcs">>
        \/ a.kind = "add_node_provider" /\ t = <<"providers">>
    BY <1>5 DEF ReadSoFar
  <2>2. \/ a.kind = "update_subnet" /\ Head(t) = "subnet"
        \/ a.kind = "remove_nodes" /\ Head(t) = "nodes"
        \/ a.kind = "remove_node_operators" /\ Head(t) = "owners"
        \/ a.kind = "remove_node_provider" /\ Head(t) = "heirs"
        \/ a.kind = "add_data_centers" /\ Head(t) = "dcs"
        \/ a.kind = "add_node_provider" /\ Head(t) = "providers"
    BY Zenon, <1>1, <2>1
  <2> QED
    BY <2>2
<1> QED
  BY <1>2, <1>3, <1>4, <1>5, Kinds

LEMMA HeirsKeeps == ASSUME IInv, FetchOperators PROVE IInv'
<1> DEFINE s == [job.seen EXCEPT !.heirs = Heirs(reg, job.action.provider)]
<1>1. Reading("heirs") /\ Fetched(s)
  BY DEF FetchOperators
<1>2. s \in Seen /\ s.heirs = Heirs(reg, job.action.provider)
  BY <1>1, AtRead DEF Seen, Heirs
<1> HIDE DEF s
<1>3. ASSUME job.moves = 0
      PROVE  ReadSoFar(reg, job.action, s, Tail(job.todo), job.left, allowUnverified)
  <2>1. job.todo = <<"heirs">> /\ Tail(job.todo) = <<>>
    BY <1>1, <1>3, AtRead, ListSteps
  <2>2. job.action.kind = "remove_node_provider"
    BY <1>1, <1>3, AtRead, Readers
  <2> QED
    BY <1>2, <2>1, <2>2 DEF ReadSoFar
<1> QED
  BY <1>1, <1>2, <1>3, AtRead, FetchedKeeps

LEMMA ProvidersKeeps == ASSUME IInv, FetchNodeProviders PROVE IInv'
<1> DEFINE s == [job.seen EXCEPT !.providers = reg.providers]
           a == job.action
<1>1. Reading("providers") /\ Fetched(s)
  BY DEF FetchNodeProviders
<1>2. /\ s \in Seen /\ s.providers = reg.providers
      /\ s.dcs = job.seen.dcs /\ s.operatorExists = job.seen.operatorExists
  BY <1>1, AtRead DEF Seen, IInv, TypeOK, RegistryState
<1> HIDE DEF s
<1>3. ASSUME job.moves = 0
      PROVE  ReadSoFar(reg, a, s, Tail(job.todo), job.left, allowUnverified)
  <2>1. job.todo = <<"providers">> /\ Tail(job.todo) = <<>>
    BY <1>1, <1>3, AtRead, ListSteps
  <2>2. a.kind \in {"add_node_provider", "add_node_operator"}
    BY <1>1, <1>3, AtRead, Readers
  <2>3. ReadSoFar(reg, a, job.seen, <<"providers">>, job.left, allowUnverified)
    BY <1>1, <1>3, <2>1, AtRead
  <2>4. CASE a.kind = "add_node_provider"
    BY <1>2, <2>1, <2>4 DEF ReadSoFar
  <2>5. CASE a.kind = "add_node_operator"
    <3>1. /\ job.seen.dcs = reg.dcs \intersect {a.dc}
          /\ job.seen.operatorExists = Exists(reg, a.operator)
      BY <2>3, <2>5 DEF ReadSoFar
    <3> QED
      BY <1>2, <2>1, <2>5, <3>1 DEF ReadSoFar
  <2> QED
    BY <2>2, <2>4, <2>5
<1> QED
  BY <1>1, <1>2, <1>3, AtRead, FetchedKeeps

LEMMA OperatorKeeps == ASSUME IInv, FetchNodeOperatorExists PROVE IInv'
<1> DEFINE a == job.action
           known == Exists(reg, a.operator)
           s == [job.seen EXCEPT !.operatorExists = known]
<1>1. Reading("operator") /\ Fetched(s)
  BY DEF FetchNodeOperatorExists
<1>2. known \in BOOLEAN
  BY DEF Exists
<1> HIDE DEF known
<1>3. s \in Seen /\ s.operatorExists = known /\ s.dcs = job.seen.dcs
  BY <1>1, <1>2, AtRead DEF Seen
<1> HIDE DEF s
<1>4. ASSUME job.moves = 0
      PROVE  ReadSoFar(reg, a, s, Tail(job.todo), job.left, allowUnverified)
  <2>1. job.todo = <<"operator", "providers">> /\ Tail(job.todo) = <<"providers">>
    BY <1>1, <1>4, AtRead, ListSteps
  <2>2. a.kind = "add_node_operator"
    BY <1>1, <1>4, AtRead, Readers
  <2>3. ReadSoFar(reg, a, job.seen, <<"operator", "providers">>, job.left,
                  allowUnverified)
    BY <1>1, <1>4, <2>1, AtRead
  <2>4. job.seen.dcs = reg.dcs \intersect {a.dc}
    BY <2>2, <2>3 DEF ReadSoFar
  <2> QED
    BY <1>3, <2>1, <2>2, <2>4 DEF ReadSoFar, known
<1> QED
  BY <1>1, <1>3, <1>4, AtRead, FetchedKeeps

LEMMA DcsKeeps == ASSUME IInv, FetchDataCenters PROVE IInv'
<1> DEFINE a == job.action
           asked == IF a.kind = "add_data_centers" THEN a.dcs ELSE {a.dc}
           s == [job.seen EXCEPT !.dcs = reg.dcs \intersect asked]
<1>1. Reading("dcs") /\ Fetched(s)
  BY DEF FetchDataCenters
<1>2. s \in Seen /\ s.dcs = reg.dcs \intersect asked
  BY <1>1, AtRead DEF Seen, IInv, TypeOK, RegistryState
<1> HIDE DEF s
<1>3. ASSUME job.moves = 0
      PROVE  ReadSoFar(reg, a, s, Tail(job.todo), job.left, allowUnverified)
  <2>1. \/ job.todo = <<"dcs">> /\ Tail(job.todo) = <<>>
        \/ /\ job.todo = <<"dcs", "operator", "providers">>
           /\ Tail(job.todo) = <<"operator", "providers">>
    BY <1>1, <1>3, AtRead, ListSteps
  <2>2. a.kind \in {"add_data_centers", "add_node_operator"}
    BY <1>1, <1>3, AtRead, Readers
  <2>3. ReadSoFar(reg, a, job.seen, job.todo, job.left, allowUnverified)
    BY <1>1, <1>3, AtRead
  <2>4. CASE a.kind = "add_data_centers"
    <3>1. Tail(job.todo) = <<>>
      BY <2>1, <2>3, <2>4 DEF ReadSoFar
    <3> QED
      BY <1>2, <2>4, <3>1 DEF ReadSoFar
  <2>5. CASE a.kind = "add_node_operator"
    <3>1. Tail(job.todo) = <<"operator", "providers">>
      <4>1. /\ <<"dcs">> # <<"dcs", "operator", "providers">>
            /\ <<"dcs">> # <<"operator", "providers">>
            /\ <<"dcs">> # <<"providers">> /\ <<"dcs">> # <<>>
        OBVIOUS
      <4>2. \/ job.todo = <<"dcs", "operator", "providers">>
            \/ job.todo = <<"operator", "providers">>
            \/ job.todo = <<"providers">> \/ job.todo = <<>>
        BY <2>3, <2>5 DEF ReadSoFar
      <4> QED
        BY Zenon, <2>1, <4>1, <4>2
    <3> QED
      BY <1>2, <2>5, <3>1 DEF ReadSoFar
  <2> QED
    BY <2>2, <2>4, <2>5
<1> QED
  BY <1>1, <1>2, <1>3, AtRead, FetchedKeeps

\* The elected set is read, or the failure to read it is let pass.
LEMMA VersionSeen ==
  ASSUME IInv, Reading("version"), NEW s \in Seen, Fetched(s),
         s.subnet = job.seen.subnet,
         job.moves = 0 /\ s.unverified => allowUnverified,
         job.moves = 0 /\ ~s.unverified =>
           /\ s.elected <=> job.action.version \in reg.elected
           /\ s.measured = {TRUE} => job.action.version \in Measured
  PROVE  IInv'
<1> DEFINE a == job.action
<1>1. ASSUME job.moves = 0
      PROVE  ReadSoFar(reg, a, s, Tail(job.todo), job.left, allowUnverified)
  <2>1. job.todo = <<"version">> /\ Tail(job.todo) = <<>>
    BY <1>1, AtRead, ListSteps
  <2>2. a.kind = "deploy_guestos"
    BY <1>1, AtRead, Readers
  <2>3. ReadSoFar(reg, a, job.seen, <<"version">>, job.left, allowUnverified)
    BY <1>1, <2>1, AtRead
  <2>4. SubnetSeen(reg, job.seen)
    <3>1. <<"version">> # <<"subnet", "version">> /\ <<"version">> # <<>>
      OBVIOUS
    <3> QED
      BY <2>2, <2>3, <3>1 DEF ReadSoFar
  <2>5. SubnetSeen(reg, s)
    BY <2>4 DEF SubnetSeen
  <2> QED
    BY <1>1, <2>1, <2>2, <2>5 DEF ReadSoFar
<1> QED
  BY <1>1, AtRead, FetchedKeeps

LEMMA VersionKeeps ==
  ASSUME IInv, NEW decoded \in BOOLEAN, FetchElectedVersions(decoded)
  PROVE  IInv'
<1> DEFINE v == job.action.version
           elected == v \in reg.elected
           found == {m \in BOOLEAN : decoded /\ elected /\ (m <=> v \in Measured)}
           s == [job.seen EXCEPT !.elected = elected, !.measured = found]
<1>1. Reading("version") /\ Fetched(s)
  BY Zenon DEF FetchElectedVersions
<1>2. elected \in BOOLEAN
  OBVIOUS
<1>3. found \in Optional(BOOLEAN) /\ (found = {TRUE} => v \in Measured)
  <2>1. found = {} \/ \E m \in BOOLEAN : found = {m}
    OBVIOUS
  <2>2. found = {TRUE} => v \in Measured
    OBVIOUS
  <2> HIDE DEF found
  <2> QED
    BY <2>1, <2>2 DEF Optional
<1> HIDE DEF elected, found
<1>4. /\ s \in Seen /\ s.subnet = job.seen.subnet
      /\ s.unverified = job.seen.unverified
      /\ s.elected = elected /\ s.measured = found
  BY <1>1, <1>2, <1>3, AtRead DEF Seen
<1> HIDE DEF s
<1>5. ASSUME job.moves = 0
      PROVE  ~job.seen.unverified
  <2>1. job.todo = <<"version">>
    BY <1>1, <1>5, AtRead, ListSteps
  <2>2. job.action.kind = "deploy_guestos"
    BY <1>1, <1>5, AtRead, Readers
  <2>3. ReadSoFar(reg, job.action, job.seen, <<"version">>, job.left,
                  allowUnverified)
    BY <1>1, <1>5, <2>1, AtRead
  <2>4. <<"version">> # <<"subnet", "version">> /\ <<"version">> # <<>>
    OBVIOUS
  <2> QED
    BY <2>2, <2>3, <2>4 DEF ReadSoFar
<1> QED
  BY <1>1, <1>3, <1>4, <1>5, VersionSeen DEF elected

LEMMA UnreadableKeeps == ASSUME IInv, ElectionUnreadable PROVE IInv'
<1> DEFINE s == [job.seen EXCEPT !.unverified = TRUE]
<1>1. Reading("version") /\ Fetched(s) /\ allowUnverified
  BY DEF ElectionUnreadable
<1>2. s \in Seen /\ s.subnet = job.seen.subnet /\ s.unverified
  BY <1>1, AtRead DEF Seen
<1> HIDE DEF s
<1> QED
  BY <1>1, <1>2, VersionSeen

LEMMA SubnetKeeps == ASSUME IInv, FetchSubnet PROVE IInv'
<1> DEFINE a == job.action
           rec == [members |-> reg.members, version |-> reg.version,
                   sev |-> reg.sev, setting |-> reg.setting]
           s == [job.seen EXCEPT !.subnet = rec]
           t == IF a.kind = "membership" /\ (~reg.sev \/ job.left = {})
                THEN <<>> ELSE Tail(job.todo)
<1>1. /\ Reading("subnet") /\ UNCHANGED <<reg, pc>>
      /\ job' = [job EXCEPT !.seen.subnet = rec, !.todo = t]
  BY Zenon DEF FetchSubnet
<1>2. rec \in SubnetRecord
  BY DEF SubnetRecord, IInv, TypeOK, RegistryState
<1>3. s \in Seen /\ s.subnet = rec /\ s.unverified = job.seen.unverified
  BY <1>1, <1>2, AtRead DEF Seen
<1>4. t \in Seq(Read)
  BY <1>1, AtRead, TailType
<1>5. job' = [job EXCEPT !.seen = s, !.todo = t]
  BY <1>1, AtRead DEF Job, Seen
<1> HIDE DEF t, s, rec
<1>6. /\ job' \in Job /\ job'.action = a /\ job'.level = job.level
      /\ job'.seen = s /\ job'.todo = t /\ job'.left = job.left
      /\ job'.moves = job.moves /\ job'.cmd = job.cmd /\ job'.force = job.force
  BY <1>1, <1>3, <1>4, <1>5, AtRead DEF Job
<1>7. ASSUME job.moves = 0
      PROVE  ReadSoFar(reg, a, s, t, job.left, allowUnverified)
  <2>1. \/ job.todo = <<"subnet", "chips">> /\ Tail(job.todo) = <<"chips">>
        \/ job.todo = <<"subnet", "version">> /\ Tail(job.todo) = <<"version">>
        \/ job.todo = <<"subnet">> /\ Tail(job.todo) = <<>>
    BY <1>1, <1>7, AtRead, ListSteps
  <2>2. a.kind \in {"membership", "deploy_guestos", "update_subnet"}
    BY <1>1, <1>7, AtRead, Readers
  <2>3. ReadSoFar(reg, a, job.seen, job.todo, job.left, allowUnverified)
    BY <1>1, <1>7, AtRead
  <2>4. SubnetSeen(reg, s)
    BY <1>3 DEF SubnetSeen, rec
  <2>5. /\ <<"subnet">> # <<"subnet", "chips">>
        /\ <<"subnet">> # <<"subnet", "version">>
        /\ <<"subnet", "chips">> # <<"subnet", "version">>
        /\ \A x : /\ <<"subnet", "chips">> # <<x>> /\ <<"subnet", "version">> # <<x>>
                  /\ <<"subnet", "chips">> # <<>> /\ <<"subnet", "version">> # <<>>
                  /\ <<"subnet">> # <<>>
        /\ <<"subnet">> # <<"chips">> /\ <<"subnet">> # <<"version">>
    OBVIOUS
  <2>6. CASE a.kind = "membership"
    <3>1. \/ job.todo = <<"subnet", "chips">> /\ job.left = a.add
          \/ job.todo = <<"chips">> \/ job.todo = <<>>
      BY <2>3, <2>6 DEF ReadSoFar
    <3>2. Tail(job.todo) = <<"chips">> /\ job.left = a.add
      BY Zenon, <2>1, <2>5, <3>1
    <3>3. t = IF ~reg.sev \/ job.left = {} THEN <<>> ELSE <<"chips">>
      BY <2>6, <3>2 DEF t
    <3> QED
      BY <2>4, <2>6, <3>2, <3>3 DEF ReadSoFar
  <2>7. CASE a.kind = "deploy_guestos"
    <3>1. \/ job.todo = <<"subnet", "version">> /\ ~job.seen.unverified
          \/ job.todo = <<"version">> \/ job.todo = <<>>
      BY <2>3, <2>7 DEF ReadSoFar
    <3>2. Tail(job.todo) = <<"version">> /\ ~job.seen.unverified
      BY Zenon, <2>1, <2>5, <3>1
    <3>3. t = <<"version">>
      BY <2>7, <3>2 DEF t
    <3> QED
      BY <1>3, <2>4, <2>7, <3>2, <3>3 DEF ReadSoFar
  <2>8. CASE a.kind = "update_subnet"
    <3>1. job.todo = <<"subnet">> \/ job.todo = <<>>
      BY <2>3, <2>8 DEF ReadSoFar
    <3>2. Tail(job.todo) = <<>>
      BY Zenon, <2>1, <2>5, <3>1
    <3>3. t = <<>>
      BY <2>8, <3>2 DEF t
    <3> QED
      BY <2>4, <2>8, <3>3 DEF ReadSoFar
  <2> QED
    BY <2>2, <2>6, <2>7, <2>8
<1>8. ReadInv'
  BY <1>1, <1>6, <1>7 DEF ReadInv, allowUnverified
<1> QED
  BY <1>1, <1>6, <1>8, AtRead, StillReading

\* One of the ids of a loop is looked up.
LEMMA LookedUpType ==
  ASSUME IInv, pc = "reading", job.todo # <<>>, NEW id, NEW s \in Seen,
         LookedUp(id, s)
  PROVE  /\ job' \in Job /\ UNCHANGED <<reg, pc>>
         /\ job'.action = job.action /\ job'.level = job.level
         /\ job'.seen = s /\ job'.left = job.left \ {id}
         /\ job'.todo = IF job.left = {id} THEN Tail(job.todo) ELSE job.todo
         /\ job'.moves = job.moves /\ job'.cmd = job.cmd /\ job'.force = job.force
<1> DEFINE t == IF job.left = {id} THEN Tail(job.todo) ELSE job.todo
<1>1. job \in Job
  BY DEF IInv, TypeOK
<1>2. job' = [job EXCEPT !.seen = s, !.left = job.left \ {id}, !.todo = t]
  BY DEF LookedUp
<1>3. t \in Seq(Read)
  BY <1>1, TailType DEF Job
<1> HIDE DEF t
<1>4. /\ job' \in Job /\ UNCHANGED <<reg, pc>>
      /\ job'.action = job.action /\ job'.level = job.level
      /\ job'.seen = s /\ job'.left = job.left \ {id} /\ job'.todo = t
      /\ job'.moves = job.moves /\ job'.cmd = job.cmd /\ job'.force = job.force
  BY <1>1, <1>2, <1>3 DEF Job, LookedUp
<1> QED
  BY <1>4 DEF t

LEMMA LookedUpKeeps ==
  ASSUME IInv, NEW x \in {"chips", "nodes", "owners"}, Reading(x),
         NEW id \in job.left, NEW s \in Seen, LookedUp(id, s),
         job.moves = 0 =>
           \A t \in {<<x>>, <<>>} :
             (t = <<>>) = (job.left = {id}) =>
               ReadSoFar(reg, job.action, s, t, job.left \ {id}, allowUnverified)
  PROVE  IInv'
<1>1. pc = "reading" /\ job.todo # <<>>
  BY AtRead
<1>2. ASSUME job.moves = 0
      PROVE  ReadSoFar(reg, job.action, s, job'.todo, job.left \ {id},
                       allowUnverified)
  <2>1. job.todo = <<x>> /\ Tail(job.todo) = <<>>
    BY <1>2, AtRead, ListSteps
  <2>2. job'.todo = IF job.left = {id} THEN <<>> ELSE <<x>>
    BY <1>1, <2>1, LookedUpType
  <2>3. <<x>> # <<>>
    OBVIOUS
  <2> QED
    BY <1>2, <2>2, <2>3
<1>3. ReadInv'
  BY <1>1, <1>2, LookedUpType DEF ReadInv, allowUnverified
<1> QED
  BY <1>1, <1>3, LookedUpType, StillReading

LEMMA NodesKeeps ==
  ASSUME IInv, NEW n \in Nodes, FetchNodeStatus(n)
  PROVE  IInv'
<1> DEFINE a == job.action
           found == {m \in {n} : reg.nodes[n] # NoRecord}
           s == [job.seen EXCEPT !.registered = job.seen.registered \union found]
<1>1. Reading("nodes") /\ n \in job.left /\ LookedUp(n, s)
  BY DEF FetchNodeStatus
<1>2. s \in Seen /\ s.registered = job.seen.registered \union found
  BY <1>1, AtRead DEF Seen
<1> HIDE DEF s
<1>3. ASSUME job.moves = 0
      PROVE  \A t \in {<<"nodes">>, <<>>} :
               (t = <<>>) = (job.left = {n}) =>
                 ReadSoFar(reg, a, s, t, job.left \ {n}, allowUnverified)
  <2>1. a.kind = "remove_nodes"
    BY <1>1, <1>3, AtRead, Readers
  <2>2. ReadSoFar(reg, a, job.seen, job.todo, job.left, allowUnverified)
    BY <1>1, <1>3, AtRead
  <2>3. job.seen.registered = {m \in a.nodes \ job.left : reg.nodes[m] # NoRecord}
    BY <2>1, <2>2 DEF ReadSoFar
  <2>4. n \in a.nodes /\ job.left \subseteq a.nodes
    BY <1>1, <2>1, <2>2 DEF ReadSoFar
  <2>5. s.registered = {m \in a.nodes \ (job.left \ {n}) : reg.nodes[m] # NoRecord}
    BY <1>1, <1>2, <2>3, <2>4
  <2>6. <<"nodes">> # <<>>
    OBVIOUS
  <2> QED
    BY <1>1, <2>1, <2>4, <2>5, <2>6 DEF ReadSoFar
<1> QED
  BY <1>1, <1>2, <1>3, LookedUpKeeps

LEMMA OwnersKeeps ==
  ASSUME IInv, NEW o \in Operators, FetchOperatorNodes(o)
  PROVE  IInv'
<1> DEFINE a == job.action
           found == {q \in {o} : Owned(reg, o) # {}}
           s == [job.seen EXCEPT !.owners = job.seen.owners \union found]
<1>1. Reading("owners") /\ o \in job.left /\ LookedUp(o, s)
  BY DEF FetchOperatorNodes
<1>2. s \in Seen /\ s.owners = job.seen.owners \union found
  BY <1>1, AtRead DEF Seen
<1> HIDE DEF s
<1>3. ASSUME job.moves = 0
      PROVE  \A t \in {<<"owners">>, <<>>} :
               (t = <<>>) = (job.left = {o}) =>
                 ReadSoFar(reg, a, s, t, job.left \ {o}, allowUnverified)
  <2>1. a.kind = "remove_node_operators"
    BY <1>1, <1>3, AtRead, Readers
  <2>2. ReadSoFar(reg, a, job.seen, job.todo, job.left, allowUnverified)
    BY <1>1, <1>3, AtRead
  <2>3. job.seen.owners = {q \in a.ops \ job.left : Owned(reg, q) # {}}
    BY <2>1, <2>2 DEF ReadSoFar
  <2>4. o \in a.ops /\ job.left \subseteq a.ops
    BY <1>1, <2>1, <2>2 DEF ReadSoFar
  <2>5. s.owners = {q \in a.ops \ (job.left \ {o}) : Owned(reg, q) # {}}
    BY <1>1, <1>2, <2>3, <2>4
  <2>6. <<"owners">> # <<>>
    OBVIOUS
  <2> QED
    BY <1>1, <2>1, <2>4, <2>5, <2>6 DEF ReadSoFar
<1> QED
  BY <1>1, <1>2, <1>3, LookedUpKeeps

LEMMA ChipsKeep ==
  ASSUME IInv, NEW n \in Nodes, NEW answered \in BOOLEAN,
         checkSevAdmission(n, answered)
  PROVE  IInv'
<1> DEFINE a == job.action
           old == job.seen
           flagged(s) == s.chipless \union s.undecided
<1>1. Reading("chips") /\ n \in job.left
  BY DEF checkSevAdmission
<1>2. PICK s \in Seen :
        /\ LookedUp(n, s) /\ s.subnet = old.subnet
        /\ old.chipless \subseteq s.chipless /\ old.undecided \subseteq s.undecided
        /\ Unfit(reg, n) => n \in s.chipless \union s.undecided
  <2>1. old \in Seen
    BY <1>1, AtRead
  <2>2. CASE ~answered \/ reg.nodes[n] = NoRecord
    <3> DEFINE s == [old EXCEPT !.undecided = old.undecided \union {n}]
    <3>1. LookedUp(n, s)
      BY <2>2 DEF checkSevAdmission
    <3>2. /\ s \in Seen /\ s.subnet = old.subnet /\ s.chipless = old.chipless
          /\ s.undecided = old.undecided \union {n}
      BY <2>1 DEF Seen
    <3> HIDE DEF s
    <3> QED
      BY <3>1, <3>2
  <2>3. CASE answered /\ reg.nodes[n] # NoRecord
    <3> DEFINE bare == {m \in {n} : ~reg.nodes[n].chip}
               s == [old EXCEPT !.chipless = old.chipless \union bare]
    <3>1. LookedUp(n, s)
      BY <2>3 DEF checkSevAdmission
    <3>2. /\ s \in Seen /\ s.subnet = old.subnet /\ s.undecided = old.undecided
          /\ s.chipless = old.chipless \union bare
      BY <2>1 DEF Seen
    <3> HIDE DEF s
    <3> QED
      BY <2>3, <3>1, <3>2 DEF Unfit
  <2> QED
    BY <2>2, <2>3
<1>3. ASSUME job.moves = 0
      PROVE  \A t \in {<<"chips">>, <<>>} :
               (t = <<>>) = (job.left = {n}) =>
                 ReadSoFar(reg, a, s, t, job.left \ {n}, allowUnverified)
  <2>1. a.kind = "membership" /\ job.todo = <<"chips">>
    BY <1>1, <1>3, AtRead, Readers, ListSteps
  <2>2. ReadSoFar(reg, a, old, <<"chips">>, job.left, allowUnverified)
    BY <1>1, <1>3, <2>1, AtRead
  <2>3. <<"chips">> # <<"subnet", "chips">> /\ <<"chips">> # <<>>
    OBVIOUS
  <2>4. /\ SubnetSeen(reg, old)
        /\ \A m \in a.add \ job.left :
             reg.sev /\ Unfit(reg, m) => m \in old.chipless \union old.undecided
    BY <2>1, <2>2, <2>3 DEF ReadSoFar
  <2>5. SubnetSeen(reg, s)
    BY <1>2, <2>4 DEF SubnetSeen
  <2>6. \A m \in a.add \ (job.left \ {n}) :
          reg.sev /\ Unfit(reg, m) => m \in s.chipless \union s.undecided
    BY <1>2, <2>4
  <2> QED
    BY <1>1, <2>1, <2>3, <2>5, <2>6 DEF ReadSoFar
<1> QED
  BY <1>1, <1>2, <1>3, LookedUpKeeps

LEMMA CheckKeeps == ASSUME IInv, planCheck PROVE IInv'
<1> DEFINE level == Grade(job.action, job.seen)
<1>1. /\ pc = "reading" /\ job.todo = <<>> /\ reg' = reg
      /\ job' = [job EXCEPT !.level = level]
      /\ pc' = IF job.cmd = "plan" \/ (level = "noop" /\ ~job.force)
               THEN "reported" ELSE "graded"
  BY DEF planCheck
<1>2. job \in Job /\ job.action \in Action
  BY <1>1 DEF IInv, TypeOK, Job
<1>3. level \in Level \ {"unknown"}
  BY <1>2, GradeLevel
<1> HIDE DEF level
<1>4. /\ job' \in Job /\ job'.level = level
      /\ job'.action = job.action /\ job'.seen = job.seen
      /\ job'.todo = job.todo /\ job'.left = job.left /\ job'.moves = job.moves
      /\ job'.cmd = job.cmd /\ job'.force = job.force
  BY <1>1, <1>2, <1>3 DEF Job
<1>5. ReadInv'
  BY <1>1, <1>4 DEF IInv, ReadInv, allowUnverified
<1>6. VerdictInv'
  <2>1. job.cmd \in {"plan", "apply"}
    BY <1>2 DEF Job
  <2> QED
    BY <1>1, <1>4, <2>1 DEF VerdictInv, level
<1>7. TypeOK'
  BY <1>1, <1>3, <1>4 DEF IInv, TypeOK
<1> QED
  BY <1>1, <1>5, <1>6, <1>7 DEF IInv

LEMMA OthersKeep == ASSUME IInv, OthersMove PROVE IInv'
<1>1. job \in Job /\ job.moves \in 0..MaxMoves /\ RegInv
  BY DEF IInv, TypeOK, Job, RegInv
<1>2. RegInv'
  BY <1>1, RegNext DEF OthersMove
<1>3. job.moves + 1 \in 0..MaxMoves /\ job.moves + 1 # 0
  BY <1>1, MaxMovesAssumption DEF OthersMove
<1>4. job' = [job EXCEPT !.moves = job.moves + 1] /\ pc' = pc
  BY DEF OthersMove
<1>5. /\ job' \in Job /\ job'.moves # 0 /\ job'.level = job.level
      /\ job'.action = job.action /\ job'.seen = job.seen
      /\ job'.todo = job.todo /\ job'.cmd = job.cmd /\ job'.force = job.force
  BY <1>1, <1>3, <1>4 DEF Job
<1>6. ReadInv' /\ VerdictInv'
  BY <1>4, <1>5 DEF IInv, ReadInv, VerdictInv
<1> QED
  BY <1>2, <1>4, <1>5, <1>6 DEF IInv, TypeOK, RegInv

\* The steps after the verdict.
LEMMA EndKeeps ==
  ASSUME IInv, \/ FetchFails
               \/ \E yes \in BOOLEAN : Confirm(yes)
               \/ \E adopted \in BOOLEAN : Conclude(adopted)
  PROVE  IInv'
<1>1. job \in Job /\ RegInv
  BY DEF IInv, TypeOK, RegInv
<1>2. CASE FetchFails
  BY <1>2 DEF FetchFails, IInv, TypeOK, ReadInv, VerdictInv
<1>3. ASSUME NEW yes \in BOOLEAN, Confirm(yes)
      PROVE  IInv'
  <2>1. /\ pc = "graded" /\ pc' \in {"sent", "reported"} /\ reg' = reg /\ job' = job
    BY <1>3 DEF Confirm
  <2> QED
    BY <2>1 DEF IInv, TypeOK, ReadInv, VerdictInv, allowUnverified
<1>4. ASSUME NEW adopted \in BOOLEAN, Conclude(adopted)
      PROVE  IInv'
  <2>1. pc = "sent" /\ pc' = "concluded" /\ job' = job
    BY <1>4 DEF Conclude
  <2>2. job.action \in Action
    BY <1>1, <2>1 DEF IInv, TypeOK, Job
  <2>3. RegInv'
    BY <1>1, <1>4, <2>2, ResultKeeps DEF Conclude, RegInv
  <2> QED
    BY <2>1, <2>3 DEF IInv, TypeOK, ReadInv, VerdictInv, RegInv
<1> QED
  BY <1>2, <1>3, <1>4

LEMMA IInvNext == IInv /\ [Next]_vars => IInv'
<1> SUFFICES ASSUME IInv, [Next]_vars PROVE IInv'
  OBVIOUS
<1>1. CASE UNCHANGED vars
  BY <1>1 DEF vars, IInv, TypeOK, ReadInv, VerdictInv, allowUnverified
<1> QED
  BY <1>1, StartKeeps, SubnetKeeps, VersionKeeps, UnreadableKeeps, HeirsKeeps,
     DcsKeeps, OperatorKeeps, ProvidersKeeps, ChipsKeep, NodesKeeps, OwnersKeeps,
     CheckKeeps, OthersKeep, EndKeeps
  DEF Next

-----------------------------------------------------------------------------
(***************************************************************************)
(* Every variable keeps its type, for any registry, proposal and number of *)
(* moves (planCheck, and the fetchers of each kind).                       *)
(***************************************************************************)
THEOREM TypeCorrect == Spec => []TypeOK
<1>1. IInv => TypeOK
  BY DEF IInv
<1> QED
  BY <1>1, IInvInit, IInvNext, PTL DEF Spec

\* What a fresh verdict rests on.
LEMMA FreshVerdict ==
  ASSUME IInv, Fresh
  PROVE  /\ reg \in RegistryState /\ RegistryOK(reg)
         /\ job.action \in Action /\ job.seen \in Seen
         /\ job.level = Grade(job.action, job.seen)
         /\ ReadSoFar(reg, job.action, job.seen, <<>>, job.left, allowUnverified)
  BY DEF IInv, Fresh, TypeOK, Job, ReadInv, VerdictInv

(***************************************************************************)
(* A proposal refused as a no-op would have left every record as it is,    *)
(* for any registry and any proposal (plan.go:92, main.go:433).            *)
(***************************************************************************)
THEOREM NoOpIsNoOp == Spec => []NoOpChangesNothing
<1>1. IInv => NoOpChangesNothing
  BY FreshVerdict, NoOpIsReal DEF NoOpChangesNothing
<1> QED
  BY <1>1, IInvInit, IInvNext, PTL DEF Spec

(***************************************************************************)
(* A proposal graded clean and executed at once does not fail and does all *)
(* that it declares, given what no fetcher looks at, for any registry and  *)
(* any proposal (plan.go:90).                                              *)
(***************************************************************************)
THEOREM CleanIsSafe == Spec => []CleanTakesEffect
<1>1. IInv => CleanTakesEffect
  <2> SUFFICES ASSUME IInv, Fresh, job.level = "clean", Checked(job.action)
               PROVE  ~Fails(reg, job.action)
                      /\ Done(After(reg, job.action), job.action)
    BY DEF CleanTakesEffect
  <2>1. /\ job.action.kind = "membership" =>
             \A n \in job.action.add : reg.nodes[n] # NoRecord
        /\ job.action.kind = "remove_nodes" =>
             job.action.nodes \intersect reg.members = {}
        /\ job.action.kind = "remove_node_provider" =>
             job.action.provider \in reg.providers
    BY DEF Checked
  <2> QED
    BY <2>1, FreshVerdict, CleanIsRight
<1> QED
  BY <1>1, IInvInit, IInvNext, PTL DEF Spec

(***************************************************************************)
(* A proposal whose declared state already holds is never graded clean,    *)
(* for any registry and any proposal of the kinds whose fetchers can tell  *)
(* (plan.go:70-73).                                                        *)
(***************************************************************************)
THEOREM RepeatIsFlagged == Spec => []DoneIsFlagged
<1>1. IInv => DoneIsFlagged
  BY FreshVerdict, DoneIsSeen DEF DoneIsFlagged
<1> QED
  BY <1>1, IInvInit, IInvNext, PTL DEF Spec

(***************************************************************************)
(* A deploy submitted without --force names an elected version, for any    *)
(* registry: an elected set that could not be read stops apply             *)
(* (action.go:247-251).                                                    *)
(***************************************************************************)
THEOREM DeployIsElected == Spec => []SubmittedDeployIsElected
<1>1. IInv => SubmittedDeployIsElected
  <2> SUFFICES ASSUME IInv, pc = "sent", job.moves = 0,
                      job.action.kind = "deploy_guestos", ~job.force
               PROVE  job.action.version \in reg.elected
    BY DEF SubmittedDeployIsElected
  <2>1. ~allowUnverified /\ job.level # "noop"
    BY DEF IInv, VerdictInv, allowUnverified
  <2>2. Fresh
    BY DEF Fresh
  <2>3. ~job.seen.unverified /\ (job.seen.elected <=> job.action.version \in reg.elected)
    BY <2>1, <2>2, FreshVerdict DEF ReadSoFar
  <2>4. job.seen.elected
    BY <2>1, <2>2, <2>3, FreshVerdict DEF Grade, sevLaunchGate, planDeployGuestos
  <2> QED
    BY <2>3, <2>4
<1> QED
  BY <1>1, IInvInit, IInvNext, PTL DEF Spec

(***************************************************************************)
(* Whatever moved since it was read, a proposal graded clean either fails  *)
(* or does all that it declares, for any number of moves of others and any *)
(* registry, save for the two removals that the registry carries out in    *)
(* part without a trap (preflight, planCheck).                             *)
(***************************************************************************)
THEOREM CleanIsLoud == Spec => []CleanFailsLoudly
<1>1. IInv => CleanFailsLoudly
  <2>1. ASSUME IInv, pc \in {"graded", "sent", "reported"}
        PROVE  /\ reg \in RegistryState /\ job.action \in Action
               /\ job.level = Grade(job.action, job.seen)
    BY <2>1 DEF IInv, TypeOK, Job, VerdictInv
  <2> QED
    BY <2>1, CleanIsDone DEF CleanFailsLoudly
<1> QED
  BY <1>1, IInvInit, IInvNext, PTL DEF Spec
=============================================================================
