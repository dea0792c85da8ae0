------------------------------ MODULE Registry ------------------------------
(***************************************************************************)
(* What alp's proposals are about: the records of the NNS registry, and    *)
(* governance's list of node providers, with what executing a proposal     *)
(* does to them.  The canisters are not in this repository; what they      *)
(* check and how they fail is what the comments of the planners say        *)
(* (nns/plan_*.go, nns/sev.go, nns/removal.go, nns/onboarding.go).  One    *)
(* subnet is modelled, the one the proposals name.                         *)
(***************************************************************************)
EXTENDS Naturals, FiniteSets

CONSTANTS
  Nodes, Operators, Providers,
  Dcs,        \* data centers, each with the record a proposal would add
  TooLong,    \* those with a field over the canister's 255 bytes
  Versions,   \* GuestOS versions
  Measured,   \* those whose record carries guest launch measurements
  Settings,   \* values of a subnet setting that is replaced as a whole
  EmptyList,  \* the setting that clears a list
  NoRecord,
  Registries  \* states the registry may be found in

VARIABLE reg

NodeRecord == [operator : Operators, chip : BOOLEAN]
OperatorRecord == [provider : Providers, dc : Dcs]

RegistryState ==
  [members : SUBSET Nodes, version : Versions, sev : BOOLEAN,
   setting : Settings,
   nodes : [Nodes -> NodeRecord \union {NoRecord}],
   elected : SUBSET Versions,
   operators : [Operators -> OperatorRecord \union {NoRecord}],
   providers : SUBSET Providers, dcs : SUBSET Dcs]

\* The two invariants of a SEV-enabled subnet.
SevHolds(r) ==
  r.sev => /\ \A n \in r.members : r.nodes[n] # NoRecord /\ r.nodes[n].chip
           /\ r.version \in Measured

RegistryOK(r) ==
  /\ \A n \in r.members : r.nodes[n] # NoRecord
  /\ r.version \in r.elected
  /\ SevHolds(r)
  /\ r.dcs \intersect TooLong = {}

ASSUME NoRecordAssumption == NoRecord \notin NodeRecord \union OperatorRecord
ASSUME DcsAssumption == TooLong \subseteq Dcs
ASSUME MeasuredAssumption == Measured \subseteq Versions
ASSUME EmptyListAssumption == EmptyList \in Settings
ASSUME RegistriesAssumption ==
  Registries \subseteq {r \in RegistryState : RegistryOK(r)}

-----------------------------------------------------------------------------
(***************************************************************************)
(* The nine kinds of proposal.  A field that update_subnet does not        *)
(* declare is the empty set, a declared one a singleton; "set" stands for  *)
(* any of the plain settings and lists, "sev" for features.                *)
(***************************************************************************)
Optional(S) == {{}} \union {{v} : v \in S}

Action ==
       [kind : {"membership"}, add : SUBSET Nodes, remove : SUBSET Nodes]
  \union [kind : {"deploy_guestos"}, version : Versions]
  \union {a \in [kind : {"update_subnet"}, set : Optional(Settings),
                 sev : Optional(BOOLEAN)] : a.set # {} \/ a.sev # {}}
  \union [kind : {"remove_nodes"}, nodes : (SUBSET Nodes) \ {{}}]
  \union [kind : {"remove_node_operators"}, ops : (SUBSET Operators) \ {{}}]
  \union [kind : {"remove_node_provider"}, provider : Providers]
  \union [kind : {"add_data_centers"}, dcs : (SUBSET Dcs) \ {{}}]
  \union [kind : {"add_node_provider"}, provider : Providers]
  \union [kind : {"add_node_operator"}, operator : Operators,
          provider : Providers, dc : Dcs, allowance : {0, 1}]

ASSUME NoActionAssumption == NoRecord \notin Action

Owned(r, o) == {n \in Nodes : r.nodes[n] # NoRecord /\ r.nodes[n].operator = o}

Exists(r, o) == r.operators[o] # NoRecord

Heirs(r, q) == {o \in Operators : Exists(r, o) /\ r.operators[o].provider = q}

\* The value a field declares, or the one it has.
Declared(S, x) == IF S = {} THEN x ELSE CHOOSE v \in S : TRUE

\* The records after a, had its execution nothing to object to.
After(r, a) ==
  CASE a.kind = "membership" ->
         [r EXCEPT !.members = (@ \union a.add) \ a.remove]
    [] a.kind = "deploy_guestos" -> [r EXCEPT !.version = a.version]
    [] a.kind = "update_subnet" ->
         [r EXCEPT !.setting = Declared(a.set, @), !.sev = Declared(a.sev, @)]
    [] a.kind = "remove_nodes" ->
         [r EXCEPT !.nodes =
            [n \in Nodes |-> IF n \in a.nodes THEN NoRecord ELSE @[n]]]
    [] a.kind = "remove_node_operators" ->
         [r EXCEPT !.operators =
            [o \in Operators |-> IF o \in a.ops /\ Owned(r, o) = {}
                                 THEN NoRecord ELSE @[o]]]
    [] a.kind = "remove_node_provider" ->
         [r EXCEPT !.providers = @ \ {a.provider}]
    [] a.kind = "add_data_centers" ->
         [r EXCEPT !.dcs = @ \union (a.dcs \ TooLong)]
    [] a.kind = "add_node_provider" ->
         [r EXCEPT !.providers = @ \union {a.provider}]
    [] a.kind = "add_node_operator" ->
         [r EXCEPT !.operators[a.operator] =
            [provider |-> a.provider, dc |-> a.dc]]

\* Governance rejects a, or the registry traps while it executes a.
Fails(r, a) ==
  CASE a.kind = "remove_node_provider" -> a.provider \notin r.providers
    [] a.kind = "add_node_provider" -> a.provider \in r.providers
    [] a.kind = "add_data_centers" -> a.dcs \intersect r.dcs # {}
    [] a.kind = "add_node_operator" -> \/ Exists(r, a.operator)
                                       \/ a.dc \notin r.dcs
                                       \/ a.provider \notin r.providers
    [] a.kind = "update_subnet" -> \/ r.sev /\ FALSE \in a.sev
                                   \/ ~SevHolds(After(r, a))
    [] OTHER -> ~RegistryOK(After(r, a))

Result(r, a) == IF Fails(r, a) THEN r ELSE After(r, a)

\* What a says: the records are as it declares them.
Done(r, a) ==
  CASE a.kind = "membership" -> /\ a.add \subseteq r.members
                                /\ a.remove \intersect r.members = {}
    [] a.kind = "deploy_guestos" -> r.version = a.version
    [] a.kind = "update_subnet" -> /\ a.set \subseteq {r.setting}
                                   /\ a.sev \subseteq {r.sev}
    [] a.kind = "remove_nodes" -> \A n \in a.nodes : r.nodes[n] = NoRecord
    [] a.kind = "remove_node_operators" -> \A o \in a.ops : ~Exists(r, o)
    [] a.kind = "remove_node_provider" -> /\ a.provider \notin r.providers
                                          /\ Heirs(r, a.provider) = {}
    [] a.kind = "add_data_centers" -> a.dcs \subseteq r.dcs
    [] a.kind = "add_node_provider" -> a.provider \in r.providers
    [] a.kind = "add_node_operator" ->
         r.operators[a.operator] = [provider |-> a.provider, dc |-> a.dc]

-----------------------------------------------------------------------------
(* What changes the records besides alp. *)

RegisterNode(n, rec) == reg.nodes[n] = NoRecord /\ reg' = [reg EXCEPT !.nodes[n] = rec]

Elect(v) == v \notin reg.elected /\ reg' = [reg EXCEPT !.elected = @ \union {v}]

Unelect(v) ==
  v \in reg.elected \ {reg.version} /\ reg' = [reg EXCEPT !.elected = @ \ {v}]

ExecuteOther(a) == Result(reg, a) # reg /\ reg' = Result(reg, a)

RegistryMoves ==
  \/ \E n \in Nodes, rec \in NodeRecord : RegisterNode(n, rec)
  \/ \E v \in Versions : Elect(v) \/ Unelect(v)
  \/ \E a \in Action : ExecuteOther(a)
=============================================================================
