---------------------------- MODULE MCPreflight ----------------------------
(* Registries for TLC: every state of the subnet and its nodes with fixed  *)
(* onboarding records, every onboarding state with a fixed subnet, and the *)
(* operators' nodes.                                                       *)
EXTENDS Preflight

CONSTANTS n1, n2, o1, q1, d1, d2, v1, v2, none, s1

MCNodes == {n1, n2}
MCDcs == {d1, d2}
MCTooLong == {d2}
MCVersions == {v1, v2}
MCMeasured == {v1}
MCSettings == {none, s1}

Node == [operator : {o1}, chip : BOOLEAN]
SomeOperator == [o \in {o1} |-> [provider |-> q1, dc |-> d1]]
NoNodes == [n \in MCNodes |-> NoRecord]

\* Every subnet over every pair of node records.
SubnetRegistries ==
  {r \in [members : SUBSET MCNodes, version : MCVersions, sev : BOOLEAN,
          setting : MCSettings, nodes : [MCNodes -> Node \union {NoRecord}],
          elected : SUBSET MCVersions, operators : {SomeOperator},
          providers : {{q1}}, dcs : {{d1}}] : RegistryOK(r)}

\* Every onboarding state beside an empty subnet.
OnboardingRegistries ==
  [members : {{}}, version : {v1}, sev : {FALSE}, setting : {none},
   nodes : {NoNodes}, elected : {{v1}},
   operators : [{o1} -> [provider : {q1}, dc : {d1}] \union {NoRecord}],
   providers : SUBSET {q1}, dcs : SUBSET {d1}]

MCRegistries == SubnetRegistries \union OnboardingRegistries
=============================================================================
