----------------------------- MODULE MCDryRun -----------------------------
(***************************************************************************)
(* An instance of DryRun: an application subnet and the system subnet,     *)
(* three nodes of two operators.                                           *)
(***************************************************************************)
EXTENDS DryRun

CONSTANTS s1, nns, n1, n2, n3, o1, o2, p1, p2, d1, d2, v1, v2, h1,
          seed_s, seed_n, seed_o, seed_d, seed_v

MCSubnets == {s1, nns}
MCNodes == {n1, n2, n3}
MCOperators == {o1, o2}
MCProviders == {p1, p2}
MCDcs == {d1, d2}
MCVersions == {v1, v2}
MCHostVersions == {h1}

Node(o, h) == [operator |-> o, hostos |-> h]

\* s1 runs n1 and the system subnet runs n2, both on v1; n3 is spare.
Before ==
  [subnets |-> (s1 :> [members |-> {n1}, version |-> v1])
                 @@ (nns :> [members |-> {n2}, version |-> v1]),
   nodes |-> (n1 :> Node(o1, h1)) @@ (n2 :> Node(o2, None)) @@ (n3 :> Node(o1, h1)),
   operators |-> [o \in MCOperators |-> [dc |-> d1]],
   dcs |-> {d1}, versions |-> {v1}, hostos |-> {h1}, providers |-> {p1}]

\* n3 took n1's place and n1 left the registry.
Swapped == [Before EXCEPT !.subnets[s1].members = {n3}, !.nodes[n1] = None]

\* s1 was upgraded, the system subnet too, and v1 was retired.
Upgraded == [Before EXCEPT !.subnets[s1].version = v2, !.subnets[nns].version = v2,
                           !.versions = {v2}]

\* o1's node moved to o2's; o1 and its provider are gone, p2 came.
Retired == [Before EXCEPT !.nodes[n1].operator = o2, !.nodes[n3].operator = o2,
                          !.operators[o1] = None, !.operators[o2].dc = d2,
                          !.dcs = {d2}, !.providers = {p2}]

MCHistories == {<<Before, Swapped>>, <<Before, Upgraded>>, <<Swapped, Before, Retired>>}

MCActions ==
  {[kind |-> "membership", subnet |-> s1, add |-> {n3}, remove |-> {n1}],
   [kind |-> "membership", subnet |-> nns, add |-> {n1}, remove |-> {}],
   [kind |-> "deploy_guestos", subnet |-> s1, version |-> v1, traps |-> FALSE],
   [kind |-> "deploy_guestos", subnet |-> s1, version |-> v2, traps |-> FALSE],
   [kind |-> "update_subnet", subnet |-> s1, traps |-> TRUE],
   [kind |-> "remove_nodes", nodes |-> {n1, n3}],
   [kind |-> "remove_node_operators", operators |-> {o1}],
   [kind |-> "add_data_centers"],
   [kind |-> "add_node_provider", provider |-> p1],
   [kind |-> "add_node_provider", provider |-> p2],
   [kind |-> "remove_node_provider", provider |-> p1],
   [kind |-> "add_node_operator", provider |-> p2, dc |-> d2]}
=============================================================================
