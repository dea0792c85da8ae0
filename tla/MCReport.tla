----------------------------- MODULE MCReport -----------------------------
(***************************************************************************)
(* An instance of Report: one subnet, three nodes, two operators.          *)
(***************************************************************************)
EXTENDS Report, TLC

CONSTANTS s1, n1, n2, n3, o1, o2, p1, p2, d1, r1, r2, v1, v2, c1, c2, a1

MCSubnets == {s1}
MCNodes == {n1, n2, n3}
MCOperators == {o1, o2}
MCProviders == {p1, p2}
MCDcs == {d1}
MCRegions == {r1, r2}
MCVersions == {v1, v2}
MCChips == {c1, c2}
MCAdmins == {a1}

Node(id, s, gone, version, chip) ==
  [id |-> id, subnet |-> s, operator |-> o1, gone |-> gone,
   version |-> version, chip |-> chip]

\* n1 serves s1, n2 is decommissioned; everything has an operator.
Full ==
  [subnets |-> <<[id |-> s1, type |-> None, schedule |-> None, admins |-> {}, sev |-> TRUE]>>,
   providers |-> <<[id |-> p1, gone |-> FALSE]>>,
   operators |-> <<[id |-> o1, provider |-> p1, dc |-> d1, gone |-> FALSE]>>,
   dcs |-> <<[id |-> d1, region |-> r1]>>,
   nodes |-> <<Node(n1, s1, FALSE, None, c1), Node(n2, None, TRUE, None, None)>>,
   versions |-> <<[id |-> v1, default |-> TRUE]>>]

\* Two operators, the second one retired; a node opts out of the version check.
TwoOperators ==
  [Full EXCEPT !.operators = Append(@, [id |-> o2, provider |-> p1, dc |-> None, gone |-> TRUE]),
               !.nodes = <<Node(n1, s1, FALSE, OptOut, c1), Node(n2, None, FALSE, v2, None)>>]

NoProvider == [Full EXCEPT !.providers = <<>>, !.operators[1].provider = None]

OnlyDcs == [Full EXCEPT !.subnets = <<>>, !.providers = <<>>, !.operators = <<>>,
                        !.nodes = <<>>]

\* A retired operator whose provider no block declares.
Orphan == [Full EXCEPT !.providers = <<[id |-> p2, gone |-> FALSE]>>, !.operators[1].gone = TRUE]

Twice == [Full EXCEPT !.nodes = Append(@, @[1])]

\* More nodes than slots, one of them not there yet.
Joining == [Full EXCEPT !.nodes = Append(@, Node(n3, s1, FALSE, v2, None))]

MCConfigs == {Full, TwoOperators, Joining, NoProvider, Orphan, OnlyDcs, Twice}

Record(o, c) == [operator |-> o, chip |-> c]

\* The network Full describes.
Settled ==
  [members |-> (s1 :> {n1}),
   facts |-> (s1 :> [type |-> None, schedule |-> None, admins |-> {}, sev |-> TRUE]),
   dcs |-> (d1 :> r1),
   operators |-> (o1 :> [provider |-> p1, dc |-> d1]) @@ (o2 :> None),
   nodes |-> (n1 :> Record(o1, c1)) @@ (n2 :> None) @@ (n3 :> None),
   running |-> (n1 :> v1) @@ (n2 :> None) @@ (n3 :> None),
   elected |-> {v1}]

\* n2 is registered, under an operator Full does not declare.
Returned == [Settled EXCEPT !.nodes[n2] = Record(o2, None), !.running[n2] = v2,
                            !.operators[o2] = [provider |-> p1, dc |-> d1]]

\* n3 joined s1, the fleet runs v2, n1 has another chip and s1 an admin.
Grown == [Settled EXCEPT !.members[s1] = {n1, n3}, !.nodes[n3] = Record(o1, None),
                         !.nodes[n1].chip = c2, !.running[n1] = v2, !.elected = {v2},
                         !.facts[s1].admins = {a1}, !.dcs[d1] = r2]

\* n1 went over to o2, and the data center is gone.
Moved == [Returned EXCEPT !.nodes[n1].operator = o2, !.nodes[n2] = None, !.dcs[d1] = None]

\* Every history of three of these worlds.
MCHistories ==
  {h \in [1..3 -> {Settled, Returned, Grown, Moved}] : \A i \in 1..2 : h[i] # h[i + 1]}
=============================================================================
