----------------------------- MODULE Resources -----------------------------
(***************************************************************************)
(* The inventory resources.hcl declares, and the network it is about.      *)
(* Each block kind is a sequence of records; a block's name and its label  *)
(* are left out.  None is an attribute or a record field that is absent.   *)
(***************************************************************************)
EXTENDS Naturals, FiniteSets, SequencesExt

CONSTANTS Subnets, Nodes, Operators, Providers, Dcs, Regions, Versions,
          ChipIds, Admins, None

Types == {"application", "verified_application", "system", "cloud_engine"}
Schedules == {"normal", "free"}
Optional(S) == S \union {None}
OptOut == "none"   \* GuestosVersionNone

\* The blocks of an inventory.  gone: retired or decommissioned.
Inventory ==
  [subnets : Seq([id : Subnets, type : Optional(Types), schedule : Optional(Schedules),
                  admins : SUBSET Admins, sev : BOOLEAN]),
   providers : Seq([id : Providers, gone : BOOLEAN]),
   operators : Seq([id : Operators, provider : Optional(Providers), dc : Optional(Dcs),
                    gone : BOOLEAN]),
   dcs : Seq([id : Dcs, region : Optional(Regions)]),
   nodes : Seq([id : Nodes, subnet : Optional(Subnets), operator : Optional(Operators),
                gone : BOOLEAN, version : Optional(Versions \union {OptOut}),
                chip : Optional(ChipIds)]),
   versions : Seq([id : Versions, default : BOOLEAN])]

\* DeclaredType and DeclaredCostSchedule: what an omitted attribute asserts.
DeclaredType(s) == IF s.type = None THEN "application" ELSE s.type
DeclaredCostSchedule(s) ==
  IF s.schedule # None THEN s.schedule
  ELSE IF DeclaredType(s) = "cloud_engine" THEN "free" ELSE "normal"

maxSubnetAdmins == 10

\* ValidateSubnet: what the registry would refuse is refused at load.
ValidateSubnet(s) ==
  LET type == DeclaredType(s)
      schedule == DeclaredCostSchedule(s)
  IN /\ type = "cloud_engine" => schedule = "free"
     /\ schedule = "free" => type \in {"application", "cloud_engine"}
     /\ s.admins # {} => /\ schedule = "free"
                         /\ type \in {"application", "cloud_engine"}
                         /\ Cardinality(s.admins) <= maxSubnetAdmins

Ids(blocks) == {blocks[i].id : i \in DOMAIN blocks}

\* checkUnique: no id twice within a kind, GuestOS versions aside.
UniqueIds(blocks) == Cardinality(Ids(blocks)) = Len(blocks)
checkUnique(c) ==
  /\ UniqueIds(c.subnets) /\ UniqueIds(c.nodes) /\ UniqueIds(c.providers)
  /\ UniqueIds(c.operators) /\ UniqueIds(c.dcs)

\* checkOneDefaultVersion
checkOneDefaultVersion(c) ==
  \A i, j \in DOMAIN c.versions :
    c.versions[i].default /\ c.versions[j].default => i = j

\* loadResources accepts.
Loads(c) ==
  /\ checkUnique(c) /\ checkOneDefaultVersion(c)
  /\ \A i \in DOMAIN c.subnets : ValidateSubnet(c.subnets[i])

\* DefaultVersion, None when no block is the default.
DefaultVersion(c) ==
  LET d == SelectSeq(c.versions, LAMBDA v : v.default)
  IN IF d = <<>> THEN None ELSE d[1].id

\* ExpectedVersion: the node's own version, else the default; None when
\* nothing is expected of it.
ExpectedVersion(c, n) ==
  IF n.gone \/ n.version = OptOut THEN None
  ELSE IF n.version # None THEN n.version ELSE DefaultVersion(c)

VersionCheckedNodes(c) ==
  {n \in ToSet(c.nodes) : ExpectedVersion(c, n) # None}

\* The block that declares a node.
Block(c, id) == CHOOSE n \in ToSet(c.nodes) : n.id = id

-----------------------------------------------------------------------------
(***************************************************************************)
(* The network at one moment.  facts are the fields of a subnet record,    *)
(* running what each node's replica reports, None when it is unreachable.  *)
(***************************************************************************)

World ==
  [members : [Subnets -> SUBSET Nodes],
   facts : [Subnets -> [type : Optional(Types), schedule : Optional(Schedules),
                        admins : SUBSET Admins, sev : Optional(BOOLEAN)]],
   dcs : [Dcs -> Optional(Regions)],
   operators : [Operators -> Optional([provider : Providers, dc : Dcs])],
   nodes : [Nodes -> Optional([operator : Operators, chip : Optional(ChipIds)])],
   running : [Nodes -> Optional(Versions)],
   elected : SUBSET Versions]

Registered(w, n) == w.nodes[n] # None
NodesOf(w, o) == {n \in Nodes : Registered(w, n) /\ w.nodes[n].operator = o}
OwnedBy(w, p) ==
  {[id |-> o, dc |-> w.operators[o].dc, region |-> w.dcs[w.operators[o].dc]] :
     o \in {q \in Operators : w.operators[q] # None /\ w.operators[q].provider = p}}
=============================================================================
