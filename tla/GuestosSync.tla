---------------------------- MODULE GuestosSync ----------------------------
(***************************************************************************)
(* alp guestos sync: the GuestOS versions the NNS has elected, replayed    *)
(* from the last elections the dashboard shows and written over the        *)
(* catalogue resources/guestos.hcl; with --set, an alias block written by  *)
(* hand is then repointed at the newest release of the variant.            *)
(* An election proposal has its position in executed as its id.            *)
(***************************************************************************)
EXTENDS Naturals, FiniteSets, Sequences

CONSTANTS
  Versions,
  Variant,       \* the versions whose release tag ends in the variant --set takes
  Window,        \* dashboardElectionLimit: 100 in the code
  MaxElections,  \* bounds executed
  None

ASSUME GuestosAssumption ==
  Variant \subseteq Versions /\ Window \in Nat \ {0} /\ MaxElections \in Nat
    /\ None \notin Versions

VARIABLES
  executed,   \* the election proposals, in the order of their ids
  elected,    \* the registry: what is elected after each of them
  catalogue,  \* the releases guestos.hcl has blocks of; {} when it is empty
  alias,      \* the id of the alias block, None when its file is empty
  set,        \* --set was given
  pc, seen, releases, result

nns == <<executed, elected>>
files == <<catalogue, alias>>
vars == <<nns, files, set, pc, seen, releases, result>>

Elections == [elect : Versions \union {None}, named : BOOLEAN, unelect : SUBSET Versions]
ElectedReleases == [version : Versions, named : BOOLEAN, id : 1..MaxElections]
VersionsOf(rs) == {r.version : r \in rs}

TypeOK ==
  /\ executed \in Seq(Elections) /\ Len(executed) <= MaxElections
  /\ elected \in Seq(SUBSET Versions) /\ Len(elected) = Len(executed)
  /\ catalogue \subseteq ElectedReleases /\ releases \subseteq ElectedReleases
  /\ Cardinality(VersionsOf(catalogue)) = Cardinality(catalogue)
  /\ alias \in Versions \union {None}
  /\ set \in BOOLEAN /\ seen \in 0..Len(executed)
  /\ pc \in {"idle", "write", "writing", "set", "setting"}
  /\ result \in {"none", "ok", "error", "killed"}

Init ==
  /\ executed = <<>> /\ elected = <<>> /\ catalogue = {} /\ alias \in Versions
  /\ set = FALSE /\ pc = "idle" /\ seen = 0 /\ releases = {} /\ result = "none"

-----------------------------------------------------------------------------
\* The NNS: a proposal is executed.  It may elect a version again, and it
\* unelects versions that are elected.  named: its summary has the release tag.
Execute ==
  /\ Len(executed) < MaxElections
  /\ LET before == IF elected = <<>> THEN {} ELSE elected[Len(elected)]
     IN \E p \in Elections :
          /\ p.unelect \subseteq before /\ p.elect \notin p.unelect
          /\ p.elect = None => p.unelect # {} /\ ~p.named
          /\ executed' = Append(executed, p)
          /\ elected' = Append(elected, (before \union ({p.elect} \ {None})) \ p.unelect)
  /\ UNCHANGED <<files, set, pc, seen, releases, result>>

\* fetchElections: the ids of the last Window of the first k proposals.
fetchElections(k) == {i \in 1..k : i + Window > k}

Released(i) == [version |-> executed[i].elect, named |-> executed[i].named, id |-> i]
Electing(ids) == {i \in ids : executed[i].elect # None}

\* A mistake: the elections are replayed as the dashboard serves them, newest
\* first, so an unelection comes before the election it reverses.
NewestFirst(ids) ==
  {Released(i) : i \in {j \in Electing(ids) :
     /\ \A k \in ids : k < j => executed[k].elect # executed[j].elect
     /\ \A k \in ids : k <= j => executed[j].elect \notin executed[k].unelect}}

\* A mistake: a version elected again is listed once per election.
EveryElection(ids) ==
  {Released(i) : i \in {j \in Electing(ids) :
     \A k \in ids : k >= j => executed[j].elect \notin executed[k].unelect}}

\* parseElectedReleases: in the order of their ids, each proposal elects, then
\* unelects.  What stays is each version whose last election no unelection
\* follows, under the name and the id of that election.
parseElectedReleases(ids) ==
  {Released(i) : i \in {j \in Electing(ids) :
     /\ \A k \in ids : k > j => executed[k].elect # executed[j].elect
     /\ \A k \in ids : k >= j => executed[j].elect \notin executed[k].unelect}}

\* LatestRelease: the newest one whose name has the variant's suffix; an
\* unnamed release has no suffix.
OfVariant(rs) == {r \in rs : r.named /\ r.version \in Variant}

\* A mistake: the variant is not looked at.
AnyVariant(rs) == {r \in rs : \A q \in rs : q.id <= r.id}

LatestRelease(rs) == {r \in OfVariant(rs) : \A q \in OfVariant(rs) : q.id <= r.id}

-----------------------------------------------------------------------------
Same == UNCHANGED nns
Stop(r) == pc' = "idle" /\ result' = r

\* FetchElectedReleases; the dashboard may lag behind the NNS.  An empty
\* catalogue is refused.
Fetch ==
  /\ pc = "idle" /\ set' \in BOOLEAN
  /\ \E k \in 0..Len(executed) :
       /\ seen' = k /\ releases' = parseElectedReleases(fetchElections(k))
       /\ IF releases' = {} THEN Stop("error")
          ELSE pc' = "write" /\ result' = "none"
  /\ Same /\ UNCHANGED files

FetchFails ==
  /\ pc = "idle" /\ Stop("error")
  /\ Same /\ UNCHANGED <<files, set, seen, releases>>

\* A mistake: the alias is repointed before the catalogue is written.
AliasFirst ==
  /\ pc = "write" /\ pc' = "writing" /\ catalogue' = {}
  /\ IF set /\ alias # None /\ LatestRelease(releases) # {}
       THEN \E r \in LatestRelease(releases) : alias' = r.version
     ELSE UNCHANGED alias
  /\ Same /\ UNCHANGED <<set, seen, releases, result>>

\* WriteGuestosHCL: os.WriteFile empties the file first.
EmptyCatalogue ==
  /\ pc = "write" /\ pc' = "writing" /\ catalogue' = {}
  /\ Same /\ UNCHANGED <<alias, set, seen, releases, result>>

WriteCatalogue ==
  /\ pc = "writing" /\ catalogue' = releases
  /\ IF ~set THEN Stop("ok")
     ELSE IF LatestRelease(releases) = {} THEN Stop("error")
     ELSE pc' = "set" /\ UNCHANGED result
  /\ Same /\ UNCHANGED <<alias, set, seen, releases>>

\* SetVersionAlias: without a block of that name, an error.
EmptyResources ==
  /\ pc = "set"
  /\ IF alias = None THEN Stop("error") /\ UNCHANGED alias
     ELSE pc' = "setting" /\ alias' = None /\ UNCHANGED result
  /\ Same /\ UNCHANGED <<catalogue, set, seen, releases>>

SetVersionAlias ==
  /\ pc = "setting" /\ \E r \in LatestRelease(releases) : alias' = r.version
  /\ Stop("ok") /\ Same /\ UNCHANGED <<catalogue, set, seen, releases>>

\* The operator interrupts the command, or restores the file from git.
Killed ==
  /\ pc # "idle" /\ Stop("killed")
  /\ Same /\ UNCHANGED <<files, set, seen, releases>>

Restore ==
  /\ pc = "idle" /\ alias = None /\ alias' \in Versions
  /\ Same /\ UNCHANGED <<catalogue, set, pc, seen, releases, result>>

Sync == Fetch \/ FetchFails \/ EmptyCatalogue \/ WriteCatalogue \/ EmptyResources
          \/ SetVersionAlias \/ Killed

Next == Execute \/ Sync \/ Restore

Spec == Init /\ [][Next]_vars

-----------------------------------------------------------------------------
ElectedAfter(k) == IF k = 0 THEN {} ELSE elected[k]

\* What is listed is what the NNS had elected at the moment of the answer, less
\* the versions no proposal of the window elects: through re-elections and
\* unelections, and whatever the window cuts off, a version is missing rather
\* than wrong.
MissingRatherThanWrong ==
  pc # "idle" =>
    VersionsOf(releases) =
      {v \in ElectedAfter(seen) : \E i \in fetchElections(seen) : executed[i].elect = v}

\* A sync that reports success leaves on disk what it read, whatever syncs were
\* interrupted before; and with --set the alias names a version then elected,
\* of the variant, that no release of the variant in the catalogue is newer than.
OkSyncAgrees ==
  pc = "idle" /\ result = "ok" =>
    /\ catalogue = releases
    /\ set => /\ alias \in Variant \intersect ElectedAfter(seen)
              /\ \E r \in catalogue :
                   /\ r.version = alias
                   /\ \A q \in catalogue : q.id > r.id => ~q.named \/ q.version \notin Variant

\* At whatever point a sync stops, it has not moved the alias to a version
\* without a block in the catalogue on disk.
AliasIsCatalogued ==
  [][alias' # alias /\ alias' # None /\ pc # "idle"
       => alias' \in VersionsOf(catalogue)]_vars
=============================================================================
