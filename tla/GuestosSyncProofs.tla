------------------------- MODULE GuestosSyncProofs -------------------------
(***************************************************************************)
(* Proofs about GuestosSync, for every window, number of elections and set *)
(* of versions: what a sync lists was elected when the dashboard answered, *)
(* a sync that reports success left the files in agreement, and the alias  *)
(* moves to catalogued versions only.                                      *)
(***************************************************************************)
EXTENDS GuestosSync, FiniteSetTheorems, TLAPS

\* No proposal from i to k unelects v.
Stays(v, i, k) == \A j \in i..k : v \notin executed[j].unelect

\* elected is the replay of all of executed.
Replayed ==
  \A k \in 0..Len(executed), v \in Versions :
    v \in ElectedAfter(k) <=>
      \E i \in 1..k : executed[i].elect = v /\ Stays(v, i, k)

\* Among the first k proposals that elect v there is a last one.
LastElections ==
  \A k \in 0..Len(executed), v \in Versions :
    (\E i \in 1..k : executed[i].elect = v) =>
      \E i \in 1..k : /\ executed[i].elect = v
                      /\ \A j \in (i + 1)..k : executed[j].elect # v

NnsType ==
  /\ executed \in Seq(Elections)
  /\ elected \in Seq(SUBSET Versions) /\ Len(elected) = Len(executed)

SyncType ==
  /\ seen \in 0..Len(executed) /\ alias \in Versions \union {None}
  /\ set \in BOOLEAN
  /\ pc \in {"idle", "write", "writing", "set", "setting"}

\* What a sync read is what the replay of its window gives, until the next.
Listed ==
  pc # "idle" \/ result = "ok" =>
    releases = parseElectedReleases(fetchElections(seen))

\* The catalogue on disk is the one of this sync from its write on.
Written == pc \in {"set", "setting"} => catalogue = releases /\ set

NnsInv == NnsType /\ Replayed /\ LastElections

IInv == NnsInv /\ SyncType /\ Listed /\ Written /\ OkSyncAgrees

-----------------------------------------------------------------------------
(***************************************************************************)
(* The window.  The elections the dashboard shows are a suffix of those up *)
(* to its answer, so a version's last election is in it if any of its      *)
(* elections is, and no unelection after an election it shows is cut off.  *)
(***************************************************************************)

LEMMA WindowIsSuffix ==
  ASSUME NEW k \in Nat, NEW i \in fetchElections(k)
  PROVE  i \in 1..k /\ \A j \in i..k : j \in fetchElections(k)
<1>1. Window \in Nat \ {0}
  BY GuestosAssumption
<1> QED
  BY <1>1 DEF fetchElections

\* What parseElectedReleases lists of a window.
LEMMA ListedIsElected ==
  ASSUME NnsInv, NEW k \in 0..Len(executed)
  PROVE  VersionsOf(parseElectedReleases(fetchElections(k))) =
           {v \in ElectedAfter(k) :
              \E i \in fetchElections(k) : executed[i].elect = v}
<1> DEFINE ids == fetchElections(k)
           kept == parseElectedReleases(ids)
<1>1. k \in Nat /\ \A i \in ids : i \in 1..k /\ \A j \in i..k : j \in ids
  BY WindowIsSuffix DEF NnsInv, NnsType
<1>2. ElectedAfter(k) \subseteq Versions
  BY DEF ElectedAfter, NnsInv, NnsType
<1>3. \A i \in 1..k : executed[i].elect \in Versions \union {None}
  <2>1. \A i \in 1..k : executed[i] \in Elections
    BY DEF NnsInv, NnsType
  <2> QED
    BY <2>1 DEF Elections
<1>4. ASSUME NEW r \in kept
      PROVE  /\ r.version \in ElectedAfter(k)
             /\ \E i \in ids : executed[i].elect = r.version
  <2>1. PICK j \in Electing(ids) :
          /\ r = Released(j)
          /\ \A i \in ids : i >= j => executed[j].elect \notin executed[i].unelect
    BY <1>4 DEF parseElectedReleases
  <2>2. j \in ids /\ j \in 1..k /\ r.version = executed[j].elect /\ r.version # None
    BY <2>1, <1>1 DEF Electing, Released
  <2>3. Stays(r.version, j, k)
    BY <2>1, <2>2, <1>1 DEF Stays
  <2>4. r.version \in Versions
    BY <2>2, <1>3
  <2> QED
    BY <2>2, <2>3, <2>4 DEF NnsInv, Replayed
<1>5. ASSUME NEW v \in ElectedAfter(k), NEW i \in ids, executed[i].elect = v
      PROVE  \E r \in kept : r.version = v
  <2>1. i \in 1..k /\ v \in Versions
    BY <1>1, <1>2
  <2>2. PICK last \in 1..k : /\ executed[last].elect = v
                             /\ \A j \in (last + 1)..k : executed[j].elect # v
    BY <2>1, <1>5 DEF NnsInv, LastElections
  <2>3. last >= i
    BY <2>1, <2>2, <1>1, <1>5
  <2>4. last \in ids
    BY <2>3, <2>1, <2>2, <1>1
  <2>5. PICK from \in 1..k : executed[from].elect = v /\ Stays(v, from, k)
    BY <2>1 DEF NnsInv, Replayed
  <2>6. from <= last
    BY <2>2, <2>5, <1>1
  <2>7. \A j \in ids : j >= last => v \notin executed[j].unelect
    BY <2>5, <2>6, <1>1 DEF Stays
  <2>8. \A j \in ids : j > last => executed[j].elect # v
    BY <2>2, <1>1
  <2>9. last \in Electing(ids)
    BY <2>2, <2>4, <2>1, GuestosAssumption DEF Electing
  <2>10. Released(last) \in kept /\ Released(last).version = v
    BY <2>2, <2>7, <2>8, <2>9 DEF parseElectedReleases, Released
  <2> QED
    BY <2>10
<1> QED
  BY <1>4, <1>5 DEF VersionsOf

-----------------------------------------------------------------------------
(***************************************************************************)
(* The NNS.                                                                *)
(***************************************************************************)

LEMMA NnsInvInit == Init => NnsInv
<1>1. ASSUME Init
      PROVE  executed = <<>> /\ elected = <<>>
  BY <1>1 DEF Init
<1> QED
  BY <1>1 DEF NnsInv, NnsType, Replayed, LastElections, ElectedAfter

\* A proposal is executed: what was elected stays unless it is unelected, and
\* the one version it elects has its last election here.
LEMMA ExecuteKeepsNnsInv ==
  ASSUME NnsInv, Execute
  PROVE  /\ NnsInv' /\ Len(executed') = Len(executed) + 1
         /\ \A k \in 1..Len(executed) : executed'[k] = executed[k]
         /\ \A k \in 0..Len(executed) : ElectedAfter(k)' = ElectedAfter(k)
<1>0. PICK n \in Nat : n = Len(executed)
  BY DEF NnsInv, NnsType
<1> DEFINE before == IF elected = <<>> THEN {} ELSE elected[Len(elected)]
<1>1. PICK p \in Elections :
        /\ p.unelect \subseteq before /\ p.elect \notin p.unelect
        /\ executed' = Append(executed, p)
        /\ elected' = Append(elected,
                             (before \union ({p.elect} \ {None})) \ p.unelect)
  BY DEF Execute
<1>2. /\ n \in Nat /\ Len(executed) = n /\ Len(elected) = n
      /\ p.elect \in Versions \union {None} /\ p.unelect \subseteq Versions
  BY <1>0 DEF NnsInv, NnsType, Elections
<1>3. before = ElectedAfter(n) /\ before \subseteq Versions
  BY <1>2 DEF ElectedAfter, NnsInv, NnsType
<1>4. /\ Len(executed') = n + 1 /\ executed'[n + 1] = p
      /\ \A k \in 1..n : executed'[k] = executed[k]
  BY <1>1, <1>2 DEF NnsInv, NnsType
<1>5. /\ Len(elected') = n + 1
      /\ elected'[n + 1] = (before \union ({p.elect} \ {None})) \ p.unelect
      /\ \A k \in 1..n : elected'[k] = elected[k]
  BY <1>1, <1>2, <1>3 DEF NnsInv, NnsType
<1>6. NnsType'
  BY <1>1, <1>2, <1>3, <1>4, <1>5 DEF NnsInv, NnsType
<1>7. \A k \in 0..n : ElectedAfter(k)' = ElectedAfter(k)
  BY <1>2, <1>5 DEF ElectedAfter
<1>8. ElectedAfter(n + 1)' = (before \union ({p.elect} \ {None})) \ p.unelect
  BY <1>2, <1>5 DEF ElectedAfter
<1>9. ASSUME NEW k \in 0..(n + 1), NEW v \in Versions
      PROVE  v \in ElectedAfter(k)' <=>
               \E i \in 1..k : executed'[i].elect = v /\ Stays(v, i, k)'
  <2>1. CASE k \in 0..n
    <3>1. \A i \in 1..k : Stays(v, i, k)' <=> Stays(v, i, k)
      BY <2>1, <1>2, <1>4 DEF Stays
    <3> QED
      BY <2>1, <3>1, <1>2, <1>4, <1>7 DEF NnsInv, Replayed
  <2>2. CASE k = n + 1
    <3>1. \A i \in 1..n : Stays(v, i, n + 1)' <=> Stays(v, i, n) /\ v \notin p.unelect
      BY <1>2, <1>4 DEF Stays
    <3>2. Stays(v, n + 1, n + 1)' <=> v \notin p.unelect
      BY <1>2, <1>4 DEF Stays
    <3>3. v \in before <=> \E i \in 1..n : executed[i].elect = v /\ Stays(v, i, n)
      BY <1>2, <1>3 DEF NnsInv, Replayed
    <3>4. v \in ElectedAfter(n + 1)' <=> (v \in before \/ p.elect = v) /\ v \notin p.unelect
      BY <1>8, GuestosAssumption
    <3>5. (\E i \in 1..(n + 1) : executed'[i].elect = v /\ Stays(v, i, n + 1)')
            <=> \/ \E i \in 1..n : executed[i].elect = v /\ Stays(v, i, n + 1)'
                \/ p.elect = v /\ Stays(v, n + 1, n + 1)'
      BY <1>2, <1>4
    <3> QED
      BY <2>2, <3>1, <3>2, <3>3, <3>4, <3>5
  <2> QED
    BY <2>1, <2>2, <1>2
<1>10. ASSUME NEW k \in 0..(n + 1), NEW v \in Versions,
              NEW i \in 1..k, executed'[i].elect = v
       PROVE  \E j \in 1..k : /\ executed'[j].elect = v
                              /\ \A q \in (j + 1)..k : executed'[q].elect # v
  <2>1. CASE k = n + 1 /\ p.elect = v
    BY <2>1, <1>2, <1>4
  <2>2. CASE k = n + 1 /\ p.elect # v
    <3>1. i \in 1..n /\ executed[i].elect = v /\ n \in 0..Len(executed)
      BY <2>2, <1>2, <1>4, <1>10
    <3>2. PICK j \in 1..n : /\ executed[j].elect = v
                            /\ \A q \in (j + 1)..n : executed[q].elect # v
      BY <3>1 DEF NnsInv, LastElections
    <3> QED
      BY <3>2, <2>2, <1>2, <1>4
  <2>3. CASE k \in 0..n
    <3>1. i \in 1..k /\ executed[i].elect = v
      BY <2>3, <1>2, <1>4, <1>10
    <3>2. PICK j \in 1..k : /\ executed[j].elect = v
                            /\ \A q \in (j + 1)..k : executed[q].elect # v
      BY <2>3, <3>1, <1>2 DEF NnsInv, LastElections
    <3> QED
      BY <3>2, <2>3, <1>2, <1>4
  <2> QED
    BY <2>1, <2>2, <2>3, <1>2
<1>11. Replayed'
  BY <1>2, <1>4, <1>9 DEF Replayed
<1>12. LastElections'
  BY <1>2, <1>4, <1>10 DEF LastElections
<1> QED
  BY <1>2, <1>4, <1>6, <1>7, <1>11, <1>12 DEF NnsInv

-----------------------------------------------------------------------------
(***************************************************************************)
(* The command.                                                            *)
(***************************************************************************)

LEMMA IInvInit == Init => IInv
<1> SUFFICES ASSUME Init PROVE IInv
  OBVIOUS
<1>1. NnsInv
  BY NnsInvInit
<1>2. Len(executed) = 0 /\ seen = 0 /\ alias \in Versions /\ set = FALSE
      /\ pc = "idle" /\ result = "none"
  BY DEF Init
<1>3. SyncType
  <2>1. seen \in 0..Len(executed)
    BY <1>2
  <2>2. set \in BOOLEAN
    BY <1>2
  <2> QED
    BY <1>2, <2>1, <2>2 DEF SyncType
<1>4. Listed /\ Written /\ OkSyncAgrees
  BY <1>2 DEF Listed, Written, OkSyncAgrees
<1> QED
  BY <1>1, <1>3, <1>4 DEF IInv

\* While the NNS moves, what a sync read is still the window of its answer.
LEMMA ListedStays ==
  ASSUME NnsInv, Execute, seen \in 0..Len(executed)
  PROVE  parseElectedReleases(fetchElections(seen))'
           = parseElectedReleases(fetchElections(seen))
<1>1. seen' = seen
  BY DEF Execute
<1>2. \A i \in fetchElections(seen) : executed'[i] = executed[i]
  BY ExecuteKeepsNnsInv DEF fetchElections
<1>3. fetchElections(seen)' = fetchElections(seen)
  BY <1>1 DEF fetchElections
<1>4. Electing(fetchElections(seen))' = Electing(fetchElections(seen))
  BY <1>2, <1>3 DEF Electing
<1>5. \A i \in Electing(fetchElections(seen)) : Released(i)' = Released(i)
  BY <1>2 DEF Electing, Released
<1> QED
  BY <1>2, <1>3, <1>4, <1>5 DEF parseElectedReleases, Electing

LEMMA ExecuteStep == IInv /\ Execute => IInv'
<1> SUFFICES ASSUME IInv, Execute PROVE IInv'
  OBVIOUS
<1>1. UNCHANGED <<files, set, pc, seen, releases, result>>
  BY DEF Execute
<1>2. NnsInv' /\ SyncType'
  BY <1>1, ExecuteKeepsNnsInv DEF IInv, SyncType, files, NnsInv, NnsType
<1>3. Listed'
  BY <1>1, ListedStays DEF IInv, Listed, SyncType
<1>4. Written'
  BY <1>1 DEF IInv, Written, files
<1>5. ElectedAfter(seen)' = ElectedAfter(seen)
  BY <1>1, ExecuteKeepsNnsInv DEF IInv, SyncType
<1>6. OkSyncAgrees'
  BY <1>1, <1>5 DEF IInv, OkSyncAgrees, files
<1> QED
  BY <1>2, <1>3, <1>4, <1>6 DEF IInv

\* What LatestRelease picks: a listed version of the variant, then elected,
\* that no listed release of the variant is newer than.
LEMMA LatestIsElected ==
  ASSUME IInv, pc # "idle", NEW r \in LatestRelease(releases)
  PROVE  /\ r \in releases /\ r.version \in Variant \intersect ElectedAfter(seen)
         /\ \A q \in releases : q.id > r.id => ~q.named \/ q.version \notin Variant
<1>1. r \in OfVariant(releases) /\ \A q \in OfVariant(releases) : q.id <= r.id
  BY DEF LatestRelease
<1>2. r \in releases /\ r.version \in Variant
  BY <1>1 DEF OfVariant
<1>3. r.version \in ElectedAfter(seen)
  <2>1. releases = parseElectedReleases(fetchElections(seen)) /\ seen \in 0..Len(executed)
    BY DEF IInv, Listed, SyncType
  <2>2. r.version \in VersionsOf(releases)
    BY <1>2 DEF VersionsOf
  <2> QED
    BY <2>1, <2>2, ListedIsElected DEF IInv
<1>4. \A q \in releases : q.id \in Nat
  <2>1. \A i \in fetchElections(seen) : i \in Nat
    BY DEF fetchElections
  <2> QED
    BY <2>1 DEF IInv, Listed, parseElectedReleases, Electing, Released
<1>5. ASSUME NEW q \in releases, q.id > r.id, q.named, q.version \in Variant
      PROVE  FALSE
  BY <1>1, <1>2, <1>4, <1>5 DEF OfVariant
<1> QED
  BY <1>2, <1>3, <1>5

\* While nothing of the NNS changes, neither do the invariants about it.
LEMMA NnsUnchanged ==
  ASSUME NnsInv, UNCHANGED nns
  PROVE  /\ NnsInv'
         /\ \A k \in Nat : /\ ElectedAfter(k)' = ElectedAfter(k)
                           /\ parseElectedReleases(fetchElections(k))'
                                = parseElectedReleases(fetchElections(k))
<1>1. executed' = executed /\ elected' = elected
  BY DEF nns
<1>2. NnsInv'
  <2>1. NnsType' /\ LastElections'
    BY <1>1 DEF NnsInv, NnsType, LastElections
  <2>2. \A k \in 0..Len(executed), v \in Versions :
          /\ ElectedAfter(k)' = ElectedAfter(k)
          /\ \A i \in 1..k : Stays(v, i, k)' <=> Stays(v, i, k)
    BY <1>1 DEF ElectedAfter, Stays
  <2>3. Replayed'
    BY <1>1, <2>2 DEF NnsInv, Replayed
  <2> QED
    BY <2>1, <2>3 DEF NnsInv
<1> QED
  BY <1>1, <1>2 DEF ElectedAfter, parseElectedReleases, fetchElections, Electing, Released

LEMMA SyncStep == IInv /\ (Sync \/ Restore) => IInv'
<1> SUFFICES ASSUME IInv, Sync \/ Restore PROVE IInv'
  OBVIOUS
<1>1. UNCHANGED nns /\ executed' = executed
  BY DEF Sync, Fetch, FetchFails, EmptyCatalogue, WriteCatalogue, EmptyResources,
         SetVersionAlias, Killed, Restore, Same, nns
<1>2. /\ NnsInv'
      /\ \A k \in Nat : /\ ElectedAfter(k)' = ElectedAfter(k)
                        /\ parseElectedReleases(fetchElections(k))'
                             = parseElectedReleases(fetchElections(k))
  BY <1>1, NnsUnchanged DEF IInv
<1>3. CASE Fetch
  <2>1. PICK k \in 0..Len(executed) :
          /\ seen' = k /\ releases' = parseElectedReleases(fetchElections(k))
          /\ IF releases' = {} THEN Stop("error")
             ELSE pc' = "write" /\ result' = "none"
    BY <1>3 DEF Fetch
  <2>2. parseElectedReleases(fetchElections(k))' = parseElectedReleases(fetchElections(k))
    BY <1>2
  <2>3. Listed'
    BY <2>1, <1>1 DEF Listed, parseElectedReleases, fetchElections, Electing, Released
  <2> QED
    BY <1>1, <1>2, <1>3, <2>1, <2>3
    DEF IInv, SyncType, Written, OkSyncAgrees, Fetch, Stop, files
<1>4. ASSUME UNCHANGED <<seen, releases>>, pc # "idle" \/ (pc' = "idle" /\ result' # "ok")
                                          \/ (pc' = "idle" /\ UNCHANGED result)
      PROVE  Listed' /\ ElectedAfter(seen)' = ElectedAfter(seen)
  BY <1>1, <1>2, <1>4
  DEF IInv, SyncType, Listed, ElectedAfter, parseElectedReleases, fetchElections, Electing, Released
<1>5. CASE FetchFails \/ Killed
  BY <1>1, <1>2, <1>4, <1>5
  DEF IInv, SyncType, Written, OkSyncAgrees, FetchFails, Killed, Stop, files
<1>6. CASE EmptyCatalogue
  BY <1>1, <1>2, <1>4, <1>6
  DEF IInv, SyncType, Written, OkSyncAgrees, EmptyCatalogue
<1>7. CASE WriteCatalogue
  BY <1>1, <1>2, <1>4, <1>7
  DEF IInv, SyncType, Written, OkSyncAgrees, WriteCatalogue, Stop
<1>8. CASE EmptyResources
  BY <1>1, <1>2, <1>4, <1>8
  DEF IInv, SyncType, Written, OkSyncAgrees, EmptyResources, Stop
<1>9. CASE SetVersionAlias
  <2>1. PICK r \in LatestRelease(releases) : alias' = r.version
    BY <1>9 DEF SetVersionAlias
  <2>2. /\ pc = "setting" /\ pc' = "idle" /\ result' = "ok"
        /\ UNCHANGED <<catalogue, set, seen, releases>>
    BY <1>9 DEF SetVersionAlias, Stop
  <2>3. /\ r \in releases /\ r.version \in Variant \intersect ElectedAfter(seen)
        /\ \A q \in releases : q.id > r.id => ~q.named \/ q.version \notin Variant
    BY <2>1, <2>2, LatestIsElected
  <2>4. catalogue = releases
    BY <2>2 DEF IInv, Written
  <2>5. Listed' /\ ElectedAfter(seen)' = ElectedAfter(seen)
    BY <2>2, <1>4
  <2>6. OkSyncAgrees'
    BY <2>1, <2>2, <2>3, <2>4, <2>5 DEF OkSyncAgrees
  <2> QED
    BY <1>1, <1>2, <2>1, <2>2, <2>3, <2>5, <2>6, GuestosAssumption
    DEF IInv, SyncType, Written
<1>10. CASE Restore
  <2>1. ~(result = "ok" /\ set)
    BY <1>10, GuestosAssumption DEF Restore, IInv, OkSyncAgrees
  <2> QED
    BY <1>1, <1>2, <1>4, <1>10, <2>1 DEF IInv, SyncType, Written, OkSyncAgrees, Restore
<1> QED
  BY <1>3, <1>5, <1>6, <1>7, <1>8, <1>9, <1>10 DEF Sync

LEMMA Inductive == IInv /\ [Next]_vars => IInv'
<1>1. CASE UNCHANGED vars
  BY <1>1, NnsUnchanged
  DEF vars, nns, files, IInv, SyncType, Listed, Written, OkSyncAgrees, NnsInv, NnsType,
      ElectedAfter, parseElectedReleases, fetchElections, Electing, Released
<1> QED
  BY <1>1, ExecuteStep, SyncStep DEF Next

LEMMA Invariance == Spec => []IInv
<1> USE DEF Spec
<1> QED
  BY IInvInit, Inductive, PTL

-----------------------------------------------------------------------------
(***************************************************************************)
(* What a sync lists is what was elected when the dashboard answered, less *)
(* the versions whose elections the window cuts off (FetchElectedReleases, *)
(* parseElectedReleases).                                                  *)
(***************************************************************************)
THEOREM SyncListsElected == Spec => []MissingRatherThanWrong
<1>1. IInv => MissingRatherThanWrong
  <2> SUFFICES ASSUME IInv, pc # "idle"
               PROVE  VersionsOf(releases) =
                        {v \in ElectedAfter(seen) :
                           \E i \in fetchElections(seen) : executed[i].elect = v}
    BY DEF MissingRatherThanWrong
  <2>1. releases = parseElectedReleases(fetchElections(seen)) /\ seen \in 0..Len(executed)
    BY DEF IInv, Listed, SyncType
  <2> QED
    BY <2>1, ListedIsElected DEF IInv
<1> QED
  BY <1>1, Invariance, PTL

(***************************************************************************)
(* A sync that reports success left a catalogue and an alias that agree,   *)
(* whatever syncs were interrupted before (guestosSync).                   *)
(***************************************************************************)
THEOREM SyncLeavesAgreement == Spec => []OkSyncAgrees
<1>1. IInv => OkSyncAgrees
  BY DEF IInv
<1> QED
  BY <1>1, Invariance, PTL

(***************************************************************************)
(* The alias moves to a version of the catalogue on disk only              *)
(* (WriteGuestosHCL before SetVersionAlias).                               *)
(***************************************************************************)
THEOREM AliasMovesInCatalogue == Spec => AliasIsCatalogued
<1>1. IInv /\ [Next]_vars =>
        [alias' # alias /\ alias' # None /\ pc # "idle"
           => alias' \in VersionsOf(catalogue)]_vars
  <2> SUFFICES ASSUME IInv, Next, alias' # alias, alias' # None, pc # "idle"
               PROVE  alias' \in VersionsOf(catalogue)
    OBVIOUS
  <2>1. SetVersionAlias
    BY DEF Next, Execute, Sync, Fetch, FetchFails, EmptyCatalogue, WriteCatalogue,
           EmptyResources, Killed, Restore, Stop, files
  <2>2. pc = "setting" /\ catalogue = releases
    BY <2>1 DEF SetVersionAlias, IInv, Written
  <2>3. \E r \in releases : alias' = r.version
    BY <2>1 DEF SetVersionAlias, LatestRelease, OfVariant
  <2> QED
    BY <2>2, <2>3 DEF VersionsOf
<1> QED
  BY <1>1, Invariance, PTL DEF Spec, AliasIsCatalogued

-----------------------------------------------------------------------------
(***************************************************************************)
(* Types.                                                                  *)
(***************************************************************************)

\* rs is a finite catalogue with one block for each version.
OneEach(rs) ==
  /\ rs \subseteq ElectedReleases /\ IsFiniteSet(rs)
  /\ \A r, q \in rs : r.version = q.version => r = q

TypeInv ==
  /\ Len(executed) <= MaxElections
  /\ OneEach(catalogue) /\ OneEach(releases)
  /\ result \in {"none", "ok", "error", "killed"}

\* Only a version's last election of the window is listed.
LEMMA ListsEachOnce ==
  ASSUME NnsType, Len(executed) <= MaxElections, NEW k \in 0..Len(executed)
  PROVE  OneEach(parseElectedReleases(fetchElections(k)))
<1> DEFINE ids == fetchElections(k)
           kept == parseElectedReleases(ids)
<1>1. k \in Nat /\ ids \subseteq 1..k
  BY DEF fetchElections, NnsType
<1>2. \A i \in 1..k : executed[i] \in Elections /\ i \in 1..MaxElections
  BY <1>1, GuestosAssumption DEF NnsType
<1>3. \A r \in kept : \E j \in Electing(ids) :
        /\ r = Released(j)
        /\ \A i \in ids : i > j => executed[i].elect # executed[j].elect
  BY DEF parseElectedReleases
<1>4. Electing(ids) \subseteq 1..k /\ \A j \in Electing(ids) : executed[j].elect # None
  BY <1>1 DEF Electing
<1>5. \A j \in Electing(ids) : Released(j) \in ElectedReleases
  <2> SUFFICES ASSUME NEW j \in Electing(ids) PROVE Released(j) \in ElectedReleases
    OBVIOUS
  <2>1. executed[j].elect \in Versions /\ executed[j].named \in BOOLEAN /\ j \in 1..MaxElections
    BY <1>2, <1>4 DEF Elections
  <2> QED
    BY <2>1 DEF Released, ElectedReleases
<1>6. kept \subseteq {Released(j) : j \in 1..k}
  BY <1>3, <1>4
<1>7. IsFiniteSet({Released(j) : j \in 1..k})
  <2>1. IsFiniteSet(1..k)
    BY <1>1, FS_Interval
  <2> DEFINE f == [j \in 1..k |-> Released(j)]
  <2>2. f \in Surjection(1..k, {Released(j) : j \in 1..k})
    BY DEF Surjection
  <2> HIDE DEF f
  <2> QED
    BY <2>1, <2>2, FS_Surjection
<1>8. IsFiniteSet(kept)
  BY <1>6, <1>7, FS_Subset
<1>9. ASSUME NEW r \in kept, NEW q \in kept, r.version = q.version PROVE r = q
  <2>1. PICK i \in Electing(ids) :
          /\ r = Released(i)
          /\ \A j \in ids : j > i => executed[j].elect # executed[i].elect
    BY <1>3
  <2>2. PICK j \in Electing(ids) :
          /\ q = Released(j)
          /\ \A l \in ids : l > j => executed[l].elect # executed[j].elect
    BY <1>3
  <2>3. executed[i].elect = executed[j].elect
    BY <1>9, <2>1, <2>2 DEF Released
  <2>4. i \in ids /\ j \in ids /\ i \in Nat /\ j \in Nat
    BY <1>1 DEF Electing
  <2>5. i = j
    BY <2>1, <2>2, <2>3, <2>4
  <2> QED
    BY <2>1, <2>2, <2>5
<1> QED
  BY <1>3, <1>5, <1>8, <1>9 DEF OneEach

LEMMA NothingTwice == OneEach({})
  BY FS_EmptySet DEF OneEach

LEMMA TypeKept == IInv /\ TypeInv /\ [Next]_vars => TypeInv'
<1> SUFFICES ASSUME IInv, TypeInv, [Next]_vars PROVE TypeInv'
  OBVIOUS
<1> USE DEF TypeInv
<1>1. NnsType
  BY DEF IInv, NnsInv
<1>2. CASE Execute
  <2>1. Len(executed) < MaxElections /\ \E p \in Elections : executed' = Append(executed, p)
    BY <1>2 DEF Execute
  <2>2. Len(executed') <= MaxElections
    BY <1>1, <2>1, GuestosAssumption DEF NnsType
  <2> QED
    BY <1>2, <2>2 DEF Execute, files
<1>3. CASE Fetch
  <2>1. PICK k \in 0..Len(executed) : releases' = parseElectedReleases(fetchElections(k))
    BY <1>3 DEF Fetch
  <2>2. OneEach(releases')
    BY <1>1, <2>1, ListsEachOnce
  <2>3. UNCHANGED <<executed, catalogue>> /\ result' \in {"none", "error"}
    BY <1>3 DEF Fetch, Stop, Same, nns, files
  <2> QED
    BY <2>2, <2>3
<1>4. CASE EmptyCatalogue
  BY <1>4, NothingTwice DEF EmptyCatalogue, Same, nns
<1>5. CASE WriteCatalogue
  BY <1>5 DEF WriteCatalogue, Stop, Same, nns
<1>6. CASE FetchFails \/ EmptyResources \/ SetVersionAlias \/ Killed
  BY <1>6 DEF FetchFails, EmptyResources, SetVersionAlias, Killed, Stop, Same, nns, files
<1>7. CASE Restore \/ UNCHANGED vars
  BY <1>7 DEF Restore, Same, nns, vars, files
<1> QED
  BY <1>2, <1>3, <1>4, <1>5, <1>6, <1>7 DEF Next, Sync

\* A catalogue has as many versions as blocks.
LEMMA AsManyVersions ==
  ASSUME NEW rs, OneEach(rs)
  PROVE  Cardinality(VersionsOf(rs)) = Cardinality(rs)
<1> DEFINE f == [r \in rs |-> r.version]
<1>1. f \in Bijection(rs, VersionsOf(rs))
  BY DEF Bijection, Injection, Surjection, IsInjective, VersionsOf, OneEach
<1> HIDE DEF f
<1> QED
  BY <1>1, FS_Bijection DEF ExistsBijection, OneEach

(***************************************************************************)
(* The state keeps its type: in particular the catalogue on disk never has *)
(* two blocks for one version, however often the NNS elected it again      *)
(* (parseElectedReleases; two blocks of one label do not load).            *)
(***************************************************************************)
THEOREM TypeCorrect == Spec => []TypeOK
<1>1. Init => TypeInv
  <2> SUFFICES ASSUME Init PROVE TypeInv
    OBVIOUS
  <2>1. Len(<<>>) = 0
    OBVIOUS
  <2> QED
    BY <2>1, NothingTwice, GuestosAssumption DEF Init, TypeInv
<1>2. IInv /\ TypeInv => TypeOK
  BY AsManyVersions DEF IInv, NnsInv, NnsType, SyncType, TypeInv, OneEach, TypeOK
<1> QED
  BY <1>1, <1>2, TypeKept, Invariance, PTL DEF Spec
=============================================================================
