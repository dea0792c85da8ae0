------------------------ MODULE ArtifactCacheProofs ------------------------
(***************************************************************************)
(* Proofs about ArtifactCache, for any number of processes, of releases    *)
(* and of environments.                                                    *)
(***************************************************************************)
EXTENDS ArtifactCache, TLAPS

LEMMA NoJobType == NoJob \in Job
<1>1. (CHOOSE r \in Releases : TRUE) \in Releases
  BY ReleasesAssumption
<1>2. AllFrom("cache") \in [Artifacts -> {"env", "cache"}]
  BY DEF AllFrom
<1> QED
  BY <1>1, <1>2 DEF NoJob, Job

\* Any of the changes a step makes to a job.
LEMMA JobUpdates ==
  ASSUME NEW j \in Job, NEW U \in SUBSET Artifacts, NEW F \in SUBSET Canisters
  PROVE  /\ [j EXCEPT !.unchecked = U] \in Job
         /\ [j EXCEPT !.found = F] \in Job
         /\ [j EXCEPT !.paths = AllFrom("cache"), !.unchecked = U,
                       !.fetched = TRUE] \in Job
<1>1. AllFrom("cache") \in [Artifacts -> {"env", "cache"}]
  BY DEF AllFrom
<1>2. [j EXCEPT !.unchecked = U] \in Job
  BY DEF Job
<1>3. [j EXCEPT !.found = F] \in Job
  BY DEF Job
<1>4. [j EXCEPT !.paths = AllFrom("cache"), !.unchecked = U,
                !.fetched = TRUE] \in Job
  BY <1>1 DEF Job
<1> QED
  BY <1>2, <1>3, <1>4

\* A file renamed into its release's directory.
LEMMA CacheType ==
  ASSUME NEW c \in [Releases -> [Artifacts -> Contents \union {Absent}]],
         NEW r \in Releases, NEW f \in Artifacts,
         NEW b \in Contents \union {Absent}
  PROVE  [c EXCEPT ![CacheDir(r)][f] = b]
           \in [Releases -> [Artifacts -> Contents \union {Absent}]]
BY DEF CacheDir

\* Every variable of the artifact cache keeps its type.
THEOREM TypeCorrect == Spec => []TypeOK
<1>1. Init => TypeOK
  BY NoJobType DEF Init, TypeOK, AllFrom, NoTemps, PcState, Contents, Job
<1>2. TypeOK /\ [Next]_vars => TypeOK'
  <2> SUFFICES ASSUME TypeOK, [Next]_vars PROVE TypeOK'
    OBVIOUS
  <2> USE DEF TypeOK, PcState, Fetching, Goto
  <2>1. CASE UNCHANGED vars
    BY <2>1 DEF vars
  <2>2. ASSUME NEW p \in Procs PROVE Return(p) => /\ pc' \in [Procs -> PcState]
                                                 /\ job' \in [Procs -> Job]
    BY NoJobType DEF Return
  <2>3. ASSUME NEW p \in Procs, NEW ts, Discard(p, ts)
        PROVE temps' \in [Procs -> [Temps -> Contents \union {Absent}]]
    BY <2>3 DEF Discard
  <2>4. ASSUME NEW p \in Procs, NEW t \in Temps, CreateTemp(p, t)
        PROVE temps' \in [Procs -> [Temps -> Contents \union {Absent}]]
    BY <2>4 DEF CreateTemp, Contents
  <2>5. ASSUME NEW p \in Procs, NEW r \in Releases, NEW env \in EnvSets,
               NEW stale \in SUBSET env,
               NEW offline \in BOOLEAN, Begin(p, r, env, stale, offline)
        PROVE TypeOK'
    <3>1. env \subseteq Artifacts /\ stale \subseteq Artifacts
      BY EnvSetsAssumption
    <3>2. FillFromCache(env) \in [Artifacts -> {"env", "cache"}]
      BY DEF FillFromCache
    <3>3. DEFINE warm == /\ stale = {}
                         /\ \A f \in Artifacts \ env :
                              cache[CacheDir(r)][f] # Absent
    <3>4. warm \in BOOLEAN
      OBVIOUS
    <3>5. [release |-> r, env |-> env, stale |-> stale, offline |-> offline,
           warm |-> warm, paths |-> FillFromCache(env),
           unchecked |-> Artifacts, fetched |-> FALSE, found |-> {}] \in Job
      <4> HIDE DEF warm
      <4> QED
        BY <3>1, <3>2, <3>4 DEF Job
    <3> QED
      BY <2>5, <3>5 DEF Begin
  <2>6. ASSUME NEW p \in Procs, Resolve(p) PROVE TypeOK'
    <3>1. ASSUME NEW f \in Artifacts, StatHits(p, f) PROVE TypeOK'
      <4>1. job[p] \in Job /\ job[p].unchecked \ {f} \in SUBSET Artifacts
        BY DEF Job
      <4>2. job' = [job EXCEPT ![p] =
                      [job[p] EXCEPT !.unchecked = job[p].unchecked \ {f}]]
        BY <3>1 DEF StatHits
      <4>3. job' \in [Procs -> Job]
        BY <4>1, <4>2, JobUpdates
      <4> QED
        BY <3>1, <4>3 DEF StatHits
    <3>2. ASSUME NEW f \in Artifacts, StatMisses(p, f) PROVE TypeOK'
      BY <3>2, <2>2 DEF StatMisses
    <3>3. CASE Resolved(p)
      BY <3>3 DEF Resolved
    <3>4. CASE Finish(p)
      BY <3>4, <2>2 DEF Finish
    <3> QED
      BY <2>6, <3>1, <3>2, <3>3, <3>4 DEF Resolve
  <2>7. ASSUME NEW p \in Procs, FetchAll(p) PROVE TypeOK'
    <3>1. CASE Get(p, "fetch", "gz") \/ Get(p, "getTar", "tar")
      BY <3>1, <2>4 DEF Get, Temps
    <3>2. ASSUME NEW b \in Releases \union {Corrupt},
                 \/ Downloaded(p, "gz", b, "unzip")
                 \/ Downloaded(p, "tar", b, "extract")
          PROVE TypeOK'
      <4>1. b \in Contents \union {Absent}
        BY DEF Contents
      <4>2. temps' \in [Procs -> [Temps -> Contents \union {Absent}]]
        <5>1. ASSUME NEW t \in Temps, temps' = [temps EXCEPT ![p][t] = b]
              PROVE temps' \in [Procs -> [Temps -> Contents \union {Absent}]]
          BY <4>1, <5>1
        <5> QED
          BY <3>2, <5>1 DEF Downloaded, Temps
      <4> QED
        BY <3>2, <4>2 DEF Downloaded
    <3>3. CASE Unzip(p)
      BY <3>3, <2>4 DEF Unzip, Temps
    <3>4. CASE RenamePocketIC(p)
      <4>1. temps[p]["gz"] \in Contents \union {Absent}
        BY DEF Temps
      <4>2. cache' \in [Releases -> [Artifacts -> Contents \union {Absent}]]
        BY <3>4, <4>1, CacheType DEF RenamePocketIC, RenameInto, Artifacts
      <4>3. temps' \in [Procs -> [Temps -> Contents \union {Absent}]]
        BY <3>4, <2>3 DEF RenamePocketIC, RenameInto
      <4> QED
        BY <3>4, <4>2, <4>3 DEF RenamePocketIC
    <3>5. CASE Extract(p)
      BY <3>5, <2>4 DEF Extract, Temps
    <3>6. CASE TarEnds(p)
      <4>1. CASE job[p].found = Canisters
        <5>1. job' = [job EXCEPT ![p] =
                        [job[p] EXCEPT !.paths = AllFrom("cache"),
                                       !.unchecked = Artifacts,
                                       !.fetched = TRUE]]
          BY <3>6, <4>1 DEF TarEnds
        <5>2. job' \in [Procs -> Job]
          BY <5>1, JobUpdates
        <5> QED
          BY <3>6, <4>1, <5>2, <2>3 DEF TarEnds
      <4>2. CASE job[p].found # Canisters
        BY <3>6, <4>2, <2>2, <2>3 DEF TarEnds
      <4> QED
        BY <4>1, <4>2
    <3>7. ASSUME NEW f \in Canisters, RenameMember(p, f) PROVE TypeOK'
      <4>1. temps[p]["tar"] \in Contents \union {Absent}
        BY DEF Temps
      <4>2. cache' \in [Releases -> [Artifacts -> Contents \union {Absent}]]
        BY <3>7, <4>1, CacheType DEF RenameMember, RenameInto, Artifacts
      <4>3. temps' \in [Procs -> [Temps -> Contents \union {Absent}]]
        BY <3>7, <2>3 DEF RenameMember, RenameInto
      <4>4. job[p].found \union {f} \in SUBSET Canisters
        BY DEF Job
      <4>5. job' = [job EXCEPT ![p] =
                      [job[p] EXCEPT !.found = job[p].found \union {f}]]
        BY <3>7 DEF RenameMember
      <4>6. job' \in [Procs -> Job]
        BY <4>4, <4>5, JobUpdates
      <4> QED
        BY <3>7, <4>2, <4>3, <4>6 DEF RenameMember
    <3> QED
      BY <2>7, <3>1, <3>2, <3>3, <3>4, <3>5, <3>6, <3>7 DEF FetchAll
  <2>8. ASSUME NEW p \in Procs, Fails(p) PROVE TypeOK'
    <3>1. CASE GetFails(p)
      BY <3>1, <2>2 DEF GetFails
    <3>2. CASE FetchPocketICFails(p)
      BY <3>2, <2>2, <2>3 DEF FetchPocketICFails
    <3>3. CASE FetchCanistersFails(p)
      BY <3>3, <2>2, <2>3 DEF FetchCanistersFails
    <3>4. CASE Crash(p)
      BY <3>4, <2>2 DEF Crash, NoTemps
    <3> QED
      BY <2>8, <3>1, <3>2, <3>3, <3>4 DEF Fails
  <2>9. ASSUME NEW p \in Procs, Start(p) PROVE TypeOK'
    <3>1. PICK r \in Releases, env \in EnvSets, offline \in BOOLEAN :
            \E stale \in {{}} \union {{f} : f \in env} :
              Begin(p, r, env, stale, offline)
      BY <2>9 DEF Start
    <3>2. PICK stale \in {{}} \union {{f} : f \in env} :
            Begin(p, r, env, stale, offline)
      BY <3>1
    <3>3. stale \in SUBSET env
      OBVIOUS
    <3> HIDE DEF TypeOK
    <3> QED
      BY <3>2, <3>3, <2>5
  <2> QED
    <3> HIDE DEF TypeOK
    <3> QED
      BY <2>1, <2>6, <2>7, <2>8, <2>9 DEF Next
<1> QED
  BY <1>1, <1>2, PTL DEF Spec

-----------------------------------------------------------------------------
(* What a step of one process leaves to the others. *)

Step(p) == Start(p) \/ Resolve(p) \/ FetchAll(p) \/ Fails(p)

LEMMA OthersUntouched ==
  ASSUME TypeOK, NEW p \in Procs, Step(p), NEW q \in Procs, q # p
  PROVE  pc'[q] = pc[q] /\ job'[q] = job[q] /\ temps'[q] = temps[q]
<1> USE DEF TypeOK, Goto, Return
<1>1. CASE Start(p)
  BY <1>1 DEF Start, Begin
<1>2. CASE Resolve(p)
  BY <1>2 DEF Resolve, StatHits, StatMisses, Resolved, Finish
<1>3. CASE FetchAll(p)
  <2> USE DEF CreateTemp, Discard, RenameInto
  <2>1. CASE Get(p, "fetch", "gz") \/ Get(p, "getTar", "tar")
    BY <2>1 DEF Get
  <2>2. CASE \E b \in Releases \union {Corrupt} :
               \/ Downloaded(p, "gz", b, "unzip")
               \/ Downloaded(p, "tar", b, "extract")
    BY <2>2 DEF Downloaded
  <2>3. CASE Unzip(p) \/ RenamePocketIC(p) \/ Extract(p)
    BY <2>3 DEF Unzip, RenamePocketIC, Extract
  <2>4. CASE TarEnds(p)
    BY <2>4 DEF TarEnds
  <2>5. CASE \E f \in Canisters : RenameMember(p, f)
    BY <2>5 DEF RenameMember
  <2> QED
    BY <1>3, <2>1, <2>2, <2>3, <2>4, <2>5 DEF FetchAll
<1>4. CASE Fails(p)
  BY <1>4 DEF Fails, GetFails, FetchPocketICFails, FetchCanistersFails, Crash,
              Discard
<1> QED
  BY <1>1, <1>2, <1>3, <1>4 DEF Step

-----------------------------------------------------------------------------
(* What is under a cached name. *)

\* CachedIsPinned, with the downloads that are about to be unpacked.
PinnedInv ==
  /\ CachedIsPinned
  /\ \A p \in Procs :
       /\ pc[p] \in {"unzip", "bin"} => temps[p]["gz"] = job[p].release
       /\ pc[p] \in {"extract", "member"} => temps[p]["tar"] = job[p].release

\* A step adds pinned files to the cache and takes none away.
LEMMA CacheGrows ==
  ASSUME TypeOK, PinnedInv, NEW p \in Procs, Step(p),
         NEW d \in Releases, NEW f \in Artifacts
  PROVE  cache'[d][f] \in {cache[d][f], d}
<1> USE DEF TypeOK
<1>1. job[p].release \in Releases
  BY DEF Job
<1>2. ASSUME NEW g \in Artifacts, NEW t, NEW ts,
             RenameInto(p, g, job[p].release, t, ts)
      PROVE  cache'[d][f] \in {cache[d][f], d}
  BY <1>1, <1>2 DEF RenameInto, CacheDir
<1>3. CASE RenamePocketIC(p)
  BY <1>2, <1>3 DEF RenamePocketIC, PinnedInv, Artifacts
<1>4. ASSUME NEW g \in Canisters, RenameMember(p, g)
      PROVE  cache'[d][f] \in {cache[d][f], d}
  BY <1>2, <1>4 DEF RenameMember, PinnedInv, Artifacts
<1>5. CASE Start(p)
  BY <1>5 DEF Start, Begin
<1>6. CASE Resolve(p)
  BY <1>6 DEF Resolve, StatHits, StatMisses, Resolved, Finish
<1>7. CASE Fails(p)
  BY <1>7 DEF Fails, GetFails, FetchPocketICFails, FetchCanistersFails, Crash
<1>8. CASE FetchAll(p) /\ ~RenamePocketIC(p)
                       /\ ~\E g \in Canisters : RenameMember(p, g)
  BY <1>8 DEF FetchAll, Get, Downloaded, Unzip, Extract, TarEnds
<1> QED
  BY <1>3, <1>4, <1>5, <1>6, <1>7, <1>8 DEF Step, FetchAll

\* A body that has been hashed stays what it is until it is unpacked.
LEMMA DownloadsStayPinned ==
  ASSUME TypeOK, PinnedInv, NEW p \in Procs, Step(p)
  PROVE  /\ pc'[p] \in {"unzip", "bin"} => temps'[p]["gz"] = job'[p].release
         /\ pc'[p] \in {"extract", "member"} =>
              temps'[p]["tar"] = job'[p].release
<1> DEFINE Goal ==
      /\ pc'[p] \in {"unzip", "bin"} => temps'[p]["gz"] = job'[p].release
      /\ pc'[p] \in {"extract", "member"} =>
           temps'[p]["tar"] = job'[p].release
<1> USE DEF TypeOK, Goto, Temps
<1>1. CASE Return(p)
  BY <1>1 DEF Return
<1>2. CASE Start(p)
  BY <1>2 DEF Start, Begin
<1>3. CASE Resolve(p) /\ ~Return(p)
  BY <1>3 DEF Resolve, StatHits, StatMisses, Resolved, Finish
<1>4. CASE Fails(p)
  BY <1>1, <1>4 DEF Fails, GetFails, FetchPocketICFails, FetchCanistersFails,
                    Crash
<1>5. CASE FetchAll(p) /\ ~Return(p)
  <2>1. CASE Get(p, "fetch", "gz") \/ Get(p, "getTar", "tar")
    BY <2>1 DEF Get
  <2>2. ASSUME NEW b \in Releases \union {Corrupt},
               \/ Downloaded(p, "gz", b, "unzip")
               \/ Downloaded(p, "tar", b, "extract")
        PROVE  Goal
    BY <2>2 DEF Downloaded, HashMatches
  <2>3. CASE Unzip(p) \/ Extract(p)
    BY <2>3 DEF Unzip, Extract, CreateTemp, PinnedInv
  <2>4. CASE RenamePocketIC(p)
    BY <2>4 DEF RenamePocketIC
  <2>5. CASE TarEnds(p)
    BY <1>5, <2>5 DEF TarEnds
  <2>6. ASSUME NEW f \in Canisters, RenameMember(p, f) PROVE Goal
    BY <2>6 DEF RenameMember, RenameInto, Discard, PinnedInv
  <2> QED
    BY <1>5, <2>1, <2>2, <2>3, <2>4, <2>5, <2>6 DEF FetchAll
<1> QED
  BY <1>1, <1>2, <1>3, <1>4, <1>5 DEF Step

LEMMA PinnedInvariant == Spec => []PinnedInv
<1>1. Init => PinnedInv
  BY DEF Init, PinnedInv, CachedIsPinned, AllFrom
<1>2. TypeOK /\ PinnedInv /\ [Next]_vars => PinnedInv'
  <2> SUFFICES ASSUME TypeOK, PinnedInv, [Next]_vars PROVE PinnedInv'
    OBVIOUS
  <2>1. CASE UNCHANGED vars
    BY <2>1 DEF vars, PinnedInv, CachedIsPinned
  <2>2. ASSUME NEW p \in Procs, Step(p) PROVE PinnedInv'
    <3>1. CachedIsPinned'
      BY <2>2, CacheGrows DEF CachedIsPinned, PinnedInv
    <3>2. ASSUME NEW q \in Procs
          PROVE /\ pc'[q] \in {"unzip", "bin"} =>
                     temps'[q]["gz"] = job'[q].release
                /\ pc'[q] \in {"extract", "member"} =>
                     temps'[q]["tar"] = job'[q].release
      <4>1. CASE q = p
        BY <2>2, <4>1, DownloadsStayPinned
      <4>2. CASE q # p
        BY <2>2, <4>2, OthersUntouched DEF PinnedInv
      <4> QED
        BY <4>1, <4>2
    <3> QED
      BY <3>1, <3>2 DEF PinnedInv
  <2> QED
    BY <2>1, <2>2 DEF Next, Step
<1> QED
  BY <1>1, <1>2, TypeCorrect, PTL DEF Spec

\* A file under its cached name is the pinned one of its release, whatever
\* the processes do at once, fail at or are killed at (CachedIsPinned).
THEOREM CacheIsPinned == Spec => []CachedIsPinned
<1>1. PinnedInv => CachedIsPinned
  BY DEF PinnedInv
<1> QED
  BY <1>1, PinnedInvariant, PTL

-----------------------------------------------------------------------------
(* What a process is told exists goes on existing. *)

\* What validate has found is there, and a process uses only what it has
\* found.  Paths from the environment are of files set in it.
UseInv ==
  \A p \in Procs :
    /\ \A f \in Artifacts : job[p].paths[f] = "env" => f \in job[p].env
    /\ pc[p] \in {"validate", "use"} =>
         \A f \in Artifacts \ job[p].unchecked : Exists(p, f)
    /\ pc[p] = "use" => job[p].unchecked = {}

LEMMA ExistsIsStable ==
  ASSUME TypeOK, PinnedInv, NEW p \in Procs, Step(p),
         NEW q \in Procs, NEW f \in Artifacts, Exists(q, f),
         /\ job'[q].release = job[q].release
         /\ job'[q].paths = job[q].paths
         /\ job'[q].stale = job[q].stale
  PROVE  Exists(q, f)'
<1>1. job[q].release \in Releases
  BY DEF TypeOK, Job
<1>2. cache[job[q].release][f] # Absent => cache'[job[q].release][f] # Absent
  BY <1>1, CacheGrows, ContentsAssumption
<1> QED
  BY <1>2 DEF Exists, Cached, CacheDir

LEMMA UseStep ==
  ASSUME TypeOK, PinnedInv, UseInv, NEW p \in Procs, Step(p)
  PROVE  /\ \A f \in Artifacts : job'[p].paths[f] = "env" => f \in job'[p].env
         /\ pc'[p] \in {"validate", "use"} =>
              \A f \in Artifacts \ job'[p].unchecked : Exists(p, f)'
         /\ pc'[p] = "use" => job'[p].unchecked = {}
<1> DEFINE Goal ==
      /\ \A f \in Artifacts : job'[p].paths[f] = "env" => f \in job'[p].env
      /\ pc'[p] \in {"validate", "use"} =>
           \A f \in Artifacts \ job'[p].unchecked : Exists(p, f)'
      /\ pc'[p] = "use" => job'[p].unchecked = {}
<1> USE DEF Goto
<1>0. pc \in [Procs -> PcState] /\ job \in [Procs -> Job] /\ job[p] \in Job
  BY DEF TypeOK
<1>1. CASE Return(p)
  BY <1>0, <1>1 DEF Return, NoJob, AllFrom
<1>2. CASE Start(p)
  <2>1. PICK r \in Releases, env \in EnvSets, offline \in BOOLEAN :
          \E stale \in {{}} \union {{f} : f \in env} :
            Begin(p, r, env, stale, offline)
    BY <1>2 DEF Start
  <2>2. /\ pc'[p] = "validate" /\ job'[p].unchecked = Artifacts
        /\ job'[p].paths = FillFromCache(env) /\ job'[p].env = env
    BY <1>0, <2>1 DEF Begin
  <2> QED
    BY <2>2 DEF FillFromCache
<1>3. ASSUME NEW f \in Artifacts, StatHits(p, f) PROVE Goal
  <2>1. /\ pc'[p] = pc[p] /\ pc[p] = "validate" /\ Exists(p, f)
        /\ job'[p].unchecked = job[p].unchecked \ {f}
        /\ job'[p].env = job[p].env /\ job'[p].paths = job[p].paths
        /\ job'[p].stale = job[p].stale /\ job'[p].release = job[p].release
    BY <1>0, <1>3 DEF StatHits, Job
  <2>2. ASSUME NEW g \in Artifacts, Exists(p, g) PROVE Exists(p, g)'
    BY <2>1, <2>2, ExistsIsStable
  <2> QED
    BY <2>1, <2>2 DEF UseInv
<1>4. CASE job' = job /\ pc'[p] \notin {"validate", "use"}
  BY <1>4 DEF UseInv
<1>5. CASE Resolved(p)
  <2>1. ASSUME NEW g \in Artifacts, Exists(p, g) PROVE Exists(p, g)'
    BY <1>5, <2>1, ExistsIsStable DEF Resolved
  <2> QED
    BY <1>0, <1>5, <2>1 DEF Resolved, UseInv
<1>6. CASE TarEnds(p)
  <2>1. CASE job[p].found = Canisters
    <3>1. /\ pc'[p] = "validate" /\ job'[p].unchecked = Artifacts
          /\ job'[p].paths = AllFrom("cache")
      BY <1>0, <1>6, <2>1 DEF TarEnds, Job
    <3> QED
      BY <3>1 DEF AllFrom
  <2> QED
    BY <1>1, <1>6, <2>1 DEF TarEnds
<1>7. ASSUME NEW f \in Canisters, RenameMember(p, f) PROVE Goal
  <2>1. /\ pc'[p] = "extract"
        /\ job'[p].env = job[p].env /\ job'[p].paths = job[p].paths
    BY <1>0, <1>7 DEF RenameMember, Job
  <2> QED
    BY <2>1 DEF UseInv
<1>8. CASE Resolve(p)
  <2>1. ASSUME NEW f \in Artifacts, StatMisses(p, f) PROVE Goal
    BY <1>0, <1>1, <1>4, <2>1 DEF StatMisses
  <2> QED
    BY <1>1, <1>3, <1>5, <1>8, <2>1 DEF Resolve, Finish
<1>9. CASE FetchAll(p)
  <2>1. CASE Get(p, "fetch", "gz") \/ Get(p, "getTar", "tar")
    BY <1>0, <1>4, <2>1 DEF Get
  <2>2. ASSUME NEW b \in Releases \union {Corrupt},
               \/ Downloaded(p, "gz", b, "unzip")
               \/ Downloaded(p, "tar", b, "extract")
        PROVE  Goal
    BY <1>0, <1>4, <2>2 DEF Downloaded
  <2>3. CASE Unzip(p) \/ RenamePocketIC(p) \/ Extract(p)
    BY <1>0, <1>4, <2>3 DEF Unzip, RenamePocketIC, Extract
  <2> QED
    BY <1>6, <1>7, <1>9, <2>1, <2>2, <2>3 DEF FetchAll
<1>10. CASE Fails(p)
  BY <1>1, <1>10 DEF Fails, GetFails, FetchPocketICFails,
                     FetchCanistersFails, Crash
<1> QED
  BY <1>2, <1>8, <1>9, <1>10 DEF Step

LEMMA UseInvariant == Spec => []UseInv
<1>1. Init => UseInv
  BY DEF Init, UseInv, NoJob, AllFrom
<1>2. TypeOK /\ PinnedInv /\ UseInv /\ [Next]_vars => UseInv'
  <2> SUFFICES ASSUME TypeOK, PinnedInv, UseInv, [Next]_vars PROVE UseInv'
    OBVIOUS
  <2>1. CASE UNCHANGED vars
    BY <2>1 DEF vars, UseInv, Exists, Cached
  <2>2. ASSUME NEW p \in Procs, Step(p), NEW q \in Procs
        PROVE /\ \A f \in Artifacts :
                   job'[q].paths[f] = "env" => f \in job'[q].env
              /\ pc'[q] \in {"validate", "use"} =>
                   \A f \in Artifacts \ job'[q].unchecked : Exists(q, f)'
              /\ pc'[q] = "use" => job'[q].unchecked = {}
    <3>1. CASE q = p
      BY <2>2, <3>1, UseStep
    <3>2. CASE q # p
      <4>1. pc'[q] = pc[q] /\ job'[q] = job[q]
        BY <2>2, <3>2, OthersUntouched
      <4>2. ASSUME NEW f \in Artifacts, Exists(q, f) PROVE Exists(q, f)'
        BY <2>2, <4>1, <4>2, ExistsIsStable
      <4> QED
        BY <4>1, <4>2 DEF UseInv
    <3> QED
      BY <3>1, <3>2
  <2>3. ASSUME NEW p \in Procs, Step(p) PROVE UseInv'
    BY <2>2, <2>3 DEF UseInv
  <2> QED
    BY <2>1, <2>3 DEF Next, Step
<1> QED
  BY <1>1, <1>2, TypeCorrect, PinnedInvariant, PTL DEF Spec

\* As long as a dry run uses the paths it was given, each is the operator's
\* file or the pinned file of its own release (UsesPinned).
THEOREM DryRunUsesPinned == Spec => []UsesPinned
<1>1. TypeOK /\ PinnedInv /\ UseInv => UsesPinned
  <2> SUFFICES ASSUME TypeOK, PinnedInv, UseInv,
                      NEW p \in Procs, pc[p] = "use", NEW f \in Artifacts
               PROVE  IF job[p].paths[f] = "env"
                      THEN f \in job[p].env \ job[p].stale
                      ELSE Cached(p, f) = job[p].release
    BY DEF UsesPinned
  <2>1. Exists(p, f)
    BY DEF UseInv
  <2>2. job[p].release \in Releases
    BY DEF TypeOK, Job
  <2> QED
    BY <2>1, <2>2 DEF Exists, Cached, CacheDir, UseInv, PinnedInv,
                      CachedIsPinned
<1> QED
  BY <1>1, TypeCorrect, PinnedInvariant, UseInvariant, PTL

-----------------------------------------------------------------------------
(* What is there is not fetched. *)

\* FetchesOnlyWhatIsMissing, with what validate will find.
WarmInv ==
  \A p \in Procs :
    /\ pc[p] \in Fetching \union {"fetch"} =>
         ~job[p].offline /\ job[p].env # Artifacts /\ ~job[p].warm
    /\ pc[p] = "validate" /\ job[p].warm /\ ~job[p].fetched =>
         \A f \in Artifacts : Exists(p, f)

LEMMA WarmStep ==
  ASSUME TypeOK, PinnedInv, WarmInv, NEW p \in Procs, Step(p)
  PROVE  /\ pc'[p] \in Fetching \union {"fetch"} =>
              ~job'[p].offline /\ job'[p].env # Artifacts /\ ~job'[p].warm
         /\ pc'[p] = "validate" /\ job'[p].warm /\ ~job'[p].fetched =>
              \A f \in Artifacts : Exists(p, f)'
<1> DEFINE Goal ==
      /\ pc'[p] \in Fetching \union {"fetch"} =>
           ~job'[p].offline /\ job'[p].env # Artifacts /\ ~job'[p].warm
      /\ pc'[p] = "validate" /\ job'[p].warm /\ ~job'[p].fetched =>
           \A f \in Artifacts : Exists(p, f)'
<1> USE DEF Goto, Fetching
<1>0. pc \in [Procs -> PcState] /\ job \in [Procs -> Job] /\ job[p] \in Job
  BY DEF TypeOK
<1>1. CASE Return(p)
  BY <1>0, <1>1 DEF Return
<1>2. CASE Start(p)
  <2>1. PICK r \in Releases, env \in EnvSets, offline \in BOOLEAN :
          \E stale \in {{}} \union {{f} : f \in env} :
            Begin(p, r, env, stale, offline)
    BY <1>2 DEF Start
  <2>2. PICK stale \in {{}} \union {{f} : f \in env} :
          Begin(p, r, env, stale, offline)
    BY <2>1
  <2>3. /\ pc'[p] = "validate" /\ cache' = cache
        /\ job'[p].release = r /\ job'[p].stale = stale
        /\ job'[p].paths = FillFromCache(env)
        /\ job'[p].warm =
             /\ stale = {}
             /\ \A f \in Artifacts \ env : cache[CacheDir(r)][f] # Absent
    BY <1>0, <2>2 DEF Begin
  <2>4. ASSUME job'[p].warm, NEW f \in Artifacts PROVE Exists(p, f)'
    <3>1. stale = {} /\ \A g \in Artifacts \ env : cache[CacheDir(r)][g] # Absent
      BY <2>3, <2>4
    <3>2. CASE f \in env
      BY <2>3, <3>1, <3>2 DEF FillFromCache, Exists
    <3>3. CASE f \notin env
      BY <2>3, <3>1, <3>3 DEF FillFromCache, Exists, Cached, CacheDir
    <3> QED
      BY <3>2, <3>3
  <2> QED
    BY <2>3, <2>4
<1>3. ASSUME NEW f \in Artifacts, StatHits(p, f) PROVE Goal
  <2>1. /\ pc'[p] = pc[p] /\ pc[p] = "validate"
        /\ job'[p].warm = job[p].warm /\ job'[p].fetched = job[p].fetched
        /\ job'[p].paths = job[p].paths
        /\ job'[p].stale = job[p].stale /\ job'[p].release = job[p].release
    BY <1>0, <1>3 DEF StatHits, Job
  <2>2. ASSUME NEW g \in Artifacts, Exists(p, g) PROVE Exists(p, g)'
    BY <2>1, <2>2, ExistsIsStable
  <2> QED
    BY <2>1, <2>2 DEF WarmInv
<1>4. ASSUME NEW f \in Artifacts, StatMisses(p, f) PROVE Goal
  BY <1>0, <1>1, <1>4 DEF StatMisses, MayFetch, WarmInv
<1>5. CASE job' = job /\ pc[p] \in Fetching \union {"fetch"}
           /\ pc'[p] \in Fetching
  BY <1>5 DEF WarmInv
<1>6. CASE Resolve(p)
  BY <1>0, <1>1, <1>3, <1>4, <1>6 DEF Resolve, Resolved, Finish
<1>7. ASSUME NEW f \in Canisters, RenameMember(p, f) PROVE Goal
  <2>1. /\ pc[p] = "member" /\ pc'[p] = "extract"
        /\ job'[p].warm = job[p].warm /\ job'[p].env = job[p].env
        /\ job'[p].offline = job[p].offline
    BY <1>0, <1>7 DEF RenameMember, Job
  <2> QED
    BY <2>1 DEF WarmInv
<1>8. CASE TarEnds(p)
  <2>1. CASE job[p].found = Canisters
    BY <1>0, <1>8, <2>1 DEF TarEnds, Job
  <2> QED
    BY <1>1, <1>8, <2>1 DEF TarEnds
<1>9. CASE FetchAll(p)
  <2>1. CASE Get(p, "fetch", "gz") \/ Get(p, "getTar", "tar")
    BY <1>0, <1>5, <2>1 DEF Get
  <2>2. ASSUME NEW b \in Releases \union {Corrupt},
               \/ Downloaded(p, "gz", b, "unzip")
               \/ Downloaded(p, "tar", b, "extract")
        PROVE  Goal
    BY <1>0, <1>5, <2>2 DEF Downloaded
  <2>3. CASE Unzip(p) \/ RenamePocketIC(p) \/ Extract(p)
    BY <1>0, <1>5, <2>3 DEF Unzip, RenamePocketIC, Extract
  <2> QED
    BY <1>7, <1>8, <1>9, <2>1, <2>2, <2>3 DEF FetchAll
<1>10. CASE Fails(p)
  BY <1>1, <1>10 DEF Fails, GetFails, FetchPocketICFails,
                     FetchCanistersFails, Crash
<1> QED
  BY <1>2, <1>6, <1>9, <1>10 DEF Step

\* Nothing is downloaded offline, behind a complete environment, or for a
\* process whose files were all there (FetchesOnlyWhatIsMissing).
THEOREM NoNeedlessFetch == Spec => []FetchesOnlyWhatIsMissing
<1>1. Init => WarmInv
  BY DEF Init, WarmInv, Fetching
<1>2. TypeOK /\ PinnedInv /\ WarmInv /\ [Next]_vars => WarmInv'
  <2> SUFFICES ASSUME TypeOK, PinnedInv, WarmInv, [Next]_vars PROVE WarmInv'
    OBVIOUS
  <2>1. CASE UNCHANGED vars
    BY <2>1 DEF vars, WarmInv, Exists, Cached
  <2>2. ASSUME NEW p \in Procs, Step(p), NEW q \in Procs
        PROVE /\ pc'[q] \in Fetching \union {"fetch"} =>
                   ~job'[q].offline /\ job'[q].env # Artifacts /\ ~job'[q].warm
              /\ pc'[q] = "validate" /\ job'[q].warm /\ ~job'[q].fetched =>
                   \A f \in Artifacts : Exists(q, f)'
    <3>1. CASE q = p
      BY <2>2, <3>1, WarmStep
    <3>2. CASE q # p
      <4>1. pc'[q] = pc[q] /\ job'[q] = job[q]
        BY <2>2, <3>2, OthersUntouched
      <4>2. ASSUME NEW f \in Artifacts, Exists(q, f) PROVE Exists(q, f)'
        BY <2>2, <4>1, <4>2, ExistsIsStable
      <4> QED
        BY <4>1, <4>2 DEF WarmInv
    <3> QED
      BY <3>1, <3>2
  <2>3. ASSUME NEW p \in Procs, Step(p) PROVE WarmInv'
    BY <2>2, <2>3 DEF WarmInv
  <2> QED
    BY <2>1, <2>3 DEF Next, Step
<1>3. WarmInv => FetchesOnlyWhatIsMissing
  BY DEF WarmInv, FetchesOnlyWhatIsMissing
<1> QED
  BY <1>1, <1>2, <1>3, TypeCorrect, PinnedInvariant, PTL DEF Spec


-----------------------------------------------------------------------------
(* Temporary files: each stage of a fetch has its own, and no other stage. *)

Holding(l) ==
  CASE l \in {"gz", "unzip"} -> {"gz"}
    [] l = "bin" -> {"gz", "bin"}
    [] l \in {"tar", "extract"} -> {"tar"}
    [] l = "member" -> {"tar", "member"}
    [] OTHER -> {}

HoldsOnly(p) == \A t \in Temps : temps[p][t] # Absent => t \in Holding(pc[p])

\* What a step of p makes of p's own temporary files.
LEMMA TempsStep ==
  ASSUME TypeOK, NEW p \in Procs, HoldsOnly(p), Step(p)
  PROVE  HoldsOnly(p)'
<1> USE DEF TypeOK, Goto, Return, HoldsOnly, Holding, Temps
<1>1. CASE Start(p)
  BY <1>1 DEF Start, Begin
<1>2. CASE Resolve(p)
  <2>1. ASSUME NEW f \in Artifacts, StatHits(p, f) PROVE HoldsOnly(p)'
    BY <2>1 DEF StatHits
  <2>2. ASSUME NEW f \in Artifacts, StatMisses(p, f) PROVE HoldsOnly(p)'
    BY <2>2 DEF StatMisses
  <2>3. CASE Resolved(p) \/ Finish(p)
    BY <2>3 DEF Resolved, Finish
  <2> QED
    BY <1>2, <2>1, <2>2, <2>3 DEF Resolve
<1>3. CASE FetchAll(p)
  <2> USE DEF CreateTemp, Discard, RenameInto
  <2>1. CASE Get(p, "fetch", "gz")
    BY <2>1 DEF Get
  <2>2. CASE Get(p, "getTar", "tar")
    BY <2>2 DEF Get
  <2>3. ASSUME NEW b \in Releases \union {Corrupt},
               \/ Downloaded(p, "gz", b, "unzip")
               \/ Downloaded(p, "tar", b, "extract")
        PROVE  HoldsOnly(p)'
    BY <2>3 DEF Downloaded
  <2>4. CASE Unzip(p)
    BY <2>4 DEF Unzip
  <2>5. CASE RenamePocketIC(p)
    BY <2>5 DEF RenamePocketIC
  <2>6. CASE Extract(p)
    BY <2>6 DEF Extract
  <2>7. CASE TarEnds(p)
    BY <2>7 DEF TarEnds
  <2>8. ASSUME NEW f \in Canisters, RenameMember(p, f) PROVE HoldsOnly(p)'
    BY <2>8 DEF RenameMember
  <2> QED
    BY <1>3, <2>1, <2>2, <2>3, <2>4, <2>5, <2>6, <2>7, <2>8 DEF FetchAll
<1>4. CASE Fails(p)
  <2> USE DEF Discard
  <2>1. CASE GetFails(p)
    BY <2>1 DEF GetFails
  <2>2. CASE FetchPocketICFails(p)
    BY <2>2 DEF FetchPocketICFails
  <2>3. CASE FetchCanistersFails(p)
    BY <2>3 DEF FetchCanistersFails
  <2>4. CASE Crash(p)
    BY <2>4 DEF Crash, NoTemps
  <2> QED
    BY <1>4, <2>1, <2>2, <2>3, <2>4 DEF Fails
<1> QED
  BY <1>1, <1>2, <1>3, <1>4 DEF Step

\* However ResolveArtifacts returns, short of a kill, it leaves no temporary
\* file in the cache directory (download, fetchPocketIC, fetchCanisters).
THEOREM NoTempsLeft == Spec => []ReturnsClean
<1> DEFINE TempsInv == \A p \in Procs : HoldsOnly(p)
<1>1. Init => TempsInv
  BY DEF Init, HoldsOnly, NoTemps
<1>2. TypeOK /\ TempsInv /\ [Next]_vars => TempsInv'
  <2> SUFFICES ASSUME TypeOK, TempsInv, [Next]_vars, NEW q \in Procs
               PROVE  HoldsOnly(q)'
    OBVIOUS
  <2>1. CASE UNCHANGED vars
    BY <2>1 DEF vars, HoldsOnly
  <2>2. ASSUME NEW p \in Procs, Step(p) PROVE HoldsOnly(q)'
    <3>1. CASE q = p
      BY <2>2, <3>1, TempsStep
    <3>2. CASE q # p
      BY <2>2, <3>2, OthersUntouched DEF HoldsOnly
    <3> QED
      BY <3>1, <3>2
  <2> QED
    BY <2>1, <2>2 DEF Next, Step
<1>3. TypeOK /\ TempsInv => ReturnsClean
  <2> SUFFICES ASSUME TypeOK, TempsInv, NEW p \in Procs, pc[p] \in {"idle", "use"}
               PROVE  temps[p] = NoTemps
    BY DEF ReturnsClean
  <2>1. \A t \in Temps : temps[p][t] = Absent
    BY DEF HoldsOnly, Holding
  <2>2. temps[p] \in [Temps -> Contents \union {Absent}]
    BY DEF TypeOK
  <2> QED
    BY <2>1, <2>2 DEF NoTemps
<1> QED
  BY <1>1, <1>2, <1>3, TypeCorrect, PTL DEF Spec
=============================================================================
