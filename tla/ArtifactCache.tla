--------------------------- MODULE ArtifactCache ---------------------------
(***************************************************************************)
(* The dry run's inputs (nns/bootstrap.go): the pocket-ic binary and three *)
(* canisters, taken from the environment, or from a cache directory that   *)
(* every alp process of the user shares and that a process fills from the  *)
(* IC release its build is pinned to.  Nothing locks the directory; what   *)
(* keeps it sound is that a file gets its name by a rename.                *)
(***************************************************************************)
EXTENDS Naturals, FiniteSets

CONSTANTS
  Procs,     \* processes about to dry-run
  Releases,  \* the releases the installed builds are pinned to
  InTar,     \* InTar[r]: the canisters that release r's canisters.tar holds
  EnvSets,   \* the sets of artifacts the operators name in the environment
  Absent, Partial, Corrupt   \* no file; one being written; any other content

Canisters == {"governance", "registry", "root"}
Artifacts == Canisters \union {"pocket-ic"}

\* What a file holds: the bytes of a release (a file by itself determines
\* which of the release's), or something else.
Contents == Releases \union {Partial, Corrupt}

ASSUME ContentsAssumption ==
  /\ {Absent, Partial, Corrupt} \intersect Releases = {}
  /\ Absent \notin {Partial, Corrupt}
ASSUME ReleasesAssumption == Releases # {}
ASSUME InTarAssumption == InTar \in [Releases -> SUBSET Canisters]
ASSUME EnvSetsAssumption == EnvSets \subseteq SUBSET Artifacts

VARIABLES
  cache,  \* cache[d][f]: the file f of release directory d
  temps,  \* temps[p][t]: p's temporary files in its release directory
  pc,     \* where each process is
  job     \* job[p]: its arguments and progress

vars == <<cache, temps, pc, job>>

\* The two downloads and what is unpacked from them, under unique names.
Temps == {"gz", "bin", "tar", "member"}

Job == [release : Releases,
        env : SUBSET Artifacts,       \* set in the environment
        stale : SUBSET Artifacts,     \* set to a path that does not exist
        offline : BOOLEAN,
        warm : BOOLEAN,               \* history: all it needed was there
        paths : [Artifacts -> {"env", "cache"}],
        unchecked : SUBSET Artifacts, \* left for validate to stat
        fetched : BOOLEAN,            \* fetchAll has run
        found : SUBSET Canisters]     \* members extracted

Fetching == {"gz", "unzip", "bin", "getTar", "tar", "extract", "member"}
PcState == {"idle", "validate", "fetch", "use"} \union Fetching

NoTemps == [t \in Temps |-> Absent]

AllFrom(s) == [f \in Artifacts |-> s]

NoJob == [release |-> CHOOSE r \in Releases : TRUE, env |-> {}, stale |-> {},
          offline |-> FALSE, warm |-> FALSE, paths |-> AllFrom("cache"),
          unchecked |-> {}, fetched |-> FALSE, found |-> {}]

Init ==
  /\ cache = [d \in Releases |-> AllFrom(Absent)]
  /\ temps = [p \in Procs |-> NoTemps]
  /\ pc = [p \in Procs |-> "idle"]
  /\ job = [p \in Procs |-> NoJob]

-----------------------------------------------------------------------------
(* The files. *)

\* Mutated form: one directory for all releases.
CacheDirShared(r) == CHOOSE d \in Releases : TRUE

\* releaseCacheDir
CacheDir(r) == r

Cached(p, f) == cache[CacheDir(job[p].release)][f]

\* os.CreateTemp
CreateTemp(p, t) == temps' = [temps EXCEPT ![p][t] = Partial]

Discard(p, ts) ==
  temps' = [temps EXCEPT ![p] =
              [t \in Temps |-> IF t \in ts THEN Absent ELSE temps[p][t]]]

\* The copy into t ends, t is renamed to f, and the files in ts are removed.
RenameInto(p, f, b, t, ts) ==
  /\ cache' = [cache EXCEPT ![CacheDir(job[p].release)][f] = b]
  /\ Discard(p, ts \union {t})

Goto(p, l) == pc' = [pc EXCEPT ![p] = l]

\* ResolveArtifacts returns an error, or the dry run is over.
Return(p) == Goto(p, "idle") /\ job' = [job EXCEPT ![p] = NoJob]

-----------------------------------------------------------------------------
(* ResolveArtifacts *)

\* Mutated form: the root canister keeps its empty path.
FillFromCacheForgetsRoot(env) ==
  [f \in Artifacts |-> IF f \in env THEN "env"
                       ELSE IF f = "root" THEN "" ELSE "cache"]

\* complete is true of the environment alone, or after fillFromCache.
FillFromCache(env) == [f \in Artifacts |-> IF f \in env THEN "env" ELSE "cache"]

Begin(p, r, env, stale, offline) ==
  /\ pc[p] = "idle"
  /\ Goto(p, "validate")
  /\ job' = [job EXCEPT ![p] =
       [release |-> r, env |-> env, stale |-> stale, offline |-> offline,
        warm |-> /\ stale = {}
                 /\ \A f \in Artifacts \ env : cache[CacheDir(r)][f] # Absent,
        paths |-> FillFromCache(env), unchecked |-> Artifacts,
        fetched |-> FALSE, found |-> {}]]
  /\ UNCHANGED <<cache, temps>>

\* os.Stat of the path chosen for f.
Exists(p, f) ==
  IF job[p].paths[f] = "env" THEN f \notin job[p].stale
                             ELSE Cached(p, f) # Absent

(***************************************************************************)
(* validate ranges over a Go map, so in any order.  Other processes may    *)
(* rename files into the directory between two of its calls of os.Stat.    *)
(***************************************************************************)
StatHits(p, f) ==
  /\ pc[p] = "validate" /\ f \in job[p].unchecked
  /\ Exists(p, f)
  /\ job' = [job EXCEPT ![p].unchecked = @ \ {f}]
  /\ UNCHANGED <<cache, temps, pc>>

\* Mutated form: a directory that has a file is taken to have them all.
MayFetchOnce(p) == /\ job[p].env # Artifacts
                   /\ ~job[p].offline
                   /\ ~job[p].fetched
                   /\ \A f \in Artifacts : Cached(p, f) = Absent

\* Mutated form: an offline process fetches.
MayFetchOffline(p) == /\ job[p].env # Artifacts
                      /\ ~job[p].fetched

MayFetch(p) == /\ job[p].env # Artifacts
               /\ ~job[p].offline
               /\ ~job[p].fetched

StatMisses(p, f) ==
  /\ pc[p] = "validate" /\ f \in job[p].unchecked
  /\ ~Exists(p, f)
  /\ IF MayFetch(p) THEN Goto(p, "fetch") /\ UNCHANGED job ELSE Return(p)
  /\ UNCHANGED <<cache, temps>>

Resolved(p) ==
  /\ pc[p] = "validate" /\ job[p].unchecked = {}
  /\ Goto(p, "use")
  /\ UNCHANGED <<cache, temps, job>>

\* The dry run opens the files by their paths until it ends.
Finish(p) ==
  /\ pc[p] = "use"
  /\ Return(p)
  /\ UNCHANGED <<cache, temps>>

-----------------------------------------------------------------------------
(* fetchAll: fetchPocketIC, then fetchCanisters *)

\* An unsupported platform, no directory, no answer, no temporary file.
GetFails(p) ==
  /\ pc[p] \in {"fetch", "getTar"}
  /\ Return(p)
  /\ UNCHANGED <<cache, temps>>

\* Mutated form: the first download starts from an empty directory.
GetAfterClearing(p, from, t) ==
  /\ pc[p] = from
  /\ cache' = IF t = "gz"
              THEN [cache EXCEPT ![CacheDir(job[p].release)] = AllFrom(Absent)]
              ELSE cache
  /\ CreateTemp(p, t)
  /\ Goto(p, t)
  /\ UNCHANGED job

\* The server answers 200 and the body is being written to t.
Get(p, from, t) ==
  /\ pc[p] = from
  /\ CreateTemp(p, t)
  /\ Goto(p, t)
  /\ UNCHANGED <<cache, job>>

HashMatches(p, body) == body = job[p].release

\* The whole body b has been written and is what the build is pinned to.
Downloaded(p, t, b, next) ==
  /\ pc[p] = t
  /\ HashMatches(p, b)
  /\ temps' = [temps EXCEPT ![p][t] = b]
  /\ Goto(p, next)
  /\ UNCHANGED <<cache, job>>

\* A truncated or substituted body, a bad archive, a full disk, a rename
\* refused: every return after a file was created removes it.
FetchPocketICFails(p) ==
  /\ pc[p] \in {"gz", "unzip", "bin"}
  /\ Discard(p, {"gz", "bin"})
  /\ Return(p)
  /\ UNCHANGED cache

\* Mutated form: the archive stays when a member cannot be extracted.
FetchCanistersKeepsTar(p) ==
  /\ pc[p] \in {"tar", "extract", "member"}
  /\ Discard(p, {pc[p]})
  /\ Return(p)
  /\ UNCHANGED cache

FetchCanistersFails(p) ==
  /\ pc[p] \in {"tar", "extract", "member"}
  /\ Discard(p, {"tar", "member"})
  /\ Return(p)
  /\ UNCHANGED cache

Unzip(p) ==
  /\ pc[p] = "unzip"
  /\ CreateTemp(p, "bin")
  /\ Goto(p, "bin")
  /\ UNCHANGED <<cache, job>>

RenamePocketIC(p) ==
  /\ pc[p] = "bin"
  /\ RenameInto(p, "pocket-ic", temps[p]["gz"], "bin", {"gz"})
  /\ Goto(p, "getTar")
  /\ UNCHANGED job

Left(p) == InTar[job[p].release] \ job[p].found

\* Mutated form: a member is extracted under its final name.
ExtractInPlace(p) ==
  /\ pc[p] = "extract" /\ Left(p) # {}
  /\ \E f \in Left(p) :
       cache' = [cache EXCEPT ![CacheDir(job[p].release)][f] = Partial]
  /\ Goto(p, "member")
  /\ UNCHANGED <<temps, job>>

Extract(p) ==
  /\ pc[p] = "extract" /\ Left(p) # {}
  /\ CreateTemp(p, "member")
  /\ Goto(p, "member")
  /\ UNCHANGED <<cache, job>>

RenameMember(p, f) ==
  /\ pc[p] = "member" /\ f \in Left(p)
  /\ RenameInto(p, f, temps[p]["tar"], "member", {})
  /\ job' = [job EXCEPT ![p].found = @ \union {f}]
  /\ Goto(p, "extract")

\* The end of the archive: all three must have been in it.  What fetchAll
\* returns are the cache's paths, whatever the environment says.
TarEnds(p) ==
  /\ pc[p] = "extract" /\ Left(p) = {}
  /\ Discard(p, {"tar"})
  /\ IF job[p].found = Canisters
     THEN /\ Goto(p, "validate")
          /\ job' = [job EXCEPT ![p].paths = AllFrom("cache"),
                                ![p].unchecked = Artifacts,
                                ![p].fetched = TRUE]
     ELSE Return(p)
  /\ UNCHANGED cache

(***************************************************************************)
(* The process is killed.  Its temporary files stay in the directory, but  *)
(* under names that no other process makes or opens.                       *)
(***************************************************************************)
Crash(p) ==
  /\ pc[p] # "idle"
  /\ temps' = [temps EXCEPT ![p] = NoTemps]
  /\ Return(p)
  /\ UNCHANGED cache

-----------------------------------------------------------------------------

Resolve(p) ==
  \/ \E f \in Artifacts : StatHits(p, f) \/ StatMisses(p, f)
  \/ Resolved(p)
  \/ Finish(p)

FetchAll(p) ==
  \/ Get(p, "fetch", "gz") \/ Get(p, "getTar", "tar")
  \/ \E b \in Releases \union {Corrupt} :
       Downloaded(p, "gz", b, "unzip") \/ Downloaded(p, "tar", b, "extract")
  \/ Unzip(p) \/ RenamePocketIC(p)
  \/ Extract(p) \/ TarEnds(p)
  \/ \E f \in Canisters : RenameMember(p, f)

Fails(p) ==
  GetFails(p) \/ FetchPocketICFails(p) \/ FetchCanistersFails(p) \/ Crash(p)

\* More than one path that does not exist fails validate as one does.
Start(p) ==
  \E r \in Releases, env \in EnvSets, offline \in BOOLEAN :
    \E stale \in {{}} \union {{f} : f \in env} :
      Begin(p, r, env, stale, offline)

Next == \E p \in Procs : Start(p) \/ Resolve(p) \/ FetchAll(p) \/ Fails(p)

Spec == Init /\ [][Next]_vars

(***************************************************************************)
(* Properties                                                              *)
(***************************************************************************)

\* Every variable keeps its type.
TypeOK ==
  /\ cache \in [Releases -> [Artifacts -> Contents \union {Absent}]]
  /\ temps \in [Procs -> [Temps -> Contents \union {Absent}]]
  /\ pc \in [Procs -> PcState]
  /\ job \in [Procs -> Job]

(***************************************************************************)
(* A file under its cached name is the pinned one of that release, whole:  *)
(* download hands a body on only when its hash matches, and fetchPocketIC  *)
(* and fetchCanisters rename only finished files, whatever the processes   *)
(* do at once and wherever one is killed.                                  *)
(***************************************************************************)
CachedIsPinned ==
  \A d \in Releases, f \in Artifacts : cache[d][f] \in {Absent, d}

(***************************************************************************)
(* When ResolveArtifacts returns without an error, and for as long as the  *)
(* dry run uses the paths, each is the operator's file or the file of the  *)
(* release this build is pinned to.                                        *)
(***************************************************************************)
UsesPinned ==
  \A p \in Procs : pc[p] = "use" =>
    \A f \in Artifacts :
      IF job[p].paths[f] = "env" THEN f \in job[p].env \ job[p].stale
                                 ELSE Cached(p, f) = job[p].release

(***************************************************************************)
(* A command that is offline, or that has every path from the environment, *)
(* or that started when all it needed was there, downloads nothing, even   *)
(* when others fetch meanwhile.                                            *)
(***************************************************************************)
FetchesOnlyWhatIsMissing ==
  \A p \in Procs : pc[p] \in Fetching \union {"fetch"} =>
    ~job[p].offline /\ job[p].env # Artifacts /\ ~job[p].warm

\* Whichever way ResolveArtifacts returns, unless the process is killed, it
\* leaves no temporary file in the cache directory.
ReturnsClean ==
  \A p \in Procs : pc[p] \in {"idle", "use"} => temps[p] = NoTemps

(***************************************************************************)
(* Dry runs of each build go on being started, online and with nothing set *)
(* in the environment, and no step of a download fails for ever.           *)
(***************************************************************************)
For(p, r) == job[p].release = r

FairSpec ==
  /\ Spec
  /\ \A p \in Procs : WF_vars(Resolve(p))
  /\ \A p \in Procs, r \in Releases :
       /\ SF_vars(Begin(p, r, {}, {}, FALSE))
       /\ SF_vars(\E f \in Artifacts :
                    For(p, r) /\ MayFetch(p) /\ StatMisses(p, f))
       /\ SF_vars(For(p, r) /\ Get(p, "fetch", "gz"))
       /\ SF_vars(For(p, r) /\ Downloaded(p, "gz", r, "unzip"))
       /\ SF_vars(For(p, r) /\ Unzip(p))
       /\ SF_vars(For(p, r) /\ RenamePocketIC(p))
       /\ SF_vars(For(p, r) /\ Get(p, "getTar", "tar"))
       /\ SF_vars(For(p, r) /\ Downloaded(p, "tar", r, "extract"))
       /\ SF_vars(For(p, r) /\ Extract(p))
       /\ \A f \in Canisters : SF_vars(For(p, r) /\ RenameMember(p, f))

(***************************************************************************)
(* A cache that is asked for often enough becomes complete and stays so,   *)
(* through failed downloads, kills between two renames and half-filled     *)
(* directories, if canisters.tar holds what the build expects.             *)
(***************************************************************************)
CacheFills ==
  \A d \in Releases :
    InTar[d] = Canisters => <>[](\A f \in Artifacts : cache[d][f] = d)

=============================================================================
