# A TLA+ development of alp

`alp` manages nodes and subnets of the Internet Computer through NNS proposals,
the way terraform manages resources: proposals are declared in `proposals.hcl`,
`apply` verifies one on a local NNS and submits it, and one `state.json`,
committed next to the configuration, records what was submitted and what became
of it.  These modules state what that record promises and check it, with TLC on
small instances and with TLAPS for every value of the constants.

## The system

| part | code | state | operations | correct when |
|---|---|---|---|---|
| state file | `nns/state.go`, `nns/lifecycle.go` | a map of block name to entry, a map of chip to verdict | `LoadState`, `SaveState`, `Import`, `ApplyDecision`, `RecordState`, `RecordSubmittedAt`, `RecordOutcome` | an entry is about a proposal of its block, moves forward only, and is final once terminal |
| submission | `cmd/alp/main.go` `apply`, `nns/submit.go`, `nns/mainnet.go` | the process's copy of the state, the call in flight | guard, dry run, access check, preflight, prompt, submit, record | nothing is recorded that did not happen; nothing on record is submitted again without `--force` |
| status | `status`, `nns/status.go`, `nns/lifecycle.go` | the copy, the blocks still to visit | settled short cut, governance query, dashboard fallback, three `Record` calls, save | what it records is true and complete; what can still move is asked about again |
| chip verification | `verifyChips`, `nns/kds.go`, `nns/chipstate.go` | the recorded chips | product-line walk, cache, `--refresh-chips`, save | only genuine chips are recorded; no answer is not a refusal |
| preflight and plan | `nns/plan*.go`, `nns/action.go`, `nns/removal.go`, `nns/onboarding.go`, `nns/update_subnet.go` | none | a classification per action kind, the gate in `planCheck` | a no-op or impossible proposal is flagged |
| reconcile | `nns/reconcile*.go`, `nns/table.go` | none | comparisons of declared and on-chain inventory | drift is reported when there is any, and only then |
| network reads | `nns/registry.go`, `nns/noderecord.go`, `nns/release.go`, `nns/nodeversion.go`, pools in `main.go` | result maps under a mutex | bounded pools of HTTP reads | a failed read is not an answer; each node has one |
| dry-run artifacts | `nns/bootstrap.go` | a cache directory | resolve, download, verify, extract, rename | a file in the cache is a pinned one |
| dry-run registry | `nns/mirror.go`, `nns/install.go`, `nns/seed.go` | a list of mutations | copy records at one version, seed, precedence | one record per key |
| PocketIC client | `pocketic/` | server process, instance | start, poll, call, close | a call runs once and gets its own answer or an error; the server is stopped |
| GuestOS sync | `nns/guestos.go` | `guestos.hcl`, the alias block | replay of elections, rewrite | nothing unelected is written; the alias names what is |
| configuration | `nns/spec.go`, `nns/resources.go`, `nns/kinds.go` | none | decode and validate HCL | names and ids are unique |

All commands are separate processes.  They share three things: the file
`state.json`, the network (governance, the registry, the dashboard, AMD's KDS)
and, for the dry run, the artifact cache.  Nothing locks the file: each command
loads all of it, works on its copy for as long as its queries take, and saves
all of the copy.  `SaveState` writes a temporary file and renames it, so a
reader never sees half a file, but the last saver wins.

The hard behaviour is there: interleavings of whole-file read-modify-write
cycles that last minutes, a submission whose answer is lost and which executes
later, a crash between the submission and the save, proposals that governance
has purged and only the dashboard still knows, partial answers from KDS.
`PROJECT.json` lists these hazards with the line where each one bites.

## The modules

| module | models |
|---|---|
| `StateFile` | the entry, the guard and the record functions, as pure functions of a proposals map |
| `Governance` | the environment: proposals of each network, calls that may execute late, what a status query may answer |
| `Chips` | the product-line walk of KDS and the verdict cache, as pure functions |
| `Alp` | the processes: `apply`, `import`, `status`, `reconcile`, one action per step between two accesses to shared state; the properties |
| `Journal` | the abstract specification: what `state.json` promises to whoever commits it |
| `MCAlp` | the instances of `Alp` for TLC |
| `AlpProofs`, `AlpSoloProofs` | the proofs about `Alp` |
| `ArtifactCache` | the dry run's files: processes that resolve, download, unpack and rename into one directory |
| `MCArtifactCache` | the instances of `ArtifactCache` for TLC |
| `ArtifactCacheProofs` | the proofs about `ArtifactCache` |
| `Registry` | the environment of the preflight: the registry's records and governance's node providers, and what executing each kind of proposal does to them |
| `Preflight` | `plan` and the preflight of `apply`: what each kind reads, the planners, the gate |
| `MCPreflight`, `PreflightProofs` | the instance of `Preflight` for TLC; the proofs about it |
| `Resources` | the inventory of `resources.hcl` with its validation, and the network it is about, as pure functions |
| `Report` | `reconcile`: the pools of reads, the classifiers, the verdict |
| `MCReport`, `ReportProofs` | the instance of `Report` for TLC; the proofs about it |
| `LocalRegistry` | the mirror's walk, the seeds, the batch they make, what the registry canister accepts; pure functions |
| `PocketIC` | the client: the server process, the port file, one call with its polling and deadline |
| `DryRun` | composes the two: `dryRun` from its reads of mainnet to `Close` |
| `MCDryRun`, `DryRunProofs` | the instance of `DryRun` for TLC; the proofs about it |
| `MirrorProofs` | lemmas about `LocalRegistry`: the walk, the batch, the registry's checks |
| `GuestosSync` | `guestos sync`: the replay of elections, the two file writes |
| `MCGuestosSync`, `GuestosSyncProofs` | the instance of `GuestosSync` for TLC; the proofs about it |

### State and actions of `Alp`

`file` and `chips` are `state.json`.  `mem[p]` and `memChips[p]` are the copy a
process holds, `pc[p]` where it is in its command, `job[p]` its flags and
locals.  `chain` and `late` are the network, `vouched` the chips AMD answers
for, `imports` a history of what operators asked to import.  The history fields
`name` and `unguarded` of a proposal say which block it was submitted from and
whether the file recorded a submission of the block at the moment an unforced
call left.

| action | code |
|---|---|
| `Begin`, `SaveState`, `End` | `LoadState`; `SaveState`; the process exits |
| `ApplyStart` | `apply` up to `ApplyDecision`; a verdict other than "proceed" changes nothing |
| `ApplyStops` | any gate that fails or declines, governance's rejection, a kill before the call |
| `SubmitAccepted`, `SubmitTimesOut` | the two outcomes of `manage_neuron` that change something |
| `ApplyRecord` | the entry and the save of `SubmitAndRecord` |
| `ImportStart`, `ImportSave` | `importCmd` |
| `StatusStart`, `StatusPasses`, `StatusObserves`, `StatusSave`, `StatusEnd` | `status`, a block at a time, in any order |
| `ReconcileStart`, `ReconcileVerify`, `ReconcileCached`, `ReconcileEnd` | `verifyChips` of `reconcile`, a chip at a time |
| `Crash` | a failed save, or a kill, in any of the commands |

What is abstracted: payloads are values that are equal or not (their hash);
kind, submitter and neuron are written once and never read, so they are left
out; times are "local", "chain" or unknown; the tally and failure reason of an
outcome are represented by the proposal they belong to.  The gates of `apply`
are one choice between passing and stopping, because none of them writes
anything `Alp` describes.  `import --at` sets a time no command reads, and is
left out.  KDS either answers as AMD would or does not answer; a garbled answer
is listed as a hazard and not modelled.

### State and actions of `ArtifactCache`

`cache[d][f]` is the file `f` in the directory of release `d`, and `temps[p]`
the temporary files `p` made there.  `job[p]` holds the process's build (the
release it is pinned to), its environment and flags, the `Artifacts` value it
has (`paths`, a path being the operator's or the cache's), the files
`validate` has not yet seen and the archive members extracted.

| action | code |
|---|---|
| `Begin` | `ResolveArtifacts` up to the first `validate` |
| `StatHits`, `StatMisses`, `Resolved` | `validate`, one `os.Stat` at a time in any order, and what a miss leads to |
| `Get`, `Downloaded` | `download`: the temporary file, then the body and its hash |
| `Unzip`, `RenamePocketIC` | `fetchPocketIC` |
| `Extract`, `RenameMember`, `TarEnds` | `fetchCanisters` |
| `GetFails`, `FetchPocketICFails`, `FetchCanistersFails` | every early return, with what its deferred calls remove |
| `Crash`, `Finish` | a kill; the end of the dry run |

The bytes of a file are abstracted to the release they are of.  A hash either
matches the pin or not.  The files of a killed process get no second reader,
because `os.CreateTemp` makes their names unique, so `Crash` forgets them:
nothing in the code ever deletes them from the directory.

### State and actions of `Preflight`

`reg` is the live state: one subnet (members, version, SEV, one setting), node,
operator and data-center records, elected versions, providers.  `job` is the
one command of a behaviour: its proposal (`action`), flags, the fetches left
(`todo`, and `left` inside a loop over ids), what they returned (`seen`), the
verdict (`level`) and how often others moved since it began (`moves`).

| action | code |
|---|---|
| `Start` | `plan`, or `apply` reaching `planCheck` |
| `FetchSubnet` .. `FetchNodeProviders` | one fetch of a kind's `Preflight`, each a call of its own |
| `checkSevAdmission`, `FetchNodeStatus`, `FetchOperatorNodes` | the loops over ids, one id at a time |
| `ElectionUnreadable`, `FetchFails` | the elected set cannot be read and that is allowed; any other failed fetch |
| `planCheck` | the planner of the kind (`Grade`), and the gate |
| `Confirm`, `Conclude` | `--yes` and the prompt; the proposal is executed or rejected |
| `OthersMove` | another proposal executes, a node registers, a version is elected or retired |

`Registry` is external: its canister is not in the repository.  What execution
refuses, skips or traps on is taken from the comments of the planners, which
say it of the canister's own functions.  All plain settings and lists of
`update_subnet` are one setting with an empty value, because the planner treats
them alike; what the dashboard says of a release is display only.

### State and actions of `Report`

`config` is the inventory as the file has it, `worlds` what the network goes
through and `now` where it is; `started` is where it was when the report began.
`todo` is what the step at hand still reads, `pool` the pool of goroutines
(what waits, what runs, free slots, results, whether one failed).  `status`,
`owned` and `lookups` are the maps the classifiers use, `flagged` the items
with a row of drift.

| action | code |
|---|---|
| `Load` | `LoadConfig`, the validation of resources, the early return |
| `ReadMembers`, `PendingEnds`, `ReadFacts` | `reconcile`'s loop over subnets: membership, the records of declared nodes it lacks, the record's fields |
| `SubnetsEnd`, `RecordsEnd` | `nodeStatusAll` |
| `Take`, `RecordRead`, `RecordFails` | `fetchNodeStatus`, a goroutine at a time |
| `ReadDataCenters`, `ReadProvider`, `ProvidersEnd`, `ReadOperator`, `OperatorsEnd` | the data centers; `providerOperators`, `operatorNodes` and their classifiers |
| `CheckChips` | `verifyChips` and `ReconcileNodeSev`; the walk itself is in `Chips` |
| `Take`, `Endpoint`, `NodeAnswers`, `NodeUnreachable`, `DashboardAnswers`, `VersionUnread`, `VersionsEnd` | `nodeVersions` |
| `ReadElected`, `ElectedUnread`, `Conclude` | `electedVersions`, the notes, the exit status |
| `ReadFails` | every early return on a failed read |
| `WorldMoves` | a proposal executes, a node restarts, between any two reads |

Each status of a classifier is abstracted to drift or no drift.  `Holds` says
the same of a world and an item without going through the answers; the
properties compare the two.

### State and actions of `DryRun`

`history` is mainnet's registry version by version, `pinned` the version the
mirror reads, `walk` the mirror under construction.  `at` counts the calls of
`Script`, the fixed sequence `BringUpWith` and `dryRun` make; `call`, `busy`,
`server`, `portFile` and `base` are the PocketIC client's and its server's.

| action | code |
|---|---|
| `FetchSeeds`, `PinVersion`, `NothingToMirror` | `dryRunSeeds`, `newMainnetRegistry`, `dryRunMirror` |
| `Walk`, `WalkEnds`, `ReadFails` | `buildMirror`, a root at a time |
| `StartServer`, `StartFails`, `PortFound`, `PortNotFound` | `Start`, `waitPort` |
| `CallOpens`, `PostDone`, `PostStarted`, `PostBusy`, `Poll`, `TimePasses`, `CallReturns`, `CallFails` | `do` and `pollGraph`: 200, 202, 409, 404 and the deadline |
| `CloseServer` | the deferred `Close` |
| `ServerStep`, `ExecuteLocally`, `MainnetMoves` | the server writes its port, works, exits or loses an answer; the local NNS executes; mainnet moves on |

A registry key is a tuple; the bytes of a record are what it refers to.
`RegistryAccepts` is the registry canister's check at init, external, taken
from the comments of `seed.go` and `mirror.go`.

### State and actions of `GuestosSync`

`executed` and `elected` are the NNS: the election proposals in order and what
was elected after each.  `catalogue` and `alias` are the two files, empty
between the truncation and the write of `os.WriteFile`.  `seen` is the moment
of the dashboard's answer, `releases` what the replay made of it.

| action | code |
|---|---|
| `Fetch`, `FetchFails` | `fetchElections`, `parseElectedReleases`, the refusal of an empty set |
| `EmptyCatalogue`, `WriteCatalogue` | `WriteGuestosHCL` |
| `EmptyResources`, `SetVersionAlias` | `LatestRelease`, `SetVersionAlias` |
| `Killed`, `Restore` | an interrupt; the operator puts the emptied file back |
| `Execute` | a proposal elects and unelects |

Assumed of the network, as the code's comments do: election proposals are
executed in the order of their ids, and a version has one release tag.

## The runs

Each run below passes, except the last three, which check what a comment of the
repository claims and for which TLC finds the counterexample.

| run | shows | instance |
|---|---|---|
| `solo` | types; recorded ids were submitted or imported; the guard still holds when the call leaves; settled entries never change; the file implements `Journal` | 1 process, 1 block, 2 payloads, 2 ids; `apply`, `import`, `status` |
| `apply_many` | terminal entries are true and complete | 2 processes, 1 block, 2 ids; `apply`, `status` |
| `reconcile_one` | only genuine chips are recorded; a vouched chip is kept; the save of verdicts leaves proposals alone; a recorded proposal ends up recorded as settled | 1 process, 1 block, 2 ids, a genuine and a fake chip, 3 product lines; `apply`, `status`, `reconcile`, under `FairSpec` |
| `cache_shared` | only pinned files are cached; a dry run uses its own release's; what is there is not fetched again; no return leaves a temporary file | 2 processes, 2 releases, one with an incomplete archive, 2 environments |
| `cache_fair` | nothing is fetched offline or without need; a cache asked for often enough fills | 1 process, 1 release, 3 environments, under `ArtifactCache!FairSpec` |
| `preflight` | a no-op verdict is one; a clean verdict means the proposal works, or fails visibly if something moved; a done proposal is flagged; an unreadable elected set lets nothing through | one command, each of 9 kinds; 2 nodes, 2 versions, 2 data centers; every legal subnet, every onboarding state |
| `dry_run` | the mirror fails only for a proposal that names what is not there; the registry accepts the batch; success means the target exists; a call runs once; the server is gone in the end; the dry run ends | 12 proposals of 8 kinds, 3 histories of mainnet with one or two changes |
| `report` | a clean report and each row of drift were true of some moment of the report; "not elected" is never a failed lookup; the report ends | 7 inventories, histories of 3 of 4 worlds, 3 nodes, pools of 2 slots |
| `guestos` | nothing unelected is listed; a sync that reports success leaves both files in agreement; the alias names a catalogued release | 3 versions, every history of 3 proposals, a window of 2 |
| `remove_member` | the removal of a subnet's member is graded clean | as `preflight` |
| `retired_operator` | a retired operator that is still registered is no drift when its provider has no block | as `report` |
| `dry_run_status` | a payload the local registry refuses passes the dry run | as `dry_run` |

**Bounds.**  Two ids let a block be resubmitted and let two blocks compete for
ids; two payloads make drift possible; two processes are what a lost update
needs, and the properties that hold for two are proved for any number.  Three
product lines are the code's own number.  `MaxLate = 1` bounds the calls given
up on that are still in the network; a second one adds only another proposal of
the kind `OthersPropose` and `LateExecute` already make.  Names and processes
are symmetric where a run says so; the liveness runs use no symmetry.  For the cache, two processes
are one that reads or renames while another does; the environments are a plain
install, one variable set, and a shell that sets all; at most one path does not
exist, since `validate` fails at the first.  For the preflight, a behaviour is
one command, because commands share nothing but the registry and it may be
found in any legal state; two nodes are what mixed proposals (one member and
one not, one with a chip and one without) need, and one move (`MaxMoves`) makes
any one thing read stale.

For the report, two changes of the network at any two moments separate the
reads of one item, of two items and of two nodes of one pool; two slots with
three nodes make one wait.  The inventories are a full one, one with a retired
operator and an opted-out node, one with a node still joining, one without
providers, one whose retired operator's provider has no block, one of data
centers alone, and one with a duplicate id, which does not load.  For the dry
run, mainnet changes once or twice between its reads: a swap of members, an
upgrade, the retirement of an operator with its provider.  For the sync, a
window of two in a history of three cuts off one election, re-elected or
unelected later.  `report`, `guestos` and `dry_run` have one process: what
reports and dry runs share, `state.json` and the cache, `Alp` and
`ArtifactCache` cover with two; two syncs at once are left out.

**Fairness** (`reconcile_one`).  Weak fairness of voting and execution, because
governance decides every proposal at its deadline; of a command that has
started, because every query of the code has a timeout (`queryTimeout`, 20 s
for KDS, 30 minutes for a download) and the gates end; strong fairness of
starting `status` for all blocks, of a query of a settled proposal succeeding,
and of saving what changed: operators run `status` again and again, and a
source that fails for ever or a `--no-record` given for ever is not something
the code could make up for.  Nothing is assumed of `apply`, of crashes or of
purges, so all of these may go on between two runs of `status`.

**Fairness** (`cache_fair`).  Weak fairness of resolving, which is local; strong
fairness of starting an online dry run with nothing set, and of each step of
a download: an operator whose dry run failed starts it again, and a server or
a disk that fails for ever is not the code's to repair.  Failures and kills may
go on for ever in between.

**Fairness** (`report`, `dry_run`).  Weak fairness of the report's own steps and
of its goroutines, because each read has a timeout and either answers or fails;
nothing is assumed of the network, which may stand still or move.  Weak
fairness of `dryRun`'s own steps, of HTTP round trips and of time: the client's
requests time out, and `do`, `pollGraph` and `waitPort` have deadlines.  Nothing
is assumed of the server, which may be busy, silent or dead for ever.

**Findings.**  Three comments do not agree with the code.  `remove_member`:
nothing tells the preflight of `remove_nodes` in which subnets to look for the
node.  `retired_operator`: `ReconcileProviders` looks whether an operator is
retired before it looks whether its provider was asked, so no answer reads as
absence; the proof of `CleanIsTrue` did not go through until these operators
were left out.  `dry_run_status`: the dry run prints the proposal's status and
does not act on it.

Other comments hold in most cases only.  They have no run of their own; the
theorem or hazard named shows the extent of what holds.

* `cmd/alp/main.go:11-12`, `apply` refuses to resubmit: so for one process
  (`SoloNeverResubmits`); two that begin before either records both submit.
* `cmd/alp/main.go:717-718`, `reconcile` is read-only: so for one process
  (`SoloReconcileIsReadOnly`); with two, its save of verdicts writes back a
  stale copy of the proposals.
* `nns/state.go:21-22`, a terminal status never changes: so on mainnet
  (`RecordedOutcomeIsTrue`) for one process (`SoloSettledIsFinal`); the
  dashboard is asked about mainnet whatever network an entry is of.
* `nns/bootstrap.go:69-71`, explicit variables always win: not when the cache
  lacks a file for another variable, since `fetchAll` replaces all of them.
* `README.md:31` and `CHANGELOG.md:20`, `reconcile` checks every data center and
  operator: only when the inventory has a subnet, a provider or a node
  (`cmd/alp/main.go:570`), and operators only when it has a provider
  (`cmd/alp/main.go:623`).  `CheckedItems` says what a report covers.
* A node whose operator is a literal id without a block is flagged as gone
  though the registry agrees (`nns/reconcile_nodes.go:86`), since only declared
  operators are asked.  `ConfigsAssumption` leaves such inventories out.

## The proofs

| theorem | says | assumes |
|---|---|---|
| `AlpProofs!TypeCorrect` | `TypeOK` | the constants' assumptions |
| `RecordsAreSubmissions` | `RecordedWasSubmitted` | the same; any number of processes |
| `CachedLineIsComplete` | `SettledIsComplete` | the same |
| `RecordedOutcomeIsTrue` | `TerminalIsTrue` | `Hosts = {Mainnet}`; the dashboard's answer about another network would be recorded |
| `RecordedChipsAreGenuine` | `ChipsAreGenuine` | the same as the first |
| `SoloNeverResubmits` | `NoUnforcedResubmission` | one process; two submit both |
| `SoloSettledIsFinal` | `SettledIsFinal` | one process; a second one's stale save breaks it |
| `SoloReconcileIsReadOnly` | `ReconcileIsReadOnly` | one process, for the same reason |
| `SoloKeepsVouched` | `VouchedChipIsKept` | one process; a stale copy drops a chip recorded since |
| `SoloImplementsJournal` | `ImplementsJournal` | one process, `Hosts = {Mainnet}` |
| `ArtifactCacheProofs!TypeCorrect` | `ArtifactCache!TypeOK` | the constants' assumptions |
| `CacheIsPinned` | `CachedIsPinned` | the same; any number of processes and releases |
| `DryRunUsesPinned` | `UsesPinned` | the same |
| `NoNeedlessFetch` | `FetchesOnlyWhatIsMissing` | the same |
| `NoTempsLeft` | `ReturnsClean` | the same |
| `PreflightProofs!TypeCorrect` | `Preflight!TypeOK` | the constants' assumptions; any registry that keeps its invariants, any number of moves |
| `NoOpIsNoOp` | `NoOpChangesNothing` | the same |
| `CleanIsSafe` | `CleanTakesEffect` | the same |
| `RepeatIsFlagged` | `DoneIsFlagged` | the same |
| `DeployIsElected` | `SubmittedDeployIsElected` | the same |
| `CleanIsLoud` | `CleanFailsLoudly` | the same |
| `CleanIsTrue` | `CleanReportWasTrue` | `ConfigsAssumption`, `HistoriesAssumption`, `NoneAssumption`, `SlotsAssumption`; any inventory, history and number of slots |
| `DriftIsReal` | `DriftWasTrue` | the same |
| `NotedIsUnelected` | `UnelectedIsReal` | the same |
| `SyncListsElected` | `MissingRatherThanWrong` | `GuestosAssumption`; any window and history |
| `SyncLeavesAgreement` | `OkSyncAgrees` | the same |
| `AliasMovesInCatalogue` | `AliasIsCatalogued` | the same |
| `ReportProofs!TypeCorrect` | `Report!TypeOK` | as `CleanIsTrue` |
| `GuestosSyncProofs!TypeCorrect` | `GuestosSync!TypeOK` | as `SyncListsElected` |
| `DryRunProofs!TypeCorrect` | `DryRun!TypeOK` | `LocalRegistryAssumption`, `NoneAssumption`, `DryRunAssumption`; any proposal, any histories of mainnets that keep the registry's invariants |
| `SoundTargetsAreMirrored` | `SoundTargetIsMirrored` | the same |
| `BatchesAreAccepted` | `BatchIsAccepted` | the same |
| `OkIsResolved` | `OkMeansResolved` | the same |
| `CallsRunAtMostOnce` | `CallsRunOnce` | the same; nothing of the server |
| `ServerIsStopped` | `NoServerLeftBehind` | the same |

`TypeInv` is `TypeOK` with `JobOK`, the fact that the locals a save relies on
are set: without it the entry `ApplyRecord` writes need not have a type.

None of the invariants of the file is inductive alone, because a process may
save a copy made long ago.  Each is therefore strengthened to hold of every
copy (`Copies(n)`: the file's entry and each process's).  `EntryOrigins` says
once where an entry of a copy comes from after a step: it was in a copy before,
or it is the fresh entry of a submission or of an import, or it is an old entry
with an observation recorded in it.  `ChainKeeps` says what the network never
takes back: a proposal keeps its block and payload, and a terminal state.

* `ProvenanceInv` adds that a process about to record a submission holds the id
  of one (`SubmitAccepted` has just made it), and one about to import holds an
  id on the import list.
* `CompleteInv` is proved field by field from `RecordFields`, which computes
  what the three record functions make of an entry.
* `TruthInv` needs `CompleteInv`: an entry not yet terminal has no outcome, so
  the outcome it gets comes from the same observation as its terminal state.
* `SoloInv` says that a single process's copy is the file, except for unsettled
  entries during `status`, and that what `apply` and `import` checked still
  holds.  It needs `CompleteInv` too: an observation of a settled entry would
  otherwise still change its times.
* `KeptInv` says that the copy of a running command has every recorded chip AMD
  still vouches for: AMD's own product line never refuses such a chip
  (`RefusedIsNotVouched`), so no verdict of that run drops it.
* `BehindInv` says that no recorded status is ahead of its proposal: the
  network only moves forward (`StateAdvances`), so what is observed next is at
  least as far along as what is recorded.  `AdvanceInv` adds that the pages
  `status` holds are the file's, brought up to date; then its save is
  `Journal`'s `Observation`, the saves of `apply` and `import` are `Start`
  (`SoloInv`: the page is still open), and every other step is a stutter.

For the cache, the first three invariants rest on one another:

* `PinnedInv` adds to `CachedIsPinned` that a body that was handed on
  (`pc` past its download) is the pinned one, which is what a rename copies.
* `UseInv` adds to `UsesPinned` what `validate` has established so far: a file
  it has seen still exists, because no step removes a cached file
  (`CacheGrows`, `ExistsIsStable`) and each is pinned.
* `WarmInv` says that a process that began with all it needed there finds it at
  every stat, for the same reason, so it never leaves `validate` for `fetch`.
* `HoldsOnly` names, for each stage of a fetch, the temporary files its process
  may hold; at the end that is none.

For the preflight, the registry keeps its invariants whatever executes
(`RegNext`: a payload that would break one fails), and what was read is still so
as long as nothing moved:

* `ReadSoFar` says, per kind, how much of the answers is in, and that it is
  what the registry holds; `ReadInv` asks it of every state with no move of
  others since the command began, for each position in a loop over ids.  A move
  makes its hypothesis false and it is never true again in that command.
* `VerdictInv` ties the verdict to the answers: it is their `Grade`.
* One lemma per verdict, about a registry and the answers it gave, with no
  behaviour in it: `NoOpIsReal`, `CleanIsRight`, `DoneIsSeen`.
* `CleanFailsLoudly` speaks of stale answers, so none of this helps; it rests
  on `CleanIsDone`: a payload that succeeds leaves all it declares, in any
  registry, except a membership that both adds and removes a node and a data
  center that is too long, which are never graded clean whatever was read.

For the report, an item is right because an answer was, and an answer was right
at the moment it was read:

* `Frame` and `MomentsAreKept`: the moments of the report only grow, so what
  held at one of them stays so.
* `PoolInv`: a node is in the queue, at work or answered, never two of these,
  and no slot is lost.  Without it a record could be answered twice, differently.
* `AnswersInv`: every record, version, membership and list of owners in the
  report's maps was the network's at some moment, and nobody declared is left
  out of the lists once their step is over.
* One lemma per classifier and direction (`MemberDrift` and `MembersAgree`,
  ...): a row that is flagged contradicts an answer, a row that is not agrees
  with one.  They need no temporal reasoning, only `checkUnique`
  (`LoadedIsUnique`): a block is then determined by its id.
* `FlaggedInv` collects the first direction over the steps.  `CleanInv` the
  second: as long as nothing is flagged, each step passed found its items in
  agreement (`CoverInv`), each node still has a record to come (`StatusInv`),
  and a clean end is the end with nothing flagged (`EndInv`).

For the sync, `NnsInv` relates what is elected to the history: a version is
elected when some proposal elected it and none unelected it since, and there is
a last election of each.  The window is a suffix (`WindowIsSuffix`), so the
last election of a version is in it when any is.  `IInv` adds that what was
read stays what the replay gives, whatever executes later.

The types of `Report` and `GuestosSync` need counting.  `SlotsInv` says that
busy and free slots add up to `Slots`, so a slot that is given back was taken;
it rests on `PoolOnce`, since a task listed twice would be counted once.
`OneEach` says that the catalogue and the blocks of a sync list a version once,
so a sequence of them is no longer than there are versions (`AsManyVersions`).

For the dry run, `CallInv` says that a posted call has not run and a polled one
polls its own operation, which has run once if it resolved; `ServerInv` follows
the process from spawn to kill.  What it plants is computed by loops over keys:
the walk copies the keys of a root (`copyKeys`), the merge drops the fabricated
records mainnet has (`Kept`).  Both are recursive functions, and
`MirrorProofs` has the induction they need: `NatInductive` is induction on the
naturals stated of a set, from the well-foundedness of finite subsets, and
`Recursion` says that a loop of n rounds has the values its definition gives.

* `Copied` says that the output has one record for each key seen, with
  mainnet's value.  `Extends` is what copying a list of keys does; it fails only
  on a key mainnet does not have.
* `Progress` is what one root does to the walk.  `Closed` says that what a
  record seen refers to is seen or still a root (a member's record, a node's
  operator, its data center); no root is lost (`KeepsRoots`); and a walk whose
  roots mainnet has stays so (`AllPresent`), since mainnet keeps its references
  (`MainnetOK`).  There is a lemma for each kind of root: `SubnetStep`,
  `NodeStep`, `OperatorStep`, `VersionStep`.
* `Table` says that a batch has one mutation for each key.  The batch is a
  table of `Planted` (`BatchTable`): the copies, and the fabricated records
  whose key was not copied.  `Accepted` goes through the registry's checks on
  such a table, with a walk that is over and closed.
* `BasicsInv`, `MirrorInv` and `VerdictInv` carry this through the steps of the
  process.  `MirrorInv` ties the walk to the one version it is pinned to, so
  mainnet may move meanwhile; `VerdictInv` keeps the moment at which the
  providers were read, and that a submitted proposal passed on them.

Every invariant the passing runs check, and every action property, is stated by
a theorem.  Only model-checked: the liveness properties `StatusSettles`,
`CacheFills`, `Terminates` and `ReportEnds`, which are beyond the prover, and
the three properties the code violates.

## The plan

All components with state are modelled.  What would add most next:

1. Two syncs at once over the same two files.
2. An abstract specification of the artifact cache, a store of pinned files
   that only grows between purges, and its refinement.

## Not modelled

* Payload encoding, HCL decoding, label resolution, rendering and the remedy
  texts: pure data with golden tests.  That includes the references of
  `proposals.hcl` into the catalogue of `guestos.hcl`.
* Garbled answers of KDS (a proxy's page with status 200), and label collisions
  in generated HCL: listed as hazards, each with the reason.
* PocketIC's gateway and tick calls, which `alp` does not make.  Of the port
  file only the guard is modelled: a number without its newline is not a port.
* An interrupt during the dry run leaves the server to its own `--ttl`; the
  deferred `Close` does not run then.  `NoServerLeftBehind` is about returns.
* The classification of a neuron's hotkeys, a pure comparison; `list` and
  `registry`, single reads that print and keep nothing.
* The schema generator, key generation and the web site.
