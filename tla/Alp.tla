-------------------------------- MODULE Alp --------------------------------
(***************************************************************************)
(* The alp command line (cmd/alp/main.go, nns/submit.go): processes that   *)
(* run apply, import, status and reconcile against one state.json and the  *)
(* network.  Each command loads the whole file, works on its copy, often   *)
(* for minutes, and saves the whole copy.  There is no lock on the file.   *)
(* SaveState renames a finished temporary file into place, so a save is    *)
(* one step, and a process that dies before it leaves the file alone.      *)
(***************************************************************************)
EXTENDS Governance, Chips

CONSTANTS
  Procs,      \* operating-system processes running alp, one command at a time
  Commands,   \* the commands the operators use
  MaxLate     \* bound: calls given up on and still in the network

ASSUME ProcsAssumption == Procs # {}
ASSUME CommandsAssumption ==
  Commands \subseteq {"apply", "import", "status", "reconcile"}
ASSUME MaxLateAssumption == MaxLate \in Nat

VARIABLES
  file,      \* the proposals of state.json
  chips,     \* the chips of state.json
  mem,       \* mem[p]: the proposals of p's copy
  memChips,  \* memChips[p]: the chips of p's copy
  pc,        \* where each process is in its command
  job,       \* job[p]: the command's arguments and progress
  imports,   \* history: <<name, id>> pairs the operators asked to import
  vouched    \* the chips AMD vouches for

fileVars == <<file, chips>>
procVars == <<mem, memChips, pc, job>>
netVars == <<chain, late>>
vars == <<file, chips, mem, memChips, pc, job, imports, vouched, chain, late>>

\* All the locals of the four commands; each uses the fields it needs.
Job == [name : Names \union {Others}, hash : Payloads, host : Hosts,
        force : BOOLEAN, pid : Pids \union {0},
        names : SUBSET Names, todo : SUBSET ChipIds,
        refresh : BOOLEAN, changed : BOOLEAN]

NoJob == [name |-> Others, hash |-> NoProposal.hash, host |-> Mainnet,
          force |-> FALSE, pid |-> 0, names |-> {}, todo |-> {},
          refresh |-> FALSE, changed |-> FALSE]

NoMap == [n \in Names |-> NoEntry]

PcState == {"idle", "gates", "recording", "importing", "status", "reconcile"}

Init ==
  /\ file \in [Names -> {NoEntry, Placeholder(NoProposal.hash)}]
  /\ chips = {}
  /\ mem = [p \in Procs |-> NoMap]
  /\ memChips = [p \in Procs |-> {}]
  /\ pc = [p \in Procs |-> "idle"]
  /\ job = [p \in Procs |-> NoJob]
  /\ imports = {}
  /\ vouched = Genuine
  /\ GovernanceInit

-----------------------------------------------------------------------------
(* What every command does with the file. *)

\* LoadState, and the rest of the command ahead at label l with locals j.
Begin(p, l, j) ==
  /\ pc[p] = "idle"
  /\ pc' = [pc EXCEPT ![p] = l]
  /\ job' = [job EXCEPT ![p] = j]
  /\ mem' = [mem EXCEPT ![p] = file]
  /\ memChips' = [memChips EXCEPT ![p] = chips]

\* The process exits; its copy goes with it.
End(p) ==
  /\ pc' = [pc EXCEPT ![p] = "idle"]
  /\ job' = [job EXCEPT ![p] = NoJob]
  /\ mem' = [mem EXCEPT ![p] = NoMap]
  /\ memChips' = [memChips EXCEPT ![p] = {}]

\* SaveState: the file becomes the whole of p's copy, its proposals being ps.
SaveState(p, ps) ==
  /\ file' = ps
  /\ chips' = memChips[p]

(***************************************************************************)
(* The process ends without saving: SaveState fails, or it is killed.      *)
(***************************************************************************)
Crash(p) ==
  /\ pc[p] \in {"recording", "importing", "status", "reconcile"}
  /\ End(p)
  /\ UNCHANGED <<fileVars, netVars, imports, vouched>>

-----------------------------------------------------------------------------
(* apply <name> *)

\* The block's payload hash and the flags are read, then the file; the other
\* two verdicts of ApplyDecision end the command with nothing changed.
ApplyStart(p, n, hash, h, force) ==
  /\ "apply" \in Commands
  /\ ApplyDecision(file, n, hash, force) = "proceed"
  /\ Begin(p, "gates", [NoJob EXCEPT !.name = n, !.hash = hash,
                                     !.host = h, !.force = force])
  /\ UNCHANGED <<fileVars, netVars, imports, vouched>>

(***************************************************************************)
(* The dry run, the neuron-access check or the preflight fails, --yes was  *)
(* not given, the operator does not confirm, governance rejects the call,  *)
(* or the process is killed before it sends it.                            *)
(***************************************************************************)
ApplyStops(p) ==
  /\ pc[p] = "gates"
  /\ End(p)
  /\ UNCHANGED <<fileVars, netVars, imports, vouched>>

ApplyCall(p) == [host |-> job[p].host, name |-> job[p].name,
                 hash |-> job[p].hash,
                 unguarded |-> Submitted(file, job[p].name)
                               /\ ~job[p].force]

\* manage_neuron executes and the new proposal id comes back.
SubmitAccepted(p) ==
  /\ pc[p] = "gates"
  /\ \E i \in Pids :
       /\ Execute(ApplyCall(p), i)
       /\ job' = [job EXCEPT ![p].pid = i]
  /\ pc' = [pc EXCEPT ![p] = "recording"]
  /\ UNCHANGED <<fileVars, mem, memChips, imports, vouched, late>>

(***************************************************************************)
(* The call is sent and no answer comes back: it times out, or the process *)
(* is killed while it waits.  Submit returns an error, nothing is recorded *)
(* and the call may execute later.                                         *)
(***************************************************************************)
SubmitTimesOut(p) ==
  /\ pc[p] = "gates"
  /\ Cardinality(late) < MaxLate
  /\ late' = late \union {ApplyCall(p)}
  /\ End(p)
  /\ UNCHANGED <<fileVars, imports, vouched, chain>>

\* The entry goes into the copy loaded at the start, and the copy is saved.
ApplyRecord(p) ==
  /\ pc[p] = "recording"
  /\ SaveState(p, RecordSubmission(mem[p], job[p].name, job[p].pid,
                                   job[p].hash, job[p].host))
  /\ End(p)
  /\ UNCHANGED <<netVars, imports, vouched>>

-----------------------------------------------------------------------------
(* import <name> <proposal_id>: the id is not checked against the network. *)

ImportStart(p, n, i, hash, h) ==
  /\ "import" \in Commands
  /\ CanImport(file, n, i)
  /\ Begin(p, "importing", [NoJob EXCEPT !.name = n, !.hash = hash,
                                         !.host = h, !.pid = i])
  /\ imports' = imports \union {<<n, i>>}
  /\ UNCHANGED <<fileVars, netVars, vouched>>

ImportSave(p) ==
  /\ pc[p] = "importing"
  /\ SaveState(p, Import(mem[p], job[p].name, job[p].pid,
                         job[p].hash, job[p].host))
  /\ End(p)
  /\ UNCHANGED <<netVars, imports, vouched>>

-----------------------------------------------------------------------------
(* status [--refresh] [--no-record], for the blocks now in proposals.hcl *)

StatusStart(p, names, h, refresh) ==
  /\ "status" \in Commands
  /\ Begin(p, "status", [NoJob EXCEPT !.names = names, !.host = h,
                                      !.refresh = refresh])
  /\ UNCHANGED <<fileVars, netVars, imports, vouched>>

StatusVisits(p, n) ==
  /\ pc[p] = "status"
  /\ n \in job[p].names

NeedsQuery(p, n) ==
  /\ Submitted(mem[p], n)
  /\ HasSettledStatus(mem[p][n]) => job[p].refresh

\* Nothing submitted, a settled entry, a failed query, or an id nobody knows.
StatusPasses(p, n) ==
  /\ StatusVisits(p, n)
  /\ job' = [job EXCEPT ![p].names = @ \ {n}]
  /\ UNCHANGED <<fileVars, mem, memChips, pc, netVars, imports, vouched>>

StatusObserves(p, n) ==
  /\ StatusVisits(p, n)
  /\ NeedsQuery(p, n)
  /\ \E o \in FetchProposalStatus(job[p].host, mem[p][n].pid) :
       /\ mem' = [mem EXCEPT ![p] = Record(mem[p], n, o)]
       /\ job' = [job EXCEPT ![p].names = @ \ {n},
                             ![p].changed = @ \/ mem'[p] # mem[p]]
  /\ UNCHANGED <<fileVars, memChips, pc, netVars, imports, vouched>>

\* Mutant: what was observed is merged by name into the file as it is now.
StatusSaveMerges(p) ==
  /\ pc[p] = "status"
  /\ job[p].names = {}
  /\ job[p].changed
  /\ SaveState(p, [n \in Names |->
       IF Submitted(file, n) /\ Submitted(mem[p], n)
       THEN [mem[p][n] EXCEPT !.pid = file[n].pid, !.hash = file[n].hash]
       ELSE file[n]])
  /\ End(p)
  /\ UNCHANGED <<netVars, imports, vouched>>

StatusSave(p) ==
  /\ pc[p] = "status"
  /\ job[p].names = {}
  /\ job[p].changed
  /\ SaveState(p, mem[p])
  /\ End(p)
  /\ UNCHANGED <<netVars, imports, vouched>>

\* Nothing changed, or --no-record.
StatusEnd(p) ==
  /\ pc[p] = "status"
  /\ job[p].names = {}
  /\ End(p)
  /\ UNCHANGED <<fileVars, netVars, imports, vouched>>

-----------------------------------------------------------------------------
(* reconcile [--refresh-chips]: the part that touches state.json *)

ReconcileStart(p, cs, refresh) ==
  /\ "reconcile" \in Commands
  /\ cs # {}
  /\ Begin(p, "reconcile", [NoJob EXCEPT !.todo = cs, !.refresh = refresh])
  /\ UNCHANGED <<fileVars, netVars, imports, vouched>>

ReconcileVerify(p, c) ==
  /\ pc[p] = "reconcile"
  /\ c \in job[p].todo
  /\ NeedsLookup(c, memChips[p], job[p].refresh)
  /\ \E a \in KdsAnswers(c, vouched) :
       LET v == FetchChipVerification(a)
       IN /\ memChips' = [memChips EXCEPT ![p] =
                            RecordVerdict(c, @, v, job[p].refresh)]
          /\ job' = [job EXCEPT ![p].todo = @ \ {c},
                                ![p].changed = @ \/
               VerdictChanges(c, memChips[p], v, job[p].refresh)]
  /\ UNCHANGED <<fileVars, mem, pc, netVars, imports, vouched>>

ReconcileCached(p, c) ==
  /\ pc[p] = "reconcile"
  /\ c \in job[p].todo
  /\ ~NeedsLookup(c, memChips[p], job[p].refresh)
  /\ job' = [job EXCEPT ![p].todo = @ \ {c}]
  /\ UNCHANGED <<fileVars, mem, memChips, pc, netVars, imports, vouched>>

\* Mutant: the verdicts are saved in a State of their own.
ReconcileEndSavesChipsOnly(p) ==
  /\ pc[p] = "reconcile"
  /\ job[p].todo = {}
  /\ IF job[p].changed THEN SaveState(p, NoMap) ELSE UNCHANGED fileVars
  /\ End(p)
  /\ UNCHANGED <<netVars, imports, vouched>>

\* A failed save is only a warning: it is Crash, with another exit code.
ReconcileEnd(p) ==
  /\ pc[p] = "reconcile"
  /\ job[p].todo = {}
  /\ IF job[p].changed THEN SaveState(p, mem[p]) ELSE UNCHANGED fileVars
  /\ End(p)
  /\ UNCHANGED <<netVars, imports, vouched>>

-----------------------------------------------------------------------------
\* AMD stops vouching for a chip.
Revoke(c) ==
  /\ c \in vouched
  /\ vouched' = vouched \ {c}
  /\ UNCHANGED <<fileVars, procVars, netVars, imports>>

Network ==
  /\ GovernanceStep
  /\ UNCHANGED <<fileVars, procVars, imports, vouched>>

Apply(p) ==
  \/ \E n \in Names, hash \in Payloads, h \in Hosts, force \in BOOLEAN :
       ApplyStart(p, n, hash, h, force)
  \/ ApplyStops(p)
  \/ SubmitAccepted(p)
  \/ SubmitTimesOut(p)
  \/ ApplyRecord(p)

ImportCmd(p) ==
  \/ \E n \in Names, i \in Pids, hash \in Payloads, h \in Hosts :
       ImportStart(p, n, i, hash, h)
  \/ ImportSave(p)

Status(p) ==
  \/ \E names \in SUBSET Names, h \in Hosts, refresh \in BOOLEAN :
       StatusStart(p, names, h, refresh)
  \/ \E n \in Names : StatusPasses(p, n) \/ StatusObserves(p, n)
  \/ StatusSave(p)
  \/ StatusEnd(p)

Reconcile(p) ==
  \/ \E cs \in SUBSET ChipIds, refresh \in BOOLEAN :
       ReconcileStart(p, cs, refresh)
  \/ \E c \in ChipIds : ReconcileVerify(p, c) \/ ReconcileCached(p, c)
  \/ ReconcileEnd(p)

Next ==
  \/ \E p \in Procs : Apply(p) \/ ImportCmd(p) \/ Status(p) \/ Reconcile(p)
                      \/ Crash(p)
  \/ \E c \in ChipIds : Revoke(c)
  \/ Network

Spec == Init /\ [][Next]_vars

-----------------------------------------------------------------------------
(***************************************************************************)
(* Fairness.  Voting periods end and adopted payloads run.  A command that *)
(* has started gets on with it, every query and every gate having a        *)
(* timeout.  The operators keep running status, an endless series of runs  *)
(* does not fail for ever to read a given settled proposal, and does not   *)
(* for ever omit to save what changed.                                     *)
(***************************************************************************)
Progress(p) ==
  /\ pc[p] # "idle"
  /\ Apply(p) \/ ImportCmd(p) \/ Status(p) \/ Reconcile(p)

StatusRound(p) == StatusStart(p, Names, Mainnet, FALSE)

StatusLearns(p, n) ==
  StatusObserves(p, n) /\ Terminal(mem'[p][n].status)

VotingEnds(i) == Network /\ (Decide(Mainnet, i) \/ Conclude(Mainnet, i))

Fairness ==
  /\ \A i \in Pids : WF_vars(VotingEnds(i))
  /\ \A p \in Procs :
       /\ WF_vars(Progress(p))
       /\ SF_vars(StatusRound(p))
       /\ \A n \in Names : SF_vars(StatusLearns(p, n))
       /\ SF_vars(StatusSave(p))

FairSpec == Spec /\ Fairness

-----------------------------------------------------------------------------
(* Properties. *)

\* Every variable holds values of its type.
TypeOK ==
  /\ file \in ProposalMap
  /\ chips \subseteq ChipIds
  /\ mem \in [Procs -> ProposalMap]
  /\ memChips \in [Procs -> SUBSET ChipIds]
  /\ pc \in [Procs -> PcState]
  /\ job \in [Procs -> Job]
  /\ imports \subseteq Names \X Pids
  /\ vouched \subseteq Genuine
  /\ GovernanceTypeOK

\* The locals a command relies on are set (strengthens TypeOK).
JobOK ==
  \A p \in Procs :
    /\ pc[p] \in {"gates", "recording", "importing"} => job[p].name \in Names
    /\ pc[p] \in {"recording", "importing"} => job[p].pid \in Pids

\* Proposal e.pid of e.host was submitted from block n with e's payload.
SubmittedFrom(n, e) ==
  /\ Exists(e.host, e.pid)
  /\ chain[e.host][e.pid].name = n
  /\ chain[e.host][e.pid].hash = e.hash

(***************************************************************************)
(* State is never written for a submission that did not happen             *)
(* (SubmitAndRecord): unless the operator imported the id for that block,  *)
(* a recorded id is a proposal that was submitted from the block, with the *)
(* payload the record gives.  Whatever the number of processes, and        *)
(* whichever of them crash, time out or save a stale copy.                 *)
(***************************************************************************)
RecordedWasSubmitted ==
  \A n \in Names : Submitted(file, n) =>
    \/ <<n, file[n].pid>> \in imports
    \/ SubmittedFrom(n, file[n])

\* What the file and the copies of the processes hold for block n.
Copies(n) == {file[n]} \union {mem[p][n] : p \in Procs}

(***************************************************************************)
(* RecordedWasSubmitted strengthened to be inductive: it holds of every    *)
(* copy a process may yet save, and a process about to record a submission *)
(* or an import holds the id of one.                                       *)
(***************************************************************************)
ProvenanceInv ==
  /\ \A n \in Names : \A e \in Copies(n) :
       e # NoEntry /\ e.pid # 0 =>
         <<n, e.pid>> \in imports \/ SubmittedFrom(n, e)
  /\ \A p \in Procs :
       /\ pc[p] = "recording" => SubmittedFrom(job[p].name, job[p])
       /\ pc[p] = "importing" => <<job[p].name, job[p].pid>> \in imports

(***************************************************************************)
(* A terminal status on record is what the proposal became on the network  *)
(* it was submitted to, and the outcome kept with it is that proposal's    *)
(* (RecordState, RecordOutcome, FetchProposalStatus).  A wrong terminal    *)
(* status would stand for ever: status reports it without a query, and     *)
(* apply refuses the name even with --force.                               *)
(***************************************************************************)
TerminalIsTrue ==
  \A n \in Names : Settled(file, n) =>
    /\ file[n].status = chain[file[n].host][file[n].pid].state
    /\ file[n].outcome.label = file[n].status
    /\ file[n].outcome.of = <<file[n].host, file[n].pid>>

(***************************************************************************)
(* The cached line of a settled entry lacks nothing a query would give:    *)
(* the entry has an outcome exactly when it is terminal, and then holds    *)
(* the chain's own submission and resolution times (SettledStatus).        *)
(***************************************************************************)
SettledIsComplete ==
  \A n \in Names : Submitted(file, n) =>
    /\ Terminal(file[n].status) <=> HasSettledStatus(file[n])
    /\ file[n].outcome # NoOutcome =>
         /\ HasSettledStatus(file[n])
         /\ file[n].at = "chain"
         /\ file[n].resolvedAt = "chain"

(***************************************************************************)
(* A call sent while state.json records a submission for the block was     *)
(* sent with --force: the guard is evaluated on the file loaded at the     *)
(* start of apply, and must still hold when the call leaves, after the     *)
(* dry run, the access check and the preflight (ApplyDecision, apply).     *)
(***************************************************************************)
NoUnforcedResubmission ==
  /\ \A h \in Hosts, i \in Pids : ~chain[h][i].unguarded
  /\ \A c \in late : ~c.unguarded

(***************************************************************************)
(* Once state.json holds a terminal state nothing about the entry ever     *)
(* changes: the write is monotonic (RecordState, status, ApplyDecision).   *)
(***************************************************************************)
SettledIsFinal ==
  [][\A n \in Names : Settled(file, n) => file'[n] = file[n]]_vars

(***************************************************************************)
(* reconcile is a read-only report as far as proposals are concerned: the  *)
(* save of its chip verdicts leaves the record of submissions alone.       *)
(***************************************************************************)
ReconcileIsReadOnly ==
  [][\A p \in Procs :
       pc[p] = "reconcile" /\ pc'[p] = "idle" => file' = file]_vars

\* state.json is a faithful journal (see Journal) of what was submitted.
JournalOf == INSTANCE Journal
  WITH journal <- [n \in Names |-> IF Submitted(file, n) THEN file[n]
                                   ELSE NoEntry]

ImplementsJournal == JournalOf!JournalSpec

(***************************************************************************)
(* Only silicon AMD made is ever recorded as verified, however the product *)
(* lines answer and whatever copies are saved (verifyChips, VerifyChip).   *)
(***************************************************************************)
ChipsAreGenuine == chips \subseteq Genuine

(***************************************************************************)
(* A chip AMD still vouches for is never dropped from the record: a rate   *)
(* limit on one product line is not evidence against the chip, though the  *)
(* other lines refuse it (FetchChipVerification, RefreshChips).            *)
(***************************************************************************)
VouchedChipIsKept ==
  [][\A c \in chips \intersect vouched : c \in chips']_vars

(***************************************************************************)
(* A recorded proposal that exists on the network ends up recorded as      *)
(* settled, whatever crashes, failed queries and purges come in between.   *)
(***************************************************************************)
StatusSettles ==
  \A n \in Names :
    (Submitted(file, n) /\ Exists(Mainnet, file[n].pid)) ~> Settled(file, n)
=============================================================================
