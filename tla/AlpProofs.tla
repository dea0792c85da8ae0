----------------------------- MODULE AlpProofs -----------------------------
(***************************************************************************)
(* What state.json can say, whatever the processes do to it: the safety    *)
(* theorems of Alp, for any number of processes, blocks and proposals.     *)
(*                                                                         *)
(* Copies of the file travel between state.json and the processes, so an   *)
(* invariant of the file must hold of every copy.  Lemma EntryOrigins says *)
(* once where an entry of a copy comes from; each theorem then only looks  *)
(* at the three ways an entry is made.                                     *)
(***************************************************************************)
EXTENDS Alp, TLAPS

-----------------------------------------------------------------------------
(* Lemmas about the operators on proposals maps. *)

LEMMA NoProposalType == NoProposal \in Proposal /\ NoProposal.hash \in Payloads
<1>1. (CHOOSE p \in Payloads : TRUE) \in Payloads
  BY PayloadsAssumption
<1> QED
  BY <1>1 DEF NoProposal, Proposal

LEMMA NoJobType == NoJob \in Job
  BY NoProposalType, HostsAssumption DEF NoJob, Job

LEMMA FreshEntryType ==
  ASSUME NEW pid \in Pids \union {0}, NEW hash \in Payloads,
         NEW h \in Hosts, NEW at \in {"", "local", "chain"}
  PROVE  FreshEntry(pid, hash, h, at) \in Entry
  BY DEF FreshEntry, Entry, ProposalState

LEMMA NoMapType == NoMap \in ProposalMap
  BY DEF NoMap, ProposalMap

LEMMA WriteType ==
  ASSUME NEW ps \in ProposalMap, NEW n \in Names, NEW e \in Entry
  PROVE  [ps EXCEPT ![n] = e] \in ProposalMap
  BY DEF ProposalMap

LEMMA ObserveType ==
  ASSUME NEW src \in Source, NEW h \in Hosts, NEW i \in Pids,
         NEW s \in ProposalState
  PROVE  Observe(src, h, i, s) \in Observation
  BY DEF Observe, Observation, Terminal

\* An observation of the network is well typed.
LEMMA ObservationType ==
  ASSUME GovernanceTypeOK, NEW h \in Hosts, NEW i \in Pids,
         NEW o \in FetchProposalStatus(h, i)
  PROVE  o \in Observation
<1>1. ASSUME NEW g \in Hosts, Exists(g, i)
      PROVE  chain[g][i].state \in ProposalState
  <2>1. chain[g][i] \in Proposal
    BY DEF GovernanceTypeOK
  <2> QED
    BY <2>1, <1>1 DEF Proposal, Exists, ProposalState
<1>2. CASE Exists(h, i) /\ ~chain[h][i].purged
  <2>1. o = Observe("governance", h, i, chain[h][i].state)
    BY <1>2 DEF FetchProposalStatus
  <2> QED
    BY <2>1, <1>1, <1>2, ObserveType DEF Source
<1>3. CASE ~(Exists(h, i) /\ ~chain[h][i].purged)
  <2>1. PICK s \in {chain[Mainnet][i].state, ""} :
          Exists(Mainnet, i) /\ o = Observe("dashboard", Mainnet, i, s)
    BY <1>3 DEF FetchProposalStatus
  <2>2. s \in ProposalState
    BY <2>1, <1>1, HostsAssumption DEF ProposalState
  <2> QED
    BY <2>1, <2>2, ObserveType, HostsAssumption DEF Source
<1> QED
  BY <1>2, <1>3

\* One field of one entry is rewritten.
LEMMA EntryUpdate ==
  ASSUME NEW e \in Entry
  PROVE  /\ \A v \in ProposalState, r \in {"", "chain"} :
              [e EXCEPT !.status = v, !.resolvedAt = r] \in Entry
         /\ \A v \in {"", "local", "chain"} : [e EXCEPT !.at = v] \in Entry
         /\ \A v \in Outcome \union {NoOutcome} :
              [e EXCEPT !.outcome = v] \in Entry
  BY DEF Entry

LEMMA RecordType ==
  ASSUME NEW ps \in ProposalMap, NEW n \in Names, NEW o \in Observation
  PROVE  Record(ps, n, o) \in ProposalMap
<1>1. ASSUME NEW qs \in ProposalMap
      PROVE  RecordState(qs, n, o) \in ProposalMap
  <2>1. CASE RecordState(qs, n, o) = qs
    BY <2>1
  <2>2. CASE RecordState(qs, n, o) # qs
    <3>1. qs[n] \in Entry
      BY <2>2 DEF RecordState, ProposalMap
    <3> DEFINE r == IF Terminal(o.state) THEN o.resolvedAt ELSE qs[n].resolvedAt
    <3>2. r \in {"", "chain"} /\ o.state \in ProposalState
      BY <3>1 DEF Entry, Observation
    <3>3. RecordState(qs, n, o) =
            [qs EXCEPT ![n] = [qs[n] EXCEPT !.status = o.state, !.resolvedAt = r]]
      BY <2>2, <3>1 DEF RecordState, ProposalMap, Entry
    <3> HIDE DEF r
    <3>4. [qs[n] EXCEPT !.status = o.state, !.resolvedAt = r] \in Entry
      BY <3>1, <3>2, EntryUpdate
    <3> QED
      BY <3>3, <3>4, WriteType
  <2> QED
    BY <2>1, <2>2
<1>2. ASSUME NEW qs \in ProposalMap
      PROVE  RecordSubmittedAt(qs, n, o) \in ProposalMap
  <2>1. CASE qs[n] \in Entry
    <3>1. o.at \in {"", "local", "chain"}
      BY DEF Observation
    <3>2. [qs[n] EXCEPT !.at = o.at] \in Entry
      BY <2>1, <3>1, EntryUpdate
    <3> QED
      BY <3>2, WriteType DEF RecordSubmittedAt
  <2> QED
    BY <2>1 DEF RecordSubmittedAt, ProposalMap
<1>3. ASSUME NEW qs \in ProposalMap
      PROVE  RecordOutcome(qs, n, o) \in ProposalMap
  <2> DEFINE out == [label |-> o.state, source |-> o.source, of |-> o.of]
  <2>1. CASE qs[n] \in Entry /\ Terminal(o.state)
    <3>1. out \in Outcome
      BY <2>1 DEF Observation, Outcome, Terminal
    <3>2. [qs[n] EXCEPT !.outcome = out] \in Entry
      BY <2>1, <3>1, EntryUpdate
    <3> QED
      BY <3>2, WriteType DEF RecordOutcome
  <2> QED
    BY <2>1 DEF RecordOutcome, ProposalMap
<1> QED
  BY <1>1, <1>2, <1>3 DEF Record

-----------------------------------------------------------------------------
(* Type correctness, one lemma per kind of step. *)

LEMMA EndType ==
  ASSUME TypeOK, NEW p \in Procs, End(p)
  PROVE  /\ pc' \in [Procs -> PcState]
         /\ job' \in [Procs -> Job]
         /\ mem' \in [Procs -> ProposalMap]
         /\ memChips' \in [Procs -> SUBSET ChipIds]
  BY NoJobType, NoMapType DEF TypeOK, End, PcState

LEMMA BeginType ==
  ASSUME TypeOK, NEW p \in Procs, NEW l \in PcState, NEW j \in Job,
         Begin(p, l, j)
  PROVE  /\ pc' \in [Procs -> PcState]
         /\ job' \in [Procs -> Job]
         /\ mem' \in [Procs -> ProposalMap]
         /\ memChips' \in [Procs -> SUBSET ChipIds]
  BY DEF TypeOK, Begin

\* A job record with the arguments of a command filled in is a job.
LEMMA JobArguments ==
  /\ \A n \in Names, hash \in Payloads, h \in Hosts, force \in BOOLEAN :
       [NoJob EXCEPT !.name = n, !.hash = hash, !.host = h,
                     !.force = force] \in Job
  /\ \A n \in Names, i \in Pids, hash \in Payloads, h \in Hosts :
       [NoJob EXCEPT !.name = n, !.hash = hash, !.host = h, !.pid = i] \in Job
  /\ \A names \in SUBSET Names, h \in Hosts, refresh \in BOOLEAN :
       [NoJob EXCEPT !.names = names, !.host = h, !.refresh = refresh] \in Job
  /\ \A cs \in SUBSET ChipIds, refresh \in BOOLEAN :
       [NoJob EXCEPT !.todo = cs, !.refresh = refresh] \in Job
  BY NoJobType DEF Job

LEMMA NewProposalType ==
  ASSUME GovernanceTypeOK, NEW c \in Call, NEW i \in Pids, Execute(c, i)
  PROVE  chain' \in [Hosts -> [Pids -> Proposal]]
<1> DEFINE q == [state |-> "open", purged |-> FALSE, name |-> c.name,
                 hash |-> c.hash, unguarded |-> c.unguarded]
<1>1. q \in Proposal /\ c.host \in Hosts
  BY DEF Call, Proposal, LiveStates
<1>2. chain' = [chain EXCEPT ![c.host][i] = q]
  BY DEF Execute
<1> HIDE DEF q
<1> QED
  BY <1>1, <1>2 DEF GovernanceTypeOK

LEMMA SetStateType ==
  ASSUME GovernanceTypeOK, NEW h \in Hosts, NEW i \in Pids,
         NEW s \in LiveStates \union TerminalStates, SetState(h, i, s)
  PROVE  chain' \in [Hosts -> [Pids -> Proposal]]
<1>1. chain[h][i] \in Proposal
  BY DEF GovernanceTypeOK
<1>2. [chain[h][i] EXCEPT !.state = s] \in Proposal
  BY <1>1 DEF Proposal
<1>3. chain' = [chain EXCEPT ![h][i] = [chain[h][i] EXCEPT !.state = s]]
  BY DEF SetState, GovernanceTypeOK
<1> QED
  BY <1>2, <1>3 DEF GovernanceTypeOK

LEMMA GovernanceStepType ==
  ASSUME GovernanceTypeOK, GovernanceStep
  PROVE  GovernanceTypeOK'
<1>1. ASSUME NEW h \in Hosts, NEW i \in Pids, Decide(h, i)
      PROVE  GovernanceTypeOK'
  <2>1. PICK s \in {"adopted", "rejected"} : SetState(h, i, s)
    BY <1>1 DEF Decide
  <2> QED
    BY <1>1, <2>1, SetStateType DEF Decide, GovernanceTypeOK, LiveStates, TerminalStates
<1>2. ASSUME NEW h \in Hosts, NEW i \in Pids, Conclude(h, i)
      PROVE  GovernanceTypeOK'
  <2>1. PICK s \in {"executed", "failed"} : SetState(h, i, s)
    BY <1>2 DEF Conclude
  <2> QED
    BY <1>2, <2>1, SetStateType DEF Conclude, GovernanceTypeOK, LiveStates, TerminalStates
<1>3. ASSUME NEW h \in Hosts, NEW i \in Pids, Purge(h, i)
      PROVE  GovernanceTypeOK'
  <2>1. chain[h][i] \in Proposal
    BY DEF GovernanceTypeOK
  <2>2. [chain[h][i] EXCEPT !.purged = TRUE] \in Proposal
    BY <2>1 DEF Proposal
  <2>3. chain' = [chain EXCEPT ![h][i] = [chain[h][i] EXCEPT !.purged = TRUE]]
    BY <1>3 DEF Purge, GovernanceTypeOK
  <2> QED
    BY <1>3, <2>2, <2>3 DEF Purge, GovernanceTypeOK
<1>4. ASSUME NEW h \in Hosts, NEW i \in Pids, OthersPropose(h, i)
      PROVE  GovernanceTypeOK'
  BY <1>4, SetStateType DEF OthersPropose, GovernanceTypeOK, LiveStates
<1>5. ASSUME NEW c \in late, LateExecute(c)
      PROVE  GovernanceTypeOK'
  <2>1. c \in Call
    BY DEF GovernanceTypeOK
  <2> QED
    BY <1>5, <2>1, NewProposalType DEF LateExecute, GovernanceTypeOK
<1>6. ASSUME NEW c \in late, LateExpire(c)
      PROVE  GovernanceTypeOK'
  BY <1>6 DEF LateExpire, GovernanceTypeOK
<1> QED
  BY <1>1, <1>2, <1>3, <1>4, <1>5, <1>6 DEF GovernanceStep

LEMMA ApplyCallType ==
  ASSUME TypeOK, NEW p \in Procs, job[p].name \in Names
  PROVE  ApplyCall(p) \in Call
<1>1. job[p] \in Job
  BY DEF TypeOK
<1>2. job[p].host \in Hosts /\ job[p].hash \in Payloads
  BY <1>1 DEF Job
<1> QED
  BY <1>2 DEF ApplyCall, Call

LEMMA SaveType ==
  ASSUME TypeOK, NEW p \in Procs, NEW ps \in ProposalMap, SaveState(p, ps)
  PROVE  file' \in ProposalMap /\ chips' \subseteq ChipIds
  BY DEF TypeOK, SaveState

\* Only the job of process p changes, and its name and id do not.
LEMMA JobStepType ==
  ASSUME TypeOK, NEW p \in Procs, NEW j \in Job,
         job' = [job EXCEPT ![p] = j]
  PROVE  job' \in [Procs -> Job]
  BY DEF TypeOK

TypeInv == TypeOK /\ JobOK

LEMMA InitType == Init => TypeInv
<1> SUFFICES ASSUME Init PROVE TypeInv
  OBVIOUS
<1>1. file \in ProposalMap
  <2>1. Placeholder(NoProposal.hash) \in Entry
    BY NoProposalType, HostsAssumption, FreshEntryType DEF Placeholder
  <2> QED
    BY <2>1 DEF Init, ProposalMap
<1>2. GovernanceTypeOK
  BY NoProposalType DEF Init, GovernanceInit, GovernanceTypeOK
<1>3. TypeOK
  BY <1>1, <1>2, NoMapType, NoJobType DEF Init, TypeOK, PcState
<1>4. JobOK
  BY DEF Init, JobOK
<1> QED
  BY <1>3, <1>4 DEF TypeInv

\* The step of process p leaves the other processes' locals alone.
LEMMA JobOKStep ==
  ASSUME TypeInv, NEW p \in Procs,
         \A q \in Procs \ {p} : pc'[q] = pc[q] /\ job'[q] = job[q],
         pc'[p] \in {"gates", "recording", "importing"} => job'[p].name \in Names,
         pc'[p] \in {"recording", "importing"} => job'[p].pid \in Pids
  PROVE  JobOK'
  BY DEF TypeInv, JobOK

LEMMA EndKeepsJobOK ==
  ASSUME TypeInv, NEW p \in Procs, End(p)
  PROVE  JobOK'
<1>1. pc'[p] = "idle" /\ \A q \in Procs \ {p} : pc'[q] = pc[q] /\ job'[q] = job[q]
  BY DEF End, TypeInv, TypeOK
<1> QED
  BY <1>1, JobOKStep

LEMMA BeginKeepsJobOK ==
  ASSUME TypeInv, NEW p \in Procs, NEW l \in PcState, NEW j \in Job,
         Begin(p, l, j),
         l \in {"gates", "recording", "importing"} => j.name \in Names,
         l \in {"recording", "importing"} => j.pid \in Pids
  PROVE  JobOK'
<1>1. /\ pc'[p] = l /\ job'[p] = j
      /\ \A q \in Procs \ {p} : pc'[q] = pc[q] /\ job'[q] = job[q]
  BY DEF Begin, TypeInv, TypeOK
<1> QED
  BY <1>1, JobOKStep

LEMMA ApplyType ==
  ASSUME TypeInv, NEW p \in Procs, Apply(p)
  PROVE  TypeInv'
<1> USE DEF TypeInv
<1>1. ASSUME NEW n \in Names, NEW hash \in Payloads, NEW h \in Hosts,
             NEW force \in BOOLEAN, ApplyStart(p, n, hash, h, force)
      PROVE  TypeInv'
  <2> DEFINE j == [NoJob EXCEPT !.name = n, !.hash = hash, !.host = h,
                                !.force = force]
  <2>1. j \in Job /\ j.name = n
    <3>1. j \in Job
      BY JobArguments
    <3>2. j.name = n
      BY DEF NoJob
    <3> QED
      BY <3>1, <3>2
  <2>2. Begin(p, "gates", j)
    BY <1>1 DEF ApplyStart
  <2> HIDE DEF j
  <2>3. JobOK'
    BY <2>1, <2>2, BeginKeepsJobOK DEF PcState
  <2>4. TypeOK'
    BY <1>1, <2>1, <2>2, BeginType
    DEF ApplyStart, TypeOK, PcState, fileVars, netVars, GovernanceTypeOK
  <2> QED
    BY <2>3, <2>4
<1>2. CASE ApplyStops(p)
  BY <1>2, EndType, EndKeepsJobOK
  DEF ApplyStops, TypeOK, fileVars, netVars, GovernanceTypeOK
<1>3. CASE SubmitAccepted(p)
  <2>1. PICK i \in Pids : /\ Execute(ApplyCall(p), i)
                          /\ job' = [job EXCEPT ![p].pid = i]
    BY <1>3 DEF SubmitAccepted
  <2>2. ApplyCall(p) \in Call /\ job[p].name \in Names
    BY <1>3, ApplyCallType DEF SubmitAccepted, JobOK
  <2>3. chain' \in [Hosts -> [Pids -> Proposal]]
    BY <2>1, <2>2, NewProposalType DEF TypeOK
  <2>4. [job[p] EXCEPT !.pid = i] \in Job
    BY DEF TypeOK, Job
  <2>5. job' = [job EXCEPT ![p] = [job[p] EXCEPT !.pid = i]]
    BY <2>1 DEF TypeOK
  <2>6. TypeOK'
    <3>1. job' \in [Procs -> Job]
      BY <2>4, <2>5, JobStepType
    <3>2. pc' \in [Procs -> PcState]
      BY <1>3 DEF SubmitAccepted, TypeOK, PcState
    <3> QED
      BY <1>3, <2>3, <3>1, <3>2
      DEF SubmitAccepted, TypeOK, fileVars, GovernanceTypeOK
  <2>7. JobOK'
    <3>1. job[p] \in Job
      BY DEF TypeOK
    <3>2. job'[p].name = job[p].name /\ job'[p].pid = i
      BY <2>5, <3>1 DEF TypeOK, Job
    <3>3. \A q \in Procs \ {p} : pc'[q] = pc[q] /\ job'[q] = job[q]
      BY <1>3, <2>5 DEF SubmitAccepted, TypeOK
    <3> QED
      BY <2>2, <3>2, <3>3, JobOKStep
  <2> QED
    BY <2>6, <2>7
<1>4. CASE SubmitTimesOut(p)
  <2>1. ApplyCall(p) \in Call
    BY <1>4, ApplyCallType DEF SubmitTimesOut, JobOK
  <2> QED
    BY <1>4, <2>1, EndType, EndKeepsJobOK
    DEF SubmitTimesOut, TypeOK, fileVars, GovernanceTypeOK
<1>5. CASE ApplyRecord(p)
  <2>1. job[p].name \in Names /\ job[p] \in Job /\ mem[p] \in ProposalMap
    BY <1>5 DEF ApplyRecord, JobOK, TypeOK
  <2>2. RecordSubmission(mem[p], job[p].name, job[p].pid, job[p].hash,
                         job[p].host) \in ProposalMap
    BY <2>1, FreshEntryType, WriteType DEF RecordSubmission, Job
  <2>3. file' \in ProposalMap /\ chips' \subseteq ChipIds
    BY <1>5, <2>2, SaveType DEF ApplyRecord
  <2> QED
    BY <1>5, <2>3, EndType, EndKeepsJobOK
    DEF ApplyRecord, TypeOK, netVars, GovernanceTypeOK
<1> QED
  BY <1>1, <1>2, <1>3, <1>4, <1>5 DEF Apply

LEMMA ImportType ==
  ASSUME TypeInv, NEW p \in Procs, ImportCmd(p)
  PROVE  TypeInv'
<1> USE DEF TypeInv
<1>1. ASSUME NEW n \in Names, NEW i \in Pids, NEW hash \in Payloads,
             NEW h \in Hosts, ImportStart(p, n, i, hash, h)
      PROVE  TypeInv'
  <2> DEFINE j == [NoJob EXCEPT !.name = n, !.hash = hash, !.host = h,
                                !.pid = i]
  <2>1. j \in Job /\ j.name = n /\ j.pid = i
    <3>1. j \in Job
      BY JobArguments
    <3>2. j.name = n /\ j.pid = i
      BY DEF NoJob
    <3> QED
      BY <3>1, <3>2
  <2>2. Begin(p, "importing", j)
    BY <1>1 DEF ImportStart
  <2> HIDE DEF j
  <2>3. JobOK'
    BY <2>1, <2>2, BeginKeepsJobOK DEF PcState
  <2>4. TypeOK'
    BY <1>1, <2>1, <2>2, BeginType
    DEF ImportStart, TypeOK, PcState, fileVars, netVars, GovernanceTypeOK
  <2> QED
    BY <2>3, <2>4
<1>2. CASE ImportSave(p)
  <2>1. job[p].name \in Names /\ job[p] \in Job /\ mem[p] \in ProposalMap
    BY <1>2 DEF ImportSave, JobOK, TypeOK
  <2>2. Import(mem[p], job[p].name, job[p].pid, job[p].hash,
               job[p].host) \in ProposalMap
    BY <2>1, FreshEntryType, WriteType DEF Import, Job
  <2>3. file' \in ProposalMap /\ chips' \subseteq ChipIds
    BY <1>2, <2>2, SaveType DEF ImportSave
  <2> QED
    BY <1>2, <2>3, EndType, EndKeepsJobOK
    DEF ImportSave, TypeOK, netVars, GovernanceTypeOK
<1> QED
  BY <1>1, <1>2 DEF ImportCmd

\* A step inside status or reconcile, which need no argument of the job.
LEMMA InnerStepJobOK ==
  ASSUME TypeInv, NEW p \in Procs, pc[p] \in {"status", "reconcile"},
         pc' = pc, NEW j, job' = [job EXCEPT ![p] = j]
  PROVE  JobOK'
<1>1. \A q \in Procs \ {p} : pc'[q] = pc[q] /\ job'[q] = job[q]
  BY DEF TypeInv, TypeOK
<1> QED
  BY <1>1, JobOKStep

LEMMA StatusType ==
  ASSUME TypeInv, NEW p \in Procs, Status(p)
  PROVE  TypeInv'
<1> USE DEF TypeInv
<1>1. ASSUME NEW names \in SUBSET Names, NEW h \in Hosts,
             NEW refresh \in BOOLEAN, StatusStart(p, names, h, refresh)
      PROVE  TypeInv'
  <2> DEFINE j == [NoJob EXCEPT !.names = names, !.host = h,
                                !.refresh = refresh]
  <2>1. j \in Job
    BY JobArguments
  <2>2. Begin(p, "status", j)
    BY <1>1 DEF StatusStart
  <2> HIDE DEF j
  <2>3. JobOK'
    BY <2>1, <2>2, BeginKeepsJobOK DEF PcState
  <2>4. TypeOK'
    BY <1>1, <2>1, <2>2, BeginType
    DEF StatusStart, TypeOK, PcState, fileVars, netVars, GovernanceTypeOK
  <2> QED
    BY <2>3, <2>4
<1>2. ASSUME NEW n \in Names, StatusPasses(p, n)
      PROVE  TypeInv'
  <2> DEFINE j == [job[p] EXCEPT !.names = @ \ {n}]
  <2>1. j \in Job
    BY DEF TypeOK, Job
  <2>2. job' = [job EXCEPT ![p] = j]
    BY <1>2 DEF StatusPasses, TypeOK
  <2> HIDE DEF j
  <2>3. JobOK'
    BY <1>2, <2>2, InnerStepJobOK DEF StatusPasses, StatusVisits
  <2>4. job' \in [Procs -> Job]
    BY <2>1, <2>2, JobStepType
  <2>5. TypeOK'
    BY <1>2, <2>4 DEF StatusPasses, TypeOK, fileVars, netVars, GovernanceTypeOK
  <2> QED
    BY <2>3, <2>5
<1>3. ASSUME NEW n \in Names, StatusObserves(p, n)
      PROVE  TypeInv'
  <2>1. PICK o \in FetchProposalStatus(job[p].host, mem[p][n].pid) :
          /\ mem' = [mem EXCEPT ![p] = Record(mem[p], n, o)]
          /\ job' = [job EXCEPT ![p].names = @ \ {n},
                                ![p].changed = @ \/ mem'[p] # mem[p]]
    BY <1>3 DEF StatusObserves
  <2>2. mem[p] \in ProposalMap /\ job[p] \in Job
    BY DEF TypeOK
  <2>3. mem[p][n].pid \in Pids
    BY <1>3, <2>2 DEF StatusObserves, NeedsQuery, Submitted, ProposalMap, Entry
  <2>4. o \in Observation
    BY <2>2, <2>3, ObservationType DEF TypeOK, Job
  <2>5. mem' \in [Procs -> ProposalMap]
    BY <2>1, <2>2, <2>4, RecordType DEF TypeOK
  <2> DEFINE b == mem'[p] # mem[p]
             j == [job[p] EXCEPT !.names = @ \ {n}, !.changed = @ \/ b]
  <2>6. j \in Job
    BY <2>2 DEF Job
  <2>7. job' = [job EXCEPT ![p] = j]
    BY <2>1, <2>2 DEF TypeOK
  <2> HIDE DEF j
  <2>8. JobOK'
    BY <1>3, <2>7, InnerStepJobOK DEF StatusObserves, StatusVisits
  <2>9. job' \in [Procs -> Job]
    BY <2>6, <2>7, JobStepType
  <2>10. TypeOK'
    BY <1>3, <2>5, <2>9
    DEF StatusObserves, TypeOK, fileVars, netVars, GovernanceTypeOK
  <2> QED
    BY <2>8, <2>10
<1>4. CASE StatusSave(p)
  <2>1. file' \in ProposalMap /\ chips' \subseteq ChipIds
    BY <1>4, SaveType DEF StatusSave, TypeOK
  <2> QED
    BY <1>4, <2>1, EndType, EndKeepsJobOK
    DEF StatusSave, TypeOK, netVars, GovernanceTypeOK
<1>5. CASE StatusEnd(p)
  BY <1>5, EndType, EndKeepsJobOK
  DEF StatusEnd, TypeOK, fileVars, netVars, GovernanceTypeOK
<1> QED
  BY <1>1, <1>2, <1>3, <1>4, <1>5 DEF Status

LEMMA RecordVerdictType ==
  ASSUME NEW c \in ChipIds, NEW recorded \in SUBSET ChipIds, NEW v,
         NEW refresh
  PROVE  RecordVerdict(c, recorded, v, refresh) \in SUBSET ChipIds
  BY DEF RecordVerdict

LEMMA ReconcileType ==
  ASSUME TypeInv, NEW p \in Procs, Reconcile(p)
  PROVE  TypeInv'
<1> USE DEF TypeInv
<1>1. ASSUME NEW cs \in SUBSET ChipIds, NEW refresh \in BOOLEAN,
             ReconcileStart(p, cs, refresh)
      PROVE  TypeInv'
  <2> DEFINE j == [NoJob EXCEPT !.todo = cs, !.refresh = refresh]
  <2>1. j \in Job
    BY JobArguments
  <2>2. Begin(p, "reconcile", j)
    BY <1>1 DEF ReconcileStart
  <2> HIDE DEF j
  <2>3. JobOK'
    BY <2>1, <2>2, BeginKeepsJobOK DEF PcState
  <2>4. TypeOK'
    BY <1>1, <2>1, <2>2, BeginType
    DEF ReconcileStart, TypeOK, PcState, fileVars, netVars, GovernanceTypeOK
  <2> QED
    BY <2>3, <2>4
<1>2. ASSUME NEW c \in ChipIds, ReconcileVerify(p, c)
      PROVE  TypeInv'
  <2>1. PICK a \in KdsAnswers(c, vouched) :
          LET v == FetchChipVerification(a)
          IN /\ memChips' = [memChips EXCEPT ![p] =
                               RecordVerdict(c, @, v, job[p].refresh)]
             /\ job' = [job EXCEPT ![p].todo = @ \ {c},
                                   ![p].changed = @ \/
                  VerdictChanges(c, memChips[p], v, job[p].refresh)]
    BY <1>2 DEF ReconcileVerify
  <2> DEFINE v == FetchChipVerification(a)
             b == VerdictChanges(c, memChips[p], v, job[p].refresh)
             j == [job[p] EXCEPT !.todo = @ \ {c}, !.changed = @ \/ b]
  <2>2. memChips' \in [Procs -> SUBSET ChipIds]
    BY <2>1, RecordVerdictType DEF TypeOK
  <2>3. b \in BOOLEAN
    BY DEF VerdictChanges
  <2>4. job' = [job EXCEPT ![p] = j]
    BY <2>1 DEF TypeOK
  <2>5. j \in Job
    <3> HIDE DEF b
    <3> QED
      BY <2>3 DEF TypeOK, Job
  <2> HIDE DEF j
  <2>6. JobOK'
    BY <1>2, <2>4, InnerStepJobOK DEF ReconcileVerify
  <2>7. job' \in [Procs -> Job]
    BY <2>4, <2>5, JobStepType
  <2>8. TypeOK'
    BY <1>2, <2>2, <2>7
    DEF ReconcileVerify, TypeOK, fileVars, netVars, GovernanceTypeOK
  <2> QED
    BY <2>6, <2>8
<1>3. ASSUME NEW c \in ChipIds, ReconcileCached(p, c)
      PROVE  TypeInv'
  <2> DEFINE j == [job[p] EXCEPT !.todo = @ \ {c}]
  <2>1. j \in Job
    BY DEF TypeOK, Job
  <2>2. job' = [job EXCEPT ![p] = j]
    BY <1>3 DEF ReconcileCached, TypeOK
  <2> HIDE DEF j
  <2>3. JobOK'
    BY <1>3, <2>2, InnerStepJobOK DEF ReconcileCached
  <2>4. job' \in [Procs -> Job]
    BY <2>1, <2>2, JobStepType
  <2>5. TypeOK'
    BY <1>3, <2>4 DEF ReconcileCached, TypeOK, fileVars, netVars, GovernanceTypeOK
  <2> QED
    BY <2>3, <2>5
<1>4. CASE ReconcileEnd(p)
  <2>1. file' \in ProposalMap /\ chips' \subseteq ChipIds
    BY <1>4, SaveType DEF ReconcileEnd, TypeOK, fileVars
  <2> QED
    BY <1>4, <2>1, EndType, EndKeepsJobOK
    DEF ReconcileEnd, TypeOK, netVars, GovernanceTypeOK
<1> QED
  BY <1>1, <1>2, <1>3, <1>4 DEF Reconcile

LEMMA NextType == TypeInv /\ [Next]_vars => TypeInv'
<1> SUFFICES ASSUME TypeInv, [Next]_vars PROVE TypeInv'
  OBVIOUS
<1>1. ASSUME NEW p \in Procs, Crash(p) PROVE TypeInv'
  BY <1>1, EndType, EndKeepsJobOK
  DEF TypeInv, Crash, TypeOK, fileVars, netVars, GovernanceTypeOK
<1>2. ASSUME NEW c \in ChipIds, Revoke(c) PROVE TypeInv'
  BY <1>2 DEF TypeInv, Revoke, TypeOK, JobOK, fileVars, netVars, procVars,
              GovernanceTypeOK
<1>3. CASE Network
  BY <1>3, GovernanceStepType
  DEF TypeInv, Network, TypeOK, JobOK, fileVars, procVars
<1>4. CASE UNCHANGED vars
  BY <1>4 DEF TypeInv, vars, TypeOK, JobOK, GovernanceTypeOK
<1> QED
  BY <1>1, <1>2, <1>3, <1>4, ApplyType, ImportType, StatusType, ReconcileType
  DEF Next

(***************************************************************************)
(* Every variable always has its type: whatever the commands write to      *)
(* state.json can be read back as a map of entries.                        *)
(***************************************************************************)
THEOREM TypeCorrect == Spec => []TypeOK
<1>1. TypeInv => TypeOK
  BY DEF TypeInv
<1> QED
  BY <1>1, InitType, NextType, PTL DEF Spec

-----------------------------------------------------------------------------
(***************************************************************************)
(* The entries of the file.                                                *)
(***************************************************************************)

\* The entry a process writes for n after submitting, importing, observing.
SubmittedEntry(n, e) ==
  \E p \in Procs :
    /\ pc[p] = "recording" /\ job[p].name = n
    /\ e = FreshEntry(job[p].pid, job[p].hash, job[p].host, "local")

ImportedEntry(n, e) ==
  \E p \in Procs :
    /\ pc[p] = "importing" /\ job[p].name = n
    /\ e = FreshEntry(job[p].pid, job[p].hash, job[p].host, "")

ObservedEntry(n, e) ==
  \E p \in Procs :
    /\ pc[p] = "status" /\ Submitted(mem[p], n)
    /\ \E o \in FetchProposalStatus(job[p].host, mem[p][n].pid) :
         e = Record(mem[p], n, o)[n]

Origin(n, e) ==
  \/ e \in Copies(n) \union {NoEntry}
  \/ SubmittedEntry(n, e)
  \/ ImportedEntry(n, e)
  \/ ObservedEntry(n, e)

\* Recording an observation about one block leaves the other entries alone.
LEMMA RecordFrame ==
  ASSUME NEW ps \in ProposalMap, NEW m \in Names, NEW n \in Names, n # m,
         NEW o
  PROVE  Record(ps, m, o)[n] = ps[n]
<1> DEFINE Same(qs, rs) == DOMAIN rs = Names /\ rs[n] = qs[n]
<1>1. ASSUME NEW qs, DOMAIN qs = Names
      PROVE  Same(qs, RecordState(qs, m, o))
  BY <1>1 DEF RecordState
<1>2. ASSUME NEW qs, DOMAIN qs = Names
      PROVE  Same(qs, RecordSubmittedAt(qs, m, o))
  BY <1>2 DEF RecordSubmittedAt
<1>3. ASSUME NEW qs, DOMAIN qs = Names
      PROVE  Same(qs, RecordOutcome(qs, m, o))
  BY <1>3 DEF RecordOutcome
<1>4. DOMAIN ps = Names
  BY DEF ProposalMap
<1> QED
  BY <1>1, <1>2, <1>3, <1>4 DEF Record

\* A process that ends leaves every copy an old one, or what it saved.
LEMMA EndOrigins ==
  ASSUME TypeInv, NEW p \in Procs, End(p), NEW n \in Names,
         NEW e \in Copies(n)', Origin(n, file'[n])
  PROVE  Origin(n, e)
<1>1. CASE e = file'[n]
  BY <1>1
<1>2. ASSUME NEW q \in Procs, e = mem'[q][n]
      PROVE  Origin(n, e)
  <2>1. CASE q = p
    BY <1>2, <2>1 DEF End, TypeInv, TypeOK, NoMap, Origin
  <2>2. CASE q # p
    BY <1>2, <2>2 DEF End, TypeInv, TypeOK, Origin, Copies
  <2> QED
    BY <2>1, <2>2
<1> QED
  BY <1>1, <1>2 DEF Copies

LEMMA BeginOrigins ==
  ASSUME TypeInv, NEW p \in Procs, NEW l, NEW j, Begin(p, l, j), file' = file,
         NEW n \in Names, NEW e \in Copies(n)'
  PROVE  Origin(n, e)
<1>1. ASSUME NEW q \in Procs PROVE mem'[q][n] \in Copies(n)
  BY DEF Begin, TypeInv, TypeOK, Copies
<1> QED
  BY <1>1 DEF Copies, Origin

LEMMA EntryOrigins ==
  ASSUME TypeInv, [Next]_vars, NEW n \in Names, NEW e \in Copies(n)'
  PROVE  Origin(n, e)
<1>1. CASE UNCHANGED <<file, mem>>
  BY <1>1 DEF Origin, Copies
<1>2. ASSUME NEW p \in Procs, End(p), file' \in {file, mem[p]}
      PROVE  Origin(n, e)
  <2>1. Origin(n, file'[n])
    BY <1>2 DEF Origin, Copies
  <2> QED
    BY <1>2, <2>1, EndOrigins
<1>3. ASSUME NEW p \in Procs, ApplyRecord(p) PROVE Origin(n, e)
  <2>1. mem[p] \in ProposalMap
    BY DEF TypeInv, TypeOK
  <2>2. CASE job[p].name = n
    <3>1. file'[n] = FreshEntry(job[p].pid, job[p].hash, job[p].host, "local")
      BY <1>3, <2>1, <2>2
      DEF ApplyRecord, SaveState, RecordSubmission, ProposalMap
    <3> QED
      BY <1>3, <2>2, <3>1, EndOrigins DEF ApplyRecord, Origin, SubmittedEntry
  <2>3. CASE job[p].name # n
    <3>1. file'[n] = mem[p][n]
      BY <1>3, <2>1, <2>3
      DEF ApplyRecord, SaveState, RecordSubmission, ProposalMap
    <3> QED
      BY <1>3, <3>1, EndOrigins DEF ApplyRecord, Origin, Copies
  <2> QED
    BY <2>2, <2>3
<1>4. ASSUME NEW p \in Procs, ImportSave(p) PROVE Origin(n, e)
  <2>1. mem[p] \in ProposalMap
    BY DEF TypeInv, TypeOK
  <2>2. CASE job[p].name = n
    <3>1. file'[n] = FreshEntry(job[p].pid, job[p].hash, job[p].host, "")
      BY <1>4, <2>1, <2>2 DEF ImportSave, SaveState, Import, ProposalMap
    <3> QED
      BY <1>4, <2>2, <3>1, EndOrigins DEF ImportSave, Origin, ImportedEntry
  <2>3. CASE job[p].name # n
    <3>1. file'[n] = mem[p][n]
      BY <1>4, <2>1, <2>3 DEF ImportSave, SaveState, Import, ProposalMap
    <3> QED
      BY <1>4, <3>1, EndOrigins DEF ImportSave, Origin, Copies
  <2> QED
    BY <2>2, <2>3
<1>5. ASSUME NEW p \in Procs, NEW m \in Names, StatusObserves(p, m)
      PROVE  Origin(n, e)
  <2>1. PICK o \in FetchProposalStatus(job[p].host, mem[p][m].pid) :
          mem' = [mem EXCEPT ![p] = Record(mem[p], m, o)]
    BY <1>5 DEF StatusObserves
  <2>2. mem[p] \in ProposalMap /\ file' = file
    BY <1>5 DEF StatusObserves, TypeInv, TypeOK, fileVars
  <2>3. CASE e = mem'[p][n]
    <3>1. e = Record(mem[p], m, o)[n]
      BY <2>1, <2>3 DEF TypeInv, TypeOK
    <3>2. CASE m = n
      BY <1>5, <3>1, <3>2
      DEF StatusObserves, StatusVisits, NeedsQuery, Origin, ObservedEntry
    <3>3. CASE m # n
      BY <2>2, <3>1, <3>3, RecordFrame DEF Origin, Copies
    <3> QED
      BY <3>2, <3>3
  <2>4. CASE e # mem'[p][n]
    <3>1. e = file[n] \/ \E q \in Procs : q # p /\ e = mem'[q][n]
      BY <2>2, <2>4 DEF Copies
    <3> QED
      BY <2>1, <3>1 DEF Origin, Copies, TypeInv, TypeOK
  <2> QED
    BY <2>3, <2>4
<1>6. ASSUME NEW p \in Procs, Apply(p) PROVE Origin(n, e)
  BY <1>1, <1>2, <1>3, <1>6, BeginOrigins
  DEF Apply, ApplyStart, ApplyStops, SubmitAccepted, SubmitTimesOut, fileVars
<1>7. ASSUME NEW p \in Procs, ImportCmd(p) PROVE Origin(n, e)
  BY <1>4, <1>7, BeginOrigins DEF ImportCmd, ImportStart, fileVars
<1>8. ASSUME NEW p \in Procs, Status(p) PROVE Origin(n, e)
  BY <1>1, <1>2, <1>5, <1>8, BeginOrigins
  DEF Status, StatusStart, StatusPasses, StatusSave, StatusEnd, SaveState,
      fileVars
<1>9. ASSUME NEW p \in Procs, Reconcile(p) PROVE Origin(n, e)
  BY <1>1, <1>2, <1>9, BeginOrigins
  DEF Reconcile, ReconcileStart, ReconcileVerify, ReconcileCached,
      ReconcileEnd, SaveState, fileVars
<1>10. ASSUME NEW p \in Procs, Crash(p) PROVE Origin(n, e)
  BY <1>2, <1>10 DEF Crash, fileVars
<1> QED
  BY <1>1, <1>6, <1>7, <1>8, <1>9, <1>10
  DEF Next, Network, Revoke, vars, fileVars, procVars

-----------------------------------------------------------------------------
(* What the network never takes back. *)

\* Of proposal i of host h everything but its state and "purged" is kept; a
\* terminal state is kept too, and voting does not begin again.
ProposalKept(h, i) ==
  /\ Exists(h, i) => Exists(h, i)'
  /\ Exists(h, i) => /\ chain'[h][i].name = chain[h][i].name
                     /\ chain'[h][i].hash = chain[h][i].hash
  /\ Terminal(chain[h][i].state) => chain'[h][i].state = chain[h][i].state
  /\ Exists(h, i) /\ chain[h][i].state # "open" => chain'[h][i].state # "open"

LEMMA ExecuteKeeps ==
  ASSUME TypeInv, NEW c \in Call, NEW j \in Pids, Execute(c, j),
         NEW h \in Hosts, NEW i \in Pids
  PROVE  ProposalKept(h, i)
<1>1. c.host \in Hosts /\ ~Exists(c.host, j)
  BY DEF Execute, IsNextPid, Call
<1>2. <<h, i>> # <<c.host, j>> => chain'[h][i] = chain[h][i]
  BY <1>1 DEF Execute, TypeInv, TypeOK, GovernanceTypeOK
<1> QED
  BY <1>1, <1>2 DEF ProposalKept, Exists, Terminal, TerminalStates

LEMMA SetStateKeeps ==
  ASSUME TypeInv, NEW g \in Hosts, NEW j \in Pids,
         NEW s \in LiveStates \union TerminalStates, SetState(g, j, s),
         ~Exists(g, j) \/ (~Terminal(chain[g][j].state) /\ s # "open"),
         NEW h \in Hosts, NEW i \in Pids
  PROVE  ProposalKept(h, i)
<1>1. chain[g][j] \in Proposal /\ s # "absent"
  BY DEF TypeInv, TypeOK, GovernanceTypeOK, LiveStates, TerminalStates
<1>2. chain' = [chain EXCEPT ![g][j] = [chain[g][j] EXCEPT !.state = s]]
  BY DEF SetState, TypeInv, TypeOK, GovernanceTypeOK
<1>3. CASE <<h, i>> = <<g, j>>
  <2>1. chain'[h][i] = [chain[h][i] EXCEPT !.state = s]
    BY <1>2, <1>3 DEF TypeInv, TypeOK, GovernanceTypeOK
  <2> QED
    BY <1>1, <1>3, <2>1
    DEF ProposalKept, Exists, Terminal, TerminalStates, Proposal
<1>4. CASE <<h, i>> # <<g, j>>
  <2>1. chain'[h][i] = chain[h][i]
    BY <1>2, <1>4 DEF TypeInv, TypeOK, GovernanceTypeOK
  <2> QED
    BY <2>1 DEF ProposalKept, Exists
<1> QED
  BY <1>3, <1>4

LEMMA ChainKeeps ==
  ASSUME TypeInv, [Next]_vars, NEW h \in Hosts, NEW i \in Pids
  PROVE  ProposalKept(h, i)
<1>1. CASE UNCHANGED chain
  BY <1>1 DEF ProposalKept, Exists
<1>2. ASSUME NEW p \in Procs, SubmitAccepted(p) PROVE ProposalKept(h, i)
  <2>1. ApplyCall(p) \in Call
    BY <1>2, ApplyCallType DEF SubmitAccepted, TypeInv, JobOK
  <2> QED
    BY <1>2, <2>1, ExecuteKeeps DEF SubmitAccepted
<1>3. CASE Network
  <2>1. ASSUME NEW g \in Hosts, NEW j \in Pids, Decide(g, j)
        PROVE  ProposalKept(h, i)
    BY <2>1, SetStateKeeps
    DEF Decide, Terminal, LiveStates, TerminalStates
  <2>2. ASSUME NEW g \in Hosts, NEW j \in Pids, Conclude(g, j)
        PROVE  ProposalKept(h, i)
    BY <2>2, SetStateKeeps
    DEF Conclude, Terminal, LiveStates, TerminalStates
  <2>3. ASSUME NEW g \in Hosts, NEW j \in Pids, OthersPropose(g, j)
        PROVE  ProposalKept(h, i)
    BY <2>3, SetStateKeeps DEF OthersPropose, IsNextPid, LiveStates
  <2>4. ASSUME NEW g \in Hosts, NEW j \in Pids, Purge(g, j)
        PROVE  ProposalKept(h, i)
    <3>1. chain[h][i] \in Proposal /\ chain[g][j] \in Proposal
      BY DEF TypeInv, TypeOK, GovernanceTypeOK
    <3>2. chain' = [chain EXCEPT ![g][j] = [chain[g][j] EXCEPT !.purged = TRUE]]
      BY <2>4 DEF Purge, TypeInv, TypeOK, GovernanceTypeOK
    <3>3. \/ chain'[h][i] = chain[h][i]
          \/ chain'[h][i] = [chain[h][i] EXCEPT !.purged = TRUE]
      BY <3>2 DEF TypeInv, TypeOK, GovernanceTypeOK
    <3> QED
      BY <3>1, <3>3 DEF ProposalKept, Exists, Proposal
  <2>5. ASSUME NEW c \in late, LateExecute(c) PROVE ProposalKept(h, i)
    <3>1. c \in Call
      BY DEF TypeInv, TypeOK, GovernanceTypeOK
    <3> QED
      BY <2>5, <3>1, ExecuteKeeps DEF LateExecute
  <2>6. ASSUME NEW c \in late, LateExpire(c) PROVE ProposalKept(h, i)
    BY <1>1, <2>6 DEF LateExpire
  <2> QED
    BY <1>3, <2>1, <2>2, <2>3, <2>4, <2>5, <2>6 DEF Network, GovernanceStep
<1>4. ASSUME NEW p \in Procs, Apply(p) PROVE ProposalKept(h, i)
  BY <1>1, <1>2, <1>4
  DEF Apply, ApplyStart, ApplyStops, SubmitTimesOut, ApplyRecord, netVars
<1>5. ASSUME NEW p \in Procs, ImportCmd(p) PROVE ProposalKept(h, i)
  BY <1>1, <1>5 DEF ImportCmd, ImportStart, ImportSave, netVars
<1>6. ASSUME NEW p \in Procs, Status(p) PROVE ProposalKept(h, i)
  BY <1>1, <1>6
  DEF Status, StatusStart, StatusPasses, StatusObserves, StatusSave, StatusEnd,
      netVars
<1>7. ASSUME NEW p \in Procs, Reconcile(p) PROVE ProposalKept(h, i)
  BY <1>1, <1>7
  DEF Reconcile, ReconcileStart, ReconcileVerify, ReconcileCached,
      ReconcileEnd, netVars
<1> QED
  BY <1>1, <1>3, <1>4, <1>5, <1>6, <1>7 DEF Next, Crash, Revoke, netVars, vars

LEMMA ImportsKept == [Next]_vars => imports \subseteq imports'
  BY DEF Next, Apply, ApplyStart, ApplyStops, SubmitAccepted, SubmitTimesOut,
         ApplyRecord, ImportCmd, ImportStart, ImportSave, Status, StatusStart,
         StatusPasses, StatusObserves, StatusSave, StatusEnd, Reconcile,
         ReconcileStart, ReconcileVerify, ReconcileCached, ReconcileEnd,
         Crash, Revoke, Network, vars

-----------------------------------------------------------------------------
(* Provenance of what is recorded. *)

\* A process reaches a save of apply or import by one step only.
Unmoved(p) == pc'[p] = pc[p] /\ job'[p] = job[p]

LEMMA SaverOrigins ==
  ASSUME TypeInv, [Next]_vars, NEW p \in Procs,
         pc'[p] \in {"recording", "importing"}
  PROVE  \/ Unmoved(p)
         \/ SubmitAccepted(p) /\ pc'[p] = "recording"
         \/ \E n \in Names, i \in Pids, hash \in Payloads, h \in Hosts :
              ImportStart(p, n, i, hash, h) /\ pc'[p] = "importing"
<1> USE DEF TypeInv, TypeOK
<1>1. ASSUME NEW q \in Procs, End(q) PROVE Unmoved(p)
  BY <1>1 DEF End, Unmoved
<1>2. ASSUME NEW q \in Procs, NEW l, NEW j, Begin(q, l, j),
             q # p \/ l \notin {"recording", "importing"}
      PROVE  Unmoved(p)
  BY <1>2 DEF Begin, Unmoved
<1>3. ASSUME NEW q \in Procs, pc[q] \in {"status", "reconcile"}, pc' = pc,
             NEW j, job' = [job EXCEPT ![q] = j]
      PROVE  Unmoved(p)
  BY <1>3 DEF Unmoved
<1>4. ASSUME NEW q \in Procs, SubmitAccepted(q)
      PROVE  Unmoved(p) \/ (SubmitAccepted(p) /\ pc'[p] = "recording")
  BY <1>4 DEF SubmitAccepted, Unmoved
<1>5. ASSUME NEW q \in Procs, Apply(q)
      PROVE  Unmoved(p) \/ (SubmitAccepted(p) /\ pc'[p] = "recording")
  <2>1. ASSUME NEW n \in Names, NEW hash \in Payloads, NEW h \in Hosts,
               NEW force \in BOOLEAN, ApplyStart(q, n, hash, h, force)
        PROVE  Unmoved(p)
    <3>1. PICK j : Begin(q, "gates", j)
      BY <2>1 DEF ApplyStart
    <3> QED
      BY <3>1, <1>2
  <2>2. CASE ApplyStops(q) \/ SubmitTimesOut(q) \/ ApplyRecord(q)
    BY <2>2, <1>1 DEF ApplyStops, SubmitTimesOut, ApplyRecord
  <2> QED
    BY <1>4, <1>5, <2>1, <2>2 DEF Apply
<1>6. ASSUME NEW q \in Procs, ImportCmd(q)
      PROVE  \/ Unmoved(p)
             \/ \E n \in Names, i \in Pids, hash \in Payloads, h \in Hosts :
                  ImportStart(p, n, i, hash, h) /\ pc'[p] = "importing"
  <2>1. CASE ImportSave(q)
    BY <1>1, <2>1 DEF ImportSave
  <2>2. ASSUME NEW n \in Names, NEW i \in Pids, NEW hash \in Payloads,
               NEW h \in Hosts, ImportStart(q, n, i, hash, h)
        PROVE  \/ Unmoved(p)
               \/ ImportStart(p, n, i, hash, h) /\ pc'[p] = "importing"
    <3>1. PICK j : Begin(q, "importing", j)
      BY <2>2 DEF ImportStart
    <3>2. CASE q = p
      BY <2>2, <3>1, <3>2 DEF Begin
    <3> QED
      BY <1>2, <3>1, <3>2
  <2> QED
    BY <1>6, <2>1, <2>2 DEF ImportCmd
<1>7. ASSUME NEW q \in Procs, Status(q) PROVE Unmoved(p)
  <2>1. ASSUME NEW names \in SUBSET Names, NEW h \in Hosts,
               NEW refresh \in BOOLEAN, StatusStart(q, names, h, refresh)
        PROVE  Unmoved(p)
    <3>1. PICK j : Begin(q, "status", j)
      BY <2>1 DEF StatusStart
    <3> QED
      BY <3>1, <1>2
  <2>2. ASSUME NEW n \in Names, StatusPasses(q, n) PROVE Unmoved(p)
    BY <2>2, <1>3 DEF StatusPasses, StatusVisits
  <2>3. ASSUME NEW n \in Names, StatusObserves(q, n) PROVE Unmoved(p)
    <3>1. PICK j : job' = [job EXCEPT ![q] = j]
      BY <2>3 DEF StatusObserves
    <3> QED
      BY <2>3, <3>1, <1>3 DEF StatusObserves, StatusVisits
  <2>4. CASE StatusSave(q) \/ StatusEnd(q)
    BY <2>4, <1>1 DEF StatusSave, StatusEnd
  <2> QED
    BY <1>7, <2>1, <2>2, <2>3, <2>4 DEF Status
<1>8. ASSUME NEW q \in Procs, Reconcile(q) PROVE Unmoved(p)
  <2>1. ASSUME NEW cs \in SUBSET ChipIds, NEW refresh \in BOOLEAN,
               ReconcileStart(q, cs, refresh)
        PROVE  Unmoved(p)
    <3>1. PICK j : Begin(q, "reconcile", j)
      BY <2>1 DEF ReconcileStart
    <3> QED
      BY <3>1, <1>2
  <2>2. ASSUME NEW c \in ChipIds, ReconcileVerify(q, c) PROVE Unmoved(p)
    <3>1. PICK j : job' = [job EXCEPT ![q] = j]
      BY <2>2 DEF ReconcileVerify
    <3> QED
      BY <2>2, <3>1, <1>3 DEF ReconcileVerify
  <2>3. ASSUME NEW c \in ChipIds, ReconcileCached(q, c) PROVE Unmoved(p)
    <3>1. PICK j : job' = [job EXCEPT ![q] = j]
      BY <2>3 DEF ReconcileCached
    <3> QED
      BY <2>3, <3>1, <1>3 DEF ReconcileCached
  <2>4. CASE ReconcileEnd(q)
    BY <2>4, <1>1 DEF ReconcileEnd
  <2> QED
    BY <1>8, <2>1, <2>2, <2>3, <2>4 DEF Reconcile
<1>9. CASE UNCHANGED <<pc, job>>
  BY <1>9 DEF Unmoved
<1> QED
  BY <1>1, <1>5, <1>6, <1>7, <1>8, <1>9
  DEF Next, Crash, Revoke, Network, procVars, vars

\* Recording an observation changes neither id, payload nor host.
LEMMA RecordKeepsIdentity ==
  ASSUME NEW ps \in ProposalMap, NEW n \in Names, NEW o \in Observation,
         ps[n] # NoEntry
  PROVE  LET e == Record(ps, n, o)[n]
         IN  /\ e \in Entry
             /\ e.pid = ps[n].pid /\ e.hash = ps[n].hash /\ e.host = ps[n].host
<1> DEFINE Same(qs, rs) ==
      /\ DOMAIN rs = Names /\ rs[n] \in Entry
      /\ rs[n].pid = qs[n].pid /\ rs[n].hash = qs[n].hash
      /\ rs[n].host = qs[n].host
<1> DEFINE Good(qs) == DOMAIN qs = Names /\ qs[n] \in Entry
<1>1. ASSUME NEW qs, Good(qs)
      PROVE  Same(qs, RecordState(qs, n, o))
  BY <1>1 DEF RecordState, Entry, Observation
<1>2. ASSUME NEW qs, Good(qs)
      PROVE  Same(qs, RecordSubmittedAt(qs, n, o))
  BY <1>2 DEF RecordSubmittedAt, Entry, Observation
<1>3. ASSUME NEW qs, Good(qs)
      PROVE  Same(qs, RecordOutcome(qs, n, o))
  BY <1>3 DEF RecordOutcome, Entry, Observation, Outcome, Terminal
<1>4. Good(ps)
  BY DEF ProposalMap
<1> QED
  BY <1>1, <1>2, <1>3, <1>4 DEF Record
\* The submission behind a record outlasts every step.
LEMMA SubmittedFromKept ==
  ASSUME TypeInv, [Next]_vars, NEW n, NEW e,
         e.host \in Hosts, e.pid \in Pids, SubmittedFrom(n, e)
  PROVE  SubmittedFrom(n, e)'
  BY ChainKeeps DEF SubmittedFrom, ProposalKept

\* SubmitAccepted brings the proposal about that the process then records.
LEMMA AcceptedWasSubmitted ==
  ASSUME TypeInv, NEW p \in Procs, SubmitAccepted(p)
  PROVE  SubmittedFrom(job[p].name, job[p])'
<1>1. PICK i \in Pids : /\ Execute(ApplyCall(p), i)
                        /\ job' = [job EXCEPT ![p].pid = i]
  BY DEF SubmitAccepted
<1>2. job[p] \in Job /\ job[p].host \in Hosts
  BY DEF TypeInv, TypeOK, Job
<1>3. job'[p] = [job[p] EXCEPT !.pid = i]
  BY <1>1 DEF TypeInv, TypeOK
<1>4. /\ job'[p].pid = i /\ job'[p].host = job[p].host
      /\ job'[p].name = job[p].name /\ job'[p].hash = job[p].hash
  BY <1>2, <1>3 DEF Job
<1>5. chain'[job[p].host][i] =
        [state |-> "open", purged |-> FALSE, name |-> job[p].name,
         hash |-> job[p].hash, unguarded |-> ApplyCall(p).unguarded]
  BY <1>1, <1>2 DEF Execute, ApplyCall, TypeInv, TypeOK, GovernanceTypeOK
<1> QED
  BY <1>4, <1>5 DEF SubmittedFrom, Exists

\* What a record says of its origin.
Known(n, e) == <<n, e.pid>> \in imports \/ SubmittedFrom(n, e)

LEMMA KnownKept ==
  ASSUME TypeInv, [Next]_vars, NEW n \in Names, NEW e,
         e.host \in Hosts, e.pid \in Pids, Known(n, e)
  PROVE  Known(n, e)'
  BY SubmittedFromKept, ImportsKept DEF Known

LEMMA ObservedWasKnown ==
  ASSUME TypeInv, ProvenanceInv, NEW n \in Names, NEW e, ObservedEntry(n, e)
  PROVE  e \in Entry /\ e.pid \in Pids /\ Known(n, e)
<1>1. PICK p \in Procs :
        /\ Submitted(mem[p], n)
        /\ \E o \in FetchProposalStatus(job[p].host, mem[p][n].pid) :
             e = Record(mem[p], n, o)[n]
  BY DEF ObservedEntry
<1>2. PICK o \in FetchProposalStatus(job[p].host, mem[p][n].pid) :
        e = Record(mem[p], n, o)[n]
  BY <1>1
<1>3. /\ mem[p] \in ProposalMap
      /\ mem[p][n] \in Entry /\ mem[p][n].pid \in Pids
      /\ job[p].host \in Hosts
  <2>1. mem[p] \in ProposalMap /\ job[p] \in Job
    BY DEF TypeInv, TypeOK
  <2>2. mem[p][n] \in Entry /\ mem[p][n].pid # 0
    BY <1>1, <2>1 DEF Submitted, ProposalMap
  <2> QED
    BY <2>1, <2>2 DEF Entry, Job
<1>4. o \in Observation
  BY <1>2, <1>3, ObservationType DEF TypeInv, TypeOK
<1>5. /\ e \in Entry /\ e.pid = mem[p][n].pid
      /\ e.hash = mem[p][n].hash /\ e.host = mem[p][n].host
  BY <1>1, <1>2, <1>3, <1>4, RecordKeepsIdentity DEF Submitted
<1>6. Known(n, mem[p][n])
  BY <1>1 DEF ProvenanceInv, Copies, Known, Submitted
<1> QED
  BY <1>3, <1>5, <1>6 DEF Known, SubmittedFrom, Exists

LEMMA ProvenanceInit == Init => ProvenanceInv
<1> SUFFICES ASSUME Init PROVE ProvenanceInv
  OBVIOUS
<1>1. ASSUME NEW n \in Names, NEW e \in Copies(n), e # NoEntry
      PROVE  e.pid = 0
  <2>1. Placeholder(NoProposal.hash).pid = 0
    BY DEF Placeholder, FreshEntry
  <2>2. file[n] \in {NoEntry, Placeholder(NoProposal.hash)}
    BY DEF Init
  <2>3. \A p \in Procs : mem[p][n] = NoEntry
    BY DEF Init, NoMap
  <2> QED
    BY <1>1, <2>1, <2>2, <2>3 DEF Copies
<1>2. \A p \in Procs : pc[p] = "idle"
  BY DEF Init
<1> QED
  BY <1>1, <1>2 DEF ProvenanceInv

LEMMA ProvenanceNext == TypeInv /\ ProvenanceInv /\ [Next]_vars => ProvenanceInv'
<1> SUFFICES ASSUME TypeInv, ProvenanceInv, [Next]_vars PROVE ProvenanceInv'
  OBVIOUS
<1>1. TypeInv'
  BY NextType
<1>2. ASSUME NEW n \in Names, NEW e \in Copies(n)', e # NoEntry, e.pid # 0
      PROVE  Known(n, e)'
  <2>1. e \in Entry /\ e.pid \in Pids /\ e.host \in Hosts
    <3>1. file' \in ProposalMap /\ \A p \in Procs : mem'[p] \in ProposalMap
      BY <1>1 DEF TypeInv, TypeOK
    <3>2. e \in Entry
      BY <1>2, <3>1 DEF Copies, ProposalMap
    <3> QED
      BY <1>2, <3>2 DEF Entry
  <2>2. CASE e \in Copies(n)
    BY <1>2, <2>1, <2>2, KnownKept DEF ProvenanceInv, Known
  <2>3. CASE SubmittedEntry(n, e)
    <3>1. PICK p \in Procs :
            /\ pc[p] = "recording" /\ job[p].name = n
            /\ e = FreshEntry(job[p].pid, job[p].hash, job[p].host, "local")
      BY <2>3 DEF SubmittedEntry
    <3>2. Known(n, e)
      BY <3>1 DEF ProvenanceInv, Known, SubmittedFrom, FreshEntry
    <3> QED
      BY <2>1, <3>2, KnownKept
  <2>4. CASE ImportedEntry(n, e)
    <3>1. PICK p \in Procs :
            /\ pc[p] = "importing" /\ job[p].name = n
            /\ e = FreshEntry(job[p].pid, job[p].hash, job[p].host, "")
      BY <2>4 DEF ImportedEntry
    <3>2. Known(n, e)
      BY <3>1 DEF ProvenanceInv, Known, FreshEntry
    <3> QED
      BY <2>1, <3>2, KnownKept
  <2>5. CASE ObservedEntry(n, e)
    BY <2>1, <2>5, ObservedWasKnown, KnownKept
  <2> QED
    BY <1>2, <2>2, <2>3, <2>4, <2>5, EntryOrigins DEF Origin
<1>3. ASSUME NEW p \in Procs, pc'[p] = "recording"
      PROVE  SubmittedFrom(job[p].name, job[p])'
  <2>1. CASE Unmoved(p)
    <3>1. SubmittedFrom(job[p].name, job[p])
      BY <1>3, <2>1 DEF Unmoved, ProvenanceInv
    <3>2. job[p].host \in Hosts /\ job[p].pid \in Pids
      BY <1>3, <2>1 DEF Unmoved, TypeInv, TypeOK, JobOK, Job
    <3>3. /\ Exists(job[p].host, job[p].pid)
          /\ chain[job[p].host][job[p].pid].name = job[p].name
          /\ chain[job[p].host][job[p].pid].hash = job[p].hash
      BY <3>1 DEF SubmittedFrom
    <3>4. ProposalKept(job[p].host, job[p].pid)
      BY <3>2, ChainKeeps
    <3> QED
      BY <2>1, <3>3, <3>4 DEF Unmoved, ProposalKept, SubmittedFrom, Exists
  <2>2. CASE SubmitAccepted(p)
    BY <2>2, AcceptedWasSubmitted
  <2> QED
    BY <1>3, <2>1, <2>2, SaverOrigins
<1>4. ASSUME NEW p \in Procs, pc'[p] = "importing"
      PROVE  <<job'[p].name, job'[p].pid>> \in imports'
  <2>1. CASE Unmoved(p)
    BY <1>4, <2>1, ImportsKept DEF Unmoved, ProvenanceInv
  <2>2. ASSUME NEW n \in Names, NEW i \in Pids, NEW hash \in Payloads,
               NEW h \in Hosts, ImportStart(p, n, i, hash, h)
        PROVE  <<job'[p].name, job'[p].pid>> \in imports'
    <3>1. job'[p] = [NoJob EXCEPT !.name = n, !.hash = hash, !.host = h,
                                  !.pid = i]
      BY <2>2 DEF ImportStart, Begin, TypeInv, TypeOK
    <3>2. job'[p].name = n /\ job'[p].pid = i
      BY <3>1 DEF NoJob
    <3> QED
      BY <2>2, <3>2 DEF ImportStart
  <2> QED
    BY <1>4, <2>1, <2>2, SaverOrigins
<1> QED
  BY <1>2, <1>3, <1>4 DEF ProvenanceInv, Known

(***************************************************************************)
(* A recorded proposal id is one a submission from that block really got,  *)
(* or one the operator imported for it: SubmitAndRecord never writes state *)
(* for a submission that did not happen, whatever the processes do.        *)
(***************************************************************************)
THEOREM RecordsAreSubmissions == Spec => []RecordedWasSubmitted
<1>1. ProvenanceInv => RecordedWasSubmitted
  BY DEF ProvenanceInv, RecordedWasSubmitted, Submitted, Copies
<1> QED
  BY <1>1, InitType, NextType, ProvenanceInit, ProvenanceNext, PTL DEF Spec

-----------------------------------------------------------------------------
(***************************************************************************)
(* What a settled entry of state.json is worth: it is complete, and on one *)
(* network it is true.  Both are shown of every copy of the file, because  *)
(* any copy may be the next one saved.                                     *)
(***************************************************************************)

\* The entry that recording observation o makes of d, field by field.
LEMMA RecordFields ==
  ASSUME NEW ps \in ProposalMap, NEW n \in Names, NEW o \in Observation,
         ps[n] # NoEntry
  PROVE  LET d == ps[n]
             e == Record(ps, n, o)[n]
             new == o.state \notin {"", d.status} /\ ~Terminal(d.status)
         IN  /\ e.status = IF new THEN o.state ELSE d.status
             /\ e.resolvedAt = IF new /\ Terminal(o.state) THEN o.resolvedAt
                               ELSE d.resolvedAt
             /\ e.at = IF o.at = "" THEN d.at ELSE o.at
             /\ e.outcome =
                  IF Terminal(o.state) /\ d.outcome = NoOutcome
                  THEN [label |-> o.state, source |-> o.source, of |-> o.of]
                  ELSE d.outcome
<1> DEFINE d == ps[n]
           new == o.state \notin {"", d.status} /\ ~Terminal(d.status)
           q == RecordState(ps, n, o)
           r == RecordSubmittedAt(q, n, o)
           s == RecordOutcome(r, n, o)
<1>1. d \in Entry /\ DOMAIN ps = Names
  BY DEF ProposalMap
<1>2. /\ DOMAIN q = Names /\ q[n] \in Entry
      /\ q[n].status = (IF new THEN o.state ELSE d.status)
      /\ q[n].resolvedAt = (IF new /\ Terminal(o.state) THEN o.resolvedAt
                            ELSE d.resolvedAt)
      /\ q[n].at = d.at /\ q[n].outcome = d.outcome
  <2>1. CASE new
    BY <1>1, <2>1 DEF RecordState, Entry, Observation
  <2>2. CASE ~new
    BY <1>1, <2>2 DEF RecordState
  <2> QED
    BY <2>1, <2>2
<1> HIDE DEF q
<1>3. /\ DOMAIN r = Names /\ r[n] \in Entry
      /\ r[n].status = q[n].status /\ r[n].resolvedAt = q[n].resolvedAt
      /\ r[n].at = (IF o.at = "" THEN d.at ELSE o.at)
      /\ r[n].outcome = q[n].outcome
  BY <1>2, NoEntryAssumption DEF RecordSubmittedAt, Entry, Observation
<1> HIDE DEF r
<1>4. /\ s[n].status = r[n].status /\ s[n].resolvedAt = r[n].resolvedAt
      /\ s[n].at = r[n].at
      /\ s[n].outcome =
           (IF Terminal(o.state) /\ r[n].outcome = NoOutcome
            THEN [label |-> o.state, source |-> o.source, of |-> o.of]
            ELSE r[n].outcome)
  BY <1>3, NoEntryAssumption DEF RecordOutcome, Entry
<1> QED
  BY <1>2, <1>3, <1>4 DEF Record, q, r

\* What an answer about proposal i of the only network there is can say.
LEMMA ObservationFields ==
  ASSUME GovernanceTypeOK, NEW h \in Hosts, NEW i \in Pids,
         NEW o \in FetchProposalStatus(h, i)
  PROVE  /\ o.at = "chain"
         /\ Terminal(o.state) => o.resolvedAt = "chain"
         /\ Hosts = {Mainnet} =>
              /\ o.state \in {"", chain[h][i].state}
              /\ o.of = <<h, i>>
<1>1. CASE Exists(h, i) /\ ~chain[h][i].purged
  <2>1. o = Observe("governance", h, i, chain[h][i].state)
    BY <1>1 DEF FetchProposalStatus
  <2> QED
    BY <2>1 DEF Observe
<1>2. CASE ~(Exists(h, i) /\ ~chain[h][i].purged)
  <2>1. PICK s \in {chain[Mainnet][i].state, ""} :
          o = Observe("dashboard", Mainnet, i, s)
    BY <1>2 DEF FetchProposalStatus
  <2>2. Hosts = {Mainnet} => h = Mainnet
    OBVIOUS
  <2> QED
    BY <2>1, <2>2 DEF Observe
<1> QED
  BY <1>1, <1>2

-----------------------------------------------------------------------------
(* The cached line of a settled entry is complete. *)

CompleteEntry(e) ==
  /\ Terminal(e.status) <=> HasSettledStatus(e)
  /\ e.outcome # NoOutcome =>
       /\ HasSettledStatus(e)
       /\ e.at = "chain"
       /\ e.resolvedAt = "chain"

\* SettledIsComplete, of every copy: the inductive invariant.
CompleteInv ==
  \A n \in Names : \A e \in Copies(n) : e # NoEntry => CompleteEntry(e)

LEMMA FreshIsComplete ==
  ASSUME NEW pid, NEW hash, NEW h, NEW at
  PROVE  CompleteEntry(FreshEntry(pid, hash, h, at))
  BY DEF FreshEntry, CompleteEntry, HasSettledStatus, Terminal, TerminalStates

LEMMA ObservedIsComplete ==
  ASSUME TypeInv, CompleteInv, NEW n \in Names, NEW e, ObservedEntry(n, e)
  PROVE  CompleteEntry(e)
<1>1. PICK p \in Procs :
        /\ Submitted(mem[p], n)
        /\ \E o \in FetchProposalStatus(job[p].host, mem[p][n].pid) :
             e = Record(mem[p], n, o)[n]
  BY DEF ObservedEntry
<1>2. PICK o \in FetchProposalStatus(job[p].host, mem[p][n].pid) :
        e = Record(mem[p], n, o)[n]
  BY <1>1
<1>3. mem[p] \in ProposalMap /\ job[p] \in Job
  BY DEF TypeInv, TypeOK
<1>4. /\ mem[p][n] \in Entry /\ mem[p][n] # NoEntry
      /\ mem[p][n].pid \in Pids /\ job[p].host \in Hosts
  BY <1>1, <1>3 DEF Submitted, ProposalMap, Entry, Job
<1>5. /\ o \in Observation /\ o.at = "chain"
      /\ Terminal(o.state) => o.resolvedAt = "chain"
  BY <1>4, ObservationType, ObservationFields DEF TypeInv, TypeOK
<1>6. CompleteEntry(mem[p][n])
  BY <1>4 DEF CompleteInv, Copies
<1>7. ASSUME Terminal(o.state)
      PROVE  [label |-> o.state, source |-> o.source, of |-> o.of] # NoOutcome
  <2>1. /\ o.state \in TerminalStates /\ o.source \in Source
        /\ o.of \in Hosts \X Pids
    BY <1>5, <1>7 DEF Observation, Terminal
  <2>2. [label |-> o.state, source |-> o.source, of |-> o.of] \in Outcome
    BY <2>1 DEF Outcome
  <2> QED
    BY <2>2, NoOutcomeAssumption
<1> QED
  BY <1>2, <1>3, <1>4, <1>5, <1>6, <1>7, RecordFields
  DEF CompleteEntry, HasSettledStatus, Terminal, TerminalStates

LEMMA CompleteInit == Init => CompleteInv
<1> SUFFICES ASSUME Init, NEW n \in Names, NEW e \in Copies(n), e # NoEntry
             PROVE  CompleteEntry(e)
  BY DEF CompleteInv
<1>1. file[n] \in {NoEntry, Placeholder(NoProposal.hash)}
  BY DEF Init
<1>2. \A p \in Procs : mem[p][n] = NoEntry
  BY DEF Init, NoMap
<1> QED
  BY <1>1, <1>2, FreshIsComplete DEF Copies, Placeholder

LEMMA CompleteNext == TypeInv /\ CompleteInv /\ [Next]_vars => CompleteInv'
<1> SUFFICES ASSUME TypeInv, CompleteInv, [Next]_vars,
                    NEW n \in Names, NEW e \in Copies(n)', e # NoEntry
             PROVE  CompleteEntry(e)
  BY DEF CompleteInv, CompleteEntry, HasSettledStatus
<1>1. Origin(n, e)
  BY EntryOrigins
<1>2. CASE e \in Copies(n)
  BY <1>2 DEF CompleteInv
<1>3. CASE SubmittedEntry(n, e) \/ ImportedEntry(n, e)
  BY <1>3, FreshIsComplete DEF SubmittedEntry, ImportedEntry
<1>4. CASE ObservedEntry(n, e)
  BY <1>4, ObservedIsComplete
<1> QED
  BY <1>1, <1>2, <1>3, <1>4 DEF Origin

(***************************************************************************)
(* A cached line lacks nothing a query would give (SettledStatus): an      *)
(* entry has an outcome exactly when it is terminal, and then the chain's  *)
(* own times, however copies of the file are saved over each other.        *)
(***************************************************************************)
THEOREM CachedLineIsComplete == Spec => []SettledIsComplete
<1>1. CompleteInv => SettledIsComplete
  BY DEF CompleteInv, CompleteEntry, SettledIsComplete, Submitted, Copies
<1> QED
  BY <1>1, InitType, NextType, CompleteInit, CompleteNext, PTL DEF Spec

-----------------------------------------------------------------------------
(* On one network, a terminal status on record is the truth. *)

TrueEntry(e) ==
  Terminal(e.status) =>
    /\ e.status = chain[e.host][e.pid].state
    /\ e.outcome.label = e.status
    /\ e.outcome.of = <<e.host, e.pid>>

\* TerminalIsTrue, of every copy.
TruthInv ==
  \A n \in Names : \A e \in Copies(n) :
    e # NoEntry /\ e.pid # 0 => TrueEntry(e)

LEMMA TruthInit == Init => TruthInv
<1> SUFFICES ASSUME Init, NEW n \in Names, NEW e \in Copies(n), e # NoEntry
             PROVE  e.pid = 0
  BY DEF TruthInv
<1>1. Placeholder(NoProposal.hash).pid = 0
  BY DEF Placeholder, FreshEntry
<1>2. file[n] \in {NoEntry, Placeholder(NoProposal.hash)}
  BY DEF Init
<1>3. \A p \in Procs : mem[p][n] = NoEntry
  BY DEF Init, NoMap
<1> QED
  BY <1>1, <1>2, <1>3 DEF Copies

LEMMA FreshIsTrue ==
  ASSUME NEW pid, NEW hash, NEW h, NEW at
  PROVE  TrueEntry(FreshEntry(pid, hash, h, at))
  BY DEF FreshEntry, TrueEntry, Terminal, TerminalStates

LEMMA ObservedIsTrue ==
  ASSUME Hosts = {Mainnet}, TypeInv, CompleteInv, TruthInv,
         NEW n \in Names, NEW e, ObservedEntry(n, e)
  PROVE  TrueEntry(e)
<1>1. PICK p \in Procs :
        /\ Submitted(mem[p], n)
        /\ \E o \in FetchProposalStatus(job[p].host, mem[p][n].pid) :
             e = Record(mem[p], n, o)[n]
  BY DEF ObservedEntry
<1>2. PICK o \in FetchProposalStatus(job[p].host, mem[p][n].pid) :
        e = Record(mem[p], n, o)[n]
  BY <1>1
<1> DEFINE d == mem[p][n]
<1>3. mem[p] \in ProposalMap /\ job[p] \in Job
  BY DEF TypeInv, TypeOK
<1>4. /\ d \in Entry /\ d # NoEntry /\ d.pid # 0 /\ d.pid \in Pids
      /\ d.host = Mainnet /\ job[p].host = Mainnet
  BY <1>1, <1>3 DEF Submitted, ProposalMap, Entry, Job
<1>5. o \in Observation /\ o.state \in {"", chain[Mainnet][d.pid].state}
      /\ o.of = <<Mainnet, d.pid>>
  BY <1>4, ObservationType, ObservationFields DEF TypeInv, TypeOK
<1>6. CompleteEntry(d) /\ TrueEntry(d)
  BY <1>4 DEF CompleteInv, TruthInv, Copies
<1>7. e.pid = d.pid /\ e.host = Mainnet
  BY <1>2, <1>3, <1>4, <1>5, RecordKeepsIdentity
<1>8. CASE Terminal(d.status)
  <2>1. d.outcome # NoOutcome
    BY <1>6, <1>8 DEF CompleteEntry, HasSettledStatus
  <2>2. e.status = d.status /\ e.outcome = d.outcome
    BY <1>2, <1>3, <1>4, <1>5, <1>8, <2>1, RecordFields
  <2> QED
    BY <1>4, <1>6, <1>7, <2>2 DEF TrueEntry
<1>9. CASE ~Terminal(d.status) /\ Terminal(e.status)
  <2>1. d.outcome = NoOutcome
    BY <1>6, <1>9 DEF CompleteEntry, HasSettledStatus
  <2>2. e.status = o.state
    BY <1>2, <1>3, <1>4, <1>5, <1>9, RecordFields
  <2>3. e.outcome = [label |-> o.state, source |-> o.source, of |-> o.of]
    BY <1>2, <1>3, <1>4, <1>5, <1>9, <2>1, <2>2, RecordFields
  <2>4. o.state = chain[Mainnet][d.pid].state
    BY <1>5, <1>9, <2>2 DEF Terminal, TerminalStates
  <2> QED
    BY <1>5, <1>7, <2>2, <2>3, <2>4 DEF TrueEntry
<1> QED
  BY <1>8, <1>9 DEF TrueEntry

\* A settled proposal stays as it is, so what is true of it remains true.
LEMMA TrueEntryKept ==
  ASSUME TypeInv, [Next]_vars, NEW e,
         e.host \in Hosts, e.pid \in Pids, TrueEntry(e)
  PROVE  TrueEntry(e)'
  BY ChainKeeps DEF TrueEntry, ProposalKept

LEMMA TruthNext ==
  ASSUME Hosts = {Mainnet}
  PROVE  TypeInv /\ CompleteInv /\ TruthInv /\ [Next]_vars => TruthInv'
<1> SUFFICES ASSUME TypeInv, CompleteInv, TruthInv, [Next]_vars,
                    NEW n \in Names, NEW e \in Copies(n)',
                    e # NoEntry, e.pid # 0
             PROVE  TrueEntry(e)'
  BY DEF TruthInv
<1>1. e.host \in Hosts /\ e.pid \in Pids
  <2>1. TypeInv'
    BY NextType
  <2>2. file' \in ProposalMap /\ \A p \in Procs : mem'[p] \in ProposalMap
    BY <2>1 DEF TypeInv, TypeOK
  <2>3. e \in Entry
    BY <2>2 DEF Copies, ProposalMap
  <2> QED
    BY <2>3 DEF Entry
<1>2. TrueEntry(e)
  <2>1. Origin(n, e)
    BY EntryOrigins
  <2>2. CASE e \in Copies(n)
    BY <2>2 DEF TruthInv
  <2>3. CASE SubmittedEntry(n, e) \/ ImportedEntry(n, e)
    BY <2>3, FreshIsTrue DEF SubmittedEntry, ImportedEntry
  <2>4. CASE ObservedEntry(n, e)
    BY <2>4, ObservedIsTrue
  <2> QED
    BY <2>1, <2>2, <2>3, <2>4 DEF Origin
<1> QED
  BY <1>1, <1>2, TrueEntryKept

(***************************************************************************)
(* A terminal status on record is what the proposal became, and its        *)
(* outcome is that proposal's, as long as every command is pointed at the  *)
(* one network the dashboard indexes: FetchProposalStatus falls back to    *)
(* that dashboard whatever network the id is of.                           *)
(***************************************************************************)
THEOREM RecordedOutcomeIsTrue ==
  ASSUME Hosts = {Mainnet}
  PROVE  Spec => []TerminalIsTrue
<1>1. TruthInv => TerminalIsTrue
  BY DEF TruthInv, TrueEntry, TerminalIsTrue, Settled, Submitted, Copies
<1>2. TypeInv /\ CompleteInv /\ TruthInv /\ [Next]_vars => TruthInv'
  BY TruthNext
<1> QED
  BY <1>1, <1>2, InitType, NextType, CompleteInit, CompleteNext, TruthInit,
     PTL DEF Spec
=============================================================================
