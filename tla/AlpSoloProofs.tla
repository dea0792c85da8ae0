--------------------------- MODULE AlpSoloProofs ---------------------------
(***************************************************************************)
(* What alp promises when one command runs at a time, and the one promise  *)
(* about the chips that needs no such condition.  With a single process    *)
(* its copy of the file is as good as the file, and the guard apply        *)
(* evaluates at its start still holds when the call leaves; that makes the *)
(* file a Journal.  None of that is so with a second process, whose save   *)
(* brings back an older copy.                                              *)
(***************************************************************************)
EXTENDS AlpProofs

\* ChipsAreGenuine, of every copy of the chips.
ChipInv == chips \subseteq Genuine /\ \A p \in Procs : memChips[p] \subseteq Genuine

LEMMA VerifiedIsVouched ==
  ASSUME NEW c \in ChipIds, NEW a \in KdsAnswers(c, vouched),
         FetchChipVerification(a) = "verified"
  PROVE  c \in vouched
<1>1. PICK k \in 1..Lines : a[k] = "verified"
  BY DEF FetchChipVerification
<1>2. a[k] \in {IF c \in vouched /\ k = LineOf[c] THEN "verified" ELSE "refused",
                "inconclusive"}
  BY DEF KdsAnswers
<1> QED
  BY <1>1, <1>2

LEMMA ChipInvNext == TypeInv /\ ChipInv /\ [Next]_vars => ChipInv'
<1> SUFFICES ASSUME TypeInv, ChipInv, [Next]_vars PROVE ChipInv'
  OBVIOUS
<1> USE DEF ChipInv, TypeInv, TypeOK
<1>1. CASE UNCHANGED <<chips, memChips>>
  BY <1>1
<1>2. ASSUME NEW p \in Procs, End(p), chips' \in {chips, memChips[p]}
      PROVE  ChipInv'
  BY <1>2 DEF End
<1>3. ASSUME NEW p \in Procs, NEW l, NEW j, Begin(p, l, j), chips' = chips
      PROVE  ChipInv'
  BY <1>3 DEF Begin
<1>4. ASSUME NEW p \in Procs, NEW c \in ChipIds, ReconcileVerify(p, c)
      PROVE  ChipInv'
  <2>1. PICK a \in KdsAnswers(c, vouched) :
          memChips' = [memChips EXCEPT ![p] =
            RecordVerdict(c, memChips[p], FetchChipVerification(a),
                          job[p].refresh)]
    BY <1>4 DEF ReconcileVerify
  <2>2. FetchChipVerification(a) = "verified" => c \in Genuine
    BY VerifiedIsVouched
  <2>3. RecordVerdict(c, memChips[p], FetchChipVerification(a),
                      job[p].refresh) \subseteq Genuine
    BY <2>2 DEF RecordVerdict
  <2> QED
    BY <1>4, <2>1, <2>3 DEF ReconcileVerify, fileVars
<1>5. ASSUME NEW p \in Procs, Apply(p) PROVE ChipInv'
  BY <1>1, <1>2, <1>3, <1>5
  DEF Apply, ApplyStart, ApplyStops, SubmitAccepted, SubmitTimesOut,
      ApplyRecord, SaveState, fileVars
<1>6. ASSUME NEW p \in Procs, ImportCmd(p) PROVE ChipInv'
  BY <1>2, <1>3, <1>6 DEF ImportCmd, ImportStart, ImportSave, SaveState, fileVars
<1>7. ASSUME NEW p \in Procs, Status(p) PROVE ChipInv'
  BY <1>1, <1>2, <1>3, <1>7
  DEF Status, StatusStart, StatusPasses, StatusObserves, StatusSave, StatusEnd,
      SaveState, fileVars
<1>8. ASSUME NEW p \in Procs, Reconcile(p) PROVE ChipInv'
  BY <1>1, <1>2, <1>3, <1>4, <1>8
  DEF Reconcile, ReconcileStart, ReconcileCached, ReconcileEnd, SaveState,
      fileVars
<1>9. ASSUME NEW p \in Procs, Crash(p) PROVE ChipInv'
  BY <1>2, <1>9 DEF Crash, fileVars
<1> QED
  BY <1>1, <1>5, <1>6, <1>7, <1>8, <1>9
  DEF Next, Revoke, Network, fileVars, procVars, vars

(***************************************************************************)
(* Whatever the product lines answer and whoever saves, only silicon AMD   *)
(* made is on record as verified.                                          *)
(***************************************************************************)
THEOREM RecordedChipsAreGenuine == Spec => []ChipsAreGenuine
<1>1. Init => ChipInv
  BY DEF Init, ChipInv
<1>2. ChipInv => ChipsAreGenuine
  BY DEF ChipInv, ChipsAreGenuine
<1> QED
  BY <1>1, <1>2, InitType, NextType, ChipInvNext, PTL DEF Spec

-----------------------------------------------------------------------------
(* One process. *)

(***************************************************************************)
(* A single process's copy is the file, except that status has changed     *)
(* entries that were not settled; what apply and import checked at their   *)
(* start still holds when they act.                                        *)
(***************************************************************************)
SoloInv ==
  /\ \A p \in Procs :
       /\ pc[p] \in {"gates", "recording", "importing", "reconcile"} =>
            mem[p] = file
       /\ pc[p] = "status" =>
            \A n \in Names : Settled(file, n) => mem[p][n] = file[n]
       /\ pc[p] \in {"gates", "recording"} => ~Settled(file, job[p].name)
       /\ pc[p] = "gates" /\ Submitted(file, job[p].name) => job[p].force
       /\ pc[p] = "importing" => file[job[p].name] = NoEntry
  /\ NoUnforcedResubmission

\* The step properties, as one formula about a step.
SoloStep ==
  /\ \A n \in Names : Settled(file, n) => file'[n] = file[n]
  /\ \A p \in Procs :
       pc[p] = "reconcile" /\ pc'[p] = "idle" => file' = file

\* Nothing on record about n means Settled is false of it.
LEMMA ProceedMeans ==
  ASSUME NEW n \in Names, NEW hash, NEW force \in BOOLEAN,
         ApplyDecision(file, n, hash, force) = "proceed"
  PROVE  ~Settled(file, n) /\ (Submitted(file, n) => force)
  BY DEF ApplyDecision, Settled

\* Recording an observation of a settled and complete entry changes nothing.
LEMMA RecordKeepsSettled ==
  ASSUME NEW ps \in ProposalMap, NEW n \in Names, NEW o \in Observation,
         o.at = "chain", Settled(ps, n), CompleteEntry(ps[n])
  PROVE  Record(ps, n, o)[n] = ps[n]
<1>1. Terminal(ps[n].status) /\ ps[n].at = "chain" /\ ps[n].outcome # NoOutcome
  BY DEF Settled, CompleteEntry, HasSettledStatus
<1>2. RecordState(ps, n, o) = ps
  BY <1>1 DEF RecordState
<1>3. RecordSubmittedAt(ps, n, o) = ps
  BY <1>1 DEF RecordSubmittedAt
<1>4. RecordOutcome(ps, n, o) = ps
  BY <1>1 DEF RecordOutcome
<1> QED
  BY <1>2, <1>3, <1>4 DEF Record

\* The process exits, and state.json loses no settled entry.
LEMMA SoloEnd ==
  ASSUME NEW p, Procs = {p}, TypeInv, SoloInv, End(p),
         NoUnforcedResubmission',
         \A n \in Names : Settled(file, n) => file'[n] = file[n],
         pc[p] = "reconcile" => file' = file
  PROVE  SoloInv' /\ SoloStep
<1>1. \A q \in Procs : q = p
  OBVIOUS
<1>2. pc'[p] = "idle"
  BY DEF End, TypeInv, TypeOK
<1> QED
  BY <1>1, <1>2 DEF SoloInv, SoloStep

\* A command starts and has a fresh copy.
LEMMA SoloBegin ==
  ASSUME NEW p, Procs = {p}, TypeInv, SoloInv, NEW l, NEW j, Begin(p, l, j),
         UNCHANGED <<fileVars, netVars>>,
         l \in {"gates", "recording"} => ~Settled(file, j.name),
         l = "gates" /\ Submitted(file, j.name) => j.force,
         l = "importing" => file[j.name] = NoEntry
  PROVE  SoloInv' /\ SoloStep
<1>1. \A q \in Procs : q = p
  OBVIOUS
<1>2. /\ pc[p] = "idle" /\ pc'[p] = l /\ job'[p] = j /\ mem'[p] = file
      /\ file' = file /\ chain' = chain /\ late' = late
  BY DEF Begin, TypeInv, TypeOK, fileVars, netVars
<1>3. NoUnforcedResubmission'
  BY <1>2 DEF SoloInv, NoUnforcedResubmission
<1>4. \A n : Submitted(file', n) = Submitted(file, n)
             /\ Settled(file', n) = Settled(file, n)
  BY <1>2
<1> QED
  BY <1>1, <1>2, <1>3, <1>4 DEF SoloInv, SoloStep

LEMMA SoloApply ==
  ASSUME NEW p, Procs = {p}, TypeInv, SoloInv, Apply(p)
  PROVE  SoloInv' /\ SoloStep
<1>1. ASSUME NEW n \in Names, NEW hash \in Payloads, NEW h \in Hosts,
             NEW force \in BOOLEAN, ApplyStart(p, n, hash, h, force)
      PROVE  SoloInv' /\ SoloStep
  <2> DEFINE j == [NoJob EXCEPT !.name = n, !.hash = hash,
                                !.host = h, !.force = force]
  <2>1. j.name = n /\ j.force = force
    BY DEF NoJob
  <2>2. ~Settled(file, n) /\ (Submitted(file, n) => force)
    BY <1>1, ProceedMeans DEF ApplyStart
  <2>3. Begin(p, "gates", j) /\ UNCHANGED <<fileVars, netVars>>
    BY <1>1 DEF ApplyStart
  <2> HIDE DEF j
  <2> QED
    BY <2>1, <2>2, <2>3, SoloBegin
<1>2. CASE ApplyStops(p)
  <2>1. file' = file /\ chain' = chain /\ late' = late
    BY <1>2 DEF ApplyStops, fileVars, netVars
  <2>2. NoUnforcedResubmission'
    BY <2>1 DEF SoloInv, NoUnforcedResubmission
  <2> QED
    BY <1>2, <2>1, <2>2, SoloEnd DEF ApplyStops
<1>3. CASE SubmitAccepted(p) \/ SubmitTimesOut(p)
  <2>1. ~ApplyCall(p).unguarded
    BY <1>3 DEF SubmitAccepted, SubmitTimesOut, ApplyCall, SoloInv
  <2>2. CASE SubmitAccepted(p)
    <3>1. PICK i \in Pids : /\ Execute(ApplyCall(p), i)
                            /\ job' = [job EXCEPT ![p].pid = i]
      BY <2>2 DEF SubmitAccepted
    <3>2. /\ file' = file /\ mem' = mem /\ late' = late
          /\ pc[p] = "gates" /\ pc'[p] = "recording"
      BY <2>2 DEF SubmitAccepted, fileVars, TypeInv, TypeOK
    <3>3. job'[p].name = job[p].name
      BY <3>1 DEF TypeInv, TypeOK, Job
    <3>4. \A h \in Hosts, i2 \in Pids : ~chain'[h][i2].unguarded
      BY <2>1, <3>1 DEF Execute, SoloInv, NoUnforcedResubmission, TypeInv,
                        TypeOK, GovernanceTypeOK
    <3>5. NoUnforcedResubmission'
      BY <3>2, <3>4 DEF SoloInv, NoUnforcedResubmission
    <3>6. mem[p] = file /\ ~Settled(file, job[p].name)
      BY <3>2 DEF SoloInv
    <3>7. mem'[p] = file' /\ ~Settled(file', job'[p].name)
      BY <3>2, <3>3, <3>6
    <3> QED
      BY <3>2, <3>5, <3>7 DEF SoloInv, SoloStep
  <2>3. CASE SubmitTimesOut(p)
    <3>1. /\ file' = file /\ chain' = chain
          /\ late' = late \union {ApplyCall(p)} /\ pc[p] = "gates"
      BY <2>3 DEF SubmitTimesOut, fileVars
    <3>2. NoUnforcedResubmission'
      BY <2>1, <3>1 DEF SoloInv, NoUnforcedResubmission
    <3> QED
      BY <2>3, <3>1, <3>2, SoloEnd DEF SubmitTimesOut
  <2> QED
    BY <1>3, <2>2, <2>3
<1>4. CASE ApplyRecord(p)
  <2>1. mem[p] = file /\ ~Settled(file, job[p].name) /\ pc[p] = "recording"
    BY <1>4 DEF ApplyRecord, SoloInv
  <2>2. \A n \in Names : n # job[p].name => file'[n] = file[n]
    BY <1>4, <2>1
    DEF ApplyRecord, SaveState, RecordSubmission, TypeInv, TypeOK, ProposalMap
  <2>3. chain' = chain /\ late' = late
    BY <1>4 DEF ApplyRecord, netVars
  <2>4. NoUnforcedResubmission'
    BY <2>3 DEF SoloInv, NoUnforcedResubmission
  <2> QED
    BY <1>4, <2>1, <2>2, <2>4, SoloEnd DEF ApplyRecord
<1> QED
  BY <1>1, <1>2, <1>3, <1>4 DEF Apply

LEMMA SoloImport ==
  ASSUME NEW p, Procs = {p}, TypeInv, SoloInv, ImportCmd(p)
  PROVE  SoloInv' /\ SoloStep
<1>1. ASSUME NEW n \in Names, NEW i \in Pids, NEW hash \in Payloads,
             NEW h \in Hosts, ImportStart(p, n, i, hash, h)
      PROVE  SoloInv' /\ SoloStep
  <2> DEFINE j == [NoJob EXCEPT !.name = n, !.hash = hash, !.host = h, !.pid = i]
  <2>1. j.name = n
    BY DEF NoJob
  <2>2. /\ Begin(p, "importing", j) /\ UNCHANGED <<fileVars, netVars>>
        /\ file[n] = NoEntry
    BY <1>1 DEF ImportStart, CanImport
  <2> HIDE DEF j
  <2> QED
    BY <2>1, <2>2, SoloBegin
<1>2. CASE ImportSave(p)
  <2>1. mem[p] = file /\ file[job[p].name] = NoEntry /\ pc[p] = "importing"
    BY <1>2 DEF ImportSave, SoloInv
  <2>2. \A n \in Names : n # job[p].name => file'[n] = file[n]
    BY <1>2, <2>1
    DEF ImportSave, SaveState, Import, TypeInv, TypeOK, ProposalMap
  <2>3. ~Settled(file, job[p].name)
    BY <2>1 DEF Settled, Submitted
  <2>4. chain' = chain /\ late' = late
    BY <1>2 DEF ImportSave, netVars
  <2>5. NoUnforcedResubmission'
    BY <2>4 DEF SoloInv, NoUnforcedResubmission
  <2> QED
    BY <1>2, <2>1, <2>2, <2>3, <2>5, SoloEnd DEF ImportSave
<1> QED
  BY <1>1, <1>2 DEF ImportCmd

\* A step inside status or reconcile touches neither the file nor the network.
LEMMA SoloInner ==
  ASSUME NEW p, Procs = {p}, TypeInv, SoloInv, pc[p] \in {"status", "reconcile"},
         pc' = pc, UNCHANGED <<fileVars, netVars>>,
         pc[p] = "reconcile" => mem' = mem,
         pc[p] = "status" =>
           \A n \in Names : Settled(file, n) => mem'[p][n] = file[n]
  PROVE  SoloInv' /\ SoloStep
<1>1. file' = file /\ chain' = chain /\ late' = late
  BY DEF fileVars, netVars
<1>2. NoUnforcedResubmission'
  BY <1>1 DEF SoloInv, NoUnforcedResubmission
<1>3. \A n : Settled(file', n) = Settled(file, n)
  BY <1>1
<1> QED
  BY <1>1, <1>2, <1>3 DEF SoloInv, SoloStep

LEMMA SoloStatus ==
  ASSUME NEW p, Procs = {p}, TypeInv, CompleteInv, SoloInv, Status(p)
  PROVE  SoloInv' /\ SoloStep
<1>1. ASSUME NEW names \in SUBSET Names, NEW h \in Hosts,
             NEW refresh \in BOOLEAN, StatusStart(p, names, h, refresh)
      PROVE  SoloInv' /\ SoloStep
  <2>1. PICK j : Begin(p, "status", j)
    BY <1>1 DEF StatusStart
  <2> QED
    BY <1>1, <2>1, SoloBegin DEF StatusStart
<1>2. ASSUME NEW m \in Names, StatusPasses(p, m)
      PROVE  SoloInv' /\ SoloStep
  <2>1. /\ pc[p] = "status" /\ pc' = pc /\ mem' = mem
        /\ UNCHANGED <<fileVars, netVars>>
    BY <1>2 DEF StatusPasses, StatusVisits
  <2> QED
    BY <2>1, SoloInner DEF SoloInv
<1>3. ASSUME NEW m \in Names, StatusObserves(p, m)
      PROVE  SoloInv' /\ SoloStep
  <2>1. /\ pc[p] = "status" /\ pc' = pc /\ UNCHANGED <<fileVars, netVars>>
        /\ Submitted(mem[p], m)
    BY <1>3 DEF StatusObserves, StatusVisits, NeedsQuery
  <2>2. PICK o \in FetchProposalStatus(job[p].host, mem[p][m].pid) :
          mem' = [mem EXCEPT ![p] = Record(mem[p], m, o)]
    BY <1>3 DEF StatusObserves
  <2>3. mem[p] \in ProposalMap /\ mem'[p] = Record(mem[p], m, o)
    BY <2>2 DEF TypeInv, TypeOK
  <2>4. o \in Observation /\ o.at = "chain"
    <3>1. job[p] \in Job
      BY DEF TypeInv, TypeOK
    <3>2. mem[p][m] \in Entry
      BY <2>1, <2>3 DEF Submitted, ProposalMap
    <3>3. job[p].host \in Hosts /\ mem[p][m].pid \in Pids
      BY <2>1, <3>1, <3>2 DEF Job, Entry, Submitted
    <3> QED
      BY <2>2, <3>3, ObservationType, ObservationFields DEF TypeInv, TypeOK
  <2>5. ASSUME NEW n \in Names, Settled(file, n)
        PROVE  mem'[p][n] = file[n]
    <3>1. mem[p][n] = file[n]
      BY <2>1, <2>5 DEF SoloInv
    <3>2. CASE n # m
      BY <2>3, <3>1, <3>2, RecordFrame
    <3>3. CASE n = m
      <4>1. Settled(mem[p], m) /\ CompleteEntry(mem[p][m])
        BY <2>5, <3>1, <3>3 DEF Settled, Submitted, CompleteInv, Copies
      <4> QED
        BY <2>3, <2>4, <3>1, <3>3, <4>1, RecordKeepsSettled
    <3> QED
      BY <3>2, <3>3
  <2> QED
    BY <2>1, <2>5, SoloInner
<1>4. CASE StatusSave(p)
  <2>1. pc[p] = "status" /\ End(p) /\ file' = mem[p] /\ UNCHANGED netVars
    BY <1>4 DEF StatusSave, SaveState
  <2>2. \A n \in Names : Settled(file, n) => file'[n] = file[n]
    BY <2>1 DEF SoloInv
  <2>3. NoUnforcedResubmission'
    BY <2>1 DEF SoloInv, NoUnforcedResubmission, netVars
  <2> QED
    BY <2>1, <2>2, <2>3, SoloEnd
<1>5. CASE StatusEnd(p)
  <2>1. pc[p] = "status" /\ End(p) /\ UNCHANGED <<fileVars, netVars>>
    BY <1>5 DEF StatusEnd
  <2>2. NoUnforcedResubmission'
    BY <2>1 DEF SoloInv, NoUnforcedResubmission, netVars
  <2> QED
    BY <2>1, <2>2, SoloEnd DEF fileVars
<1> QED
  BY <1>1, <1>2, <1>3, <1>4, <1>5 DEF Status

LEMMA SoloReconcile ==
  ASSUME NEW p, Procs = {p}, TypeInv, SoloInv, Reconcile(p)
  PROVE  SoloInv' /\ SoloStep
<1>1. ASSUME NEW cs \in SUBSET ChipIds, NEW refresh \in BOOLEAN,
             ReconcileStart(p, cs, refresh)
      PROVE  SoloInv' /\ SoloStep
  <2>1. PICK j : Begin(p, "reconcile", j)
    BY <1>1 DEF ReconcileStart
  <2> QED
    BY <1>1, <2>1, SoloBegin DEF ReconcileStart
<1>2. ASSUME NEW c \in ChipIds, ReconcileVerify(p, c) \/ ReconcileCached(p, c)
      PROVE  SoloInv' /\ SoloStep
  <2>1. /\ pc[p] = "reconcile" /\ pc' = pc /\ mem' = mem
        /\ UNCHANGED <<fileVars, netVars>>
    BY <1>2 DEF ReconcileVerify, ReconcileCached
  <2> QED
    BY <2>1, SoloInner
<1>3. CASE ReconcileEnd(p)
  <2>1. /\ pc[p] = "reconcile" /\ End(p) /\ file' \in {mem[p], file}
        /\ UNCHANGED netVars
    BY <1>3 DEF ReconcileEnd, SaveState, fileVars
  <2>2. file' = file
    BY <2>1 DEF SoloInv
  <2>3. NoUnforcedResubmission'
    BY <2>1 DEF SoloInv, NoUnforcedResubmission, netVars
  <2> QED
    BY <2>1, <2>2, <2>3, SoloEnd
<1> QED
  BY <1>1, <1>2, <1>3 DEF Reconcile

LEMMA SoloInit == Init => SoloInv
  BY DEF Init, GovernanceInit, NoProposal, SoloInv, NoUnforcedResubmission

LEMMA SoloNext ==
  ASSUME NEW p, Procs = {p}
  PROVE  TypeInv /\ CompleteInv /\ SoloInv /\ [Next]_vars =>
           SoloInv' /\ [SoloStep]_vars
<1> SUFFICES ASSUME TypeInv, CompleteInv, SoloInv, [Next]_vars
             PROVE  SoloInv' /\ SoloStep
  OBVIOUS
<1>1. CASE UNCHANGED <<file, chain, late, mem, pc, job>>
  <2>1. NoUnforcedResubmission'
    BY <1>1 DEF SoloInv, NoUnforcedResubmission
  <2>2. \A n : /\ Settled(file', n) = Settled(file, n)
               /\ Submitted(file', n) = Submitted(file, n)
    BY <1>1
  <2> QED
    BY <1>1, <2>1, <2>2 DEF SoloInv, SoloStep
<1>2. ASSUME Network PROVE SoloInv' /\ SoloStep
  <2>1. \A h \in Hosts, i \in Pids : ~chain'[h][i].unguarded
    <3>1. ASSUME NEW g \in Hosts, NEW j \in Pids,
                 NEW s \in LiveStates \union TerminalStates, SetState(g, j, s),
                 NEW h \in Hosts, NEW i \in Pids
          PROVE  ~chain'[h][i].unguarded
      BY <3>1 DEF SetState, SoloInv, NoUnforcedResubmission, TypeInv, TypeOK,
                  GovernanceTypeOK, Proposal
    <3>2. ASSUME NEW g \in Hosts, NEW j \in Pids,
                 Decide(g, j) \/ Conclude(g, j) \/ OthersPropose(g, j),
                 NEW h \in Hosts, NEW i \in Pids
          PROVE  ~chain'[h][i].unguarded
      <4>1. \E s \in LiveStates \union TerminalStates : SetState(g, j, s)
        BY <3>2 DEF Decide, Conclude, OthersPropose, LiveStates, TerminalStates
      <4> QED
        BY <4>1, <3>1
    <3>3. ASSUME NEW g \in Hosts, NEW j \in Pids, Purge(g, j),
                 NEW h \in Hosts, NEW i \in Pids
          PROVE  ~chain'[h][i].unguarded
      BY <3>3 DEF Purge, SoloInv, NoUnforcedResubmission, TypeInv, TypeOK,
                  GovernanceTypeOK, Proposal
    <3>4. ASSUME NEW c \in late, LateExecute(c),
                 NEW h \in Hosts, NEW i \in Pids
          PROVE  ~chain'[h][i].unguarded
      BY <3>4 DEF LateExecute, Execute, SoloInv, NoUnforcedResubmission,
                  TypeInv, TypeOK, GovernanceTypeOK
    <3>5. ASSUME NEW c \in late, LateExpire(c)
          PROVE  \A h \in Hosts, i \in Pids : ~chain'[h][i].unguarded
      BY <3>5 DEF LateExpire, SoloInv, NoUnforcedResubmission
    <3> QED
      BY <1>2, <3>2, <3>3, <3>4, <3>5 DEF Network, GovernanceStep
  <2>2. late' \subseteq late
    BY <1>2 DEF Network, GovernanceStep, Decide, Conclude, Purge,
                OthersPropose, LateExecute, LateExpire
  <2>3. NoUnforcedResubmission'
    BY <2>1, <2>2 DEF SoloInv, NoUnforcedResubmission
  <2>4. UNCHANGED <<file, mem, pc, job>>
    BY <1>2 DEF Network, fileVars, procVars
  <2>5. \A n : /\ Settled(file', n) = Settled(file, n)
               /\ Submitted(file', n) = Submitted(file, n)
    BY <2>4
  <2> QED
    BY <2>3, <2>4, <2>5 DEF SoloInv, SoloStep
<1>3. CASE Crash(p)
  <2>1. /\ pc[p] \in PcState /\ End(p) /\ file' = file
        /\ UNCHANGED <<chain, late>>
    BY <1>3 DEF Crash, TypeInv, TypeOK, fileVars, netVars
  <2>2. NoUnforcedResubmission'
    BY <2>1 DEF SoloInv, NoUnforcedResubmission
  <2> QED
    BY <2>1, <2>2, SoloEnd
<1> QED
  BY <1>1, <1>2, <1>3, SoloApply, SoloImport, SoloStatus, SoloReconcile
  DEF Next, Revoke, fileVars, procVars, netVars, vars

(***************************************************************************)
(* With one alp command at a time, a block whose submission is on record   *)
(* is submitted again only with --force, however long the dry run and the  *)
(* confirmation take (apply, ApplyDecision).                               *)
(***************************************************************************)
THEOREM SoloNeverResubmits ==
  ASSUME NEW p, Procs = {p}
  PROVE  Spec => []NoUnforcedResubmission
<1>1. SoloInv => NoUnforcedResubmission
  BY DEF SoloInv
<1>2. TypeInv /\ CompleteInv /\ SoloInv /\ [Next]_vars => SoloInv'
  BY SoloNext
<1> QED
  BY <1>1, <1>2, InitType, NextType, CompleteInit, CompleteNext, SoloInit,
     PTL DEF Spec

(***************************************************************************)
(* With one alp command at a time, an entry on record as settled never     *)
(* changes again (RecordState, status).                                    *)
(***************************************************************************)
THEOREM SoloSettledIsFinal ==
  ASSUME NEW p, Procs = {p}
  PROVE  Spec => SettledIsFinal
<1> DEFINE Final == \A n \in Names : Settled(file, n) => file'[n] = file[n]
<1>1. TypeInv /\ CompleteInv /\ SoloInv /\ [Next]_vars => SoloInv' /\ [Final]_vars
  BY SoloNext DEF SoloStep
<1>2. SettledIsFinal <=> [][Final]_vars
  BY DEF SettledIsFinal
<1> HIDE DEF Final
<1> QED
  BY <1>1, <1>2, InitType, NextType, CompleteInit, CompleteNext, SoloInit,
     PTL DEF Spec

(***************************************************************************)
(* With one alp command at a time, reconcile leaves the record of          *)
(* submissions as it found it (reconcile, verifyChips).                    *)
(***************************************************************************)
THEOREM SoloReconcileIsReadOnly ==
  ASSUME NEW solo, Procs = {solo}
  PROVE  Spec => ReconcileIsReadOnly
<1>1. TypeInv /\ CompleteInv /\ SoloInv /\ [Next]_vars =>
        /\ SoloInv'
        /\ [\A p \in Procs :
              pc[p] = "reconcile" /\ pc'[p] = "idle" => file' = file]_vars
  BY SoloNext DEF SoloStep
<1> QED
  BY <1>1, InitType, NextType, CompleteInit, CompleteNext, SoloInit,
     PTL DEF Spec, ReconcileIsReadOnly

-----------------------------------------------------------------------------
(* The chips of a single process. *)

\* AMD's own line never refuses a chip it vouches for.
LEMMA RefusedIsNotVouched ==
  ASSUME vouched \subseteq Genuine, NEW c \in ChipIds,
         NEW a \in KdsAnswers(c, vouched), FetchChipVerification(a) = "refused"
  PROVE  c \notin vouched
<1> SUFFICES ASSUME c \in vouched PROVE FALSE
  OBVIOUS
<1>1. \A k \in 1..Lines : a[k] = "refused"
  BY DEF FetchChipVerification
<1>2. LineOf[c] \in 1..Lines
  BY ChipsAssumption
<1>3. a[LineOf[c]] \in {"verified", "inconclusive"}
  BY <1>2 DEF KdsAnswers
<1> QED
  BY <1>1, <1>2, <1>3

\* A command's copy has every recorded chip that AMD still vouches for.
KeptInv ==
  \A p \in Procs : pc[p] # "idle" => chips \intersect vouched \subseteq memChips[p]

KeptStep == \A c \in chips \intersect vouched : c \in chips'

LEMMA KeptNext ==
  ASSUME NEW p, Procs = {p}
  PROVE  TypeInv /\ KeptInv /\ [Next]_vars => KeptInv' /\ KeptStep
<1> SUFFICES ASSUME TypeInv, KeptInv, [Next]_vars PROVE KeptInv' /\ KeptStep
  OBVIOUS
<1> USE DEF KeptInv, KeptStep, TypeInv, TypeOK
<1>1. ASSUME chips' = chips, vouched' \subseteq vouched, memChips' = memChips,
             pc[p] # "idle" \/ pc'[p] = pc[p]
      PROVE  KeptInv' /\ KeptStep
  BY <1>1
<1>2. ASSUME End(p), chips' = chips \/ (chips' = memChips[p] /\ pc[p] # "idle")
      PROVE  KeptInv' /\ KeptStep
  BY <1>2 DEF End
<1>3. ASSUME NEW l, NEW j, Begin(p, l, j), chips' = chips, vouched' = vouched
      PROVE  KeptInv' /\ KeptStep
  BY <1>3 DEF Begin
<1>4. ASSUME NEW c \in ChipIds, ReconcileVerify(p, c)
      PROVE  KeptInv' /\ KeptStep
  <2>1. PICK a \in KdsAnswers(c, vouched) :
          memChips' = [memChips EXCEPT ![p] =
            RecordVerdict(c, memChips[p], FetchChipVerification(a),
                          job[p].refresh)]
    BY <1>4 DEF ReconcileVerify
  <2>2. FetchChipVerification(a) = "refused" => c \notin vouched
    BY RefusedIsNotVouched
  <2>3. memChips[p] \intersect vouched \subseteq
          RecordVerdict(c, memChips[p], FetchChipVerification(a), job[p].refresh)
    BY <2>2 DEF RecordVerdict
  <2>4. /\ chips' = chips /\ vouched' = vouched /\ pc[p] = "reconcile"
        /\ memChips'[p] =
             RecordVerdict(c, memChips[p], FetchChipVerification(a), job[p].refresh)
    BY <1>4, <2>1 DEF ReconcileVerify, fileVars
  <2> QED
    BY <2>3, <2>4
<1>5. CASE Apply(p)
  <2>1. CASE ApplyStops(p) \/ SubmitTimesOut(p) \/ ApplyRecord(p)
    BY <1>2, <2>1 DEF ApplyStops, SubmitTimesOut, ApplyRecord, SaveState, fileVars
  <2>2. CASE SubmitAccepted(p)
    BY <1>1, <2>2 DEF SubmitAccepted, fileVars
  <2>3. ASSUME NEW n \in Names, NEW hash \in Payloads, NEW h \in Hosts,
               NEW force \in BOOLEAN, ApplyStart(p, n, hash, h, force)
        PROVE  KeptInv' /\ KeptStep
    <3>1. PICK j : Begin(p, "gates", j)
      BY <2>3 DEF ApplyStart
    <3> QED
      BY <1>3, <2>3, <3>1 DEF ApplyStart, fileVars
  <2> QED
    BY <1>5, <2>1, <2>2, <2>3 DEF Apply
<1>6. CASE ImportCmd(p)
  <2>1. ASSUME NEW n \in Names, NEW i \in Pids, NEW hash \in Payloads,
               NEW h \in Hosts, ImportStart(p, n, i, hash, h)
        PROVE  KeptInv' /\ KeptStep
    <3>1. PICK j : Begin(p, "importing", j)
      BY <2>1 DEF ImportStart
    <3> QED
      BY <1>3, <2>1, <3>1 DEF ImportStart, fileVars
  <2>2. CASE ImportSave(p)
    BY <1>2, <2>2 DEF ImportSave, SaveState
  <2> QED
    BY <1>6, <2>1, <2>2 DEF ImportCmd
<1>7. CASE Status(p)
  <2>1. ASSUME NEW names \in SUBSET Names, NEW h \in Hosts,
               NEW refresh \in BOOLEAN, StatusStart(p, names, h, refresh)
        PROVE  KeptInv' /\ KeptStep
    <3>1. PICK j : Begin(p, "status", j)
      BY <2>1 DEF StatusStart
    <3> QED
      BY <1>3, <2>1, <3>1 DEF StatusStart, fileVars
  <2>2. ASSUME NEW n \in Names, StatusPasses(p, n) \/ StatusObserves(p, n)
        PROVE  KeptInv' /\ KeptStep
    BY <1>1, <2>2 DEF StatusPasses, StatusObserves, fileVars
  <2>3. CASE StatusSave(p) \/ StatusEnd(p)
    BY <1>2, <2>3 DEF StatusSave, StatusEnd, SaveState, fileVars
  <2> QED
    BY <1>7, <2>1, <2>2, <2>3 DEF Status
<1>8. CASE Reconcile(p)
  <2>1. ASSUME NEW cs \in SUBSET ChipIds, NEW refresh \in BOOLEAN,
               ReconcileStart(p, cs, refresh)
        PROVE  KeptInv' /\ KeptStep
    <3>1. PICK j : Begin(p, "reconcile", j)
      BY <2>1 DEF ReconcileStart
    <3> QED
      BY <1>3, <2>1, <3>1 DEF ReconcileStart, fileVars
  <2>2. ASSUME NEW c \in ChipIds, ReconcileCached(p, c)
        PROVE  KeptInv' /\ KeptStep
    BY <1>1, <2>2 DEF ReconcileCached, fileVars
  <2>3. CASE ReconcileEnd(p)
    BY <1>2, <2>3 DEF ReconcileEnd, SaveState, fileVars
  <2> QED
    BY <1>4, <1>8, <2>1, <2>2, <2>3 DEF Reconcile
<1>9. CASE Crash(p)
  BY <1>2, <1>9 DEF Crash, fileVars
<1>10. CASE Network \/ \E c \in ChipIds : Revoke(c)
  BY <1>1, <1>10 DEF Network, Revoke, fileVars, procVars
<1>11. CASE UNCHANGED vars
  BY <1>1, <1>11 DEF vars
<1> HIDE DEF KeptInv, KeptStep
<1> QED
  BY <1>5, <1>6, <1>7, <1>8, <1>9, <1>10, <1>11 DEF Next

(***************************************************************************)
(* With one alp command at a time, a chip AMD still vouches for is never   *)
(* dropped from the record, whatever the other product lines answer        *)
(* (FetchChipVerification, RefreshChips).                                  *)
(***************************************************************************)
THEOREM SoloKeepsVouched ==
  ASSUME NEW p, Procs = {p}
  PROVE  Spec => VouchedChipIsKept
<1> DEFINE Kept == \A c \in chips \intersect vouched : c \in chips'
<1>1. Init => KeptInv
  BY DEF Init, KeptInv
<1>2. TypeInv /\ KeptInv /\ [Next]_vars => KeptInv' /\ [Kept]_vars
  BY KeptNext DEF KeptStep
<1>3. VouchedChipIsKept <=> [][Kept]_vars
  BY DEF VouchedChipIsKept
<1> HIDE DEF Kept
<1> QED
  BY <1>1, <1>2, <1>3, InitType, NextType, PTL DEF Spec

-----------------------------------------------------------------------------
(* What is recorded never runs ahead of the network. *)

Rank(s) == JournalOf!Rank(s)

Seen == LiveStates \union TerminalStates

LEMMA SeenOrNot == /\ Rank("") = 0
                   /\ \A s \in ProposalState : s = "" \/ s \in Seen
  BY Zenon DEF Rank, JournalOf!Rank, ProposalState, Seen

LEMMA RankOrder ==
  ASSUME NEW s \in Seen, NEW t \in Seen
  PROVE  /\ Rank(s) \in 1..3 /\ Rank(t) \in 1..3
         /\ (s # "open" => t # "open") /\ (Terminal(s) => t = s)
              => Rank(s) <= Rank(t)
<1> DEFINE a == Rank(s)
           b == Rank(t)
<1>1. /\ s = "open" => a = 1
      /\ s = "adopted" => a = 2
      /\ s \in TerminalStates => a = 3
  BY Zenon DEF Rank, JournalOf!Rank, TerminalStates
<1>2. /\ t = "open" => b = 1
      /\ t = "adopted" => b = 2
      /\ t \in TerminalStates => b = 3
  BY Zenon DEF Rank, JournalOf!Rank, TerminalStates
<1> HIDE DEF a, b
<1>3. a \in 1..3 /\ b \in 1..3
  BY <1>1, <1>2 DEF Seen, LiveStates
<1>4. ASSUME s # "open" => t # "open", Terminal(s) => t = s
      PROVE  a <= b
  BY <1>1, <1>2, <1>3, <1>4 DEF Seen, LiveStates, TerminalStates, Terminal
<1> QED
  BY <1>3, <1>4 DEF a, b

LEMMA RankRange == \A s \in ProposalState : Rank(s) \in 0..3
<1> SUFFICES ASSUME NEW s \in ProposalState PROVE Rank(s) \in 0..3
  OBVIOUS
<1>1. Rank(s) = 0 \/ s \in Seen
  BY Zenon, SeenOrNot
<1> QED
  BY <1>1, RankOrder

Behind(e) ==
  e.status # "" =>
    /\ Exists(e.host, e.pid)
    /\ Rank(e.status) <= Rank(chain[e.host][e.pid].state)

\* Of every copy of the file.
BehindInv ==
  \A n \in Names : \A e \in Copies(n) : e # NoEntry /\ e.pid # 0 => Behind(e)

\* A proposal only moves forward.
LEMMA StateAdvances ==
  ASSUME TypeInv, TypeInv', [Next]_vars, NEW h \in Hosts, NEW i \in Pids,
         Exists(h, i)
  PROVE  Exists(h, i)' /\ Rank(chain[h][i].state) <= Rank(chain'[h][i].state)
<1> DEFINE s == chain[h][i].state
           t == chain'[h][i].state
<1>1. /\ Exists(h, i)' /\ (Terminal(s) => t = s)
      /\ s # "open" => t # "open"
  BY ChainKeeps DEF ProposalKept
<1>2. chain[h][i] \in Proposal /\ chain'[h][i] \in Proposal
  BY DEF TypeInv, TypeOK, GovernanceTypeOK
<1>3. s \in Seen /\ t \in Seen
  BY <1>1, <1>2 DEF Proposal, Exists, Seen
<1> HIDE DEF s, t
<1>4. Rank(s) <= Rank(t)
  BY <1>1, <1>3, RankOrder
<1> QED
  BY <1>1, <1>4 DEF s, t

LEMMA BehindKept ==
  ASSUME TypeInv, TypeInv', [Next]_vars, NEW e \in Entry, e.pid # 0, Behind(e)
  PROVE  Behind(e)'
<1>1. e.host \in Hosts /\ e.pid \in Pids
  BY DEF Entry
<1>2. CASE e.status = ""
  BY <1>2 DEF Behind
<1>3. CASE e.status # ""
  <2>1. Exists(e.host, e.pid) /\ Rank(e.status) <= Rank(chain[e.host][e.pid].state)
    BY <1>3 DEF Behind
  <2>2. /\ Exists(e.host, e.pid)'
        /\ Rank(chain[e.host][e.pid].state) <= Rank(chain'[e.host][e.pid].state)
    BY <1>1, <2>1, StateAdvances
  <2>3. chain[e.host][e.pid] \in Proposal /\ chain'[e.host][e.pid] \in Proposal
    BY <1>1 DEF TypeInv, TypeOK, GovernanceTypeOK
  <2>4. /\ chain[e.host][e.pid].state \in ProposalState
        /\ chain'[e.host][e.pid].state \in ProposalState
        /\ e.status \in ProposalState
    BY <2>1, <2>2, <2>3 DEF Proposal, Exists, Entry, ProposalState, Seen
  <2>5. Rank(e.status) <= Rank(chain'[e.host][e.pid].state)
    <3> DEFINE a == Rank(e.status)
               b == Rank(chain[e.host][e.pid].state)
               c == Rank(chain'[e.host][e.pid].state)
    <3>1. a \in 0..3 /\ b \in 0..3 /\ c \in 0..3
      BY <2>4, RankRange
    <3>2. a <= b /\ b <= c
      BY <2>1, <2>2
    <3> HIDE DEF a, b, c
    <3>3. a <= c
      BY <3>1, <3>2
    <3> QED
      BY <3>3 DEF a, c
  <2> QED
    BY <2>2, <2>5 DEF Behind
<1> QED
  BY <1>2, <1>3

\* An observation moves an entry that is behind forward, and not too far.
LEMMA ObservedAdvances ==
  ASSUME Hosts = {Mainnet}, TypeInv, NEW p \in Procs, NEW n \in Names,
         Submitted(mem[p], n), Behind(mem[p][n]),
         NEW o \in FetchProposalStatus(job[p].host, mem[p][n].pid)
  PROVE  LET d == mem[p][n]
             e == Record(mem[p], n, o)[n]
         IN  /\ e.pid = d.pid /\ e.hash = d.hash /\ e.host = d.host
             /\ Rank(d.status) <= Rank(e.status) /\ Behind(e)
<1> DEFINE d == mem[p][n]
           e == Record(mem[p], n, o)[n]
<1>1. mem[p] \in ProposalMap /\ job[p] \in Job
  BY DEF TypeInv, TypeOK
<1>2. /\ d \in Entry /\ d # NoEntry /\ d.pid # 0 /\ d.pid \in Pids
      /\ d.host = Mainnet /\ job[p].host = Mainnet
  BY <1>1 DEF Submitted, ProposalMap, Entry, Job
<1>3. o \in Observation /\ o.state \in {"", chain[Mainnet][d.pid].state}
  BY <1>2, ObservationType, ObservationFields DEF TypeInv, TypeOK
<1>4. e.pid = d.pid /\ e.hash = d.hash /\ e.host = d.host
  BY <1>1, <1>2, <1>3, RecordKeepsIdentity
<1>5. e.status = (IF o.state \notin {"", d.status} /\ ~Terminal(d.status)
                  THEN o.state ELSE d.status)
  BY <1>1, <1>2, <1>3, RecordFields
<1>6. d.status \in ProposalState /\ o.state \in ProposalState
  BY <1>2, <1>3 DEF Entry, Observation
<1>7. \A s \in ProposalState : Rank(s) \in 0..3
  BY RankRange
<1> HIDE DEF d, e
<1>8. CASE e.status = d.status
  <2>1. Rank(d.status) <= Rank(e.status)
    BY <1>6, <1>7, <1>8
  <2>2. Behind(e)
    BY <1>4, <1>8 DEF Behind, d
  <2> QED
    BY <1>4, <2>1, <2>2 DEF d, e
<1>9. CASE e.status # d.status
  <2>1. e.status = o.state /\ o.state # "" /\ o.state = chain[Mainnet][d.pid].state
    BY <1>3, <1>5, <1>9
  <2>2. Exists(Mainnet, d.pid)
    BY <1>6, <2>1 DEF Exists, ProposalState, LiveStates, TerminalStates
  <2>3. Rank(o.state) <= Rank(o.state)
    BY <1>6, <1>7
  <2>4. Rank(d.status) <= Rank(o.state)
    <3>1. CASE d.status = ""
      <4>1. Rank(d.status) = 0
        BY Zenon, <3>1, SeenOrNot
      <4> QED
        BY <1>6, <1>7, <4>1
    <3>2. CASE d.status # ""
      BY <1>2, <2>1, <3>2 DEF Behind, d
    <3> QED
      BY <3>1, <3>2
  <2>5. Behind(e)
    BY <1>2, <1>4, <2>1, <2>2, <2>3 DEF Behind
  <2> QED
    BY <1>4, <2>1, <2>4, <2>5 DEF d, e
<1> QED
  BY <1>8, <1>9

LEMMA FreshStatus ==
  ASSUME NEW i, NEW hash, NEW host, NEW at
  PROVE  FreshEntry(i, hash, host, at).status = ""
<1> DEFINE none == ""
<1>1. FreshEntry(i, hash, host, at) =
        [pid |-> i, hash |-> hash, host |-> host, at |-> at, status |-> none,
         resolvedAt |-> none, outcome |-> NoOutcome]
  BY Zenon DEF FreshEntry
<1> HIDE DEF none
<1>2. FreshEntry(i, hash, host, at).status = none
  BY <1>1
<1> QED
  BY Zenon, <1>2 DEF none

LEMMA BehindInit == Init => BehindInv
<1> SUFFICES ASSUME Init, NEW n \in Names, NEW e \in Copies(n), e # NoEntry
             PROVE  e.pid = 0
  BY DEF BehindInv
<1>1. Placeholder(NoProposal.hash).pid = 0
  BY DEF Placeholder, FreshEntry
<1> QED
  BY <1>1 DEF Copies, Init, NoMap

LEMMA BehindNext ==
  ASSUME Hosts = {Mainnet}
  PROVE  TypeInv /\ BehindInv /\ [Next]_vars => BehindInv'
<1> SUFFICES ASSUME TypeInv, BehindInv, [Next]_vars,
                    NEW n \in Names, NEW e \in Copies(n)', e # NoEntry, e.pid # 0
             PROVE  Behind(e)'
  BY DEF BehindInv
<1>1. TypeInv'
  BY NextType
<1>2. e \in Entry
  <2>1. file' \in ProposalMap /\ \A p \in Procs : mem'[p] \in ProposalMap
    BY <1>1 DEF TypeInv, TypeOK
  <2> QED
    BY <2>1 DEF Copies, ProposalMap
<1>3. Behind(e)
  <2>1. Origin(n, e)
    BY EntryOrigins
  <2>2. CASE e \in Copies(n)
    BY <2>2 DEF BehindInv
  <2>3. CASE SubmittedEntry(n, e) \/ ImportedEntry(n, e)
    <3>1. e.status = ""
      <4>1. \E i, hash, host, at : e = FreshEntry(i, hash, host, at)
        BY <2>3 DEF SubmittedEntry, ImportedEntry
      <4> QED
        BY Zenon, <4>1, FreshStatus
    <3> QED
      BY <3>1 DEF Behind
  <2>4. CASE ObservedEntry(n, e)
    <3>1. PICK p \in Procs :
            /\ Submitted(mem[p], n)
            /\ \E o \in FetchProposalStatus(job[p].host, mem[p][n].pid) :
                 e = Record(mem[p], n, o)[n]
      BY <2>4 DEF ObservedEntry
    <3>2. Behind(mem[p][n])
      BY <3>1 DEF BehindInv, Copies, Submitted
    <3> QED
      BY <3>1, <3>2, ObservedAdvances
  <2> QED
    BY <2>1, <2>2, <2>3, <2>4 DEF Origin
<1> QED
  BY <1>1, <1>2, <1>3, BehindKept

-----------------------------------------------------------------------------
(* The refinement of Journal. *)

PageOf(ps, n) == IF Submitted(ps, n) THEN ps[n] ELSE NoEntry
Pages == [n \in Names |-> PageOf(file, n)]
Advances(d, e) == JournalOf!Advances(d, e)

\* What status holds is the file's pages, some of them brought up to date.
AdvanceInv ==
  \A p \in Procs : pc[p] = "status" =>
    \A n \in Names : Advances(PageOf(file, n), PageOf(mem[p], n))

\* Journal's words for a page and for a settled one are those of StateFile.
LEMMA SameWords == /\ JournalOf!Entry = Entry
                   /\ \A x : JournalOf!Terminal(x) <=> Terminal(x)
<1>1. JournalOf!TerminalStates = TerminalStates
  BY Zenon DEF JournalOf!TerminalStates, TerminalStates
<1>2. JournalOf!ProposalState = ProposalState
  BY Zenon, <1>1
  DEF JournalOf!ProposalState, ProposalState, JournalOf!LiveStates, LiveStates
<1>3. JournalOf!Outcome = Outcome
  BY Zenon, <1>1 DEF JournalOf!Outcome, Outcome, JournalOf!Source, Source
<1> QED
  BY Zenon, <1>1, <1>2, <1>3
  DEF JournalOf!Entry, Entry, JournalOf!Terminal, Terminal

JournalStep == JournalOf!JournalNext \/ Pages' = Pages

LEMMA JournalNextIs ==
  JournalOf!JournalNext <=>
    \/ \A n \in Names : Advances(Pages[n], Pages'[n])
    \/ \E n \in Names : JournalOf!Start(n)
  BY DEF JournalOf!JournalNext, JournalOf!Observation, Advances, Pages, PageOf

\* The file stays, and so does a copy that status already had.
LEMMA JournalQuiet ==
  ASSUME NEW p, Procs = {p}, AdvanceInv, file' = file,
         pc'[p] = "status" =>
           (pc[p] = "status" /\ mem'[p] = mem[p]) \/ mem'[p] = file
  PROVE  AdvanceInv' /\ JournalStep
<1>1. Pages' = Pages
  BY DEF Pages, PageOf, Submitted
<1>2. ASSUME pc'[p] = "status", NEW n \in Names
      PROVE  Advances(PageOf(file', n), PageOf(mem'[p], n))
  <2>1. CASE pc[p] = "status" /\ mem'[p] = mem[p]
    BY <2>1 DEF AdvanceInv
  <2>2. CASE mem'[p] = file
    BY <2>2 DEF Advances, JournalOf!Advances
  <2> QED
    BY <1>2, <2>1, <2>2
<1> QED
  BY <1>1, <1>2 DEF AdvanceInv, JournalStep

\* The status of an entry nobody has observed yet.
Unseen == ""

LEMMA JournalStarts ==
  ASSUME NEW p, Procs = {p}, TypeInv, TypeInv', End(p), NEW n \in Names,
         ~Settled(file, n), NEW e \in Entry, e.pid # 0, e.status = Unseen,
         file' = [file EXCEPT ![n] = e]
  PROVE  AdvanceInv' /\ JournalStep
<1>1. file \in ProposalMap /\ file' \in ProposalMap
  BY DEF TypeInv, TypeOK
<1>2. Pages' = [m \in Names |-> IF m = n THEN e ELSE Pages[m]]
  BY Zenon, <1>1, NoEntryAssumption DEF Pages, PageOf, Submitted, ProposalMap
<1>3. JournalOf!Start(n)
  <2>1. \A m \in Names : Pages[m] \in JournalOf!Page \union {NoEntry}
    BY <1>1, SameWords DEF Pages, PageOf, Submitted, ProposalMap, JournalOf!Page
  <2>2. e \in JournalOf!Page
    BY SameWords DEF JournalOf!Page
  <2>3. /\ Pages' \in [Names -> JournalOf!Page \union {NoEntry}]
        /\ Pages'[n] = e
        /\ \A m \in Names \ {n} : Pages'[m] = Pages[m]
    BY <1>2, <2>1, <2>2
  <2>4. e # NoEntry
    BY NoEntryAssumption
  <2>5. JournalOf!Open(Pages[n])
    BY SameWords DEF Pages, PageOf, Settled, JournalOf!Open
  <2> QED
    BY Zenon, <2>3, <2>4, <2>5 DEF JournalOf!Start, Pages, PageOf, Unseen
<1>4. AdvanceInv'
  BY DEF End, TypeInv, TypeOK, AdvanceInv
<1> QED
  BY <1>3, <1>4, JournalNextIs DEF JournalStep

LEMMA JournalStatus ==
  ASSUME NEW p, Procs = {p}, Hosts = {Mainnet}, TypeInv, TypeInv', SoloInv,
         SoloInv', BehindInv, AdvanceInv, Status(p)
  PROVE  AdvanceInv' /\ JournalStep
<1>1. ASSUME NEW names \in SUBSET Names, NEW h \in Hosts,
             NEW refresh \in BOOLEAN, StatusStart(p, names, h, refresh)
      PROVE  AdvanceInv' /\ JournalStep
  <2>1. file' = file /\ mem'[p] = file
    BY <1>1 DEF StatusStart, Begin, fileVars, TypeInv, TypeOK
  <2> QED
    BY <2>1, JournalQuiet
<1>2. ASSUME NEW m \in Names, StatusPasses(p, m)
      PROVE  AdvanceInv' /\ JournalStep
  <2>1. file' = file /\ mem' = mem /\ pc[p] = "status"
    BY <1>2 DEF StatusPasses, StatusVisits, fileVars
  <2> QED
    BY <2>1, JournalQuiet
<1>3. ASSUME NEW m \in Names, StatusObserves(p, m)
      PROVE  AdvanceInv' /\ JournalStep
  <2>1. /\ file' = file /\ pc[p] = "status" /\ pc' = pc /\ Submitted(mem[p], m)
    BY <1>3 DEF StatusObserves, StatusVisits, NeedsQuery, fileVars
  <2>2. PICK o \in FetchProposalStatus(job[p].host, mem[p][m].pid) :
          mem' = [mem EXCEPT ![p] = Record(mem[p], m, o)]
    BY <1>3 DEF StatusObserves
  <2>3. mem[p] \in ProposalMap /\ mem'[p] = Record(mem[p], m, o)
    BY <2>2 DEF TypeInv, TypeOK
  <2> DEFINE d == PageOf(file, m)
             e == mem[p][m]
             f == mem'[p][m]
  <2>4. Behind(e)
    BY <2>1 DEF BehindInv, Copies, Submitted
  <2>5. /\ f.pid = e.pid /\ f.hash = e.hash /\ f.host = e.host
        /\ Rank(e.status) <= Rank(f.status)
    BY <2>1, <2>2, <2>3, <2>4, ObservedAdvances
  <2>6. e \in Entry /\ e.pid # 0 /\ PageOf(mem[p], m) = e
    BY <2>1, <2>3 DEF Submitted, PageOf, ProposalMap
  <2>7. o \in Observation
    <3>1. job[p] \in Job
      BY DEF TypeInv, TypeOK
    <3>2. job[p].host \in Hosts /\ e.pid \in Pids
      BY <2>6, <3>1 DEF Job, Entry
    <3> QED
      BY <2>2, <3>2, ObservationType DEF TypeInv, TypeOK
  <2>8. Advances(d, e)
    BY <2>1, <2>6 DEF AdvanceInv
  <2>9. Advances(d, PageOf(mem'[p], m))
    <3>1. mem'[p] \in ProposalMap /\ f \in Entry /\ PageOf(mem'[p], m) = f
      <4>1. mem'[p] \in ProposalMap
        BY DEF TypeInv, TypeOK
      <4>2. f # NoEntry
        BY <2>3, <2>6, <2>7, RecordKeepsIdentity, NoEntryAssumption
      <4> QED
        BY <2>5, <2>6, <4>1, <4>2 DEF ProposalMap, PageOf, Submitted
    <3>2. d # NoEntry
      BY <2>6, <2>8, NoEntryAssumption DEF Advances, JournalOf!Advances
    <3>3. d = file[m] /\ Submitted(file, m)
      BY <3>2 DEF PageOf
    <3>4. CASE Terminal(d.status)
      <4>1. f = d
        BY <2>1, <3>3, <3>4 DEF Settled, SoloInv
      <4> QED
        BY <3>1, <4>1 DEF Advances, JournalOf!Advances
    <3>5. CASE ~Terminal(d.status)
      <4>1. /\ e.pid = d.pid /\ e.hash = d.hash /\ e.host = d.host
            /\ e = d \/ Rank(d.status) <= Rank(e.status)
        BY <2>8 DEF Advances, JournalOf!Advances, Rank
      <4>2. Rank(d.status) <= Rank(f.status)
        <5>1. /\ Rank(d.status) \in 0..3 /\ Rank(e.status) \in 0..3
              /\ Rank(f.status) \in 0..3
          BY <2>6, <3>1, <3>3, RankRange
          DEF Entry, TypeInv, TypeOK, ProposalMap, Submitted
        <5> DEFINE i == Rank(d.status)
                   j == Rank(e.status)
                   k == Rank(f.status)
        <5>2. i \in 0..3 /\ j \in 0..3 /\ k \in 0..3
              /\ (i = j \/ i <= j) /\ j <= k
          BY <2>5, <4>1, <5>1
        <5> HIDE DEF i, j, k
        <5>3. i <= k
          BY <5>2
        <5> QED
          BY <5>3 DEF i, k
      <4>3. <<f.pid, f.hash, f.host>> = <<d.pid, d.hash, d.host>>
        BY <2>5, <4>1
      <4>4. f # NoEntry
        BY <3>1, NoEntryAssumption
      <4>5. JournalOf!Rank(d.status) <= JournalOf!Rank(f.status)
        BY <4>2 DEF Rank
      <4> QED
        BY Zenon, <3>1, <3>2, <3>5, <4>3, <4>4, <4>5, SameWords
        DEF Advances, JournalOf!Advances
    <3> QED
      BY <3>4, <3>5
  <2>10. ASSUME NEW n \in Names
        PROVE  Advances(PageOf(file', n), PageOf(mem'[p], n))
    <3>1. CASE n = m
      BY <2>1, <2>9, <3>1
    <3>2. CASE n # m
      <4>1. mem'[p][n] = mem[p][n]
        BY <2>3, <3>2, RecordFrame
      <4> QED
        BY <2>1, <4>1 DEF AdvanceInv, PageOf, Submitted
    <3> QED
      BY <3>1, <3>2
  <2> QED
    BY <2>1, <2>10 DEF AdvanceInv, JournalStep, Pages, PageOf, Submitted
<1>4. CASE StatusSave(p)
  <2>1. pc[p] = "status" /\ pc'[p] = "idle" /\ file' = mem[p]
    BY <1>4 DEF StatusSave, SaveState, End, TypeInv, TypeOK
  <2>2. \A n \in Names : Pages[n] = PageOf(file, n)
                         /\ Pages'[n] = PageOf(mem[p], n)
    BY <2>1 DEF Pages, PageOf, Submitted
  <2>3. JournalOf!JournalNext
    BY <2>1, <2>2, JournalNextIs DEF AdvanceInv
  <2> QED
    BY <2>1, <2>3 DEF AdvanceInv, JournalStep
<1>5. CASE StatusEnd(p)
  <2>1. pc'[p] = "idle" /\ file' = file
    BY <1>5 DEF StatusEnd, End, TypeInv, TypeOK, fileVars
  <2> QED
    BY <2>1, JournalQuiet
<1> QED
  BY <1>1, <1>2, <1>3, <1>4, <1>5 DEF Status

LEMMA JournalStepHolds ==
  ASSUME NEW p, Procs = {p}, Hosts = {Mainnet}, TypeInv, TypeInv', CompleteInv,
         SoloInv, SoloInv', BehindInv, AdvanceInv, [Next]_vars
  PROVE  AdvanceInv' /\ JournalStep
<1>1. CASE UNCHANGED <<file, mem, pc>>
  BY <1>1, JournalQuiet
<1>2. ASSUME End(p), file' = file
      PROVE  AdvanceInv' /\ JournalStep
  <2>1. pc'[p] = "idle"
    BY <1>2 DEF End, TypeInv, TypeOK
  <2> QED
    BY <1>2, <2>1, JournalQuiet
<1>3. ASSUME NEW l \in PcState \ {"status"}, NEW j, Begin(p, l, j), file' = file
      PROVE  AdvanceInv' /\ JournalStep
  <2>1. pc'[p] # "status"
    BY <1>3 DEF Begin, TypeInv, TypeOK
  <2> QED
    BY <1>3, <2>1, JournalQuiet
<1>4. ASSUME NEW at \in {"", "local", "chain"}, End(p),
             pc[p] \in {"recording", "importing"},
             file' = [file EXCEPT ![job[p].name] =
                        FreshEntry(job[p].pid, job[p].hash, job[p].host, at)]
      PROVE  AdvanceInv' /\ JournalStep
  <2> DEFINE n == job[p].name
             e == FreshEntry(job[p].pid, job[p].hash, job[p].host, at)
  <2>1. job[p] \in Job /\ n \in Names /\ job[p].pid \in Pids
    BY <1>4 DEF TypeInv, TypeOK, JobOK
  <2>2. e \in Entry
    BY <2>1, FreshEntryType DEF Job
  <2>3. e.pid # 0
    BY <2>1, PidsAssumption DEF FreshEntry
  <2>4. e.status = Unseen
    BY Zenon, FreshStatus DEF Unseen
  <2>5. ~Settled(file, n)
    BY <1>4 DEF SoloInv, Settled, Submitted
  <2> HIDE DEF n, e
  <2> QED
    BY <1>4, <2>1, <2>2, <2>3, <2>4, <2>5, JournalStarts DEF n, e
<1>5. CASE Apply(p)
  <2>1. CASE ApplyStops(p) \/ SubmitTimesOut(p)
    BY <1>2, <2>1 DEF ApplyStops, SubmitTimesOut, fileVars
  <2>2. CASE SubmitAccepted(p)
    <3>1. file' = file /\ pc'[p] = "recording"
      BY <2>2 DEF SubmitAccepted, fileVars, TypeInv, TypeOK
    <3> QED
      BY <3>1, JournalQuiet
  <2>3. ASSUME NEW n \in Names, NEW hash \in Payloads, NEW h \in Hosts,
               NEW force \in BOOLEAN, ApplyStart(p, n, hash, h, force)
        PROVE  AdvanceInv' /\ JournalStep
    <3>1. file' = file /\ \E j : Begin(p, "gates", j)
      BY <2>3 DEF ApplyStart, fileVars
    <3> QED
      BY <1>3, <3>1 DEF PcState
  <2>4. CASE ApplyRecord(p)
    <3>1. pc[p] = "recording" /\ End(p) /\ mem[p] = file
      BY <2>4 DEF ApplyRecord, SoloInv
    <3>2. file' = [file EXCEPT ![job[p].name] =
            FreshEntry(job[p].pid, job[p].hash, job[p].host, "local")]
      BY <2>4, <3>1 DEF ApplyRecord, SaveState, RecordSubmission
    <3> QED
      BY Zenon, <1>4, <3>1, <3>2
  <2> QED
    BY <1>5, <2>1, <2>2, <2>3, <2>4 DEF Apply
<1>6. CASE ImportCmd(p)
  <2>1. ASSUME NEW n \in Names, NEW i \in Pids, NEW hash \in Payloads,
               NEW h \in Hosts, ImportStart(p, n, i, hash, h)
        PROVE  AdvanceInv' /\ JournalStep
    <3>1. file' = file /\ \E j : Begin(p, "importing", j)
      BY <2>1 DEF ImportStart, fileVars
    <3> QED
      BY <1>3, <3>1 DEF PcState
  <2>2. CASE ImportSave(p)
    <3>1. pc[p] = "importing" /\ End(p) /\ mem[p] = file
      BY <2>2 DEF ImportSave, SoloInv
    <3>2. file' = [file EXCEPT ![job[p].name] =
            FreshEntry(job[p].pid, job[p].hash, job[p].host, "")]
      BY Zenon, <2>2, <3>1 DEF ImportSave, SaveState, Import
    <3> QED
      BY Zenon, <1>4, <3>1, <3>2
  <2> QED
    BY <1>6, <2>1, <2>2 DEF ImportCmd
<1>7. CASE Status(p)
  BY <1>7, JournalStatus
<1>8. CASE Reconcile(p)
  <2>1. ASSUME NEW cs \in SUBSET ChipIds, NEW refresh \in BOOLEAN,
               ReconcileStart(p, cs, refresh)
        PROVE  AdvanceInv' /\ JournalStep
    <3>1. file' = file /\ \E j : Begin(p, "reconcile", j)
      BY <2>1 DEF ReconcileStart, fileVars
    <3> QED
      BY <1>3, <3>1 DEF PcState
  <2>2. ASSUME NEW c \in ChipIds, ReconcileVerify(p, c) \/ ReconcileCached(p, c)
        PROVE  AdvanceInv' /\ JournalStep
    BY <1>1, <2>2 DEF ReconcileVerify, ReconcileCached, fileVars
  <2>3. CASE ReconcileEnd(p)
    BY <1>2, <2>3 DEF ReconcileEnd, SaveState, SoloInv, fileVars
  <2> QED
    BY <1>8, <2>1, <2>2, <2>3 DEF Reconcile
<1>9. CASE Crash(p)
  BY <1>2, <1>9 DEF Crash, fileVars
<1> QED
  BY <1>1, <1>5, <1>6, <1>7, <1>8, <1>9
  DEF Next, Revoke, Network, fileVars, procVars, vars

(***************************************************************************)
(* With one alp command at a time and the one network the dashboard        *)
(* indexes, state.json is a journal: a page is started by a submission or  *)
(* an import only while the block's proposal is not known to be settled,   *)
(* then only moves forward, and is final once settled (ApplyDecision,      *)
(* Import, SubmitAndRecord, status).                                       *)
(***************************************************************************)
THEOREM SoloImplementsJournal ==
  ASSUME NEW p, Procs = {p}, Hosts = {Mainnet}
  PROVE  Spec => ImplementsJournal
<1>1. Init => AdvanceInv /\ JournalOf!JournalInit
  <2> SUFFICES ASSUME Init PROVE AdvanceInv /\ JournalOf!JournalInit
    OBVIOUS
  <2>1. Placeholder(NoProposal.hash).pid = 0
    BY DEF Placeholder, FreshEntry
  <2>2. \A n \in Names : ~Submitted(file, n)
    BY <2>1 DEF Init, Submitted
  <2>3. AdvanceInv
    BY DEF Init, AdvanceInv
  <2> QED
    BY Zenon, <2>2, <2>3 DEF JournalOf!JournalInit
<1>2. TypeInv /\ CompleteInv /\ SoloInv /\ [Next]_vars => SoloInv'
  BY SoloNext
<1>3. TypeInv /\ BehindInv /\ [Next]_vars => BehindInv'
  BY BehindNext
<1>4. /\ TypeInv /\ TypeInv' /\ CompleteInv /\ SoloInv /\ SoloInv'
      /\ BehindInv /\ AdvanceInv /\ [Next]_vars
      => AdvanceInv' /\ JournalStep
  BY JournalStepHolds
<1>5. JournalStep => [JournalOf!JournalNext]_Pages
  BY DEF JournalStep
<1>6. ImplementsJournal <=>
        JournalOf!JournalInit /\ [][JournalOf!JournalNext]_Pages
  BY DEF ImplementsJournal, JournalOf!JournalSpec, Pages, PageOf
<1> HIDE DEF Pages
<1> QED
  BY <1>1, <1>2, <1>3, <1>4, <1>5, <1>6, InitType, NextType, CompleteInit,
     CompleteNext, SoloInit, BehindInit, PTL DEF Spec
=============================================================================
