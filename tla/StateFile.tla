----------------------------- MODULE StateFile -----------------------------
(***************************************************************************)
(* The consolidated state file of alp (nns/state.go): one record per       *)
(* proposal block, and the functions that read and update that record.     *)
(* Everything here is a pure function of a proposals map; the actions that *)
(* load, change and save a map are in module Alp.                          *)
(***************************************************************************)
EXTENDS Naturals

CONSTANTS
  Names,      \* names of proposal blocks, the keys of state.json
  Payloads,   \* payload hashes a block may have (its config can be edited)
  Pids,       \* proposal ids governance may assign, all positive
  Hosts,      \* the networks a command may be pointed at
  Mainnet,    \* the network the ICP dashboard indexes
  NoEntry,    \* a name the file does not mention
  NoOutcome   \* the nil *Outcome

ASSUME PidsAssumption == Pids \subseteq Nat \ {0}
ASSUME HostsAssumption == Mainnet \in Hosts

(***************************************************************************)
(* Lifecycle states.  "" is "never observed", and what an unrecognised     *)
(* governance or dashboard status is mapped to.                            *)
(***************************************************************************)
TerminalStates == {"executed", "rejected", "failed"}
LiveStates == {"open", "adopted"}
ProposalState == LiveStates \union TerminalStates \union {""}

Terminal(s) == s \in TerminalStates

(***************************************************************************)
(* The settled result kept for a terminal proposal.  "of" stands for the   *)
(* tally and the failure reason: they are those of one proposal of one     *)
(* network, and all a property needs is whose they are.                    *)
(***************************************************************************)
Source == {"governance", "dashboard"}

Outcome == [label : TerminalStates, source : Source, of : Hosts \X Pids]

(***************************************************************************)
(* An entry.  Kind, SubmittedBy and Neuron are written once and read by no *)
(* command, so they are left out.  at is "local" for the clock of the      *)
(* submitting machine, "chain" for the chain's own timestamp, "" when not  *)
(* known; resolvedAt is "chain" or "".  A hand-written placeholder has     *)
(* proposal id 0.                                                          *)
(***************************************************************************)
Entry == [pid : Pids \union {0}, hash : Payloads, host : Hosts,
          at : {"", "local", "chain"}, status : ProposalState,
          resolvedAt : {"", "chain"},
          outcome : Outcome \union {NoOutcome}]

ASSUME NoEntryAssumption == NoEntry \notin Entry
ASSUME NoOutcomeAssumption == NoOutcome \notin Outcome

\* A whole proposals map: what one state.json holds, and one process's copy.
ProposalMap == [Names -> Entry \union {NoEntry}]

FreshEntry(pid, hash, host, at) ==
  [pid |-> pid, hash |-> hash, host |-> host, at |-> at,
   status |-> "", resolvedAt |-> "", outcome |-> NoOutcome]

\* What a repository starts from: no record, or a placeholder with id 0.
Placeholder(hash) == FreshEntry(0, hash, Mainnet, "")

(***************************************************************************)
(* A name has a real submission on record.  ApplyDecision and status share *)
(* this test; Import asks the weaker question, whether the key is there.   *)
(***************************************************************************)
Submitted(ps, n) == ps[n] # NoEntry /\ ps[n].pid # 0

Settled(ps, n) == Submitted(ps, n) /\ Terminal(ps[n].status)

\* Mutant: --force is looked at before the recorded status.
ApplyDecisionForceFirst(ps, n, hash, force) ==
  CASE ~Submitted(ps, n) \/ force -> "proceed"
    [] Settled(ps, n) /\ ~force   -> "refuse"
    [] OTHER -> IF ps[n].hash = hash THEN "nothing-to-do" ELSE "refuse"

\* Mutant: a drifted payload is submitted again without --force.
ApplyDecisionIgnoresDrift(ps, n, hash, force) ==
  CASE ~Submitted(ps, n)                -> "proceed"
    [] Settled(ps, n)                   -> "refuse"
    [] OTHER -> IF ps[n].hash = hash /\ ~force THEN "nothing-to-do"
                ELSE "proceed"

(***************************************************************************)
(* The resubmission guard: the error verdicts are "refuse".                *)
(***************************************************************************)
ApplyDecision(ps, n, hash, force) ==
  CASE ~Submitted(ps, n)                    -> "proceed"
    [] Settled(ps, n)                       -> "refuse"
    [] Submitted(ps, n) /\ ~Settled(ps, n) /\ force -> "proceed"
    [] OTHER -> IF ps[n].hash = hash THEN "nothing-to-do" ELSE "refuse"

\* Import adopts an id for a name the file does not mention yet.
CanImport(ps, n, pid) == pid # 0 /\ ps[n] = NoEntry

Import(ps, n, pid, hash, host) ==
  [ps EXCEPT ![n] = FreshEntry(pid, hash, host, "")]

\* Mutant: the entry a name already holds is updated in place.
RecordSubmissionInPlace(ps, n, pid, hash, host) ==
  IF ps[n] = NoEntry THEN [ps EXCEPT ![n] = FreshEntry(pid, hash, host, "local")]
  ELSE [ps EXCEPT ![n].pid = pid, ![n].host = host, ![n].at = "local"]

\* SubmitAndRecord's write: a fresh entry replaces whatever the name held.
RecordSubmission(ps, n, pid, hash, host) ==
  [ps EXCEPT ![n] = FreshEntry(pid, hash, host, "local")]

(***************************************************************************)
(* Recording what status observed.  An observation o has fields source,    *)
(* state, at ("chain" when the timestamp is present), resolvedAt and of.   *)
(***************************************************************************)
RecordState(ps, n, o) ==
  IF \/ ps[n] = NoEntry
     \/ o.state \in {"", ps[n].status}
     \/ Terminal(ps[n].status)
  THEN ps
  ELSE [ps EXCEPT ![n].status = o.state,
                  ![n].resolvedAt = IF Terminal(o.state) THEN o.resolvedAt
                                    ELSE @]

RecordSubmittedAt(ps, n, o) ==
  IF ps[n] = NoEntry \/ o.at \in {"", ps[n].at}
  THEN ps
  ELSE [ps EXCEPT ![n].at = o.at]

\* Mutant: the tally of a proposal still open is cached too.
RecordOutcomeTooEarly(ps, n, o) ==
  IF ps[n] = NoEntry \/ o.state = "" \/ ps[n].outcome # NoOutcome
  THEN ps
  ELSE [ps EXCEPT ![n].outcome =
          [label |-> o.state, source |-> o.source, of |-> o.of]]

RecordOutcome(ps, n, o) ==
  IF ps[n] = NoEntry \/ ~Terminal(o.state) \/ ps[n].outcome # NoOutcome
  THEN ps
  ELSE [ps EXCEPT ![n].outcome =
          [label |-> o.state, source |-> o.source, of |-> o.of]]

\* Mutant: "changed || st.Record...", so that the first change is the last.
RecordShortCircuits(ps, n, o) ==
  LET q == RecordState(ps, n, o)
  IN IF q # ps THEN q
     ELSE RecordOutcome(RecordSubmittedAt(ps, n, o), n, o)

\* The three calls status makes for one observation, in its order.
Record(ps, n, o) ==
  RecordOutcome(RecordSubmittedAt(RecordState(ps, n, o), n, o), n, o)

\* Mutant: any recorded status is taken for a settled one.
HasAnyStatus(e) == e.status # ""

\* SettledStatus is not nil: status reports the entry without a query.
HasSettledStatus(e) == Terminal(e.status) /\ e.outcome # NoOutcome
=============================================================================
