----------------------------- MODULE Governance -----------------------------
(***************************************************************************)
(* The network as alp sees it: the governance canister of each host, the   *)
(* calls still on their way to it, and the ICP dashboard.  The canister    *)
(* itself is not part of this repository: its lifecycle is modelled as     *)
(* far as nns/lifecycle.go, nns/status.go and nns/mainnet.go rely on it.   *)
(***************************************************************************)
EXTENDS StateFile, FiniteSets

CONSTANT Others   \* the author of a proposal no alp block submitted

ASSUME OthersAssumption == Others \notin Names
ASSUME PayloadsAssumption == Payloads # {}

VARIABLES
  chain,   \* chain[h][i]: proposal i of host h
  late     \* calls whose sender has given up and which may still execute

(***************************************************************************)
(* name and unguarded are history: the block a proposal was submitted      *)
(* from, and whether the call was sent without --force while state.json    *)
(* recorded a submission for that block.                                   *)
(***************************************************************************)
Call == [host : Hosts, name : Names, hash : Payloads, unguarded : BOOLEAN]

Proposal == [state : LiveStates \union TerminalStates \union {"absent"},
             purged : BOOLEAN,
             name : Names \union {Others}, hash : Payloads,
             unguarded : BOOLEAN]

NoProposal == [state |-> "absent", purged |-> FALSE, name |-> Others,
               hash |-> CHOOSE p \in Payloads : TRUE,
               unguarded |-> FALSE]

GovernanceTypeOK ==
  /\ chain \in [Hosts -> [Pids -> Proposal]]
  /\ late \subseteq Call

GovernanceInit ==
  /\ chain = [h \in Hosts |-> [i \in Pids |-> NoProposal]]
  /\ late = {}

Exists(h, i) == chain[h][i].state # "absent"

\* Ids are handed out in order, so the next one is the least still free.
IsNextPid(h, i) ==
  ~Exists(h, i) /\ \A j \in Pids : j < i => Exists(h, j)

\* make_proposal executes: the proposal exists and is open.
Execute(c, i) ==
  /\ IsNextPid(c.host, i)
  /\ chain' = [chain EXCEPT ![c.host][i] =
                 [state |-> "open", purged |-> FALSE, name |-> c.name,
                  hash |-> c.hash, unguarded |-> c.unguarded]]

-----------------------------------------------------------------------------
(* Steps of the network. *)

SetState(h, i, s) == chain' = [chain EXCEPT ![h][i].state = s]

\* Voting ends.
Decide(h, i) ==
  /\ chain[h][i].state = "open"
  /\ \E s \in {"adopted", "rejected"} : SetState(h, i, s)
  /\ UNCHANGED late

\* An adopted proposal's payload runs.
Conclude(h, i) ==
  /\ chain[h][i].state = "adopted"
  /\ \E s \in {"executed", "failed"} : SetState(h, i, s)
  /\ UNCHANGED late

\* Governance forgets a settled proposal; only the dashboard still has it.
Purge(h, i) ==
  /\ Terminal(chain[h][i].state)
  /\ ~chain[h][i].purged
  /\ chain' = [chain EXCEPT ![h][i].purged = TRUE]
  /\ UNCHANGED late

\* A proposal made with another tool, or by another proposer.
OthersPropose(h, i) ==
  /\ IsNextPid(h, i)
  /\ SetState(h, i, "open")
  /\ UNCHANGED late

\* A call its sender has given up on is executed after all, or expires.
LateExecute(c) ==
  /\ c \in late
  /\ \E i \in Pids : Execute(c, i)
  /\ late' = late \ {c}

LateExpire(c) ==
  /\ c \in late
  /\ late' = late \ {c}
  /\ UNCHANGED chain

GovernanceStep ==
  \/ \E h \in Hosts, i \in Pids :
       \/ Decide(h, i)
       \/ Conclude(h, i)
       \/ Purge(h, i)
       \/ OthersPropose(h, i)
  \/ \E c \in late : LateExecute(c) \/ LateExpire(c)

-----------------------------------------------------------------------------
(***************************************************************************)
(* FetchProposalStatus: the answers a query about id i at host h may give. *)
(* Governance answers for what it holds.  When it holds nothing the ICP    *)
(* dashboard is asked, and the dashboard indexes Mainnet whatever h is; it *)
(* may not have the id, or use a label alp does not know, which leaves the *)
(* state "".  An error or an answer from neither is no observation.        *)
(***************************************************************************)
Observation == [source : Source, state : ProposalState,
                at : {"", "chain"}, resolvedAt : {"", "chain"},
                of : Hosts \X Pids]

Observe(source, h, i, state) ==
  [source |-> source, state |-> state, at |-> "chain",
   resolvedAt |-> IF Terminal(state) THEN "chain" ELSE "",
   of |-> <<h, i>>]

FetchProposalStatus(h, i) ==
  IF Exists(h, i) /\ ~chain[h][i].purged
  THEN {Observe("governance", h, i, chain[h][i].state)}
  ELSE {Observe("dashboard", Mainnet, i, s) :
          s \in {t \in {chain[Mainnet][i].state, ""} : Exists(Mainnet, i)}}
=============================================================================
