------------------------------- MODULE Chips -------------------------------
(***************************************************************************)
(* AMD's verdict on the SEV-SNP chips of the declared nodes: the walk over *)
(* the KDS product lines (nns/kds.go) and the record of positive verdicts  *)
(* (nns/chipstate.go), as functions of the set of recorded chips.          *)
(***************************************************************************)
EXTENDS Naturals, FiniteSets

CONSTANTS
  ChipIds,   \* chip ids that registry records carry
  Genuine,   \* the ones AMD made
  Lines,     \* number of product lines, tried in the order 1..Lines
  LineOf     \* the product line a genuine chip belongs to

ASSUME ChipsAssumption ==
  /\ Genuine \subseteq ChipIds
  /\ Lines \in Nat \ {0}
  /\ LineOf \in [Genuine -> 1..Lines]

Verdict == {"verified", "refused", "inconclusive"}

(***************************************************************************)
(* What KDS may answer, line by line: the chip's own line has its          *)
(* certificate as long as AMD vouches for it, every other line answers     *)
(* 404, and any line may be rate-limited or unreachable.                   *)
(***************************************************************************)
KdsAnswers(c, vouched) ==
  {a \in [1..Lines -> Verdict] :
     \A k \in 1..Lines :
       a[k] \in {IF c \in vouched /\ k = LineOf[c]
                 THEN "verified" ELSE "refused", "inconclusive"}}

\* Mutant: the walk goes on past a line that would not answer.
FetchChipVerificationWalksOn(a) ==
  IF \E k \in 1..Lines : a[k] = "verified" THEN "verified" ELSE a[Lines]

\* The first line that is not a refusal decides; a refusal needs every line.
FetchChipVerification(a) ==
  CASE \A k \in 1..Lines : a[k] = "refused" -> "refused"
    [] \E k \in 1..Lines :
         a[k] = "verified" /\ \A j \in 1..(k - 1) : a[j] = "refused"
       -> "verified"
    [] OTHER -> "inconclusive"

\* A recorded chip is taken from the record unless --refresh-chips.
NeedsLookup(c, recorded, refresh) == c \notin recorded \/ refresh

\* Mutant: anything but a refusal is recorded.
RecordVerdictUnlessRefused(c, recorded, v, refresh) ==
  CASE v \in {"verified", "inconclusive"} -> recorded \union {c}
    [] v = "refused" /\ refresh           -> recorded \ {c}
    [] OTHER                              -> recorded

\* verifyChips, for one chip and its verdict.
RecordVerdict(c, recorded, v, refresh) ==
  CASE v = "verified"            -> recorded \union {c}
    [] v = "refused" /\ refresh  -> recorded \ {c}
    [] OTHER                     -> recorded

\* The saved bytes differ: a positive verdict carries a new VerifiedAt.
VerdictChanges(c, recorded, v, refresh) ==
  \/ v = "verified"
  \/ RecordVerdict(c, recorded, v, refresh) # recorded
=============================================================================
