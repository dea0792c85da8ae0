------------------------------- MODULE MCAlp -------------------------------
(* Instances of Alp for TLC. *)
EXTENDS Alp, TLC

\* One genuine chip c1, of the second of the product lines.
CONSTANT c1
MCLineOf == [c \in Genuine |-> 2]
NoLineOf == [c \in Genuine |-> 1]

ProcSymmetry == Permutations(Procs)
=============================================================================
