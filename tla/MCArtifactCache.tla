-------------------------- MODULE MCArtifactCache --------------------------
(* Instances of ArtifactCache for TLC. *)
EXTENDS ArtifactCache, TLC

CONSTANT ShortTars  \* the releases whose canisters.tar has only one canister

Tars == [r \in Releases |->
           IF r \in ShortTars THEN {"governance"} ELSE Canisters]

\* A plain install, a half-configured shell and a nix shell.
SomeEnvs == {{}, {"pocket-ic"}, Artifacts}

FewEnvs == {{}, {"pocket-ic"}}

Symmetry == Permutations(Procs)
=============================================================================
