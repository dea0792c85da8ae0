--------------------------- MODULE MCGuestosSync ---------------------------
(***************************************************************************)
(* An instance of GuestosSync: two releases of the variant and one of      *)
(* another, and a window shorter than the history.                         *)
(***************************************************************************)
EXTENDS GuestosSync, TLC

CONSTANTS v1, v2, v3

MCVersions == {v1, v2, v3}
MCVariant == {v1, v2}
=============================================================================
