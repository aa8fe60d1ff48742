----------------------------- MODULE MCUserAdmin -----------------------------
(* Two requests at a time over three accounts. *)
EXTENDS UserAdmin, TLC

CONSTANTS r1, r2

MCRoles == {"admin", "viewer"}
Symmetry == Permutations(Requests)
=============================================================================
