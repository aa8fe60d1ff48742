----------------------------- MODULE MCRetention -----------------------------
(* A local destination and a share. *)
EXTENDS Retention, TLC

CONSTANTS s1, s2, del, local, smb

MCLocalAndShare == <<local, smb>>
Symmetry == Permutations(Sweepers)
=============================================================================
