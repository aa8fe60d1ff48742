----------------------------- MODULE MCBackupRun -----------------------------
(* Constants for model checking BackupRun: one job over two devices and one  *)
(* manual trigger of the first device, saving to a local (1) and a git (2)   *)
(* destination.                                                              *)
EXTENDS BackupRun

CONSTANTS job, trigger, d1, d2

MCTargets == [w \in Workers |-> IF w = job THEN <<d1, d2>> ELSE <<d1>>]
MCSingle == [w \in Workers |-> <<d1>>]
MCTriggerLocal == [w \in Workers |-> IF w = job THEN {1, 2} ELSE {1}]
MCJobOnly == [w \in Workers |-> IF w = job THEN {1, 2} ELSE {}]
=============================================================================
