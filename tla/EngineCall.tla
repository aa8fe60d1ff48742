------------------------------ MODULE EngineCall ------------------------------
(***************************************************************************)
(* One call of a backup engine (app/modules/engines/base.py): a device, a  *)
(* credential, and in the end a configuration or an exception, of which    *)
(* the record of the failure keeps the type that classify_error            *)
(* (app/modules/retry_service.py) finds in its class and words.            *)
(*                                                                         *)
(* The device is a record of what matters to its engine.  It does not      *)
(* change during the call; what may go wrong on the way counts as a fault. *)
(***************************************************************************)
EXTENDS Naturals, Sequences

CONSTANT MaxFaults  \* faults in one call, a bound

ASSUME FaultAssumption == MaxFaults \in Nat

VARIABLES
  engine,  \* the engine
  dev,     \* the device and its credential
  pc,
  result,  \* what the call returned, or the type of its exception
  faults

callVars == <<engine, dev, pc, result, faults>>

\* What a call may return: the configuration; a JSON answer as it came; a page of the web;
\* what a device says to a command that it refuses; nothing; an archive.
Texts == {"config", "json", "page", "refusal", "nothing", "archive"}

Goto(step) == pc' = step /\ UNCHANGED result
Ends(r) == pc' = "done" /\ result' = r

Fault == faults < MaxFaults /\ faults' = faults + 1
NoFault == UNCHANGED faults
=============================================================================
