---------------------------- MODULE MCSchedules ----------------------------
(* Two expressions APScheduler parses, and one it does not. *)
EXTENDS Schedules

MCCrons == {"nightly", "hourly", "garbled"}
MCUnparsed == {"garbled"}
=============================================================================
