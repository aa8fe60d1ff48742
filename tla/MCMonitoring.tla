---------------------------- MODULE MCMonitoring ----------------------------
(* Two devices and two intervals. *)
EXTENDS Monitoring

MCIntervals == {5, 15}
=============================================================================
