---------------------------- MODULE MCRateLimiter ----------------------------
(* Five requests of one client, two of them let in per window of two seconds. *)
EXTENDS RateLimiter, TLC

CONSTANTS r1, r2, r3, r4, r5

Sym == Permutations(Calls)
=============================================================================
