----------------------------- MODULE MCDelivery -----------------------------
(* A file that fits, and one of three parts, the last of them shorter; a token *)
(* without a word of the rules, one with "429" and one with "401" in it.       *)
EXTENDS Delivery

MCTokens == {{}, {"rate_limit"}, {"auth_failure"}}
=============================================================================
