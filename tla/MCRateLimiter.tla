--------------------------- MODULE MCRateLimiter ----------------------------
(***************************************************************************)
(* RateLimiter on four requests.  The requests are interchangeable, and so *)
(* are the addresses; no liveness is checked, so both may be reduced.      *)
(***************************************************************************)
EXTENDS RateLimiter, TLC

LimiterSymmetry == Permutations(Requests) \cup Permutations(Ips)
=============================================================================
