---------------------------- MODULE MCRateLimiter ----------------------------
(***************************************************************************)
(* Constants of the TLC run of RateLimiter.                                *)
(***************************************************************************)
EXTENDS RateLimiter, TLC

CONSTANTS k1, k2, r1, r2

TwoKeys     == {k1, k2}
TwoRequests == {r1, r2}

Symmetric == Permutations(TwoKeys) \cup Permutations(TwoRequests)
=============================================================================
