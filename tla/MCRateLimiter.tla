---------------------------- MODULE MCRateLimiter ----------------------------
(***************************************************************************)
(* An instance of RateLimiter for TLC.                                     *)
(***************************************************************************)
EXTENDS RateLimiter, TLC

CONSTANTS k1, k2, k3, r1, r2

\* Keys are alike, and so are requests.
LimiterSymmetry == Permutations(Keys) \cup Permutations(Requests)
==============================================================================
