---------------------------- MODULE MCRateLimiter ----------------------------
(* Small instances of RateLimiter.                                          *)
EXTENDS RateLimiter, TLC

\* Requests are told apart by nothing but their order.
RequestSymmetry == Permutations(Requests)
=============================================================================
