----------------------------- MODULE MCRateLimiter -----------------------------
(* RateLimiter with model values for its goroutines, which are alike. *)
EXTENDS RateLimiter, TLC

CONSTANTS c1, c2

MCCallers == {c1, c2}
MCCrowd == {c1, c2}

Symmetry == Permutations(Callers)
=============================================================================
