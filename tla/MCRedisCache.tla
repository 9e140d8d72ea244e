------------------------------ MODULE MCRedisCache ------------------------------
(* RedisCache with model values that are alike for TLC. *)
EXTENDS RedisCache, TLC

CONSTANTS c1, c2, k1, k2, v1, v2

MCClients == {c1, c2}
MCKeys    == {k1, k2}
MCValues  == {v1, v2}

Symmetry == Permutations(MCClients) \cup Permutations(MCKeys) \cup Permutations(MCValues)
=============================================================================
