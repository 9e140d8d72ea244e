---------------------------- MODULE MCInMemoryCache ----------------------------
(* InMemoryCache with small sets for TLC. *)
EXTENDS InMemoryCache, TLC

CONSTANTS g1, g2, k1, k2, v1, v2

MCClients == {g1, g2}
MCKeys    == {k1, k2}
MCValues  == {v1, v2}

Symmetry == Permutations(MCClients) \cup Permutations(MCKeys) \cup Permutations(MCValues)
=============================================================================
