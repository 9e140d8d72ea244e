----------------------------- MODULE MCCacheTransfer -----------------------------
(* CacheTransfer with small sets for TLC. *)
EXTENDS CacheTransfer, TLC
Symmetry == Permutations(Keys) \cup Permutations(Values) \cup Permutations(Exporters)
=============================================================================
