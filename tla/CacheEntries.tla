------------------------------ MODULE CacheEntries ------------------------------
(* What a translation cache keeps (src/cache/cache.go): values under keys. *)
CONSTANTS
    Keys,       \* a content hash and a language each
    Values      \* translated texts
=============================================================================
