------------------------------ MODULE CacheClients ------------------------------
(***************************************************************************)
(* What InMemoryCache and RedisCache have in common: goroutines that share a  *)
(* cache whose entries may expire, and what a Get has answered them.          *)
(***************************************************************************)
EXTENDS CacheEntries, Naturals

CONSTANTS
    Clients,    \* goroutines that share the cache
    Absent,     \* "not in the map", redis.Nil
    TTL,        \* time to live; 0: entries never expire
    MaxTime     \* bound: the clock stops here

VARIABLES
    now,        \* the clock by which entries expire
    client      \* where each goroutine is in its call, or the answer it got last

Ready       == [at |-> "ready"]
HitOf(k, v) == [at |-> "hit", key |-> k, value |-> v]
MissOf(k)   == [at |-> "miss", key |-> k]
=============================================================================
