----------------------------- MODULE InMemoryCache -----------------------------
(***************************************************************************)
(* cache.InMemoryCache (src/cache/memory.go): a map guarded by a RWMutex,  *)
(* whose entries carry the time they were stored.  A Get holds the lock    *)
(* for its map read only: it checks the age of the entry it copied without *)
(* the lock and takes the lock again to delete an expired entry, so other  *)
(* goroutines run between the three steps of one Get.  All other methods   *)
(* are one critical section each.                                          *)
(***************************************************************************)
EXTENDS CacheClients, FiniteSets

ASSUME ConstantAssumption ==
    /\ Absent \notin Values
    /\ IsFiniteSet(Keys)
    /\ TTL \in Nat
    /\ MaxTime \in Nat

VARIABLES
    cache,      \* [Keys -> entry or Absent]
    lastSet     \* history: per key and value, 1 + the time of the last such Set

vars == <<cache, now, client, lastSet>>

Entry == [value : Values, timestamp : 0..MaxTime]
AbsentEntry == [value |-> Absent, timestamp |-> 0]

\* c.ttl > 0 && time.Since(entry.timestamp) > c.ttl
ExpiredLate(entry) == TTL > 0 /\ now > entry.timestamp + TTL + 1
Expired(entry) == TTL > 0 /\ now > entry.timestamp + TTL

PresentFresh(k) == cache[k].value # Absent /\ ~Expired(cache[k])
Present(k) == cache[k].value # Absent

\* The entry Set stores.
NewEntryAhead(v) == [value |-> v, timestamp |-> now + TTL]
NewEntry(v) == [value |-> v, timestamp |-> now]

Checking(k, e)   == [at |-> "check", key |-> k, entry |-> e]
Collecting(k, e) == [at |-> "collect", key |-> k, entry |-> e]
ListingOf(m)     == [at |-> "listed", entries |-> m]
CountOf(n)       == [at |-> "counted", n |-> n]

\* A goroutine outside Get may call any method.
Free(c) == client[c].at \notin {"check", "collect"}

Init ==
    /\ cache = [k \in Keys |-> AbsentEntry]
    /\ now = 0
    /\ client = [c \in Clients |-> Ready]
    /\ lastSet = [k \in Keys |-> [v \in Values |-> 0]]

\* Where Get goes from the age check.
AfterCheckSwapped(k, e) == IF Expired(e) THEN HitOf(k, e.value) ELSE Collecting(k, e)
AfterCheck(k, e) == IF Expired(e) THEN Collecting(k, e) ELSE HitOf(k, e.value)

-----------------------------------------------------------------------------
\* Get: the map read under RLock; an absent key is a miss at once.
GetLookup(c, k) ==
    /\ Free(c)
    /\ client' = [client EXCEPT ![c] =
                     IF Present(k) THEN Checking(k, cache[k]) ELSE MissOf(k)]
    /\ UNCHANGED <<cache, now, lastSet>>

\* Get: the age check, on the copy of the entry and without the lock.
GetCheck(c) ==
    /\ client[c].at = "check"
    /\ client' = [client EXCEPT ![c] = AfterCheck(client[c].key, client[c].entry)]
    /\ UNCHANGED <<cache, now, lastSet>>

\* Get: the deletion under Lock, of whatever the key holds by now.
GetCollect(c) ==
    /\ client[c].at = "collect"
    /\ cache' = [cache EXCEPT ![client[c].key] = AbsentEntry]
    /\ client' = [client EXCEPT ![c] = MissOf(client[c].key)]
    /\ UNCHANGED <<now, lastSet>>

\* Set: the entry and its timestamp, read from the clock inside the lock.
Set(c, k, v) ==
    /\ Free(c)
    /\ cache' = [cache EXCEPT ![k] = NewEntry(v)]
    /\ lastSet' = [lastSet EXCEPT ![k][v] = now + 1]
    /\ client' = [client EXCEPT ![c] = Ready]
    /\ UNCHANGED now

Clear(c) ==
    /\ Free(c)
    /\ cache' = [k \in Keys |-> AbsentEntry]
    /\ client' = [client EXCEPT ![c] = Ready]
    /\ UNCHANGED <<now, lastSet>>

\* Entries skips what is expired; Len counts it.
Entries(c) ==
    /\ Free(c)
    /\ client' = [client EXCEPT ![c] =
          ListingOf([k \in Keys |-> IF Expired(cache[k]) THEN Absent ELSE cache[k].value])]
    /\ UNCHANGED <<cache, now, lastSet>>

Len(c) ==
    /\ Free(c)
    /\ client' = [client EXCEPT ![c] = CountOf(Cardinality({k \in Keys : Present(k)}))]
    /\ UNCHANGED <<cache, now, lastSet>>

Tick ==
    /\ now < MaxTime
    /\ now' = now + 1
    /\ UNCHANGED <<cache, client, lastSet>>

Next ==
    \/ \E c \in Clients, k \in Keys :
          \/ GetLookup(c, k)
          \/ \E v \in Values : Set(c, k, v)
    \/ \E c \in Clients :
          \/ GetCheck(c)
          \/ GetCollect(c)
          \/ Clear(c)
          \/ Entries(c)
          \/ Len(c)
    \/ Tick

Spec == Init /\ [][Next]_vars

-----------------------------------------------------------------------------
ClientState ==
         [at : {"ready"}]
    \cup [at : {"check", "collect"}, key : Keys, entry : Entry]
    \cup [at : {"hit"}, key : Keys, value : Values]
    \cup [at : {"miss"}, key : Keys]
    \cup [at : {"listed"}, entries : [Keys -> Values \cup {Absent}]]
    \cup [at : {"counted"}, n : Nat]

(* The cache maps keys to entries or nothing, the clock stays within its    *)
(* bound and every goroutine is in one of the states of its calls.          *)
TypeOK ==
    /\ cache \in [Keys -> Entry \cup {AbsentEntry}]
    /\ now \in 0..MaxTime
    /\ client \in [Clients -> ClientState]
    /\ lastSet \in [Keys -> [Values -> 0..(MaxTime + 1)]]

\* The entry was written by a Set of its value under k, no earlier one the last.
Recorded(k, entry) ==
    /\ entry.value \in Values
    /\ entry.timestamp <= now
    /\ entry.timestamp < lastSet[k][entry.value]

(* What the three steps of Get (memory.go:36) rest on: the map, and the copy *)
(* a paused Get works on, hold entries some Set wrote, stamped in the past;  *)
(* and a Get that is about to delete holds a copy that is expired, and stays *)
(* so whatever happens before it gets the lock.                              *)
SnapshotInv ==
    /\ \A k \in Keys, v \in Values : lastSet[k][v] <= now + 1
    /\ \A k \in Keys : Present(k) => Recorded(k, cache[k])
    /\ \A c \in Clients :
          /\ ~Free(c) => Recorded(client[c].key, client[c].entry)
          /\ client[c].at = "collect" => Expired(client[c].entry)

(* Get (memory.go:36) answers with a value only within TTL of a Set of that *)
(* value under that key, however long the goroutine paused between reading  *)
(* the map and checking the age, and whatever was stored or deleted in the  *)
(* meantime.                                                                *)
ServedWithinTTL ==
    [][\A c \in Clients :
          client[c] # client'[c] /\ client'[c].at = "hit" =>
             LET set == lastSet[client'[c].key][client'[c].value]
             IN  set > 0 /\ (TTL = 0 \/ now < set + TTL)]_vars

(* Entries (memory.go:85), the source of an export, lists a value only      *)
(* within TTL of a Set of that value under that key.                        *)
ListedWithinTTL ==
    [][\A c \in Clients :
          client[c] # client'[c] /\ client'[c].at = "listed" =>
             \A k \in Keys :
                LET v == client'[c].entries[k]
                IN  v # Absent => /\ lastSet[k][v] > 0
                                  /\ TTL = 0 \/ now < lastSet[k][v] + TTL]_vars

(* Nothing leaves the cache later than TTL after it was set.                  *)
NothingStale == ServedWithinTTL /\ ListedWithinTTL

(* Get deletes with no second look at the entry (memory.go:46-50).  Short of *)
(* a Clear, an entry that has not expired can be lost in one way only: to a *)
(* Get that found an older entry of the same key expired, and this entry was *)
(* stored while that Get was running.                                       *)
FreshLostOnlyToStaleGet ==
    [][\A k \in Keys :
          /\ Present(k)
          /\ ~Expired(cache[k])
          /\ cache'[k] = AbsentEntry
          => \/ \A j \in Keys : cache'[j] = AbsentEntry
             \/ \E c \in Clients :
                   /\ client[c].at = "collect"
                   /\ client[c].key = k
                   /\ client[c].entry.timestamp < cache[k].timestamp]_vars

(* NewInMemoryCache (memory.go:22): with a TTL of zero entries never expire, *)
(* so only a Clear removes one, and it removes all.                          *)
NoTTLNoExpiry ==
    [][TTL = 0 => \/ \A k \in Keys : Present(k) => cache'[k] # AbsentEntry
                  \/ \A k \in Keys : cache'[k] = AbsentEntry]_vars

-----------------------------------------------------------------------------
\* The refinement: timestamps are forgotten, a Get is under way until it answers.
Forget(s) ==
    IF s.at \in {"check", "collect"}
    THEN [at |-> "getting", key |-> s.key, value |-> s.entry.value]
    ELSE s

Abstract == INSTANCE TranslationCache WITH
    Remote <- FALSE,
    store  <- [k \in Keys |-> cache[k].value],
    client <- [c \in Clients |-> Forget(client[c])],
    late   <- {}

(* The in-memory cache is a translation cache: every Get answers about one   *)
(* moment of its execution, a Set is seen by every Get that starts after it  *)
(* until the key is overwritten or given up, and a listing or a count is a   *)
(* snapshot.                                                                 *)
ImplementsCache == Abstract!Spec
=============================================================================
