--------------------------- MODULE TranslationCache ---------------------------
(***************************************************************************)
(* What a translation cache promises to its callers, whatever stores the   *)
(* entries: the interface of src/cache/cache.go as the translator relies   *)
(* on it.  The cache is a map that may forget.  A Get reads one moment of   *)
(* the map and answers with what it read, or with a miss; an entry          *)
(* disappears because a Get gave it up, because the cache was cleared or,   *)
(* when the map lives on a server (Remote), because the server dropped it;  *)
(* then calls may also fail, and a Set that failed may take effect later.   *)
(* A value is never invented and never moves to another key.               *)
(***************************************************************************)
EXTENDS CacheEntries, Naturals, FiniteSets

CONSTANTS
    Clients,    \* goroutines that call the cache
    Absent,     \* "no entry" in the range of the map, not one of Values
    Remote      \* a Boolean: the map is a server's, calls fail and entries vanish

VARIABLES
    store,      \* the map: [Keys -> Values \cup {Absent}]
    client,     \* what each client is doing, or the answer it got last
    late        \* Sets that were reported as failed and may still arrive

vars == <<store, client, late>>

Empty == [k \in Keys |-> Absent]

\* A client that is not in the middle of a Get may call the cache.
Free(c) == client[c].at # "getting"

Ready         == [at |-> "ready"]
Getting(k, v) == [at |-> "getting", key |-> k, value |-> v]
HitOf(k, v)   == [at |-> "hit", key |-> k, value |-> v]
MissOf(k)     == [at |-> "miss", key |-> k]
ListingOf(m)  == [at |-> "listed", entries |-> m]
CountOf(n)    == [at |-> "counted", n |-> n]

Init ==
    /\ store = Empty
    /\ client = [c \in Clients |-> Ready]
    /\ late = {}

-----------------------------------------------------------------------------
\* A call is on its way: it has no effect yet.
Call(c) ==
    /\ Free(c)
    /\ client' = [client EXCEPT ![c] = Ready]
    /\ UNCHANGED <<store, late>>

\* Get of a key that is there: the answer will be about this moment.
Lookup(c, k) ==
    /\ Free(c)
    /\ store[k] # Absent
    /\ client' = [client EXCEPT ![c] = Getting(k, store[k])]
    /\ UNCHANGED <<store, late>>

\* Get of a key that is not there; a remote cache also misses when it fails.
LookupMiss(c, k) ==
    /\ Free(c)
    /\ store[k] = Absent \/ Remote
    /\ client' = [client EXCEPT ![c] = MissOf(k)]
    /\ UNCHANGED <<store, late>>

Hit(c) ==
    /\ client[c].at = "getting"
    /\ client' = [client EXCEPT ![c] = HitOf(client[c].key, client[c].value)]
    /\ UNCHANGED <<store, late>>

\* The Get gives the entry up: it reports a miss and the key is gone.
GiveUp(c) ==
    /\ client[c].at = "getting"
    /\ store' = [store EXCEPT ![client[c].key] = Absent]
    /\ client' = [client EXCEPT ![c] = MissOf(client[c].key)]
    /\ UNCHANGED late

\* The answer is lost: a miss, though the key is there.
AnswerLost(c) ==
    /\ Remote
    /\ client[c].at = "getting"
    /\ client' = [client EXCEPT ![c] = MissOf(client[c].key)]
    /\ UNCHANGED <<store, late>>

Set(c, k, v) ==
    /\ Free(c)
    /\ store' = [store EXCEPT ![k] = v]
    /\ client' = [client EXCEPT ![c] = Ready]
    /\ UNCHANGED late

\* A Set fails for its caller; it may arrive nevertheless.
SetFails(c, k, v) ==
    /\ Remote
    /\ Free(c)
    /\ client' = [client EXCEPT ![c] = Ready]
    /\ late' \in {late, late \cup {[key |-> k, value |-> v]}}
    /\ UNCHANGED store

\* A Set that failed arrives, or never will.
Arrive(set) ==
    /\ store' \in {store, [store EXCEPT ![set.key] = set.value]}
    /\ late' \in {late, late \ {set}}
    /\ UNCHANGED client

Clear(c) ==
    /\ Free(c)
    /\ store' = Empty
    /\ client' = [client EXCEPT ![c] = Ready]
    /\ UNCHANGED late

\* A listing holds entries of this moment, and may leave some out.
List(c) ==
    /\ Free(c)
    /\ \E shown \in SUBSET Keys :
          client' = [client EXCEPT ![c] =
              ListingOf([k \in Keys |-> IF k \in shown THEN store[k] ELSE Absent])]
    /\ UNCHANGED <<store, late>>

Count(c) ==
    /\ Free(c)
    /\ client' = [client EXCEPT ![c] =
                     CountOf(Cardinality({k \in Keys : store[k] # Absent}))]
    /\ UNCHANGED <<store, late>>

\* The server drops entries: they expire, are evicted or lost.
Drop(gone) ==
    /\ Remote
    /\ store' = [k \in Keys |-> IF k \in gone THEN Absent ELSE store[k]]
    /\ UNCHANGED <<client, late>>

Next ==
    \/ \E c \in Clients, k \in Keys :
          \/ Lookup(c, k)
          \/ LookupMiss(c, k)
          \/ \E v \in Values : Set(c, k, v) \/ SetFails(c, k, v)
    \/ \E c \in Clients :
          \/ Call(c)
          \/ Hit(c)
          \/ GiveUp(c)
          \/ AnswerLost(c)
          \/ Clear(c)
          \/ List(c)
          \/ Count(c)
    \/ \E set \in late : Arrive(set)
    \/ \E gone \in SUBSET Keys : Drop(gone)

Spec == Init /\ [][Next]_vars
=============================================================================
