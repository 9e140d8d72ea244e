------------------------------- MODULE RedisCache -------------------------------
(***************************************************************************)
(* cache.RedisCache (src/cache/redis.go): the map is a Redis server's.  A    *)
(* call sends one command and waits; the server executes it at some moment   *)
(* and the answer comes back.  Any of this can fail: the caller then sees a  *)
(* miss (Get) or an error (Set), though the server may have executed the     *)
(* command, or may still do so when it was on its way, or was sent again by  *)
(* the client library.  The server drops entries when they expire, and may   *)
(* drop them before.                                                        *)
(***************************************************************************)
EXTENDS CacheClients, FiniteSets

ASSUME RedisAssumption ==
    /\ Absent \notin Values
    /\ TTL \in Nat
    /\ MaxTime \in Nat

VARIABLES
    server,     \* [Keys -> entry], with the time at which it expires
    late        \* Sets that failed for their caller and may still be executed

redisVars == <<server, now, client, late>>

Never == MaxTime + TTL + 1

NoEntry == [value |-> Absent, expires |-> Never]

\* What the server finds under a key now.
Found(k) == IF server[k].expires <= now THEN Absent ELSE server[k].value

\* SET with an expiry, or without one when c.ttl is 0.
EntryWithoutExpiry(v) == [value |-> v, expires |-> Never]
EntryOf(v) == [value |-> v, expires |-> IF TTL > 0 THEN now + TTL ELSE Never]

Asking(k)       == [at |-> "asking", key |-> k]
Answered(k, x)  == [at |-> "answered", key |-> k, value |-> x]
Writing(k, v)   == [at |-> "writing", key |-> k, value |-> v]
Written(k, v)   == [at |-> "written", key |-> k, value |-> v]
Stored(k, v)    == [at |-> "stored", key |-> k, value |-> v]
NotStored(k, v) == [at |-> "failed", key |-> k, value |-> v]

\* A goroutine that waits for no answer may call the cache.
Idle(c) == client[c].at \in {"ready", "hit", "miss", "stored", "failed"}

Goes(c, state) == client' = [client EXCEPT ![c] = state]

RedisInit ==
    /\ server = [k \in Keys |-> NoEntry]
    /\ now = 0
    /\ client = [c \in Clients |-> Ready]
    /\ late = {}

-----------------------------------------------------------------------------
\* Get: the GET command is sent, executed and answered.
SendGet(c, k) == Idle(c) /\ Goes(c, Asking(k)) /\ UNCHANGED <<server, now, late>>

ExecuteGet(c) ==
    /\ client[c].at = "asking"
    /\ Goes(c, Answered(client[c].key, Found(client[c].key)))
    /\ UNCHANGED <<server, now, late>>

\* Get: redis.Nil is a miss, a value is a hit.
AnswerOfNil(k, x) == HitOf(k, x)
AnswerOf(k, x) == IF x = Absent THEN MissOf(k) ELSE HitOf(k, x)

GetReturns(c) ==
    /\ client[c].at = "answered"
    /\ Goes(c, AnswerOf(client[c].key, client[c].value))
    /\ UNCHANGED <<server, now, late>>

\* Any other error is a miss too.
GetFails(c) ==
    /\ client[c].at \in {"asking", "answered"}
    /\ Goes(c, MissOf(client[c].key))
    /\ UNCHANGED <<server, now, late>>

\* Set: the SET command is sent, executed and acknowledged.
SendSet(c, k, v) == Idle(c) /\ Goes(c, Writing(k, v)) /\ UNCHANGED <<server, now, late>>

PutOnServer(k, v) == server' = [server EXCEPT ![k] = EntryOf(v)]

ExecuteSet(c) ==
    /\ client[c].at = "writing"
    /\ PutOnServer(client[c].key, client[c].value)
    /\ Goes(c, Written(client[c].key, client[c].value))
    /\ UNCHANGED <<now, late>>

SetReturns(c) ==
    /\ client[c].at = "written"
    /\ Goes(c, Stored(client[c].key, client[c].value))
    /\ UNCHANGED <<server, now, late>>

\* No acknowledgement came: the client library sends the command once more, and
\* the first one may still be on its way.
Resend(c) ==
    /\ client[c].at \in {"writing", "written"}
    /\ Goes(c, Writing(client[c].key, client[c].value))
    /\ late' \in {late, late \cup {[key |-> client[c].key, value |-> client[c].value]}}
    /\ UNCHANGED <<server, now>>

\* Set returns an error, whether or not the command will be, or was, executed.
SetFails(c) ==
    /\ client[c].at \in {"writing", "written"}
    /\ Goes(c, NotStored(client[c].key, client[c].value))
    /\ late' \in {late, late \cup {[key |-> client[c].key, value |-> client[c].value]}}
    /\ UNCHANGED <<server, now>>

-----------------------------------------------------------------------------
\* A command whose caller has gone is executed, or never will be.
Arrive(set) ==
    /\ \/ PutOnServer(set.key, set.value)
       \/ UNCHANGED server
    /\ late' = late \ {set}
    /\ UNCHANGED <<now, client>>

\* The server drops an entry before its time: eviction, or a restart.
Evict(k) ==
    /\ Found(k) # Absent
    /\ server' = [server EXCEPT ![k] = NoEntry]
    /\ UNCHANGED <<now, client, late>>

ServerTick ==
    /\ now < MaxTime
    /\ now' = now + 1
    /\ UNCHANGED <<server, client, late>>

RedisNext ==
    \/ \E c \in Clients, k \in Keys : SendGet(c, k) \/ \E v \in Values : SendSet(c, k, v)
    \/ \E c \in Clients :
          \/ ExecuteGet(c)
          \/ GetReturns(c)
          \/ GetFails(c)
          \/ ExecuteSet(c)
          \/ SetReturns(c)
          \/ Resend(c)
          \/ SetFails(c)
    \/ \E set \in late : Arrive(set)
    \/ \E k \in Keys : Evict(k)
    \/ ServerTick

RedisSpec == RedisInit /\ [][RedisNext]_redisVars

-----------------------------------------------------------------------------
CallState ==
         [at : {"ready"}]
    \cup [at : {"asking", "miss"}, key : Keys]
    \cup [at : {"answered"}, key : Keys, value : Values \cup {Absent}]
    \cup [at : {"writing", "written", "hit", "stored", "failed"}, key : Keys, value : Values]

(* The server holds values or nothing and every call is at one of its stages.  *)
RedisTypeOK ==
    /\ server \in [Keys -> [value : Values \cup {Absent}, expires : 0..Never]]
    /\ now \in 0..MaxTime
    /\ client \in [Clients -> CallState]
    /\ late \subseteq [key : Keys, value : Values]

(* With a TTL (redis.go:92-99) no entry outlives it, not even one that a Set the   *)
(* caller has given up on wrote late: what is found now is gone TTL from now,      *)
(* unless it is written again.                                                     *)
ExpiresInTime == TTL > 0 => \A k \in Keys : Found(k) # Absent => server[k].expires <= now + TTL

-----------------------------------------------------------------------------
\* The refinement: a call is nothing until the server executes its command.
Promise(s) ==
    IF s.at \in {"ready", "asking", "writing", "written", "stored", "failed"} THEN Ready
    ELSE IF s.at # "answered" THEN s
    ELSE IF s.value = Absent THEN MissOf(s.key)
    ELSE [at |-> "getting", key |-> s.key, value |-> s.value]

RemoteMap == INSTANCE TranslationCache WITH
    Remote <- TRUE,
    store  <- [k \in Keys |-> Found(k)],
    client <- [c \in Clients |-> Promise(client[c])]

(* The Redis cache is a translation cache: a hit is a value that the server held    *)
(* under that key during the call, a lost connection or an expired entry is only a  *)
(* miss, and what the server holds was handed to a Set of that key, though perhaps   *)
(* to one that failed.                                                             *)
ImplementsRemoteMap == RemoteMap!Spec
=============================================================================
