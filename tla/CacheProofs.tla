------------------------------ MODULE CacheProofs ------------------------------
(***************************************************************************)
(* Proofs about the caches: InMemoryCache, RedisCache and CacheTransfer, one   *)
(* after the other.  They share their keys and values, and the first two their *)
(* goroutines and TTL; nothing is said of two of them at once.                *)
(***************************************************************************)
EXTENDS InMemoryCache, RedisCache, CacheTransfer, FiniteSetTheorems, TLAPS

-----------------------------------------------------------------------------
(***************************************************************************)
(* InMemoryCache, for any goroutines, keys, values and TTL.  The inductive   *)
(* invariant is TypeOK /\ SnapshotInv; the action properties and the         *)
(* refinement of TranslationCache follow from it step by step.               *)
(***************************************************************************)
Inv == TypeOK /\ SnapshotInv

\* An entry of the map with a value is an entry, and not the absent one.
LEMMA PresentEntry ==
    ASSUME TypeOK, NEW k \in Keys
    PROVE  /\ Present(k) <=> cache[k] # AbsentEntry
           /\ Present(k) => cache[k] \in Entry
           /\ cache[k].value \in Values \cup {Absent}
           /\ Present(k) => cache[k].value \in Values
BY ConstantAssumption DEF TypeOK, Present, AbsentEntry, Entry

\* A goroutine inside Get holds a key and a copy of an entry.
LEMMA InsideGet ==
    ASSUME TypeOK, NEW c \in Clients, ~Free(c)
    PROVE  /\ client[c].key \in Keys
           /\ client[c].entry \in Entry
           /\ client[c].at \in {"check", "collect"}
BY DEF TypeOK, Free, ClientState

(* The initial state satisfies the inductive invariant. *)
THEOREM InitInv == Init => Inv
<1> SUFFICES ASSUME Init PROVE Inv
  OBVIOUS
<1>1. TypeOK
  BY ConstantAssumption DEF Init, TypeOK, AbsentEntry, ClientState, Ready
<1>2. SnapshotInv
  BY DEF Init, SnapshotInv, Present, AbsentEntry, Ready, Free
<1> QED BY <1>1, <1>2 DEF Inv

(* Every method of the cache preserves the types (memory.go:34-101). *)
THEOREM TypeStep == TypeOK /\ [Next]_vars => TypeOK'
<1> SUFFICES ASSUME TypeOK, [Next]_vars PROVE TypeOK'
  OBVIOUS
<1> USE ConstantAssumption
<1>1. ASSUME NEW c \in Clients, NEW k \in Keys, GetLookup(c, k) PROVE TypeOK'
  <2>1. CASE Present(k)
    <3>1. Checking(k, cache[k]) \in ClientState
      BY <2>1, PresentEntry DEF Checking, ClientState
    <3> QED BY <1>1, <2>1, <3>1 DEF GetLookup, TypeOK
  <2>2. CASE ~Present(k)
    <3>1. MissOf(k) \in ClientState
      BY DEF MissOf, ClientState
    <3> QED BY <1>1, <2>2, <3>1 DEF GetLookup, TypeOK
  <2> QED BY <2>1, <2>2
<1>2. ASSUME NEW c \in Clients, NEW k \in Keys, NEW v \in Values, Set(c, k, v)
      PROVE  TypeOK'
  <2>1. [value |-> v, timestamp |-> now] \in Entry
    BY DEF TypeOK, Entry
  <2>2. cache' \in [Keys -> Entry \cup {AbsentEntry}]
    BY <1>2, <2>1 DEF Set, NewEntry, TypeOK
  <2>3. client' \in [Clients -> ClientState]
    BY <1>2 DEF Set, NewEntry, TypeOK, Ready, ClientState
  <2>4. lastSet' \in [Keys -> [Values -> 0..(MaxTime + 1)]]
    BY <1>2 DEF Set, NewEntry, TypeOK
  <2> QED BY <1>2, <2>2, <2>3, <2>4 DEF Set, NewEntry, TypeOK
<1>3. ASSUME NEW c \in Clients, GetCheck(c) PROVE TypeOK'
  <2>1. ~Free(c)
    BY <1>3 DEF GetCheck, AfterCheck, Free
  <2>2. /\ client[c].key \in Keys
        /\ client[c].entry \in Entry
    BY <2>1, InsideGet
  <2>3. client[c].entry.value \in Values
    BY <2>2 DEF Entry
  <2>4. /\ Collecting(client[c].key, client[c].entry) \in ClientState
        /\ HitOf(client[c].key, client[c].entry.value) \in ClientState
    BY <2>2, <2>3 DEF Collecting, HitOf, ClientState
  <2> QED BY <1>3, <2>4 DEF GetCheck, AfterCheck, TypeOK
<1>4. ASSUME NEW c \in Clients, GetCollect(c) PROVE TypeOK'
  <2>1. client[c].key \in Keys
    BY <1>4, InsideGet DEF GetCollect, Free
  <2>2. MissOf(client[c].key) \in ClientState
    BY <2>1 DEF MissOf, ClientState
  <2> QED BY <1>4, <2>1, <2>2 DEF GetCollect, TypeOK
<1>5. ASSUME NEW c \in Clients, Clear(c) PROVE TypeOK'
  BY <1>5 DEF Clear, TypeOK, Ready, ClientState
<1>6. ASSUME NEW c \in Clients, Entries(c) PROVE TypeOK'
  <2> DEFINE m == [k \in Keys |-> IF Expired(cache[k]) THEN Absent ELSE cache[k].value]
  <2>1. m \in [Keys -> Values \cup {Absent}]
    BY PresentEntry
  <2>2. ListingOf(m) \in ClientState
    BY <2>1 DEF ListingOf, ClientState
  <2> QED BY <1>6, <2>2 DEF Entries, TypeOK
<1>7. ASSUME NEW c \in Clients, Len(c) PROVE TypeOK'
  <2> DEFINE P == {k \in Keys : Present(k)}
  <2>1. IsFiniteSet(P)
    BY FS_Subset
  <2>2. Cardinality(P) \in Nat
    BY <2>1, FS_CardinalityType
  <2> HIDE DEF P
  <2>3. CountOf(Cardinality(P)) \in ClientState
    BY <2>2 DEF CountOf, ClientState
  <2>4. client' = [client EXCEPT ![c] = CountOf(Cardinality(P))]
    BY <1>7 DEF Len, P
  <2> QED BY <1>7, <2>3, <2>4 DEF Len, TypeOK
<1>8. CASE Tick
  BY <1>8 DEF Tick, TypeOK
<1>9. CASE UNCHANGED vars
  BY <1>9 DEF vars, TypeOK
<1> QED BY <1>1, <1>2, <1>3, <1>4, <1>5, <1>6, <1>7, <1>8, <1>9 DEF Next

-----------------------------------------------------------------------------
\* The clock never runs backwards, and the history follows it.
LEMMA ClockStep ==
    ASSUME TypeOK, SnapshotInv, [Next]_vars
    PROVE  /\ now <= now'
           /\ \A k \in Keys, v \in Values : /\ lastSet[k][v] <= lastSet'[k][v]
                                            /\ lastSet'[k][v] <= now' + 1
<1>1. CASE now' = now /\ lastSet' = lastSet
  BY <1>1 DEF TypeOK, SnapshotInv
<1>2. CASE Tick
  BY <1>2 DEF Tick, TypeOK, SnapshotInv
<1>3. ASSUME NEW c \in Clients, NEW k \in Keys, NEW v \in Values, Set(c, k, v)
      PROVE  /\ now <= now'
             /\ \A j \in Keys, w \in Values : /\ lastSet[j][w] <= lastSet'[j][w]
                                              /\ lastSet'[j][w] <= now' + 1
  <2>1. now' = now /\ lastSet' = [lastSet EXCEPT ![k][v] = now + 1]
    BY <1>3 DEF Set, NewEntry
  <2>2. ASSUME NEW j \in Keys, NEW w \in Values
        PROVE  lastSet'[j][w] = IF j = k /\ w = v THEN now + 1 ELSE lastSet[j][w]
    BY <2>1 DEF TypeOK
  <2> QED BY <2>1, <2>2 DEF TypeOK, SnapshotInv
<1> QED BY <1>1, <1>2, <1>3
        DEF Next, GetLookup, GetCheck, GetCollect, Clear, Entries, Len, vars

\* A record of a Set is still one after any step, and so is an expired entry.
LEMMA RecordedStep ==
    ASSUME TypeOK, SnapshotInv, TypeOK', [Next]_vars,
           NEW k \in Keys, NEW e \in Entry
    PROVE  /\ Recorded(k, e) => Recorded(k, e)'
           /\ Expired(e) => Expired(e)'
<1>1. /\ now <= now' /\ now \in Nat /\ now' \in Nat
      /\ \A v \in Values : lastSet[k][v] <= lastSet'[k][v]
    BY ClockStep, ConstantAssumption DEF TypeOK
<1>2. e.value \in Values /\ e.timestamp \in Nat
  BY ConstantAssumption DEF Entry
<1>3. lastSet[k][e.value] \in Nat /\ lastSet'[k][e.value] \in Nat
  BY <1>2, ConstantAssumption DEF TypeOK
<1>4. Recorded(k, e) => Recorded(k, e)'
  BY <1>1, <1>2, <1>3 DEF Recorded
<1>5. Expired(e) => Expired(e)'
  BY <1>1, <1>2, ConstantAssumption DEF Expired
<1> QED BY <1>4, <1>5

\* The snapshot a goroutine inside Get works on is its own: the map it was read
\* from may change, the copy and its record do not.
LEMMA MapStep ==
    ASSUME TypeOK, SnapshotInv, TypeOK', [Next]_vars, NEW k \in Keys, Present(k)'
    PROVE  Recorded(k, cache[k])'
<1>1. CASE cache'[k] = cache[k]
  <2>1. Present(k) /\ cache[k] \in Entry
    BY <1>1, PresentEntry DEF Present
  <2>2. Recorded(k, cache[k])
    BY <2>1 DEF SnapshotInv
  <2>3. Recorded(k, cache[k])' <=> /\ cache'[k].value \in Values
                                   /\ cache'[k].timestamp <= now'
                                   /\ cache'[k].timestamp < lastSet'[k][cache'[k].value]
    BY DEF Recorded
  <2>4. /\ cache[k].value \in Values
        /\ cache[k].timestamp <= now'
        /\ cache[k].timestamp < lastSet'[k][cache[k].value]
    <3> DEFINE e == cache[k]
    <3>1. e.value \in Values /\ e.timestamp <= now /\ e.timestamp < lastSet[k][e.value]
      BY <2>2 DEF Recorded
    <3>2. /\ now <= now' /\ now \in Nat /\ now' \in Nat
          /\ lastSet[k][e.value] <= lastSet'[k][e.value]
          /\ lastSet[k][e.value] \in Nat /\ lastSet'[k][e.value] \in Nat
          /\ e.timestamp \in Nat
      BY <2>1, <3>1, ClockStep, ConstantAssumption DEF TypeOK, Entry
    <3> QED BY <3>1, <3>2
  <2> QED BY <1>1, <2>3, <2>4
<1>2. CASE cache'[k] # cache[k]
  <2>1. cache'[k] # AbsentEntry
    BY ConstantAssumption DEF Present, AbsentEntry
  <2>2. PICK c \in Clients, v \in Values : Set(c, k, v)
    <3>1. PICK c \in Clients, j \in Keys, v \in Values : Set(c, j, v)
      BY <1>2, <2>1 DEF Next, GetLookup, GetCheck, GetCollect, Clear, Entries, Len,
                        Tick, vars, TypeOK
    <3>2. j = k
      BY <1>2, <3>1 DEF Set, NewEntry, TypeOK
    <3> QED BY <3>1, <3>2
  <2>3. /\ cache'[k] = [value |-> v, timestamp |-> now]
        /\ now' = now
        /\ lastSet'[k][v] = now + 1
        /\ now \in Nat
    BY <2>2, ConstantAssumption DEF Set, NewEntry, TypeOK
  <2> QED BY <2>3 DEF Recorded
<1> QED BY <1>1, <1>2

\* Where a goroutine inside Get comes from: it read an entry, or went on with it.
LEMMA InsideGetStep ==
    ASSUME TypeOK, [Next]_vars, NEW c \in Clients, ~Free(c)'
    PROVE  \/ client'[c] = client[c]
           \/ \E k \in Keys : Present(k) /\ client'[c] = Checking(k, cache[k])
           \/ /\ client[c].at = "check"
              /\ Expired(client[c].entry)
              /\ client'[c] = Collecting(client[c].key, client[c].entry)
<1> USE DEF TypeOK, Free, Ready, Checking, Collecting, HitOf, MissOf, ListingOf, CountOf
<1>1. ASSUME NEW d \in Clients, NEW k \in Keys, GetLookup(d, k), c = d
      PROVE  Present(k) /\ client'[c] = Checking(k, cache[k])
  BY <1>1 DEF GetLookup
<1>2. ASSUME GetCheck(c)
      PROVE  /\ client[c].at = "check"
             /\ Expired(client[c].entry)
             /\ client'[c] = Collecting(client[c].key, client[c].entry)
  BY <1>2 DEF GetCheck, AfterCheck
<1>3. ASSUME NEW d \in Clients, c # d,
             \/ GetCheck(d) \/ GetCollect(d) \/ Clear(d) \/ Entries(d) \/ Len(d)
             \/ \E k \in Keys : GetLookup(d, k) \/ \E v \in Values : Set(d, k, v)
      PROVE  client'[c] = client[c]
  BY <1>3 DEF GetLookup, Set, NewEntry, GetCheck, AfterCheck, GetCollect, Clear, Entries, Len
<1>4. ~(GetCollect(c) \/ Clear(c) \/ Entries(c) \/ Len(c)
        \/ \E k \in Keys, v \in Values : Set(c, k, v))
  BY DEF Set, NewEntry, GetCollect, Clear, Entries, Len
<1>5. CASE Tick \/ UNCHANGED vars
  BY <1>5 DEF Tick, vars
<1> QED BY <1>1, <1>2, <1>3, <1>4, <1>5 DEF Next

(* Every step of the cache preserves the snapshot invariant: what the three *)
(* sections of Get (memory.go:36-55) rest on survives all interleavings.    *)
THEOREM SnapshotStep == Inv /\ [Next]_vars => SnapshotInv'
<1> SUFFICES ASSUME TypeOK, SnapshotInv, [Next]_vars PROVE SnapshotInv'
  BY DEF Inv
<1>1. TypeOK'
  BY TypeStep
<1>2. (\A k \in Keys, v \in Values : lastSet[k][v] <= now + 1)'
  BY ClockStep
<1>3. (\A k \in Keys : Present(k) => Recorded(k, cache[k]))'
  BY <1>1, MapStep
<1>4. ASSUME NEW c \in Clients, ~Free(c)'
      PROVE  /\ Recorded(client[c].key, client[c].entry)'
             /\ client'[c].at = "collect" => Expired(client[c].entry)'
  <2>1. \E k \in Keys, e \in Entry :
           /\ client'[c].key = k /\ client'[c].entry = e /\ Recorded(k, e)
           /\ client'[c].at = "collect" => Expired(e)
    <3>1. CASE client'[c] = client[c]
      <4>1. ~Free(c)
        BY <1>4, <3>1 DEF Free
      <4> QED BY <3>1, <4>1, InsideGet DEF SnapshotInv
    <3>2. ASSUME NEW k \in Keys, Present(k), client'[c] = Checking(k, cache[k])
          PROVE  /\ client'[c].key = k /\ client'[c].entry = cache[k]
                 /\ cache[k] \in Entry /\ Recorded(k, cache[k])
                 /\ client'[c].at # "collect"
      BY <3>2, PresentEntry DEF Checking, SnapshotInv
    <3>3. CASE /\ client[c].at = "check"
               /\ Expired(client[c].entry)
               /\ client'[c] = Collecting(client[c].key, client[c].entry)
      <4>1. ~Free(c)
        BY <3>3 DEF Free
      <4>2. /\ client'[c].key = client[c].key
            /\ client'[c].entry = client[c].entry
        BY <3>3 DEF Collecting
      <4> QED BY <3>3, <4>1, <4>2, InsideGet DEF SnapshotInv
    <3> QED BY <1>4, <3>1, <3>2, <3>3, InsideGetStep
  <2>2. PICK k \in Keys, e \in Entry :
           /\ client'[c].key = k /\ client'[c].entry = e /\ Recorded(k, e)
           /\ client'[c].at = "collect" => Expired(e)
    BY <2>1
  <2>3. Recorded(k, e)' /\ (Expired(e) => Expired(e)')
    BY <1>1, <2>2, RecordedStep
  <2> QED BY <2>2, <2>3 DEF Recorded, Expired
<1>5. (\A c \in Clients :
          /\ ~Free(c) => Recorded(client[c].key, client[c].entry)
          /\ client[c].at = "collect" => Expired(client[c].entry))'
  BY <1>4 DEF Free
<1> QED BY <1>2, <1>3, <1>5 DEF SnapshotInv

(* TypeOK and the snapshot invariant hold in every behaviour of the cache.   *)
THEOREM InMemoryCorrect == Spec => []TypeOK /\ []SnapshotInv
<1>1. Inv /\ [Next]_vars => Inv'
  BY TypeStep, SnapshotStep DEF Inv
<1>2. Inv => TypeOK /\ SnapshotInv
  BY DEF Inv
<1> QED BY InitInv, <1>1, <1>2, PTL DEF Spec

-----------------------------------------------------------------------------
\* The invariant holds at every step, before and after it.
LEMMA InvAlways == Spec => []Inv /\ [][Inv /\ Inv']_vars
<1>1. Inv /\ [Next]_vars => Inv'
  BY TypeStep, SnapshotStep DEF Inv
<1> QED BY InitInv, <1>1, PTL DEF Spec

(* Get (memory.go:36) hits only within TTL of a Set of the value it returns. *)
THEOREM HitsAreFresh == Spec => ServedWithinTTL
<1>1. ASSUME Inv, [Next]_vars, NEW c \in Clients,
             client[c] # client'[c], client'[c].at = "hit"
      PROVE  LET set == lastSet[client'[c].key][client'[c].value]
             IN  set > 0 /\ (TTL = 0 \/ now < set + TTL)
  <2>1. GetCheck(c) /\ ~Expired(client[c].entry)
    <3> USE <1>1 DEF Inv, TypeOK, Ready, Checking, Collecting, HitOf, MissOf, ListingOf, CountOf
    <3>1. ASSUME NEW d \in Clients, d # c,
                 \/ GetCheck(d) \/ GetCollect(d) \/ Clear(d) \/ Entries(d) \/ Len(d)
                 \/ \E k \in Keys : GetLookup(d, k) \/ \E v \in Values : Set(d, k, v)
          PROVE  FALSE
      BY <3>1 DEF GetLookup, Set, NewEntry, GetCheck, AfterCheck, GetCollect, Clear, Entries, Len
    <3>2. ~\E k \in Keys : GetLookup(c, k) \/ \E v \in Values : Set(c, k, v)
      BY DEF GetLookup, Set, NewEntry
    <3>3. ~(GetCollect(c) \/ Clear(c) \/ Entries(c) \/ Len(c))
      BY DEF GetCollect, Clear, Entries, Len
    <3>4. ~(Tick \/ UNCHANGED vars)
      BY DEF Tick, vars
    <3>5. GetCheck(c)
      BY <3>1, <3>2, <3>3, <3>4 DEF Next
    <3> QED BY <3>5 DEF GetCheck, AfterCheck
  <2>2. ~Free(c)
    BY <2>1 DEF GetCheck, Free
  <2> DEFINE k == client[c].key
             e == client[c].entry
  <2>3. k \in Keys /\ e \in Entry /\ Recorded(k, e)
    BY <1>1, <2>2, InsideGet DEF Inv, SnapshotInv
  <2>4. client'[c] = HitOf(k, e.value)
    BY <1>1, <2>1 DEF GetCheck, AfterCheck, Inv, TypeOK
  <2>5. lastSet[k][e.value] \in Nat /\ e.timestamp \in Nat /\ now \in Nat
    BY <1>1, <2>3, ConstantAssumption DEF Inv, TypeOK, Entry
  <2>6. e.timestamp < lastSet[k][e.value] /\ (TTL = 0 \/ now <= e.timestamp + TTL)
    BY <2>1, <2>3, <2>5, ConstantAssumption DEF Recorded, Expired
  <2> HIDE DEF k, e
  <2>7. lastSet[k][e.value] > 0 /\ (TTL = 0 \/ now < lastSet[k][e.value] + TTL)
    BY <2>5, <2>6, ConstantAssumption
  <2> QED BY <2>4, <2>7 DEF HitOf
<1>2. Inv /\ [Next]_vars =>
         [\A c \in Clients : client[c] # client'[c] /\ client'[c].at = "hit" =>
             LET set == lastSet[client'[c].key][client'[c].value]
             IN  set > 0 /\ (TTL = 0 \/ now < set + TTL)]_vars
  BY <1>1
<1> QED BY InvAlways, <1>2, PTL DEF Spec, ServedWithinTTL

(* Short of a Clear, a live entry is lost only to a Get that found an older  *)
(* entry of the same key expired (memory.go:46-50).                          *)
THEOREM LostOnlyToStaleGet == Spec => FreshLostOnlyToStaleGet
<1>1. ASSUME Inv, [Next]_vars, NEW k \in Keys,
             Present(k), ~Expired(cache[k]), cache'[k] = AbsentEntry,
             ~ \A j \in Keys : cache'[j] = AbsentEntry
      PROVE  \E c \in Clients : /\ client[c].at = "collect"
                                /\ client[c].key = k
                                /\ client[c].entry.timestamp < cache[k].timestamp
  <2>1. PICK c \in Clients : GetCollect(c) /\ client[c].key = k
    <3>1. cache[k] # AbsentEntry
      BY <1>1, PresentEntry DEF Inv
    <3>2. ASSUME NEW c \in Clients, NEW j \in Keys, NEW v \in Values
          PROVE  ~Set(c, j, v)
      BY <1>1, <3>1, ConstantAssumption DEF Set, NewEntry, AbsentEntry, Inv, TypeOK
    <3>3. PICK c \in Clients : GetCollect(c)
      BY <1>1, <3>1, <3>2 DEF Next, GetLookup, GetCheck, Clear, Entries, Len, Tick, vars
    <3> QED BY <1>1, <3>1, <3>3 DEF GetCollect, Inv, TypeOK
  <2>2. ~Free(c) /\ client[c].at = "collect"
    BY <2>1 DEF GetCollect, Free
  <2> DEFINE e == client[c].entry
  <2>3. e \in Entry /\ Expired(e)
    BY <1>1, <2>2, InsideGet DEF Inv, SnapshotInv
  <2>4. cache[k] \in Entry
    BY <1>1, PresentEntry DEF Inv
  <2>5. e.timestamp \in Nat /\ cache[k].timestamp \in Nat /\ now \in Nat
    BY <1>1, <2>3, <2>4, ConstantAssumption DEF Inv, TypeOK, Entry
  <2>6. e.timestamp < cache[k].timestamp
    BY <1>1, <2>3, <2>5, ConstantAssumption DEF Expired
  <2> QED BY <2>1, <2>2, <2>6
<1>2. Inv /\ [Next]_vars =>
         [\A k \in Keys : /\ Present(k)
                          /\ ~Expired(cache[k])
                          /\ cache'[k] = AbsentEntry
                          => \/ \A j \in Keys : cache'[j] = AbsentEntry
                             \/ \E c \in Clients :
                                   /\ client[c].at = "collect"
                                   /\ client[c].key = k
                                   /\ client[c].entry.timestamp < cache[k].timestamp]_vars
  BY <1>1
<1> QED BY InvAlways, <1>2, PTL DEF Spec, FreshLostOnlyToStaleGet

(* With a TTL of zero (memory.go:22) nothing but Clear removes an entry.      *)
THEOREM NothingExpiresWithoutTTL == Spec => NoTTLNoExpiry
<1>1. ASSUME Inv, [Next]_vars, TTL = 0, ~ \A k \in Keys : cache'[k] = AbsentEntry
      PROVE  \A k \in Keys : Present(k) => cache'[k] # AbsentEntry
  <2>1. ASSUME NEW c \in Clients PROVE ~GetCollect(c)
    BY <1>1 DEF GetCollect, Inv, SnapshotInv, Expired
  <2>2. ASSUME NEW c \in Clients, NEW j \in Keys, NEW v \in Values, Set(c, j, v),
               NEW k \in Keys, Present(k)
        PROVE  cache'[k] # AbsentEntry
    BY <1>1, <2>2, PresentEntry, ConstantAssumption DEF Set, NewEntry, AbsentEntry, Inv, TypeOK
  <2>3. ASSUME NEW k \in Keys, Present(k), cache' = cache
        PROVE  cache'[k] # AbsentEntry
    BY <1>1, <2>3, PresentEntry DEF Inv
  <2> QED BY <1>1, <2>1, <2>2, <2>3
          DEF Next, GetLookup, GetCheck, Clear, Entries, Len, Tick, vars
<1>2. Inv /\ [Next]_vars =>
         [TTL = 0 => \/ \A k \in Keys : Present(k) => cache'[k] # AbsentEntry
                     \/ \A k \in Keys : cache'[k] = AbsentEntry]_vars
  BY <1>1
<1> QED BY InvAlways, <1>2, PTL DEF Spec, NoTTLNoExpiry

(* Entries (memory.go:85) lists a value only within TTL of a Set of it.       *)
THEOREM ListingsAreFresh == Spec => ListedWithinTTL
<1>1. ASSUME Inv, [Next]_vars, NEW c \in Clients,
             client[c] # client'[c], client'[c].at = "listed",
             NEW k \in Keys, client'[c].entries[k] # Absent
      PROVE  LET v == client'[c].entries[k]
             IN  lastSet[k][v] > 0 /\ (TTL = 0 \/ now < lastSet[k][v] + TTL)
  <2>1. Entries(c)
    <3> USE <1>1 DEF Inv, TypeOK, Ready, Checking, Collecting, HitOf, MissOf, ListingOf, CountOf
    <3>1. ASSUME NEW d \in Clients, d # c,
                 \/ GetCheck(d) \/ GetCollect(d) \/ Clear(d) \/ Entries(d) \/ Len(d)
                 \/ \E j \in Keys : GetLookup(d, j) \/ \E v \in Values : Set(d, j, v)
          PROVE  FALSE
      BY <3>1 DEF GetLookup, Set, NewEntry, GetCheck, AfterCheck, GetCollect, Clear, Entries, Len
    <3>2. ~\E j \in Keys : GetLookup(c, j) \/ \E v \in Values : Set(c, j, v)
      BY DEF GetLookup, Set, NewEntry
    <3>3. ~(GetCheck(c) \/ GetCollect(c) \/ Clear(c) \/ Len(c))
      BY DEF GetCheck, AfterCheck, GetCollect, Clear, Len
    <3>4. ~(Tick \/ UNCHANGED vars)
      BY DEF Tick, vars
    <3> QED BY <3>1, <3>2, <3>3, <3>4 DEF Next
  <2>2. client'[c].entries[k] = IF Expired(cache[k]) THEN Absent ELSE cache[k].value
    BY <1>1, <2>1 DEF Entries, Inv, TypeOK, ListingOf
  <2>3. ~Expired(cache[k]) /\ Present(k) /\ client'[c].entries[k] = cache[k].value
    BY <1>1, <2>2 DEF Present
  <2> DEFINE e == cache[k]
  <2>4. e \in Entry /\ Recorded(k, e)
    BY <1>1, <2>3, PresentEntry DEF Inv, SnapshotInv
  <2>5. lastSet[k][e.value] \in Nat /\ e.timestamp \in Nat /\ now \in Nat
    BY <1>1, <2>4, ConstantAssumption DEF Inv, TypeOK, Entry
  <2>6. e.timestamp < lastSet[k][e.value] /\ (TTL = 0 \/ now <= e.timestamp + TTL)
    BY <2>3, <2>4, <2>5, ConstantAssumption DEF Recorded, Expired
  <2> QED BY <2>3, <2>5, <2>6, ConstantAssumption
<1>2. Inv /\ [Next]_vars =>
         [\A c \in Clients :
            client[c] # client'[c] /\ client'[c].at = "listed" =>
               \A k \in Keys :
                  LET v == client'[c].entries[k]
                  IN  v # Absent => /\ lastSet[k][v] > 0
                                    /\ TTL = 0 \/ now < lastSet[k][v] + TTL]_vars
  BY <1>1
<1> QED BY InvAlways, <1>2, PTL DEF Spec, ListedWithinTTL

(* Nothing leaves the cache later than TTL after it was set: neither a hit    *)
(* (memory.go:46) nor a listing (memory.go:93).                               *)
THEOREM NothingStaleAlways == Spec => NothingStale
BY HitsAreFresh, ListingsAreFresh DEF NothingStale

-----------------------------------------------------------------------------
\* The refinement mapping of InMemoryCache, by name.
StoreBar  == [k \in Keys |-> cache[k].value]
ClientBar == [c \in Clients |-> Forget(client[c])]

\* One goroutine moves: so does its image.
LEMMA ClientBarStep ==
    ASSUME TypeOK, NEW c \in Clients, NEW s, client' = [client EXCEPT ![c] = s]
    PROVE  ClientBar' = [ClientBar EXCEPT ![c] = Forget(s)]
<1>1. \A d \in Clients : client'[d] = IF d = c THEN s ELSE client[d]
  BY DEF TypeOK
<1>2. ClientBar' = [d \in Clients |-> IF d = c THEN Forget(s) ELSE Forget(client[d])]
  BY <1>1 DEF ClientBar
<1> QED BY <1>2 DEF ClientBar

\* A goroutine outside Get is free in the abstract cache too.
LEMMA FreeBar ==
    ASSUME TypeOK, NEW c \in Clients, Free(c)
    PROVE  Abstract!Free(c)
BY DEF Free, Abstract!Free, Forget, TypeOK, ClientState

(* Every step of the in-memory cache is a step of a translation cache or     *)
(* changes nothing a caller could see.                                       *)
THEOREM InMemoryStepRefines ==
    TypeOK /\ TypeOK' /\ [Next]_vars => [Abstract!Next]_<<StoreBar, ClientBar, {}>>
<1> SUFFICES ASSUME TypeOK, TypeOK', [Next]_vars
             PROVE  [Abstract!Next]_<<StoreBar, ClientBar, {}>>
  OBVIOUS
<1> USE DEF StoreBar, ClientBar
<1>1. ASSUME NEW c \in Clients, NEW k \in Keys, GetLookup(c, k) PROVE Abstract!Next
  <2>1. UNCHANGED StoreBar /\ Abstract!Free(c)
    BY <1>1, FreeBar DEF GetLookup
  <2>2. CASE Present(k)
    <3>1. client' = [client EXCEPT ![c] = Checking(k, cache[k])]
      BY <1>1, <2>2 DEF GetLookup
    <3>2. Forget(Checking(k, cache[k])) = Abstract!Getting(k, StoreBar[k])
      BY DEF Forget, Checking, Abstract!Getting
    <3>3. ClientBar' = [ClientBar EXCEPT ![c] = Abstract!Getting(k, StoreBar[k])]
      BY <3>1, <3>2, ClientBarStep
    <3>4. Abstract!Lookup(c, k)
      BY <2>1, <2>2, <3>3 DEF Abstract!Lookup, Present
    <3> QED BY <3>4 DEF Abstract!Next
  <2>3. CASE ~Present(k)
    <3>1. client' = [client EXCEPT ![c] = MissOf(k)]
      BY <1>1, <2>3 DEF GetLookup
    <3>2. ClientBar' = [ClientBar EXCEPT ![c] = Abstract!MissOf(k)]
      BY <3>1, ClientBarStep DEF Forget, MissOf, Abstract!MissOf
    <3>3. Abstract!LookupMiss(c, k)
      BY <2>1, <2>3, <3>2 DEF Abstract!LookupMiss, Present
    <3> QED BY <3>3 DEF Abstract!Next
  <2> QED BY <2>2, <2>3
<1>2. ASSUME NEW c \in Clients, NEW k \in Keys, NEW v \in Values, Set(c, k, v)
      PROVE  Abstract!Next
  <2>1. Abstract!Free(c)
    BY <1>2, FreeBar DEF Set, NewEntry
  <2>2. ClientBar' = [ClientBar EXCEPT ![c] = Abstract!Ready]
    <3>1. client' = [client EXCEPT ![c] = Ready]
      BY <1>2 DEF Set, NewEntry
    <3> QED BY <3>1, ClientBarStep DEF Forget, Ready, Abstract!Ready
  <2>3. StoreBar' = [StoreBar EXCEPT ![k] = v]
    BY <1>2 DEF Set, NewEntry, TypeOK
  <2>4. Abstract!Set(c, k, v)
    BY <2>1, <2>2, <2>3 DEF Abstract!Set
  <2> QED BY <2>4 DEF Abstract!Next
<1>3. ASSUME NEW c \in Clients, GetCheck(c)
      PROVE  Abstract!Next \/ UNCHANGED <<StoreBar, ClientBar>>
  <2> DEFINE k == client[c].key
             e == client[c].entry
  <2>1. /\ UNCHANGED StoreBar
        /\ ClientBar[c] = [at |-> "getting", key |-> k, value |-> e.value]
        /\ ClientBar[c].at = "getting" /\ ClientBar[c].key = k /\ ClientBar[c].value = e.value
    BY <1>3 DEF GetCheck, AfterCheck, Forget
  <2>2. CASE Expired(e)
    <3>1. client' = [client EXCEPT ![c] = Collecting(k, e)]
      BY <1>3, <2>2 DEF GetCheck, AfterCheck
    <3>2. ClientBar' = [ClientBar EXCEPT ![c] = ClientBar[c]]
      BY <2>1, <3>1, ClientBarStep DEF Forget, Collecting
    <3> QED BY <2>1, <3>2
  <2>3. CASE ~Expired(e)
    <3>1. client' = [client EXCEPT ![c] = HitOf(k, e.value)]
      BY <1>3, <2>3 DEF GetCheck, AfterCheck
    <3>2. Forget(HitOf(k, e.value)) = Abstract!HitOf(k, e.value)
      BY DEF Forget, HitOf, Abstract!HitOf
    <3>3. ClientBar' = [ClientBar EXCEPT
                           ![c] = Abstract!HitOf(ClientBar[c].key, ClientBar[c].value)]
      <4> HIDE DEF k, e, ClientBar
      <4>1. ClientBar' = [ClientBar EXCEPT ![c] = Abstract!HitOf(k, e.value)]
        BY <3>1, <3>2, ClientBarStep
      <4> QED BY <2>1, <4>1
    <3>4. Abstract!Hit(c)
      BY <2>1, <3>3 DEF Abstract!Hit
    <3> QED BY <3>4 DEF Abstract!Next
  <2> QED BY <2>2, <2>3
<1>4. ASSUME NEW c \in Clients, GetCollect(c) PROVE Abstract!Next
  <2> DEFINE k == client[c].key
  <2>1. /\ ClientBar[c].at = "getting" /\ ClientBar[c].key = k
    BY <1>4 DEF GetCollect, Forget
  <2>2. k \in Keys
    BY <1>4, InsideGet DEF GetCollect, Free
  <2>3. StoreBar' = [StoreBar EXCEPT ![k] = Absent]
    BY <1>4, <2>2 DEF GetCollect, TypeOK, AbsentEntry
  <2>4. ClientBar' = [ClientBar EXCEPT ![c] = Abstract!MissOf(k)]
    <3>1. client' = [client EXCEPT ![c] = MissOf(k)]
      BY <1>4 DEF GetCollect
    <3> QED BY <3>1, ClientBarStep DEF Forget, MissOf, Abstract!MissOf
  <2>5. Abstract!GiveUp(c)
    BY <2>1, <2>3, <2>4 DEF Abstract!GiveUp
  <2> QED BY <2>5 DEF Abstract!Next
<1>5. ASSUME NEW c \in Clients, Clear(c) PROVE Abstract!Next
  <2>1. StoreBar' = [k \in Keys |-> Absent]
    BY <1>5 DEF Clear, AbsentEntry
  <2>2. ClientBar' = [ClientBar EXCEPT ![c] = Abstract!Ready]
    <3>1. client' = [client EXCEPT ![c] = Ready]
      BY <1>5 DEF Clear
    <3> QED BY <3>1, ClientBarStep DEF Forget, Ready, Abstract!Ready
  <2>3. Abstract!Clear(c)
    BY <1>5, <2>1, <2>2, FreeBar DEF Clear, Abstract!Clear, Abstract!Empty
  <2> QED BY <2>3 DEF Abstract!Next
<1>6. ASSUME NEW c \in Clients, Entries(c) PROVE Abstract!Next
  <2> DEFINE shown == {k \in Keys : ~Expired(cache[k])}
             m == [k \in Keys |-> IF Expired(cache[k]) THEN Absent ELSE cache[k].value]
  <2>1. m = [k \in Keys |-> IF k \in shown THEN StoreBar[k] ELSE Absent]
    OBVIOUS
  <2>2. client' = [client EXCEPT ![c] = ListingOf(m)] /\ UNCHANGED StoreBar
    BY <1>6 DEF Entries
  <2> HIDE DEF m
  <2>3. ClientBar' = [ClientBar EXCEPT ![c] = Abstract!ListingOf(m)]
    BY <2>2, ClientBarStep DEF Forget, ListingOf, Abstract!ListingOf
  <2>4. Abstract!List(c)
    BY <1>6, <2>1, <2>2, <2>3, FreeBar DEF Entries, Abstract!List
  <2> QED BY <2>4 DEF Abstract!Next
<1>7. ASSUME NEW c \in Clients, Len(c) PROVE Abstract!Next
  <2> DEFINE n == Cardinality({k \in Keys : Present(k)})
  <2>1. n = Abstract!Cardinality({k \in Keys : StoreBar[k] # Absent})
    <3>1. {k \in Keys : Present(k)} = {k \in Keys : StoreBar[k] # Absent}
      BY DEF Present
    <3>2. ASSUME NEW S PROVE Abstract!Cardinality(S) = Cardinality(S)
      BY DEF Cardinality, Abstract!Cardinality
    <3> QED BY <3>1, <3>2
  <2>2. client' = [client EXCEPT ![c] = CountOf(n)] /\ UNCHANGED StoreBar
    BY <1>7 DEF Len
  <2> HIDE DEF n
  <2>3. ClientBar' = [ClientBar EXCEPT ![c] = Abstract!CountOf(n)]
    BY <2>2, ClientBarStep DEF Forget, CountOf, Abstract!CountOf
  <2>4. Abstract!Count(c)
    BY <1>7, <2>1, <2>2, <2>3, FreeBar DEF Len, Abstract!Count
  <2> QED BY <2>4 DEF Abstract!Next
<1>8. CASE Tick \/ UNCHANGED vars
  BY <1>8 DEF Tick, vars
<1> QED BY <1>1, <1>2, <1>3, <1>4, <1>5, <1>6, <1>7, <1>8 DEF Next

(* InMemoryCache implements the interface of cache/cache.go: its Spec        *)
(* implies the abstract one under the mapping that forgets timestamps.       *)
THEOREM InMemoryImplements == Spec => ImplementsCache
<1>1. Init => Abstract!Init
  BY DEF Init, Abstract!Init, Abstract!Empty, AbsentEntry, Forget, Ready, Abstract!Ready
<1>2. Inv /\ Inv' /\ [Next]_vars => [Abstract!Next]_<<StoreBar, ClientBar, {}>>
  BY InMemoryStepRefines DEF Inv
<1> QED BY InvAlways, <1>1, <1>2, PTL
        DEF Spec, ImplementsCache, Abstract!Spec, Abstract!vars, StoreBar, ClientBar
-----------------------------------------------------------------------------

(***************************************************************************)
(* RedisCache: its typing, and that no entry outlives its TTL.  Time moves    *)
(* beside the entries, so the bound is proved of every entry that the server *)
(* still finds, whoever wrote it and how late.                               *)
(***************************************************************************)
RedisInv == RedisTypeOK /\ ExpiresInTime

-----------------------------------------------------------------------------
(* What Set stores (redis.go:91) expires TTL after the server executed it.     *)
LEMMA EntryExpires ==
  ASSUME RedisTypeOK, NEW v \in Values
  PROVE  /\ EntryOf(v) \in [value : Values \cup {Absent}, expires : 0..Never]
         /\ TTL > 0 => EntryOf(v).expires <= now + TTL
  BY RedisAssumption DEF RedisTypeOK, EntryOf, Never

LEMMA RedisInitInv == RedisInit => RedisInv
  <1> SUFFICES ASSUME RedisInit PROVE RedisInv
    OBVIOUS
  <1>1. /\ NoEntry \in [value : Values \cup {Absent}, expires : 0..Never]
        /\ NoEntry.value = Absent
    BY RedisAssumption DEF NoEntry, Never
  <1>2. RedisTypeOK
    BY <1>1, RedisAssumption DEF RedisInit, RedisTypeOK, CallState, Ready
  <1>3. \A k \in Keys : Found(k) = Absent
    BY <1>1 DEF RedisInit, Found
  <1> QED
    BY <1>2, <1>3 DEF RedisInv, ExpiresInTime

\* Only these things happen to the server's map: nothing, a SET or an eviction.
ServerStep ==
    \/ UNCHANGED server
    \/ \E k \in Keys, v \in Values : PutOnServer(k, v)
    \/ \E k \in Keys : server' = [server EXCEPT ![k] = NoEntry]

LEMMA StepTypes ==
  ASSUME RedisTypeOK, [RedisNext]_redisVars
  PROVE  /\ client' \in [Clients -> CallState]
         /\ late' \subseteq [key : Keys, value : Values]
         /\ now' \in 0..MaxTime /\ now <= now'
         /\ ServerStep
         /\ UNCHANGED now \/ UNCHANGED server
  <1> USE DEF RedisTypeOK, ServerStep
  <1> DEFINE Goal == /\ client' \in [Clients -> CallState]
                     /\ late' \subseteq [key : Keys, value : Values]
                     /\ now' \in 0..MaxTime /\ now <= now'
                     /\ ServerStep
                     /\ UNCHANGED now \/ UNCHANGED server
  <1>0. now \in Nat /\ now <= now
    BY RedisAssumption
  <1>1. ASSUME NEW c \in Clients, NEW k \in Keys, SendGet(c, k) PROVE Goal
    BY <1>0, <1>1 DEF SendGet, Goes, Asking, CallState
  <1>2. ASSUME NEW c \in Clients, NEW k \in Keys, NEW v \in Values, SendSet(c, k, v) PROVE Goal
    BY <1>0, <1>2 DEF SendSet, Goes, Writing, CallState
  <1>3. ASSUME NEW c \in Clients, ExecuteGet(c) PROVE Goal
    <2>1. client[c].key \in Keys /\ client[c] \in CallState
      BY <1>3 DEF ExecuteGet, CallState
    <2>2. Found(client[c].key) \in Values \cup {Absent}
      BY <2>1 DEF Found
    <2> QED
      BY <1>0, <1>3, <2>1, <2>2
         DEF ExecuteGet, Goes, Answered, CallState
  <1>4. ASSUME NEW c \in Clients, GetReturns(c) PROVE Goal
    <2>1. client[c].key \in Keys /\ client[c].value \in Values \cup {Absent}
      BY <1>4 DEF GetReturns, CallState
    <2>2. AnswerOf(client[c].key, client[c].value) \in CallState
      BY <2>1 DEF AnswerOf, HitOf, MissOf, CallState
    <2> QED
      BY <1>0, <1>4, <2>2 DEF GetReturns, Goes
  <1>5. ASSUME NEW c \in Clients, GetFails(c) PROVE Goal
    <2>1. client[c].key \in Keys
      BY <1>5 DEF GetFails, CallState
    <2> QED
      BY <1>0, <1>5, <2>1 DEF GetFails, Goes, MissOf, CallState
  <1>6. ASSUME NEW c \in Clients, client[c].at \in {"writing", "written"}
        PROVE  client[c].key \in Keys /\ client[c].value \in Values
    BY <1>6 DEF CallState
  <1>7. ASSUME NEW c \in Clients, ExecuteSet(c) PROVE Goal
    BY <1>0, <1>6, <1>7 DEF ExecuteSet, Goes, Written, CallState
  <1>8. ASSUME NEW c \in Clients, SetReturns(c) PROVE Goal
    BY <1>0, <1>6, <1>8 DEF SetReturns, Goes, Stored, CallState
  <1>9. ASSUME NEW c \in Clients, Resend(c) PROVE Goal
    BY <1>0, <1>6, <1>9 DEF Resend, Goes, Writing, CallState
  <1>10. ASSUME NEW c \in Clients, SetFails(c) PROVE Goal
    BY <1>0, <1>6, <1>10 DEF SetFails, Goes, NotStored, CallState
  <1>11. ASSUME NEW set \in late, Arrive(set) PROVE Goal
    BY <1>0, <1>11 DEF Arrive
  <1>12. ASSUME NEW k \in Keys, Evict(k) PROVE Goal
    BY <1>0, <1>12 DEF Evict
  <1>13. CASE ServerTick
    BY <1>0, <1>13, RedisAssumption DEF ServerTick
  <1>14. CASE UNCHANGED redisVars
    BY <1>0, <1>14 DEF redisVars
  <1> QED
    BY <1>1, <1>2, <1>3, <1>4, <1>5, <1>7, <1>8, <1>9, <1>10, <1>11, <1>12, <1>13, <1>14
       DEF RedisNext

LEMMA NextInv == RedisInv /\ [RedisNext]_redisVars => RedisInv'
  <1> SUFFICES ASSUME RedisInv, [RedisNext]_redisVars PROVE RedisInv'
    OBVIOUS
  <1> USE DEF RedisInv
  <1>1. /\ NoEntry \in [value : Values \cup {Absent}, expires : 0..Never]
        /\ NoEntry.value = Absent
    BY RedisAssumption DEF NoEntry, Never
  <1>2. server' \in [Keys -> [value : Values \cup {Absent}, expires : 0..Never]]
    BY <1>1, StepTypes, EntryExpires DEF ServerStep, PutOnServer, RedisTypeOK
  <1>3. RedisTypeOK'
    BY <1>2, StepTypes DEF RedisTypeOK, Never, CallState
  <1>4. ASSUME TTL > 0, NEW k \in Keys, Found(k)' # Absent
        PROVE  server'[k].expires <= now' + TTL
    <2>1. server'[k].value # Absent /\ now \in Nat /\ now' \in Nat /\ server[k].expires \in Nat
          /\ now <= now'
      BY <1>3, <1>4, StepTypes, RedisAssumption DEF Found, RedisTypeOK, Never
    <2>2. CASE UNCHANGED server
      <3>1. Found(k) # Absent
        BY <1>4, <2>1, <2>2 DEF Found
      <3> QED
        BY <1>4, <2>1, <2>2, <3>1, RedisAssumption DEF ExpiresInTime
    <2>3. CASE now' = now /\ \E j \in Keys, v \in Values : PutOnServer(j, v)
      <3>1. PICK j \in Keys, v \in Values : PutOnServer(j, v)
        BY <2>3
      <3>2. CASE j = k
        BY <1>4, <2>3, <3>1, <3>2, EntryExpires DEF PutOnServer, RedisTypeOK
      <3>3. CASE j # k
        <4>1. server'[k] = server[k]
          BY <3>1, <3>3 DEF PutOnServer, RedisTypeOK
        <4> QED
          BY <1>4, <2>3, <4>1 DEF Found, ExpiresInTime
      <3> QED
        BY <3>2, <3>3
    <2>4. CASE now' = now /\ \E j \in Keys : server' = [server EXCEPT ![j] = NoEntry]
      <3>1. PICK j \in Keys : server' = [server EXCEPT ![j] = NoEntry]
        BY <2>4
      <3>2. j # k /\ server'[k] = server[k]
        BY <1>1, <2>1, <3>1 DEF RedisTypeOK
      <3> QED
        BY <1>4, <2>4, <3>2 DEF Found, ExpiresInTime
    <2> QED
      BY <2>2, <2>3, <2>4, StepTypes DEF ServerStep
  <1> QED
    BY <1>3, <1>4 DEF ExpiresInTime

(* Every call keeps to its stages (redis.go:76-100), and with a TTL nothing that *)
(* the server finds outlives it, however late the Set that wrote it was executed. *)
THEOREM RedisCorrect == RedisSpec => []RedisTypeOK /\ []ExpiresInTime
  <1>1. RedisInv => RedisTypeOK /\ ExpiresInTime
    BY DEF RedisInv
  <1> QED
    BY RedisInitInv, NextInv, <1>1, PTL DEF RedisSpec

-----------------------------------------------------------------------------
\* The refinement mapping of RedisCache, by name.
MapBar  == [k \in Keys |-> Found(k)]
CallBar == [c \in Clients |-> Promise(client[c])]

\* One goroutine moves: so does its image.
LEMMA CallBarStep ==
  ASSUME RedisTypeOK, NEW c \in Clients, NEW s, Goes(c, s)
  PROVE  CallBar' = [CallBar EXCEPT ![c] = Promise(s)]
  <1>1. \A d \in Clients : client'[d] = IF d = c THEN s ELSE client[d]
    BY DEF RedisTypeOK, Goes
  <1>2. CallBar' = [d \in Clients |-> IF d = c THEN Promise(s)
                                      ELSE Promise(client[d])]
    BY <1>1 DEF CallBar
  <1> QED
    BY <1>2 DEF CallBar

\* The states of a call that its caller cannot tell from doing nothing.
LEMMA QuietBar ==
  ASSUME NEW s, s.at \in {"ready", "asking", "writing", "written", "stored", "failed"}
  PROVE  Promise(s) = RemoteMap!Ready
  BY DEF Promise, Ready, RemoteMap!Ready

\* A goroutine that waits for no answer, or whose command is on its way, is free.
LEMMA IdleBar ==
  ASSUME NEW c \in Clients, client[c].at # "answered"
  PROVE  CallBar[c].at # "getting" \/ client[c].at = "getting"
  BY DEF CallBar, Promise, Ready

LEMMA IdleIsFree ==
  ASSUME RedisTypeOK, NEW c \in Clients, client[c].at # "answered"
  PROVE  RemoteMap!Free(c)
  <1>1. client[c].at # "getting"
    BY DEF RedisTypeOK, CallState
  <1> QED
    BY <1>1, IdleBar DEF RemoteMap!Free, CallBar

\* The map after a SET that the server executes now (redis.go:96).
LEMMA PutBar ==
  ASSUME RedisTypeOK, NEW k \in Keys, NEW v \in Values, PutOnServer(k, v), UNCHANGED now
  PROVE  MapBar' = [MapBar EXCEPT ![k] = v]
  <1>1. ~(EntryOf(v).expires <= now) /\ EntryOf(v).value = v
    BY RedisAssumption DEF RedisTypeOK, EntryOf, Never
  <1>2. ASSUME NEW j \in Keys PROVE Found(j)' = IF j = k THEN v ELSE Found(j)
    BY <1>1 DEF PutOnServer, Found, RedisTypeOK
  <1> QED
    BY <1>2 DEF MapBar

(* Every step of the Redis cache, the server and the network is a step of a      *)
(* remote translation cache, or nothing a caller could see.                      *)
THEOREM RedisStepRefines ==
  RedisTypeOK /\ [RedisNext]_redisVars =>
     [RemoteMap!Next]_<<MapBar, CallBar, late>>
  <1> SUFFICES ASSUME RedisTypeOK, [RedisNext]_redisVars
               PROVE  [RemoteMap!Next]_<<MapBar, CallBar, late>>
    OBVIOUS
  <1> DEFINE Stutter == UNCHANGED <<MapBar, CallBar, late>>
  <1>0. ASSUME UNCHANGED <<server, now>> PROVE UNCHANGED MapBar
    BY <1>0 DEF MapBar, Found
  <1>1. ASSUME NEW c \in Clients, NEW s, Idle(c), Goes(c, s),
               s.at \in {"asking", "writing"}, UNCHANGED <<server, now, late>>
        PROVE  RemoteMap!Next
    <2>1. CallBar' = [CallBar EXCEPT ![c] = RemoteMap!Ready]
      BY <1>1, CallBarStep, QuietBar
    <2>2. RemoteMap!Call(c)
      BY <1>0, <1>1, <2>1, IdleIsFree DEF RemoteMap!Call, Idle, MapBar, CallBar
    <2> QED
      BY <2>2 DEF RemoteMap!Next
  <1>2. ASSUME NEW c \in Clients, NEW k \in Keys, SendGet(c, k) PROVE RemoteMap!Next
    BY <1>1, <1>2 DEF SendGet, Asking
  <1>3. ASSUME NEW c \in Clients, NEW k \in Keys, NEW v \in Values, SendSet(c, k, v)
        PROVE  RemoteMap!Next
    BY <1>1, <1>3 DEF SendSet, Writing
  <1>4. ASSUME NEW c \in Clients, client[c].at \in {"asking", "answered"}
        PROVE  client[c].key \in Keys
    BY <1>4 DEF RedisTypeOK, CallState
  <1>5. ASSUME NEW c \in Clients, ExecuteGet(c) PROVE RemoteMap!Next
    <2> DEFINE k == client[c].key
               x == Found(k)
    <2>1. k \in Keys /\ RemoteMap!Free(c) /\ UNCHANGED <<MapBar, late>> /\ MapBar[k] = x
      BY <1>0, <1>4, <1>5, IdleIsFree DEF ExecuteGet, MapBar
    <2>2. CallBar' = [CallBar EXCEPT ![c] = Promise(Answered(k, x))]
      BY <1>5, CallBarStep DEF ExecuteGet
    <2> HIDE DEF k, x
    <2>3. CASE x = Absent
      <3>1. Promise(Answered(k, x)) = RemoteMap!MissOf(k)
        BY <2>3 DEF Promise, Answered, MissOf, RemoteMap!MissOf
      <3>2. RemoteMap!LookupMiss(c, k)
        BY <2>1, <2>2, <2>3, <3>1 DEF RemoteMap!LookupMiss, MapBar, CallBar
      <3> QED
        BY <2>1, <3>2 DEF RemoteMap!Next
    <2>4. CASE x # Absent
      <3>1. Promise(Answered(k, x)) = RemoteMap!Getting(k, MapBar[k])
        BY <2>1, <2>4 DEF Promise, Answered, RemoteMap!Getting
      <3>2. RemoteMap!Lookup(c, k)
        BY <2>1, <2>2, <2>4, <3>1 DEF RemoteMap!Lookup, MapBar, CallBar
      <3> QED
        BY <2>1, <3>2 DEF RemoteMap!Next
    <2> QED
      BY <2>3, <2>4
  <1>6. ASSUME NEW c \in Clients, client[c].at = "answered"
        PROVE  CallBar[c] = IF client[c].value = Absent
                            THEN RemoteMap!MissOf(client[c].key)
                            ELSE RemoteMap!Getting(client[c].key, client[c].value)
    BY <1>6
       DEF CallBar, Promise, MissOf, RemoteMap!MissOf, RemoteMap!Getting
  <1>7. ASSUME NEW c \in Clients, GetReturns(c) PROVE RemoteMap!Next \/ Stutter
    <2> DEFINE k == client[c].key
               x == client[c].value
    <2>1. UNCHANGED <<MapBar, late>> /\ client[c].at = "answered"
      BY <1>0, <1>7 DEF GetReturns
    <2>2. CallBar' = [CallBar EXCEPT ![c] = Promise(AnswerOf(k, x))]
      BY <1>7, CallBarStep DEF GetReturns
    <2>3. CallBar[c] = IF x = Absent THEN RemoteMap!MissOf(k) ELSE RemoteMap!Getting(k, x)
      BY <1>6, <2>1
    <2> HIDE DEF k, x
    <2>4. CASE x = Absent
      <3>1. Promise(AnswerOf(k, x)) = CallBar[c]
        BY <2>3, <2>4 DEF Promise, AnswerOf, MissOf, RemoteMap!MissOf
      <3> QED
        BY <2>1, <2>2, <3>1 DEF CallBar
    <2>5. CASE x # Absent
      <3>1. Promise(AnswerOf(k, x)) = RemoteMap!HitOf(k, x)
        BY <2>5 DEF Promise, AnswerOf, HitOf, RemoteMap!HitOf
      <3>2. CallBar[c].at = "getting" /\ CallBar[c].key = k /\ CallBar[c].value = x
        BY <2>3, <2>5 DEF RemoteMap!Getting
      <3>3. RemoteMap!Hit(c)
        BY <2>1, <2>2, <3>1, <3>2 DEF RemoteMap!Hit, MapBar, CallBar
      <3> QED
        BY <3>3 DEF RemoteMap!Next
    <2> QED
      BY <2>4, <2>5
  <1>8. ASSUME NEW c \in Clients, GetFails(c) PROVE RemoteMap!Next \/ Stutter
    <2> DEFINE k == client[c].key
               x == client[c].value
    <2>1. k \in Keys /\ UNCHANGED <<MapBar, late>> /\ client[c].at \in {"asking", "answered"}
      BY <1>0, <1>4, <1>8 DEF GetFails
    <2>2. CallBar' = [CallBar EXCEPT ![c] = Promise(MissOf(k))]
      BY <1>8, CallBarStep DEF GetFails
    <2>3. Promise(MissOf(k)) = RemoteMap!MissOf(k)
      BY DEF Promise, MissOf, RemoteMap!MissOf
    <2>4. client[c].at = "answered" =>
             CallBar[c] = IF x = Absent THEN RemoteMap!MissOf(k)
                          ELSE RemoteMap!Getting(k, x)
      BY <1>6
    <2>5. client[c].at = "asking" => RemoteMap!Free(c)
      BY IdleIsFree
    <2> HIDE DEF k, x
    <2>6. CASE client[c].at = "asking"
      <3>1. RemoteMap!LookupMiss(c, k)
        BY <2>1, <2>2, <2>3, <2>5, <2>6 DEF RemoteMap!LookupMiss, MapBar, CallBar
      <3> QED
        BY <2>1, <3>1 DEF RemoteMap!Next
    <2>7. CASE client[c].at = "answered" /\ x = Absent
      BY <2>1, <2>2, <2>3, <2>4, <2>7 DEF CallBar
    <2>8. CASE client[c].at = "answered" /\ x # Absent
      <3>1. CallBar[c].at = "getting" /\ CallBar[c].key = k
        BY <2>4, <2>8 DEF RemoteMap!Getting
      <3>2. RemoteMap!AnswerLost(c)
        BY <2>1, <2>2, <2>3, <3>1 DEF RemoteMap!AnswerLost, MapBar, CallBar
      <3> QED
        BY <3>2 DEF RemoteMap!Next
    <2> QED
      BY <2>1, <2>6, <2>7, <2>8
  <1>9. ASSUME NEW c \in Clients, client[c].at \in {"writing", "written"}
        PROVE  client[c].key \in Keys /\ client[c].value \in Values /\ RemoteMap!Free(c)
    BY <1>9, IdleIsFree DEF RedisTypeOK, CallState
  <1>10. ASSUME NEW c \in Clients, ExecuteSet(c) PROVE RemoteMap!Next
    <2> DEFINE k == client[c].key
               v == client[c].value
    <2>1. /\ k \in Keys /\ v \in Values /\ RemoteMap!Free(c)
          /\ UNCHANGED <<now, late>> /\ PutOnServer(k, v)
      BY <1>9, <1>10 DEF ExecuteSet
    <2>2. CallBar' = [CallBar EXCEPT ![c] = RemoteMap!Ready]
      BY <1>10, CallBarStep, QuietBar DEF ExecuteSet, Written
    <2> HIDE DEF k, v
    <2>3. MapBar' = [MapBar EXCEPT ![k] = v]
      BY <2>1, PutBar
    <2>4. RemoteMap!Set(c, k, v)
      BY <2>1, <2>2, <2>3 DEF RemoteMap!Set, MapBar, CallBar
    <2> QED
      BY <2>1, <2>4 DEF RemoteMap!Next
  <1>11. ASSUME NEW c \in Clients, SetReturns(c) PROVE Stutter
    <2>1. CallBar' = [CallBar EXCEPT ![c] = RemoteMap!Ready]
      BY <1>11, CallBarStep, QuietBar DEF SetReturns, Stored
    <2>2. CallBar[c] = RemoteMap!Ready
      BY <1>11, QuietBar DEF CallBar, SetReturns
    <2> QED
      BY <1>0, <1>11, <2>1, <2>2 DEF SetReturns, CallBar
  <1>12. ASSUME NEW c \in Clients, Resend(c) \/ SetFails(c) PROVE RemoteMap!Next
    <2> DEFINE k == client[c].key
               v == client[c].value
    <2>1. /\ k \in Keys /\ v \in Values /\ RemoteMap!Free(c) /\ UNCHANGED MapBar
          /\ late' \in {late, late \cup {[key |-> k, value |-> v]}}
      BY <1>0, <1>9, <1>12 DEF Resend, SetFails
    <2>2. CallBar' = [CallBar EXCEPT ![c] = RemoteMap!Ready]
      BY <1>12, CallBarStep, QuietBar
         DEF Resend, SetFails, Writing, NotStored
    <2> HIDE DEF k, v
    <2>3. RemoteMap!SetFails(c, k, v)
      BY <2>1, <2>2 DEF RemoteMap!SetFails, MapBar, CallBar
    <2> QED
      BY <2>1, <2>3 DEF RemoteMap!Next
  <1>13. ASSUME NEW set \in late, Arrive(set) PROVE RemoteMap!Next
    <2>1. set.key \in Keys /\ set.value \in Values /\ UNCHANGED CallBar
      BY <1>13 DEF RedisTypeOK, Arrive, CallBar
    <2>2. MapBar' \in {MapBar, [MapBar EXCEPT ![set.key] = set.value]}
      BY <1>0, <1>13, <2>1, PutBar DEF Arrive
    <2>3. RemoteMap!Arrive(set)
      BY <1>13, <2>1, <2>2 DEF RemoteMap!Arrive, Arrive, MapBar, CallBar
    <2> QED
      BY <2>3 DEF RemoteMap!Next
  <1>14. ASSUME NEW gone \in SUBSET Keys, UNCHANGED <<client, late>>,
                \A k \in Keys : Found(k)' = IF k \in gone THEN Absent ELSE Found(k)
         PROVE  RemoteMap!Next
    <2>1. MapBar' = [k \in Keys |-> IF k \in gone THEN Absent ELSE MapBar[k]]
      BY <1>14 DEF MapBar
    <2>2. RemoteMap!Drop(gone)
      BY <1>14, <2>1 DEF RemoteMap!Drop, MapBar, CallBar
    <2> QED
      BY <2>2 DEF RemoteMap!Next
  <1>15. ASSUME NEW k \in Keys, Evict(k) PROVE RemoteMap!Next
    <2>1. ASSUME NEW j \in Keys
          PROVE  Found(j)' = IF j \in {k} THEN Absent ELSE Found(j)
      BY <1>15 DEF Evict, Found, NoEntry, RedisTypeOK
    <2> QED
      BY <1>14, <1>15, <2>1 DEF Evict
  <1>16. CASE ServerTick
    <2> DEFINE gone == {k \in Keys : Found(k)' = Absent}
    <2>1. ASSUME NEW k \in Keys, Found(k)' # Absent PROVE Found(k)' = Found(k)
      BY <1>16, <2>1, RedisAssumption DEF ServerTick, Found, RedisTypeOK, Never
    <2>2. /\ gone \in SUBSET Keys
          /\ \A k \in Keys : Found(k)' = IF k \in gone THEN Absent ELSE Found(k)
      BY <2>1
    <2> HIDE DEF gone
    <2> QED
      BY <1>14, <1>16, <2>2 DEF ServerTick
  <1>17. CASE UNCHANGED redisVars
    BY <1>0, <1>17 DEF redisVars, CallBar
  <1> QED
    BY <1>2, <1>3, <1>5, <1>7, <1>8, <1>10, <1>11, <1>12, <1>13, <1>15, <1>16, <1>17
       DEF RedisNext

(* RedisCache implements the interface of cache/cache.go as a remote cache: its    *)
(* Spec implies the abstract one, where a Get is decided when the server executes   *)
(* it and a failed Set may still arrive.                                            *)
THEOREM RedisImplements == RedisSpec => ImplementsRemoteMap
  <1>1. RedisInit => RemoteMap!Init
    <2>1. ASSUME RedisInit PROVE MapBar = RemoteMap!Empty
      BY <2>1 DEF RedisInit, MapBar, RemoteMap!Empty, Found, NoEntry
    <2>2. ASSUME RedisInit PROVE CallBar = [c \in Clients |-> RemoteMap!Ready]
      BY <2>2 DEF RedisInit, CallBar, Promise, Ready, RemoteMap!Ready
    <2> QED
      BY <2>1, <2>2 DEF RedisInit, RemoteMap!Init, MapBar, CallBar
  <1>2. RedisInv /\ [RedisNext]_redisVars =>
           [RemoteMap!Next]_<<MapBar, CallBar, late>>
    BY RedisStepRefines DEF RedisInv
  <1> QED
    BY RedisInitInv, NextInv, <1>1, <1>2, PTL
       DEF RedisSpec, ImplementsRemoteMap, RemoteMap!Spec, RemoteMap!vars, MapBar,
           CallBar
-----------------------------------------------------------------------------

(***************************************************************************)
(* CacheTransfer.  An export is safe although several of them write one file: *)
(* as long as none has failed, either someone is about to write all of it    *)
(* again, or the file is whole and its writer has claimed it or will          *)
(* (Surviving).  Everything written was taken from a cache (Sources), and an  *)
(* import keeps account of what it has stored (Accounted).                   *)
(***************************************************************************)
\* What is written, in a whole file or being imported was taken at one moment.
Sources ==
    /\ \A e \in Exporters : exporter[e].pc \in {"taken", "written"} => exporter[e].data \in taken
    /\ file.state = "whole" => file.data \in taken
    /\ importer.pc \in {"storing", "done"} /\ ~torn => importer.data \in taken

Surviving ==
    ~broken /\ file # Missing =>
        \/ \E e \in Exporters : exporter[e].pc \in {"created", "taken"}
        \/ /\ file.state = "whole"
           /\ \/ file.data \in claims
              \/ \E e \in Exporters : exporter[e].pc = "written" /\ exporter[e].data = file.data

Accounted ==
    /\ importer.rest \subseteq DOMAIN importer.data
    /\ importer.pc = "done" => importer.rest = {}
    /\ importer.pc \in {"storing", "done"} /\ importer.failed = 0 =>
          \A k \in (DOMAIN importer.data \ importer.rest) \ touched :
              k \in DOMAIN stored /\ stored[k] = importer.data[k]

TransferInv == TransferTypeOK /\ Sources /\ Surviving /\ Accounted

-----------------------------------------------------------------------------
LEMMA NoneIsAMap == None \in Maps /\ DOMAIN None = {}
  <1>1. None \in [{} -> Values]
    BY DEF None
  <1> QED
    BY <1>1 DEF Maps

LEMMA MapsAreMaps ==
  ASSUME NEW f \in Maps
  PROVE  DOMAIN f \in SUBSET Keys /\ f \in [DOMAIN f -> Values]
  BY DEF Maps

\* What a write that was cut short, or a cache that lost entries, has left.
LEMMA PartsAreMaps ==
  ASSUME NEW f \in Maps, NEW K \in SUBSET DOMAIN f
  PROVE  [k \in K |-> f[k]] \in Maps
  <1>1. K \in SUBSET Keys /\ [k \in K |-> f[k]] \in [K -> Values]
    BY MapsAreMaps
  <1> QED
    BY <1>1 DEF Maps

(* Set (memory.go:58) adds or replaces one entry.                              *)
LEMMA WithIsAMap ==
  ASSUME stored \in Maps, NEW k \in Keys, NEW v \in Values
  PROVE  With(k, v) \in Maps
  <1>1. /\ With(k, v) \in [DOMAIN stored \cup {k} -> Values]
        /\ DOMAIN stored \cup {k} \in SUBSET Keys
    BY MapsAreMaps DEF With
  <1> QED
    BY <1>1 DEF Maps

(* The number of entries left to import goes down by one (export.go:121).       *)
LEMMA OneLess ==
  ASSUME NEW S \in SUBSET Keys, NEW k \in S
  PROVE  /\ Cardinality(S) \in Nat /\ Cardinality(S \ {k}) \in Nat
         /\ Cardinality(S) = Cardinality(S \ {k}) + 1
  <1>1. IsFiniteSet(S) /\ IsFiniteSet(S \ {k})
    BY ConstantAssumption, FS_Subset
  <1>2. Cardinality(S \ {k}) = Cardinality(S) - 1
    BY <1>1, FS_RemoveElement
  <1> QED
    BY <1>1, <1>2, FS_CardinalityType

-----------------------------------------------------------------------------
ExporterType ==
    [Exporters -> [pc : {"idle", "created", "taken", "written"}, data : Maps]]
FileType == [state : {"missing", "damaged", "mixed", "whole"}, data : Maps]
ImporterType == [pc : {"idle", "reading", "disturbed", "storing", "done", "failed"},
                 data : Maps, rest : SUBSET Keys, imported : Nat, failed : Nat]
Counts(i) ==
    /\ i \in ImporterType
    /\ i.imported + i.failed + Cardinality(i.rest) = Cardinality(DOMAIN i.data)

\* TypeOK in parts that an action changes or not.
LEMMA Typed ==
  TransferTypeOK <=> /\ inMemory \in BOOLEAN /\ stored \in Maps
             /\ file \in FileType /\ exporter \in ExporterType /\ Counts(importer)
             /\ exports \in 0..MaxExports /\ imports \in 0..MaxImports
             /\ taken \subseteq Maps /\ claims \subseteq taken /\ broken \in BOOLEAN
             /\ torn \in BOOLEAN /\ touched \subseteq Keys
  BY DEF TransferTypeOK, FileType, ExporterType, ImporterType, Counts

LEMMA TypedNext ==
  ASSUME inMemory' \in BOOLEAN, stored' \in Maps, file' \in FileType,
         exporter' \in ExporterType,
         Counts(importer'), exports' \in 0..MaxExports, imports' \in 0..MaxImports,
         taken' \subseteq Maps, claims' \subseteq taken', broken' \in BOOLEAN,
         touched' \subseteq Keys,
         torn' \in BOOLEAN
  PROVE  TransferTypeOK'
  BY DEF TransferTypeOK, FileType, ExporterType, ImporterType, Counts

\* An importer that has nothing to store, or all of a document.
LEMMA FreshCounts ==
  ASSUME NEW pc \in {"idle", "reading", "failed"}, NEW entries \in Maps
  PROVE  Counts([IdleImporter EXCEPT !.pc = pc]) /\ Counts(Storing(entries))
  <1> DEFINE i == [pc |-> pc, data |-> None, rest |-> {}, imported |-> 0, failed |-> 0]
             j == Storing(entries)
  <1>1. [IdleImporter EXCEPT !.pc = pc] = i
    BY DEF IdleImporter
  <1>2. DOMAIN None = {} /\ None \in Maps /\ Cardinality({}) = 0
    BY NoneIsAMap, FS_EmptySet
  <1>3. DOMAIN entries \in SUBSET Keys /\ Cardinality(DOMAIN entries) \in Nat
    BY MapsAreMaps, ConstantAssumption, FS_Subset, FS_CardinalityType
  <1>4. i \in ImporterType /\ j \in ImporterType
    BY <1>2, <1>3 DEF ImporterType, Storing
  <1>5. /\ i.data = None /\ i.rest = {} /\ i.imported = 0 /\ i.failed = 0
        /\ j.data = entries /\ j.rest = DOMAIN entries /\ j.imported = 0 /\ j.failed = 0
    BY DEF Storing
  <1> HIDE DEF i, j
  <1>6. Counts(i) /\ Counts(j)
    BY <1>2, <1>3, <1>4, <1>5 DEF Counts
  <1> QED
    BY <1>1, <1>6 DEF j

LEMMA IdleCounts == Counts(IdleImporter)
  <1>1. IdleImporter = [IdleImporter EXCEPT !.pc = "idle"]
    BY DEF IdleImporter
  <1> QED
    BY <1>1, FreshCounts, NoneIsAMap

\* A file that changes leaves the counts as they are.
LEMMA RewrittenCounts ==
  ASSUME Counts(importer), Rewritten
  PROVE  Counts(importer')
  <1> DEFINE d == [importer EXCEPT !.pc = "disturbed"]
  <1>1. /\ d.data = importer.data /\ d.rest = importer.rest
        /\ d.imported = importer.imported /\ d.failed = importer.failed
    BY DEF Counts, ImporterType
  <1>2. d \in ImporterType
    BY DEF Counts, ImporterType
  <1> HIDE DEF d
  <1>3. Counts(d)
    BY <1>1, <1>2 DEF Counts
  <1> QED
    BY <1>3 DEF Rewritten, d

\* One entry less to store, one more in a count.
LEMMA StoredCounts ==
  ASSUME Counts(importer), NEW k \in importer.rest
  PROVE  /\ Counts([CountedAsImported EXCEPT !.rest = @ \ {k}])
         /\ Counts([CountedAsFailed EXCEPT !.rest = @ \ {k}])
  <1> DEFINE r == importer.rest \ {k}
  <1>1. importer.rest \in SUBSET Keys /\ r \in SUBSET Keys
    BY DEF Counts, ImporterType
  <1>2. Cardinality(importer.rest) = Cardinality(r) + 1 /\ Cardinality(r) \in Nat
    BY <1>1, OneLess
  <1>3. /\ [CountedAsImported EXCEPT !.rest = @ \ {k}]
              = [importer EXCEPT !.imported = importer.imported + 1, !.rest = r]
        /\ [CountedAsFailed EXCEPT !.rest = @ \ {k}]
              = [importer EXCEPT !.failed = importer.failed + 1, !.rest = r]
    BY DEF CountedAsImported, CountedAsFailed, Counts, ImporterType
  <1> DEFINE i == [importer EXCEPT !.imported = importer.imported + 1, !.rest = r]
             f == [importer EXCEPT !.failed = importer.failed + 1, !.rest = r]
  <1>4. /\ i.imported = importer.imported + 1 /\ i.failed = importer.failed
        /\ f.imported = importer.imported /\ f.failed = importer.failed + 1
        /\ i.rest = r /\ f.rest = r /\ i.data = importer.data /\ f.data = importer.data
    BY DEF Counts, ImporterType
  <1>5. importer.imported + 1 \in Nat /\ importer.failed + 1 \in Nat
    BY DEF Counts, ImporterType
  <1>6. i \in ImporterType
    BY <1>1, <1>5 DEF Counts, ImporterType
  <1>7. f \in ImporterType
    BY <1>1, <1>5 DEF Counts, ImporterType
  <1> HIDE DEF r, i, f
  <1>8. Counts(i) /\ Counts(f)
    BY <1>2, <1>4, <1>6, <1>7 DEF Counts, ImporterType
  <1> QED
    BY <1>3, <1>8 DEF i, f

LEMMA TransferInitInv == TransferInit => TransferInv
  <1> SUFFICES ASSUME TransferInit PROVE TransferInv
    OBVIOUS
  <1>1. TransferTypeOK
    <2>1. /\ file \in [state : {"missing", "damaged", "mixed", "whole"}, data : Maps]
          /\ claims \subseteq Maps
      BY NoneIsAMap DEF TransferInit, Missing, Whole
    <2>2. stored \in Maps /\ exporter \in
             [Exporters -> [pc : {"idle", "created", "taken", "written"}, data : Maps]]
      BY NoneIsAMap DEF TransferInit, IdleExporter
    <2>3. file \in FileType /\ exporter \in ExporterType /\ Counts(importer)
      BY <2>1, <2>2, IdleCounts DEF TransferInit, FileType, ExporterType
    <2>4. exports \in 0..MaxExports /\ imports \in 0..MaxImports
      BY TransferAssumption DEF TransferInit
    <2> QED
      BY <2>1, <2>2, <2>3, <2>4, Typed DEF TransferInit
  <1>2. Sources
    BY DEF TransferInit, Sources, IdleExporter, IdleImporter,
           Missing, Whole
  <1>3. Surviving
    BY DEF TransferInit, Surviving, Whole
  <1>4. Accounted
    BY NoneIsAMap DEF TransferInit, Accounted, IdleImporter
  <1> QED
    BY <1>1, <1>2, <1>3, <1>4 DEF TransferInv

LEMMA TypeNext ==
  TransferInv /\ [TransferNext]_transferVars => TransferTypeOK'
  <1> SUFFICES ASSUME TransferTypeOK, Sources, Accounted,
                      [TransferNext]_transferVars
               PROVE  TransferTypeOK'
    BY DEF TransferInv
  <1> USE DEF FileType, ExporterType
  <1>0. /\ stored \in Maps /\ file \in FileType /\ exporter \in ExporterType
        /\ exports \in 0..MaxExports /\ imports \in 0..MaxImports
        /\ taken \subseteq Maps /\ claims \subseteq taken /\ broken \in BOOLEAN
        /\ touched \subseteq Keys /\ inMemory \in BOOLEAN /\ torn \in BOOLEAN /\ Counts(importer)
    BY Typed
  <1>1. ASSUME NEW e \in Exporters, Create(e) PROVE TransferTypeOK'
    <2>1. file' \in FileType /\ exporter' \in ExporterType
      BY <1>0, <1>1, NoneIsAMap DEF Create, Truncated
    <2>2. exports' \in 0..MaxExports
      BY <1>0, <1>1, TransferAssumption DEF Create
    <2>3. claims' \subseteq taken' /\ broken' \in BOOLEAN
      BY <1>0, <1>1 DEF Create
    <2>4. Counts(importer')
      BY <1>0, <1>1, RewrittenCounts DEF Create
    <2> QED
      BY <1>0, <1>1, <2>1, <2>2, <2>3, <2>4, TypedNext DEF Create
  <1>2. ASSUME NEW e \in Exporters, Take(e) PROVE TransferTypeOK'
    <2>1. exporter' \in ExporterType /\ taken' \subseteq Maps /\ claims' \subseteq taken'
      BY <1>0, <1>2 DEF Take
    <2> QED
      BY <1>0, <1>2, <2>1, TypedNext DEF Take
  <1>3. ASSUME NEW e \in Exporters, Unsupported(e) PROVE TransferTypeOK'
    <2>1. exporter' \in ExporterType
      BY <1>0, <1>3, NoneIsAMap DEF Unsupported, IdleExporter
    <2>2. claims' \subseteq taken' /\ broken' \in BOOLEAN
      BY <1>3 DEF Unsupported, Break
    <2> QED
      BY <1>0, <1>3, <2>1, <2>2, TypedNext DEF Unsupported
  <1>4. ASSUME NEW e \in Exporters, Write(e) PROVE TransferTypeOK'
    <2>1. exporter' \in ExporterType /\ file' \in FileType
      BY <1>0, <1>4 DEF Write, Whole
    <2>2. Counts(importer')
      BY <1>0, <1>4, RewrittenCounts DEF Write
    <2> QED
      BY <1>0, <1>4, <2>1, <2>2, TypedNext DEF Write, history
  <1>5. /\ Parts(file.data) \cup Mixtures \subseteq FileType
        /\ \A e \in Exporters : CutShort(exporter[e].data) \subseteq FileType
    <2>1. file.data \in Maps /\ \A e \in Exporters : exporter[e].data \in Maps
      BY <1>0
    <2>2. Mixtures \subseteq FileType
      BY NoneIsAMap DEF Mixed, Mixtures
    <2>3. ASSUME NEW entries \in Maps PROVE Parts(entries) \subseteq FileType
      BY PartsAreMaps DEF Parts
    <2> QED
      BY <1>0, <2>1, <2>2, <2>3 DEF CutShort, Whole
  <1>6. ASSUME NEW e \in Exporters, WriteFails(e) PROVE TransferTypeOK'
    <2>1. exporter' \in ExporterType
      BY <1>0, <1>6, NoneIsAMap DEF WriteFails, IdleExporter
    <2>2. file' \in FileType
      BY <1>5, <1>6 DEF WriteFails
    <2>4. claims' \subseteq taken' /\ broken' \in BOOLEAN
      BY <1>6 DEF WriteFails, Failure, Break
    <2>3. Counts(importer')
      BY <1>0, <1>6, RewrittenCounts DEF WriteFails
    <2> QED
      BY <1>0, <1>6, <2>1, <2>2, <2>3, <2>4, TypedNext DEF WriteFails
  <1>7. ASSUME NEW e \in Exporters, Exported(e) PROVE TransferTypeOK'
    <2>1. exporter' \in ExporterType
      BY <1>0, <1>7, NoneIsAMap DEF Exported, IdleExporter
    <2>2. claims' \subseteq taken' /\ broken' \in BOOLEAN
      BY <1>0, <1>7 DEF Exported, Claim, Sources
    <2> QED
      BY <1>0, <1>7, <2>1, <2>2, TypedNext DEF Exported
  <1>18. ASSUME NEW e \in Exporters, CloseFails(e) PROVE TransferTypeOK'
    <2>1. exporter' \in ExporterType
      BY <1>0, <1>18, NoneIsAMap DEF CloseFails, IdleExporter
    <2>2. file' \in FileType
      <3>1. file' \in {file} \cup Parts(file.data) \cup Mixtures
        BY <1>18 DEF CloseFails
      <3> QED
        BY <1>0, <1>5, <3>1
    <2>3. Counts(importer')
      BY <1>0, <1>18, RewrittenCounts DEF CloseFails
    <2>4. claims' \subseteq taken' /\ broken' \in BOOLEAN
      BY <1>18 DEF CloseFails, Break
    <2> QED
      BY <1>0, <1>18, <2>1, <2>2, <2>3, <2>4, TypedNext DEF CloseFails
  <1>8. CASE Decode
    <2>1. Counts(importer')
      <3>1. CASE importer' = [IdleImporter EXCEPT !.pc = "failed"]
        BY <3>1, FreshCounts, NoneIsAMap
      <3>2. ASSUME NEW entries \in Maps, importer' = Storing(entries)
            PROVE  Counts(importer')
        BY <3>2, FreshCounts
      <3>3. file.data \in Maps
        BY <1>0
      <3> QED
        BY <1>8, <3>1, <3>2, <3>3 DEF Decode
    <2>2. torn' \in BOOLEAN
      BY <1>8 DEF Decode, Torn
    <2> QED
      BY <1>0, <1>8, <2>1, <2>2, TypedNext DEF Decode
  <1>17. CASE Open
    <2>1. imports' \in 0..MaxImports
      BY <1>0, <1>17, TransferAssumption DEF Open
    <2>2. Counts(importer')
      BY <1>17, FreshCounts, NoneIsAMap DEF Open
    <2> QED
      BY <1>0, <1>17, <2>1, <2>2, TypedNext DEF Open, history
  <1>9. ASSUME NEW k \in importer.rest PROVE With(k, importer.data[k]) \in Maps
    <2>1. k \in Keys /\ importer.data \in Maps /\ k \in DOMAIN importer.data
      BY <1>0, <1>9 DEF Counts, ImporterType, Accounted
    <2>2. importer.data[k] \in Values
      BY <2>1, MapsAreMaps
    <2> QED
      BY <1>0, <2>1, <2>2, WithIsAMap
  <1>10. ASSUME NEW k \in Keys, Store(k) PROVE TransferTypeOK'
    <2>1. stored' \in Maps /\ Counts(importer')
      BY <1>0, <1>9, <1>10, StoredCounts DEF Store
    <2> QED
      BY <1>0, <1>10, <2>1, TypedNext DEF Store
  <1>11. ASSUME NEW k \in Keys, StoreFails(k) PROVE TransferTypeOK'
    <2>1. stored' \in Maps /\ Counts(importer')
      BY <1>0, <1>9, <1>11, StoredCounts DEF StoreFails
    <2> QED
      BY <1>0, <1>11, <2>1, TypedNext DEF StoreFails, history
  <1>12. CASE Imported
    <2>1. Counts(importer')
      BY <1>0, <1>12 DEF Imported, Counts, ImporterType
    <2> QED
      BY <1>0, <1>12, <2>1, TypedNext DEF Imported, history
  <1>13. ASSUME NEW k \in Keys, NEW v \in Values, Put(k, v) PROVE TransferTypeOK'
    <2>1. stored' \in Maps /\ touched' \subseteq Keys
      BY <1>0, <1>13, WithIsAMap DEF Put
    <2> QED
      BY <1>0, <1>13, <2>1, TypedNext DEF Put, transfers
  <1>14. ASSUME NEW K \in SUBSET Keys, Lose(K) PROVE TransferTypeOK'
    <2>1. stored' \in Maps /\ touched' \subseteq Keys
      BY <1>0, <1>14, PartsAreMaps DEF Lose
    <2> QED
      BY <1>0, <1>14, <2>1, TypedNext DEF Lose, transfers
  <1>15. CASE Crash
    <2>1. stored' \in Maps
      BY <1>0, <1>15, NoneIsAMap DEF Crash
    <2>2. file' \in FileType
      BY <1>0, <1>5, <1>15 DEF Crash
    <2>3. exporter' \in ExporterType
      BY <1>15, NoneIsAMap DEF Crash, IdleExporter
    <2>4. touched' \subseteq Keys /\ Counts(importer')
      BY <1>15, IdleCounts DEF Crash
    <2>5. claims' \subseteq taken' /\ broken' \in BOOLEAN
      BY <1>0, <1>15 DEF Crash, Break
    <2> QED
      BY <1>0, <1>15, <2>1, <2>2, <2>3, <2>4, <2>5, TypedNext DEF Crash
  <1>16. CASE UNCHANGED transferVars
    BY <1>0, <1>16, TypedNext DEF transferVars, transfers, history
  <1> QED
    BY <1>1, <1>2, <1>3, <1>4, <1>6, <1>7, <1>8, <1>10, <1>11, <1>12, <1>13, <1>14, <1>15, <1>16,
       <1>17, <1>18 DEF TransferNext

-----------------------------------------------------------------------------
LEMMA SourcesNext == TransferInv /\ [TransferNext]_transferVars => Sources'
  <1> SUFFICES ASSUME TransferTypeOK, Sources, [TransferNext]_transferVars PROVE Sources'
    BY DEF TransferInv
  <1> USE DEF Sources
  <1>0. exporter \in ExporterType /\ Counts(importer)
    BY Typed
  <1>1. ASSUME NEW e \in Exporters, Create(e) PROVE Sources'
    BY <1>0, <1>1 DEF Create, Truncated, Rewritten, ImporterType,
                      Counts, ExporterType
  <1>2. ASSUME NEW e \in Exporters, Take(e) PROVE Sources'
    BY <1>0, <1>2 DEF Take, ExporterType
  <1>3. ASSUME NEW e \in Exporters, Unsupported(e) PROVE Sources'
    BY <1>0, <1>3 DEF Unsupported, IdleExporter, ExporterType
  <1>4. ASSUME NEW e \in Exporters, Write(e) PROVE Sources'
    BY <1>0, <1>4 DEF Write, Whole, history, Rewritten,
                      ImporterType, Counts, ExporterType
  <1>5. ASSUME NEW e \in Exporters, WriteFails(e) PROVE Sources'
    BY <1>0, <1>5 DEF WriteFails, CutShort, Whole, Parts, Mixtures,
                      IdleExporter, Rewritten, Mixed,
                     ImporterType, Counts, ExporterType
  <1>16. ASSUME NEW e \in Exporters, CloseFails(e) PROVE Sources'
    <2>1. file' = file \/ file'.state # "whole"
      BY <1>16 DEF CloseFails, Parts, Mixtures, Mixed
    <2>2. /\ UNCHANGED <<taken, torn>> /\ Rewritten
          /\ exporter' = [exporter EXCEPT ![e] = IdleExporter]
      BY <1>16 DEF CloseFails
    <2> QED
      BY <1>0, <2>1, <2>2 DEF IdleExporter, Rewritten, ImporterType, Counts, ExporterType
  <1>6. ASSUME NEW e \in Exporters, Exported(e) PROVE Sources'
    BY <1>0, <1>6 DEF Exported, IdleExporter, ExporterType
  <1>7. CASE Decode
    <2>1. torn' = Torn /\ UNCHANGED <<exporter, file, taken>>
      BY <1>7 DEF Decode
    <2>2. CASE importer' = [IdleImporter EXCEPT !.pc = "failed"]
      BY <2>1, <2>2 DEF IdleImporter
    <2>3. CASE torn'
      BY <2>1, <2>3
    <2>4. CASE ~Torn /\ Decodes(file) /\ importer' = Storing(file.data)
      BY <2>1, <2>4 DEF Decodes, Storing
    <2> QED
      BY <1>7, <2>1, <2>2, <2>3, <2>4 DEF Decode
  <1>15. CASE Open
    BY <1>15 DEF Open, IdleImporter, history
  <1>8. ASSUME NEW k \in Keys, Store(k) PROVE Sources'
    BY <1>8 DEF Store, CountedAsImported, TransferTypeOK
  <1>9. ASSUME NEW k \in Keys, StoreFails(k) PROVE Sources'
    BY <1>9 DEF StoreFails, CountedAsFailed, history, TransferTypeOK
  <1>10. CASE Imported
    BY <1>10 DEF Imported, history, TransferTypeOK
  <1>11. ASSUME NEW k \in Keys, NEW v \in Values, Put(k, v) PROVE Sources'
    BY <1>11 DEF Put, transfers
  <1>12. ASSUME NEW K \in SUBSET Keys, Lose(K) PROVE Sources'
    BY <1>12 DEF Lose, transfers
  <1>13. CASE Crash
    BY <1>13 DEF Crash, CutShort, Whole, Parts, Mixtures, Mixed,
                 IdleExporter, IdleImporter
  <1>14. CASE UNCHANGED transferVars
    BY <1>14 DEF transferVars, transfers, history
  <1> QED
    BY <1>1, <1>2, <1>3, <1>4, <1>5, <1>6, <1>7, <1>8, <1>9, <1>10, <1>11, <1>12, <1>13, <1>14,
       <1>15, <1>16 DEF TransferNext

LEMMA SurvivingNext == TransferInv /\ [TransferNext]_transferVars => Surviving'
  <1> SUFFICES ASSUME TransferTypeOK, Surviving, [TransferNext]_transferVars PROVE Surviving'
    BY DEF TransferInv
  <1> USE DEF Surviving
  <1>0. exporter \in ExporterType /\ broken \in BOOLEAN
    BY Typed
  \* Someone has yet to write: there is nothing to be said of the file.
  <1>1. ASSUME NEW e \in Exporters, exporter'[e].pc \in {"created", "taken"} PROVE Surviving'
    BY <1>1
  <1>2. ASSUME NEW e \in Exporters, Create(e) \/ Take(e) PROVE Surviving'
    <2>1. exporter'[e].pc \in {"created", "taken"}
      BY <1>0, <1>2 DEF Create, Take, ExporterType
    <2> QED
      BY <1>1, <2>1
  <1>3. ASSUME NEW e \in Exporters, Unsupported(e) \/ WriteFails(e) \/ CloseFails(e)
        PROVE  Surviving'
    BY <1>3 DEF Unsupported, WriteFails, Failure, CloseFails, Break
  <1>4. ASSUME NEW e \in Exporters, Write(e) PROVE Surviving'
    <2>1. /\ exporter'[e].pc = "written" /\ exporter'[e].data = exporter[e].data
          /\ file'.state = "whole" /\ file'.data = exporter[e].data
      BY <1>0, <1>4 DEF Write, Whole, ExporterType
    <2> QED
      BY <2>1
  <1>5. ASSUME NEW e \in Exporters, Exported(e) PROVE Surviving'
    <2>1. /\ exporter[e].pc = "written"
          /\ broken \/ claims' = claims \cup {exporter[e].data}
          /\ UNCHANGED <<file, broken>>
          /\ \A d \in Exporters \ {e} : exporter'[d] = exporter[d]
      BY <1>0, <1>5 DEF Exported, Claim, ExporterType
    <2>2. ASSUME ~broken, file # Missing,
                 \E d \in Exporters : exporter[d].pc \in {"created", "taken"}
          PROVE  Surviving'
      <3>1. PICK d \in Exporters : exporter[d].pc \in {"created", "taken"}
        BY <2>2
      <3>2. exporter'[d].pc \in {"created", "taken"}
        BY <2>1, <3>1
      <3> QED
        BY <1>1, <3>2
    <2>3. ASSUME file.state = "whole", file.data \in claims
          PROVE  Surviving'
      BY <2>1, <2>3
    <2>4. ASSUME file.state = "whole", NEW d \in Exporters,
                 exporter[d].pc = "written", exporter[d].data = file.data
          PROVE  Surviving'
      <3>1. CASE d = e
        BY <2>1, <2>4, <3>1
      <3>2. CASE d # e
        <4>1. exporter'[d].pc = "written" /\ exporter'[d].data = file'.data /\ file'.state = "whole"
          BY <2>1, <2>4, <3>2
        <4> QED
          BY <4>1
      <3> QED
        BY <3>1, <3>2
    <2> QED
      BY <2>1, <2>2, <2>3, <2>4
  <1>6. ASSUME UNCHANGED <<file, exporter, claims, broken>> PROVE Surviving'
    BY <1>6
  <1>7. CASE Open \/ Decode \/ Imported
    BY <1>6, <1>7 DEF Open, Decode, Imported, history
  <1>8. ASSUME NEW k \in Keys, Store(k) \/ StoreFails(k) PROVE Surviving'
    BY <1>6, <1>8 DEF Store, StoreFails, history
  <1>9. ASSUME NEW k \in Keys, NEW v \in Values, Put(k, v) PROVE Surviving'
    BY <1>6, <1>9 DEF Put, transfers
  <1>10. ASSUME NEW K \in SUBSET Keys, Lose(K) PROVE Surviving'
    BY <1>6, <1>10 DEF Lose, transfers
  <1>11. CASE Crash
    <2>1. CASE Active # {}
      BY <1>11, <2>1 DEF Crash, Break
    <2>2. CASE Active = {}
      <3>1. \A e \in Exporters : exporter[e].pc = "idle"
        BY <2>2 DEF Active
      <3>2. UNCHANGED <<file, claims>> /\ broken' = broken
        BY <1>0, <1>11, <2>2, <3>1 DEF Crash
      <3> QED
        BY <3>1, <3>2
    <2> QED
      BY <2>1, <2>2
  <1>12. CASE UNCHANGED transferVars
    BY <1>6, <1>12 DEF transferVars, transfers, history
  <1> QED
    BY <1>2, <1>3, <1>4, <1>5, <1>7, <1>8, <1>9, <1>10, <1>11, <1>12 DEF TransferNext

LEMMA AccountedNext == TransferInv /\ [TransferNext]_transferVars => Accounted'
  <1> SUFFICES ASSUME TransferTypeOK, Accounted, [TransferNext]_transferVars PROVE Accounted'
    BY DEF TransferInv
  <1> USE DEF Accounted
  <1>1. ASSUME UNCHANGED <<stored, importer, touched>> PROVE Accounted'
    BY <1>1
  <1>2. ASSUME NEW e \in Exporters,
               Take(e) \/ Unsupported(e) \/ Exported(e)
        PROVE  Accounted'
    BY <1>1, <1>2 DEF Take, Unsupported, Exported
  <1>12. ASSUME NEW e \in Exporters,
                Create(e) \/ Write(e) \/ WriteFails(e) \/ CloseFails(e)
         PROVE  Accounted'
    <2>1. /\ importer' = importer \/ importer' = [importer EXCEPT !.pc = "disturbed"]
          /\ UNCHANGED <<stored, touched>>
      BY <1>12 DEF Create, Write, WriteFails, CloseFails, Rewritten,
                   history
    <2>2. CASE importer' = [importer EXCEPT !.pc = "disturbed"]
      BY <2>2 DEF TransferTypeOK
    <2> QED
      BY <1>1, <2>1, <2>2
  <1>3. importer.failed \in Nat /\ importer.imported \in Nat
    BY DEF TransferTypeOK
  <1>4. CASE Decode
    <2>1. CASE importer' = [IdleImporter EXCEPT !.pc = "failed"]
      BY <2>1 DEF IdleImporter
    <2>2. ASSUME NEW entries, importer' = Storing(entries) PROVE Accounted'
      BY <2>2 DEF Storing
    <2> QED
      BY <1>4, <2>1, <2>2 DEF Decode
  <1>13. CASE Open
    BY <1>13 DEF Open, IdleImporter
  <1>5. ASSUME NEW k \in Keys, Store(k) PROVE Accounted'
    <2>1. /\ importer.pc = "storing" /\ importer'.pc = "storing"
          /\ importer'.data = importer.data /\ importer'.rest = importer.rest \ {k}
          /\ importer'.failed = importer.failed /\ touched' = touched \ {k}
      BY <1>5 DEF Store, CountedAsImported, TransferTypeOK
    <2>2. /\ DOMAIN stored' = DOMAIN stored \cup {k} /\ stored'[k] = importer.data[k]
          /\ \A j \in DOMAIN stored \ {k} : stored'[j] = stored[j]
      BY <1>5 DEF Store, With
    <2>3. ASSUME importer'.failed = 0,
                 NEW j \in (DOMAIN importer'.data \ importer'.rest) \ touched'
          PROVE  j \in DOMAIN stored' /\ stored'[j] = importer'.data[j]
      <3>1. CASE j = k
        BY <2>1, <2>2, <3>1
      <3>2. CASE j # k
        BY <2>1, <2>2, <2>3, <3>2
      <3> QED
        BY <3>1, <3>2
    <2> QED
      BY <2>1, <2>3
  <1>6. ASSUME NEW k \in Keys, StoreFails(k) PROVE Accounted'
    <2>1. /\ importer'.pc = "storing" /\ importer'.data = importer.data
          /\ importer'.rest = importer.rest \ {k} /\ importer'.failed = importer.failed + 1
      BY <1>6 DEF StoreFails, CountedAsFailed, TransferTypeOK
    <2>2. importer'.failed # 0
      BY <1>3, <2>1
    <2> QED
      BY <2>1, <2>2
  <1>7. CASE Imported
    <2>1. /\ importer.pc = "storing" /\ importer.rest = {} /\ importer'.rest = {}
          /\ importer'.data = importer.data /\ importer'.failed = importer.failed
          /\ UNCHANGED <<stored, touched>>
      BY <1>7 DEF Imported, history, TransferTypeOK
    <2> QED
      BY <2>1
  <1>8. ASSUME NEW k \in Keys, NEW v \in Values, Put(k, v) PROVE Accounted'
    <2>1. /\ UNCHANGED importer /\ touched' = touched \cup {k}
          /\ DOMAIN stored' = DOMAIN stored \cup {k}
          /\ \A j \in DOMAIN stored \ {k} : stored'[j] = stored[j]
      BY <1>8 DEF Put, transfers, With
    <2> QED
      BY <2>1
  <1>9. ASSUME NEW K \in SUBSET Keys, Lose(K) PROVE Accounted'
    <2>1. /\ UNCHANGED importer /\ touched' = touched \cup K
          /\ DOMAIN stored' = DOMAIN stored \ K
          /\ \A j \in DOMAIN stored \ K : stored'[j] = stored[j]
      BY <1>9 DEF Lose, transfers
    <2> QED
      BY <2>1
  <1>10. CASE Crash
    BY <1>10 DEF Crash, IdleImporter
  <1>11. CASE UNCHANGED transferVars
    BY <1>1, <1>11 DEF transferVars, transfers, history
  <1> QED
    BY <1>2, <1>4, <1>5, <1>6, <1>7, <1>8, <1>9, <1>10, <1>11, <1>12, <1>13 DEF TransferNext

LEMMA TransferInvAlways == TransferSpec => []TransferInv
  <1>1. TransferInv /\ [TransferNext]_transferVars => TransferInv'
    BY TypeNext, SourcesNext, SurvivingNext, AccountedNext DEF TransferInv
  <1>2. TransferInit => TransferInv
    BY TransferInitInv
  <1> QED
    BY <1>1, <1>2, PTL DEF TransferSpec

-----------------------------------------------------------------------------
(* The counts of ImportResult (export.go:120-127) add up at every stage.         *)
THEOREM TransferTyped == TransferSpec => []TransferTypeOK
BY TransferInvAlways, PTL DEF TransferInv

(* However many exporters share a path (export.go:63), and wherever the process   *)
(* crashed before: exports that all returned nil leave the whole of one of them.  *)
THEOREM ExportsSurvive == TransferSpec => []ExportSurvives
  <1>1. TransferInv => ExportSurvives
    BY DEF TransferInv, Surviving, ExportSurvives, Active
  <1> QED
    BY TransferInvAlways, <1>1, PTL

(* What an import stores (export.go:121) is the whole of one moment of a cache,  *)
(* unless the file was written while it was read, or twice at once before.        *)
THEOREM ImportsFromExports == TransferSpec => []ImportsAreExports
  <1>1. TransferInv => ImportsAreExports
    BY DEF TransferInv, Sources, ImportsAreExports
  <1> QED
    BY TransferInvAlways, <1>1, PTL

(* An import without failures (export.go:122) has brought everything back.        *)
THEOREM CompleteImports == TransferSpec => []ImportIsComplete
  <1>1. TransferInv => ImportIsComplete
    BY DEF TransferInv, Accounted, ImportIsComplete
  <1> QED
    BY TransferInvAlways, <1>1, PTL
=============================================================================
