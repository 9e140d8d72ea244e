------------------------ MODULE ParallelTranslatorProofs ------------------------
(***************************************************************************)
(* What ParallelTranslator promises for batches of any length over any set *)
(* of texts: the parallel lookup answers each text once, no goroutine finds *)
(* its channel full or closed, and the call accounts for the whole batch.   *)
(***************************************************************************)
EXTENDS ParallelTranslator, FiniteSetTheorems, TLAPS

\* The texts whose goroutine has not called wg.Done, and those that have answered.
Running == {t \in Texts : routine[t] \in {"get", "send", "sent"}}
Sent == {t \in Texts : routine[t] \in {"sent", "done"}}

LookingUp == {"idle", "launch", "collect"}
LookedUp == {"gather", "waiting", "store", "return"}

\* The goroutines, the WaitGroup and the closer agree with the place of the caller.
GoroutinesInv ==
    /\ pc = "idle" => nodes = <<>>
    /\ \A t \in Texts : routine[t] # "none" => t \in Unique
    /\ pc \in LookedUp \cup {"collect"} => AllLaunched
    /\ closer = "none" <=> pc \in {"idle", "launch"}
    /\ closer = "closed" => \A t \in Texts : routine[t] \in {"none", "done"}
    /\ wg = Cardinality(Running)
    /\ pc \in LookedUp => closer = "closed" /\ results = <<>>

\* A translation is of the text that it is kept or sent for.
ValuesInv ==
    /\ \A t \in Texts : /\ store[t] # Absent => store[t].text = t
                        /\ answer[t] # Absent => answer[t].text = t
                        /\ translations[t] # Absent => translations[t].text = t
    /\ \A i \in DOMAIN results : results[i].value # Absent => results[i].value.text = results[i].hash

\* An answer in the channel is the only one about its text and still to be collected;
\* the answers collected are those that were sent, a hit or a miss.
ChannelInv ==
    /\ \A i, j \in DOMAIN results : results[i].hash = results[j].hash => i = j
    /\ \A i \in DOMAIN results : /\ results[i].hash \in Sent \ missedHashes
                                 /\ translations[results[i].hash] = Absent
    /\ missedHashes \subseteq Sent
    /\ \A t \in Texts : translations[t] # Absent => t \in Sent
    /\ pc \in LookingUp \cup {"gather"} =>
          \A t \in Texts : translations[t] # Absent => t \notin missedHashes
    /\ \A t \in Sent : \/ \E i \in DOMAIN results : results[i].hash = t
                       \/ translations[t] # Absent
                       \/ t \in missedHashes

\* f is the place where t comes first in the batch.
IsFirst(f, t) == f \in DOMAIN nodes /\ nodes[f] = t /\ \A j \in 1..(f - 1) : nodes[j] # t

\* cacheMisses lists the missed texts among the nodes read, by their first places.
MissesInv ==
    /\ pc \in LookingUp => cacheMisses = <<>> /\ scanned = 0
    /\ pc \in {"waiting", "store", "return"} => scanned = Len(nodes)
    /\ \A k \in DOMAIN cacheMisses :
          cacheMisses[k] \in missedHashes /\ \E f \in 1..scanned : IsFirst(f, cacheMisses[k])
    /\ \A j, k \in DOMAIN cacheMisses : j < k =>
          \A f, g \in 1..scanned : IsFirst(f, cacheMisses[j]) /\ IsFirst(g, cacheMisses[k]) => f < g
    /\ \A i \in 1..scanned : nodes[i] \in missedHashes =>
          \E k \in DOMAIN cacheMisses : cacheMisses[k] = nodes[i]

\* The answers are of the texts requested, and the first translatedCount are stored.
RequestInv ==
    /\ pc \in LookingUp \cup {"gather", "waiting"} => translatedCount = 0
    /\ pc \in {"waiting", "store", "return"} => cachedCount = Cardinality(Unique \ missedHashes)
    /\ pc \in {"waiting", "store"} => provides
    /\ pc = "store" => Len(answers) <= Len(cacheMisses) /\ translatedCount <= Len(answers)
    /\ pc = "store" => \A i \in DOMAIN answers : answers[i].text = cacheMisses[i]
    /\ pc \in {"store", "return"} =>
          \A k \in 1..translatedCount : translations[cacheMisses[k]] # Absent
    /\ pc = "return" /\ provides => translatedCount = Len(cacheMisses)

IInv ==
    /\ TypeOK
    /\ GoroutinesInv
    /\ ValuesInv
    /\ ChannelInv
    /\ MissesInv
    /\ RequestInv

-----------------------------------------------------------------------------
LEMMA UpTo == ASSUME NEW n \in Nat PROVE IsFiniteSet(1..n) /\ Cardinality(1..n) = n
<1>1. 1 \in Int /\ n \in Int
  OBVIOUS
<1>2. IsFiniteSet(1..n) /\ Cardinality(1..n) = IF 1 > n THEN 0 ELSE n - 1 + 1
  BY <1>1, FS_Interval
<1>3. 1 > n => n = 0
  OBVIOUS
<1> QED BY <1>2, <1>3

\* The distinct texts of a batch are finitely many, and so are the goroutines.
LEMMA UniqueIsFinite ==
    ASSUME nodes \in Seq(Texts)
    PROVE  IsFiniteSet(Unique) /\ Unique \subseteq Texts
<1>1. nodes \in Surjection(1..Len(nodes), Unique)
  BY DEF Surjection, Unique
<1>2. IsFiniteSet(1..Len(nodes))
  BY UpTo
<1>3. IsFiniteSet(Unique)
  BY <1>1, <1>2, FS_Surjection
<1> QED BY <1>3 DEF Unique

LEMMA RunningIsFinite ==
    ASSUME TypeOK, GoroutinesInv
    PROVE  IsFiniteSet(Running) /\ Cardinality(Running) \in Nat
<1>1. Running \subseteq Unique
  BY DEF Running, GoroutinesInv
<1>2. IsFiniteSet(Unique)
  BY UniqueIsFinite DEF TypeOK
<1>3. IsFiniteSet(Running)
  BY <1>1, <1>2, FS_Subset
<1> QED BY <1>3, FS_CardinalityType

\* Between two calls nothing is left of the last one.
LEMMA IdleIsFresh ==
    ASSUME IInv, pc = "idle"
    PROVE  /\ nodes = <<>> /\ Unique = {}
           /\ \A t \in Texts : routine[t] = "none" /\ translations[t] = Absent
           /\ results = <<>> /\ missedHashes = {} /\ cacheMisses = <<>> /\ scanned = 0
           /\ wg = 0 /\ Running = {} /\ Sent = {} /\ closer = "none" /\ translatedCount = 0
<1>1. nodes = <<>> /\ Unique = {}
  BY DEF IInv, GoroutinesInv, Unique
<1>2. \A t \in Texts : routine[t] = "none"
  BY <1>1 DEF IInv, GoroutinesInv
<1>3. Running = {} /\ Sent = {}
  BY <1>2 DEF Running, Sent
<1>4. wg = 0 /\ closer = "none"
  BY <1>3, FS_EmptySet DEF IInv, GoroutinesInv
<1>5. missedHashes = {} /\ \A t \in Texts : translations[t] = Absent
  BY <1>3 DEF IInv, ChannelInv
<1>6. results = <<>>
  BY <1>3 DEF IInv, ChannelInv, TypeOK
<1>7. cacheMisses = <<>> /\ scanned = 0
  BY DEF IInv, MissesInv, LookingUp
<1>8. translatedCount = 0
  BY DEF IInv, RequestInv, LookingUp
<1> QED BY <1>1, <1>2, <1>3, <1>4, <1>5, <1>6, <1>7, <1>8

\* Returning, like the start of the program, leaves nothing of a call behind.
LEMMA InitIInv == Init => IInv
<1> SUFFICES ASSUME Init PROVE IInv
  OBVIOUS
<1>1. TypeOK
  <2>1. NoTranslations \in [Texts -> Translations \cup {Absent}]
    BY DEF NoTranslations
  <2>2. routine \in [Texts -> {"none", "get", "send", "sent", "done"}]
    BY DEF Init, NoRoutines
  <2>3. /\ nodes \in Seq(Texts) /\ results \in Seq(LookupResults)
        /\ cacheMisses \in Seq(Texts) /\ answers \in Seq(Translations)
        /\ scanned \in 0..Len(nodes)
    BY DEF Init
  <2> QED BY <2>1, <2>2, <2>3 DEF Init, TypeOK
<1>2. Running = {} /\ Sent = {} /\ Unique = {}
  BY DEF Init, Running, Sent, Unique, NoRoutines
<1>3. GoroutinesInv
  BY <1>2, FS_EmptySet DEF Init, GoroutinesInv, NoRoutines, LookedUp
<1>4. ValuesInv
  BY DEF Init, ValuesInv, NoTranslations
<1>5. ChannelInv
  BY <1>2 DEF Init, ChannelInv, NoTranslations
<1>6. MissesInv
  BY DEF Init, MissesInv, LookingUp
<1>7. RequestInv
  BY DEF Init, RequestInv, LookingUp
<1> QED BY <1>1, <1>3, <1>4, <1>5, <1>6, <1>7 DEF IInv

LEMMA ReturnIInv ==
    ASSUME IInv, NEW r \in Outcomes, Return(r)
    PROVE  IInv'
<1>1. TypeOK'
  <2>1. NoTranslations \in [Texts -> Translations \cup {Absent}]
    BY DEF NoTranslations
  <2>2. routine' \in [Texts -> {"none", "get", "send", "sent", "done"}]
    BY DEF Return, NoRoutines
  <2>3. /\ nodes' \in Seq(Texts) /\ results' \in Seq(LookupResults)
        /\ cacheMisses' \in Seq(Texts) /\ answers' \in Seq(Translations)
        /\ scanned' \in 0..Len(nodes')
    BY DEF Return
  <2>4. store' \in [Texts -> Translations \cup {Absent}]
    BY DEF IInv, TypeOK, Return
  <2> QED BY <2>1, <2>2, <2>3, <2>4 DEF Return, TypeOK
<1>2. Running' = {} /\ Sent' = {} /\ Unique' = {}
  BY DEF Return, Running, Sent, Unique, NoRoutines
<1>3. GoroutinesInv'
  BY <1>2, FS_EmptySet DEF Return, GoroutinesInv, NoRoutines, LookedUp
<1>4. ValuesInv'
  BY DEF IInv, Return, ValuesInv, NoTranslations
<1>5. ChannelInv'
  BY <1>2 DEF Return, ChannelInv, NoTranslations
<1>6. MissesInv'
  BY DEF Return, MissesInv, LookingUp
<1>7. RequestInv'
  BY DEF Return, RequestInv, LookingUp
<1> QED BY <1>1, <1>3, <1>4, <1>5, <1>6, <1>7 DEF IInv

\* The steps of the caller that begin a call and end its launches.
LEMMA BeginIInv ==
    ASSUME IInv, NEW doc \in Documents, NEW p \in BOOLEAN, Begin(doc, p)
    PROVE  IInv'
<1>0. /\ nodes = <<>> /\ Unique = {}
      /\ \A t \in Texts : routine[t] = "none" /\ translations[t] = Absent
      /\ results = <<>> /\ missedHashes = {} /\ cacheMisses = <<>> /\ scanned = 0
      /\ wg = 0 /\ Running = {} /\ Sent = {} /\ closer = "none" /\ translatedCount = 0
  BY IdleIsFresh DEF Begin
<1>1. TypeOK'
  BY <1>0, ParallelAssumption DEF IInv, Begin, TypeOK, lookup, tables, Nothing
<1>2. Running' = {} /\ Sent' = {}
  BY <1>0 DEF Begin, lookup, Running, Sent
<1>3. GoroutinesInv'
  BY <1>0, <1>2, FS_EmptySet DEF Begin, lookup, GoroutinesInv, LookedUp
<1>4. ValuesInv'
  BY DEF IInv, Begin, lookup, tables, ValuesInv
<1>5. ChannelInv'
  BY <1>0, <1>2 DEF Begin, lookup, tables, ChannelInv
<1>6. MissesInv'
  BY <1>0 DEF Begin, tables, MissesInv, LookingUp
<1>7. RequestInv'
  BY <1>0 DEF Begin, tables, RequestInv, LookingUp
<1> QED BY <1>1, <1>3, <1>4, <1>5, <1>6, <1>7 DEF IInv

LEMMA LaunchIInv ==
    ASSUME IInv, NEW t \in Texts, Launch(t)
    PROVE  IInv'
<1>0. nodes' = nodes /\ Unique' = Unique
  BY DEF Launch, call, Unique
<1>r. /\ routine[t] = "none" /\ routine'[t] = "get"
      /\ \A u \in Texts \ {t} : routine'[u] = routine[u]
  BY DEF IInv, TypeOK, Launch
<1>1. TypeOK'
  BY DEF IInv, Launch, call, tables, TypeOK
<1>2. Running' = Running \cup {t} /\ t \notin Running /\ Sent' = Sent
  BY <1>r DEF Running, Sent
<1>3. GoroutinesInv'
  <2>1. wg' = Cardinality(Running')
    BY <1>2, RunningIsFinite, FS_AddElement DEF IInv, Launch, GoroutinesInv
  <2>2. \A u \in Texts : routine'[u] # "none" => u \in Unique'
    BY <1>0, <1>r DEF IInv, Launch, GoroutinesInv
  <2> QED BY <1>0, <2>1, <2>2 DEF IInv, Launch, GoroutinesInv, LookedUp
<1>4. ValuesInv'
  BY DEF IInv, Launch, tables, ValuesInv
<1>5. ChannelInv'
  BY <1>2 DEF IInv, Launch, tables, ChannelInv
<1>6. MissesInv'
  BY <1>0 DEF IInv, Launch, tables, MissesInv, IsFirst
<1>7. RequestInv'
  BY <1>0 DEF IInv, Launch, call, tables, RequestInv
<1> QED BY <1>1, <1>3, <1>4, <1>5, <1>6, <1>7 DEF IInv

LEMMA LaunchCloserIInv ==
    ASSUME IInv, LaunchCloser
    PROVE  IInv'
<1>0. nodes' = nodes /\ Unique' = Unique
  BY DEF LaunchCloser, call, Unique
<1>1. TypeOK'
  BY DEF IInv, LaunchCloser, call, tables, TypeOK
<1>2. Running' = Running /\ Sent' = Sent
  BY DEF LaunchCloser, Running, Sent
<1>3. GoroutinesInv'
  BY <1>0, <1>2 DEF IInv, LaunchCloser, GoroutinesInv, LookedUp, AllLaunched
<1>4. ValuesInv'
  BY DEF IInv, LaunchCloser, tables, ValuesInv
<1>5. ChannelInv'
  BY <1>2 DEF IInv, LaunchCloser, tables, ChannelInv, LookingUp
<1>6. MissesInv'
  BY <1>0 DEF IInv, LaunchCloser, tables, MissesInv, IsFirst, LookingUp
<1>7. RequestInv'
  BY <1>0 DEF IInv, LaunchCloser, call, tables, RequestInv, LookingUp
<1> QED BY <1>1, <1>3, <1>4, <1>5, <1>6, <1>7 DEF IInv

\* The steps of a goroutine of the lookup, and of the one that closes the channel.
LEMMA GetIInv ==
    ASSUME IInv, NEW t \in Texts, Get(t)
    PROVE  IInv'
<1>0. nodes' = nodes /\ Unique' = Unique
  BY DEF Get, call, Unique
<1>r. /\ routine[t] = "get" /\ routine'[t] = "send"
      /\ \A u \in Texts \ {t} : routine'[u] = routine[u]
  BY DEF IInv, TypeOK, Get
<1>1. TypeOK'
  BY DEF IInv, Get, call, tables, TypeOK
<1>2. Running' = Running /\ Sent' = Sent
  BY <1>r DEF Running, Sent
<1>3. GoroutinesInv'
  BY <1>0, <1>r, <1>2 DEF IInv, Get, GoroutinesInv, AllLaunched, LookedUp
<1>4. ValuesInv'
  BY DEF IInv, TypeOK, Get, tables, ValuesInv
<1>5. ChannelInv'
  BY <1>2 DEF IInv, Get, tables, ChannelInv
<1>6. MissesInv'
  BY <1>0 DEF IInv, Get, tables, MissesInv, IsFirst
<1>7. RequestInv'
  BY <1>0 DEF IInv, Get, call, tables, RequestInv
<1> QED BY <1>1, <1>3, <1>4, <1>5, <1>6, <1>7 DEF IInv

LEMMA SendLookupIInv ==
    ASSUME IInv, NEW t \in Texts, SendLookup(t)
    PROVE  IInv'
<1>0. nodes' = nodes /\ Unique' = Unique
  BY DEF SendLookup, call, Unique
<1>r. /\ routine[t] = "send" /\ routine'[t] = "sent"
      /\ \A u \in Texts \ {t} : routine'[u] = routine[u]
  BY DEF IInv, TypeOK, SendLookup
<1>l. LookupResult(t) \in LookupResults /\ LookupResult(t).hash = t /\ LookupResult(t).value = answer[t]
  BY DEF IInv, TypeOK, LookupResult, LookupResults
<1>s. /\ Len(results') = Len(results) + 1 /\ Len(results) \in Nat
      /\ \A i \in DOMAIN results : results'[i] = results[i]
      /\ results'[Len(results) + 1] = LookupResult(t)
      /\ DOMAIN results = 1..Len(results)
      /\ DOMAIN results' = 1..(Len(results) + 1)
      /\ results' \in Seq(LookupResults)
  BY <1>l DEF IInv, TypeOK, SendLookup
<1>1. TypeOK'
  BY <1>s DEF IInv, SendLookup, call, tables, TypeOK
<1>2. Running' = Running /\ Sent' = Sent \cup {t} /\ t \notin Sent
  BY <1>r DEF Running, Sent
<1>p. pc \in {"launch", "collect"}
  <2>1. closer # "closed" /\ nodes # <<>>
    BY <1>r DEF IInv, GoroutinesInv, Unique
  <2> QED BY <2>1 DEF IInv, TypeOK, GoroutinesInv, LookedUp
<1>3. GoroutinesInv'
  BY <1>0, <1>r, <1>2, <1>p DEF IInv, SendLookup, GoroutinesInv, AllLaunched, LookedUp
<1>4. ValuesInv'
  BY <1>s, <1>l DEF IInv, SendLookup, tables, ValuesInv
<1>5. ChannelInv'
  <2>0. translations' = translations /\ missedHashes' = missedHashes /\ pc' = pc
    BY DEF SendLookup, tables
  <2>1. translations[t] = Absent /\ t \notin missedHashes
    BY <1>2 DEF IInv, ChannelInv
  <2>2. \A i \in DOMAIN results : results[i].hash # t
    BY <1>2 DEF IInv, ChannelInv
  <2>3. \A i, j \in DOMAIN results' : results'[i].hash = results'[j].hash => i = j
    BY <1>s, <1>l, <2>2 DEF IInv, ChannelInv
  <2>4. \A i \in DOMAIN results' : /\ results'[i].hash \in Sent' \ missedHashes'
                                   /\ translations'[results'[i].hash] = Absent
    BY <1>s, <1>l, <1>2, <2>0, <2>1 DEF IInv, ChannelInv
  <2>5. \A u \in Sent' : \/ \E i \in DOMAIN results' : results'[i].hash = u
                         \/ translations'[u] # Absent
                         \/ u \in missedHashes'
    <3> SUFFICES ASSUME NEW u \in Sent' PROVE \/ \E i \in DOMAIN results' : results'[i].hash = u
                                              \/ translations[u] # Absent
                                              \/ u \in missedHashes
      BY <2>0
    <3>1. CASE u = t
      BY <3>1, <1>s, <1>l
    <3>2. CASE u \in Sent
      BY <3>2, <1>s DEF IInv, ChannelInv
    <3> QED BY <3>1, <3>2, <1>2
  <2> QED BY <1>2, <2>0, <2>3, <2>4, <2>5 DEF IInv, ChannelInv
<1>6. MissesInv'
  BY <1>0 DEF IInv, SendLookup, tables, MissesInv, IsFirst
<1>7. RequestInv'
  BY <1>0 DEF IInv, SendLookup, call, tables, RequestInv
<1> QED BY <1>1, <1>3, <1>4, <1>5, <1>6, <1>7 DEF IInv

LEMMA DoneIInv ==
    ASSUME IInv, NEW t \in Texts, Done(t)
    PROVE  IInv'
<1>0. nodes' = nodes /\ Unique' = Unique
  BY DEF Done, call, Unique
<1>r. /\ routine[t] = "sent" /\ routine'[t] = "done"
      /\ \A u \in Texts \ {t} : routine'[u] = routine[u]
  BY DEF IInv, TypeOK, Done
<1>2. Running' = Running \ {t} /\ t \in Running /\ Sent' = Sent
  BY <1>r DEF Running, Sent
<1>w. wg' = Cardinality(Running') /\ wg' \in Nat
  <2>1. IsFiniteSet(Running) /\ wg = Cardinality(Running)
    BY RunningIsFinite DEF IInv, GoroutinesInv
  <2>2. IsFiniteSet(Running') /\ Cardinality(Running') = wg - 1
    BY <1>2, <2>1, FS_RemoveElement
  <2> QED BY <2>2, FS_CardinalityType DEF Done
<1>1. TypeOK'
  BY <1>w DEF IInv, Done, call, tables, TypeOK
<1>3. GoroutinesInv'
  BY <1>0, <1>r, <1>w DEF IInv, Done, GoroutinesInv, AllLaunched, LookedUp
<1>4. ValuesInv'
  BY DEF IInv, Done, tables, ValuesInv
<1>5. ChannelInv'
  BY <1>2 DEF IInv, Done, tables, ChannelInv
<1>6. MissesInv'
  BY <1>0 DEF IInv, Done, tables, MissesInv, IsFirst
<1>7. RequestInv'
  BY <1>0 DEF IInv, Done, call, tables, RequestInv
<1> QED BY <1>1, <1>3, <1>4, <1>5, <1>6, <1>7 DEF IInv

LEMMA CloseIInv ==
    ASSUME IInv, Close
    PROVE  IInv'
<1>0. nodes' = nodes /\ Unique' = Unique
  BY DEF Close, call, Unique
<1>1. TypeOK'
  BY DEF IInv, Close, call, tables, TypeOK
<1>2. Running' = Running /\ Sent' = Sent
  BY DEF Close, Running, Sent
<1>3. GoroutinesInv'
  <2>1. Running = {}
    BY RunningIsFinite, FS_EmptySet DEF IInv, GoroutinesInv, Close
  <2>2. \A t \in Texts : routine[t] \in {"none", "done"}
    BY <2>1 DEF IInv, TypeOK, Running
  <2> QED BY <1>0, <1>2, <2>2 DEF IInv, Close, GoroutinesInv, LookedUp, AllLaunched
<1>4. ValuesInv'
  BY DEF IInv, Close, tables, ValuesInv
<1>5. ChannelInv'
  BY <1>2 DEF IInv, Close, tables, ChannelInv
<1>6. MissesInv'
  BY <1>0 DEF IInv, Close, tables, MissesInv, IsFirst
<1>7. RequestInv'
  BY <1>0 DEF IInv, Close, call, tables, RequestInv
<1> QED BY <1>1, <1>3, <1>4, <1>5, <1>6, <1>7 DEF IInv

\* The caller collects an answer: a hit or a miss.
LEMMA CollectIInv ==
    ASSUME IInv, Collect
    PROVE  IInv'
<1>0. nodes' = nodes /\ Unique' = Unique /\ pc = "collect" /\ pc' = pc
  BY DEF Collect, call, Unique
<1> DEFINE result == Head(results)
<1>s. /\ result \in LookupResults /\ result = results[1] /\ 1 \in DOMAIN results
      /\ results' \in Seq(LookupResults) /\ results' = Tail(results)
      /\ Len(results) \in Nat \ {0} /\ DOMAIN results = 1..Len(results)
      /\ DOMAIN results' = 1..(Len(results) - 1)
      /\ \A i \in DOMAIN results' : results'[i] = results[i + 1] /\ i + 1 \in DOMAIN results
  BY DEF IInv, TypeOK, Collect
<1>h. result.hash \in Texts /\ result.value \in Translations \cup {Absent}
  BY <1>s DEF LookupResults
<1>t. /\ result.hash \in Sent \ missedHashes /\ translations[result.hash] = Absent
      /\ \A i \in DOMAIN results' : results'[i].hash # result.hash
  BY <1>s DEF IInv, ChannelInv
<1>c. \/ /\ result.value # Absent /\ missedHashes' = missedHashes
         /\ translations' = [translations EXCEPT ![result.hash] = result.value]
      \/ /\ result.value = Absent /\ translations' = translations
         /\ missedHashes' = missedHashes \cup {result.hash}
  BY DEF Collect
<1>u. \A u \in Texts : u # result.hash => /\ translations'[u] = translations[u]
                                          /\ u \in missedHashes' <=> u \in missedHashes
  BY <1>c DEF IInv, TypeOK
<1>v. \/ result.value # Absent /\ translations'[result.hash] # Absent /\ result.hash \notin missedHashes'
         /\ translations'[result.hash] = result.value
      \/ translations'[result.hash] = Absent /\ result.hash \in missedHashes'
  BY <1>c, <1>h, <1>t DEF IInv, TypeOK
<1>y. missedHashes' \subseteq Texts /\ translations' \in [Texts -> Translations \cup {Absent}]
  BY <1>c, <1>h DEF IInv, TypeOK
<1>x. UNCHANGED <<store, call, routine, answer, wg, closer, cacheMisses, scanned, answers,
                  cachedCount, translatedCount, outcome>>
  BY DEF Collect
<1>2. Running' = Running /\ Sent' = Sent /\ Sent \subseteq Texts
  BY <1>x DEF Running, Sent
<1> HIDE DEF result
<1>1. TypeOK'
  BY <1>0, <1>s, <1>y, <1>x DEF IInv, call, TypeOK
<1>3. GoroutinesInv'
  BY <1>0, <1>2, <1>x DEF IInv, GoroutinesInv, AllLaunched, LookedUp
<1>4. ValuesInv'
  <2>1. \A i \in DOMAIN results' : results'[i].value # Absent => results'[i].value.text = results'[i].hash
    BY <1>s DEF IInv, ValuesInv
  <2>2. result.value # Absent => result.value.text = result.hash
    BY <1>s DEF IInv, ValuesInv
  <2>3. \A u \in Texts : translations'[u] # Absent => translations'[u].text = u
    <3> TAKE u \in Texts
    <3>1. CASE u = result.hash
      BY <3>1, <1>v, <2>2
    <3>2. CASE u # result.hash
      BY <3>2, <1>u DEF IInv, ValuesInv
    <3> QED BY <3>1, <3>2
  <2> QED BY <1>x, <2>1, <2>3 DEF IInv, ValuesInv
<1>5. ChannelInv'
  <2>1. \A i, j \in DOMAIN results' : results'[i].hash = results'[j].hash => i = j
    BY <1>s DEF IInv, ChannelInv
  <2>2. \A i \in DOMAIN results' : /\ results'[i].hash \in Sent' \ missedHashes'
                                   /\ translations'[results'[i].hash] = Absent
    <3> TAKE i \in DOMAIN results'
    <3>1. results'[i].hash \in Sent \ missedHashes /\ translations[results'[i].hash] = Absent
      BY <1>s DEF IInv, ChannelInv
    <3> QED BY <3>1, <1>t, <1>u, <1>2
  <2>3. missedHashes' \subseteq Sent'
    BY <1>c, <1>t, <1>2 DEF IInv, ChannelInv
  <2>4. \A u \in Texts : translations'[u] # Absent => u \in Sent' /\ u \notin missedHashes'
    <3> TAKE u \in Texts
    <3>1. CASE u = result.hash
      BY <3>1, <1>v, <1>t, <1>2
    <3>2. CASE u # result.hash
      BY <3>2, <1>u, <1>2, <1>0 DEF IInv, ChannelInv, LookingUp
    <3> QED BY <3>1, <3>2
  <2>5. \A u \in Sent' : \/ \E i \in DOMAIN results' : results'[i].hash = u
                         \/ translations'[u] # Absent
                         \/ u \in missedHashes'
    <3> TAKE u \in Sent'
    <3>1. CASE u = result.hash
      BY <3>1, <1>v
    <3>2. CASE u # result.hash /\ \E i \in DOMAIN results : results[i].hash = u
      <4>1. PICK i \in DOMAIN results : results[i].hash = u
        BY <3>2
      <4>2. i # 1 /\ i - 1 \in DOMAIN results' /\ results'[i - 1] = results[i]
        BY <4>1, <3>2, <1>s
      <4> QED BY <4>1, <4>2
    <3>3. CASE u # result.hash /\ (translations[u] # Absent \/ u \in missedHashes)
      BY <3>3, <1>u, <1>2
    <3> QED BY <3>1, <3>2, <3>3, <1>2 DEF IInv, ChannelInv
  <2> QED BY <2>1, <2>2, <2>3, <2>4, <2>5 DEF ChannelInv
<1>6. MissesInv'
  BY <1>0, <1>x DEF IInv, MissesInv, LookingUp
<1>7. RequestInv'
  BY <1>0, <1>x DEF IInv, RequestInv, LookingUp
<1> QED BY <1>1, <1>3, <1>4, <1>5, <1>6, <1>7 DEF IInv

LEMMA LookupDoneIInv ==
    ASSUME IInv, LookupDone
    PROVE  IInv'
<1>0. nodes' = nodes /\ Unique' = Unique /\ pc = "collect" /\ pc' = "gather"
  BY DEF LookupDone, call, Unique
<1>1. TypeOK'
  BY DEF IInv, LookupDone, call, lookup, tables, TypeOK
<1>2. Running' = Running /\ Sent' = Sent
  BY DEF LookupDone, lookup, Running, Sent
<1>3. GoroutinesInv'
  BY <1>0, <1>2 DEF IInv, LookupDone, RangeEnds, lookup, GoroutinesInv, LookedUp, AllLaunched
<1>4. ValuesInv'
  BY DEF IInv, LookupDone, lookup, tables, ValuesInv
<1>5. ChannelInv'
  BY <1>0, <1>2 DEF IInv, LookupDone, lookup, tables, ChannelInv, LookingUp
<1>6. MissesInv'
  BY <1>0 DEF IInv, LookupDone, tables, MissesInv, IsFirst, LookingUp
<1>7. RequestInv'
  BY <1>0 DEF IInv, LookupDone, call, tables, RequestInv, LookingUp
<1> QED BY <1>1, <1>3, <1>4, <1>5, <1>6, <1>7 DEF IInv

\* A missed text that is not listed yet is listed after those that come before it.
LEMMA GatherIInv ==
    ASSUME IInv, Gather
    PROVE  IInv'
<1> DEFINE text == nodes[scanned + 1]
<1>0. nodes' = nodes /\ Unique' = Unique /\ pc = "gather" /\ pc' = pc
  BY DEF Gather, call, Unique
<1>s. /\ scanned \in Nat /\ scanned + 1 \in 1..Len(nodes) /\ text \in Texts
      /\ Len(nodes) \in Nat /\ DOMAIN nodes = 1..Len(nodes)
      /\ scanned' = scanned + 1 /\ Len(cacheMisses) \in Nat
      /\ DOMAIN cacheMisses = 1..Len(cacheMisses)
  BY DEF IInv, TypeOK, Gather
<1>x. UNCHANGED <<store, call, lookup, translations, missedHashes, answers, cachedCount,
                  translatedCount, outcome>>
  BY DEF Gather
<1>c. \/ /\ text \in missedHashes /\ \A k \in DOMAIN cacheMisses : cacheMisses[k] # text
         /\ cacheMisses' = Append(cacheMisses, text)
      \/ /\ text \notin missedHashes \/ \E k \in DOMAIN cacheMisses : cacheMisses[k] = text
         /\ cacheMisses' = cacheMisses
  BY <1>s DEF Gather, Contains
<1> HIDE DEF text
<1>y. cacheMisses' \in Seq(Texts)
  <2>1. cacheMisses \in Seq(Texts)
    BY DEF IInv, TypeOK
  <2>2. Append(cacheMisses, text) \in Seq(Texts)
    BY <2>1, <1>s
  <2> QED BY <1>c, <2>1, <2>2
<1>1. TypeOK'
  BY <1>0, <1>s, <1>x, <1>y DEF IInv, call, lookup, TypeOK
<1>2. Running' = Running /\ Sent' = Sent
  BY <1>x DEF lookup, Running, Sent
<1>3. GoroutinesInv'
  BY <1>0, <1>2, <1>x DEF IInv, lookup, GoroutinesInv, LookedUp, AllLaunched
<1>4. ValuesInv'
  BY <1>x DEF IInv, lookup, ValuesInv
<1>5. ChannelInv'
  BY <1>0, <1>2, <1>x DEF IInv, lookup, ChannelInv
<1>6. MissesInv'
  <2>f. \A f, t : IsFirst(f, t)' <=> IsFirst(f, t)
    BY <1>0 DEF IsFirst
  <2>g. 1..scanned \subseteq 1..scanned' /\ \A i \in 1..scanned' : i = scanned + 1 \/ i \in 1..scanned
    BY <1>s
  <2>1. CASE cacheMisses' = cacheMisses /\ (text \notin missedHashes \/ \E k \in DOMAIN cacheMisses : cacheMisses[k] = text)
    <3>1. \A k \in DOMAIN cacheMisses :
             cacheMisses[k] \in missedHashes /\ \E f \in 1..scanned' : IsFirst(f, cacheMisses[k])
      BY <2>g DEF IInv, MissesInv
    <3>2. \A j, k \in DOMAIN cacheMisses : j < k =>
             \A f, g \in 1..scanned' : IsFirst(f, cacheMisses[j]) /\ IsFirst(g, cacheMisses[k]) => f < g
      <4> TAKE j, k \in DOMAIN cacheMisses
      <4> HAVE j < k
      <4> TAKE f, g \in 1..scanned'
      <4> HAVE IsFirst(f, cacheMisses[j]) /\ IsFirst(g, cacheMisses[k])
      <4>1. PICK f1 \in 1..scanned : IsFirst(f1, cacheMisses[j])
        BY DEF IInv, MissesInv
      <4>2. PICK g1 \in 1..scanned : IsFirst(g1, cacheMisses[k])
        BY DEF IInv, MissesInv
      <4>3. f = f1 /\ g = g1
        BY <4>1, <4>2, <1>s DEF IsFirst
      <4> QED BY <4>1, <4>2, <4>3 DEF IInv, MissesInv
    <3>3. \A i \in 1..scanned' : nodes[i] \in missedHashes =>
             \E k \in DOMAIN cacheMisses : cacheMisses[k] = nodes[i]
      <4>1. nodes[scanned + 1] \in missedHashes =>
               \E k \in DOMAIN cacheMisses : cacheMisses[k] = nodes[scanned + 1]
        BY <2>1 DEF text
      <4> QED BY <4>1, <2>g DEF IInv, MissesInv
    <3> QED BY <3>1, <3>2, <3>3, <2>1, <2>f, <1>0, <1>x DEF MissesInv, LookingUp
  <2>2. CASE /\ text \in missedHashes /\ \A k \in DOMAIN cacheMisses : cacheMisses[k] # text
             /\ cacheMisses' = Append(cacheMisses, text)
    <3> DEFINE n == Len(cacheMisses)
    <3>1. /\ DOMAIN cacheMisses' = 1..(n + 1) /\ cacheMisses'[n + 1] = text
          /\ \A k \in 1..n : cacheMisses'[k] = cacheMisses[k]
      BY <2>2, <1>s DEF IInv, TypeOK
    <3>2. IsFirst(scanned + 1, text)
      <4>1. \A i \in 1..scanned : nodes[i] # text
        BY <2>2 DEF IInv, MissesInv
      <4>2. scanned + 1 \in DOMAIN nodes /\ nodes[scanned + 1] = text /\ (scanned + 1) - 1 = scanned
        BY <1>s DEF text
      <4> QED BY <4>1, <4>2 DEF IsFirst
    <3>3. \A k \in 1..n : cacheMisses[k] \in missedHashes /\ \E f \in 1..scanned : IsFirst(f, cacheMisses[k])
      BY <1>s DEF IInv, MissesInv
    <3>4. \A k \in DOMAIN cacheMisses' :
             cacheMisses'[k] \in missedHashes /\ \E f \in 1..scanned' : IsFirst(f, cacheMisses'[k])
      BY <2>2, <3>1, <3>2, <3>3, <1>s
    <3>5. \A j, k \in DOMAIN cacheMisses' : j < k =>
             \A f, g \in 1..scanned' : IsFirst(f, cacheMisses'[j]) /\ IsFirst(g, cacheMisses'[k]) => f < g
      <4> TAKE j, k \in DOMAIN cacheMisses'
      <4> HAVE j < k
      <4> TAKE f, g \in 1..scanned'
      <4> HAVE IsFirst(f, cacheMisses'[j]) /\ IsFirst(g, cacheMisses'[k])
      <4>0. j \in 1..n /\ cacheMisses'[j] = cacheMisses[j]
        BY <3>1, <1>s
      <4>1. PICK f1 \in 1..scanned : IsFirst(f1, cacheMisses[j])
        BY <3>3, <4>0
      <4>2. f = f1
        BY <4>0, <4>1, <1>s DEF IsFirst
      <4>3. CASE k = n + 1
        <5>1. g = scanned + 1
          BY <4>3, <3>1, <3>2, <1>s DEF IsFirst
        <5> QED BY <5>1, <4>2, <1>s
      <4>4. CASE k \in 1..n
        <5>1. PICK g1 \in 1..scanned : IsFirst(g1, cacheMisses[k])
          BY <3>3, <4>4
        <5>2. g = g1
          BY <4>4, <5>1, <3>1, <1>s DEF IsFirst
        <5> QED BY <4>0, <4>1, <4>2, <4>4, <5>1, <5>2, <1>s DEF IInv, MissesInv
      <4> QED BY <4>3, <4>4, <3>1, <1>s
    <3>6. \A i \in 1..scanned' : nodes[i] \in missedHashes =>
             \E k \in DOMAIN cacheMisses' : cacheMisses'[k] = nodes[i]
      <4> TAKE i \in 1..scanned'
      <4> HAVE nodes[i] \in missedHashes
      <4>1. CASE i = scanned + 1
        BY <4>1, <3>1, <1>s DEF text
      <4>2. CASE i \in 1..scanned
        <5>1. PICK k \in DOMAIN cacheMisses : cacheMisses[k] = nodes[i]
          BY <4>2 DEF IInv, MissesInv
        <5> QED BY <5>1, <3>1, <1>s
      <4> QED BY <4>1, <4>2, <1>s
    <3> QED BY <3>4, <3>5, <3>6, <2>f, <1>0, <1>x DEF MissesInv, LookingUp
  <2> QED BY <2>1, <2>2, <1>c
<1>7. RequestInv'
  BY <1>0, <1>x DEF IInv, RequestInv, LookingUp
<1> QED BY <1>1, <1>3, <1>4, <1>5, <1>6, <1>7 DEF IInv

\* After the lookup the texts of the batch are those that were hit and those missed.
LEMMA AllAnswered ==
    ASSUME IInv, pc \in LookedUp
    PROVE  /\ missedHashes \subseteq Unique
           /\ \A t \in Unique : translations[t] # Absent \/ t \in missedHashes
           /\ \A t \in Texts : translations[t] # Absent => t \in Unique
<1>1. Unique \subseteq Texts
  BY UniqueIsFinite DEF IInv, TypeOK
<1>2. closer = "closed" /\ results = <<>> /\ AllLaunched
  BY DEF IInv, GoroutinesInv
<1>3. \A t \in Unique : t \in Sent
  BY <1>1, <1>2 DEF IInv, GoroutinesInv, AllLaunched, Sent
<1>4. Sent \subseteq Unique
  BY DEF IInv, GoroutinesInv, Sent
<1> QED BY <1>1, <1>2, <1>3, <1>4 DEF IInv, ChannelInv

LEMMA GatheredIInv ==
    ASSUME IInv, Gathered
    PROVE  IInv'
<1>0. nodes' = nodes /\ Unique' = Unique /\ pc = "gather" /\ pc' \in {"waiting", "return"}
  BY DEF Gathered, call, Unique
<1>c. cachedCount' = Cardinality(Unique \ missedHashes) /\ cachedCount' \in Nat
  <2>1. {t \in Texts : translations[t] # Absent} = Unique \ missedHashes
    <3>1. \A t \in Texts : translations[t] # Absent => t \notin missedHashes
      BY <1>0 DEF IInv, ChannelInv
    <3> QED BY <3>1, <1>0, AllAnswered, UniqueIsFinite DEF IInv, TypeOK, LookedUp
  <2>2. IsFiniteSet(Unique \ missedHashes)
    BY UniqueIsFinite, FS_Difference DEF IInv, TypeOK
  <2> QED BY <2>1, <2>2, FS_CardinalityType DEF Gathered
<1>1. TypeOK'
  BY <1>0, <1>c DEF IInv, Gathered, call, lookup, TypeOK
<1>2. Running' = Running /\ Sent' = Sent
  BY DEF Gathered, lookup, Running, Sent
<1>3. GoroutinesInv'
  BY <1>0, <1>2 DEF IInv, Gathered, lookup, GoroutinesInv, LookedUp, AllLaunched
<1>4. ValuesInv'
  BY DEF IInv, Gathered, lookup, ValuesInv
<1>5. ChannelInv'
  BY <1>0, <1>2 DEF IInv, Gathered, lookup, ChannelInv, LookingUp
<1>6. MissesInv'
  BY <1>0 DEF IInv, Gathered, MissesInv, IsFirst, LookingUp
<1>7. RequestInv'
  <2>1. translatedCount = 0
    BY <1>0 DEF IInv, RequestInv
  <2>2. pc' = "waiting" => provides
    BY DEF Gathered
  <2>3. pc' = "return" /\ provides => Len(cacheMisses) = 0
    BY <1>0 DEF IInv, TypeOK, Gathered
  <2> QED BY <1>0, <1>c, <2>1, <2>2, <2>3 DEF IInv, Gathered, call, lookup, RequestInv, LookingUp
<1> QED BY <1>1, <1>3, <1>4, <1>5, <1>6, <1>7 DEF IInv

\* The provider answers in order: the answers are of the first texts requested.
LEMMA AnswerIInv ==
    ASSUME IInv, Answer
    PROVE  IInv'
<1>0. nodes' = nodes /\ Unique' = Unique /\ pc = "waiting" /\ pc' = "store"
  BY DEF Answer, call, Unique
<1>a. PICK n \in 0..Len(cacheMisses) : answers' = [i \in 1..n |-> [text |-> cacheMisses[i]]]
  BY DEF Answer
<1>b. Len(cacheMisses) \in Nat /\ \A i \in 1..n : cacheMisses[i] \in Texts
  BY DEF IInv, TypeOK
<1>c. /\ answers' \in Seq(Translations) /\ Len(answers') = n /\ DOMAIN answers' = 1..n
      /\ \A i \in 1..n : answers'[i].text = cacheMisses[i]
  <2>1. \A i \in 1..n : [text |-> cacheMisses[i]] \in Translations
    BY <1>b DEF Translations
  <2>2. answers' \in [1..n -> Translations]
    BY <2>1, <1>a
  <2>3. n \in Nat
    BY <1>b
  <2> QED BY <1>a, <2>2, <2>3
<1>1. TypeOK'
  BY <1>0, <1>c DEF IInv, Answer, call, lookup, TypeOK
<1>2. Running' = Running /\ Sent' = Sent
  BY DEF Answer, lookup, Running, Sent
<1>3. GoroutinesInv'
  BY <1>0, <1>2 DEF IInv, Answer, lookup, GoroutinesInv, LookedUp, AllLaunched
<1>4. ValuesInv'
  BY DEF IInv, Answer, lookup, ValuesInv
<1>5. ChannelInv'
  BY <1>0, <1>2 DEF IInv, Answer, lookup, ChannelInv, LookingUp
<1>6. MissesInv'
  BY <1>0 DEF IInv, Answer, MissesInv, IsFirst, LookingUp
<1>7. RequestInv'
  <2>1. translatedCount = 0 /\ translatedCount' = 0 /\ provides' = provides /\ provides
    BY <1>0 DEF IInv, RequestInv, Answer, call
  <2>2. Len(answers') <= Len(cacheMisses)
    BY <1>b, <1>c
  <2> QED BY <1>0, <1>b, <1>c, <2>1, <2>2 DEF IInv, Answer, RequestInv, LookingUp
<1> QED BY <1>1, <1>3, <1>4, <1>5, <1>6, <1>7 DEF IInv

LEMMA StoreResultIInv ==
    ASSUME IInv, StoreResult
    PROVE  IInv'
<1> DEFINE i == translatedCount + 1
           text == cacheMisses[i]
<1>0. nodes' = nodes /\ Unique' = Unique /\ pc = "store" /\ pc' = pc
  BY DEF StoreResult, call, Unique
<1>i. /\ translatedCount \in Nat /\ translatedCount' = i /\ i \in DOMAIN cacheMisses
      /\ i \in DOMAIN answers /\ i <= Len(answers) /\ text \in Texts /\ answers[i] \in Translations
      /\ DOMAIN cacheMisses = 1..Len(cacheMisses) /\ Len(cacheMisses) \in Nat
  BY DEF IInv, TypeOK, StoreResult
<1>a. answers[i].text = text /\ answers[i] # Absent
  BY <1>0, <1>i, ParallelAssumption DEF IInv, RequestInv
<1>m. text \in missedHashes
  BY <1>i DEF IInv, MissesInv
<1>t. /\ translations' = [translations EXCEPT ![text] = answers[i]]
      /\ store' \in {store, [store EXCEPT ![text] = answers[i]]}
      /\ UNCHANGED <<call, lookup, missedHashes, cacheMisses, scanned, answers, cachedCount, outcome>>
  BY DEF StoreResult
<1> HIDE DEF i, text
<1>u. /\ translations'[text] = answers[i]
      /\ \A u \in Texts : u # text => translations'[u] = translations[u]
      /\ translations' \in [Texts -> Translations \cup {Absent}]
      /\ store' \in [Texts -> Translations \cup {Absent}]
  BY <1>t, <1>i DEF IInv, TypeOK
<1>1. TypeOK'
  BY <1>0, <1>i, <1>t, <1>u DEF IInv, call, lookup, TypeOK, i
<1>2. Running' = Running /\ Sent' = Sent
  BY <1>t DEF lookup, Running, Sent
<1>3. GoroutinesInv'
  BY <1>0, <1>2, <1>t DEF IInv, lookup, GoroutinesInv, LookedUp, AllLaunched
<1>4. ValuesInv'
  <2>1. \A u \in Texts : translations'[u] # Absent => translations'[u].text = u
    <3> TAKE u \in Texts
    <3>1. CASE u = text
      BY <3>1, <1>u, <1>a
    <3>2. CASE u # text
      BY <3>2, <1>u DEF IInv, ValuesInv
    <3> QED BY <3>1, <3>2
  <2>2. \A u \in Texts : store'[u] # Absent => store'[u].text = u
    <3> TAKE u \in Texts
    <3>1. CASE u = text /\ store' # store
      BY <3>1, <1>t, <1>i, <1>a DEF IInv, TypeOK
    <3>2. CASE u # text \/ store' = store
      <4>1. store'[u] = store[u]
        BY <3>2, <1>t, <1>i DEF IInv, TypeOK
      <4> QED BY <4>1 DEF IInv, ValuesInv
    <3> QED BY <3>1, <3>2
  <2> QED BY <2>1, <2>2, <1>t DEF IInv, lookup, ValuesInv
<1>5. ChannelInv'
  <2>1. results = <<>>
    BY <1>0 DEF IInv, GoroutinesInv, LookedUp
  <2>2. missedHashes \subseteq Sent
    BY DEF IInv, ChannelInv
  <2>3. \A u \in Texts : translations'[u] # Absent => u \in Sent'
    BY <2>2, <1>2, <1>m, <1>u DEF IInv, ChannelInv
  <2>4. \A u \in Sent : translations'[u] # Absent \/ u \in missedHashes
    BY <2>1, <1>a, <1>u DEF IInv, ChannelInv, Sent
  <2> QED BY <1>0, <1>2, <1>t, <2>1, <2>2, <2>3, <2>4 DEF ChannelInv, lookup, LookingUp
<1>6. MissesInv'
  BY <1>0, <1>t DEF IInv, MissesInv, IsFirst, LookingUp
<1>7. RequestInv'
  <2>1. \A k \in 1..i : translations'[cacheMisses[k]] # Absent
    <3> TAKE k \in 1..i
    <3>0. cacheMisses[k] \in Texts
      BY <1>i DEF IInv, TypeOK
    <3>1. CASE cacheMisses[k] = text
      BY <3>1, <1>u, <1>a
    <3>2. CASE cacheMisses[k] # text
      <4>1. k \in 1..translatedCount
        BY <3>2, <1>i DEF text, i
      <4> QED BY <4>1, <3>0, <3>2, <1>0, <1>u DEF IInv, RequestInv
    <3> QED BY <3>1, <3>2
  <2> QED BY <1>0, <1>i, <1>t, <2>1 DEF IInv, call, RequestInv, LookingUp
<1> QED BY <1>1, <1>3, <1>4, <1>5, <1>6, <1>7 DEF IInv

LEMMA StoreDoneIInv ==
    ASSUME IInv, StoreDone
    PROVE  IInv'
<1>0. nodes' = nodes /\ Unique' = Unique /\ pc = "store" /\ pc' = "return"
  BY DEF StoreDone, call, Unique
<1>1. TypeOK'
  BY DEF IInv, StoreDone, call, lookup, tables, TypeOK
<1>2. Running' = Running /\ Sent' = Sent
  BY DEF StoreDone, lookup, Running, Sent
<1>3. GoroutinesInv'
  BY <1>0, <1>2 DEF IInv, StoreDone, lookup, GoroutinesInv, LookedUp, AllLaunched
<1>4. ValuesInv'
  BY DEF IInv, StoreDone, lookup, tables, ValuesInv
<1>5. ChannelInv'
  BY <1>0, <1>2 DEF IInv, StoreDone, lookup, tables, ChannelInv, LookingUp
<1>6. MissesInv'
  BY <1>0 DEF IInv, StoreDone, tables, MissesInv, IsFirst, LookingUp
<1>7. RequestInv'
  BY <1>0 DEF IInv, StoreDone, call, tables, RequestInv, LookingUp
<1> QED BY <1>1, <1>3, <1>4, <1>5, <1>6, <1>7 DEF IInv

\* Other users of the cache store what is a translation of its text, or take it out.
LEMMA OthersIInv ==
    ASSUME IInv, NEW t \in Texts, Others(t)
    PROVE  IInv'
<1>0. UNCHANGED <<pc, call, lookup, tables, outcome>> /\ nodes' = nodes /\ Unique' = Unique
  BY DEF Others, call, Unique
<1>t. [text |-> t] \in Translations /\ [text |-> t].text = t
  BY DEF Translations
<1>s. /\ store' \in [Texts -> Translations \cup {Absent}]
      /\ \A u \in Texts : store'[u] # Absent => store'[u].text = u
  <2>1. /\ store' \in {[store EXCEPT ![t] = [text |-> t]], [store EXCEPT ![t] = Absent]}
        /\ store \in [Texts -> Translations \cup {Absent}]
    BY DEF IInv, TypeOK, Others
  <2>2. store' \in [Texts -> Translations \cup {Absent}]
    BY <2>1, <1>t
  <2>3. ASSUME NEW u \in Texts PROVE store'[u] # Absent => store'[u].text = u
    <3>1. CASE u = t
      BY <3>1, <2>1, <1>t
    <3>2. CASE u # t
      BY <3>2, <2>1 DEF IInv, ValuesInv
    <3> QED BY <3>1, <3>2
  <2> QED BY <2>2, <2>3
<1>1. TypeOK'
  BY <1>0, <1>s DEF IInv, call, lookup, tables, TypeOK
<1>2. Running' = Running /\ Sent' = Sent
  BY <1>0 DEF lookup, Running, Sent
<1>3. GoroutinesInv'
  BY <1>0, <1>2 DEF IInv, lookup, GoroutinesInv, AllLaunched
<1>4. ValuesInv'
  BY <1>0, <1>s DEF IInv, lookup, tables, ValuesInv
<1>5. ChannelInv'
  BY <1>0, <1>2 DEF IInv, lookup, tables, ChannelInv
<1>6. MissesInv'
  BY <1>0 DEF IInv, tables, MissesInv, IsFirst
<1>7. RequestInv'
  BY <1>0 DEF IInv, call, tables, RequestInv
<1> QED BY <1>1, <1>3, <1>4, <1>5, <1>6, <1>7 DEF IInv

LEMMA StutterIInv == ASSUME IInv, UNCHANGED vars PROVE IInv'
BY DEF vars, IInv, TypeOK, GoroutinesInv, ValuesInv, ChannelInv, MissesInv, RequestInv, call,
       lookup, tables, Unique, Running, Sent, AllLaunched, IsFirst

-----------------------------------------------------------------------------
(* Every step of the caller, of a goroutine of the lookup, of the one that      *)
(* closes the channel or of another user of the cache (parallel.go:22-142)      *)
(* keeps the inductive invariant.                                               *)
THEOREM Inductive == IInv /\ [Next]_vars => IInv'
<1> SUFFICES ASSUME IInv, [Next]_vars PROVE IInv'
  OBVIOUS
<1>1. ASSUME NEW doc \in Documents, NEW p \in BOOLEAN, Begin(doc, p) PROVE IInv'
  BY <1>1, BeginIInv
<1>2. ASSUME NEW t \in Texts, Routine(t) PROVE IInv'
  BY <1>2, LaunchIInv, GetIInv, SendLookupIInv, DoneIInv DEF Routine
<1>3. ASSUME NEW t \in Texts, Others(t) PROVE IInv'
  BY <1>3, OthersIInv
<1>4. CASE Close
  BY <1>4, CloseIInv
<1>5. CASE Caller
  <2>1. CASE LaunchCloser \/ Collect \/ LookupDone \/ Gather \/ Gathered
    BY <2>1, LaunchCloserIInv, CollectIInv, LookupDoneIInv, GatherIInv, GatheredIInv
  <2>2. CASE Answer \/ StoreResult \/ StoreDone
    BY <2>2, AnswerIInv, StoreResultIInv, StoreDoneIInv
  <2>3. CASE ProviderFails \/ StorePanics
    <3>1. [is |-> "failed"] \in Outcomes /\ [is |-> "panicked"] \in Outcomes
      BY DEF Outcomes
    <3> QED BY <2>3, <3>1, ReturnIInv DEF ProviderFails, StorePanics
  <2>4. CASE Finish
    <3>1. translations \in [Texts -> Translations \cup {Absent}]
      BY DEF IInv, TypeOK
    <3>2. [is |-> "returned", table |-> translations] \in Outcomes
      BY <3>1 DEF Outcomes
    <3> QED BY <2>4, <3>2, ReturnIInv DEF Finish
  <2> QED BY <1>5, <2>1, <2>2, <2>3, <2>4 DEF Caller
<1>6. CASE UNCHANGED vars
  BY <1>6, StutterIInv
<1> QED BY <1>1, <1>2, <1>3, <1>4, <1>5, <1>6 DEF Next

(* The inductive invariant holds throughout a call of TranslateBatchParallel       *)
(* (parallel.go:100), and between two calls.                                      *)
THEOREM InvariantAlways == Spec => []IInv
BY InitIInv, Inductive, PTL DEF Spec

(* The state of a call and of its goroutines stays well typed; above all the     *)
(* WaitGroup's counter never goes below zero, where Done panics (parallel.go:37). *)
THEOREM TypesAlways == Spec => []TypeOK
<1>1. IInv => TypeOK
  BY DEF IInv
<1> QED BY <1>1, InvariantAlways, PTL

(* Until the lookup is over, the answer about each text is in exactly one place   *)
(* once it is sent (parallel.go:34-63): the channel, the hits or the misses.      *)
THEOREM AnsweredOnceAlways == Spec => []AnsweredOnce
<1>1. ASSUME IInv PROVE AnsweredOnce
  <2> SUFFICES ASSUME pc \in {"launch", "collect"}, NEW t \in Texts
               PROVE  Cardinality(InFlight(t))
                      + (IF translations[t] # Absent THEN 1 ELSE 0)
                      + (IF t \in missedHashes THEN 1 ELSE 0)
                      = IF routine[t] \in {"sent", "done"} THEN 1 ELSE 0
    BY DEF AnsweredOnce
  <2>1. ASSUME NEW i \in DOMAIN results, results[i].hash = t
        PROVE  /\ Cardinality(InFlight(t)) = 1 /\ translations[t] = Absent
               /\ t \notin missedHashes /\ routine[t] \in {"sent", "done"}
    <3>1. InFlight(t) = {i}
      BY <1>1, <2>1 DEF IInv, ChannelInv, InFlight
    <3> QED BY <1>1, <2>1, <3>1, FS_Singleton DEF IInv, ChannelInv, Sent
  <2>2. ASSUME \A i \in DOMAIN results : results[i].hash # t
        PROVE  Cardinality(InFlight(t)) = 0
    BY <2>2, FS_EmptySet DEF InFlight
  <2>3. ~(translations[t] # Absent /\ t \in missedHashes)
    BY <1>1 DEF IInv, ChannelInv, LookingUp
  <2>4. translations[t] # Absent \/ t \in missedHashes => routine[t] \in {"sent", "done"}
    BY <1>1 DEF IInv, ChannelInv, Sent
  <2>5. routine[t] \in {"sent", "done"} =>
            \/ \E i \in DOMAIN results : results[i].hash = t
            \/ translations[t] # Absent
            \/ t \in missedHashes
    BY <1>1 DEF IInv, ChannelInv, Sent
  <2>6. CASE \E i \in DOMAIN results : results[i].hash = t
    BY <2>1, <2>6
  <2>7. CASE \A i \in DOMAIN results : results[i].hash # t
    BY <2>2, <2>3, <2>4, <2>5, <2>7
  <2> QED BY <2>6, <2>7
<1> QED BY <1>1, InvariantAlways, PTL

(* A goroutine that is about to send finds the channel open and with room for     *)
(* its answer (parallel.go:30, :48-51): it ends whatever the caller does.         *)
THEOREM SendIsSafeAlways == Spec => []SendIsSafe
<1>1. ASSUME IInv PROVE SendIsSafe
  <2> SUFFICES ASSUME NEW t \in Texts, routine[t] = "send"
               PROVE  closer # "closed" /\ Len(results) < Capacity
    BY DEF SendIsSafe
  <2>1. closer # "closed"
    BY <1>1 DEF IInv, GoroutinesInv
  <2>2. t \in Unique /\ IsFiniteSet(Unique)
    BY <1>1, UniqueIsFinite DEF IInv, TypeOK, GoroutinesInv
  <2>3. IsFiniteSet(Unique \ {t}) /\ Cardinality(Unique \ {t}) = Capacity - 1 /\ Capacity \in Nat
    BY <2>2, FS_RemoveElement, FS_CardinalityType DEF Capacity
  <2> DEFINE hashes == [i \in 1..Len(results) |-> results[i].hash]
  <2>4. DOMAIN results = 1..Len(results) /\ Len(results) \in Nat
    BY <1>1 DEF IInv, TypeOK
  <2>5. \A i \in 1..Len(results) : results[i].hash \in Unique \ {t}
    BY <1>1, <2>4 DEF IInv, ChannelInv, GoroutinesInv, Sent
  <2>6. \A i, j \in 1..Len(results) : hashes[i] = hashes[j] => i = j
    BY <1>1, <2>4 DEF IInv, ChannelInv
  <2>7. hashes \in Injection(1..Len(results), Unique \ {t})
    BY <2>5, <2>6 DEF Injection, IsInjective
  <2>8. Cardinality(1..Len(results)) <= Cardinality(Unique \ {t})
    BY <2>3, <2>7, FS_Injection
  <2>9. Cardinality(1..Len(results)) = Len(results)
    BY <2>4, UpTo
  <2> QED BY <2>1, <2>3, <2>4, <2>8, <2>9
<1> QED BY <1>1, InvariantAlways, PTL

\* The place where a text comes first is its FirstIndex.
LEMMA FirstIsFirstIndex ==
    ASSUME nodes \in Seq(Texts), NEW t, NEW f, IsFirst(f, t)
    PROVE  FirstIndex(t) = f
<1>1. \A g : IsFirst(g, t) => g = f
  BY DEF IsFirst
<1>2. \A g \in DOMAIN nodes : (nodes[g] = t /\ \A j \in 1..(g - 1) : nodes[j] # t) <=> g = f
  BY <1>1 DEF IsFirst
<1>3. f \in DOMAIN nodes
  BY DEF IsFirst
<1> QED BY <1>2, <1>3 DEF FirstIndex

(* The request names the missed texts once each in the order of the batch, and    *)
(* what a call with a provider returns is complete, right and counted once per    *)
(* distinct text (parallel.go:65-73, :109-142).                                   *)
THEOREM BatchIsCompleteAlways == Spec => []BatchIsComplete
<1>1. ASSUME IInv, pc \in {"waiting", "store", "return"}
      PROVE  {cacheMisses[i] : i \in DOMAIN cacheMisses} = missedHashes
  <2>1. missedHashes \subseteq Unique
    BY <1>1, AllAnswered DEF LookedUp
  <2>2. DOMAIN nodes = 1..scanned
    BY <1>1 DEF IInv, TypeOK, MissesInv
  <2>3. \A t \in missedHashes : \E k \in DOMAIN cacheMisses : cacheMisses[k] = t
    BY <1>1, <2>1, <2>2 DEF IInv, MissesInv, Unique
  <2>4. \A k \in DOMAIN cacheMisses : cacheMisses[k] \in missedHashes
    BY <1>1 DEF IInv, MissesInv
  <2> QED BY <2>3, <2>4
<1>2. ASSUME IInv, pc \in {"waiting", "store", "return"}, NEW i \in DOMAIN cacheMisses,
             NEW j \in DOMAIN cacheMisses, i < j
      PROVE  FirstIndex(cacheMisses[i]) < FirstIndex(cacheMisses[j])
  <2>1. PICK f \in 1..scanned : IsFirst(f, cacheMisses[i])
    BY <1>2 DEF IInv, MissesInv
  <2>2. PICK g \in 1..scanned : IsFirst(g, cacheMisses[j])
    BY <1>2 DEF IInv, MissesInv
  <2>3. f < g
    BY <1>2, <2>1, <2>2 DEF IInv, MissesInv
  <2>4. FirstIndex(cacheMisses[i]) = f /\ FirstIndex(cacheMisses[j]) = g
    BY <1>2, <2>1, <2>2, FirstIsFirstIndex DEF IInv, TypeOK
  <2> QED BY <2>3, <2>4
<1>3. ASSUME IInv, pc = "return"
      PROVE  \A t \in Unique : translations[t] # Absent => translations[t].text = t
  BY <1>3, UniqueIsFinite DEF IInv, TypeOK, ValuesInv
<1>4. ASSUME IInv, pc = "return", provides
      PROVE  \A t \in Unique : translations[t] # Absent
  <2> TAKE t \in Unique
  <2>1. CASE t \in missedHashes
    <3>1. PICK k \in DOMAIN cacheMisses : cacheMisses[k] = t
      BY <1>1, <1>4, <2>1
    <3>2. k \in 1..translatedCount
      BY <1>4 DEF IInv, TypeOK, RequestInv
    <3> QED BY <1>4, <3>1, <3>2 DEF IInv, RequestInv
  <2>2. CASE t \notin missedHashes
    BY <1>4, <2>2, AllAnswered DEF LookedUp
  <2> QED BY <2>1, <2>2
<1>5. ASSUME IInv, pc = "return", provides
      PROVE  cachedCount + translatedCount = Cardinality(Unique)
  <2>0. Len(cacheMisses) \in Nat /\ DOMAIN cacheMisses = 1..Len(cacheMisses)
    BY <1>5 DEF IInv, TypeOK
  <2>1. IsFiniteSet(Unique) /\ missedHashes \subseteq Unique
    BY <1>5, UniqueIsFinite, AllAnswered DEF IInv, TypeOK, LookedUp
  <2>2. IsFiniteSet(missedHashes) /\ Cardinality(missedHashes) \in Nat
    BY <2>1, FS_Subset, FS_CardinalityType
  <2>3. cacheMisses \in [1..Len(cacheMisses) -> missedHashes]
    BY <1>5, <2>0 DEF IInv, TypeOK, MissesInv
  <2>4. \A i, j \in 1..Len(cacheMisses) : cacheMisses[i] = cacheMisses[j] => i = j
    <3> SUFFICES ASSUME NEW i \in 1..Len(cacheMisses), NEW j \in 1..Len(cacheMisses), i < j
                 PROVE  cacheMisses[i] # cacheMisses[j]
      BY <2>0
    <3>1. FirstIndex(cacheMisses[i]) < FirstIndex(cacheMisses[j])
      BY <1>2, <1>5, <2>0
    <3>2. PICK f \in 1..scanned : IsFirst(f, cacheMisses[i])
      BY <1>5, <2>0 DEF IInv, MissesInv
    <3>3. FirstIndex(cacheMisses[i]) = f /\ f \in Nat
      BY <1>5, <3>2, FirstIsFirstIndex DEF IInv, TypeOK
    <3> QED BY <3>1, <3>3
  <2>5. cacheMisses \in Injection(1..Len(cacheMisses), missedHashes)
    BY <2>3, <2>4 DEF Injection, IsInjective
  <2>6. cacheMisses \in Surjection(1..Len(cacheMisses), missedHashes)
    BY <1>1, <1>5, <2>0, <2>3 DEF Surjection
  <2>7. Cardinality(1..Len(cacheMisses)) = Cardinality(missedHashes)
    BY <2>2, <2>5, <2>6, FS_Injection
  <2>8. Cardinality(1..Len(cacheMisses)) = Len(cacheMisses)
    BY <2>0, UpTo
  <2>9. Cardinality(Unique \ missedHashes) = Cardinality(Unique) - Cardinality(missedHashes)
    <3>1. Unique \cap missedHashes = missedHashes
      BY <2>1
    <3> QED BY <2>1, <3>1, FS_Difference
  <2>10. /\ translatedCount = Len(cacheMisses)
         /\ cachedCount = Cardinality(Unique \ missedHashes)
    BY <1>5 DEF IInv, RequestInv
  <2>11. Cardinality(Unique) \in Nat
    BY <2>1, FS_CardinalityType
  <2> QED BY <2>0, <2>2, <2>7, <2>8, <2>9, <2>10, <2>11
<1>6. IInv => BatchIsComplete
  BY <1>1, <1>2, <1>3, <1>4, <1>5 DEF BatchIsComplete, MissesInOrder
<1> QED BY <1>6, InvariantAlways, PTL
=============================================================================
