---------------------------- MODULE ParallelTranslator ----------------------------
(***************************************************************************)
(* ParallelTranslator.TranslateBatchParallel and ParallelCacheLookup        *)
(* (src/parallel.go): a batch is looked up by one goroutine per distinct    *)
(* text.  The goroutines answer over a buffered channel, another one closes *)
(* it when a WaitGroup says that all have answered, and the caller collects  *)
(* until then, asks the provider for what was missed and stores the answers. *)
(* Other users of the cache fill and empty it meanwhile.  Batches without a  *)
(* cache or below the threshold go through Translator's translateBatch.      *)
(***************************************************************************)
EXTENDS Naturals, Sequences, FiniteSets, SequencesExt

CONSTANTS
    Texts,          \* a hash stands for its text, in the language of the translator
    Documents,      \* batches: sequences of texts
    Threshold,      \* t.parallelThreshold
    Absent          \* "not in the map"

Translations == [text : Texts]

ASSUME ParallelAssumption ==
    /\ Documents \subseteq Seq(Texts)
    /\ Threshold \in Nat
    /\ Absent \notin Translations

VARIABLES
    store,          \* the shared cache
    pc,             \* where the caller is
    nodes,
    provides,       \* the translator of the call has a provider
    routine,        \* where the goroutine of each text is
    answer,         \* what its Get returned: a translation or Absent
    wg,             \* the WaitGroup's counter
    results,        \* the channel: [hash, value] in flight
    closer,         \* "none", "waiting" or "closed", and so is the channel
    translations,   \* text -> translation or Absent: the table of the call
    missedHashes,
    cacheMisses,
    scanned,        \* how many nodes the loop that builds cacheMisses has read
    answers,        \* the provider's answer
    cachedCount,
    translatedCount,
    outcome         \* what the last call returned

call == <<nodes, provides>>
lookup == <<routine, answer, wg, results, closer>>
tables == <<translations, missedHashes, cacheMisses, scanned, answers, cachedCount,
            translatedCount>>
vars == <<store, pc, call, lookup, tables, outcome>>

NoTranslations == [t \in Texts |-> Absent]
Nothing == [is |-> "nothing"]

\* lookupResult, and what a call returns.
LookupResults == [hash : Texts, value : Translations \cup {Absent}]
Outcomes == {[is |-> "failed"], [is |-> "panicked"]}
            \cup [is : {"returned"}, table : [Texts -> Translations \cup {Absent}]]

\* uniqueNodes
Unique == {nodes[i] : i \in DOMAIN nodes}

Capacity == Cardinality(Unique)

NoRoutines == [t \in Texts |-> "none"]

Init ==
    /\ store = NoTranslations
    /\ pc = "idle"
    /\ nodes = <<>>
    /\ provides = FALSE
    /\ routine = NoRoutines
    /\ answer = NoTranslations
    /\ wg = 0
    /\ results = <<>>
    /\ closer = "none"
    /\ translations = NoTranslations
    /\ missedHashes = {}
    /\ cacheMisses = <<>>
    /\ scanned = 0
    /\ answers = <<>>
    /\ cachedCount = 0
    /\ translatedCount = 0
    /\ outcome = Nothing

-----------------------------------------------------------------------------
\* TranslateBatchParallel, up to the launch of the lookups.
Begin(doc, p) ==
    /\ pc = "idle"
    /\ doc # <<>>
    /\ Len(doc) >= Threshold
    /\ pc' = "launch"
    /\ nodes' = doc
    /\ provides' = p
    /\ outcome' = Nothing
    /\ UNCHANGED <<store, lookup, tables>>

\* wg.Add(1), and the goroutine of one more text; a map has no order.
Launch(t) ==
    /\ pc = "launch"
    /\ t \in Unique
    /\ routine[t] = "none"
    /\ wg' = wg + 1
    /\ routine' = [routine EXCEPT ![t] = "get"]
    /\ UNCHANGED <<store, pc, call, answer, results, closer, tables, outcome>>

AllLaunched == \A t \in Unique : routine[t] # "none"

\* All are launched: the goroutine that will close the channel.
LaunchCloser ==
    /\ pc = "launch"
    /\ AllLaunched
    /\ closer' = "waiting"
    /\ pc' = "collect"
    /\ UNCHANGED <<store, call, routine, answer, wg, results, tables, outcome>>

\* A goroutine: cache.Get
Get(t) ==
    /\ routine[t] = "get"
    /\ answer' = [answer EXCEPT ![t] = store[t]]
    /\ routine' = [routine EXCEPT ![t] = "send"]
    /\ UNCHANGED <<store, pc, call, wg, results, closer, tables, outcome>>

\* A goroutine that captured the loop variable answers for another text.
LookupResultCaptured(t) ==
    LET h == CHOOSE u \in Unique : TRUE IN [hash |-> h, value |-> answer[h]]
LookupResult(t) == [hash |-> t, value |-> answer[t]]

\* ... results <- lookupResult{...}
SendLookup(t) ==
    /\ routine[t] = "send"
    /\ Len(results) < Capacity
    /\ results' = Append(results, LookupResult(t))
    /\ routine' = [routine EXCEPT ![t] = "sent"]
    /\ UNCHANGED <<store, pc, call, answer, wg, closer, tables, outcome>>

DoneBeforeSending(t) ==
    /\ routine[t] = "get"
    /\ wg' = wg - 1
    /\ routine' = [routine EXCEPT ![t] = "send"]
    /\ answer' = [answer EXCEPT ![t] = store[t]]
    /\ UNCHANGED <<store, pc, call, results, closer, tables, outcome>>

DoneTwice(t) ==
    /\ routine[t] = "sent"
    /\ wg' = wg - 2
    /\ routine' = [routine EXCEPT ![t] = "done"]
    /\ UNCHANGED <<store, pc, call, answer, results, closer, tables, outcome>>

DoneForgotten(t) == FALSE

\* ... and the deferred wg.Done.
Done(t) ==
    /\ routine[t] = "sent"
    /\ wg' = wg - 1
    /\ routine' = [routine EXCEPT ![t] = "done"]
    /\ UNCHANGED <<store, pc, call, answer, results, closer, tables, outcome>>

\* wg.Wait returns, and close(results).
Close ==
    /\ closer = "waiting"
    /\ wg = 0
    /\ closer' = "closed"
    /\ UNCHANGED <<store, pc, call, routine, answer, wg, results, tables, outcome>>

\* for result := range results
Collect ==
    LET result == Head(results)
    IN  /\ pc = "collect"
        /\ results # <<>>
        /\ results' = Tail(results)
        /\ IF result.value # Absent
           THEN /\ translations' = [translations EXCEPT ![result.hash] = result.value]
                /\ UNCHANGED missedHashes
           ELSE /\ missedHashes' = missedHashes \cup {result.hash}
                /\ UNCHANGED translations
        /\ UNCHANGED <<store, pc, call, routine, answer, wg, closer, cacheMisses, scanned,
                       answers, cachedCount, translatedCount, outcome>>

RangeEndsWhenEmpty == results = <<>>
RangeEnds == closer = "closed" /\ results = <<>>

\* The channel is closed and empty: every answer is known.
LookupDone ==
    /\ pc = "collect"
    /\ RangeEnds
    /\ pc' = "gather"
    /\ UNCHANGED <<store, call, lookup, tables, outcome>>

\* One more node of the batch: a missed text is listed where it comes first.
Gather ==
    LET text == nodes[scanned + 1]
    IN  /\ pc = "gather"
        /\ scanned < Len(nodes)
        /\ scanned' = scanned + 1
        /\ cacheMisses' = IF text \in missedHashes /\ ~Contains(cacheMisses, text)
                          THEN Append(cacheMisses, text)
                          ELSE cacheMisses
        /\ UNCHANGED <<store, pc, call, lookup, translations, missedHashes, answers, cachedCount,
                       translatedCount, outcome>>

\* The lookup returns, and the request is made.
Gathered ==
    /\ pc = "gather"
    /\ scanned = Len(nodes)
    /\ cachedCount' = Cardinality({t \in Texts : translations[t] # Absent})
    /\ pc' = IF cacheMisses # <<>> /\ provides THEN "waiting" ELSE "return"
    /\ UNCHANGED <<store, call, lookup, translations, missedHashes, cacheMisses, scanned, answers,
                   translatedCount, outcome>>

\* The provider answers in order, perhaps with too few results; the request carries
\* no glossary and no style.
Answer ==
    /\ pc = "waiting"
    /\ \E n \in 0..Len(cacheMisses) :
          answers' = [i \in 1..n |-> [text |-> cacheMisses[i]]]
    /\ pc' = "store"
    /\ UNCHANGED <<store, call, lookup, translations, missedHashes, cacheMisses, scanned,
                   cachedCount, translatedCount, outcome>>

\* The store loop; a Set may fail, and its error is ignored.
StoreResult ==
    LET i == translatedCount + 1
        text == cacheMisses[i]
    IN  /\ pc = "store"
        /\ i <= Len(cacheMisses)
        /\ i <= Len(answers)
        /\ translations' = [translations EXCEPT ![text] = answers[i]]
        /\ store' \in {store, [store EXCEPT ![text] = answers[i]]}
        /\ translatedCount' = i
        /\ UNCHANGED <<pc, call, lookup, missedHashes, cacheMisses, scanned, answers, cachedCount,
                       outcome>>

StoreDone ==
    /\ pc = "store"
    /\ translatedCount = Len(cacheMisses)
    /\ pc' = "return"
    /\ UNCHANGED <<store, call, lookup, tables, outcome>>

\* The call returns: its tables, its channel and its goroutines are gone.
Return(result) ==
    /\ pc' = "idle"
    /\ outcome' = result
    /\ nodes' = <<>>
    /\ provides' = FALSE
    /\ routine' = NoRoutines
    /\ answer' = NoTranslations
    /\ wg' = 0
    /\ results' = <<>>
    /\ closer' = "none"
    /\ translations' = NoTranslations
    /\ missedHashes' = {}
    /\ cacheMisses' = <<>>
    /\ scanned' = 0
    /\ answers' = <<>>
    /\ cachedCount' = 0
    /\ translatedCount' = 0
    /\ UNCHANGED store

ProviderFails == pc = "waiting" /\ Return([is |-> "failed"])

\* results[i] of a slice that is too short.
StorePanics ==
    /\ pc = "store"
    /\ translatedCount < Len(cacheMisses)
    /\ translatedCount = Len(answers)
    /\ Return([is |-> "panicked"])

Finish == pc = "return" /\ Return([is |-> "returned", table |-> translations])

\* Other users of the cache: an entry is stored, overwritten or lost.
Others(t) ==
    /\ store' \in {[store EXCEPT ![t] = [text |-> t]],
                   [store EXCEPT ![t] = Absent]}
    /\ UNCHANGED <<pc, call, lookup, tables, outcome>>

\* The steps of the caller's goroutine, and of the goroutine of a text.
Caller ==
    \/ LaunchCloser \/ Collect \/ LookupDone \/ Gather \/ Gathered
    \/ Answer \/ ProviderFails \/ StoreResult \/ StorePanics \/ StoreDone \/ Finish

Routine(t) == Launch(t) \/ Get(t) \/ SendLookup(t) \/ Done(t)

Next ==
    \/ \E doc \in Documents, p \in BOOLEAN : Begin(doc, p)
    \/ \E t \in Texts : Routine(t) \/ Others(t)
    \/ Close
    \/ Caller

Spec == Init /\ [][Next]_vars

\* The scheduler runs every goroutine that can run.  The provider and the cache are the
\* caller's; that they return, with whatever, is assumed of them: nothing here ensures it.
FairSpec ==
    /\ Spec
    /\ WF_vars(Caller)
    /\ WF_vars(Close)
    /\ \A t \in Texts : WF_vars(Routine(t))

-----------------------------------------------------------------------------
(* The state of a call, of its goroutines and of the cache is well typed.       *)
TypeOK ==
    /\ store \in [Texts -> Translations \cup {Absent}]
    /\ pc \in {"idle", "launch", "collect", "gather", "waiting", "store", "return"}
    /\ nodes \in Seq(Texts)
    /\ provides \in BOOLEAN
    /\ routine \in [Texts -> {"none", "get", "send", "sent", "done"}]
    /\ answer \in [Texts -> Translations \cup {Absent}]
    /\ wg \in Nat
    /\ results \in Seq(LookupResults)
    /\ closer \in {"none", "waiting", "closed"}
    /\ translations \in [Texts -> Translations \cup {Absent}]
    /\ missedHashes \subseteq Texts
    /\ cacheMisses \in Seq(Texts)
    /\ scanned \in 0..Len(nodes)
    /\ answers \in Seq(Translations)
    /\ cachedCount \in Nat
    /\ translatedCount \in Nat
    /\ outcome \in Outcomes \cup {Nothing}

InFlight(t) == {i \in DOMAIN results : results[i].hash = t}

(* Until the lookup is over, the answer about each text is in one place         *)
(* (parallel.go:34-63): still with its goroutine, in the channel, among the      *)
(* hits or among the misses, however the goroutines and the caller interleave.   *)
AnsweredOnce ==
    pc \in {"launch", "collect"} => \A t \in Texts :
        LET places == Cardinality(InFlight(t))
                      + (IF translations[t] # Absent THEN 1 ELSE 0)
                      + (IF t \in missedHashes THEN 1 ELSE 0)
        IN  places = IF routine[t] \in {"sent", "done"} THEN 1 ELSE 0

(* No goroutine finds the channel closed, which would panic, or full, so that    *)
(* none depends on the caller to end (parallel.go:30, :48-51).                   *)
SendIsSafe ==
    \A t \in Texts : routine[t] = "send" => closer # "closed" /\ Len(results) < Capacity

\* Where a text comes first in the batch.
FirstIndex(t) == CHOOSE i \in DOMAIN nodes : nodes[i] = t /\ \A j \in 1..(i - 1) : nodes[j] # t

(* The request has exactly the missed texts, once each, in the order of the      *)
(* batch (parallel.go:65-73) although the answers came in any order.             *)
MissesInOrder ==
    pc \in {"waiting", "store", "return"} =>
        /\ {cacheMisses[i] : i \in DOMAIN cacheMisses} = missedHashes
        /\ \A i, j \in DOMAIN cacheMisses :
              i < j => FirstIndex(cacheMisses[i]) < FirstIndex(cacheMisses[j])

(* A call that had a provider returns a translation of every text of the batch,  *)
(* of that text and no other, its two counts (parallel.go:109, :139) count each   *)
(* distinct text once, hit or translated, and what it requested was in order.     *)
BatchIsComplete ==
    /\ MissesInOrder
    /\ pc = "return" =>
          /\ \A t \in Unique : translations[t] # Absent => translations[t].text = t
          /\ provides => /\ \A t \in Unique : translations[t] # Absent
                         /\ cachedCount + translatedCount = Cardinality(Unique)

(* Every call whose provider and cache return (parallel.go:28-56) returns: the   *)
(* closer closes the channel, no goroutine is left behind and the caller does    *)
(* not wait for one that never answers.                                          *)
EveryCallReturns == pc # "idle" ~> pc = "idle"
=============================================================================
