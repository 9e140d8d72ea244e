------------------------------- MODULE Translator -------------------------------
(***************************************************************************)
(* Translator.Process and translateBatch (src/translator.go): goroutines   *)
(* that translate documents through one shared cache.  A call looks its     *)
(* nodes up in the cache one by one, sends what it did not find to the      *)
(* provider in one request without repeating a text, stores the answers one *)
(* by one, in the cache and in its own table, and rewrites the document     *)
(* from that table.  Other goroutines run between any two of these steps.   *)
(* The cache is the abstract map of TranslationCache, each Get and Set       *)
(* taking effect at one moment; the provider is outside this module.        *)
(***************************************************************************)
EXTENDS Naturals, Sequences, FiniteSets

CONSTANTS
    Workers,        \* goroutines that call Process
    Translators,    \* [source, target, settings, caches, provides]
    Documents,      \* what processor.Extract returns: sequences of [text, context]
    Base,           \* language code -> its part before "_", in lower case
    Absent          \* "not in the map"

Nodes == UNION {{doc[i] : i \in DOMAIN doc} : doc \in Documents}
Texts == {node.text : node \in Nodes}
Targets == {tr.target : tr \in Translators}

CacheKeyWithoutLanguage(text, target) == <<text, CHOOSE l \in Targets : TRUE>>

\* CacheKey(hash, targetLang); a hash stands for its text.
CacheKey(text, target) == <<text, target>>

\* What a provider answers when a translator asks about a node.
Made(node, tr) ==
    [text |-> node.text, context |-> node.context, target |-> tr.target,
     source |-> tr.source, settings |-> tr.settings]

Translations == {Made(node, tr) : node \in Nodes, tr \in Translators}

ASSUME TranslatorAssumption ==
    /\ Translators # {}
    /\ Absent \notin Translations
    /\ \A tr \in Translators : tr.caches \in BOOLEAN /\ tr.provides \in BOOLEAN
    /\ \A doc \in Documents : doc \in Seq(Nodes)

VARIABLES
    store,          \* the shared cache: key -> translation or Absent
    pc,             \* where each goroutine is in Process
    translator,     \* the translator and the extracted nodes of its call
    nodes,
    next,           \* index of the node the lookup loop comes to
    translations,   \* text -> translation or Absent: the table of the call
    cacheMisses,    \* the nodes to send, without repeated texts
    results,        \* the provider's answer
    cachedCount,
    translatedCount,
    outcome,        \* what the last call returned
    intact          \* history: the calls since whose begin the cache lost no entry
                    \* and failed none of their own Sets

batch == <<translator, nodes, next, translations, cacheMisses, results,
           cachedCount, translatedCount>>
vars == <<store, pc, batch, outcome, intact>>

NoTranslations == [t \in Texts |-> Absent]
Nothing  == [is |-> "nothing"]
Echoed   == [is |-> "echoed"]
Failed   == [is |-> "failed"]
Panicked == [is |-> "panicked"]
Delivered(content, cached, translated) ==
    [is |-> "delivered", content |-> content, cached |-> cached, translated |-> translated]

TargetOf(w) == translator[w].target

Init ==
    /\ store = [key \in Texts \X Targets |-> Absent]
    /\ pc = [w \in Workers |-> "idle"]
    /\ translator = [w \in Workers |-> CHOOSE tr \in Translators : TRUE]
    /\ nodes = [w \in Workers |-> <<>>]
    /\ next = [w \in Workers |-> 1]
    /\ translations = [w \in Workers |-> NoTranslations]
    /\ cacheMisses = [w \in Workers |-> <<>>]
    /\ results = [w \in Workers |-> <<>>]
    /\ cachedCount = [w \in Workers |-> 0]
    /\ translatedCount = [w \in Workers |-> 0]
    /\ outcome = [w \in Workers |-> Nothing]
    /\ intact = {}

-----------------------------------------------------------------------------
\* The call returns: the tables of translateBatch are gone.
Return(w, result) ==
    /\ pc' = [pc EXCEPT ![w] = "idle"]
    /\ outcome' = [outcome EXCEPT ![w] = result]
    /\ nodes' = [nodes EXCEPT ![w] = <<>>]
    /\ next' = [next EXCEPT ![w] = 1]
    /\ translations' = [translations EXCEPT ![w] = NoTranslations]
    /\ cacheMisses' = [cacheMisses EXCEPT ![w] = <<>>]
    /\ results' = [results EXCEPT ![w] = <<>>]
    /\ cachedCount' = [cachedCount EXCEPT ![w] = 0]
    /\ translatedCount' = [translatedCount EXCEPT ![w] = 0]
    /\ intact' = intact \ {w}
    /\ UNCHANGED translator

\* Process, up to the call of translateBatch.
Begin(w, tr, doc) ==
    /\ pc[w] = "idle"
    /\ Base[tr.source] # Base[tr.target]
    /\ doc # <<>>
    /\ pc' = [pc EXCEPT ![w] = "lookup"]
    /\ translator' = [translator EXCEPT ![w] = tr]
    /\ nodes' = [nodes EXCEPT ![w] = doc]
    /\ outcome' = [outcome EXCEPT ![w] = Nothing]
    /\ intact' = intact \cup {w}
    /\ UNCHANGED <<store, next, translations, cacheMisses, results, cachedCount, translatedCount>>

\* Process returns the content as it is: source language, or no nodes.
Echo(w, tr, doc) ==
    /\ pc[w] = "idle"
    /\ Base[tr.source] = Base[tr.target] \/ doc = <<>>
    /\ outcome' = [outcome EXCEPT ![w] = Echoed]
    /\ UNCHANGED <<store, pc, batch, intact>>

\* No processor for the content type, or it cannot parse the content.
RefuseContent(w) ==
    /\ pc[w] = "idle"
    /\ \E tr \in Translators : Base[tr.source] # Base[tr.target]
    /\ outcome' = [outcome EXCEPT ![w] = Failed]
    /\ UNCHANGED <<store, pc, batch, intact>>

SeenNever(w, text) == FALSE

\* seenHashes: the texts that are in cacheMisses already.
Seen(w, text) == \E i \in DOMAIN cacheMisses[w] : cacheMisses[w][i].text = text

\* translateBatch, the cache loop: Get of the next node hits.
LookupHit(w) ==
    LET node == nodes[w][next[w]]
        cached == store[CacheKey(node.text, TargetOf(w))]
    IN  /\ pc[w] = "lookup"
        /\ next[w] <= Len(nodes[w])
        /\ translator[w].caches
        /\ cached # Absent
        /\ translations' = [translations EXCEPT ![w][node.text] = cached]
        /\ cachedCount' = [cachedCount EXCEPT ![w] = @ + 1]
        /\ next' = [next EXCEPT ![w] = @ + 1]
        /\ UNCHANGED <<store, pc, translator, nodes, cacheMisses, results, translatedCount,
                       outcome, intact>>

\* The cache loop: no cache, or Get misses.
LookupMiss(w) ==
    LET node == nodes[w][next[w]]
        key == CacheKey(node.text, TargetOf(w))
    IN  /\ pc[w] = "lookup"
        /\ next[w] <= Len(nodes[w])
        /\ ~translator[w].caches \/ store[key] = Absent
        /\ cacheMisses' = [cacheMisses EXCEPT ![w] =
                              IF Seen(w, node.text) THEN @ ELSE Append(@, node)]
        /\ next' = [next EXCEPT ![w] = @ + 1]
        /\ UNCHANGED <<store, pc, translator, nodes, translations, results,
                       cachedCount, translatedCount, outcome, intact>>

LookupsAlmostDone(w) == next[w] >= Len(nodes[w])
LookupsDone(w) == next[w] > Len(nodes[w])

\* After the cache loop: one request for all misses, if there is one to make.
Send(w) ==
    /\ pc[w] = "lookup"
    /\ LookupsDone(w)
    /\ pc' = [pc EXCEPT ![w] = IF cacheMisses[w] # <<>> /\ translator[w].provides
                                 THEN "waiting" ELSE "apply"]
    /\ UNCHANGED <<store, batch, outcome, intact>>

\* The provider answers in order, one result per text if it counts them, as
\* openai.go does, fewer if it does not; results beyond the texts are not read.
Answer(w) ==
    /\ pc[w] = "waiting"
    /\ \E n \in 0..Len(cacheMisses[w]) :
          results' = [results EXCEPT ![w] =
                         [i \in 1..n |-> Made(cacheMisses[w][i], translator[w])]]
    /\ pc' = [pc EXCEPT ![w] = "store"]
    /\ UNCHANGED <<store, translator, nodes, next, translations, cacheMisses,
                   cachedCount, translatedCount, outcome, intact>>

\* The provider fails, or the caller's context is cancelled while it works.
ProviderFails(w) ==
    /\ pc[w] = "waiting"
    /\ Return(w, Failed)
    /\ UNCHANGED store

SetSkipped(w, text, x) == UNCHANGED <<store, intact>>

\* Set of an answer, if there is a cache; an error is ignored.
SetInCache(w, text, x) ==
    \/ /\ translator[w].caches
       /\ store' = [store EXCEPT ![CacheKey(text, TargetOf(w))] = x]
       /\ UNCHANGED intact
    \/ /\ translator[w].caches
       /\ intact' = intact \ {w}
       /\ UNCHANGED store
    \/ /\ ~translator[w].caches
       /\ UNCHANGED <<store, intact>>

\* The store loop: results[i] into the table of the call, and into the cache.
StoreResult(w) ==
    LET i == translatedCount[w] + 1
        text == cacheMisses[w][i].text
    IN  /\ pc[w] = "store"
        /\ i <= Len(cacheMisses[w])
        /\ i <= Len(results[w])
        /\ translations' = [translations EXCEPT ![w][text] = results[w][i]]
        /\ SetInCache(w, text, results[w][i])
        /\ translatedCount' = [translatedCount EXCEPT ![w] = i]
        /\ UNCHANGED <<pc, translator, nodes, next, cacheMisses, results, cachedCount, outcome>>

\* The store loop: results[i] of a slice that is too short.
StorePanics(w) ==
    /\ pc[w] = "store"
    /\ translatedCount[w] < Len(cacheMisses[w])
    /\ translatedCount[w] = Len(results[w])
    /\ Return(w, Panicked)
    /\ UNCHANGED store

StoreDone(w) ==
    /\ pc[w] = "store"
    /\ translatedCount[w] = Len(cacheMisses[w])
    /\ pc' = [pc EXCEPT ![w] = "apply"]
    /\ UNCHANGED <<store, batch, outcome, intact>>

\* processor.Apply replaces each node by the table's entry for its hash.
Content(w) == [i \in DOMAIN nodes[w] |-> translations[w][nodes[w][i].text]]

Apply(w) ==
    /\ pc[w] = "apply"
    /\ Return(w, Delivered(Content(w), cachedCount[w], translatedCount[w]))
    /\ UNCHANGED store

\* processor.Apply cannot rewrite the content.
ApplyFails(w) ==
    /\ pc[w] = "apply"
    /\ Return(w, Failed)
    /\ UNCHANGED store

\* An entry expires, is evicted or cleared, or was never really stored.
Lose(key) ==
    /\ store[key] # Absent
    /\ store' = [store EXCEPT ![key] = Absent]
    /\ intact' = {}
    /\ UNCHANGED <<pc, batch, outcome>>

Step(w) ==
    \/ LookupHit(w)
    \/ LookupMiss(w)
    \/ Send(w)
    \/ Answer(w)
    \/ ProviderFails(w)
    \/ StoreResult(w)
    \/ StorePanics(w)
    \/ StoreDone(w)
    \/ Apply(w)
    \/ ApplyFails(w)

Next ==
    \/ \E w \in Workers : Step(w) \/ RefuseContent(w)
    \/ \E w \in Workers, tr \in Translators, doc \in Documents :
          Begin(w, tr, doc) \/ Echo(w, tr, doc)
    \/ \E key \in DOMAIN store : Lose(key)

Spec == Init /\ [][Next]_vars

-----------------------------------------------------------------------------
Places == {"idle", "lookup", "waiting", "store", "apply"}

Outcomes == {Nothing, Echoed, Failed, Panicked}
            \cup [is : {"delivered"}, content : Seq(Translations \cup {Absent}),
                  cached : Nat, translated : Nat]

\* The tables as translateBatch makes them.
Fresh(w) ==
    /\ next[w] = 1
    /\ translations[w] = NoTranslations
    /\ cacheMisses[w] = <<>>
    /\ results[w] = <<>>
    /\ cachedCount[w] = 0
    /\ translatedCount[w] = 0

(* Every table of a call and the cache hold translations or nothing, the loop *)
(* variables stay within the slices they index, and between two calls there   *)
(* is nothing left of the first.                                              *)
TypeOK ==
    /\ store \in [Texts \X Targets -> Translations \cup {Absent}]
    /\ pc \in [Workers -> Places]
    /\ translator \in [Workers -> Translators]
    /\ nodes \in [Workers -> Seq(Nodes)]
    /\ next \in [Workers -> Nat \ {0}]
    /\ translations \in [Workers -> [Texts -> Translations \cup {Absent}]]
    /\ cacheMisses \in [Workers -> Seq(Nodes)]
    /\ results \in [Workers -> Seq(Translations)]
    /\ cachedCount \in [Workers -> Nat]
    /\ translatedCount \in [Workers -> Nat]
    /\ outcome \in [Workers -> Outcomes]
    /\ intact \subseteq Workers
    /\ \A w \in Workers : /\ next[w] <= Len(nodes[w]) + 1
                          /\ translatedCount[w] <= Len(cacheMisses[w])
                          /\ pc[w] = "idle" => Fresh(w)

(* x translates the text into the target language, whoever asked for it.     *)
IsFor(x, text, target) == x.text = text /\ x.target = target

(* The map the goroutines share and the table of each call (translator.go:   *)
(* 190-247) never hold a translation of another text or into another         *)
(* language, whatever translators of other languages do in the meantime and  *)
(* whichever of two goroutines stores last; and an answer that waits to be   *)
(* stored stands at the index of the text it translates.                     *)
Faithful ==
    /\ \A text \in Texts, target \in Targets :
          LET x == store[CacheKey(text, target)]
          IN  x # Absent => IsFor(x, text, target)
    /\ \A w \in Workers, text \in Texts :
          LET x == translations[w][text]
          IN  x # Absent => IsFor(x, text, TargetOf(w))
    /\ \A w \in Workers : \A i \in DOMAIN results[w] :
          /\ i <= Len(cacheMisses[w])
          /\ IsFor(results[w][i], cacheMisses[w][i].text, TargetOf(w))

(* Every node the cache loop has passed is in the table or in the request,   *)
(* every answer that was stored is in the table, and a document is rewritten *)
(* only after the loop has seen all nodes and, where there is a provider, all *)
(* answers are stored (translator.go:196-247): no node is forgotten, whatever *)
(* the cache gains or loses while the loops run.                              *)
NothingForgotten ==
    \A w \in Workers :
        /\ pc[w] # "idle" => \A i \in 1..(next[w] - 1) :
              LET text == nodes[w][i].text
              IN  translations[w][text] # Absent \/ Seen(w, text)
        /\ pc[w] \in {"waiting", "store", "apply"} => next[w] = Len(nodes[w]) + 1
        /\ \A i \in 1..translatedCount[w] : translations[w][cacheMisses[w][i].text] # Absent
        /\ pc[w] = "apply" /\ translator[w].provides =>
              translatedCount[w] = Len(cacheMisses[w])

(* One request repeats no text (seenHashes, translator.go:207-211), also when *)
(* a repeated text is stored or lost by another goroutine between its two     *)
(* lookups.                                                                   *)
NoTextTwice ==
    \A w \in Workers : \A i, j \in DOMAIN cacheMisses[w] :
        cacheMisses[w][i].text = cacheMisses[w][j].text => i = j

(* What translateBatch makes of the nodes (translator.go:190-247), whatever    *)
(* becomes of the cache meanwhile: it forgets none and requests none twice.    *)
EveryTextOnce == NothingForgotten /\ NoTextTwice

(* The counts ProcessedContent reports (translator.go:175-180): a node is not *)
(* counted twice, not even when its text was missed once and found later, and *)
(* with a provider every distinct text is counted.                            *)
CountsAddUp ==
    \A w \in Workers : pc[w] = "apply" =>
        LET counted == cachedCount[w] + translatedCount[w]
        IN  /\ counted <= Len(nodes[w])
            /\ translator[w].provides =>
                  Cardinality({nodes[w][i].text : i \in DOMAIN nodes[w]}) <= counted

(* When a call is about to return its document, every text of it is in the   *)
(* cache, unless the cache lost an entry since the call began or failed one   *)
(* of its Sets: the next call for the same language asks the provider for     *)
(* none of them (translator.go:239-246).                                      *)
BatchIsCached ==
    \A w \in intact :
        pc[w] = "apply" /\ translator[w].caches /\ translator[w].provides =>
            \A i \in DOMAIN nodes[w] :
               store[CacheKey(nodes[w][i].text, TargetOf(w))] # Absent

(* README.md:86 and :98: the style and the glossary of a translator control   *)
(* its translations.  The cache key (hash.go:17) knows neither: see README.    *)
OwnSettings ==
    \A w \in Workers : outcome[w].is = "delivered" =>
        \A i \in DOMAIN outcome[w].content :
            LET x == outcome[w].content[i]
            IN  x # Absent => x.settings = translator[w].settings

-----------------------------------------------------------------------------
\* The refinement: a call is busy until it returns, then it is its outcome.
CallOf(w) ==
    IF pc[w] # "idle" THEN [at |-> "busy", tr |-> translator[w], doc |-> nodes[w]]
    ELSE CASE outcome[w].is = "nothing"   -> [at |-> "idle"]
           [] outcome[w].is = "echoed"    -> [at |-> "echoed"]
           [] outcome[w].is = "delivered" -> [at |-> "delivered",
                                              content |-> outcome[w].content]
           [] OTHER                       -> [at |-> "failed"]

Service == INSTANCE TranslationService WITH
    call <- [w \in Workers |-> CallOf(w)]

(* Caching, batching and sharing are invisible but for the settings: each      *)
(* call behaves as if its nodes had been translated one by one for it alone.  *)
ImplementsService == Service!Spec
=============================================================================
