----------------------------- MODULE TranslatorProofs -----------------------------
(***************************************************************************)
(* Proofs about Translator, for any goroutines, translators and documents. *)
(***************************************************************************)
EXTENDS Translator, FiniteSetTheorems, TLAPS

\* A node has one of the texts, and what is made of it is a translation.
LEMMA NodeText ==
    ASSUME NEW node \in Nodes
    PROVE  /\ node.text \in Texts
           /\ \A tr \in Translators : /\ tr.target \in Targets
                                      /\ Made(node, tr) \in Translations
BY DEF Texts, Targets, Translations

LEMMA MadeIsFor ==
    ASSUME NEW node, NEW tr
    PROVE  IsFor(Made(node, tr), node.text, tr.target)
BY DEF IsFor, Made

LEMMA DocumentNodes == ASSUME NEW doc \in Documents PROVE doc \in Seq(Nodes)
BY TranslatorAssumption

\* The cache keys of the translators.
LEMMA StoreKeys ==
    /\ {CacheKey(t, l) : t \in Texts, l \in Targets} = Texts \X Targets
    /\ \A t \in Texts, l \in Targets : CacheKey(t, l) \in Texts \X Targets
BY DEF CacheKey

\* Returning puts the tables of a call back to empty.
LEMMA ReturnTypes ==
    ASSUME TypeOK, NEW w \in Workers, NEW r \in Outcomes, Return(w, r), store' = store
    PROVE  TypeOK'
<1> USE DEF Return, TypeOK, NoTranslations, Places
<1>1. /\ pc' \in [Workers -> Places]
      /\ outcome' \in [Workers -> Outcomes]
      /\ translator' \in [Workers -> Translators]
  OBVIOUS
<1>2. /\ nodes' \in [Workers -> Seq(Nodes)]
      /\ cacheMisses' \in [Workers -> Seq(Nodes)]
      /\ results' \in [Workers -> Seq(Translations)]
      /\ translations' \in [Workers -> [Texts -> Translations \cup {Absent}]]
  OBVIOUS
<1>3. /\ next' \in [Workers -> Nat \ {0}]
      /\ cachedCount' \in [Workers -> Nat]
      /\ translatedCount' \in [Workers -> Nat]
  OBVIOUS
<1>4. \A v \in Workers : /\ next'[v] <= Len(nodes'[v]) + 1
                         /\ translatedCount'[v] <= Len(cacheMisses'[v])
                         /\ (pc[v] = "idle" => Fresh(v))'
  BY DEF Fresh
<1> QED BY <1>1, <1>2, <1>3, <1>4

(* The initial state is well typed. *)
THEOREM InitTypes == Init => TypeOK
<1> SUFFICES ASSUME Init PROVE TypeOK
  OBVIOUS
<1>1. (CHOOSE tr \in Translators : TRUE) \in Translators
  BY TranslatorAssumption
<1>2. store \in [Texts \X Targets -> Translations \cup {Absent}]
  BY StoreKeys DEF Init
<1>3. outcome \in [Workers -> Outcomes]
  BY DEF Init, Outcomes
<1> QED BY <1>1, <1>2, <1>3 DEF Init, TypeOK, NoTranslations, Places, Fresh

(* Every step of Process and translateBatch (translator.go:123-250) keeps   *)
(* the tables well typed.                                                    *)
THEOREM TypeStep == TypeOK /\ [Next]_vars => TypeOK'
<1> SUFFICES ASSUME TypeOK, [Next]_vars PROVE TypeOK'
  OBVIOUS
<1> USE DEF Places
<1>1. ASSUME NEW w \in Workers, NEW tr \in Translators, NEW doc \in Documents, Begin(w, tr, doc)
      PROVE  TypeOK'
  <2>1. nodes' \in [Workers -> Seq(Nodes)]
    BY <1>1, DocumentNodes DEF Begin, TypeOK
  <2>2. outcome' \in [Workers -> Outcomes]
    BY <1>1 DEF Begin, TypeOK, Outcomes
  <2>3. Fresh(w) /\ \A v \in Workers : v # w => nodes'[v] = nodes[v] /\ pc'[v] = pc[v]
    BY <1>1 DEF Begin, TypeOK
  <2>4. pc'[w] # "idle"
    BY <1>1 DEF Begin, TypeOK
  <2>5. \A v \in Workers : /\ next'[v] <= Len(nodes'[v]) + 1
                           /\ translatedCount'[v] <= Len(cacheMisses'[v])
                           /\ (pc[v] = "idle" => Fresh(v))'
    BY <1>1, <2>1, <2>3, <2>4 DEF Begin, TypeOK, Fresh
  <2> QED BY <1>1, <2>1, <2>2, <2>5 DEF Begin, TypeOK
<1>2. ASSUME NEW w \in Workers, \/ RefuseContent(w)
                                \/ \E tr \in Translators, doc \in Documents : Echo(w, tr, doc)
      PROVE  TypeOK'
  <2>1. outcome' \in [Workers -> Outcomes]
    BY <1>2 DEF RefuseContent, Echo, TypeOK, Outcomes
  <2>2. UNCHANGED <<store, pc, batch, intact>>
    BY <1>2 DEF RefuseContent, Echo
  <2> QED BY <2>1, <2>2 DEF batch, TypeOK, Fresh
<1>3. ASSUME NEW w \in Workers, LookupHit(w) PROVE TypeOK'
  <2> DEFINE node == nodes[w][next[w]]
             key == CacheKey(node.text, TargetOf(w))
  <2>1. node \in Nodes /\ TargetOf(w) \in Targets
    BY <1>3 DEF LookupHit, TypeOK, TargetOf, Targets
  <2>2. node.text \in Texts /\ store[key] \in Translations \cup {Absent}
    BY <2>1, NodeText, StoreKeys DEF TypeOK
  <2>3. translations' \in [Workers -> [Texts -> Translations \cup {Absent}]]
    BY <1>3, <2>2 DEF LookupHit, TypeOK
  <2>4. /\ next' \in [Workers -> Nat \ {0}]
        /\ cachedCount' \in [Workers -> Nat]
    BY <1>3 DEF LookupHit, TypeOK
  <2>5. pc[w] = "lookup" /\ next[w] <= Len(nodes[w])
    BY <1>3 DEF LookupHit
  <2>6. \A v \in Workers : /\ next'[v] <= Len(nodes'[v]) + 1
                           /\ translatedCount'[v] <= Len(cacheMisses'[v])
                           /\ (pc[v] = "idle" => Fresh(v))'
    <3>1. UNCHANGED <<pc, nodes, cacheMisses, results, translatedCount>>
      BY <1>3 DEF LookupHit
    <3>2. next'[w] = next[w] + 1 /\ next[w] \in Nat /\ Len(nodes[w]) \in Nat
      BY <1>3 DEF LookupHit, TypeOK
    <3>3. \A v \in Workers \ {w} : /\ next'[v] = next[v] /\ cachedCount'[v] = cachedCount[v]
                                   /\ translations'[v] = translations[v]
      BY <1>3 DEF LookupHit, TypeOK
    <3>4. \A v \in Workers : /\ next[v] <= Len(nodes[v]) + 1
                             /\ translatedCount[v] <= Len(cacheMisses[v])
                             /\ pc[v] = "idle" => Fresh(v)
      BY DEF TypeOK
    <3>5. \A v \in Workers : next'[v] <= Len(nodes'[v]) + 1
      BY <2>5, <3>1, <3>2, <3>3, <3>4
    <3>6. \A v \in Workers \ {w} : (pc[v] = "idle" => Fresh(v))'
      BY <3>1, <3>3, <3>4 DEF Fresh
    <3>7. pc'[w] # "idle"
      BY <2>5, <3>1
    <3> QED BY <3>1, <3>4, <3>5, <3>6, <3>7
  <2> QED BY <1>3, <2>3, <2>4, <2>6 DEF LookupHit, TypeOK
<1>4. ASSUME NEW w \in Workers, LookupMiss(w) PROVE TypeOK'
  <2>1. nodes[w][next[w]] \in Nodes
    BY <1>4 DEF LookupMiss, TypeOK
  <2>2. cacheMisses' \in [Workers -> Seq(Nodes)] /\ Len(cacheMisses[w]) <= Len(cacheMisses'[w])
    BY <1>4, <2>1 DEF LookupMiss, TypeOK
  <2>3. next' \in [Workers -> Nat \ {0}]
    BY <1>4 DEF LookupMiss, TypeOK
  <2>4. pc[w] = "lookup" /\ next[w] <= Len(nodes[w])
    BY <1>4 DEF LookupMiss
  <2>5. \A v \in Workers : v # w => /\ next'[v] = next[v] /\ cacheMisses'[v] = cacheMisses[v]
    BY <1>4 DEF LookupMiss, TypeOK
  <2>6. \A v \in Workers : /\ next'[v] <= Len(nodes'[v]) + 1
                           /\ translatedCount'[v] <= Len(cacheMisses'[v])
                           /\ (pc[v] = "idle" => Fresh(v))'
    BY <1>4, <2>2, <2>4, <2>5 DEF LookupMiss, TypeOK, Fresh
  <2> QED BY <1>4, <2>2, <2>3, <2>6 DEF LookupMiss, TypeOK
<1>5. ASSUME NEW w \in Workers, Send(w) \/ StoreDone(w) PROVE TypeOK'
  <2>1. /\ pc' \in [Workers -> Places]
        /\ pc[w] # "idle"
        /\ \A v \in Workers : v # w => pc'[v] = pc[v]
        /\ pc'[w] # "idle"
        /\ UNCHANGED <<store, batch, outcome, intact>>
    BY <1>5 DEF Send, LookupsDone, StoreDone, TypeOK
  <2> QED BY <2>1 DEF TypeOK, batch, Fresh
<1>6. ASSUME NEW w \in Workers, Answer(w) PROVE TypeOK'
  <2>1. PICK n \in 0..Len(cacheMisses[w]) :
           results' = [results EXCEPT ![w] =
                         [i \in 1..n |-> Made(cacheMisses[w][i], translator[w])]]
    BY <1>6 DEF Answer
  <2>2. [i \in 1..n |-> Made(cacheMisses[w][i], translator[w])] \in Seq(Translations)
    <3>1. \A i \in 1..n : cacheMisses[w][i] \in Nodes
      BY DEF TypeOK
    <3> QED BY <3>1, NodeText DEF TypeOK
  <2>3. results' \in [Workers -> Seq(Translations)]
    BY <2>1, <2>2 DEF TypeOK
  <2>4. /\ pc' \in [Workers -> Places]
        /\ \A v \in Workers : pc'[v] = "idle" => v # w /\ pc[v] = "idle"
        /\ \A v \in Workers : v # w => results'[v] = results[v]
    BY <1>6, <2>1 DEF Answer, TypeOK
  <2> QED BY <1>6, <2>3, <2>4 DEF Answer, TypeOK, Fresh
<1>7. ASSUME NEW w \in Workers, ProviderFails(w) \/ ApplyFails(w) \/ StorePanics(w)
      PROVE  TypeOK'
  <2>1. Failed \in Outcomes /\ Panicked \in Outcomes
    BY DEF Outcomes
  <2>2. UNCHANGED store /\ (Return(w, Failed) \/ Return(w, Panicked))
    BY <1>7 DEF ProviderFails, ApplyFails, StorePanics
  <2> QED BY <2>1, <2>2, ReturnTypes
<1>8. ASSUME NEW w \in Workers, Apply(w) PROVE TypeOK'
  <2>1. Content(w) \in Seq(Translations \cup {Absent})
    <3>1. \A i \in 1..Len(nodes[w]) : nodes[w][i].text \in Texts
      BY NodeText DEF TypeOK
    <3>2. Content(w) = [i \in 1..Len(nodes[w]) |-> translations[w][nodes[w][i].text]]
      BY DEF Content, TypeOK
    <3> QED BY <3>1, <3>2 DEF TypeOK
  <2>2. Delivered(Content(w), cachedCount[w], translatedCount[w]) \in Outcomes
    BY <2>1 DEF Delivered, Outcomes, TypeOK
  <2> QED BY <1>8, <2>2, ReturnTypes DEF Apply
<1>9. ASSUME NEW w \in Workers, StoreResult(w) PROVE TypeOK'
  <2> DEFINE i == translatedCount[w] + 1
             text == cacheMisses[w][i].text
             key == CacheKey(text, TargetOf(w))
  <2>1. /\ i \in 1..Len(cacheMisses[w]) /\ i \in 1..Len(results[w])
        /\ pc[w] = "store"
    BY <1>9 DEF StoreResult, SetInCache, TypeOK
  <2>2. /\ text \in Texts
        /\ results[w][i] \in Translations
        /\ key \in Texts \X Targets
    <3>1. cacheMisses[w][i] \in Nodes /\ results[w][i] \in Translations
      BY <2>1 DEF TypeOK
    <3>2. text \in Texts
      BY <3>1, NodeText
    <3>3. TargetOf(w) \in Targets
      BY DEF TypeOK, TargetOf, Targets
    <3> HIDE DEF text
    <3> QED BY <3>1, <3>2, <3>3, StoreKeys
  <2>3. translations' \in [Workers -> [Texts -> Translations \cup {Absent}]]
    BY <1>9, <2>2 DEF StoreResult, SetInCache, TypeOK
  <2>4. store' \in [Texts \X Targets -> Translations \cup {Absent}]
    BY <1>9, <2>2 DEF StoreResult, SetInCache, TypeOK
  <2>5. translatedCount' \in [Workers -> Nat]
    BY <1>9 DEF StoreResult, SetInCache, TypeOK
  <2>6. \A v \in Workers : /\ next'[v] <= Len(nodes'[v]) + 1
                           /\ translatedCount'[v] <= Len(cacheMisses'[v])
                           /\ (pc[v] = "idle" => Fresh(v))'
    BY <1>9, <2>1 DEF StoreResult, SetInCache, TypeOK, Fresh
  <2> QED BY <1>9, <2>3, <2>4, <2>5, <2>6 DEF StoreResult, SetInCache, TypeOK
<1>10. ASSUME NEW key \in DOMAIN store, Lose(key) PROVE TypeOK'
  <2>1. UNCHANGED <<pc, batch, outcome>> /\ intact' = {}
    BY <1>10 DEF Lose
  <2>2. store' \in [Texts \X Targets -> Translations \cup {Absent}]
    BY <1>10 DEF Lose, TypeOK
  <2> QED BY <2>1, <2>2 DEF TypeOK, batch, Fresh
<1>11. CASE UNCHANGED vars
  BY <1>11 DEF vars, batch, TypeOK, Fresh
<1> QED BY <1>1, <1>2, <1>3, <1>4, <1>5, <1>6, <1>7, <1>8, <1>9, <1>10, <1>11 DEF Next, Step

(* TypeOK holds in every behaviour of the translators. *)
THEOREM Typing == Spec => []TypeOK
BY InitTypes, TypeStep, PTL DEF Spec

-----------------------------------------------------------------------------
\* The three parts of Faithful, for one key, one table entry, one answer.
KeyIsFaithful(t, l) == store[CacheKey(t, l)] # Absent => IsFor(store[CacheKey(t, l)], t, l)
EntryIsFaithful(w, t) == translations[w][t] # Absent => IsFor(translations[w][t], t, TargetOf(w))
AnswersAreFaithful(w) ==
    \A i \in DOMAIN results[w] :
        /\ i <= Len(cacheMisses[w])
        /\ IsFor(results[w][i], cacheMisses[w][i].text, TargetOf(w))

LEMMA FaithfulParts ==
    Faithful <=> /\ \A t \in Texts, l \in Targets : KeyIsFaithful(t, l)
                 /\ \A w \in Workers, t \in Texts : EntryIsFaithful(w, t)
                 /\ \A w \in Workers : AnswersAreFaithful(w)
BY DEF Faithful, KeyIsFaithful, EntryIsFaithful, AnswersAreFaithful

\* What another goroutine does to its own tables is nothing to a call.
LEMMA OtherTables ==
    ASSUME TypeOK, Faithful, NEW w \in Workers,
           UNCHANGED <<translations[w], translator[w], cacheMisses[w], results[w]>>
    PROVE  AnswersAreFaithful(w)' /\ \A t \in Texts : EntryIsFaithful(w, t)'
BY FaithfulParts DEF AnswersAreFaithful, EntryIsFaithful, TargetOf

\* A call with empty tables has nothing unfaithful in them.
LEMMA EmptyTables ==
    ASSUME TypeOK, NEW w \in Workers,
           translations[w] = NoTranslations, results[w] = <<>>
    PROVE  AnswersAreFaithful(w) /\ \A t \in Texts : EntryIsFaithful(w, t)
BY DEF AnswersAreFaithful, EntryIsFaithful, NoTranslations

(* The cache, the tables and the pending answers stay faithful at every step *)
(* of every goroutine (translator.go:189-250).                                *)
THEOREM FaithfulStep == TypeOK /\ Faithful /\ [Next]_vars => Faithful'
<1> SUFFICES ASSUME TypeOK, Faithful, [Next]_vars PROVE Faithful'
  OBVIOUS
<1>t. TypeOK'
  BY TypeStep
<1>1. \A t \in Texts, l \in Targets : KeyIsFaithful(t, l)'
  <2>1. CASE store' = store
    BY <2>1, FaithfulParts DEF KeyIsFaithful
  <2>2. ASSUME NEW key \in DOMAIN store, Lose(key), NEW t \in Texts, NEW l \in Targets
        PROVE  KeyIsFaithful(t, l)'
    <3>1. CacheKey(t, l) \in DOMAIN store
      BY StoreKeys DEF TypeOK
    <3>2. store'[CacheKey(t, l)] = Absent \/ store'[CacheKey(t, l)] = store[CacheKey(t, l)]
      BY <2>2, <3>1 DEF Lose, TypeOK
    <3>3. KeyIsFaithful(t, l)
      BY FaithfulParts
    <3> QED BY <3>2, <3>3 DEF KeyIsFaithful
  <2>3. ASSUME NEW w \in Workers, StoreResult(w), store' # store,
               NEW t \in Texts, NEW l \in Targets
        PROVE  KeyIsFaithful(t, l)'
    <3> DEFINE i == translatedCount[w] + 1
               text == cacheMisses[w][i].text
               key == CacheKey(text, TargetOf(w))
               x == results[w][i]
    <3>1. /\ i \in DOMAIN results[w]
          /\ store' = [store EXCEPT ![key] = x]
      BY <2>3 DEF StoreResult, SetInCache, TypeOK
    <3>2. IsFor(x, text, TargetOf(w))
      BY <3>1, FaithfulParts DEF AnswersAreFaithful
    <3>3. CacheKey(t, l) \in DOMAIN store /\ KeyIsFaithful(t, l)
      BY StoreKeys, FaithfulParts DEF TypeOK
    <3> HIDE DEF x, text
    <3>4. CASE t = text /\ l = TargetOf(w)
      <4>1. store'[CacheKey(t, l)] = x
        BY <3>1, <3>3, <3>4
      <4> QED BY <3>2, <3>4, <4>1 DEF KeyIsFaithful
    <3>5. CASE t # text \/ l # TargetOf(w)
      <4>1. key # CacheKey(t, l)
        BY <3>5 DEF CacheKey
      <4>2. store'[CacheKey(t, l)] = store[CacheKey(t, l)]
        BY <3>1, <3>3, <4>1
      <4> QED BY <3>3, <4>2 DEF KeyIsFaithful
    <3> QED BY <3>4, <3>5
  <2> QED BY <2>1, <2>2, <2>3
          DEF Next, Step, Begin, Echo, RefuseContent, LookupHit, LookupMiss, Send, LookupsDone, Answer,
              ProviderFails, StorePanics, StoreDone, Apply, ApplyFails, vars
<1>2. ASSUME NEW w \in Workers
      PROVE  AnswersAreFaithful(w)' /\ \A t \in Texts : EntryIsFaithful(w, t)'
  <2>1. CASE UNCHANGED <<translations[w], translator[w], cacheMisses[w], results[w]>>
    BY <2>1, OtherTables
  <2>2. CASE \E tr \in Translators, doc \in Documents : Begin(w, tr, doc)
    <3>1. translations'[w] = NoTranslations /\ results'[w] = <<>>
      BY <2>2 DEF Begin, TypeOK, Fresh
    <3> QED BY <1>t, <3>1, EmptyTables DEF AnswersAreFaithful, EntryIsFaithful, NoTranslations
  <2>3. CASE Return(w, Failed) \/ Return(w, Panicked)
             \/ Return(w, Delivered(Content(w), cachedCount[w], translatedCount[w]))
    <3>1. translations'[w] = NoTranslations /\ results'[w] = <<>>
      BY <2>3 DEF Return, TypeOK
    <3> QED BY <1>t, <3>1 DEF AnswersAreFaithful, EntryIsFaithful, NoTranslations
  <2>4. CASE LookupHit(w)
    <3> DEFINE node == nodes[w][next[w]]
    <3>1. node.text \in Texts /\ TargetOf(w) \in Targets
      BY <2>4, NodeText DEF LookupHit, TypeOK, TargetOf, Targets
    <3>2. KeyIsFaithful(node.text, TargetOf(w))
      BY <3>1, FaithfulParts
    <3>3. /\ translations' = [translations EXCEPT ![w][node.text] = store[CacheKey(node.text, TargetOf(w))]]
          /\ UNCHANGED <<translator, cacheMisses, results>>
      BY <2>4 DEF LookupHit
    <3>4. ASSUME NEW t \in Texts PROVE EntryIsFaithful(w, t)'
      <4>1. EntryIsFaithful(w, t)
        BY FaithfulParts
      <4> HIDE DEF node
      <4>2. translations'[w][t] = IF t = node.text THEN store[CacheKey(node.text, TargetOf(w))]
                                  ELSE translations[w][t]
        BY <3>1, <3>3 DEF TypeOK
      <4> QED BY <3>2, <3>3, <4>1, <4>2 DEF EntryIsFaithful, KeyIsFaithful, TargetOf
    <3>5. AnswersAreFaithful(w)'
      BY <3>3, FaithfulParts DEF AnswersAreFaithful, TargetOf
    <3> QED BY <3>4, <3>5
  <2>5. CASE LookupMiss(w)
    <3>1. UNCHANGED <<translations, translator, results>>
      BY <2>5 DEF LookupMiss
    <3>2. /\ Len(cacheMisses[w]) <= Len(cacheMisses'[w])
          /\ \A i \in 1..Len(cacheMisses[w]) : cacheMisses'[w][i] = cacheMisses[w][i]
      <4>1. nodes[w][next[w]] \in Nodes /\ cacheMisses[w] \in Seq(Nodes)
        BY <2>5 DEF LookupMiss, TypeOK
      <4>2. \/ cacheMisses'[w] = cacheMisses[w]
            \/ cacheMisses'[w] = Append(cacheMisses[w], nodes[w][next[w]])
        BY <2>5 DEF LookupMiss, TypeOK
      <4> QED BY <4>1, <4>2
    <3>3. AnswersAreFaithful(w)'
      <4>1. DOMAIN results[w] \subseteq 1..Len(cacheMisses[w])
        BY FaithfulParts DEF AnswersAreFaithful, TypeOK
      <4>2. Len(cacheMisses[w]) \in Nat /\ Len(cacheMisses'[w]) \in Nat
        BY <1>t DEF TypeOK
      <4> QED BY <3>1, <3>2, <4>1, <4>2, FaithfulParts DEF AnswersAreFaithful, TargetOf
    <3> QED BY <3>1, <3>3, FaithfulParts DEF EntryIsFaithful, TargetOf
  <2>6. CASE Answer(w)
    <3>1. UNCHANGED <<translations, translator, cacheMisses>>
      BY <2>6 DEF Answer
    <3>2. PICK n \in 0..Len(cacheMisses[w]) :
             results'[w] = [i \in 1..n |-> Made(cacheMisses[w][i], translator[w])]
      <4>1. Len(cacheMisses[w]) \in Nat
        BY DEF TypeOK
      <4> QED BY <2>6, <4>1 DEF Answer, TypeOK
    <3>3. AnswersAreFaithful(w)'
      <4>1. Len(cacheMisses[w]) \in Nat
        BY DEF TypeOK
      <4> QED BY <3>1, <3>2, <4>1, MadeIsFor DEF AnswersAreFaithful, TargetOf
    <3> QED BY <3>1, <3>3, FaithfulParts DEF EntryIsFaithful, TargetOf
  <2>7. CASE StoreResult(w)
    <3> DEFINE i == translatedCount[w] + 1
               text == cacheMisses[w][i].text
               x == results[w][i]
    <3>1. /\ i \in DOMAIN results[w]
          /\ translations' = [translations EXCEPT ![w][text] = x]
          /\ UNCHANGED <<translator, cacheMisses, results>>
      BY <2>7 DEF StoreResult, SetInCache, TypeOK
    <3>2. IsFor(x, text, TargetOf(w))
      BY <3>1, FaithfulParts DEF AnswersAreFaithful
    <3>3. ASSUME NEW t \in Texts PROVE EntryIsFaithful(w, t)'
      <4>1. EntryIsFaithful(w, t)
        BY FaithfulParts
      <4> HIDE DEF x, text
      <4>2. translations'[w][t] = IF t = text THEN x ELSE translations[w][t]
        BY <3>1 DEF TypeOK
      <4> QED BY <3>1, <3>2, <4>1, <4>2 DEF EntryIsFaithful, TargetOf
    <3>4. AnswersAreFaithful(w)'
      BY <3>1, FaithfulParts DEF AnswersAreFaithful, TargetOf
    <3> QED BY <3>3, <3>4
  <2>8. ASSUME NEW v \in Workers, v # w,
               \/ Step(v)
               \/ \E tr \in Translators, doc \in Documents : Begin(v, tr, doc)
        PROVE  UNCHANGED <<translations[w], translator[w], cacheMisses[w], results[w]>>
    BY <2>8 DEF Step, Begin, LookupHit, LookupMiss, Send, LookupsDone, Answer, ProviderFails, StoreResult, SetInCache,
                StorePanics, StoreDone, Apply, ApplyFails, Return, batch, TypeOK
  <2>9. ASSUME \/ Send(w) \/ StoreDone(w)
               \/ \E v \in Workers : \/ RefuseContent(v)
                                     \/ \E tr \in Translators, doc \in Documents : Echo(v, tr, doc)
               \/ \E key \in DOMAIN store : Lose(key)
               \/ UNCHANGED vars
        PROVE  UNCHANGED <<translations[w], translator[w], cacheMisses[w], results[w]>>
    BY <2>9 DEF Send, LookupsDone, StoreDone, RefuseContent, Echo, Lose, vars, batch
  <2>10. ASSUME ProviderFails(w) \/ StorePanics(w) \/ Apply(w) \/ ApplyFails(w)
         PROVE  \/ Return(w, Failed) \/ Return(w, Panicked)
                \/ Return(w, Delivered(Content(w), cachedCount[w], translatedCount[w]))
    BY <2>10 DEF ProviderFails, StorePanics, Apply, ApplyFails
  <2>11. CASE Step(w)
    BY <2>1, <2>3, <2>4, <2>5, <2>6, <2>7, <2>9, <2>10, <2>11 DEF Step
  <2> QED BY <2>1, <2>2, <2>8, <2>9, <2>11 DEF Next
<1> QED
  <2>1. Faithful' <=> /\ \A t \in Texts, l \in Targets : KeyIsFaithful(t, l)'
                      /\ \A w \in Workers, t \in Texts : EntryIsFaithful(w, t)'
                      /\ \A w \in Workers : AnswersAreFaithful(w)'
    BY DEF Faithful, KeyIsFaithful, EntryIsFaithful, AnswersAreFaithful
  <2> QED BY <1>1, <1>2, <2>1

-----------------------------------------------------------------------------
\* What a call knows about its own nodes, and that no text is sent twice.
Covered(w) ==
    /\ pc[w] # "idle" => \A i \in 1..(next[w] - 1) :
          translations[w][nodes[w][i].text] # Absent \/ Seen(w, nodes[w][i].text)
    /\ pc[w] \in {"waiting", "store", "apply"} => next[w] = Len(nodes[w]) + 1
    /\ \A i \in 1..translatedCount[w] : translations[w][cacheMisses[w][i].text] # Absent
    /\ pc[w] = "apply" /\ translator[w].provides =>
          translatedCount[w] = Len(cacheMisses[w])

Distinct(w) ==
    \A i, j \in DOMAIN cacheMisses[w] : cacheMisses[w][i].text = cacheMisses[w][j].text => i = j

LEMMA CoveredDistinct ==
    /\ NothingForgotten <=> \A w \in Workers : Covered(w)
    /\ NoTextTwice <=> \A w \in Workers : Distinct(w)
BY DEF NothingForgotten, NoTextTwice, Covered, Distinct

\* A call whose own state does not change keeps what it knows.
LEMMA CoveredFrame ==
    ASSUME NEW w \in Workers, Covered(w), Distinct(w),
           UNCHANGED <<pc[w], translator[w], nodes[w], next[w], translations[w],
                       cacheMisses[w], translatedCount[w]>>
    PROVE  Covered(w)' /\ Distinct(w)'
BY DEF Covered, Distinct, Seen

\* A step moves the state of the goroutine that takes it, and of no other.
LEMMA OwnStep ==
    ASSUME TypeOK, [Next]_vars, NEW w \in Workers
    PROVE  \/ Step(w)
           \/ \E tr \in Translators, doc \in Documents : Begin(w, tr, doc)
           \/ UNCHANGED <<pc[w], translator[w], nodes[w], next[w], translations[w],
                          cacheMisses[w], results[w], cachedCount[w], translatedCount[w]>>
<1>1. ASSUME NEW v \in Workers, v # w,
             \/ Step(v)
             \/ \E tr \in Translators, doc \in Documents : Begin(v, tr, doc)
      PROVE  UNCHANGED <<pc[w], translator[w], nodes[w], next[w], translations[w],
                         cacheMisses[w], results[w], cachedCount[w], translatedCount[w]>>
  BY <1>1 DEF Step, Begin, LookupHit, LookupMiss, Send, LookupsDone, Answer, ProviderFails, StoreResult, SetInCache,
              StorePanics, StoreDone, Apply, ApplyFails, Return, batch, TypeOK
<1>2. ASSUME \/ \E v \in Workers : \/ RefuseContent(v)
                                   \/ \E tr \in Translators, doc \in Documents : Echo(v, tr, doc)
             \/ \E key \in DOMAIN store : Lose(key)
             \/ UNCHANGED vars
      PROVE  UNCHANGED <<pc[w], translator[w], nodes[w], next[w], translations[w],
                         cacheMisses[w], results[w], cachedCount[w], translatedCount[w]>>
  BY <1>2 DEF RefuseContent, Echo, Lose, vars, batch
<1> QED BY <1>1, <1>2 DEF Next

\* A fresh call has passed no node and sent none.
LEMMA FreshCovered ==
    ASSUME NEW w \in Workers, next[w] = 1, cacheMisses[w] = <<>>, translatedCount[w] = 0,
           pc[w] \in {"idle", "lookup"}
    PROVE  Covered(w) /\ Distinct(w)
BY DEF Covered, Distinct

(* The cache loop, the request and the store loop of one call keep track of  *)
(* every node (translator.go:196-247) at every step of every goroutine.       *)
THEOREM CoveredStep ==
    TypeOK /\ NothingForgotten /\ NoTextTwice /\ [Next]_vars
        => NothingForgotten' /\ NoTextTwice'
<1> SUFFICES ASSUME TypeOK, [Next]_vars, NEW w \in Workers, Covered(w), Distinct(w)
             PROVE  Covered(w)' /\ Distinct(w)'
  <2>1. NothingForgotten' <=> \A w \in Workers : Covered(w)'
    BY DEF NothingForgotten, Covered, Seen
  <2>2. NoTextTwice' <=> \A w \in Workers : Distinct(w)'
    BY DEF NoTextTwice, Distinct
  <2> QED BY <2>1, <2>2, CoveredDistinct
<1>t. TypeOK'
  BY TypeStep
<1>1. CASE \E tr \in Translators, doc \in Documents : Begin(w, tr, doc)
  <2>1. /\ next'[w] = 1 /\ cacheMisses'[w] = <<>> /\ translatedCount'[w] = 0
        /\ pc'[w] = "lookup"
    BY <1>1 DEF Begin, TypeOK, Fresh
  <2> QED BY <2>1 DEF Covered, Distinct, Seen
<1>2. CASE ProviderFails(w) \/ StorePanics(w) \/ Apply(w) \/ ApplyFails(w)
  <2>1. /\ next'[w] = 1 /\ cacheMisses'[w] = <<>> /\ translatedCount'[w] = 0
        /\ pc'[w] = "idle"
    BY <1>2 DEF ProviderFails, StorePanics, Apply, ApplyFails, Return, TypeOK
  <2> QED BY <2>1 DEF Covered, Distinct, Seen
<1>3. CASE LookupHit(w)
  <2> DEFINE node == nodes[w][next[w]]
  <2>1. /\ pc[w] = "lookup" /\ UNCHANGED <<pc, translator, nodes, cacheMisses, translatedCount>>
        /\ next'[w] = next[w] + 1 /\ next[w] \in Nat \ {0}
    BY <1>3 DEF LookupHit, TypeOK
  <2>2. node.text \in Texts
    BY <1>3, NodeText DEF LookupHit, TypeOK
  <2>3. /\ translations'[w][node.text] # Absent
        /\ \A t \in Texts : translations[w][t] # Absent => translations'[w][t] # Absent
    BY <1>3, <2>2 DEF LookupHit, TypeOK
  <2>4. ASSUME NEW i \in 1..(next'[w] - 1)
        PROVE  translations'[w][nodes'[w][i].text] # Absent \/ Seen(w, nodes[w][i].text)'
    <3>1. CASE i = next[w]
      BY <2>1, <2>3, <3>1
    <3>2. CASE i # next[w]
      <4>1. i \in 1..(next[w] - 1) /\ i \in 1..Len(nodes[w])
        BY <1>3, <2>1, <3>2 DEF LookupHit, TypeOK
      <4>2. nodes[w][i].text \in Texts
        BY <4>1, NodeText DEF TypeOK
      <4> QED BY <2>1, <2>3, <4>1, <4>2 DEF Covered, Seen
    <3> QED BY <3>1, <3>2
  <2>5. \A i \in 1..translatedCount'[w] : translations'[w][cacheMisses'[w][i].text] # Absent
    <3>1. \A i \in 1..translatedCount[w] : cacheMisses[w][i] \in Nodes
      BY DEF TypeOK
    <3> QED BY <2>1, <2>3, <3>1, NodeText DEF Covered
  <2> HIDE DEF node
  <2> QED BY <2>1, <2>4, <2>5 DEF Covered, Distinct
<1>4. CASE LookupMiss(w)
  <2> DEFINE node == nodes[w][next[w]]
             old == cacheMisses[w]
             new == cacheMisses'[w]
  <2>1. /\ pc[w] = "lookup" /\ UNCHANGED <<pc, translator, nodes, translations, translatedCount>>
        /\ next'[w] = next[w] + 1 /\ next[w] \in Nat \ {0}
        /\ old \in Seq(Nodes) /\ node \in Nodes
        /\ translatedCount[w] <= Len(old) /\ translatedCount[w] \in Nat
    BY <1>4 DEF LookupMiss, TypeOK
  <2>2. new = IF Seen(w, node.text) THEN old ELSE Append(old, node)
    BY <1>4 DEF LookupMiss, TypeOK
  <2>3. /\ \A i \in DOMAIN old : i \in DOMAIN new /\ new[i] = old[i]
        /\ \E i \in DOMAIN new : new[i].text = node.text
    <3>1. CASE Seen(w, node.text)
      BY <2>2, <3>1 DEF Seen
    <3>2. CASE ~Seen(w, node.text)
      <4>1. new = Append(old, node)
        BY <2>2, <3>2
      <4>2. Len(old) + 1 \in DOMAIN new /\ new[Len(old) + 1] = node
        BY <2>1, <4>1
      <4>3. \A i \in DOMAIN old : i \in DOMAIN new /\ new[i] = old[i]
        BY <2>1, <4>1
      <4> QED BY <4>2, <4>3
    <3> QED BY <3>1, <3>2
  <2>4. ASSUME NEW i \in 1..(next'[w] - 1)
        PROVE  translations'[w][nodes'[w][i].text] # Absent \/ Seen(w, nodes[w][i].text)'
    <3>1. CASE i = next[w]
      BY <2>1, <2>3, <3>1 DEF Seen
    <3>2. CASE i # next[w]
      <4>1. i \in 1..(next[w] - 1)
        BY <2>1, <3>2
      <4> QED BY <2>1, <2>3, <4>1 DEF Covered, Seen
    <3> QED BY <3>1, <3>2
  <2>5. \A i \in 1..translatedCount'[w] : translations'[w][new[i].text] # Absent
    <3>1. \A i \in 1..translatedCount[w] : i \in DOMAIN old
      BY <2>1
    <3> QED BY <2>1, <2>3, <3>1 DEF Covered
  <2>6. Distinct(w)'
    <3>1. CASE Seen(w, node.text)
      BY <2>2, <3>1 DEF Distinct
    <3>2. CASE ~Seen(w, node.text)
      <4>1. /\ DOMAIN new = 1..(Len(old) + 1) /\ DOMAIN old = 1..Len(old)
            /\ Len(old) \in Nat /\ new[Len(old) + 1] = node
        BY <2>1, <2>2, <3>2
      <4>2. \A i \in DOMAIN old : old[i].text # node.text
        BY <3>2 DEF Seen
      <4>3. ASSUME NEW i \in DOMAIN new, NEW j \in DOMAIN new, new[i].text = new[j].text
            PROVE  i = j
        <5>1. CASE i \in DOMAIN old /\ j \in DOMAIN old
          BY <2>3, <4>3, <5>1 DEF Distinct
        <5>2. CASE i \notin DOMAIN old \/ j \notin DOMAIN old
          <6> DEFINE m == Len(old) + 1
          <6>1. \A k \in DOMAIN new : k \in DOMAIN old \/ k = m
            BY <4>1
          <6>2. new[m].text = node.text /\ \A k \in DOMAIN old : new[k].text # node.text
            BY <2>3, <4>1, <4>2
          <6> HIDE DEF m, new, old, node
          <6> QED BY <4>3, <5>2, <6>1, <6>2
        <5> QED BY <5>1, <5>2
      <4> QED BY <4>3 DEF Distinct
    <3> QED BY <3>1, <3>2
  <2> HIDE DEF node, old, new
  <2>7. pc'[w] = "lookup"
    BY <2>1
  <2> QED BY <2>4, <2>5, <2>6, <2>7 DEF Covered, new
<1>5. CASE Send(w)
  <2>1. /\ UNCHANGED <<translator, nodes, next, translations, cacheMisses, translatedCount>>
        /\ pc[w] = "lookup" /\ next[w] > Len(nodes[w])
        /\ pc'[w] = IF cacheMisses[w] # <<>> /\ translator[w].provides THEN "waiting" ELSE "apply"
    BY <1>5 DEF Send, LookupsDone, batch, TypeOK
  <2>2. next[w] = Len(nodes[w]) + 1
    BY <2>1 DEF TypeOK
  <2>3. pc'[w] = "apply" /\ translator[w].provides => translatedCount[w] = Len(cacheMisses[w])
    <3>1. cacheMisses[w] = <<>> => translatedCount[w] = 0 /\ Len(cacheMisses[w]) = 0
      BY DEF TypeOK
    <3> QED BY <2>1, <3>1
  <2> QED BY <2>1, <2>2, <2>3 DEF Covered, Distinct, Seen
<1>6. CASE Answer(w)
  <2>1. /\ UNCHANGED <<translator, nodes, next, translations, cacheMisses, translatedCount>>
        /\ pc[w] = "waiting" /\ pc'[w] = "store"
    BY <1>6 DEF Answer, TypeOK
  <2> QED BY <2>1 DEF Covered, Distinct, Seen
<1>7. CASE StoreDone(w)
  <2>1. /\ UNCHANGED <<translator, nodes, next, translations, cacheMisses, translatedCount>>
        /\ pc[w] = "store" /\ pc'[w] = "apply"
        /\ translatedCount[w] = Len(cacheMisses[w])
    BY <1>7 DEF StoreDone, batch, TypeOK
  <2> QED BY <2>1 DEF Covered, Distinct, Seen
<1>8. CASE StoreResult(w)
  <2> DEFINE i == translatedCount[w] + 1
             text == cacheMisses[w][i].text
  <2>1. /\ i \in 1..Len(cacheMisses[w]) /\ i \in 1..Len(results[w])
        /\ pc[w] = "store" /\ translatedCount[w] \in Nat
        /\ UNCHANGED <<pc, translator, nodes, next, cacheMisses>>
        /\ translatedCount'[w] = i
    BY <1>8 DEF StoreResult, SetInCache, TypeOK
  <2>2. text \in Texts /\ results[w][i] # Absent
    <3>1. cacheMisses[w][i] \in Nodes /\ results[w][i] \in Translations
      BY <2>1 DEF TypeOK
    <3> QED BY <3>1, NodeText, TranslatorAssumption
  <2>3. translations' = [translations EXCEPT ![w][text] = results[w][i]]
    BY <1>8 DEF StoreResult, SetInCache
  <2>4. /\ translations'[w][text] # Absent
        /\ \A t \in Texts : translations[w][t] # Absent => translations'[w][t] # Absent
    <3> HIDE DEF text, i
    <3> QED BY <2>2, <2>3 DEF TypeOK
  <2>5. ASSUME NEW j \in 1..translatedCount'[w]
        PROVE  translations'[w][cacheMisses'[w][j].text] # Absent
    <3>1. CASE j = i
      BY <2>1, <2>4, <3>1
    <3>2. CASE j # i
      <4>1. j \in 1..translatedCount[w] /\ j \in 1..Len(cacheMisses[w])
        BY <2>1, <3>2 DEF TypeOK
      <4>2. cacheMisses[w][j].text \in Texts
        BY <4>1, NodeText DEF TypeOK
      <4> QED BY <2>1, <2>4, <4>1, <4>2 DEF Covered
    <3> QED BY <3>1, <3>2
  <2>6. ASSUME NEW j \in 1..(next'[w] - 1)
        PROVE  translations'[w][nodes'[w][j].text] # Absent \/ Seen(w, nodes[w][j].text)'
    <3>1. j \in 1..Len(nodes[w])
      BY <2>1 DEF TypeOK
    <3>2. nodes[w][j].text \in Texts
      BY <3>1, NodeText DEF TypeOK
    <3> QED BY <2>1, <2>4, <3>2 DEF Covered, Seen
  <2> HIDE DEF i, text
  <2> QED BY <2>1, <2>5, <2>6 DEF Covered, Distinct
<1> QED BY <1>1, <1>2, <1>3, <1>4, <1>5, <1>6, <1>7, <1>8, OwnStep, CoveredFrame DEF Step

Inv == TypeOK /\ Faithful /\ NothingForgotten /\ NoTextTwice

\* The invariant holds at every step, before and after it.
LEMMA InvAlways == Spec => []Inv /\ [][Inv /\ Inv']_vars
<1>1. Init => Inv
  <2>1. Init => NothingForgotten /\ NoTextTwice
    <3> SUFFICES ASSUME Init PROVE NothingForgotten /\ NoTextTwice
      OBVIOUS
    <3>1. \A w \in Workers : Covered(w) /\ Distinct(w)
      BY FreshCovered DEF Init
    <3> QED BY <3>1, CoveredDistinct
  <2>2. Init => Faithful
    <3> SUFFICES ASSUME Init PROVE Faithful
      OBVIOUS
    <3>1. \A t \in Texts, l \in Targets : KeyIsFaithful(t, l)
      BY StoreKeys DEF Init, KeyIsFaithful
    <3>2. \A w \in Workers : AnswersAreFaithful(w) /\ \A t \in Texts : EntryIsFaithful(w, t)
      BY InitTypes, EmptyTables DEF Init
    <3> QED BY <3>1, <3>2, FaithfulParts
  <2> QED BY <2>1, <2>2, InitTypes DEF Inv
<1>2. Inv /\ [Next]_vars => Inv'
  BY TypeStep, FaithfulStep, CoveredStep DEF Inv
<1> QED BY <1>1, <1>2, PTL DEF Spec

(* No translation ever gets under another text or language, in the cache or  *)
(* in the table of a call (translator.go:189-250).                            *)
THEOREM FaithfulAlways == Spec => []Faithful
BY InvAlways, PTL DEF Inv

(* No node of a document is forgotten on its way through the two loops, and  *)
(* no request asks for a text twice (translator.go:196-247).                  *)
THEOREM Coverage == Spec => []EveryTextOnce
<1>1. Inv => EveryTextOnce
  BY DEF Inv, EveryTextOnce
<1> QED BY <1>1, InvAlways, PTL

\* When the document is rewritten, only a missing provider leaves a node open.
LEMMA ApplyCovered ==
    ASSUME TypeOK, NothingForgotten, NEW w \in Workers, pc[w] = "apply",
           NEW i \in DOMAIN nodes[w], translations[w][nodes[w][i].text] = Absent
    PROVE  ~translator[w].provides
<1>1. i \in 1..(next[w] - 1)
  BY DEF NothingForgotten, TypeOK
<1>2. PICK j \in DOMAIN cacheMisses[w] : cacheMisses[w][j].text = nodes[w][i].text
  BY <1>1 DEF NothingForgotten, Seen
<1>3. j \in 1..Len(cacheMisses[w])
  BY DEF TypeOK
<1> QED BY <1>2, <1>3 DEF NothingForgotten

-----------------------------------------------------------------------------
\* What an intact call has in its table is in the cache.
TableIsCached(w) ==
    w \in intact /\ translator[w].caches =>
        \A t \in Texts : translations[w][t] # Absent => store[CacheKey(t, TargetOf(w))] # Absent

\* A call that is still intact was so before, or begins now.
LEMMA IntactStep ==
    ASSUME TypeOK, [Next]_vars, NEW w \in Workers, w \in intact'
    PROVE  \/ w \in intact
           \/ \E tr \in Translators, doc \in Documents : Begin(w, tr, doc)
<1>1. ASSUME NEW v \in Workers, Step(v) \/ RefuseContent(v) PROVE w \in intact
  BY <1>1 DEF Step, RefuseContent, LookupHit, LookupMiss, Send, Answer, ProviderFails, StoreResult,
              SetInCache, StorePanics, StoreDone, Apply, ApplyFails, Return
<1>2. ASSUME NEW v \in Workers, NEW tr \in Translators, NEW doc \in Documents,
             Begin(v, tr, doc) \/ Echo(v, tr, doc)
      PROVE  w \in intact \/ Begin(w, tr, doc)
  BY <1>2 DEF Begin, Echo
<1>3. ASSUME (\E key \in DOMAIN store : Lose(key)) \/ UNCHANGED vars PROVE w \in intact
  BY <1>3 DEF Lose, vars
<1> QED BY <1>1, <1>2, <1>3 DEF Next

\* While one call is intact the cache only fills.
LEMMA StoreFills ==
    ASSUME TypeOK, [Next]_vars, intact' # {}, NEW t \in Texts, NEW l \in Targets,
           store[CacheKey(t, l)] # Absent
    PROVE  store'[CacheKey(t, l)] # Absent
<1>1. CASE store' = store
  BY <1>1
<1>2. ASSUME NEW w \in Workers, StoreResult(w), store' # store
      PROVE  store'[CacheKey(t, l)] # Absent
  <2>1. results[w][translatedCount[w] + 1] \in Translations
    BY <1>2 DEF StoreResult, SetInCache, TypeOK
  <2>2. results[w][translatedCount[w] + 1] # Absent
    BY <2>1, TranslatorAssumption
  <2>3. CacheKey(t, l) \in DOMAIN store
    BY StoreKeys DEF TypeOK
  <2> QED BY <1>2, <2>2, <2>3 DEF StoreResult, SetInCache
<1> QED BY <1>1, <1>2
        DEF Next, Step, Begin, Echo, RefuseContent, LookupHit, LookupMiss, Send, LookupsDone, Answer,
            ProviderFails, StorePanics, StoreDone, Apply, ApplyFails, Lose, vars

\* Every step of every goroutine keeps the table of a call in such a cache.
LEMMA TableStep ==
    ASSUME Inv, [Next]_vars, NEW w \in Workers, TableIsCached(w)
    PROVE  TableIsCached(w)'
<1> SUFFICES ASSUME w \in intact', translator'[w].caches,
                    NEW t \in Texts, translations'[w][t] # Absent
             PROVE  store'[CacheKey(t, translator'[w].target)] # Absent
  BY DEF TableIsCached, CacheKey, TargetOf
<1>t. TypeOK /\ TypeOK'
  BY TypeStep DEF Inv
<1>k. TargetOf(w) \in Targets
  BY <1>t DEF TypeOK, TargetOf, Targets
<1>1. CASE translator'[w] = translator[w] /\ translations[w][t] # Absent
  <2>0. CASE \E tr \in Translators, doc \in Documents : Begin(w, tr, doc)
    BY <1>1, <1>t, <2>0 DEF Begin, TypeOK, Fresh, NoTranslations
  <2>1. CASE w \in intact /\ store[CacheKey(t, TargetOf(w))] # Absent
    BY <1>1, <1>t, <1>k, <2>1, StoreFills DEF TargetOf
  <2>2. w \in intact => store[CacheKey(t, TargetOf(w))] # Absent
    BY <1>1 DEF TableIsCached
  <2> QED BY <1>t, <2>0, <2>1, <2>2, IntactStep
<1>2. CASE \E tr \in Translators, doc \in Documents : Begin(w, tr, doc)
  BY <1>2, <1>t DEF Begin, TypeOK, Fresh, NoTranslations
<1>3. CASE ProviderFails(w) \/ StorePanics(w) \/ Apply(w) \/ ApplyFails(w)
  BY <1>3, <1>t DEF ProviderFails, StorePanics, Apply, ApplyFails, Return, TypeOK, NoTranslations
<1>4. CASE LookupHit(w) /\ translations[w][t] = Absent
  <2> DEFINE node == nodes[w][next[w]]
  <2>1. /\ UNCHANGED <<store, translator>>
        /\ store[CacheKey(node.text, TargetOf(w))] # Absent
        /\ translations' = [translations EXCEPT ![w][node.text] = store[CacheKey(node.text, TargetOf(w))]]
    BY <1>4 DEF LookupHit
  <2>2. t = node.text
    <3> HIDE DEF node
    <3> QED BY <1>4, <1>t, <2>1 DEF TypeOK
  <2> QED BY <2>1, <2>2 DEF TargetOf
<1>5. CASE StoreResult(w) /\ translations[w][t] = Absent
  <2> DEFINE text == cacheMisses[w][translatedCount[w] + 1].text
             x == results[w][translatedCount[w] + 1]
  <2>1. /\ translator' = translator
        /\ translations' = [translations EXCEPT ![w][text] = x]
        /\ store' = [store EXCEPT ![CacheKey(text, TargetOf(w))] = x]
    BY <1>5 DEF StoreResult, SetInCache
  <2>2. x \in Translations
    BY <1>5, <1>t DEF StoreResult, SetInCache, TypeOK
  <2>3. x # Absent
    BY <2>2, TranslatorAssumption
  <2> HIDE DEF text, x
  <2>4. t = text
    BY <1>5, <1>t, <2>1 DEF TypeOK
  <2>5. CacheKey(t, TargetOf(w)) \in DOMAIN store
    BY <1>t, <1>k, StoreKeys DEF TypeOK
  <2> QED BY <2>1, <2>3, <2>4, <2>5 DEF TargetOf
<1>6. CASE LookupMiss(w) \/ Send(w) \/ Answer(w) \/ StoreDone(w)
  <2>1. UNCHANGED <<translations, translator>>
    BY <1>6 DEF LookupMiss, Send, LookupsDone, Answer, StoreDone, batch
  <2> QED BY <1>1, <2>1
<1>7. CASE (LookupHit(w) \/ StoreResult(w)) /\ translations[w][t] # Absent
  BY <1>1, <1>7 DEF LookupHit, StoreResult, SetInCache
<1> QED BY <1>1, <1>2, <1>3, <1>4, <1>5, <1>6, <1>7, <1>t, OwnStep DEF Step

(* A call returns its document only after every text of it is in the cache, if *)
(* the cache lost nothing since and took the call's Sets (translator.go:239-246). *)
THEOREM BatchesAreCached == Spec => []BatchIsCached
<1> DEFINE Tables == \A w \in Workers : TableIsCached(w)
<1>1. Init => Tables
  BY DEF Init, TableIsCached, NoTranslations
<1>2. Tables /\ Inv /\ [Next]_vars => Tables'
  BY TableStep
<1>3. Tables /\ Inv => BatchIsCached
  <2> SUFFICES ASSUME Tables, Inv, NEW w \in Workers,
                      w \in intact, pc[w] = "apply", translator[w].caches, translator[w].provides,
                      NEW i \in DOMAIN nodes[w]
               PROVE  store[CacheKey(nodes[w][i].text, TargetOf(w))] # Absent
    BY DEF BatchIsCached, Inv, TypeOK
  <2>1. translations[w][nodes[w][i].text] # Absent
    BY ApplyCovered DEF Inv
  <2>2. nodes[w][i] \in Nodes
    BY DEF Inv, TypeOK
  <2>3. nodes[w][i].text \in Texts
    BY <2>2, NodeText
  <2> QED BY <2>1, <2>3 DEF TableIsCached
<1> HIDE DEF Tables
<1> QED BY InvAlways, <1>1, <1>2, <1>3, PTL DEF Spec

-----------------------------------------------------------------------------
\* The texts the cache loop has come past, and what its two counts say of them:
\* every node is counted once at most, and every text once at least.
Passed(w) == {nodes[w][i].text : i \in 1..(next[w] - 1)}

Counted(w) ==
    /\ \A i \in DOMAIN cacheMisses[w] : cacheMisses[w][i].text \in Passed(w)
    /\ cachedCount[w] + Len(cacheMisses[w]) <= next[w] - 1
    /\ IsFiniteSet(Passed(w))
    /\ Cardinality(Passed(w)) <= cachedCount[w] + Len(cacheMisses[w])

LEMMA FreshCounted ==
    ASSUME NEW w \in Workers, next[w] = 1, cacheMisses[w] = <<>>, cachedCount[w] = 0
    PROVE  Counted(w)
<1>1. Passed(w) = {}
  BY DEF Passed
<1> QED BY <1>1, FS_EmptySet DEF Counted

\* The loop comes past one more node.
LEMMA OneMorePassed ==
    ASSUME TypeOK, NEW w \in Workers, Counted(w), next[w] <= Len(nodes[w]),
           nodes'[w] = nodes[w], next'[w] = next[w] + 1
    PROVE  LET text == nodes[w][next[w]].text
           IN  /\ Passed(w)' = Passed(w) \cup {text}
               /\ IsFiniteSet(Passed(w)')
               /\ Cardinality(Passed(w)) \in Nat
               /\ Cardinality(Passed(w)') =
                     IF text \in Passed(w) THEN Cardinality(Passed(w))
                     ELSE Cardinality(Passed(w)) + 1
<1> DEFINE text == nodes[w][next[w]].text
<1>1. next[w] \in Nat \ {0} /\ 1..(next'[w] - 1) = (1..(next[w] - 1)) \cup {next[w]}
  BY DEF TypeOK
<1>2. Passed(w)' = Passed(w) \cup {text}
  BY <1>1 DEF Passed
<1>3. IsFiniteSet(Passed(w))
  BY DEF Counted
<1> HIDE DEF text
<1>4. /\ IsFiniteSet(Passed(w) \cup {text})
      /\ Cardinality(Passed(w) \cup {text}) =
            IF text \in Passed(w) THEN Cardinality(Passed(w)) ELSE Cardinality(Passed(w)) + 1
      /\ Cardinality(Passed(w)) \in Nat
  BY <1>3, FS_AddElement, FS_CardinalityType
<1> QED BY <1>2, <1>4 DEF text

(* The counts of one call follow the nodes it passes (translator.go:196-215),   *)
(* whatever other goroutines do to the cache between two lookups.               *)
LEMMA CountedStep ==
    ASSUME TypeOK, [Next]_vars, NEW w \in Workers, Counted(w)
    PROVE  Counted(w)'
<1>1. CASE \/ \E tr \in Translators, doc \in Documents : Begin(w, tr, doc)
           \/ ProviderFails(w) \/ StorePanics(w) \/ Apply(w) \/ ApplyFails(w)
  <2>1. next'[w] = 1 /\ cacheMisses'[w] = <<>> /\ cachedCount'[w] = 0
    BY <1>1 DEF Begin, ProviderFails, StorePanics, Apply, ApplyFails, Return, TypeOK, Fresh
  <2>2. Passed(w)' = {}
    BY <2>1 DEF Passed
  <2> QED BY <2>1, <2>2, FS_EmptySet DEF Counted
<1>2. CASE LookupHit(w)
  <2>1. /\ next[w] <= Len(nodes[w]) /\ UNCHANGED <<nodes, cacheMisses>>
        /\ next'[w] = next[w] + 1 /\ cachedCount'[w] = cachedCount[w] + 1
        /\ next[w] \in Nat /\ cachedCount[w] \in Nat /\ Len(cacheMisses[w]) \in Nat
    BY <1>2 DEF LookupHit, TypeOK
  <2>2. /\ Passed(w) \subseteq Passed(w)' /\ IsFiniteSet(Passed(w)')
        /\ Cardinality(Passed(w)') \in Nat
        /\ Cardinality(Passed(w)') <= Cardinality(Passed(w)) + 1
        /\ Cardinality(Passed(w)) \in Nat
    BY <2>1, OneMorePassed
  <2>3. Cardinality(Passed(w)') <= cachedCount'[w] + Len(cacheMisses'[w])
    BY <2>1, <2>2 DEF Counted
  <2> QED BY <2>1, <2>2, <2>3 DEF Counted
<1>3. CASE LookupMiss(w)
  <2> DEFINE node == nodes[w][next[w]]
             old == cacheMisses[w]
             new == cacheMisses'[w]
  <2>1. /\ next[w] <= Len(nodes[w]) /\ UNCHANGED <<nodes, cachedCount>>
        /\ next'[w] = next[w] + 1
        /\ next[w] \in Nat /\ cachedCount[w] \in Nat
        /\ old \in Seq(Nodes) /\ Len(old) \in Nat
        /\ new = IF Seen(w, node.text) THEN old ELSE Append(old, node)
    BY <1>3 DEF LookupMiss, TypeOK
  <2>2. /\ Passed(w)' = Passed(w) \cup {node.text} /\ IsFiniteSet(Passed(w)')
        /\ Cardinality(Passed(w)) \in Nat
        /\ Cardinality(Passed(w)') =
              IF node.text \in Passed(w) THEN Cardinality(Passed(w))
              ELSE Cardinality(Passed(w)) + 1
    BY <2>1, OneMorePassed
  <2>3. CASE Seen(w, node.text)
    <3>1. node.text \in Passed(w) /\ new = old
      BY <2>1, <2>3 DEF Counted, Seen
    <3>2. Passed(w)' = Passed(w) /\ Cardinality(Passed(w)') = Cardinality(Passed(w))
      BY <2>2, <3>1
    <3>3. /\ \A i \in DOMAIN old : old[i].text \in Passed(w)
          /\ cachedCount[w] + Len(old) <= next[w] - 1
          /\ Cardinality(Passed(w)) <= cachedCount[w] + Len(old)
      BY DEF Counted
    <3>4. cachedCount[w] + Len(old) <= next'[w] - 1
      BY <2>1, <3>3
    <3>5. cacheMisses'[w] = old
      BY <3>1
    <3> HIDE DEF old, new
    <3> QED BY <2>1, <2>2, <3>2, <3>3, <3>4, <3>5 DEF Counted
  <2>4. CASE ~Seen(w, node.text)
    <3>1. new = Append(old, node)
      BY <2>1, <2>4
    <3> HIDE DEF node
    <3>2. /\ Len(new) = Len(old) + 1
          /\ \A i \in DOMAIN new : new[i] = node \/ \E j \in DOMAIN old : new[i] = old[j]
      BY <2>1, <3>1
    <3> HIDE DEF new
    <3>3. \A i \in DOMAIN new : new[i].text \in Passed(w)'
      BY <2>2, <3>2 DEF Counted
    <3>4. Cardinality(Passed(w)') <= cachedCount[w] + Len(new)
      BY <2>1, <2>2, <3>2 DEF Counted
    <3>5. cachedCount[w] + Len(new) <= next'[w] - 1
      BY <2>1, <3>2 DEF Counted
    <3> QED BY <2>1, <2>2, <3>3, <3>4, <3>5 DEF Counted, new
  <2> QED BY <2>3, <2>4
<1>4. CASE UNCHANGED <<nodes[w], next[w], cacheMisses[w], cachedCount[w]>>
  BY <1>4 DEF Counted, Passed
<1> QED BY <1>1, <1>2, <1>3, <1>4, OwnStep DEF Step, Send, Answer, StoreResult, StoreDone, batch

(* The counts a call reports (translator.go:175-180) name no node twice and,    *)
(* with a provider, every distinct text, however long the document is and       *)
(* whatever the cache gains or loses during the loop.                           *)
THEOREM CountsAlwaysAddUp == Spec => []CountsAddUp
<1> DEFINE Counts == \A w \in Workers : Counted(w)
<1>1. Init => Counts
  BY FreshCounted DEF Init
<1>2. Counts /\ Inv /\ [Next]_vars => Counts'
  BY CountedStep DEF Inv
<1>3. Counts /\ Inv => CountsAddUp
  <2> SUFFICES ASSUME Counts, Inv, NEW w \in Workers, pc[w] = "apply"
               PROVE  LET counted == cachedCount[w] + translatedCount[w]
                      IN  /\ counted <= Len(nodes[w])
                          /\ translator[w].provides =>
                                Cardinality({nodes[w][i].text : i \in DOMAIN nodes[w]})
                                  <= counted
    BY DEF CountsAddUp
  <2>1. /\ next[w] = Len(nodes[w]) + 1 /\ Counted(w)
        /\ translator[w].provides => translatedCount[w] = Len(cacheMisses[w])
    BY CoveredDistinct DEF Inv, Covered
  <2>2. /\ cachedCount[w] \in Nat /\ translatedCount[w] \in Nat /\ Len(cacheMisses[w]) \in Nat
        /\ translatedCount[w] <= Len(cacheMisses[w]) /\ Len(nodes[w]) \in Nat
        /\ DOMAIN nodes[w] = 1..Len(nodes[w])
    BY DEF Inv, TypeOK
  <2>3. Passed(w) = {nodes[w][i].text : i \in DOMAIN nodes[w]}
    BY <2>1, <2>2 DEF Passed
  <2> QED BY <2>1, <2>2, <2>3 DEF Counted
<1> HIDE DEF Counts
<1> QED BY InvAlways, <1>1, <1>2, <1>3, PTL DEF Spec

-----------------------------------------------------------------------------
\* The refinement mapping of Translator, by name.
CallBar == [w \in Workers |-> CallOf(w)]

\* A call moves: so does its image, and no other.
LEMMA CallBarStep ==
    ASSUME TypeOK, [Next]_vars, NEW w \in Workers, NEW c,
           CallOf(w)' = c,
           \A v \in Workers : v # w =>
               UNCHANGED <<pc[v], translator[v], nodes[v], outcome[v]>>
    PROVE  CallBar' = [CallBar EXCEPT ![w] = c]
<1>1. \A v \in Workers : v # w => CallOf(v)' = CallOf(v)
  BY DEF CallOf
<1>2. CallBar' = [v \in Workers |-> IF v = w THEN c ELSE CallOf(v)]
  BY <1>1 DEF CallBar
<1> QED BY <1>2 DEF CallBar

\* Returning moves one call only.
LEMMA ReturnMoves ==
    ASSUME TypeOK, NEW w \in Workers, NEW r, Return(w, r)
    PROVE  /\ pc'[w] = "idle" /\ outcome'[w] = r
           /\ \A v \in Workers : v # w =>
                 UNCHANGED <<pc[v], translator[v], nodes[v], outcome[v]>>
BY DEF Return, TypeOK

\* A call between two calls is not busy.
LEMMA IdleIsFree ==
    ASSUME NEW w \in Workers, pc[w] = "idle"
    PROVE  CallBar[w].at # "busy"
<1>1. CASE outcome[w].is = "nothing"
  BY <1>1 DEF CallBar, CallOf
<1>2. CASE outcome[w].is = "echoed"
  BY <1>2 DEF CallBar, CallOf
<1>3. CASE outcome[w].is = "delivered"
  BY <1>3 DEF CallBar, CallOf
<1>4. CASE outcome[w].is \notin {"nothing", "echoed", "delivered"}
  BY <1>4 DEF CallBar, CallOf
<1> QED BY <1>1, <1>2, <1>3, <1>4

(* Every step of a translator is a step of the service it promises, or one   *)
(* its caller cannot see.                                                     *)
THEOREM StepRefines == Inv /\ [Next]_vars => [Service!Next]_CallBar
<1> SUFFICES ASSUME Inv, [Next]_vars PROVE [Service!Next]_CallBar
  OBVIOUS
<1>t. TypeOK /\ TypeOK'
  BY TypeStep DEF Inv
<1>1. ASSUME NEW w \in Workers, NEW tr \in Translators, NEW doc \in Documents, Begin(w, tr, doc)
      PROVE  Service!Next
  <2>1. CallOf(w)' = Service!Busy(tr, doc)
    BY <1>1, <1>t DEF Begin, CallOf, Service!Busy, TypeOK
  <2>2. CallBar' = [CallBar EXCEPT ![w] = Service!Busy(tr, doc)]
    BY <1>1, <1>t, <2>1, CallBarStep DEF Begin, TypeOK
  <2>3. Service!Submit(w, tr, doc)
    BY <1>1, <2>2, IdleIsFree DEF Service!Submit, Begin, CallBar
  <2> QED BY <2>3 DEF Service!Next
<1>2. ASSUME NEW w \in Workers, NEW tr \in Translators, NEW doc \in Documents, Echo(w, tr, doc)
      PROVE  Service!Next
  <2>1. CallOf(w)' = Service!Echoed
    BY <1>2, <1>t DEF Echo, Echoed, CallOf, Service!Echoed, TypeOK
  <2>2. CallBar' = [CallBar EXCEPT ![w] = Service!Echoed]
    BY <1>2, <1>t, <2>1, CallBarStep DEF Echo, batch, TypeOK
  <2>3. Service!Echo(w)
    BY <1>2, <2>2, IdleIsFree DEF Service!Echo, Echo, CallBar
  <2> QED BY <2>3 DEF Service!Next
<1>3. ASSUME NEW w \in Workers, RefuseContent(w)
      PROVE  Service!Next
  <2>1. CallOf(w)' = Service!Failed
    BY <1>3, <1>t DEF RefuseContent, Failed, CallOf, Service!Failed, TypeOK
  <2>2. CallBar' = [CallBar EXCEPT ![w] = Service!Failed]
    BY <1>3, <1>t, <2>1, CallBarStep DEF RefuseContent, batch, TypeOK
  <2>3. Service!Fail(w)
    BY <2>2 DEF Service!Fail, CallBar
  <2> QED BY <2>3 DEF Service!Next
<1>4. ASSUME NEW w \in Workers, ProviderFails(w) \/ StorePanics(w) \/ ApplyFails(w)
      PROVE  Service!Next
  <2>1. Return(w, Failed) \/ Return(w, Panicked)
    BY <1>4 DEF ProviderFails, StorePanics, ApplyFails
  <2>2. CallOf(w)' = Service!Failed
    BY <1>t, <2>1, ReturnMoves DEF CallOf, Failed, Panicked, Service!Failed
  <2>3. CallBar' = [CallBar EXCEPT ![w] = Service!Failed]
    BY <1>t, <2>1, <2>2, ReturnMoves, CallBarStep
  <2>4. Service!Fail(w)
    BY <2>3 DEF Service!Fail, CallBar
  <2> QED BY <2>4 DEF Service!Next
<1>5. ASSUME NEW w \in Workers, Apply(w) PROVE Service!Next
  <2> DEFINE doc == nodes[w]
             tr == translator[w]
             content == Content(w)
  <2>1. pc[w] = "apply" /\ Return(w, Delivered(content, cachedCount[w], translatedCount[w]))
    BY <1>5 DEF Apply
  <2>2. CallBar[w] = Service!Busy(tr, doc)
    BY <2>1 DEF CallBar, CallOf, Service!Busy
  <2>3. CallOf(w)' = Service!Delivered(content)
    BY <1>t, <2>1, ReturnMoves DEF CallOf, Delivered, Service!Delivered
  <2>4. CallBar' = [CallBar EXCEPT ![w] = Service!Delivered(content)]
    BY <1>t, <2>1, <2>3, ReturnMoves, CallBarStep
  <2>5. ASSUME NEW i \in DOMAIN doc
        PROVE  /\ content[i] \in Service!InTarget(tr) \cup {Absent}
               /\ IF content[i] = Absent THEN ~tr.provides ELSE content[i].text = doc[i].text
    <3>1. doc[i] \in Nodes
      BY <1>t DEF TypeOK
    <3>2. doc[i].text \in Texts
      BY <3>1, NodeText
    <3>3. content[i] = translations[w][doc[i].text]
      BY DEF Content
    <3>4. content[i] \in Translations \cup {Absent}
      BY <1>t, <3>2, <3>3 DEF TypeOK
    <3>5. content[i] # Absent => IsFor(content[i], doc[i].text, tr.target)
      BY <3>2, <3>3 DEF Inv, Faithful, TargetOf
    <3>6. content[i] = Absent => ~tr.provides
      BY <2>1, <3>3, ApplyCovered DEF Inv
    <3> HIDE DEF content
    <3> QED BY <3>4, <3>5, <3>6 DEF IsFor, Service!InTarget
  <2>6. content \in [DOMAIN doc -> Service!InTarget(tr) \cup {Absent}]
    BY <2>5 DEF Content
  <2>7. CallBar[w].at = "busy" /\ CallBar[w].doc = doc /\ CallBar[w].tr = tr
    BY <2>2 DEF Service!Busy
  <2> HIDE DEF doc, tr, content
  <2>8. \E c \in [DOMAIN CallBar[w].doc -> Service!InTarget(CallBar[w].tr) \cup {Absent}] :
           /\ \A i \in DOMAIN CallBar[w].doc :
                 IF c[i] = Absent THEN ~CallBar[w].tr.provides
                 ELSE c[i].text = CallBar[w].doc[i].text
           /\ CallBar' = [CallBar EXCEPT ![w] = Service!Delivered(c)]
    BY <2>4, <2>5, <2>6, <2>7
  <2>9. Service!Deliver(w)
    BY <2>7, <2>8 DEF Service!Deliver, CallBar
  <2> QED BY <2>9 DEF Service!Next
<1>6. ASSUME NEW w \in Workers,
             \/ LookupHit(w) \/ LookupMiss(w) \/ Send(w) \/ Answer(w) \/ StoreResult(w)
             \/ StoreDone(w)
      PROVE  UNCHANGED CallBar
  <2>1. /\ pc[w] # "idle" /\ pc'[w] # "idle"
        /\ \A v \in Workers : v # w => pc'[v] = pc[v]
        /\ UNCHANGED <<translator, nodes, outcome>>
    BY <1>6, <1>t DEF LookupHit, LookupMiss, Send, LookupsDone, Answer, StoreResult, SetInCache, StoreDone, batch, TypeOK
  <2>2. \A v \in Workers : CallOf(v)' = CallOf(v)
    BY <2>1 DEF CallOf
  <2> QED BY <2>2 DEF CallBar
<1>7. ASSUME (\E key \in DOMAIN store : Lose(key)) \/ UNCHANGED vars PROVE UNCHANGED CallBar
  <2>1. UNCHANGED <<pc, translator, nodes, outcome>>
    BY <1>7 DEF Lose, vars, batch
  <2> QED BY <2>1 DEF CallBar, CallOf
<1> QED BY <1>1, <1>2, <1>3, <1>4, <1>5, <1>6, <1>7 DEF Next, Step

(* Translator implements TranslationService: cache, batch and concurrency do  *)
(* not show in what a call returns, except in the settings it was made with.  *)
THEOREM Implements == Spec => ImplementsService
<1>1. Init => Service!Init
  BY DEF Init, Service!Init, Service!Idle, CallOf, Nothing
<1>2. Inv /\ [Next]_vars => [Service!Next]_CallBar
  BY StepRefines
<1> QED BY InvAlways, <1>1, <1>2, PTL DEF Spec, ImplementsService, Service!Spec, CallBar
=============================================================================
