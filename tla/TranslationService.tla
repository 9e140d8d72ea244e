-------------------------- MODULE TranslationService --------------------------
(***************************************************************************)
(* What Translator.Process (src/translator.go) promises to the goroutines  *)
(* that call it, whatever caches and providers stand behind it: a call     *)
(* gives the content back as it was, or fails, or delivers it with every    *)
(* node replaced by a translation of that node's text into the translator's *)
(* target language.                                                        *)
(***************************************************************************)
EXTENDS Naturals, Sequences

CONSTANTS
    Workers,        \* goroutines that call Process
    Translators,    \* [source, target, settings, caches, provides]
    Documents,      \* what a processor extracts: sequences of [text, context]
    Translations,   \* [text, context, target, source, settings]
    Absent          \* "left as it was", not one of Translations

VARIABLE call       \* per worker: its call and the outcome

Idle          == [at |-> "idle"]
Busy(tr, doc) == [at |-> "busy", tr |-> tr, doc |-> doc]
Echoed        == [at |-> "echoed"]
Failed        == [at |-> "failed"]
Delivered(c)  == [at |-> "delivered", content |-> c]

\* Everything that is a translation into the translator's target language.
InTarget(tr) == {x \in Translations : x.target = tr.target}

Init == call = [w \in Workers |-> Idle]

Submit(w, tr, doc) ==
    /\ call[w].at # "busy"
    /\ call' = [call EXCEPT ![w] = Busy(tr, doc)]

\* Nothing to do: the content goes back unchanged.
Echo(w) ==
    /\ call[w].at # "busy"
    /\ call' = [call EXCEPT ![w] = Echoed]

Fail(w) == call' = [call EXCEPT ![w] = Failed]

\* Without a provider, what no cache knows stays as it was.
Deliver(w) ==
    LET doc == call[w].doc
        tr  == call[w].tr
    IN  /\ call[w].at = "busy"
        /\ \E content \in [DOMAIN doc -> InTarget(tr) \cup {Absent}] :
              /\ \A i \in DOMAIN doc : IF content[i] = Absent THEN ~tr.provides
                                       ELSE content[i].text = doc[i].text
              /\ call' = [call EXCEPT ![w] = Delivered(content)]

Next ==
    \E w \in Workers :
        \/ \E tr \in Translators, doc \in Documents : Submit(w, tr, doc)
        \/ Echo(w)
        \/ Fail(w)
        \/ Deliver(w)

Spec == Init /\ [][Next]_call
=============================================================================
