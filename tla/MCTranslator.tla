------------------------------ MODULE MCTranslator ------------------------------
(* Translator with small sets for TLC. *)
EXTENDS Translator, TLC

CONSTANTS w1, w2, a, b, formal, casual, menu

N(text)      == [text |-> text, context |-> menu]
Tr(target, settings, caches, provides) ==
    [source |-> "en", target |-> target, settings |-> settings,
     caches |-> caches, provides |-> provides]

MCWorkers == {w1, w2}
MCBase    == "de" :> "de" @@ "fr" :> "fr" @@ "en" :> "en" @@ "en_GB" :> "en"

\* A repeated text and another one, and a document without text.
MCDocuments == {<<N(a), N(a), N(b)>>, <<>>}

\* Two languages; nobody to ask; no cache; English itself, which is not translated.
MCTranslators == {Tr("de", formal, TRUE, TRUE), Tr("fr", formal, TRUE, TRUE),
                  Tr("fr", formal, TRUE, FALSE), Tr("de", formal, FALSE, TRUE),
                  Tr("en_GB", formal, TRUE, TRUE)}

MCStyles == {Tr("de", formal, TRUE, TRUE), Tr("de", casual, TRUE, TRUE)}
MCSymmetry == Permutations({w1, w2})
=============================================================================
