--------------------------- MODULE ContentProcessor ---------------------------
(***************************************************************************)
(* What the processors have in common: a ContentProcessor (translator.go:47)  *)
(* is called to Extract the texts of a content and, once a translator has     *)
(* made a table of translations, to Apply them.  Each of the calls walks over *)
(* the parsed content.                                                        *)
(***************************************************************************)
EXTENDS Naturals, Sequences, SequencesExt

CONSTANT Translations   \* what a translator makes of a text: sequences of characters

VARIABLES
    source,     \* history: the content as it came
    pc,         \* "extract", "translate", "apply" or "done"
    pending,    \* what the walk still has to visit, in order
    nodes,      \* the extracted nodes; a hash stands for its text
    table       \* text -> translation

\* strings.Trim: the text without the characters of a set around it.
Trim(s, cutset) ==
    LET kept == {i \in DOMAIN s : s[i] \notin cutset}
    IN  IF kept = {} THEN <<>> ELSE SubSeq(s, Min(kept), Max(kept))
=============================================================================
