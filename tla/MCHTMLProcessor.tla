--------------------------- MODULE MCHTMLProcessor ---------------------------
(* HTMLProcessor on small documents. *)
EXTENDS HTMLProcessor

E(parent, skipped) == [parent |-> parent, kind |-> "element", skipped |-> skipped, data |-> <<>>]
T(parent, data) == [parent |-> parent, kind |-> "text", skipped |-> FALSE, data |-> data]

\* Texts with and without white space around them, and white space alone.
MCData == {<<"x">>, <<" ", "x">>, <<"y", " ">>, <<" ">>}

\* A text, an element with two texts and one element in it, and a text after it.
Document(d, s, r) == <<T(0, d[1]), E(0, s), T(2, d[2]), E(2, r), T(4, d[3]), T(0, d[4])>>

\* No element, the outer or the inner one is skipped; a text with a blank inside, and
\* no-break spaces.
MCDocuments ==
    {Document(d, skips[1], skips[2]) :
        d \in [1..4 -> MCData], skips \in {<<FALSE, FALSE>>, <<TRUE, FALSE>>, <<FALSE, TRUE>>}}
    \cup {Document(<< <<" ", "x", " ", "y">>, <<"x">>, <<" ", "y">>, <<"x">> >>, FALSE, FALSE),
          Document(<< <<" ", "nbsp", "x">>, <<"x", "nbsp", " ">>, <<"nbsp">>, <<"y">> >>, FALSE, FALSE)}

\* A text may be translated into another one of the document, or into one with blanks.
MCTranslations == {<<"y">>, <<"x">>, <<" ", "z">>}
=============================================================================
