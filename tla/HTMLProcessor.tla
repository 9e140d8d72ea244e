----------------------------- MODULE HTMLProcessor -----------------------------
(***************************************************************************)
(* processor.HTMLProcessor (src/processor/html.go): a walk over the document *)
(* collects the texts to translate, each once; a second walk over the same   *)
(* tree replaces every text that the translator returned a translation for.  *)
(* A text is told by what is left of it without the white space around it,   *)
(* and that white space is put back around the translation.                  *)
(* The tree is a sequence of nodes in document order, each with the index of *)
(* its parent; parsing and serialising are the library's.                    *)
(***************************************************************************)
EXTENDS ContentProcessor, FiniteSets, OrderedSets

CONSTANTS
    Documents,      \* sequences of nodes
    ASCIISpace,     \* characters: blank, tab, line feed, carriage return
    OtherSpace,     \* what else unicode.IsSpace accepts, as a no-break space
    Letters,        \* all other characters
    Absent          \* "not in the table"

Text == Seq(ASCIISpace \cup OtherSpace \cup Letters)

\* skipped: an ignored tag, or an element with data-no-translate.
Node == [parent : Nat, kind : {"element", "text"}, skipped : BOOLEAN, data : Text]

ASSUME HTMLAssumption ==
    /\ \A doc \in Documents :
          /\ doc \in Seq(Node)
          /\ \A i \in DOMAIN doc : /\ doc[i].parent < i
                                   /\ doc[i].kind = "text" => ~doc[i].skipped
                                   /\ \A j \in DOMAIN doc :
                                         doc[j].parent = i => doc[i].kind = "element"
          /\ \A i, j, k \in DOMAIN doc : i < j /\ j < k /\ doc[k].parent = i => doc[j].parent >= i
    /\ Translations \subseteq Text
    /\ Absent \notin Translations

VARIABLE doc    \* the parsed tree, rewritten in place

\* A node is [id, text, place]; the table has a text for each, or Absent.
vars == <<source, doc, pc, pending, nodes, table>>

\* strings.TrimSpace; the hash of a text stands for the trimmed text.
TrimSpace(s) == Trim(s, ASCIISpace \cup OtherSpace)

\* How many characters of the set stand before the first other one.
Leading(s, space) ==
    Cardinality({i \in DOMAIN s : \A j \in 1..i : s[j] \in space})

Lead(s, space) == SubSeq(s, 1, Leading(s, space))
Trail(s, space) == SubSeq(s, Len(s) - Leading(Reverse(s), space) + 1, Len(s))

\* preserveWhitespace
KeepingLead(original, translated) == Lead(original, ASCIISpace) \o translated
PreserveWhitespace(original, translated) ==
    Lead(original, ASCIISpace) \o translated \o Trail(original, ASCIISpace)

Children(n) == InOrder({i \in DOMAIN doc : doc[i].parent = n})

Init ==
    /\ source \in Documents
    /\ doc = source
    /\ pc = "extract"
    /\ pending = Children(0)
    /\ nodes = <<>>
    /\ table = <<>>

-----------------------------------------------------------------------------
Here == Head(pending)
Hash == TrimSpace(doc[Here].data)

\* The walk: the node's children come before its siblings, unless it is skipped.
WalkEverywhere == pending' = Children(Here) \o Tail(pending)
Walk ==
    pending' = (IF doc[Here].skipped THEN <<>> ELSE Children(Here)) \o Tail(pending)

IsText == doc[Here].kind = "text" /\ Hash # <<>>

Seen == \E k \in DOMAIN nodes : nodes[k].text = Hash

NewNode == [id |-> Len(nodes), text |-> Hash, place |-> Here]

\* Extract, one turn of the walk.
Extract ==
    /\ pc = "extract"
    /\ pending # <<>>
    /\ nodes' = IF IsText /\ ~Seen THEN Append(nodes, NewNode) ELSE nodes
    /\ Walk
    /\ UNCHANGED <<source, doc, pc, table>>

Extracted ==
    /\ pc = "extract"
    /\ pending = <<>>
    /\ pc' = "translate"
    /\ UNCHANGED <<source, doc, pending, nodes, table>>

\* The translator calls Apply with what it has for the extracted texts.
Translate ==
    /\ pc = "translate"
    /\ table' \in [{nodes[k].text : k \in DOMAIN nodes} -> Translations \cup {Absent}]
    /\ pending' = Children(0)
    /\ pc' = "apply"
    /\ UNCHANGED <<source, doc, nodes>>

TranslatedFirst ==
    \E k \in DOMAIN nodes : nodes[k].place = Here /\ table[nodes[k].text] # Absent
Translated == IsText /\ Hash \in DOMAIN table /\ table[Hash] # Absent

\* Apply, one turn of the walk.
Apply ==
    /\ pc = "apply"
    /\ pending # <<>>
    /\ \/ /\ Translated
          /\ doc' = [doc EXCEPT ![Here].data = PreserveWhitespace(@, table[Hash])]
       \/ ~Translated /\ UNCHANGED doc
    /\ Walk
    /\ UNCHANGED <<source, pc, nodes, table>>

Applied ==
    /\ pc = "apply"
    /\ pending = <<>>
    /\ pc' = "done"
    /\ UNCHANGED <<source, doc, pending, nodes, table>>

Next == Extract \/ Extracted \/ Translate \/ Apply \/ Applied

Spec == Init /\ [][Next]_vars

-----------------------------------------------------------------------------
\* The nodes that are not skipped and lie below no skipped element: no larger set has
\* with each node its parent and holds no skipped one.
Visible == UNION {open \in SUBSET DOMAIN source :
                    \A i \in open : ~source[i].skipped /\ source[i].parent \in open \cup {0}}

\* Where the document has text to translate, and that text.
Places == {i \in DOMAIN source : /\ source[i].kind = "text"
                                 /\ i \in Visible
                                 /\ TrimSpace(source[i].data) # <<>>}
TextAt(i) == TrimSpace(source[i].data)

(* Extract (html.go:42-127) returns every text outside the skipped elements, each  *)
(* once, under consecutive ids, from the first of its places and in the order of   *)
(* these: what is sent to the provider and what Diff compares by id.               *)
NodesAreTheTexts ==
    pc # "extract" =>
        /\ {nodes[k].text : k \in DOMAIN nodes} = {TextAt(i) : i \in Places}
        /\ \A k \in DOMAIN nodes :
              /\ nodes[k].id = k - 1
              /\ nodes[k].place \in Places
              /\ \A i \in Places : TextAt(i) = nodes[k].text => nodes[k].place <= i
              /\ \A m \in DOMAIN nodes : m < k => nodes[m].place < nodes[k].place

(* Apply (html.go:130-194) finds the places again by their texts, in a tree that   *)
(* it changes as it goes: each occurrence gets the translation of its own text,    *)
(* once, even if that translation is the text of another place, and nothing else   *)
(* of the document changes.                                                       *)
EveryOccurrenceIsReplaced ==
    pc = "done" => \A i \in DOMAIN source :
        IF i \in Places /\ table[TextAt(i)] # Absent
        THEN /\ TrimSpace(doc[i].data) = TrimSpace(table[TextAt(i)])
             /\ [doc[i] EXCEPT !.data = <<>>] = [source[i] EXCEPT !.data = <<>>]
        ELSE doc[i] = source[i]

(* A place keeps the white space around its text (html.go:272), so that            *)
(* neighbouring words do not run into one another: the blanks, tabs and line ends  *)
(* at either end.  Any other space there, as a no-break space, is trimmed with the *)
(* text and not put back, and it ends what is kept: see README.                    *)
WhitespaceIsKept ==
    pc = "done" => \A i \in Places :
        /\ IsPrefix(Lead(source[i].data, ASCIISpace), doc[i].data)
        /\ IsSuffix(Trail(source[i].data, ASCIISpace), doc[i].data)
=============================================================================
