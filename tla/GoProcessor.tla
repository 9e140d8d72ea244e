------------------------------ MODULE GoProcessor ------------------------------
(***************************************************************************)
(* processor.GoProcessor (src/processor/go.go): Extract visits the comments  *)
(* of a Go file and then its string literals and collects each text once;    *)
(* Apply writes translations to the places the collected texts were found    *)
(* at.  A file is the sequence of its comments and string literals, each     *)
(* with what it spells between its markers; the index is its token.Pos.      *)
(* Parsing and printing are the library's.                                   *)
(***************************************************************************)
EXTENDS ContentProcessor, FiniteSets, OrderedSets

CONSTANTS
    Files,          \* sequences of [kind, body]
    Lower, Upper    \* letters

Comments == {"line", "block"}
Strings == {"quoted", "raw"}

ASSUME GoAssumption ==
    /\ \A f \in Files :
           /\ Len(f) \in Nat /\ DOMAIN f = 1..Len(f)
           /\ \A p \in DOMAIN f : DOMAIN f[p] = {"kind", "body"} /\ f[p].kind \in Comments \cup Strings
    /\ \A t \in Translations : t \in Seq(Range(t))

VARIABLES
    enabled,    \* the kinds to translate: translateComments, translateStrings
    file        \* the syntax tree, rewritten in place

\* A node is [text, pos]; the table is a partial function.
goVars == <<source, enabled, file, pc, pending, nodes, table>>

\* Characters stand for themselves; "nl" is a line end, "tab" a tab, "cr" a carriage return,
\* "bs" a backslash, "quote" and "backquote" the two quotation marks, and "end" what ends a
\* block comment.

\* What strings.TrimSpace takes away.
Blank == {" ", "nl", "tab", "cr"}

\* strings.ReplaceAll, of one character
Substitute(s, old, new) ==
    FlattenSeq([i \in DOMAIN s |-> IF s[i] = old THEN new ELSE <<s[i]>>])

\* extractCommentText, or the literal without quotation marks; escapes stay as they are spelled.
TextOf(item) == Trim(item.body, IF item.kind \in Comments THEN Blank ELSE {"backquote", "quote"})

IsTranslatableString(s) ==
    LET chars == Range(s)
    IN  /\ Len(s) >= 2
        /\ ~("/" \in chars /\ " " \notin chars)
        /\ ~(Head(s) = "%" /\ Len(s) < 5)
        /\ ~(chars \cap Lower = {} /\ " " \notin chars)
        /\ chars \cap (Lower \cup Upper) # {}

EscapeControls(s) ==
    Substitute(Substitute(Substitute(s, "nl", <<"bs", "n">>), "tab", <<"bs", "t">>), "cr", <<"bs", "r">>)
EscapeBackslashLast(s) ==
    Substitute(EscapeControls(Substitute(s, "quote", <<"bs", "quote">>)), "bs", <<"bs", "bs">>)
EscapeString(s) ==
    EscapeControls(Substitute(Substitute(s, "bs", <<"bs", "bs">>), "quote", <<"bs", "quote">>))

\* What a translation spells between the markers of a comment or literal.
Spelling(kind, translated) ==
    CASE kind = "line"   -> <<" ">> \o translated
      [] kind = "block"  -> <<" ">> \o translated \o <<" ">>
      [] kind = "raw"    -> translated
      [] kind = "quoted" -> EscapeString(translated)

\* First all comments, then all string literals, as far as they are enabled.
PlacesOf(kinds) == InOrder({p \in DOMAIN file : file[p].kind \in kinds \cap enabled})
GoWalk == PlacesOf(Comments) \o PlacesOf(Strings)

GoInit ==
    /\ source \in Files
    /\ enabled \in {Comments, Strings, Comments \cup Strings}
    /\ file = source
    /\ pc = "extract"
    /\ pending = GoWalk
    /\ nodes = <<>>
    /\ table = <<>>

-----------------------------------------------------------------------------
SeenInKind(text, kind) ==
    \E n \in Range(nodes) : n.text = text /\ (file[n.pos].kind \in Comments <=> kind \in Comments)
SeenBefore(text, kind) == \E n \in Range(nodes) : n.text = text

\* One comment or literal; one set of seen hashes serves both walks.
ExtractItem ==
    /\ pc = "extract"
    /\ pending # <<>>
    /\ LET item == file[Head(pending)]
           text == TextOf(item)
           wanted == text # <<>> /\ (item.kind \in Strings => IsTranslatableString(text))
       IN  nodes' = IF wanted /\ ~SeenBefore(text, item.kind)
                    THEN Append(nodes, [text |-> text, pos |-> Head(pending)]) ELSE nodes
    /\ pending' = Tail(pending)
    /\ UNCHANGED <<source, enabled, file, pc, table>>

\* The translator returns a table for some of the texts.
TranslateTexts ==
    /\ pc = "extract"
    /\ pending = <<>>
    /\ \E texts \in SUBSET {n.text : n \in Range(nodes)} : table' \in [texts -> Translations]
    /\ pc' = "apply"
    /\ pending' = GoWalk
    /\ UNCHANGED <<source, enabled, file, nodes>>

\* posToTranslation
AnyTranslation(p) == {table[t] : t \in DOMAIN table \cap {TextOf(source[p])}}
TranslationAt(p) == {table[n.text] : n \in {n \in Range(nodes) : n.pos = p /\ n.text \in DOMAIN table}}

ApplyToItem ==
    /\ pc = "apply"
    /\ pending # <<>>
    /\ LET p == Head(pending)
       IN  \/ TranslationAt(p) = {} /\ UNCHANGED file
           \/ \E t \in TranslationAt(p) :
                 file' = [file EXCEPT ![p].body = Spelling(file[p].kind, t)]
    /\ pending' = Tail(pending)
    /\ UNCHANGED <<source, enabled, pc, nodes, table>>

AppliedToFile ==
    /\ pc = "apply"
    /\ pending = <<>>
    /\ pc' = "done"
    /\ UNCHANGED <<source, enabled, file, pending, nodes, table>>

GoNext == ExtractItem \/ TranslateTexts \/ ApplyToItem \/ AppliedToFile

GoSpec == GoInit /\ [][GoNext]_goVars

-----------------------------------------------------------------------------
\* Which of two places the walk visits first.
Before(p, q) ==
    IF (source[p].kind \in Comments) = (source[q].kind \in Comments) THEN p < q
    ELSE source[p].kind \in Comments

\* The places whose text is to be translated, and the first of those with one text.
Wanted == {p \in DOMAIN source :
              /\ source[p].kind \in enabled
              /\ TextOf(source[p]) # <<>>
              /\ source[p].kind \in Strings => IsTranslatableString(TextOf(source[p]))}
First == {p \in Wanted : \A q \in Wanted : TextOf(source[q]) = TextOf(source[p]) /\ q # p => Before(p, q)}

(* What Extract (go.go:73, :103) hands to the translator, whatever repeats      *)
(* whatever: each text that is not skipped once, comments before literals, with *)
(* the first place it stands at, in a comment also when a literal comes before. *)
NodesAreFirstPlaces ==
    pc # "extract" =>
        /\ {n.pos : n \in Range(nodes)} = First
        /\ \A n \in Range(nodes) : n.text = TextOf(source[n.pos])
        /\ \A i, j \in DOMAIN nodes : i < j => Before(nodes[i].pos, nodes[j].pos)

\* What Go reads: up to the marker that ends the comment or literal, without escapes. Go's
\* scanner drops the carriage returns of comments and raw literals.
Ends(kind) == [line |-> "nl", block |-> "end", raw |-> "backquote", quoted |-> "quote"][kind]
Unescaped(c) == CASE c = "n" -> "nl" [] c = "t" -> "tab" [] c = "r" -> "cr" [] OTHER -> c
Reads(item) ==
    LET s == item.body
        R[i \in 1..Len(s) + 2] ==
            IF i > Len(s) \/ s[i] = Ends(item.kind) THEN <<>>
            ELSE IF item.kind # "quoted"
                 THEN (IF s[i] = "cr" THEN <<>> ELSE <<s[i]>>) \o R[i + 1]
                 ELSE IF s[i] = "bs" THEN <<Unescaped(s[i + 1])>> \o R[i + 2]
                 ELSE <<s[i]>> \o R[i + 1]
    IN  IF item.kind \in Comments THEN Trim(R[1], Blank) ELSE R[1]

(* Apply (go.go:172) replaces by position what Extract collected by text: of a  *)
(* repeated text only the first place is translated, a literal never when a     *)
(* comment has the same text, and everything else stays as it was spelled.       *)
(* What is replaced, Go reads as the translation, through escapeString (:267)   *)
(* whatever it contains; the other kinds are written as they are (:172, :192),  *)
(* and Go reads the translation unless it contains the ending marker or a       *)
(* carriage return.                                                             *)
FirstPlacesAreReplaced ==
    pc = "done" =>
        \A p \in DOMAIN file :
            IF p \in First /\ TextOf(source[p]) \in DOMAIN table
            THEN LET t == table[TextOf(source[p])]
                 IN  file[p].kind = "quoted" \/ {Ends(file[p].kind), "cr"} \cap Range(t) = {} =>
                        Reads(file[p]) = IF file[p].kind \in Comments THEN Trim(t, Blank) ELSE t
            ELSE file[p] = source[p]
=============================================================================
