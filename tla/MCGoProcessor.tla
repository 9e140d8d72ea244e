----------------------------- MODULE MCGoProcessor -----------------------------
(* GoProcessor on files of up to three comments and string literals. *)
EXTENDS GoProcessor

Item(kind, body) == [kind |-> kind, body |-> body]

\* One text in a comment and in both kinds of literal; another one; what is skipped.
MCItems ==
    {Item("line", <<" ", "a", "b">>), Item("block", <<"tab", "a", "b", "nl">>), Item("line", <<" ">>),
     Item("quoted", <<"a", "b">>), Item("raw", <<"a", "b">>), Item("quoted", <<"a", "bs", "n">>),
     Item("quoted", <<"bs", "quote">>), Item("raw", <<"a">>), Item("quoted", <<"/", "a">>),
     Item("quoted", <<"%", "a">>), Item("quoted", <<"A", "B">>), Item("raw", <<"A", " ", "/">>)}

MCFiles == UNION {[1..n -> MCItems] : n \in 0..3}

MCTranslations == {<<"b">>, <<"bs", "n", "quote">>, <<"nl", "backquote", "b">>, <<" ", "b", "end">>,
                   <<"tab", "b", "cr">>}
=============================================================================
