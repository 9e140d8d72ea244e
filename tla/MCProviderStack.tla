---------------------------- MODULE MCProviderStack ----------------------------
(* ProviderStack with two goroutines and two requests for TLC. *)
EXTENDS ProviderStack

CONSTANTS c1, c2

MCCallers == {c1, c2}
MCObserved == c1

Settings(style) ==
    [source |-> "en", target |-> "nb", style |-> style, context |-> "shop",
     glossary |-> "none", excluded |-> "none"]

\* Two texts of which the second has a context, in a style that is not known; and none.
MCRequests ==
    {[texts |-> <<"t", "u">>, contexts |-> <<"", "menu">>, settings |-> Settings("odd")],
     [texts |-> <<>>, contexts |-> <<>>, settings |-> Settings("formal")]}
=============================================================================
