---------------------------- MODULE MCCommandLine ----------------------------
(* CommandLine with the ways the flags are mixed, and all small versions of a document. *)
EXTENDS CommandLine

CONSTANTS h1, h2, h3, h4, menu

MCHashes == {h1, h2, h3, h4}

\* As HTMLProcessor numbers the nodes it finds: by position.
Version(hashes, contexts) ==
    [i \in DOMAIN hashes |-> [id |-> i, hash |-> hashes[i], context |-> contexts[i]]]

VersionsOf(n, hashes) == {Version(h, c) : h \in hashes, c \in [1..n -> {menu, NoContext}]}

AllVersionsOf(n) == VersionsOf(n, [1..n -> MCHashes])

\* Texts that occur twice are among them.
MCOldVersions == AllVersionsOf(0) \cup AllVersionsOf(1) \cup AllVersionsOf(2)
MCNewVersions == AllVersionsOf(0) \cup AllVersionsOf(1) \cup AllVersionsOf(2)
                 \cup VersionsOf(3, {<<h3, h4, h3>>, <<h2, h3, h4>>})

Language(base, sep, region) == [base |-> base, sep |-> sep, region |-> region]
MCLanguages == {Language("en", "_", "us"), Language("en", "-", "gb"), Language("ar", "_", "sa")}

MCCommands ==
    {<<"lang", "input">>, <<"lang">>, <<"input">>, <<"input", "lang">>, <<"unknown", "lang">>,
     <<"version">>, <<"lang", "json", "input">>, <<"lang", "output", "input">>,
     <<"lang", "json", "output", "input">>, <<"lang", "input", "output">>,
     <<"lang", "input", "dry-run">>, <<"lang", "output", "dry-run", "input">>,
     <<"lang", "json", "dry-run", "input">>, <<"lang", "diff", "output", "update", "input">>}
=============================================================================
