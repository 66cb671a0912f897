----------------------------- MODULE MCWebSite -----------------------------
EXTENDS WebSite, TLC

MCEscapes == ("%20" :> " ") @@ ("%2B" :> "+") @@ ("%26" :> "&") @@ ("%E9" :> "e-acute")
MCPrintable == {" ", "+", "&"}
MCLowerCase == ("Sea" :> "sea") @@ ("Host" :> "host") @@ ("Connection" :> "connection")
MCEntities == <<"&", "<">>
MCEntity == ("&" :> <<"&", "amp;">>) @@ ("<" :> <<"&", "lt;">>)

\* The server runs in the root and serves /site, which holds a directory of its own name.
MCCwd == <<>>
Site  == << <<"site">> >>
MCDirs == {<<>>, << <<"hw4">> >>, Site, Append(Site, <<"site">>)}
\* "../site" leads to the directory from itself, "site" to site/site.
MCBaseDirs == {<<".", ".", "/", "site">>, <<"site">>}
MCWide == {"site", "hw4", "readme", "txt"}
MCArguments == {<<"other", "index">>, <<"index">>, <<"gone", "index">>, <<"other">>, <<"short", "index">>}

\* A blank, the same in the directory, a '+', no dot.
AB == <<"a", " ", "b", ".", "txt">>
SC == <<"site", "/", "a", " ", "b", ".", "txt">>
CP == <<"c", "+", ".", "txt">>
RM == <<"readme">>
MCDocNames == {AB, SC, CP, RM}
MCWords == (AB :> {<<"sea">>, <<"it">>}) @@ (SC :> {<<"it">>, <<"b">>}) @@ (CP :> {<<"it">>})
           @@ (RM :> {<<"it">>, <<"a">>})
MCRemovable == {AB}

MCTyped == {<<" ", "it", " ", " ", "Sea", " ">>, <<"it">>, <<" ">>, <<"&", "<", "+", "it">>}

\* A directory, a missing file, a way round, a file elsewhere, a page without terms.
MCStaticURIs ==
    {<<"/", "static", "/", "site">>, <<"/", "static", "/", "%E9", ".", "txt">>,
     <<"/", "static", "/", "site", "/", ".", ".", "/", "a", "%20", "b", ".", "txt">>,
     <<"/", "static", "/", ".", ".", "/", "hw4">>, <<"/">>}
=============================================================================
