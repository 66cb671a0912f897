--------------------------- MODULE MCSearchEngine ---------------------------
EXTENDS SearchEngine

\* A directory with two files, a pipe and a subdirectory that holds a file.
MCPathOrder == <<"/", "/a", "/d", "/d/b", "/p", "/z">>
MCFiles == {"/a", "/d/b", "/z"}
MCDirs  == {"/", "/d"}
MCUnder == [p \in {"/", "/a", "/d", "/d/b", "/p", "/z"} |->
              CASE p = "/" -> {} [] p = "/d/b" -> {"/", "/d"} [] OTHER -> {"/"}]

MCLower == [c \in {"a", "b", "B"} |-> IF c = "B" THEN "b" ELSE c]

\* Words once and again, in capitals, next to each other and at the end; bytes
\* that are null or not ASCII.
MCContents == {
    <<"a", " ">>,
    <<"B", "-", "a", " ", "b">>,
    <<"a", " ", "b", " ", "a", "b", " ", "a", ".", "0", "b", " ">>,
    <<"b", " ", "~">>}

MCWords == {<<"a">>, <<"b">>, <<"a", "b">>}
MCQueries == {<<>>} \cup {<<v>> : v \in MCWords} \cup {<<v, w>> : v, w \in MCWords}
             \cup {<<<<"b">>, <<"a">>, <<"c">>>>}
=============================================================================
