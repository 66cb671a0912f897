-------------------------- MODULE MCQueryProcessor --------------------------
EXTENDS QueryProcessor

\* The words "it" and "a" fall into one bucket of a table of 16, "sea" and "moby" into
\* another.  Two "words" are longer than word_bytes can say.
MCLength(s) == CASE s = "it" -> 2 [] s = "a" -> 1 [] s = "sea" -> 3
                 [] s = "40000 letters" -> 40000 [] s = "65538 letters" -> 65538
                 [] s = "e/1" -> 3 [] s = "e/1-eacute" -> 5 [] OTHER -> 4
MCHash(w)   == CASE w = "it" -> 4 [] w = "a" -> 20 [] w = "sea" -> 3 [] w = "moby" -> 19
                 [] OTHER -> 8
MCCut(w, n) == IF MCLength(w) = n THEN w ELSE "it"

\* "e/1-eacute" is "e/1" and two more bytes, which are not ASCII.
MCAscii(s) == IF s = "e/1-eacute" THEN "e/1" ELSE s
MCPadded(s, n) == IF s = "e/1" /\ n = 2 THEN "e/1-NUL-NUL" ELSE "other"

MCPositions(n) == [k \in 1..n |-> 5 * k]

\* The index of documents that contain each word as often as count says.  The tables
\* start with 2 buckets, 16 and 1, and have nine times as many once a key is added to
\* three for each.
MCIndex(names, count) ==
    LET postings == [w \in {w \in DOMAIN count[1] : \E d \in DOMAIN names : count[d][w] > 0} |->
                        [d \in {d \in DOMAIN names : count[d][w] > 0} |->
                            MCPositions(count[d][w])]]
    IN  [names           |-> names,
         postings        |-> postings,
         doc_buckets     |-> 2,
         word_buckets    |-> 16,
         posting_buckets |-> [w \in DOMAIN postings |->
                                 IF Cardinality(DOMAIN postings[w]) <= 3 THEN 1 ELSE 9]]

\* One word, in one document.
MCLongWord(w) == MCIndex(<<"f/1a">>, <<[v \in {w} |-> 1]>>)

\* Two indices, of four documents and of two, with one document in both; then an index
\* whose file cannot be written, and one in whose file a word is cut off.
MCCorpora ==
    {<<MCIndex(<<"d/1a", "d/2b", "d/3c", "d/4d">>,
               <<[it |-> p, a |-> 1, sea |-> 1], [it |-> 1, a |-> q, sea |-> 0],
                 [it |-> r, a |-> 1, sea |-> q], [it |-> 0, a |-> 2, sea |-> 0]>>),
       MCIndex(<<"e/1-eacute", "d/1a">>,
               <<[it |-> t, a |-> 1, sea |-> 0], [it |-> 1 - t, a |-> q, sea |-> 1]>>)>> :
     p, q, r \in 0..2, t \in 0..1}
    \cup {<<MCLongWord("40000 letters")>>, <<MCLongWord("65538 letters")>>}

MCQueries == {<<"it">>, <<"sea">>, <<"it", "a">>, <<"sea", "it">>, <<"it", "it">>, <<"moby", "it">>,
              <<"it", "a", "sea">>}
=============================================================================
