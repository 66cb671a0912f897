--------------------------- MODULE QueryProcessor ---------------------------
(***************************************************************************)
(* hw3/QueryProcessor.cc: a query is put to one index file after another,  *)
(* read through the tables of IndexLayout, and the results are sorted.     *)
(* An index in memory (hw2) is the names of its documents and the          *)
(* positions of its words in them; its tables have the buckets it says.    *)
(***************************************************************************)
EXTENDS IndexChecker, Functions
Seqs == INSTANCE SequencesExt

CONSTANTS
    Corpora,      \* bound: the lists of indices that may be opened
    Queries,      \* bound: the queries, sequences of words
    NoQuery, NoAnswer

\* The name that queries answer with: the document's, if it is ASCII.
StoredName(s) == IF Ascii(s) = s THEN s ELSE Padded(Ascii(s), Length(s) - Length(Ascii(s)))

\* What hw2 has built in memory: documents that are numbered from 1 on, whose names
\* hold a '/', and words with the documents they are in and their places there, which
\* rise.  A table keeps one word for one hash.  Every table, the one of a word's
\* documents too, has grown by itself and has buckets of its own.  A path of 4096
\* bytes is not opened.
InMemory(x) ==
    /\ x.doc_buckets \in Nat \ {0} /\ x.word_buckets \in Nat \ {0}
    /\ \A w \in DOMAIN x.postings : x.posting_buckets[w] \in Nat \ {0}
    /\ IsFiniteSet(DOMAIN x.names) /\ DOMAIN x.names \subseteq Nat \ {0}
    /\ \A d \in DOMAIN x.names :
          LET s == x.names[d] IN
          /\ Length(s) \in Nat /\ Length(s) < 4096 /\ Length(Ascii(s)) \in 1..Length(s)
          /\ Length(Ascii(s)) = Length(s) => Ascii(s) = s
    /\ IsFiniteSet(DOMAIN x.postings)
    /\ \A w \in DOMAIN x.postings :
          Hash(w) \in Nat /\ Length(w) \in Nat \ {0} /\ Cut(w, Length(w)) = w
    /\ \A v, w \in DOMAIN x.postings : Hash(v) = Hash(w) => v = w
    /\ \A w \in DOMAIN x.postings :
          /\ DOMAIN x.postings[w] # {} /\ DOMAIN x.postings[w] \subseteq DOMAIN x.names
          /\ \A d \in DOMAIN x.postings[w] :
                LET places == x.postings[w][d] IN
                /\ places \in Seq(Nat) /\ places # <<>>
                /\ \A k, l \in DOMAIN places : k < l => places[k] < places[l]

\* Besides, what the two Verify333s ask of the callers: an index and a word to look up.
\* No two documents of an index are stored under one name; several indices may have
\* the same documents.
ASSUME CorporaAssumption ==
    /\ \A c \in Corpora : /\ c \in Seq({c[k] : k \in DOMAIN c}) /\ c # <<>>
                          /\ \A k \in DOMAIN c : InMemory(c[k])
    /\ \A c \in Corpora : \A k \in DOMAIN c : \A d, e \in DOMAIN c[k].names :
          StoredName(c[k].names[d]) = StoredName(c[k].names[e]) => d = e

AllNames ==
    UNION {UNION {{StoredName(c[k].names[d]) : d \in DOMAIN c[k].names} : k \in DOMAIN c} :
           c \in Corpora}

ASSUME QueriesAssumption ==
    /\ \A q \in Queries :
          /\ q \in Seq({q[n] : n \in DOMAIN q}) /\ q # <<>>
          /\ \A n \in DOMAIN q : Hash(q[n]) \in Nat
    /\ NoQuery \notin Queries
    /\ NoAnswer \notin Seq([doc : Nat \X AllNames, rank : Nat])

VARIABLES
    indices,      \* the indices as they were in memory
    files,        \* the index files written from them
    phase,
    query,
    curr_index,
    i,                   \* the number of query words done in this index
    curr_index_result,   \* document name -> rank so far
    final_result

vars == <<indices, files, phase, query, curr_index, i, curr_index_result, final_result>>

-----------------------------------------------------------------------------
\* The n buckets of a table that maps keys to values.  The order in a chain, which
\* depends on what was inserted when and on the resizes, is some order.
Buckets(map, n) ==
    [b \in 1..n |->
        LET chain == Seqs!SetToSeq({k \in DOMAIN map : k % n = b - 1})
        IN  [c \in DOMAIN chain |-> [key |-> chain[c], value |-> map[chain[c]]]]]

IdToName(x) == Buckets(x.names, x.doc_buckets)

PostingsTable(x, w) == Buckets(x.postings[w], x.posting_buckets[w])

MemIndex(x) ==
    LET WordOf(h) == CHOOSE w \in DOMAIN x.postings : Hash(w) = h
    IN  Buckets([h \in {Hash(w) : w \in DOMAIN x.postings} |->
                    [word |-> WordOf(h), postings |-> PostingsTable(x, WordOf(h))]],
                x.word_buckets)

NoResults == [name \in {} |-> 0]

Init ==
    /\ indices \in Corpora
    /\ files = <<>>
    /\ phase = "build"
    /\ query = NoQuery /\ curr_index = 0 /\ i = 0
    /\ curr_index_result = NoResults /\ final_result = <<>>

\* The index of which buildfileindex writes the file next.
NextToWrite == indices[Len(files) + 1]

\* Every fwrite of a word succeeds.
CanWrite(x) == \A w \in DOMAIN x.postings : WordIsWritten(w)

Build ==
    /\ phase = "build" /\ Len(files) < Len(indices)
    /\ CanWrite(NextToWrite)
    /\ files' = Append(files, WriteIndex(MemIndex(NextToWrite), IdToName(NextToWrite)))
    /\ UNCHANGED <<indices, phase, query, curr_index, i, curr_index_result, final_result>>

\* WriteIndex unlinks the file and returns kFailedWrite, and buildfileindex exits.
BuildFails ==
    /\ phase = "build" /\ Len(files) < Len(indices)
    /\ ~CanWrite(NextToWrite)
    /\ phase' = "failed"
    /\ UNCHANGED <<indices, files, query, curr_index, i, curr_index_result, final_result>>

\* The constructor; the checks of FileIndexReader are those of IndexFile.
Open ==
    /\ phase = "build" /\ Len(files) = Len(indices)
    /\ phase' = "ready"
    /\ UNCHANGED <<indices, files, query, curr_index, i, curr_index_result, final_result>>

ProcessQuery(q) ==
    /\ phase \in {"ready", "answered"}
    /\ query' = q
    /\ phase' = "index"
    /\ curr_index' = 1 /\ i' = 0
    /\ curr_index_result' = NoResults /\ final_result' = <<>>
    /\ UNCHANGED <<indices, files>>

-----------------------------------------------------------------------------
File == files[curr_index]
Reader(word) == LookupWord(File, NewIndexTableReader(File), word)

\* The names and counts of the documents in a DocIDTable: the loop that fills
\* curr_index_result or curr_word_result.
WordResult(reader) ==
    LET headers == GetDocIDList(File, reader)
        Name(h) == DocTableLookupDocID(File, NewDocTableReader(File), h.doc_id)
    IN  [s \in {Name(h) : h \in headers} |->
            (CHOOSE h \in headers : Name(h) = s).num_positions]

\* Deviation: the documents of either map.
UniteMaps(map1, map2) ==
    [s \in DOMAIN map1 \cup DOMAIN map2 |->
        (IF s \in DOMAIN map1 THEN map1[s] ELSE 0) + (IF s \in DOMAIN map2 THEN map2[s] ELSE 0)]

IntersectMaps(map1, map2) ==
    [s \in DOMAIN map1 \cap DOMAIN map2 |-> map1[s] + map2[s]]

\* The pairs of a map; their order is left to the sort at the end.  The number of the
\* index is not in the code's results: it tells one document's results apart.
Results(m) ==
    LET names == Seqs!SetToSeq(DOMAIN m)
    IN  [k \in DOMAIN names |-> [doc |-> <<curr_index, names[k]>>, rank |-> m[names[k]]]]

NextIndex == curr_index' = curr_index + 1 /\ i' = 0 /\ curr_index_result' = NoResults

Working == phase = "index" /\ curr_index <= Len(files)

\* A word of the query is not in the index: what it has given is dropped.
NoSuchWord ==
    /\ Working /\ i < Len(query)
    /\ Reader(query[i + 1]) = None
    /\ NextIndex
    /\ UNCHANGED <<indices, files, phase, query, final_result>>

FirstWord ==
    /\ Working /\ i = 0
    /\ Reader(query[1]) # None
    /\ curr_index_result' = WordResult(Reader(query[1]))
    /\ i' = 1
    /\ UNCHANGED <<indices, files, phase, query, curr_index, final_result>>

NextWord ==
    /\ Working /\ i \in 1..(Len(query) - 1)
    /\ Reader(query[i + 1]) # None
    /\ LET both == IntersectMaps(curr_index_result, WordResult(Reader(query[i + 1])))
       IN  IF DOMAIN both = {} THEN NextIndex
           ELSE curr_index_result' = both /\ i' = i + 1 /\ UNCHANGED curr_index
    /\ UNCHANGED <<indices, files, phase, query, final_result>>

IndexDone ==
    /\ Working /\ i = Len(query)
    /\ final_result' = final_result \o Results(curr_index_result)
    /\ NextIndex
    /\ UNCHANGED <<indices, files, phase, query>>

\* std::sort by descending rank; it is not stable.
Answer ==
    /\ phase = "index" /\ curr_index > Len(files)
    /\ \E f \in Bijection(DOMAIN final_result, DOMAIN final_result) :
          /\ final_result' = [k \in DOMAIN final_result |-> final_result[f[k]]]
          /\ \A k, l \in DOMAIN final_result : k < l => final_result'[k].rank >= final_result'[l].rank
    /\ phase' = "answered"
    /\ UNCHANGED <<indices, files, query, curr_index, i, curr_index_result>>

QueryStep == NoSuchWord \/ FirstWord \/ NextWord \/ IndexDone \/ Answer

\* There is no index to open.
Failed == phase = "failed" /\ UNCHANGED vars

Next ==
    Build \/ BuildFails \/ Failed \/ Open \/ QueryStep \/ \E q \in Queries : ProcessQuery(q)

Spec == Init /\ [][Next]_vars

\* ProcessQuery runs on by itself: weak fairness of QueryStep, written out, since
\* one of its actions is enabled in exactly the states with phase = "index".
FairSpec == Spec /\ ([]<>(phase # "index") \/ []<><<QueryStep>>_vars)

-----------------------------------------------------------------------------
\* The layout of an index file (WriteIndex.cc): what WriteHashTable and the element
\* writers put down by seeking to and fro never overlaps, nested tables included, and
\* leaves no hole but those of the skipped characters of document names, so the sizes
\* in the header are those FileIndexReader expects.  So too with a word of which the
\* 16 bits of word_bytes lose a part.
LayoutTiled == \A k \in DOMAIN files : Tiled(files[k], Holes(files[k]))

\* hw3fsck, which was written apart from the writer (WriteIndex.cc) and reads through
\* none of the readers, finds nothing wrong with any file the writer leaves: sizes,
\* bucket records, element positions, document ids and the order of word positions.
FsckAccepts == \A k \in DOMAIN files : CheckFile(files[k])

QueryWords == UNION {{q[n] : n \in DOMAIN q} : q \in Queries}

\* The words whose length the 16 bits of word_bytes hold, in all of an index.
Short(x) == \A w \in DOMAIN x.postings : Length(w) < 32768

\* The readers find in a file what was in memory: every document under its id, its
\* name with NULs at the end for every character that is not ASCII, every word, the
\* positions of a word in a document, and nothing else.  Exception: an index with
\* words that word_bytes does not hold, and that are cut off in the file.
ReadersFind ==
    \A k \in {k \in DOMAIN files : Short(indices[k])} :
        LET x    == indices[k]
            dtr  == NewDocTableReader(files[k])
            itr  == NewIndexTableReader(files[k])
        IN  /\ \A d \in 0..(Cardinality(DOMAIN x.names) + 2) :
                  DocTableLookupDocID(files[k], dtr, d) =
                      IF d \in DOMAIN x.names THEN StoredName(x.names[d]) ELSE None
            /\ \A w \in QueryWords \ DOMAIN x.postings : LookupWord(files[k], itr, w) = None
            /\ \A w \in DOMAIN x.postings, d \in DOMAIN x.names :
                  DocIDTableLookupDocID(files[k], LookupWord(files[k], itr, w), d) =
                      IF d \in DOMAIN x.postings[w] THEN x.postings[w][d] ELSE None

-----------------------------------------------------------------------------
\* All indices together as one RankedSearch.  A document of several indices counts as
\* one in each, by the number of the index.  Nothing is said of words that are cut off.
AllShort == \A k \in DOMAIN indices : Short(indices[k])

Names ==
    UNION {{<<k, StoredName(indices[k].names[d])>> : d \in DOMAIN indices[k].names} :
           k \in DOMAIN indices}
Count ==
    [s \in Names |-> [w \in QueryWords |->
        LET x == indices[s[1]]
            d == CHOOSE d \in DOMAIN x.names : StoredName(x.names[d]) = s[2]
        IN  IF w \in DOMAIN x.postings /\ d \in DOMAIN x.postings[w]
            THEN Len(x.postings[w][d]) ELSE 0]]

Ranked == INSTANCE RankedSearch
    WITH count  <- Count,
         query  <- IF AllShort THEN query ELSE NoQuery,
         answer <- IF AllShort /\ phase = "answered" THEN final_result ELSE NoAnswer

\* QueryProcessor answers a query with the documents of each of its indices that
\* contain every word, once for each index they are in, with the rank they have there,
\* in descending order of rank.
ImplementsRankedSearch == Ranked!Spec
=============================================================================
