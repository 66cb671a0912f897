---------------------------- MODULE SearchEngine ----------------------------
(***************************************************************************)
(* hw2: CrawlFileTree walks a directory tree and puts every text file that *)
(* it can read into a DocTable and an inverted index (MemIndex); then      *)
(* searchshell answers queries from the index, a word at a time.           *)
(* The HashTable and the LinkedList they are made of are the function and  *)
(* the sequence that KVMap and SeqList say they are: in particular a table *)
(* is walked in any order.  The tree does not change while it is crawled.  *)
(***************************************************************************)
EXTENDS FileParser, FiniteSets
Seqs == INSTANCE SequencesExt

CONSTANTS
    PathOrder,   \* bound: the paths of the tree, in the order of alphasort
    Files, Dirs, \* which of them are regular files and directories
    Under,       \* Under[p]: the directories on the way to p
    Root,
    Contents,    \* bound: what a file may contain
    Queries,     \* bound: the queries, sequences of lower-case words
    NoQuery, NoAnswer

Paths == {PathOrder[k] : k \in DOMAIN PathOrder}

IsSeq(s) == s \in Seq({s[k] : k \in DOMAIN s})

\* The paths are those of a tree: on the way to p lie the directories on the way to
\* any one of them, d, and the next one is an entry of d.
ASSUME TreeAssumption ==
    /\ IsSeq(PathOrder)
    /\ Files \subseteq Paths /\ Dirs \subseteq Paths /\ Files \cap Dirs = {}
    /\ Root \in Dirs /\ Under \in [Paths -> SUBSET Dirs] /\ Under[Root] = {}
    /\ \A p \in Paths \ {Root} : Root \in Under[p]
    /\ \A p \in Paths : p \notin Under[p]
    /\ \A p \in Paths : \A d \in Under[p] :
          /\ Under[d] \subseteq Under[p]
          /\ \E c \in Under[p] \cup {p} : Under[c] = Under[d] \cup {d}

\* Texts and words are sequences, and what stands for nothing is none of them.
ASSUME DataAssumption ==
    /\ \A contents \in Contents : IsSeq(contents) /\ contents # Null
    /\ \A q \in Queries : IsSeq(q) /\ q # NoQuery /\ \A k \in DOMAIN q : IsSeq(q[k])
    /\ NoAnswer \notin Seq([doc : Paths, rank : Nat])

VARIABLES
    fs,       \* the tree: for a path its status and, if it is a file, its text
    phase,    \* where the program is
    stack,    \* for every HandleDir in progress, the set of the entries it has still
              \* to handle, which it does in the order of PathOrder
    doc_id, tab,   \* the file that HandleFile is putting into the index
    doc_table,     \* max_id and the tables id_to_name and name_to_id
    index,         \* word -> doc_id -> positions
    query,    \* the words of the query
    i,        \* the number of query words looked up
    results,  \* ret_list: SearchResults, the best first when it is done
    at,       \* the place of ll_it in results
    left,     \* how many turns of its loop (num_docs - j) are left
    printed   \* what searchshell has printed for the last query, or NoAnswer

crawl_vars  == <<stack, doc_id, tab, doc_table, index>>
search_vars == <<query, i, results, at, left, printed>>
vars == <<fs, phase, crawl_vars, search_vars>>

INVALID_DOCID == 0
Node(status, text) == [status |-> status, text |-> text]

Init ==
    /\ \E texts \in [Files -> Contents], closed \in SUBSET (Files \cup Dirs),
          vanished \in SUBSET (Files \ Dirs) :
          fs = [p \in Paths |->
                  IF p \in vanished THEN Node("gone", <<>>)
                  ELSE IF p \in closed \/ p \notin Files \cup Dirs THEN Node("closed", <<>>)
                  ELSE Node("open", IF p \in Files THEN texts[p] ELSE <<>>)]
    /\ phase = "start"
    /\ stack = <<>> /\ doc_id = INVALID_DOCID /\ tab = NoWords
    /\ doc_table = [max_id |-> 1, id_to_name |-> <<>>, name_to_id |-> [p \in {} |-> 0]]
    /\ index = NoWords
    /\ query = NoQuery /\ i = 0 /\ results = <<>> /\ at = 0 /\ left = 0
    /\ printed = NoAnswer

-----------------------------------------------------------------------------
\* DocTable.c

DocTable_GetDocID(dt, name) ==
    IF name \in DOMAIN dt.name_to_id THEN dt.name_to_id[name] ELSE INVALID_DOCID

\* Deviation: the maximal id is not advanced.
DocTable_AddSameId(dt, name) ==
    [max_id     |-> dt.max_id,
     id_to_name |-> HashTable_Insert(dt.id_to_name, dt.max_id, name),
     name_to_id |-> HashTable_Insert(dt.name_to_id, name, dt.max_id)]

DocTable_Add(dt, name) ==
    IF DocTable_GetDocID(dt, name) # INVALID_DOCID THEN dt
    ELSE [max_id     |-> dt.max_id + 1,
          id_to_name |-> HashTable_Insert(dt.id_to_name, dt.max_id, name),
          name_to_id |-> HashTable_Insert(dt.name_to_id, name, dt.max_id)]

-----------------------------------------------------------------------------
\* CrawlFileTree.c

\* The first pass of HandleDir: the entries that stat finds.
Entries(d) == {p \in Paths : Under[p] = Under[d] \cup {d} /\ fs[p].status # "gone"}

ReadFileToString(p) == 
    IF p \in Files /\ fs[p].status = "open" THEN fs[p].text ELSE Null

CrawlFileTree ==
    /\ phase = "start"
    /\ IF fs[Root].status = "open" THEN phase' = "crawl" /\ stack' = <<Entries(Root)>>
                            ELSE phase' = "exit" /\ UNCHANGED stack
    /\ UNCHANGED <<fs, doc_id, tab, doc_table, index, search_vars>>

\* The next entry of the innermost directory, and the stack without it.
HasEntry == phase = "crawl" /\ Head(stack) # {}
Entry ==
    LET places == {k \in DOMAIN PathOrder : PathOrder[k] \in Head(stack)}
    IN  PathOrder[CHOOSE k \in places : \A l \in places : k <= l]
Rest  == <<Head(stack) \ {Entry}>> \o Tail(stack)

EnterDir ==
    /\ HasEntry /\ Entry \in Dirs /\ fs[Entry].status = "open"
    /\ stack' = <<Entries(Entry)>> \o Rest
    /\ UNCHANGED <<fs, phase, doc_id, tab, doc_table, index, search_vars>>

\* opendir fails, or HandleFile gets no table.  The entry of a path that is
\* neither a file nor a directory has an uninitialised is_dir: whatever it
\* holds, one of the two happens.
SkipEntry ==
    /\ HasEntry
    /\ \/ Entry \notin Files /\ fs[Entry].status # "open"
       \/ Entry \notin Dirs /\ ParseIntoWordPositionsTable(ReadFileToString(Entry)) = NoWords
    /\ stack' = Rest
    /\ UNCHANGED <<fs, phase, doc_id, tab, doc_table, index, search_vars>>

HandleFile ==
    /\ HasEntry /\ Entry \in Files
    /\ tab' = ParseIntoWordPositionsTable(ReadFileToString(Entry))
    /\ tab' # NoWords
    /\ doc_table' = DocTable_Add(doc_table, Entry)
    /\ doc_id' = DocTable_GetDocID(doc_table', Entry)
    /\ phase' = "add"
    /\ stack' = Rest
    /\ UNCHANGED <<fs, index, search_vars>>

LeaveDir ==
    /\ phase = "crawl" /\ Head(stack) = {}
    /\ stack' = Tail(stack)
    /\ phase' = IF stack' = <<>> THEN "ready" ELSE "crawl"
    /\ UNCHANGED <<fs, doc_id, tab, doc_table, index, search_vars>>

-----------------------------------------------------------------------------
\* MemIndex.c

Postings(w) == IF w \in DOMAIN index THEN index[w] ELSE NoWords

WithPostings(w, d, positions) ==
    HashTable_Insert(index, w, HashTable_Insert(Postings(w), d, positions))

\* HTIterator_Remove takes a word out of the table, MemIndex_AddPostingList
\* puts it into the index, and verifies that the document is new to the word.
AddPostingList ==
    /\ phase = "add"
    /\ \E w \in DOMAIN tab :
          /\ tab' = [v \in DOMAIN tab \ {w} |-> tab[v]]
          /\ IF doc_id \in DOMAIN Postings(w)
             THEN phase' = "aborted" /\ UNCHANGED index
             ELSE index' = WithPostings(w, doc_id, tab[w]) /\ UNCHANGED phase
    /\ UNCHANGED <<fs, stack, doc_id, doc_table, search_vars>>

FileAdded ==
    /\ phase = "add" /\ tab = NoWords
    /\ phase' = "crawl"
    /\ UNCHANGED <<fs, crawl_vars, search_vars>>

\* A query is read and split.
ProcessQueries(q) ==
    /\ phase \in {"ready", "answered"}
    /\ query' = q /\ i' = 0
    /\ results' = <<>> /\ at' = 0 /\ left' = 0 /\ printed' = NoAnswer
    /\ phase' = "search"
    /\ UNCHANGED <<fs, crawl_vars>>

\* NULL is returned: there is no query word, or one the index does not know.
NoSuchWord ==
    /\ phase = "search"
    /\ \/ query = <<>>
       \/ i < Len(query) /\ query[i + 1] \notin DOMAIN index
    /\ phase' = "answered"
    /\ results' = <<>> /\ printed' = <<>>
    /\ UNCHANGED <<fs, crawl_vars, query, i, at, left>>

FirstWord ==
    /\ phase = "search" /\ i = 0 /\ query # <<>> /\ query[1] \in DOMAIN index
    /\ \E order \in Seqs!SetToSeqs(DOMAIN index[query[1]]) :
          results' = [k \in DOMAIN order |->
                        [doc_id |-> order[k], rank |-> Len(index[query[1]][order[k]])]]
    /\ i' = 1
    /\ UNCHANGED <<fs, phase, crawl_vars, query, at, left, printed>>

NextWord ==
    /\ phase = "search" /\ i \in 1..(Len(query) - 1)
    /\ query[i + 1] \in DOMAIN index
    /\ i' = i + 1
    /\ at' = 1 /\ left' = Len(results)
    /\ phase' = "filter"
    /\ UNCHANGED <<fs, crawl_vars, query, results, printed>>

\* Deviation: the iterator moves on from the node after the removed one.
RemoveAndAdvance(list, k) ==
    [list |-> Seqs!RemoveAt(list, k), at |-> k + 1]

\* LLIterator_Remove: the iterator moves to the successor, else to the new tail.
LLIterator_Remove(list, k) ==
    [list |-> Seqs!RemoveAt(list, k), at |-> IF k = Len(list) THEN k - 1 ELSE k]

\* A turn of the loop over the results.  Like LLIterator_Get it verifies that the
\* iterator is at a node.
Filter ==
    /\ phase = "filter" /\ left > 0
    /\ left' = left - 1
    /\ IF at \notin DOMAIN results
       THEN phase' = "aborted" /\ UNCHANGED <<results, at>>
       ELSE LET postings == index[query[i]]
                d        == results[at].doc_id
                removed  == LLIterator_Remove(results, at)
            IN  /\ IF d \in DOMAIN postings
                   THEN /\ results' = [results EXCEPT ![at].rank = @ + Len(postings[d])]
                        /\ at' = at + 1
                   ELSE results' = removed.list /\ at' = removed.at
                /\ UNCHANGED phase
    /\ UNCHANGED <<fs, crawl_vars, query, i, printed>>

\* The loop is over; without results NULL is returned.
WordDone ==
    /\ phase = "filter" /\ left = 0
    /\ IF results = <<>> THEN phase' = "answered" /\ printed' = <<>>
                         ELSE phase' = "search" /\ UNCHANGED printed
    /\ UNCHANGED <<fs, crawl_vars, query, i, results, at, left>>

\* The list in the order of the place that Before gives to every node.
InOrder(list, Before(_, _)) ==
    LET Place(k) == Cardinality({l \in DOMAIN list : l = k \/ Before(l, k)})
    IN  [p \in DOMAIN list |-> list[CHOOSE k \in DOMAIN list : Place(k) = p]]

\* Deviation: MI_SearchResultComparator's order is the one of the result.
SortedUp(list) ==
    InOrder(list, LAMBDA k, l : \/ list[k].rank < list[l].rank
                               \/ (list[k].rank = list[l].rank /\ k < l))

\* LinkedList_Sort, which is stable, with MI_SearchResultComparator, not ascending.
Sorted(list) ==
    InOrder(list, LAMBDA k, l : \/ list[k].rank > list[l].rank
                               \/ (list[k].rank = list[l].rank /\ k < l))

\* Every word is looked up: the results are sorted, returned and printed with the
\* names of their documents.
Answer ==
    /\ phase = "search" /\ i = Len(query) /\ i > 0
    /\ results' = Sorted(results)
    /\ printed' = [k \in DOMAIN results' |->
                      [doc  |-> doc_table.id_to_name[results'[k].doc_id],
                       rank |-> results'[k].rank]]
    /\ phase' = "answered"
    /\ UNCHANGED <<fs, crawl_vars, query, i, at, left>>

\* End of file on standard input: DocTable_Free, MemIndex_Free and exit.
EndOfInput ==
    /\ phase \in {"ready", "answered"}
    /\ phase' = "exit"
    /\ index' = NoWords
    /\ doc_table' = [max_id |-> doc_table.max_id,
                      id_to_name |-> <<>>, name_to_id |-> [p \in {} |-> 0]]
    /\ UNCHANGED <<fs, stack, doc_id, tab, search_vars>>

Stopped == phase \in {"exit", "aborted"} /\ UNCHANGED vars

Crawl  == CrawlFileTree \/ EnterDir \/ SkipEntry \/ HandleFile \/ LeaveDir
          \/ AddPostingList \/ FileAdded
Search == NoSuchWord \/ FirstWord \/ NextWord \/ Filter \/ WordDone \/ Answer

Next == Crawl \/ Search \/ EndOfInput \/ Stopped \/ \E q \in Queries : ProcessQueries(q)

Spec == Init /\ [][Next]_vars

\* MemIndex_Search runs on by itself; nobody has to ask anything.
FairSpec == Spec /\ WF_vars(Search)

-----------------------------------------------------------------------------
\* The variables keep their types: postings are non-empty and ascending, as
\* MemIndex.h:81 asks of them, and ids are those of the document table.
TypeOK ==
    /\ phase \in {"start", "crawl", "add", "ready", "search", "filter", "answered",
                  "exit", "aborted"}
    /\ stack \in Seq(SUBSET Paths)
    /\ doc_table.max_id \in 1..(Cardinality(Files) + 1)
    /\ DOMAIN doc_table.id_to_name \subseteq 1..(doc_table.max_id - 1)
    /\ DOMAIN doc_table.name_to_id \subseteq Files
    /\ \A w \in DOMAIN index :
          /\ index[w] # NoWords
          /\ DOMAIN index[w] \subseteq 1..(doc_table.max_id - 1)
          /\ \A d \in DOMAIN index[w] :
                LET ps == index[w][d] IN
                /\ ps # <<>>
                /\ \A k, m \in DOMAIN ps : k < m => ps[k] < ps[m]
    /\ i \in Nat /\ left \in Nat /\ at \in Nat
    /\ \A k \in DOMAIN results : results[k].doc_id \in Nat \ {0} /\ results[k].rank \in Nat \ {0}

\* The files the crawl can get at: there, readable, of ASCII text with a word,
\* and with every directory on the way to them open.
Reached ==
    {f \in Files : /\ fs[f].status = "open"
                  /\ \A d \in Under[f] : fs[d].status = "open"
                  /\ Indexable(fs[f].text)}

Finished == phase \in {"ready", "search", "filter", "answered"}
Occur(f, w, atEnd) == Occurrences(fs[f].text, w, atEnd)
Positions(f, w) == LET d == DocTable_GetDocID(doc_table, f)
                   IN  IF d \in DOMAIN Postings(w)
                       THEN {Postings(w)[d][k] : k \in DOMAIN Postings(w)[d]} ELSE {}
QueryWords == UNION {{q[k] : k \in DOMAIN q} : q \in Queries}

\* When the crawl is over (CrawlFileTree.c, FileParser.c, MemIndex.c) the document
\* table numbers documents one to one, and the index has for every word and file
\* the offsets at which the word stands in the file, up to the last boundary.
IndexInvertsFiles ==
    Finished =>
        /\ \A f, g \in DOMAIN doc_table.name_to_id :
              /\ doc_table.id_to_name[doc_table.name_to_id[f]] = f
              /\ f # g => doc_table.name_to_id[f] # doc_table.name_to_id[g]
        /\ \A w \in QueryWords \cup DOMAIN index, f \in Files :
              Positions(f, w) = IF f \in Reached THEN Occur(f, w, FALSE) ELSE {}

\* None of the Verify333s of AddPostingList and LLIterator_Get fails: no document
\* gets to a word twice, and the results' iterator survives its own removals.
NoAbort == phase # "aborted"

\* The comments of the parser, "If a character is alphabetic, it's part of a word"
\* and "inserting a record for each word": every word of a file, the one at
\* its end included, is in the index when the crawl is over.
EveryWordIndexed ==
    Finished =>
        \A w \in QueryWords, f \in Reached : Occur(f, w, TRUE) \subseteq Positions(f, w)

-----------------------------------------------------------------------------
\* The crawled files as a RankedSearch: a document is a path.
Count == [f \in Reached |-> [w \in QueryWords |-> Cardinality(Occur(f, w, FALSE))]]
Ranked == INSTANCE RankedSearch WITH count <- Count, answer <- printed

\* searchshell answers every query with the documents that contain all its words,
\* each once, ranked by how often they do, in the order of their ranks.
ImplementsRankedSearch == Ranked!Spec
=============================================================================
