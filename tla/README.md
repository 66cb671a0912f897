# A verification project for the 333gle search engine

The repository is a search engine in four layers (`src/hw1` to `src/hw4`): containers, an
in-memory inverted index with a crawler and a shell, an index on disk with its readers and a
query processor, and a multithreaded web server in front of it. This directory holds TLA+
modules translated from that code, TLC configurations that check them on small instances, and
theorems about them that TLAPS checks for every size.

`PROJECT.json` lists the components, the runs, the mutation of the code that each property
catches, the source lines behind each definition, the hazards and the theorems.

## The system

| Component | State | Operations | Talks to |
|---|---|---|---|
| LinkedList (`hw1`) | nodes with two pointers, head, tail, count; an iterator's node | push, pop, append, slice, sort, free; iterate, get, remove | the caller's comparator and free function |
| HashTable (`hw1`) | buckets of chains, count | insert, find, remove, free; iterate, remove at the iterator; resize inside insert | LinkedList for its chains |
| FileParser (`hw2`) | none | a file's text to a table word -> positions | HashTable |
| DocTable (`hw2`) | id -> name, name -> id, next id | add, look up both ways | HashTable |
| MemIndex (`hw2`) | word -> document -> positions | add a posting list, search | HashTable, LinkedList |
| CrawlFileTree (`hw2`) | a stack of directories | walk, parse, add to the two tables | file system, FileParser, DocTable, MemIndex |
| searchshell (`hw2`) | the two tables | query loop | CrawlFileTree, MemIndex |
| WriteIndex (`hw3`) | a `FILE*` being written | write tables, checksum, header; unlink on failure | the memory tables, the kernel |
| FileIndexReader, HashTableReader and subclasses (`hw3`) | a `FILE*` each, an offset | check the header; look up words, ids and positions | index files, FileDup |
| QueryProcessor (`hw3`) | a reader pair per index | process a query | the readers |
| ThreadPool (`hw4`) | queue, lock, condition variable, count, flag | construct, dispatch, destroy; the worker loop | the tasks it runs |
| HttpServer, HttpConnection, ServerSocket (`hw4`) | descriptors, one buffer per connection | accept, read and parse requests, answer, hang up | ThreadPool, clients, HttpUtils, FileReader, QueryProcessor |
| HttpUtils, FileReader, HttpRequest/Response (`hw4`) | none | path checks, decoding, escaping; one file read | HttpServer, file system |
| http333d (`hw4`) | the list of indices | the command line; runs the server | HttpServer |
| CRC32 in Utils (`hw3`) | a static table and its flag; the state of a checksum | construct, fold a byte, finish | WriteIndex, FileIndexReader, in any thread |
| hw3fsck (`hw3`) | none | check an index file by itself | index files |
| `exercises/ex4/ro_file`, hw0 | | an exercise; a hello world | |

`gtest/`, `projdocs/` and the solution binaries are test libraries, data and binaries.

### What is hard, and what makes each part correct

* **ThreadPool**: signals while everybody is busy, births and deaths counted under a lock that
  is let go in between, a destructor that finally uses the queue without the lock. Correct if no
  assertion fails, every dispatched task runs exactly once, and constructor, tasks and destructor
  end.
* **HttpServer**: bytes that arrive in arbitrary pieces, pipelined requests, clients that vanish,
  an accept that fails while handlers run. Correct if no byte or descriptor is lost, responses
  come in order, and every complete request is answered once threads become free.
* **Answering requests**: names that are joined to a directory twice, files that vanish between the
  check and the read, links that go out raw and come back decoded. Correct if a file request gets the
  file it names and none from outside, a link leads to its document, a query is taken as it was typed.
* **CRC32**: a table shared by all threads and filled without a lock by the first. Correct if an intact
  index is refused in no other case than the race its author accepted.
* **LinkedList and HashTable**: pointers at the two ends, removal under an iterator, a resize in
  the midst of an insert. Correct if they are a sequence and a map.
* **Crawling and searching**: unreadable and vanishing files, words at the edges of a file, a
  result list that shrinks under its iterator. Correct if the index inverts the files and a query
  yields the documents with all its words, ranked.
* **The index file**: four layers of nested offsets; a kill, a stop of the machine or an error
  between any two writes; streams that share a file offset. Correct if the readers find what was
  written, a checked file is complete, and every read comes from the place sought.

`PROJECT.json` lists these one by one under `hazards`, with the line and the properties.

## Modules

```
TaskPool   <--implements-- ThreadPool      SeqList <--implements-- LinkedList
   ^ INSTANCE                                 ^ is assumed of chains and lists by
HttpServer                                 KVMap <--implements-- HashTable
                                              ^ is assumed of tables by
                                           FileParser <-EXTENDS- SearchEngine --implements--+
IndexFile, FileStreams                                                                      v
                       IndexLayout <-EXTENDS- IndexChecker <-EXTENDS- QueryProcessor -> RankedSearch

HttpUtils <-EXTENDS- WebSite --implements--> Crc32
```

`X_proofs` extends `X` for ThreadPool, HttpServer, LinkedList, HashTable, SearchEngine, IndexFile, FileStreams and
WebSite. What is proved of FileParser and of Crc32 is in the modules for SearchEngine and WebSite, and what is
proved of IndexLayout, IndexChecker and QueryProcessor in the one for IndexFile; the names of IndexFile's
specification (`WriterInit`, `WriterNext`, `WriterSpec`) keep the two apart there.

Each `MC*` module only gives values to constants. A definition with the comment `Deviation:` is a
plausible mistake in the code and is used by no specification; it is there to show that a property
would notice it.

* **TaskPool** is what a user of the pool sees: tasks are pending in order, then at most as many
  active as there are threads, then finished; after closing, all that were dispatched finish.
* **ThreadPool** follows `ThreadPool.cc` statement group by statement group: an action is what a
  thread does from one lock operation (or wait, join, task call) to the next. `pc` and `opc` are
  the places of workers and owner, `q_lock_` the holder, `nextTask` the local variable of that
  name. `Signal` wakes any one sleeper or nobody, `SpuriousWakeup` wakes one for no reason.
  `runs`, a history variable, counts how often each task ran. The owner constructs, dispatches
  and destroys, which is how `HttpServer::Run` and `test_threadpool.cc` use a pool.
* **HttpServer** composes the server with `TaskPool`. A request is two numbered fragments, a read
  takes any number of those that have arrived, and `FirstEnd` and `Rest` are the split of `buffer_`
  in `GetNextRequest`. `Read` that returns nothing, `ReadFails` and `RespondInVain` are the error
  paths; `AcceptFails` is the `false` of `ServerSocket::Accept`, with or without a descriptor. `Crash`
  is a request that ends the process with all its threads (`Alive`), which any whole request may do here; WebSite
  says which of them do.
* **SeqList, LinkedList**: the concrete list is a heap of records, addresses from `Addrs`,
  freed addresses reusable; `LLIterator_Remove` has its four cases as four disjuncts. The sort is
  one comparison per step. The refinement reads the sequence off the `next` pointers.
* **KVMap, HashTable**: the table is buckets of chains; `MaybeResize` allocates, copies one pair
  per step through an iterator and swaps. `KVMap`'s iterator visits every key once, in any order.
* **FileParser** has the loop of `InsertContent` as a recursive function of the number of characters read
  (`Scan`) and, apart from it, a definition of words without a loop (`IsRun`, `Occurrences`) to compare it with.
* **RankedSearch** is what a search promises: all documents that contain every word, once each,
  with the sum of the counts, none before a better one.
* **SearchEngine** crawls a tree (one directory entry, then one word, per step) and answers
  queries (one word, then one result, per step). `EnterDir`, `SkipEntry`, `HandleFile`, `LeaveDir`
  are the branches of `HandleDir`; the stack has for every `HandleDir` in progress the entries it has still to
  handle, a set that is worked off in the order of `alphasort`. `Filter` is the removal loop of `MemIndex_Search` with the
  iterator's place made explicit.
* **IndexFile** is `WriteIndex` seen from the disk: every piece is in the `FILE`'s buffer, in the
  kernel's cache, or on disk; the buffer may be flushed at any write, the kernel may write back
  at any time; the process may be killed, the machine may stop, and each call may fail. `Accepts`
  is the constructor of `FileIndexReader`; the piece that ends the file (`EndPiece`) is in general not the one
  written last, as the writers seek to and fro.
* **IndexLayout** is `WriteIndex` seen from the file: every `fwrite` is a field at an offset, and
  lengths are added up as the writers do; then the readers, which see nothing but the fields. An element to be
  written, the code's `WriteElementFn` with its argument, is a function from the offset it is put at to its fields,
  and `Places` is the loop that puts one piece behind another.
  A character of a document name that is not ASCII is counted and not written: the hole it leaves is
  in the model, and reads as NULs. The length of a word or name is stored in 16 bits (`Int16`): the `fwrite` of a word
  of no bytes, or of a negative number of them, fails (`WordIsWritten`), and of a word of more than 65536
  characters a part is written (`Cut`).
* **IndexChecker** is hw3fsck: its checks of header, buckets and elements, with its own arithmetic of
  offsets. It shares `Read` and the walk through the buckets with IndexLayout's readers.
* **QueryProcessor** writes indices to such files, opens them, and processes queries, a word of
  an index at a step. `InMemory` says what hw2 has built: the names under the document ids, the positions of
  the words, and a bucket count for every table, the one of each word's postings included; the order within a
  chain is some order. `BuildFails` is a word that cannot be written: the file is unlinked and buildfileindex exits.
  Names are compared within an index only. A document of two indices is a result of each, which the
  refinement tells apart by the index's number.
* **Crc32** is the class of that name in `Utils.cc`, as threads use it: every load and store of the static
  table is a step, for the Makefile compiles without optimisation. An entry's value is how far it has
  got; two stores of a shift that was read twice may mix two numbers. Which entries a byte uses is left
  open. The ghost `overlapped` says that two threads have been in `Initialize` at once.
* **HttpUtils** are the functions on strings. A string is a sequence of pieces, a special character, an
  escape or a word each. `realpath` is modelled on a set of directories and files.
* **WebSite** is `ProcessRequest` in every thread, and what is at the other end. The places of
  `ProcessFileRequest` are the two `IsPathSafe`, the read and the content type; a document may be removed
  between any two. `Source` says which file a name leads to, the directory having been put in front of it
  twice, and `Wide` which pieces of a string count as more than one character. A query constructs a CRC32 for each index (the steps of Crc32), searches, and makes a page.
  `FormEncode` and `LinkURI` are the browser, which follows links from any page. `Start` is `GetPortAndPath`.
  A thread that throws, or that refuses an index, ends the process (`Alive`).
* **FileStreams** is stdio over the kernel as the readers use it: a buffer per stream, a file
  offset per open file description, and `FileDup` that makes another stream on the same one. Where
  the C library has a choice (`fseek` outside the buffer, `fclose` of a stream that was read ahead), the
  model leaves it open.

## Runs

| Run | Instance | What it shows |
|---|---|---|
| `thread_pool` | 3 workers, 4 tasks | no assertion fails, no signal is lost, every task runs once, constructor, tasks and destructor end, TaskPool is implemented with its progress |
| `http_server` | 1 thread, 2 clients, one of which sends 2 requests | descriptors, streams and order stay right; requests are answered and shutdown ends if clients leave, unless a request ends the process |
| `http_close` | the same | *violation*: a request with `Connection: close` is never answered |
| `linked_list` | 4 nodes, 3 payloads, two of them equal | pointers stay consistent, the sort is stable and ends, the list is a sequence |
| `hash_table` | 4 keys, 1 then 9 buckets, 2 values | chains, load and count stay right through a resize; table and iterator are a map |
| `search_engine` | 6 paths, 4 texts, 14 queries | the index inverts the reachable files; queries are answered in full and ranked |
| `last_word` | the same | *violation*: a word that ends with its file is not indexed |
| `index_file` | 4 pieces | the header comes last, a checked file is complete, failures leave no file |
| `index_durable` | the same | *violation*: `fsync` misses the header, which is still in the buffer |
| `query_processor` | 54 pairs of indices that share a document, 2 indices of a long word; tables of 2, 16 and 1 or 9 buckets; 7 queries | the file is tiled but for holes in names, hw3fsck accepts it, the readers find what was written, queries are answered in full and ranked, by each index |
| `file_streams` | 3 copies of one file in a thread, another file in a second thread, 3 units | every read comes from where it was sought |
| `web_site` | 2 threads, 2 table entries, 1 shift, 1 byte; 4 documents, one of which may be removed; 4 queries, 5 other URIs; 5 command lines, 2 directory names, one of which leads to a subdirectory of the same name | static files are served from where they should be, links lead to their documents, queries are understood, an intact index is refused only in the admitted race |

### The bounds, and why they suffice

* Three workers are the fewest with one asleep, one working and one on its way, and a fourth task
  makes the queue longer than those who are awake.
* One thread and two clients make one connection wait behind another; two requests on a connection
  are the fewest that can be pipelined, and two fragments the fewest that can be cut.
* Four nodes contain a head, a tail, a middle and a spare to allocate. Two equal payloads and a
  larger one tell a stable sort from an unstable one.
* Three of the four keys share a bucket of nine, and all share the only one before the resize;
  the resize comes at the fourth insert.
* The tree has a file before, inside and after a subdirectory, and an entry that is neither; a
  directory can be closed, a file closed or gone. The texts contain a word again, in capitals, next
  to another, at the end, behind a null byte, and a byte that is not ASCII. Queries have up to
  three words, so that a result list shrinks twice.
* Four pieces leave two between the first and the last. The theorems cover every number.
* The written tables have the bucket counts they have in the code: 2 for the documents, 16 for the words, and 1 for the
  documents of a word, or 9 for a word in four documents. No two of these are equal, so that a reader, writer
  or checker that takes one table's count for another's is noticed. Buckets hold zero, one and more elements, at
  both levels of nesting.
* A word of 40000 letters makes its length negative in 16 bits, one of 65538 makes it 2. The two indices of a pair
  have a document in common.
* Three units and buffers of one (`setbuf(f, NULL)`) and two allow seeks inside, at the end of
  and outside the buffer. A stream that was closed is not opened again, so that the run
  really stops when all are closed; its deadlock check is off for that reason. Every other
  passing run has it on.

* Two threads are enough for one to fill the table while another fills it, uses it or comes later; two
  entries let one be right and the other not, and one shift is enough to read an entry twice. One byte
  after the header uses any entry. `RefusalsAreRaces` covers every size.
* The names of documents hold a blank, a directory, a '+', and no dot; queries hold blanks at both ends
  and in the middle, a capital, and characters that a form and a page must escape. The two names for
  the directory `/site` are `../site`, which leads from it to itself, and `site`, which leads to `/site/site`. A file of
  the same name lies in both, with other words in it.

### Fairness

* **ThreadPool**: strong fairness for taking the lock: other threads hold it again and again, and
  a mutex that lets a waiter starve for ever would break any user of it. Weak fairness for
  everything a thread does without waiting. Nothing is assumed of signals reaching a particular
  sleeper, of spurious wakeups, or of the owner's next call.
* **HttpServer**: weak fairness for the main thread and each handler, which run on whenever they do
  not wait. Clients owe nothing; `EveryRequestAnswered` and `ShutdownCompletes` assume in their
  statement that clients leave in the end, without which one that stays holds its thread for ever, and except a
  process that a request has ended.
* **LinkedList, HashTable, SearchEngine, QueryProcessor**: a call that has begun runs on; nobody
  has to call. In QueryProcessor the weak fairness of `QueryStep` is written out as
  `[]<>~enabled \/ []<><<QueryStep>>`, with `phase = "index"` for enabled.

### What disagrees with a comment

The three violations are differences between the code and what its comments say of it; `findings`
in `PROJECT.json` quotes them.

### Observations without a run of their own

These follow from the definitions, and properties state them as exceptions where they apply.

* When `fsync` fails, `Verify333` exits, `exit` flushes the `FILE`, and the header reaches a file whose
  tables may not be on disk. `HeaderLast` excludes that state by name (`pc # "aborted"`), while
  `CheckedIndexIsComplete` covers it: a reader that validates still refuses an incomplete file.
* `FileDup` makes copies that share a file offset, while `Utils.h:111-114` recommends them for threads.
  With a copy in a second thread `ReadsWhereSought` fails after a few steps; `http333d` is not exposed,
  since it opens the indices anew for every request. The run gives each thread an open file of its own.
* The directory of static files is put in front of a name by `ProcessFileRequest` and again by
  `FileReader`. A name that survives this leads from the directory to itself (`SelfRelative`), as `.` and `../x` do. With
  another, `a`, `FileReader` reads `a/a/x` for `a/x`: where there is a directory `a/a` with a file `x`, and `a/x` is
  there too, the wrong one is served with 200, and otherwise the answer is a 404 although `a/x` exists. `StaticServed`
  says so by `Source`, and the run has both cases. With the root as the directory, whose path splits into two empty tokens,
  every file is a 404 as well (`BasePath = <<>>`).
* The extension keeps its dot, so that every file is sent as `text/plain`; a file whose name has no dot
  throws `out_of_range` and ends the server, and so does a directory, or a file that vanishes, if the
  uninitialised length happens not to be 0.
* A link to a document with '+', '?', '#', a quote or an escape in its name leads elsewhere (`Linkable`).
* If two threads overlap in filling the CRC table, entries can stay wrong for good; an index is then refused and
  the server exits. The comment in `Utils.cc` accepts the race.
* `http333d` keeps an index that it has reported as invalid, and the first query ends the server.
* A document name that is not ASCII comes back from the index with NULs at its end, and two names of one index that
  differ only there come back as one. `CorporaAssumption` keeps such pairs out.
* `QueryProcessor` puts the results of one index behind those of another: a document in two index files is answered
  twice, with the rank it has in each. `ImplementsRankedSearch` counts a document of each index for itself.
* A run of 32768 to 65535 letters in one of the files, or of 65536, has a length that 16 bits make negative or 0: no index is
  written (`BuildFails`). Of a longer run the index holds a part, in most cases. `ReadersFind` and
  `ImplementsRankedSearch` except indices with such words (`Short`), `LayoutTiled` does not.
* A request whose handling throws, or an index that fails a `Verify333`, ends the process, and with it every other
  connection (`Crash`). `EveryRequestAnswered` and `ShutdownCompletes` except it.

## Proofs

**ThreadPool_proofs**, for every number of workers and of tasks (`NumThreads`
positive and `MaxTasks` natural, as the two assumptions of `ThreadPool` say). `Spec` alone is
assumed, no fairness. The invariant `Inv` has three parts, each with a lemma for `Init` and one
for the steps, a case for each action:

* `ControlInv`: types; the lock's holder is the thread in a critical section (`LockInv`);
  `num_threads_running_` is the number of living workers (`CountInv`), which needs facts on
  cardinalities; and what the owner's place says of the workers (`PhaseInv`): before the constructor
  returns none is past its birth uncounted, and those the destructor has joined are dead.
* `SignalInv`: a worker about to wait has seen the queue empty, and `NoLostSignal`. Neither is
  inductive without the other: a worker that goes to sleep with tasks queued would break the
  second, and only the first says that there are none.
* `TaskInv`: who holds a task is running it; `ExactlyOnce`, which is inductive only with it.

From `Inv` follow the seven safety properties of the run, and with it `PoolImplementsTaskPool`: initial
states are `TaskPool`'s, and every step is one of its steps or changes nothing it sees.

**IndexFile_proofs** is about the index files of hw3, in two parts. The first is for any indices and queries that
`CorporaAssumption` and `QueriesAssumption` describe: what hw2 builds in memory, every table with a bucket count of its
own, names of one index that stay apart without their characters that are not ASCII, and queries with a word at
least. Names have less than 4096 bytes, as a longer path is not opened. Of the functions on strings it is assumed
only that a name is as long as its ASCII characters exactly if it has no others, that a word cut at its own length is the
word, and that None is no offset.

* *Layout.* `Fits(w, at)` says of what a writer has put at an offset that its fields lie in its bytes and
  do not overlap. Pieces written one behind the other (`Places`) fit if each does, with nothing between them (`TableIs`);
  so does a table of elements that fit (`KeyedPlaced`), hence a list of positions (`DocIDFits`), a word with its nested
  table (`WordFits`), and the file. That there are no bytes besides is `FileTiled`: a byte that no field has is
  behind a name, and `Holes` are those bytes as the readers find them. `FilesTiled` follows, for words of every
  length: what counts is that writers add up the length they have stored.
* *Readers.* In a file whose fields do not overlap, `Read` at the offset of a field finds that field, also in
  a nested table, which is a part of the file. So the elements that a lookup goes through are those of the key's
  bucket (`LookupIs`), and the first that matches is the one written (`FirstStored`); `NameFound`, `WordFound` and
  `PositionsFound` say what that means for the three kinds of table. `FilesReadBack` follows, for the indices
  whose words have less than 32768 letters (`Short`).
* *Checker.* hw3fsck sees the same fields: bucket positions rise because places do (`KeyedBucketsCheck`), keys are in
  their buckets (`DocIDsCheck`), and positions rise because `InMemory` has them so. `FilesAccepted` has one hypothesis
  more, that no word has 8192 characters and no list a million positions, which are hw3fsck's own limits.
* *Queries.* `FilesInv` says that the files are those of the indices. `QueryInv` says of a query under way that what the
  current index has given is right for the words done (`PartialFor`), and the results for the indices done
  (`ResultsFor`): no document is missing, none is there twice, and ranks are sums. Leaving an index early is right because
  none of its documents has all words (`ResultsSkip`); two indices give different results because
  a result has the number of its index (`ResultsAppend`), although the document may be the same.
  `QueriesAreRankings` is the safety half of `ImplementsRankedSearch`, which says nothing of a list of indices with a
  word of 32768 letters or more (`AllShort`).

The second part is for every number of pieces: `WriterInv` says besides the types what can be in the
buffer (`BufferInv`), that checksum and pieces are there before the header is written (`FileInv`), and
that the header leaves the buffer only when `fsync` has seen to the pieces (`DiskInv`). `HeaderLast`,
`CheckedIndexIsComplete` and `FailureLeavesNothing` follow.

**WebSite_proofs**, on Crc32 and on WebSite, for any number of threads, entries, shifts and bytes. `CrcInv` says,
of a table that nobody has filled twice at once, which entries are right while somebody fills it, and
that all are once the flag is set; the filler's own counters and register are part of it. `ServerUsesCrc32`
shows that every step of the server is a step of Crc32 or leaves its variables alone, so that the
invariant carries over: `RefusalsAreRaces`.

The second half is about the strings of requests, for every layout of directories, every set of documents
and every text. It rests on the assumptions of WebSite and HttpUtils alone, which say what names, requests
and arguments look like and what the tables of escapes and entities hold.

* *Functions of HttpUtils.* `TokJoin` and `TokAppend` say what `boost::split` makes of a string by
  where the separators are, `TokApart` that tokens tell what they were cut from. `realpath` is a walk: `Strides` and
  `Descends` say where it leads, `Repeated` that a directory put in front twice leads where it leads once
  if its name leads from it to itself, `SafeIs` that `IsPathSafe` holds of what lies below the directory. There are lemmas
  of the same kind on `ParseRequest`, `URLParser`, `URIDecode` and `trim`. `EscapedIs` shows that the five
  replacements of `EscapeHtml`, done one after the other, are one substitution of single characters: none
  of them touches what another has put in, because `&` comes first.
* *Files.* `StaticInv` says of a thread between two steps what it has found out so far (`Reached`) and of an answer
  why it was given (`Deserves`, `Served`), while other threads remove documents: `FilesServed`. `NameLeads` and
  `TargetsAre` say where the name leads with the directory in front of it once and twice; of the directories
  nothing is assumed but that their names lead to an existing one.
* *Links.* `LinkInv` says that the request for a link has the path of the document the link is about:
  `LinksFollowed`.
* *Queries.* `WordsOfTokens` shows that the tokens of `split` with `token_compress_on`, which can be empty
  at either end, are the typed words after `trim`; `ArgOfQuery` that the form's field comes out of the URL as it
  went in. `QueryInv` carries this from the request to the page: `QueriesUnderstood`.

That tokens of a string are what they are is an induction along the string, proved by the least place
where it would fail, as for the list.

**HttpServer_proofs**, for any number of clients, threads and requests. `Inv` says where each connection is
(with the main thread, in the queue, with a handler, finished, one at a time) and that its descriptor is open
accordingly; that buffer and wire together hold the fragments behind the last parsed request, index by
index; and that a client with a handler is answered as far as its requests were read. `NoDescriptorLeak`,
`StreamIntact` and `AnswersInOrder` follow. `UsesTaskPool` shows that each step of the server is one
of TaskPool's or leaves the pool alone. With `PoolImplementsTaskPool` this is the composition: what the server
relies on is what the pool's code does. A process that has crashed keeps all these invariants, which are of the
streams and descriptors as it left them.

**FileStreams_proofs**, for any numbers of threads and streams, any size of the file and of the buffers, under one
hypothesis, `OwnDescriptions`: no two threads have streams on one open file description. http333d satisfies it, as
it opens the indices anew for every request. `Inv` says that a buffer holds what stands in the file
before its end, and that the stream a thread reads from is where the thread takes it to be, with the file offset
at the end of its buffer; between two reads neither need hold of a copy. `ReadsWhereSought` is not inductive
without these two.

**LinkedList_proofs**, for any addresses and payloads. `Linked` says that the auxiliary sequence `order` is what
both chains of pointers run through, and that all other nodes are free. Push and append insert into such a sequence, pop,
slice and the four cases of remove unlink from it (`Inserts`, `Unlinks`), and the sort only exchanges
payloads. That `LinkedList_Free`, which follows the pointers, frees exactly the nodes of the list is an induction
along the list; it is proved by taking the least index that would be missed (`LeastElement`, from the
well-foundedness of < on Nat), since an induction rule cannot be instantiated.

`ListImplementsSequence` is the whole of `ImplementsSeqList`. The calls outside the sort need only `Linked`: the payloads
along `order` are SeqList's list, and an iterator's place is where its node stands in `order`. The sort needs an
invariant of its own (`Sorting`): the payloads are a permutation of the unsorted ones that keeps those of one
rank in their order (`Arranged`, kept since only neighbours of different ranks are exchanged: `SwapArranged`), and a pass
that has exchanged nothing so far has found the neighbours behind it in order. A pass that ends so has found all
neighbours in order, hence, by a least counterexample (`Chain`), any two.

**HashTable_proofs**, for any keys, values and first number of buckets. `Good` says of a table that its
chains hold what hashes to them, once, and that its count is the number of its places and also of its keys. The
second count is what bounds the load: the table being filled holds some of the keys of the old one and
has nine times its buckets. `PutGood` and `TakeOutGood` show that insertion and removal keep a table good,
`NextPlaced` that an iterator moves to another pair or past the end, which is why `HTIterator_Remove` may
remove the pair it came from. `TypeCorrect` has the hypothesis that the constant `Nothing` is no table.

`TableImplementsMap` is the whole of `ImplementsMap`: every step is one of KVMap's, or changes neither the map nor the
iterator nor the result. The map is the set of pairs (`PairsOf`); during a resize the new table has the pairs
the walk has passed (`Copied`), so that the exchange of the two tables at the end changes nothing; what an
iterator has before it (`AheadOf`) loses one key with each of its steps (`NextAhead`) and none when the pair behind it
is removed (`RemovedAhead`).

**SearchEngine_proofs**, for any tree, texts and queries. `TreeAssumption` says that the paths are those of a tree
(on the way to a path lie the directories on the way to any one of them, and the next one is an entry of it),
`DataAssumption` that texts and words are sequences and that NULL, no query and no answer are none; the code
needs no more. Nothing is assumed of what is closed, gone or in the files.

* `ParsedTable` is about FileParser alone. `ScanInv` says what the loop has after so many characters: where
  the word under way began, and the ended runs of letters of every word, in order (`ScanInvHolds`, an induction over the
  places of the text, by the least place where it would fail). `FoundIsOccurrences` turns this into `Occurrences`.
* `CrawlInv` says that the entries on the stack are disjoint, lie in open directories, that none of them lies in
  another or has been handled, and that a file that can be reached is handled, has no words, or lies in one that
  waits (`Covered`). Without the first half a file could be handled twice; without the second one could be missed.
* `Numbering` says that ids and names are inverse to each other, and `IndexInv` that the index has of every
  handled file what its table has, but for the words that `HandleFile` has still to put there (`InTable`), and
  of those nothing. This is why `AddPostingList` never meets its document.
* `SearchInv` says that the results before the iterator have been dealt with for the word being looked up, those from
  it on for the word before; that none is there twice and none is missing; and that the iterator is as
  far from the end as the loop has turns left, which is why removing the tail under it does no harm.

`IndexInvertsFiles`, `NoAbort` and `TypeOK` follow. `AnswersAreRankings` is the safety half of
`ImplementsRankedSearch`: a step that prints is RankedSearch's `Reply`, where sorting is a permutation
(`SortedIs`) and the length of a list of positions the number of occurrences (`IndexCount`).

The type invariants of HttpServer, FileStreams, LinkedList, HashTable and IndexFile are proved and not among the
runs' invariants.

Only model-checked: all liveness properties and the fair half of the refinements (liveness and
`ENABLED` are beyond the prover). Every safety invariant of a passing run is stated by a theorem.

## Not modelled

* The text of responses and of the page apart from what is shown and linked; `WrappedRead` and
  `WrappedWrite` but for what they return; `ConnectToServer` and `GetRandPort`, which only tests use.
* `BindAndListen`, and the command lines of the programs other than http333d, which run once before
  everything else.
* Byte order, and the 32-bit widths of offsets and counts in the index file: a value that wraps needs a
  file of gigabytes. The 16 bits of the lengths of words and names are modelled.
* Collisions of the 64-bit hash: FileParser and SearchEngine take a word for its own hash, and in QueryProcessor an
  index has one word for one hash. At a collision `Verify333(strcmp(...) == 0)` ends the program, in `MemIndex.c:139`
  and `FileParser.c:271`.
* How searchshell reads a line: `sscanf` with the input as its format (`searchshell.c:143-146`), where a `%` in the
  query is taken for a conversion, the lower-casing and `strtok`. Its queries arrive as sequences of words.
* The value of a CRC32: `IndexFile` takes the checksum to tell apart any two contents, which it does with
  overwhelming probability, and `Crc32` takes one made of right entries to be right.
* `malloc` failures (the code aborts on them) and memory that is never freed, except in LinkedList.
* `ro_file`, an exercise that nothing uses, and hw0.
* `src/projdocs/test_tree`: some 160000 of the 168000 lines of C and C++ in the repository are sample
  documents for the crawler to index, among them the complete sources of bash 4.2. They are data of the
  search engine and no part of it; it never compiles or runs them. What is counted of them as implementation cannot be
  modelled as the system's behaviour. The search engine has some 5500 lines without its tests, and
  `map` names the definitions for nearly all of those that do more than print.

## Plan

Done, in the order of importance: thread pool; server; containers; index file; crawler and search;
layout and query processor; streams; CRC32; the answers to requests; hw3fsck; and the proofs of the safety
invariants of pool, server, containers, crawler and search, index files and queries, streams, CRC32 and the answers
to requests, and of the refinements of pool, server, containers and both searches.

Left out of all this, and possible: offsets of 32 bits in `IndexLayout`, with the size of a file as a bound.
