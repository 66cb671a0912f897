------------------------------ MODULE WebSite ------------------------------
(***************************************************************************)
(* What the threads of the web server do with a request: ParseRequest and  *)
(* ProcessRequest of hw4.  A request for a file is answered from the directory *)
(* of static files, through IsPathSafe and FileReader; a query opens every *)
(* index, which checks it with Crc32, and its results become a page of     *)
(* links.  Around it are the browsers, which encode what is typed, cut a   *)
(* link out of a page and follow it, and someone who removes documents.    *)
(*                                                                         *)
(* How requests and responses travel is in HttpServer.  The indices were   *)
(* built in the directory of static files, so the names of documents are   *)
(* paths that start from it.                                               *)
(*                                                                         *)
(* An argument is "index" (the name of an intact index), "gone" (a name in *)
(* .idx of a file that is not there, or not an index), "other" (a name     *)
(* without .idx) or "short" (one of less than four characters).            *)
(***************************************************************************)
EXTENDS HttpUtils, Crc32, FiniteSets

CONSTANTS
    BaseDirs,     \* bound: what the server's second argument may be
    BasePath,     \* the directory it names
    Arguments,    \* bound: what may follow it on the command line, see below
    DocNames,     \* bound: the names of the documents
    Words,        \* Words[d]: the words of a document, which are also its contents
    Typed,        \* bound: what users type into the search field, in ASCII
    StaticURIs,   \* bound: the other URIs that are asked for
    Removable,    \* bound: the documents that somebody may remove
    Wide          \* the pieces of more than one character; none has a dot in it

\* GetPortAndPath asks no more than that the second argument names a directory.
ASSUME BaseDirsAssumption ==
    /\ BasePath \in Dirs
    /\ \A dir \in BaseDirs :
          dir \in Seq(Seqs!ToSet(dir)) /\ dir # <<>> /\ RealPath(dir, {}) = BasePath

NamePath(name) == BasePath \o Split(name, "/")
\* Names of documents are what CrawlFileTree puts together; none has an end of line in it.
ASSUME DocNamesAssumption ==
    /\ \A d \in DocNames :
          /\ d \in Seq(Seqs!ToSet(d)) /\ "CRLF" \notin Seqs!ToSet(d)
          /\ Seqs!ToSet(Split(d, "/")) \cap {<<>>, <<".">>, <<".", ".">>} = {}
          /\ \A n \in 0..(Len(Split(d, "/")) - 1) : BasePath \o SubSeq(Split(d, "/"), 1, n) \in Dirs
    /\ Removable \subseteq DocNames /\ None \notin {NamePath(d) : d \in DocNames}

\* What is typed is no escape, and what has a meaning in a URL has one.
ASSUME RequestsAssumption ==
    /\ \A text \in Typed :
          /\ text \in Seq(Seqs!ToSet(text))
          /\ Seqs!ToSet(text) \cap (DOMAIN Escapes \cup {"CRLF"}) = {}
          /\ Seqs!ToSet(text) \cap {"?", "&", "=", "+"} \subseteq {Escapes[e] : e \in DOMAIN Escapes}
          /\ \A e \in DOMAIN Escapes : Escapes[e] \in Seqs!ToSet(text) => Escapes[e] \in Printable
    /\ \A u \in StaticURIs : /\ u \in Seq(Seqs!ToSet(u)) /\ u # <<>>
                              /\ Seqs!ToSet(u) \cap {" ", "CRLF"} = {}

ASSUME ArgumentsAssumption == Arguments \subseteq Seq({"index", "gone", "other", "short"})

Documents == {NamePath(d) : d \in DocNames}
Contents(path) == CHOOSE w \in {Words[d] : d \in {n \in DocNames : NamePath(n) = path}} : TRUE

VARIABLES
    at,       \* where a thread is, see below
    asked,    \* what the browser wanted: [kind, text], text typed, a document or a URI
    uri,      \* what it asked for
    opened,   \* how many indices QueryProcessor's constructor has opened
    page,     \* the response
    files,    \* the documents that have not been removed
    base_dir,
    indices,  \* the server's list of indices; all arguments before it has started
    server    \* "start", "serving", or "over": http333d has ended before it served

config  == <<base_dir, indices, server>>
webVars == <<at, asked, uri, opened, page, files, config>>
vars == <<crcVars, webVars>>

(***************************************************************************)
(*   idle     no request yet             path    before the first IsPathSafe*)
(*   read     before that of ReadFile    load    before ReadFileToString   *)
(*   type     before the content type    query   opening the indices       *)
(*   search   all of them are open       answered  the response is written *)
(*   closed   the client has asked to be hung up on                        *)
(*   crashed  an exception nobody catches ends the process                 *)
(***************************************************************************)
NoPage == [kind |-> "none"]

Init ==
    /\ CrcInit
    /\ at = [t \in Threads |-> "idle"]
    /\ asked = [t \in Threads |-> [kind |-> "none"]]
    /\ uri = [t \in Threads |-> <<>>]
    /\ opened = [t \in Threads |-> 0]
    /\ page = [t \in Threads |-> NoPage]
    /\ files = Documents
    /\ base_dir \in BaseDirs /\ indices \in Arguments
    /\ server = "start"

\* The process runs and has not come to an end.
Alive == server = "serving" /\ \A t \in Threads : at[t] # "crashed" /\ pc[t] # "refused"

\* GetPortAndPath: Usage without a name in .idx, an exception for a short one; a file
\* that stat does not find is reported and kept.
Start ==
    /\ server = "start"
    /\ indices' = Seqs!FlattenSeq([k \in DOMAIN indices |->
                      IF indices[k] \in {"index", "gone"} THEN <<indices[k]>> ELSE <<>>])
    /\ server' = IF indices' = <<>> \/ "short" \in Seqs!ToSet(indices) THEN "over" ELSE "serving"
    /\ UNCHANGED <<crcVars, at, asked, uri, opened, page, files, base_dir>>

-----------------------------------------------------------------------------
\* The browsers.

\* A form's text: blanks become '+', what is special an escape.
FormEncode(text) ==
    [k \in DOMAIN text |->
        IF text[k] = " " THEN "+"
        ELSE IF \E e \in DOMAIN Escapes : Escapes[e] = text[k]
             THEN CHOOSE e \in DOMAIN Escapes : Escapes[e] = text[k]
        ELSE text[k]]

QueryURI(text) == <<"/", "query", "?", "terms", "=">> \o FormEncode(text)

\* "../static/" from the page "/query", and the name as far as the quote that ends
\* the attribute, or a '#'; the browser encodes blanks and nothing else.
LinkURI(name) ==
    LET ends == {k \in DOMAIN name : name[k] \in {"'", "#"}}
        href == IF ends = {} THEN name ELSE SubSeq(name, 1, Seqs!Min(ends) - 1)
        Blank == CHOOSE e \in DOMAIN Escapes : Escapes[e] = " "
    IN  <<"/", "static", "/">> \o
        [j \in DOMAIN href |-> IF href[j] = " " THEN Blank ELSE href[j]]

\* The request for u.
Request(u, connection) ==
    <<"GET", " ">> \o u \o <<" ", "HTTP/1.1", "CRLF">>
    \o <<"Host", ":", " ", "localhost", ":", "5555", "CRLF">>
    \o <<"Connection", ":", " ", connection, "CRLF", "CRLF">>

\* The requests that browsers make, and what ParseRequest makes of each.
Requests ==
    {Request(u, "keep-alive") : u \in {QueryURI(text) : text \in Typed} \cup StaticURIs
                                     \cup {LinkURI(name) : name \in DocNames}}
    \cup {Request(<<"/">>, "close")}

Parsed == [r \in Requests |-> ParseRequest(r)]

IsStatic(u) == Seqs!IsPrefix(<<"/", "static", "/">>, u)

\* A thread has read a request: does it say to close, and is it a file or a query?
Receive(t, what, request) ==
    LET parsed == Parsed[request]
        Asks(value) == /\ <<"connection">> \in DOMAIN parsed.headers
                       /\ parsed.headers[<<"connection">>] = value
    IN  /\ at[t] \in {"idle", "answered", "closed"}
        /\ asked' = [asked EXCEPT ![t] = what]
        /\ uri' = [uri EXCEPT ![t] = parsed.uri]
        /\ at' = [at EXCEPT ![t] = IF Asks(<<"close">>) THEN "closed"
                                   ELSE IF IsStatic(parsed.uri) THEN "path" ELSE "query"]
        /\ opened' = [opened EXCEPT ![t] = 0]
        /\ page' = [page EXCEPT ![t] = NoPage]
        /\ UNCHANGED <<crcVars, files, config>>

Type(t, text) ==
    Receive(t, [kind |-> "typed", text |-> text], Request(QueryURI(text), "keep-alive"))

Visit(t, u) == Receive(t, [kind |-> "uri", text |-> u], Request(u, "keep-alive"))

Part(t) == Receive(t, [kind |-> "parting"], Request(<<"/">>, "close"))

\* Somebody follows a link on a page.
Follow(t, name) ==
    /\ \E u \in Threads : page[u].kind = "results" /\ name \in page[u].links
    /\ Receive(t, [kind |-> "link", text |-> name], Request(LinkURI(name), "keep-alive"))

Remove(name) ==
    /\ NamePath(name) \in files
    /\ files' = files \ {NamePath(name)}
    /\ UNCHANGED <<crcVars, at, asked, uri, opened, page, config>>

-----------------------------------------------------------------------------
\* ProcessFileRequest.

\* Deviation: the slash after "/static" is cut off, too.
FileNameNoSlash(t) == base_dir \o SubSeq(Path(uri[t]), 4, Len(Path(uri[t])))

\* base_dir + up.path().substr(7); "/static" is two pieces.
FileName(t) == base_dir \o SubSeq(Path(uri[t]), 3, Len(Path(uri[t])))

\* basedir_ + "/" + fname_, where fname_ starts with base_dir itself.
FullFile(t) == base_dir \o <<"/">> \o FileName(t)

\* find_first_of(".", 2) finds a dot: one that is not the first or the second character.
HasExtension(name) ==
    \E k \in DOMAIN name : name[k] = "." /\ (k > 2 \/ (k = 2 /\ name[1] \in Wide))

Answer(t, response) ==
    /\ page' = [page EXCEPT ![t] = response]
    /\ at' = [at EXCEPT ![t] = "answered"]
    /\ UNCHANGED <<crcVars, asked, uri, opened, files, config>>

Goto(t, place) ==
    /\ at' = [at EXCEPT ![t] = place]
    /\ UNCHANGED <<crcVars, asked, uri, opened, page, files, config>>

NotFound(t) == Answer(t, [kind |-> "not found", shown |-> EscapeHtml(FileName(t))])

CheckPath(t) ==
    /\ at[t] = "path"
    /\ IF IsPathSafe(base_dir, FileName(t), files) THEN Goto(t, "read") ELSE NotFound(t)

\* FileReader::ReadFile.
CheckFullFile(t) ==
    /\ at[t] = "read"
    /\ IF IsPathSafe(base_dir, FullFile(t), files) THEN Goto(t, "load") ELSE NotFound(t)

\* ReadFileToString, and a string made of what it returns.
ReadFile(t) ==
    /\ at[t] = "load"
    /\ LET path == RealPath(FullFile(t), files)
           body == IF path \in files THEN Contents(path) ELSE {}
       IN  page' = [page EXCEPT ![t] = [kind |-> "file", body |-> body]]
    /\ at' = [at EXCEPT ![t] = "type"]
    /\ UNCHANGED <<crcVars, asked, uri, opened, files, config>>

\* It is NULL for what is not a file, or is not there any more; len is then
\* uninitialised: the string is empty, as above, or its constructor throws.
ReadNothing(t) ==
    /\ at[t] = "load" /\ RealPath(FullFile(t), files) \notin files
    /\ Goto(t, "crashed")

\* The extension keeps its dot, so that every file is text/plain; substr throws if
\* there is none.
SetContentType(t) ==
    /\ at[t] = "type"
    /\ IF HasExtension(FileName(t)) THEN Answer(t, page[t]) ELSE Goto(t, "crashed")

-----------------------------------------------------------------------------
\* ProcessQueryRequest.

\* The words of a query: boost::split with token_compress_on of a trimmed text; of
\* nothing it makes an empty word.
QueryWords(input) == Seqs!ToSet(SplitCompressed(input, " "))

Input(t) == Trim(ToLower(Arg(uri[t], <<"terms">>)))

\* QueryProcessor's constructor opens the next index.
OpenIndex(t) ==
    /\ at[t] = "query" /\ opened[t] < Len(indices)
    /\ indices[opened[t] + 1] = "index"
    /\ Construct(t)
    /\ UNCHANGED webVars

\* fopen, or the look at the magic number, fails a Verify333.
OpenNoIndex(t) ==
    /\ at[t] = "query" /\ opened[t] < Len(indices)
    /\ indices[opened[t] + 1] = "gone"
    /\ Goto(t, "crashed")

CheckIndex(t) == CrcStep(t) /\ UNCHANGED webVars

IndexAccepted(t) ==
    /\ Accept(t)
    /\ opened' = [opened EXCEPT ![t] = @ + 1]
    /\ UNCHANGED <<at, asked, uri, page, files, config>>

\* The Verify333 of FileIndexReader exits: the server is gone.
IndexRefused(t) == Refuse(t) /\ UNCHANGED webVars

\* ProcessQuery, as RankedSearch has it, without the ranks, and the page.
Search(t) ==
    /\ at[t] = "query" /\ opened[t] = Len(indices)
    /\ pc[t] = "none"
    /\ Answer(t, [kind  |-> "results",
                  shown |-> EscapeHtml(Input(t)),
                  links |-> IF Input(t) = <<>> THEN {}
                            ELSE {d \in DocNames : QueryWords(Input(t)) \subseteq Words[d]}])

-----------------------------------------------------------------------------
Handle(t) ==
    \/ CheckPath(t) \/ CheckFullFile(t) \/ ReadFile(t) \/ ReadNothing(t) \/ SetContentType(t)
    \/ OpenIndex(t) \/ OpenNoIndex(t) \/ CheckIndex(t) \/ IndexAccepted(t) \/ IndexRefused(t)
    \/ Search(t)

Browse(t) ==
    \/ \E text \in Typed : Type(t, text)
    \/ \E u \in StaticURIs : Visit(t, u)
    \/ \E name \in DocNames : Follow(t, name)
    \/ Part(t)

Over == server # "start" /\ ~Alive /\ UNCHANGED vars

Next ==
    \/ Start
    \/ Alive /\ \E t \in Threads : Handle(t) \/ Browse(t)
    \/ Alive /\ \E name \in Removable : Remove(name)
    \/ Over

Spec == Init /\ [][Next]_vars

-----------------------------------------------------------------------------
(***************************************************************************)
(* What is expected of the answers, said without the parsing.              *)
(***************************************************************************)

\* The name a request means, its file, and whether it is in the directory.
Meant(t)  == base_dir \o <<"/">> \o SubSeq(Path(uri[t]), 4, Len(Path(uri[t])))
Target(t) == RealPath(Meant(t), Documents)
InBase(path) == path # None /\ Seqs!IsPrefix(BasePath, path)

\* base_dir leads from the directory to the directory itself, as "." and "../x" do.
SelfRelative == RealPath(base_dir \o <<"/">> \o base_dir, {}) = BasePath

\* The file a request is answered with.  FileReader puts base_dir in front of a name
\* that starts with it already, which is as good as the name only if SelfRelative: with
\* "a" it leads to a/a/x instead of a/x, and mostly nowhere.
Source(t) == IF SelfRelative THEN Target(t)
             ELSE RealPath(base_dir \o <<"/">> \o Meant(t), Documents)

Missing(path) == ~InBase(path) \/ path \in Documents \ files

\* A request for a static file (HttpServer.cc, FileReader.cc, HttpUtils.cc) is
\* answered with the contents of the file it names, or with 404.  A file is served only
\* from below the directory, and only if the name, too, leads there.  404 says that a
\* file is not there, or not below, or that the directory is the root (which has two
\* tokens, both empty).  An exception ends the server, or a file comes out empty, only
\* for directories, files that vanish under the request, and names without a dot.
\* Exception: without SelfRelative the file is the one at Source(t), not the one named.
StaticServed ==
    \A t \in Threads : IsStatic(uri[t]) =>
        LET target == Target(t)
            source == Source(t)
        IN  /\ page[t].kind = "file" =>
                  /\ InBase(target) /\ InBase(source)
                  /\ \/ source \in Documents /\ page[t].body = Contents(source)
                     \/ source \notin files /\ page[t].body = {}
            /\ page[t].kind = "not found" => BasePath = <<>> \/ Missing(target) \/ Missing(source)
            /\ at[t] = "crashed" => source \notin files \/ ~HasExtension(Meant(t))

\* Names that go through a page, a browser and URLParser unharmed, since
\* ProcessQueryRequest writes them into its links as they are.
Linkable(name) ==
    /\ {name[k] : k \in DOMAIN name} \cap ({"+", "?", "'", "#"} \cup DOMAIN Escapes) = {}
    /\ HasExtension(base_dir \o <<"/">> \o name)

\* A link on a page of results leads to the document it is about, if the document's
\* name is linkable and the document still there.
LinksLead ==
    \A t \in Threads :
        /\ asked[t].kind = "link" /\ at[t] \in {"answered", "crashed"}
        /\ SelfRelative /\ BasePath # <<>>
        /\ Linkable(asked[t].text) /\ NamePath(asked[t].text) \in files
        => page[t] = [kind |-> "file", body |-> Words[asked[t].text]]

\* The words somebody typed: runs without a blank that end at blanks.
TypedWords(s) ==
    LET Between(i, j) == /\ i <= j /\ \A k \in i..j : s[k] # " "
                         /\ (i = 1 \/ s[i - 1] = " ") /\ (j = Len(s) \/ s[j + 1] = " ")
    IN  {SubSeq(s, p[1], p[2]) : p \in {q \in (DOMAIN s) \X (DOMAIN s) : Between(q[1], q[2])}}

\* What is typed comes out of form encoding, URLParser, trim, to_lower and split as
\* the words that were typed, and the page shows it with every special character
\* escaped once.  The server lives to answer, unless it was started with an index that
\* is not one (http333d.cc), and hangs up on who says so, and nobody else.
QueryUnderstood ==
    \A t \in Threads :
     /\ at[t] = "closed" <=> asked[t].kind = "parting"
     /\ asked[t].kind = "typed" =>
        /\ at[t] = "crashed" => \E k \in 1..Len(indices) : indices[k] = "gone"
        /\ at[t] = "answered" =>
              LET text == ToLower(asked[t].text)
                  Shown(p) == IF p \in DOMAIN Entity THEN Entity[p] ELSE <<p>>
              IN  /\ page[t].shown = Seqs!FlattenSeq([k \in DOMAIN Trim(text) |-> Shown(Trim(text)[k])])
                  /\ page[t].links = {d \in DocNames :
                         TypedWords(text) # {} /\ TypedWords(text) \subseteq Words[d]}
=============================================================================
