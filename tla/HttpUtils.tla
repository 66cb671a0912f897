----------------------------- MODULE HttpUtils -----------------------------
(***************************************************************************)
(* The functions of hw4/HttpUtils.cc on strings and paths, and ParseRequest*)
(* of hw4/HttpConnection.cc.                                               *)
(*                                                                         *)
(* A string is a sequence of pieces: a special character ("/", "?", "+",   *)
(* ".", " ", ...), an escape ("%2B"), the end of a line ("CRLF"), or a run *)
(* of other characters.                                                    *)
(***************************************************************************)
EXTENDS Integers, Sequences
Seqs == INSTANCE SequencesExt

CONSTANTS
    Escapes,     \* the escapes, and the piece that each of them stands for
    Printable,   \* the pieces whose code is in 32..127
    LowerCase,   \* the pieces with capitals, and what boost's to_lower makes of them
    Entities,    \* the pieces EscapeHtml replaces, in the order in which it does
    Entity,      \* Entity[p]: the pieces that replace p
    Cwd,         \* the working directory, an absolute path
    Dirs,        \* the directories, as absolute paths: sequences of names
    None

\* An entity brings in nothing that is replaced after it.
ASSUME EntitiesAssumption ==
    /\ Entities \in Seq(DOMAIN Entity)
    /\ DOMAIN Entity = {Entities[k] : k \in DOMAIN Entities}
    /\ \A p \in DOMAIN Entity : Entity[p] \in Seq({Entity[p][k] : k \in DOMAIN Entity[p]})
    /\ \A j, k \in DOMAIN Entities : j < k =>
          /\ Entities[j] # Entities[k]
          /\ \A m \in DOMAIN Entity[Entities[j]] : Entity[Entities[j]][m] # Entities[k]

\* What is written out in this module and in WebSite is no escape, and the blank has one.
ASSUME EscapesAssumption ==
    /\ DOMAIN Escapes \cap {"/", "?", "&", "=", "+", " ", "CRLF", "static", "query", "terms"} = {}
    /\ " " \in Printable /\ \E e \in DOMAIN Escapes : Escapes[e] = " "
    /\ DOMAIN LowerCase \cap {"connection", "terms"} = {}
    /\ "Connection" \in DOMAIN LowerCase /\ LowerCase["Connection"] = "connection"

ASSUME DirsAssumption ==
    /\ <<>> \in Dirs /\ Cwd \in Dirs /\ None \notin Dirs
    /\ \A dir \in Dirs : /\ dir \in Seq({dir[k] : k \in DOMAIN dir})
                          /\ \A k \in DOMAIN dir : dir[k] # <<>>

-----------------------------------------------------------------------------
\* boost::split: the tokens in what was read.  A separator ends a token, which may be
\* empty; with token_compress_on, separators next to each other are one.
Tokenize(s, sep, compress) ==
    LET tokens[n \in 0..Len(s)] ==
            IF n = 0 THEN << <<>> >>
            ELSE LET read == tokens[n - 1]
                 IN  IF s[n] # sep THEN [read EXCEPT ![Len(read)] = Append(@, s[n])]
                     ELSE IF compress /\ n > 1 /\ s[n - 1] = sep THEN read
                     ELSE Append(read, <<>>)
    IN  tokens

Split(s, sep) == Tokenize(s, sep, FALSE)[Len(s)]

SplitCompressed(s, sep) == Tokenize(s, sep, TRUE)[Len(s)]

\* boost::trim and to_lower.
Trim(s) ==
    LET shown == {k \in DOMAIN s : s[k] # " "}
    IN  IF shown = {} THEN <<>> ELSE SubSeq(s, Seqs!Min(shown), Seqs!Max(shown))

ToLower(s) ==
    [k \in DOMAIN s |-> IF s[k] \in DOMAIN LowerCase THEN LowerCase[s[k]] ELSE s[k]]

\* Deviation: a '+' stays one.
URIDecodeNoPlus(s) ==
    [k \in DOMAIN s |->
        IF s[k] \in DOMAIN Escapes /\ Escapes[s[k]] \in Printable THEN Escapes[s[k]] ELSE s[k]]

\* Deviation: the least code that is decoded is 33.
URIDecodeNoBlank(s) ==
    [k \in DOMAIN s |->
        IF s[k] = "+" THEN " "
        ELSE IF s[k] \in DOMAIN Escapes /\ Escapes[s[k]] \in Printable \ {" "}
             THEN Escapes[s[k]]
        ELSE s[k]]

URIDecode(s) ==
    [k \in DOMAIN s |->
        IF s[k] = "+" THEN " "
        ELSE IF s[k] \in DOMAIN Escapes /\ Escapes[s[k]] \in Printable THEN Escapes[s[k]]
        ELSE s[k]]

\* URLParser: the path of a URL, and the value of an argument; args_[field] keeps
\* the last one, and makes up an empty one.  What follows a second '?' is left out.
Path(url) == URIDecode(Split(url, "?")[1])

Arg(url, field) ==
    LET parts == Split(url, "?")
        vals  == IF Len(parts) < 2 THEN <<>> ELSE Split(parts[2], "&")
        fv    == [k \in DOMAIN vals |-> Split(vals[k], "=")]
        named == {k \in DOMAIN vals : Len(fv[k]) = 2 /\ URIDecode(fv[k][1]) = field}
    IN  IF named = {} THEN <<>> ELSE URIDecode(fv[Seqs!Max(named)][2])

\* The URI of a request, and the values of its headers; a line that is not cut into two
\* by colons is skipped, "Host: localhost:5555" with it.
ParseRequest(request) ==
    LET lines  == SplitCompressed(request, "CRLF")
        header == [k \in 2..Len(lines) |-> SplitCompressed(lines[k], ":")]
        proper == {k \in DOMAIN header : Len(header[k]) = 2}
        name   == [k \in proper |-> ToLower(header[k][1])]
        Last(n) == CHOOSE k \in proper : name[k] = n /\ \A l \in proper : name[l] = n => l <= k
    IN  [uri     |-> SplitCompressed(lines[1], " ")[2],
         headers |-> [n \in {name[k] : k \in proper} |-> Trim(header[Last(n)][2])]]

\* boost::replace_all: the entity in place of every p.
Replace(s, p) ==
    Seqs!FlattenSeq([k \in DOMAIN s |-> IF s[k] = p THEN Entity[p] ELSE <<s[k]>>])

ReplaceInOrder(s, order) ==
    LET replaced[n \in 0..Len(order)] ==
            IF n = 0 THEN s ELSE Replace(replaced[n - 1], order[n])
    IN  replaced[Len(order)]

\* Deviation: '&' is the last to be replaced, not the first.
EscapeHtmlLate(s) == ReplaceInOrder(s, Seqs!Reverse(Entities))

EscapeHtml(s) == ReplaceInOrder(s, Entities)

-----------------------------------------------------------------------------
\* realpath(3): the absolute path without ".", ".." and empty names, None if it
\* leads through something that is not a directory or to something that is not there.
Enter(at, name, files) ==
    IF at \notin Dirs THEN None
    ELSE IF name \in {<<>>, <<".">>} THEN at
    ELSE IF name = <<".", ".">> THEN IF at = <<>> THEN at ELSE Seqs!Front(at)
    ELSE IF Append(at, name) \in Dirs \cup files THEN Append(at, name) ELSE None

\* Where the names that end in the first n pieces lead, and the name under way.
Walk(path, files) ==
    LET walk[n \in 0..Len(path)] ==
            IF n = 0 THEN [at |-> IF path[1] = "/" THEN <<>> ELSE Cwd, name |-> <<>>]
            ELSE IF path[n] = "/"
                 THEN [at |-> Enter(walk[n - 1].at, walk[n - 1].name, files), name |-> <<>>]
            ELSE [walk[n - 1] EXCEPT !.name = Append(@, path[n])]
    IN  walk

RealPath(path, files) ==
    IF path = <<>> THEN None
    ELSE LET end == Walk(path, files)[Len(path)]
         IN  Enter(end.at, end.name, files)

\* The tokens of a real path after boost::split: an empty one comes first, and
\* the root directory has two of them.
Tokens(at) == IF at = <<>> THEN << <<>>, <<>> >> ELSE << <<>> >> \o at

\* vector::resize cuts the tokens of the path off or fills them up.
IsPathSafe(root_dir, test_file, files) ==
    LET path == RealPath(test_file, files)
        root == RealPath(root_dir, files)
        Resized(tokens, n) ==
            [k \in 1..n |-> IF k <= Len(tokens) THEN tokens[k] ELSE <<>>]
    IN  /\ path # None /\ root # None
        /\ Tokens(root) = Resized(Tokens(path), Len(Tokens(root)))
=============================================================================
