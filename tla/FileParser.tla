----------------------------- MODULE FileParser -----------------------------
(***************************************************************************)
(* hw2/FileParser.c: from the contents of a file to the table of its words *)
(* and their positions.  A text is a sequence of characters, a word a      *)
(* sequence of lower-case ones, a table a function from words to the       *)
(* sequence of their byte offsets.                                         *)
(***************************************************************************)
EXTENDS Integers, Sequences

CONSTANTS Lower,      \* tolower, a function on the alphabetic characters
          NonAscii,   \* the characters above ASCII_UPPER_BOUND
          NUL,        \* the null character
          Null        \* a NULL pointer

IsAlpha(c) == c \in DOMAIN Lower

\* NULL is returned for a table without words, so it is one.
NoWords == [w \in {} |-> <<>>]

\* A value put into a table, in place of the one that its key may have had.
HashTable_Insert(table, key, value) ==
    [k \in DOMAIN table \cup {key} |-> IF k = key THEN value ELSE table[k]]

\* What a C string shows of the bytes of the file: those before the first null one.
strlen(contents) ==
    CHOOSE n \in 0..Len(contents) :
        /\ \A k \in 1..n : contents[k] # NUL
        /\ n < Len(contents) => contents[n + 1] = NUL

CString(contents) == SubSeq(contents, 1, strlen(contents))

\* Deviation: a word found again starts its list of positions anew.
AddWordPositionAnew(table, word, pos) == HashTable_Insert(table, word, <<pos>>)

AddWordPosition(table, word, pos) ==
    HashTable_Insert(table, word,
        IF word \in DOMAIN table THEN Append(table[word], pos) ELSE <<pos>>)

\* The lower-case form of the characters from place p to place q.
Word(text, p, q) == [k \in 1..(q - p + 1) |-> Lower[text[p + k - 1]]]

\* One turn of InsertContent's loop; start is the place of word_start, 0 while
\* new_word is set.
ReadChar(text, s, i) ==
    IF IsAlpha(text[i])
    THEN IF s.start = 0 THEN [s EXCEPT !.start = i] ELSE s
    ELSE IF s.start = 0 THEN s
         ELSE [start |-> 0,
               tab |-> AddWordPosition(s.tab, Word(text, s.start, i - 1), s.start - 1)]

\* start and the table after so many characters.
Scan(text) ==
    LET scan[i \in 0..Len(text)] ==
            IF i = 0 THEN [start |-> 0, tab |-> NoWords] ELSE ReadChar(text, scan[i - 1], i)
    IN  scan

InsertContent(text) == Scan(text)[Len(text)].tab

ParseIntoWordPositionsTable(contents) ==
    IF contents = Null THEN NoWords
    ELSE LET text == CString(contents)
         IN  IF \E i \in DOMAIN text : text[i] \in NonAscii THEN NoWords
             ELSE InsertContent(text)

-----------------------------------------------------------------------------
(***************************************************************************)
(* What a word is, without the loop: a longest run of letters, here from   *)
(* place p to place q, in the part of the contents before a null byte.     *)
(***************************************************************************)
Shows(contents, p) ==
    p \in DOMAIN contents /\ \A k \in 1..p : contents[k] # NUL

IsRun(contents, p, q) ==
    /\ p <= q /\ Shows(contents, q)
    /\ \A k \in p..q : IsAlpha(contents[k])
    /\ p > 1 => ~IsAlpha(contents[p - 1])
    /\ Shows(contents, q + 1) => ~IsAlpha(contents[q + 1])

\* The offsets of word w; those of a word that runs up to the end only if atEnd
\* is TRUE.
Occurrences(contents, w, atEnd) ==
    {p \in 0..(Len(contents) - Len(w)) :
        /\ IsRun(contents, p + 1, p + Len(w))
        /\ \A k \in DOMAIN w : Lower[contents[p + k]] = w[k]
        /\ atEnd \/ Shows(contents, p + Len(w) + 1)}

Indexable(contents) ==
    \A p \in DOMAIN contents : Shows(contents, p) => contents[p] \notin NonAscii
=============================================================================
