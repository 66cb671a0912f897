---------------------------- MODULE IndexChecker ----------------------------
(***************************************************************************)
(* hw3/hw3fsck: the program that checks an index file by itself, through   *)
(* none of the readers.  That words and names are ASCII and words in lower *)
(* case is left out, and so is the checksum, which is that of Crc32.       *)
(***************************************************************************)
EXTENDS IndexLayout

\* FileIndexChecker.  The result of stat is the file's size; no hole is at its end.
CheckHeader(file) ==
    file.bytes - IndexFileHeader = Read(file, 0).doctable_bytes + Read(file, 0).index_bytes

\* HashTableChecker: the bucket records and element positions of a table of len bytes.
\* The first bucket that is not empty is checked by the position in the first record,
\* and the others by their own: each behind the one before.
CheckBuckets(file, offset, len) ==
    LET n == Read(file, offset)
        Rec(b) == Read(file, offset + BucketListHeader + BucketRecord * b)
        filled == {b \in 0..(n - 1) : Rec(b).chain_num_elements > 0}
        Position(b) == Rec(IF \A c \in filled : b <= c THEN 0 ELSE b).position
    IN  /\ n * BucketRecord < len
        /\ filled # {} => Rec(0).position = offset + BucketListHeader + BucketRecord * n
        /\ \A b, c \in filled : b < c => Position(b) < Position(c)
        /\ \A e \in Elements(file, offset) : e < offset + len + 1

\* Deviation: the number of buckets is the doctable's, whatever table it is.
CheckDocIDsInOne(file, offset) ==
    \A b \in 0..(Read(file, offset) - 1) :
    LET es == BucketElements(file, offset, b) IN
    \A k \in DOMAIN es : Read(file, es[k]).doc_id % Read(file, IndexFileHeader) = b

\* Every element whose key is a document id is in the bucket of that id.
CheckDocIDs(file, offset) ==
    \A b \in 0..(Read(file, offset) - 1) :
    LET es == BucketElements(file, offset, b) IN
    \A k \in DOMAIN es : Read(file, es[k]).doc_id % Read(file, offset) = b

\* DocTableChecker; that a name is too long is only remarked.
CheckDocTable(file, offset, len) ==
    CheckBuckets(file, offset, len) /\ CheckDocIDs(file, offset)

\* DocIDTableChecker: the positions of a word in a document rise.
CheckDocIDTable(file, offset, len) ==
    /\ CheckBuckets(file, offset, len) /\ CheckDocIDs(file, offset)
    /\ \A h \in Elements(file, offset) :
          LET Pos(k) == Read(file, h + DocIDElementHeader + (k - 1) * DocIDElementPosition)
          IN  /\ Read(file, h).num_positions < 1000000
              /\ \A k \in 2..Read(file, h).num_positions : Pos(k - 1) < Pos(k)

\* IndexTableChecker, and in every element the table of the word's documents.
CheckIndexTable(file, offset, len) ==
    /\ CheckBuckets(file, offset, len)
    /\ \A e \in Elements(file, offset) :
          LET header == Read(file, e)
              table  == e + WordPostingsHeader + header.word_bytes
          IN  /\ header.word_bytes < 8192
              /\ table < offset + len
              /\ CheckDocIDTable(file, table, header.postings_bytes)

CheckFile(file) ==
    LET header == Read(file, 0) IN
    /\ CheckHeader(file)
    /\ CheckDocTable(file, IndexFileHeader, header.doctable_bytes)
    /\ CheckIndexTable(file, IndexFileHeader + header.doctable_bytes, header.index_bytes)
=============================================================================
