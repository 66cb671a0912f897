---------------------------- MODULE IndexLayout ----------------------------
(***************************************************************************)
(* hw3: how WriteIndex.cc lays the two tables of an index out in a file,   *)
(* and how the HashTableReader classes find an element again.  A file is a *)
(* set of fields: each a record or a string that one fwrite puts at an     *)
(* offset.  The sizes are those of the packed structs of LayoutStructs.h.  *)
(***************************************************************************)
EXTENDS Integers, Sequences, FiniteSets

CONSTANTS Length(_),   \* strlen of a word or a document name
          Ascii(_),    \* a document name without its characters that are not ASCII
          Padded(_, _),  \* a name and that many NULs
          Cut(_, _),   \* the first so many characters of a word
          Hash(_),     \* FNVHash64 of a word
          None         \* what a failed lookup returns

ASSUME NoneAssumption == None \notin Nat

IndexFileHeader == 16
BucketListHeader == 4
BucketRecord == 8
ElementPositionRecord == 4
DoctableElementHeader == 10
WordPostingsHeader == 6
DocIDElementHeader == 12
DocIDElementPosition == 4

\* A tuple: two fields at different offsets differ there, whatever they hold.
Field(at, size, val) == <<at, size, val>>
At(f) == f[1]
Size(f) == f[2]
Val(f) == f[3]
Bytes(f) == At(f)..(At(f) + Size(f) - 1)

\* An int as the int16_t it is stored in.
Int16(n) == ((n + 32768) % 65536) - 32768

\* What a Write... function has written: its fields, and their bytes as returned.
Written(fields, bytes) == [fields |-> fields, bytes |-> bytes]

-----------------------------------------------------------------------------
(***************************************************************************)
(* The writers.  A table to write is a sequence of buckets, each a         *)
(* sequence of elements; an element (the WriteElementFn and its argument)  *)
(* is a function from the offset it is put at to what is written there.    *)
(***************************************************************************)

\* Where pieces begin that are written one behind the other from start on, and
\* where the last one ends.
Places(start, pieces) ==
    LET at[k \in 1..(Len(pieces) + 1)] ==
            IF k = 1 THEN start
            ELSE LET before == at[k - 1] IN before + pieces[k - 1][before].bytes
    IN  at

\* The positions of the elements, then the elements, at element_pos.
WriteHTBucket(offset, bucket) ==
    LET n == Len(bucket)
        element_pos == Places(offset + n * ElementPositionRecord, bucket)
    IN  Written({Field(offset + (k - 1) * ElementPositionRecord, ElementPositionRecord,
                       element_pos[k]) : k \in 1..n}
                \cup UNION {bucket[k][element_pos[k]].fields : k \in 1..n},
                element_pos[n + 1] - offset)

\* The number of buckets, their records, then the buckets, at bucket_pos.
WriteHashTable(offset, table) ==
    LET n == Len(table)
        buckets == [k \in 1..n |-> [at \in Nat |-> WriteHTBucket(at, table[k])]]
        record_pos == offset + BucketListHeader
        bucket_pos == Places(record_pos + n * BucketRecord, buckets)
    IN  Written({Field(offset, BucketListHeader, n)}
                \cup {Field(record_pos + (k - 1) * BucketRecord, BucketRecord,
                            [chain_num_elements |-> Len(table[k]),
                             position           |-> bucket_pos[k]]) : k \in 1..n}
                \cup UNION {buckets[k][bucket_pos[k]].fields : k \in 1..n},
                bucket_pos[n + 1] - offset)

\* Characters that are not ASCII are skipped, but counted: a hole follows the name.
WriteDocidToDocnameFn(offset, kv) ==
    LET file_name_bytes == Int16(Length(kv.value)) IN
    Written({Field(offset, DoctableElementHeader,
                   [doc_id |-> kv.key, file_name_bytes |-> file_name_bytes]),
             Field(offset + DoctableElementHeader, Length(Ascii(kv.value)), Ascii(kv.value))},
            DoctableElementHeader + file_name_bytes)

\* Deviation: the bytes of the header are not in the returned number.
WriteDocIDUncounted(offset, kv) ==
    Written({Field(offset, DocIDElementHeader,
                   [doc_id |-> kv.key, num_positions |-> Len(kv.value)])}
            \cup {Field(offset + DocIDElementHeader + (k - 1) * DocIDElementPosition,
                        DocIDElementPosition, kv.value[k]) : k \in DOMAIN kv.value},
            DocIDElementPosition * Len(kv.value))

WriteDocIDToPositionListFn(offset, kv) ==
    LET Pos(k) == offset + DocIDElementHeader + (k - 1) * DocIDElementPosition IN
    Written({Field(offset, DocIDElementHeader,
                   [doc_id |-> kv.key, num_positions |-> Len(kv.value)])}
            \cup {Field(Pos(k), DocIDElementPosition, kv.value[k]) : k \in DOMAIN kv.value},
            DocIDElementHeader + DocIDElementPosition * Len(kv.value))

\* The tables are those of HashTable: a sequence of buckets, each a sequence of
\* (key, value) pairs.
DocIDElements(table) ==
    [b \in DOMAIN table |-> [c \in DOMAIN table[b] |->
        [at \in Nat |-> WriteDocIDToPositionListFn(at, table[b][c])]]]

\* Of a word of 65537 characters or more, what its length modulo 65536 lets through.
WriteWordToPostingsFn(offset, kv) ==
    LET word_bytes == Int16(Length(kv.value.word))
        ht == WriteHashTable(offset + WordPostingsHeader + word_bytes,
                             DocIDElements(kv.value.postings))
    IN  Written(ht.fields \cup
                {Field(offset, WordPostingsHeader,
                       [word_bytes |-> word_bytes, postings_bytes |-> ht.bytes]),
                 Field(offset + WordPostingsHeader, word_bytes, Cut(kv.value.word, word_bytes))},
                WordPostingsHeader + word_bytes + ht.bytes)

\* The fwrite of a word: of no bytes, or of a negative number of them, it fails.
WordIsWritten(word) == Int16(Length(word)) > 0

DocnameElements(dt) ==
    [b \in DOMAIN dt |-> [c \in DOMAIN dt[b] |->
        [at \in Nat |-> WriteDocidToDocnameFn(at, dt[b][c])]]]

WordElements(mi) ==
    [b \in DOMAIN mi |-> [c \in DOMAIN mi[b] |->
        [at \in Nat |-> WriteWordToPostingsFn(at, mi[b][c])]]]

WriteDocTable(offset, dt) == WriteHashTable(offset, DocnameElements(dt))
WriteMemIndex(offset, mi) == WriteHashTable(offset, WordElements(mi))

WriteIndex(mi, dt) ==
    LET d == WriteDocTable(IndexFileHeader, dt)
        m == WriteMemIndex(IndexFileHeader + d.bytes, mi)
    IN  Written(d.fields \cup m.fields \cup
                {Field(0, IndexFileHeader, [doctable_bytes |-> d.bytes,
                                            index_bytes    |-> m.bytes])},
                IndexFileHeader + d.bytes + m.bytes)

-----------------------------------------------------------------------------
(***************************************************************************)
(* The readers.  A reader is the offset of a table in the file.            *)
(***************************************************************************)
Read(file, at) == Val(CHOOSE f \in file.fields : At(f) = at /\ Size(f) > 0)

NewDocTableReader(file)   == IndexFileHeader
NewIndexTableReader(file) == IndexFileHeader + Read(file, 0).doctable_bytes

\* The positions of the elements in the bucket number b of the table.
BucketElements(file, table, b) ==
    LET rec == Read(file, table + BucketListHeader + BucketRecord * b)
    IN  [k \in 1..rec.chain_num_elements |->
           Read(file, rec.position + (k - 1) * ElementPositionRecord)]

\* Deviation: the bucket after the right one.
LookupNextBucket(file, table, key) ==
    BucketElements(file, table, (key + 1) % Read(file, table))

LookupElementPositions(file, table, key) ==
    BucketElements(file, table, key % Read(file, table))

\* The first of the elements that match, None if none does.
First(elements, matching) ==
    IF matching = {} THEN None
    ELSE elements[CHOOSE k \in matching : \A m \in matching : k <= m]

\* A hole reads as NULs.
ReadName(file, at, file_name_bytes) ==
    LET name == Read(file, at)
    IN  IF Length(name) = file_name_bytes THEN name
        ELSE Padded(name, file_name_bytes - Length(name))

FindDocID(file, table, doc_id) ==
    LET es == LookupElementPositions(file, table, doc_id)
    IN  First(es, {k \in DOMAIN es : Read(file, es[k]).doc_id = doc_id})

DocTableLookupDocID(file, table, doc_id) ==
    LET e == FindDocID(file, table, doc_id)
    IN  IF e = None THEN None
        ELSE ReadName(file, e + DoctableElementHeader, Read(file, e).file_name_bytes)

\* A DocIDTableReader, or None.  A word of another length is not read.
LookupWord(file, table, word) ==
    LET es == LookupElementPositions(file, table, Hash(word))
        e  == First(es, {k \in DOMAIN es :
                           /\ Read(file, es[k]).word_bytes = Length(word)
                           /\ Read(file, es[k] + WordPostingsHeader) = word})
    IN  IF e = None THEN None ELSE e + WordPostingsHeader + Length(word)

DocIDTableLookupDocID(file, table, doc_id) ==
    LET e == FindDocID(file, table, doc_id)
    IN  IF e = None THEN None
        ELSE [k \in 1..Read(file, e).num_positions |->
                Read(file, e + DocIDElementHeader + (k - 1) * DocIDElementPosition)]

\* The elements of a table, and their headers; nobody looks at their order.
Elements(file, table) ==
    UNION {LET es == BucketElements(file, table, b) IN {es[k] : k \in DOMAIN es} :
           b \in 0..(Read(file, table) - 1)}

GetDocIDList(file, table) == {Read(file, e) : e \in Elements(file, table)}

-----------------------------------------------------------------------------
\* The bytes behind the names in the doctable that nobody writes.
Holes(file) ==
    LET Hole(e) == LET name == e + DoctableElementHeader
                   IN  (name + Length(Read(file, name)))..(name + Read(file, e).file_name_bytes - 1)
    IN  UNION {Hole(e) : e \in Elements(file, NewDocTableReader(file))}

\* Every byte of the file belongs to one field, or to none if it is in a hole.
Tiled(file, holes) ==
    /\ \A b \in 0..(file.bytes - 1) : b \in holes <=> \A f \in file.fields : b \notin Bytes(f)
    /\ \A f \in file.fields : Bytes(f) \subseteq 0..(file.bytes - 1)
    /\ \A f, g \in file.fields : f # g => Bytes(f) \cap Bytes(g) = {}
=============================================================================
