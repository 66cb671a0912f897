----------------------------- MODULE HashTable -----------------------------
(***************************************************************************)
(* hw1/HashTable.c: a chained hash table and its iterator.  A chain is the *)
(* sequence of its (key, value) pairs: the nodes and pointers are those of *)
(* LinkedList.  Every call is an action, except that MaybeResize copies    *)
(* pair by pair.                                                           *)
(*                                                                         *)
(* A customer keeps to HashTable.h: it calls no HashTable function that    *)
(* changes the table while it holds an iterator; HTIterator_Remove may.    *)
(***************************************************************************)
EXTENDS Integers, Sequences, FiniteSets
Seqs == INSTANCE SequencesExt

CONSTANTS Keys,            \* bound: the keys in use, 64-bit hashes in the code
          Values,
          InitialBuckets,  \* the argument of HashTable_Allocate
          NoKey, Nothing

ASSUME HashTableAssumption ==
    /\ Keys \subseteq Nat /\ NoKey \notin Keys
    /\ Nothing \notin [key : Keys, value : Values]
    /\ Nothing \notin [bucket_idx : Int, node : Keys \cup {NoKey}]
    /\ InitialBuckets \in Nat \ {0}

INVALID_IDX == -1
GrowthFactor == 9

VARIABLES
    ht,        \* the table: num_buckets, num_elements, buckets
    newht,     \* the table MaybeResize fills, or Nothing
    pending,   \* the pair whose HashTable_Insert runs MaybeResize, or Nothing
    it,        \* the iterator (bucket_idx, and the key of the pair that bucket_it
               \* points at), MaybeResize's during a resize, or Nothing
    ret        \* what the last call returned: a flag and (key, value)s

vars == <<ht, newht, pending, it, ret>>

Pairs == [key : Keys, value : Values]

HashKeyToBucketNum(t, k) == k % t.num_buckets
ChainOf(t, k) == t.buckets[HashKeyToBucketNum(t, k)]

HashTable_Allocate(n) ==
    [num_buckets |-> n, num_elements |-> 0, buckets |-> [b \in 0..(n - 1) |-> <<>>]]

\* FindKey: the place of the pair with key k in the chain, 0 if there is none.
FindKey(chain, k) == Seqs!SelectInSeq(chain, LAMBDA kv : kv.key = k)

Failure   == [ok |-> FALSE, out |-> <<>>]
Found(kv) == [ok |-> TRUE, out |-> <<kv>>]
Lookup(t, k) ==
    LET chain == ChainOf(t, k) IN
    IF FindKey(chain, k) = 0 THEN Failure ELSE Found(chain[FindKey(chain, k)])

\* Deviation: the table grows one insertion late.
NeedsResizeLate(t) == t.num_elements > 3 * t.num_buckets

NeedsResize(t) == t.num_elements >= 3 * t.num_buckets

\* Deviation: a replaced pair counts again.
PutCounting(t, kv) ==
    LET b == HashKeyToBucketNum(t, kv.key)
        i == FindKey(t.buckets[b], kv.key)
    IN  [t EXCEPT !.buckets[b] = <<kv>> \o (IF i = 0 THEN @ ELSE Seqs!RemoveAt(@, i)),
                  !.num_elements = @ + 1]

\* HashTable_Insert after MaybeResize: the old pair goes, the new one is pushed.
Put(t, kv) ==
    LET b == HashKeyToBucketNum(t, kv.key)
        i == FindKey(t.buckets[b], kv.key)
    IN  [t EXCEPT !.buckets[b] = <<kv>> \o (IF i = 0 THEN @ ELSE Seqs!RemoveAt(@, i)),
                  !.num_elements = IF i = 0 THEN @ + 1 ELSE @]

\* HashTable_Remove
TakeOut(t, k) ==
    LET b == HashKeyToBucketNum(t, k)
        i == FindKey(t.buckets[b], k)
    IN  IF i = 0 THEN t
        ELSE [t EXCEPT !.buckets[b] = Seqs!RemoveAt(@, i), !.num_elements = @ - 1]

-----------------------------------------------------------------------------
\* The iterator.

PastEnd == [bucket_idx |-> INVALID_IDX, node |-> NoKey]

\* The head of the first chain that is not empty, from bucket b on.
HeadFrom(t, b) ==
    LET filled == {i \in b..(t.num_buckets - 1) : t.buckets[i] # <<>>}
        first  == CHOOSE i \in filled : \A j \in filled : i <= j
    IN  IF filled = {} THEN PastEnd
        ELSE [bucket_idx |-> first, node |-> t.buckets[first][1].key]

HTIterator_Allocate(t) == IF t.num_elements = 0 THEN PastEnd ELSE HeadFrom(t, 0)

IsValid(i) == i.bucket_idx # INVALID_IDX

\* Deviation: the rest of a chain is skipped.
NextChain(t, i) ==
    IF ~IsValid(i) THEN i ELSE HeadFrom(t, i.bucket_idx + 1)

HTIterator_Next(t, i) ==
    IF ~IsValid(i) THEN i
    ELSE LET chain == t.buckets[i.bucket_idx]
             p     == FindKey(chain, i.node)
         IN  IF p < Len(chain) THEN [i EXCEPT !.node = chain[p + 1].key]
             ELSE HeadFrom(t, i.bucket_idx + 1)

PairAt(t, i) ==
    LET chain == t.buckets[i.bucket_idx] IN chain[FindKey(chain, i.node)]

-----------------------------------------------------------------------------
Init ==
    /\ ht = HashTable_Allocate(InitialBuckets)
    /\ newht = Nothing /\ pending = Nothing /\ it = Nothing
    /\ ret = Failure

\* The customer may change the table: no iterator, and no insertion is under way.
Idle == it = Nothing /\ pending = Nothing

Insert(kv) ==
    /\ Idle /\ ~NeedsResize(ht)
    /\ ht' = Put(ht, kv)
    /\ ret' = Lookup(ht, kv.key)
    /\ UNCHANGED <<newht, pending, it>>

\* HashTable_Insert with MaybeResize: a larger table is allocated, the pairs are
\* copied into it one by one, it takes the place of the old one, and the new pair
\* is inserted there.
ResizeBegin(kv) ==
    /\ Idle /\ NeedsResize(ht)
    /\ newht' = HashTable_Allocate(ht.num_buckets * GrowthFactor)
    /\ it' = HTIterator_Allocate(ht)
    /\ pending' = kv
    /\ UNCHANGED <<ht, ret>>

\* Deviation: the copying loop does not advance its iterator.
ResizeCopyStays ==
    /\ pending # Nothing /\ IsValid(it)
    /\ newht' = Put(newht, PairAt(ht, it))
    /\ UNCHANGED <<ht, pending, it, ret>>

ResizeCopy ==
    /\ pending # Nothing /\ IsValid(it)
    /\ newht' = Put(newht, PairAt(ht, it))
    /\ it' = HTIterator_Next(ht, it)
    /\ UNCHANGED <<ht, pending, ret>>

ResizeEnd ==
    /\ pending # Nothing /\ ~IsValid(it)
    /\ ht' = Put(newht, pending)
    /\ ret' = Lookup(newht, pending.key)
    /\ newht' = Nothing /\ pending' = Nothing /\ it' = Nothing

Find(k) ==
    /\ pending = Nothing
    /\ ret' = Lookup(ht, k)
    /\ UNCHANGED <<ht, newht, pending, it>>

Remove(k) ==
    /\ Idle
    /\ ret' = Lookup(ht, k)
    /\ ht' = TakeOut(ht, k)
    /\ UNCHANGED <<newht, pending, it>>

\* HashTable_Free, and HashTable_Allocate of the next table.
FreeTable ==
    /\ Idle
    /\ ht' = HashTable_Allocate(InitialBuckets)
    /\ UNCHANGED <<newht, pending, it, ret>>

Iterate ==
    /\ Idle
    /\ it' = HTIterator_Allocate(ht)
    /\ UNCHANGED <<ht, newht, pending, ret>>

FreeIterator ==
    /\ it # Nothing /\ pending = Nothing
    /\ it' = Nothing
    /\ UNCHANGED <<ht, newht, pending, ret>>

Advance ==
    /\ it # Nothing /\ pending = Nothing
    /\ it' = HTIterator_Next(ht, it)
    /\ ret' = [ok |-> IsValid(it'), out |-> <<>>]
    /\ UNCHANGED <<ht, newht, pending>>

Get ==
    /\ it # Nothing /\ pending = Nothing
    /\ ret' = IF IsValid(it) THEN Found(PairAt(ht, it)) ELSE Failure
    /\ UNCHANGED <<ht, newht, pending, it>>

\* Deviation: the key is removed and the iterator stays where it was.
RemoveInPlace ==
    /\ it # Nothing /\ pending = Nothing
    /\ IF IsValid(it)
       THEN ret' = Found(PairAt(ht, it)) /\ ht' = TakeOut(ht, it.node)
       ELSE ret' = Failure /\ UNCHANGED ht
    /\ UNCHANGED <<newht, pending, it>>

\* HTIterator_Remove: get, advance, then remove the key from the table.
RemoveCurrent ==
    /\ it # Nothing /\ pending = Nothing
    /\ IF IsValid(it)
       THEN LET kv == PairAt(ht, it) IN
            /\ it' = HTIterator_Next(ht, it)
            /\ ret' = Lookup(ht, kv.key)
            /\ ht' = TakeOut(ht, kv.key)
       ELSE ret' = Failure /\ UNCHANGED <<ht, it>>
    /\ UNCHANGED <<newht, pending>>

Next ==
    \/ \E kv \in Pairs : Insert(kv) \/ ResizeBegin(kv)
    \/ ResizeCopy \/ ResizeEnd
    \/ \E k \in Keys : Find(k) \/ Remove(k)
    \/ FreeTable
    \/ Iterate \/ FreeIterator \/ Advance \/ Get \/ RemoveCurrent

Spec == Init /\ [][Next]_vars

\* A call that has begun runs on.
FairSpec == Spec /\ WF_vars(ResizeCopy \/ ResizeEnd)
-----------------------------------------------------------------------------
Tables == {ht} \cup ({newht} \ {Nothing})

\* The variables keep their types: each table has one chain for each bucket
\* number, and a table is being filled exactly while an insertion is under way.
TypeOK ==
    /\ \A t \in Tables :
          /\ t.num_buckets \in Nat \ {0}
          /\ t.num_elements \in Nat
          /\ DOMAIN t.buckets = 0..(t.num_buckets - 1)
          /\ \A b \in DOMAIN t.buckets : t.buckets[b] \in Seq(Pairs)
    /\ pending \in Pairs \cup {Nothing}
    /\ (newht = Nothing) = (pending = Nothing)
    /\ pending # Nothing => it # Nothing
    /\ it # Nothing => it.bucket_idx \in {INVALID_IDX} \cup DOMAIN ht.buckets
    /\ ret.ok \in BOOLEAN /\ ret.out \in Seq(Pairs)

Slots(t) == UNION {{<<b, i>> : i \in DOMAIN t.buckets[b]} : b \in DOMAIN t.buckets}

\* Every pair is in the chain its key hashes to, no key is in a chain twice, and
\* num_elements counts the pairs: in the old table and in the one that replaces it.
WellPlaced ==
    \A t \in Tables :
       /\ \A s \in Slots(t) : HashKeyToBucketNum(t, t.buckets[s[1]][s[2]].key) = s[1]
       /\ \A b \in DOMAIN t.buckets : \A i, j \in DOMAIN t.buckets[b] :
             t.buckets[b][i].key = t.buckets[b][j].key => i = j
       /\ t.num_elements = Cardinality(Slots(t))

\* Insertions keep the load factor at 3 or below, and a table that is being
\* filled never has to be resized itself.
LoadBounded ==
    /\ ht.num_elements <= 3 * ht.num_buckets
    /\ newht # Nothing => ~NeedsResize(newht)

\* A valid iterator points at a pair of its chain, and removing that pair from
\* the table by key succeeds; an iterator over a table with elements can be
\* placed.  These are the conditions the code asserts with Verify333.
IteratorPoints ==
    /\ it # Nothing /\ IsValid(it) =>
          /\ FindKey(ht.buckets[it.bucket_idx], it.node) # 0
          /\ FindKey(ChainOf(ht, it.node), it.node) # 0
    /\ ht.num_elements # 0 => IsValid(HeadFrom(ht, 0))

\* An insertion that has to resize the table first returns.
InsertReturns == pending # Nothing ~> pending = Nothing

Present == {k \in Keys : FindKey(ChainOf(ht, k), k) # 0}
Visiting == it # Nothing /\ pending = Nothing

\* The keys at the iterator and after it, in the order of the walk.
Ahead ==
    IF ~Visiting \/ ~IsValid(it) THEN {}
    ELSE {ht.buckets[s[1]][s[2]].key : s \in
             {s \in Slots(ht) : \/ s[1] > it.bucket_idx
                                \/ s[1] = it.bucket_idx
                                   /\ s[2] >= FindKey(ht.buckets[s[1]], it.node)}}

Stored == [k \in Present |-> Lookup(ht, k).out[1].value]
Current == IF Visiting THEN it.node ELSE NoKey

Abstract == INSTANCE KVMap WITH
    map <- Stored, live <- Visiting, cur <- Current, todo <- Ahead

\* The table implements a map, whatever the buckets, the chains and the resizing
\* do; an iterator visits each pair once, also when it removes pairs on its way.
ImplementsMap == Abstract!Spec
=============================================================================
