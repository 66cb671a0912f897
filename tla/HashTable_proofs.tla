--------------------------- MODULE HashTable_proofs ---------------------------
(***************************************************************************)
(* Proofs about HashTable, for every set of keys and every number of       *)
(* buckets: the chains hold what hashes to them, num_elements counts the   *)
(* pairs, the load factor stays at 3 or below also through MaybeResize,    *)
(* and iterators point at pairs.                                           *)
(*                                                                         *)
(* Put and TakeOut replace one chain of a table (ReplaceChain), by what    *)
(* RemoveAt and <<kv>> \o leave of it (RemoveAtChain, PushChain).          *)
(*                                                                         *)
(* The table implements KVMap: its pairs (PairsOf) are the map, and what   *)
(* the iterator has before it (AheadOf) are the keys still to visit.       *)
(***************************************************************************)
EXTENDS HashTable, FiniteSetTheorems, SequenceTheorems, WellFoundedInduction, TLAPS

USE HashTableAssumption

\* A set of natural numbers has a least element.
LEMMA LeastElement ==
    ASSUME NEW T, T \subseteq Nat, T # {}
    PROVE  \E x \in T : \A y \in T : x <= y
<1> DEFINE R == OpToRel(<, Nat)
<1>1. IsWellFoundedOn(R, Nat)
  BY NatLessThanWellFounded
<1>2. \A x, y \in Nat : y < x => <<y, x>> \in R
  BY DEF OpToRel
<1> HIDE DEF R
<1>3. PICK x \in T : \A y \in T : ~(<<y, x>> \in R)
  BY <1>1, WFMin
<1>4. ASSUME NEW y \in T PROVE x <= y
  <2>1. x \in Nat /\ y \in Nat
    OBVIOUS
  <2>2. ~(y < x)
    BY <1>2, <1>3, <2>1
  <2> QED BY <2>1, <2>2
<1> QED BY <1>4

LEMMA FindKeyFinds ==
    ASSUME NEW chain \in Seq(Pairs), NEW k
    PROVE  \/ /\ FindKey(chain, k) = 0
              /\ \A i \in 1..Len(chain) : chain[i].key # k
           \/ /\ FindKey(chain, k) \in 1..Len(chain)
              /\ chain[FindKey(chain, k)].key = k
<1> DEFINE I == {i \in 1..Len(chain) : chain[i].key = k}
<1>1. FindKey(chain, k) = IF I # {} THEN Seqs!Min(I) ELSE 0
  BY DEF FindKey, Seqs!SelectInSeq
<1>2. ASSUME I # {} PROVE Seqs!Min(I) \in I
  <2>1. I \subseteq Nat
    OBVIOUS
  <2> HIDE DEF I
  <2>2. \E x \in I : \A y \in I : x <= y
    BY <1>2, <2>1, LeastElement
  <2> QED BY <2>2 DEF Seqs!Min
<1> QED BY <1>1, <1>2

-----------------------------------------------------------------------------
\* A chain: what HashTable_Insert and HashTable_Remove do to its keys.

KeySet(chain) == {chain[i].key : i \in 1..Len(chain)}

PairSet(chain) == {chain[i] : i \in 1..Len(chain)}

OncePerKey(chain) == \A i, j \in 1..Len(chain) : chain[i].key = chain[j].key => i = j

LEMMA RemoveAtChain ==
    ASSUME NEW chain \in Seq(Pairs), OncePerKey(chain), NEW k \in 1..Len(chain)
    PROVE  LET c == Seqs!RemoveAt(chain, k)
           IN  /\ c \in Seq(Pairs) /\ Len(c) = Len(chain) - 1 /\ OncePerKey(c)
               /\ KeySet(c) = KeySet(chain) \ {chain[k].key}
               /\ PairSet(c) = {p \in PairSet(chain) : p.key # chain[k].key}
               /\ \A i \in 1..Len(c) : c[i] = chain[IF i < k THEN i ELSE i + 1]
<1> DEFINE n == Len(chain)
           u == SubSeq(chain, 1, k - 1)
           v == SubSeq(chain, k + 1, n)
           c == u \o v
           Was(i) == IF i < k THEN i ELSE i + 1
<1>1. n \in Nat /\ k \in 1..n /\ \A i \in 1..n : chain[i] \in Pairs
  OBVIOUS
<1>2. u \in Seq(Pairs) /\ Len(u) = k - 1 /\ \A i \in 1..(k - 1) : u[i] = chain[i]
  <2>1. \A i \in 1..(k - 1) : i \in 1..n
    BY <1>1
  <2>2. \A i \in 1..(k - 1) : chain[i] \in Pairs
    BY <1>1, <2>1
  <2>3. 1 \in Int /\ k - 1 \in Int /\ (k - 1) - 1 + 1 = k - 1 /\ 1 + (k - 1) - 1 = k - 1
        /\ (~(1 <= k - 1) => k - 1 = 0)
    BY <1>1
  <2> QED BY <2>2, <2>3, SubSeqProperties
<1>3. v \in Seq(Pairs) /\ Len(v) = n - k /\ \A i \in 1..(n - k) : v[i] = chain[k + i]
  <2>1. \A i \in (k + 1)..n : i \in 1..n
    BY <1>1
  <2>2. \A i \in (k + 1)..n : chain[i] \in Pairs
    BY <1>1, <2>1
  <2>3. /\ n \in Int /\ k + 1 \in Int /\ n - (k + 1) + 1 = n - k
        /\ (~(k + 1 <= n) => n - k = 0)
        /\ \A i \in 1..(n - k) : (k + 1) + i - 1 = k + i
    BY <1>1
  <2>4. /\ v \in Seq(Pairs) /\ Len(v) = IF k + 1 <= n THEN n - (k + 1) + 1 ELSE 0
        /\ \A i \in 1..(n - (k + 1) + 1) : v[i] = chain[(k + 1) + i - 1]
    <3> DEFINE m == k + 1
    <3>1. m \in Int /\ n \in Int /\ \A i \in m..n : chain[i] \in Pairs
      BY <2>2, <2>3
    <3>2. v = SubSeq(chain, m, n)
      OBVIOUS
    <3> HIDE DEF m, n, v
    <3>3. /\ v \in Seq(Pairs) /\ Len(v) = IF m <= n THEN n - m + 1 ELSE 0
          /\ \A i \in 1..(n - m + 1) : v[i] = chain[m + i - 1]
      BY <3>1, <3>2, SubSeqProperties
    <3> QED BY <3>3 DEF m
  <2> HIDE DEF n, v
  <2> QED BY <2>3, <2>4
<1> HIDE DEF u, v
<1>4. /\ c \in Seq(Pairs) /\ Len(c) = n - 1
      /\ \A i \in 1..(n - 1) : c[i] = IF i <= k - 1 THEN u[i] ELSE v[i - (k - 1)]
  <2>1. Len(u) + Len(v) = n - 1
    BY <1>1, <1>2, <1>3
  <2>2. /\ c \in Seq(Pairs) /\ Len(c) = Len(u) + Len(v)
        /\ \A i \in 1..(Len(u) + Len(v)) : c[i] = IF i <= Len(u) THEN u[i] ELSE v[i - Len(u)]
    <3>1. u \in Seq(Pairs) /\ v \in Seq(Pairs)
      BY <1>2, <1>3
    <3> HIDE DEF n
    <3> QED BY <3>1, ConcatProperties
  <2>3. Len(u) = k - 1
    BY <1>2
  <2> HIDE DEF c, n
  <2> QED BY <2>1, <2>2, <2>3
<1> HIDE DEF c
<1>5. ASSUME NEW i \in 1..(n - 1) PROVE c[i] = chain[Was(i)] /\ Was(i) \in 1..n /\ Was(i) # k
  <2>1. CASE i < k
    <3>1. i <= k - 1 /\ i \in 1..(k - 1) /\ i \in 1..n
      BY <1>1, <2>1
    <3> QED BY <1>2, <1>4, <2>1, <3>1
  <2>2. CASE ~(i < k)
    <3>1. ~(i <= k - 1) /\ i - (k - 1) \in 1..(n - k) /\ k + (i - (k - 1)) = i + 1
          /\ i + 1 \in 1..n /\ i + 1 # k
      BY <1>1, <2>2
    <3> QED BY <1>3, <1>4, <2>2, <3>1
  <2> QED BY <2>1, <2>2
<1>6. \A i, j \in 1..(n - 1) : Was(i) = Was(j) => i = j
  BY <1>1
<1>7. ASSUME NEW j \in 1..n, j # k PROVE \E i \in 1..(n - 1) : Was(i) = j
  <2>1. CASE j < k
    <3>1. j \in 1..(n - 1) /\ Was(j) = j
      BY <1>1, <2>1
    <3> QED BY <3>1
  <2>2. CASE ~(j < k)
    <3>1. j - 1 \in 1..(n - 1) /\ Was(j - 1) = j
      BY <1>1, <1>7, <2>2
    <3> QED BY <3>1
  <2> QED BY <2>1, <2>2
<1> HIDE DEF Was
<1>8. OncePerKey(c)
  <2> SUFFICES ASSUME NEW i \in 1..(n - 1), NEW j \in 1..(n - 1), c[i].key = c[j].key
               PROVE  i = j
    BY <1>4 DEF OncePerKey
  <2>1. Was(i) = Was(j)
    BY <1>5 DEF OncePerKey
  <2> QED BY <1>6, <2>1
<1>9. KeySet(c) = KeySet(chain) \ {chain[k].key}
  <2>1. ASSUME NEW i \in 1..(n - 1) PROVE c[i].key \in KeySet(chain) \ {chain[k].key}
    BY <1>1, <1>5 DEF KeySet, OncePerKey
  <2>2. ASSUME NEW j \in 1..n, chain[j].key # chain[k].key PROVE chain[j].key \in KeySet(c)
    <3>1. PICK i \in 1..(n - 1) : Was(i) = j
      BY <1>7, <2>2
    <3> QED BY <1>4, <1>5, <3>1 DEF KeySet
  <2>3. KeySet(c) \subseteq KeySet(chain) \ {chain[k].key}
    BY <1>4, <2>1 DEF KeySet
  <2>4. KeySet(chain) \ {chain[k].key} \subseteq KeySet(c)
    BY <2>2 DEF KeySet
  <2> QED BY <2>3, <2>4
<1>10. PairSet(c) = {p \in PairSet(chain) : p.key # chain[k].key}
  <2>1. ASSUME NEW i \in 1..(n - 1)
        PROVE  c[i] \in PairSet(chain) /\ c[i].key # chain[k].key
    BY <1>1, <1>5 DEF PairSet, OncePerKey
  <2>2. ASSUME NEW j \in 1..n, chain[j].key # chain[k].key PROVE chain[j] \in PairSet(c)
    <3>1. PICK i \in 1..(n - 1) : Was(i) = j
      BY <1>7, <2>2
    <3> QED BY <1>4, <1>5, <3>1 DEF PairSet
  <2>3. \A p \in PairSet(c) : p \in PairSet(chain) /\ p.key # chain[k].key
    BY <1>4, <2>1 DEF PairSet
  <2>4. \A p \in PairSet(chain) : p.key # chain[k].key => p \in PairSet(c)
    BY <2>2 DEF PairSet
  <2> QED BY <2>3, <2>4
<1>11. \A i \in 1..Len(c) : c[i] = chain[IF i < k THEN i ELSE i + 1]
  BY <1>4, <1>5 DEF Was
<1> QED BY <1>4, <1>8, <1>9, <1>10, <1>11 DEF c, u, v, Seqs!RemoveAt

LEMMA PushChain ==
    ASSUME NEW chain \in Seq(Pairs), OncePerKey(chain), NEW kv \in Pairs,
           kv.key \notin KeySet(chain)
    PROVE  LET c == <<kv>> \o chain
           IN  /\ c \in Seq(Pairs) /\ Len(c) = Len(chain) + 1 /\ OncePerKey(c)
               /\ KeySet(c) = KeySet(chain) \cup {kv.key}
               /\ PairSet(c) = PairSet(chain) \cup {kv}
<1> DEFINE n == Len(chain)
           c == <<kv>> \o chain
<1>1. n \in Nat /\ <<kv>> \in Seq(Pairs) /\ Len(<<kv>>) = 1 /\ <<kv>>[1] = kv
  OBVIOUS
<1>2. /\ c \in Seq(Pairs) /\ Len(c) = 1 + n
      /\ \A i \in 1..(1 + n) : c[i] = IF i <= 1 THEN <<kv>>[i] ELSE chain[i - 1]
  BY <1>1, ConcatProperties
<1> HIDE DEF c
<1>3. c[1] = kv /\ 1 \in 1..Len(c) /\ Len(c) = n + 1
  BY <1>1, <1>2
<1>4. ASSUME NEW i \in 1..n PROVE i + 1 \in 1..Len(c) /\ c[i + 1] = chain[i]
  <2>1. i + 1 \in 1..(1 + n) /\ ~(i + 1 <= 1) /\ (i + 1) - 1 = i
    BY <1>1
  <2> QED BY <1>2, <2>1
<1>5. ASSUME NEW i \in 1..Len(c), i # 1 PROVE i - 1 \in 1..n /\ c[i] = chain[i - 1]
  <2>1. i - 1 \in 1..n /\ i \in 1..(1 + n) /\ ~(i <= 1)
    BY <1>1, <1>2, <1>5
  <2> QED BY <1>2, <2>1
<1>6. OncePerKey(c)
  <2> SUFFICES ASSUME NEW i \in 1..Len(c), NEW j \in 1..Len(c), c[i].key = c[j].key
               PROVE  i = j
    BY DEF OncePerKey
  <2>1. CASE i = 1
    BY <1>3, <1>5, <2>1 DEF KeySet
  <2>2. CASE j = 1
    BY <1>3, <1>5, <2>2 DEF KeySet
  <2>3. CASE i # 1 /\ j # 1
    <3>1. i - 1 = j - 1
      BY <1>5, <2>3 DEF OncePerKey
    <3> QED BY <3>1
  <2> QED BY <2>1, <2>2, <2>3
<1>7. KeySet(c) = KeySet(chain) \cup {kv.key}
  <2>1. ASSUME NEW i \in 1..Len(c) PROVE c[i].key \in KeySet(chain) \cup {kv.key}
    BY <1>3, <1>5 DEF KeySet
  <2>2. ASSUME NEW i \in 1..n PROVE chain[i].key \in KeySet(c)
    BY <1>4 DEF KeySet
  <2>3. kv.key \in KeySet(c)
    BY <1>3 DEF KeySet
  <2>4. KeySet(c) \subseteq KeySet(chain) \cup {kv.key}
    BY <2>1 DEF KeySet
  <2>5. KeySet(chain) \subseteq KeySet(c)
    BY <2>2 DEF KeySet
  <2> QED BY <2>3, <2>4, <2>5
<1>8. PairSet(c) = PairSet(chain) \cup {kv}
  <2>1. \A p \in PairSet(c) : p \in PairSet(chain) \cup {kv}
    BY <1>3, <1>5 DEF PairSet
  <2>2. PairSet(chain) \subseteq PairSet(c) /\ kv \in PairSet(c)
    BY <1>3, <1>4 DEF PairSet
  <2> QED BY <2>1, <2>2
<1> QED BY <1>2, <1>3, <1>6, <1>7, <1>8 DEF c

-----------------------------------------------------------------------------
\* A table.

Held(t) == UNION {KeySet(t.buckets[b]) : b \in 0..(t.num_buckets - 1)}

PairsOf(t) == UNION {PairSet(t.buckets[b]) : b \in 0..(t.num_buckets - 1)}

Shape(t) ==
    /\ t = [num_buckets |-> t.num_buckets, num_elements |-> t.num_elements, buckets |-> t.buckets]
    /\ t.num_buckets \in Nat \ {0}
    /\ t.buckets \in [0..(t.num_buckets - 1) -> Seq(Pairs)]

\* The chains hold the keys that hash to them, each once.
Chained(t) ==
    \A b \in 0..(t.num_buckets - 1) :
        /\ OncePerKey(t.buckets[b])
        /\ \A k \in KeySet(t.buckets[b]) : k % t.num_buckets = b

\* num_elements counts the pairs, and the keys.
Counted(t) ==
    /\ t.num_elements \in Nat
    /\ IsFiniteSet(Slots(t)) /\ Cardinality(Slots(t)) = t.num_elements
    /\ IsFiniteSet(Held(t)) /\ Cardinality(Held(t)) = t.num_elements

Good(t) == Shape(t) /\ Chained(t) /\ Counted(t)

LEMMA SlotsAre ==
    ASSUME NEW t, Shape(t)
    PROVE  \A s : s \in Slots(t) <=>
               \E b \in 0..(t.num_buckets - 1) : \E i \in 1..Len(t.buckets[b]) : s = <<b, i>>
<1> DEFINE B == 0..(t.num_buckets - 1)
<1>1. DOMAIN t.buckets = B /\ \A b \in B : DOMAIN t.buckets[b] = 1..Len(t.buckets[b])
  BY DEF Shape
<1> HIDE DEF B
<1>2. \A s : s \in Slots(t) <=> \E b \in B : \E i \in 1..Len(t.buckets[b]) : s = <<b, i>>
  BY <1>1 DEF Slots
<1> QED BY <1>2 DEF B

LEMMA AllocateGood ==
    ASSUME NEW n \in Nat \ {0}
    PROVE  /\ Good(HashTable_Allocate(n)) /\ Held(HashTable_Allocate(n)) = {}
           /\ HashTable_Allocate(n).num_buckets = n /\ HashTable_Allocate(n).num_elements = 0
<1> DEFINE t == HashTable_Allocate(n)
<1>1. /\ t.num_buckets = n /\ t.num_elements = 0
      /\ \A b \in 0..(n - 1) : t.buckets[b] = <<>>
      /\ Shape(t)
  <2>1. <<>> \in Seq(Pairs)
    OBVIOUS
  <2> QED BY <2>1 DEF HashTable_Allocate, Shape
<1> HIDE DEF t
<1>2. \A b \in 0..(n - 1) : KeySet(t.buckets[b]) = {} /\ OncePerKey(t.buckets[b])
  BY <1>1 DEF KeySet, OncePerKey
<1>3. Held(t) = {} /\ Chained(t)
  <2>1. Held(t) = {}
    BY <1>1, <1>2 DEF Held
  <2>2. Chained(t)
    BY <1>1, <1>2, Zenon DEF Chained
  <2> QED BY <2>1, <2>2
<1>4. Slots(t) = {}
  BY <1>1, SlotsAre
<1>5. Counted(t)
  BY <1>1, <1>3, <1>4, FS_EmptySet DEF Counted
<1> QED BY <1>1, <1>3, <1>5 DEF Good, t

\* t with chain c in bucket b, and m elements.
WithChain(t, b, c, m) ==
    [num_buckets |-> t.num_buckets, num_elements |-> m, buckets |-> [t.buckets EXCEPT ![b] = c]]

\* c may be the chain of bucket b in t.
Fits(t, b, c) ==
    /\ Good(t) /\ b \in 0..(t.num_buckets - 1)
    /\ c \in Seq(Pairs) /\ OncePerKey(c)
    /\ \A k \in KeySet(c) : k % t.num_buckets = b

SlotsOf(b, c) == {<<b, i>> : i \in 1..Len(c)}

\* u is t with chain c in bucket b.
Replaces(u, t, b, c) ==
    /\ Shape(u) /\ Chained(u)
    /\ Held(u) = (Held(t) \ KeySet(t.buckets[b])) \cup KeySet(c)
    /\ Slots(u) = (Slots(t) \ SlotsOf(b, t.buckets[b])) \cup SlotsOf(b, c)

LEMMA ReplaceChain ==
    ASSUME NEW t, NEW b, NEW c, NEW m, Fits(t, b, c)
    PROVE  Replaces(WithChain(t, b, c, m), t, b, c)
<1>0. /\ Good(t) /\ b \in 0..(t.num_buckets - 1) /\ c \in Seq(Pairs) /\ OncePerKey(c)
      /\ \A k \in KeySet(c) : k % t.num_buckets = b
  BY DEF Fits
<1> DEFINE u == WithChain(t, b, c, m)
           B == 0..(t.num_buckets - 1)
<1>1. /\ u.num_buckets = t.num_buckets /\ u.num_elements = m
      /\ u.buckets = [t.buckets EXCEPT ![b] = c]
      /\ u = [num_buckets |-> u.num_buckets, num_elements |-> u.num_elements, buckets |-> u.buckets]
  BY DEF WithChain
<1> HIDE DEF u
<1>2. Shape(u) /\ u.buckets[b] = c /\ \A d \in B \ {b} : u.buckets[d] = t.buckets[d]
  BY <1>0, <1>1 DEF Good, Shape
<1>3. Chained(u)
  BY <1>0, <1>1, <1>2 DEF Good, Chained
<1>4. Held(u) = (Held(t) \ KeySet(t.buckets[b])) \cup KeySet(c)
  <2>1. ASSUME NEW d \in B, d # b PROVE KeySet(t.buckets[d]) \cap KeySet(t.buckets[b]) = {}
    BY <1>0, <2>1 DEF Good, Chained
  <2>2. \A k : k \in Held(u) <=> \E d \in B : k \in KeySet(u.buckets[d])
    BY <1>1 DEF Held
  <2>3. \A k : k \in Held(t) <=> \E d \in B : k \in KeySet(t.buckets[d])
    BY DEF Held
  <2> HIDE DEF B
  <2>4. b \in B
    BY <1>0 DEF B
  <2> QED BY <1>2, <2>1, <2>2, <2>3, <2>4
<1>5. Slots(u) = (Slots(t) \ {<<b, i>> : i \in 1..Len(t.buckets[b])}) \cup {<<b, i>> : i \in 1..Len(c)}
  <2>1. \A s : s \in Slots(t) <=> \E d \in B : \E i \in 1..Len(t.buckets[d]) : s = <<d, i>>
    BY <1>0, SlotsAre DEF Good
  <2>2. \A s : s \in Slots(u) <=> \E d \in B : \E i \in 1..Len(u.buckets[d]) : s = <<d, i>>
    <3>1. Shape(u) /\ B = 0..(u.num_buckets - 1)
      BY <1>1, <1>2
    <3>2. \A s : s \in Slots(u) <=>
               \E d \in 0..(u.num_buckets - 1) : \E i \in 1..Len(u.buckets[d]) : s = <<d, i>>
      BY <3>1, SlotsAre
    <3> HIDE DEF B
    <3> QED BY <3>1, <3>2
  <2>3. b \in B
    BY <1>0
  <2> HIDE DEF B
  <2>4. ASSUME NEW s \in Slots(u)
        PROVE  s \in (Slots(t) \ {<<b, i>> : i \in 1..Len(t.buckets[b])}) \cup {<<b, i>> : i \in 1..Len(c)}
    <3>1. PICK d \in B : \E i \in 1..Len(u.buckets[d]) : s = <<d, i>>
      BY <2>2
    <3>2. CASE d = b
      BY <1>2, <3>1, <3>2
    <3>3. CASE d # b
      BY <1>2, <2>1, <3>1, <3>3
    <3> QED BY <3>2, <3>3
  <2>5. ASSUME NEW s \in Slots(t), s \notin {<<b, i>> : i \in 1..Len(t.buckets[b])}
        PROVE  s \in Slots(u)
    <3>1. PICK d \in B : \E i \in 1..Len(t.buckets[d]) : s = <<d, i>>
      BY <2>1
    <3>2. d # b
      BY <2>5, <3>1
    <3> QED BY <1>2, <2>2, <3>1, <3>2
  <2>6. ASSUME NEW i \in 1..Len(c) PROVE <<b, i>> \in Slots(u)
    BY <1>2, <2>2, <2>3
  <2> QED BY <2>4, <2>5, <2>6
<1> QED BY <1>2, <1>3, <1>4, <1>5 DEF u, Replaces, SlotsOf

\* The keys of a chain are those of its pairs.
LEMMA KeyOfPair ==
    ASSUME NEW chain, NEW p \in PairSet(chain)
    PROVE  p.key \in KeySet(chain)
BY DEF PairSet, KeySet

LEMMA ReplacePairs ==
    ASSUME NEW t, NEW b, NEW c, NEW m, Fits(t, b, c)
    PROVE  /\ PairsOf(WithChain(t, b, c, m)) = (PairsOf(t) \ PairSet(t.buckets[b])) \cup PairSet(c)
           /\ \A p \in PairsOf(t) : p.key % t.num_buckets = b <=> p \in PairSet(t.buckets[b])
<1> DEFINE u == WithChain(t, b, c, m)
           B == 0..(t.num_buckets - 1)
<1>1. Good(t) /\ b \in B
  BY DEF Fits
<1>2. u.num_buckets = t.num_buckets /\ u.buckets[b] = c /\ \A d \in B \ {b} : u.buckets[d] = t.buckets[d]
  BY <1>1 DEF WithChain, Good, Shape
<1>3. ASSUME NEW d \in B, NEW p \in PairSet(t.buckets[d]) PROVE p.key % t.num_buckets = d
  BY <1>1, <1>3, KeyOfPair DEF Good, Chained
<1>4. \A p : p \in PairsOf(u) <=> \E d \in B : p \in PairSet(u.buckets[d])
  BY <1>2 DEF PairsOf
<1>5. \A p : p \in PairsOf(t) <=> \E d \in B : p \in PairSet(t.buckets[d])
  BY DEF PairsOf
<1> HIDE DEF u, B
<1>6. \A d \in B : \A p : p \in PairSet(t.buckets[d]) /\ p \in PairSet(t.buckets[b]) => d = b
  BY <1>1, <1>3
<1>7. PairsOf(u) = (PairsOf(t) \ PairSet(t.buckets[b])) \cup PairSet(c)
  BY <1>1, <1>2, <1>4, <1>5, <1>6
<1>8. \A p \in PairsOf(t) : p.key % t.num_buckets = b <=> p \in PairSet(t.buckets[b])
  BY <1>1, <1>3, <1>5
<1> QED BY <1>7, <1>8 DEF u

LEMMA Bucket ==
    ASSUME NEW t, Good(t), NEW k \in Keys
    PROVE  /\ HashKeyToBucketNum(t, k) \in 0..(t.num_buckets - 1)
           /\ HashKeyToBucketNum(t, k) = k % t.num_buckets
           /\ ChainOf(t, k) = t.buckets[HashKeyToBucketNum(t, k)]
           /\ ChainOf(t, k) \in Seq(Pairs) /\ OncePerKey(ChainOf(t, k))
           /\ k \in Held(t) <=> k \in KeySet(ChainOf(t, k))
<1> DEFINE n == t.num_buckets
           b == k % n
<1>1. n \in Nat \ {0} /\ k \in Nat /\ b \in 0..(n - 1)
  BY DEF Good, Shape
<1>2. t.buckets[b] \in Seq(Pairs) /\ OncePerKey(t.buckets[b])
  BY <1>1 DEF Good, Shape, Chained
<1>3. k \in Held(t) <=> k \in KeySet(t.buckets[b])
  <2>1. \A d \in 0..(n - 1) : k \in KeySet(t.buckets[d]) => d = b
    BY DEF Good, Chained
  <2>2. k \in Held(t) <=> \E d \in 0..(n - 1) : k \in KeySet(t.buckets[d])
    BY DEF Held
  <2> HIDE DEF b, n
  <2> QED BY <1>1, <2>1, <2>2
<1> QED BY <1>1, <1>2, <1>3 DEF HashKeyToBucketNum, ChainOf

\* What FindKey finds in the chain of a key.
LEMMA FindInChain ==
    ASSUME NEW chain \in Seq(Pairs), NEW k
    PROVE  /\ FindKey(chain, k) = 0 <=> k \notin KeySet(chain)
           /\ FindKey(chain, k) # 0 => /\ FindKey(chain, k) \in 1..Len(chain)
                                       /\ chain[FindKey(chain, k)].key = k
BY FindKeyFinds DEF KeySet

LEMMA PutGood ==
    ASSUME NEW t, Good(t), NEW kv \in Pairs
    PROVE  /\ Good(Put(t, kv)) /\ Held(Put(t, kv)) = Held(t) \cup {kv.key}
           /\ Put(t, kv).num_buckets = t.num_buckets
           /\ Put(t, kv).num_elements <= t.num_elements + 1
           /\ PairsOf(Put(t, kv)) = {p \in PairsOf(t) : p.key # kv.key} \cup {kv}
<1> DEFINE k == kv.key
           b == HashKeyToBucketNum(t, k)
           chain == t.buckets[b]
           i == FindKey(chain, k)
           rest == IF i = 0 THEN chain ELSE Seqs!RemoveAt(chain, i)
           c == <<kv>> \o rest
           m == IF i = 0 THEN t.num_elements + 1 ELSE t.num_elements
           u == WithChain(t, b, c, m)
<1>1. k \in Keys
  BY DEF Pairs
<1>2. /\ b \in 0..(t.num_buckets - 1) /\ b = k % t.num_buckets
      /\ chain \in Seq(Pairs) /\ OncePerKey(chain)
      /\ k \in Held(t) <=> k \in KeySet(chain)
  BY <1>1, Bucket
<1>3. /\ i = 0 <=> k \notin KeySet(chain)
      /\ i # 0 => i \in 1..Len(chain) /\ chain[i].key = k
  BY <1>2, FindInChain
<1>4. Put(t, kv) = u
  <2>1. /\ t = [num_buckets |-> t.num_buckets, num_elements |-> t.num_elements, buckets |-> t.buckets]
        /\ DOMAIN t.buckets = 0..(t.num_buckets - 1)
    BY DEF Good, Shape
  <2>2. Put(t, kv) = [t EXCEPT !.buckets[b] = c, !.num_elements = m]
    BY DEF Put
  <2> HIDE DEF b, c, m
  <2> QED BY <2>1, <2>2 DEF WithChain
<1>5. \A x \in KeySet(chain) : x % t.num_buckets = b
  BY <1>2 DEF Good, Chained
<1> HIDE DEF k, b, chain, i
<1>6. /\ rest \in Seq(Pairs) /\ OncePerKey(rest) /\ KeySet(rest) = KeySet(chain) \ {k}
      /\ Len(rest) = IF i = 0 THEN Len(chain) ELSE Len(chain) - 1
      /\ PairSet(rest) = {p \in PairSet(chain) : p.key # k}
  <2>1. CASE i = 0
    <3>1. \A p \in PairSet(chain) : p.key # k
      BY <1>3, <2>1, KeyOfPair
    <3> QED BY <1>2, <1>3, <2>1, <3>1
  <2>2. CASE i # 0
    <3>1. i \in 1..Len(chain) /\ chain[i].key = k
      BY <1>3, <2>2
    <3>2. rest = Seqs!RemoveAt(chain, i)
      BY <2>2
    <3>3. /\ rest \in Seq(Pairs) /\ Len(rest) = Len(chain) - 1 /\ OncePerKey(rest)
          /\ KeySet(rest) = KeySet(chain) \ {chain[i].key}
          /\ PairSet(rest) = {p \in PairSet(chain) : p.key # chain[i].key}
      BY <1>2, <3>1, <3>2, RemoveAtChain
    <3> HIDE DEF rest
    <3> QED BY <2>2, <3>1, <3>3
  <2> QED BY <2>1, <2>2
<1> HIDE DEF rest
<1>7. /\ c \in Seq(Pairs) /\ Len(c) = Len(rest) + 1 /\ OncePerKey(c)
      /\ KeySet(c) = KeySet(chain) \cup {k}
      /\ PairSet(c) = {p \in PairSet(chain) : p.key # k} \cup {kv}
  <2>1. /\ c \in Seq(Pairs) /\ Len(c) = Len(rest) + 1 /\ OncePerKey(c)
        /\ KeySet(c) = KeySet(rest) \cup {k}
        /\ PairSet(c) = PairSet(rest) \cup {kv}
    BY <1>6, PushChain DEF k
  <2> QED BY <1>6, <2>1
<1> HIDE DEF c
<1>0. Fits(t, b, c) /\ t.buckets[b] = chain
  <2>1. \A x \in KeySet(c) : x % t.num_buckets = b
    BY <1>2, <1>5, <1>7
  <2> QED BY <1>2, <1>7, <2>1 DEF Fits, chain
<1>8. /\ Shape(u) /\ Chained(u)
      /\ Held(u) = (Held(t) \ KeySet(chain)) \cup KeySet(c)
      /\ Slots(u) = (Slots(t) \ {<<b, j>> : j \in 1..Len(chain)}) \cup {<<b, j>> : j \in 1..Len(c)}
  <2>1. Replaces(u, t, b, c)
    BY <1>0, ReplaceChain
  <2> HIDE DEF u
  <2> QED BY <1>0, <2>1 DEF Replaces, SlotsOf
<1>13. PairsOf(u) = {p \in PairsOf(t) : p.key # k} \cup {kv}
  <2>1. /\ PairsOf(u) = (PairsOf(t) \ PairSet(chain)) \cup PairSet(c)
        /\ \A p \in PairsOf(t) : p.key % t.num_buckets = b <=> p \in PairSet(chain)
    BY <1>0, ReplacePairs
  <2>2. \A p \in PairsOf(t) : p.key = k => p \in PairSet(chain)
    BY <1>2, <2>1
  <2>3. PairSet(chain) \subseteq PairsOf(t)
    BY <1>2, <1>0 DEF PairsOf
  <2> HIDE DEF u
  <2> QED BY <1>7, <2>1, <2>2, <2>3
<1>9. KeySet(chain) \subseteq Held(t) /\ {<<b, j>> : j \in 1..Len(chain)} \subseteq Slots(t)
  <2>1. KeySet(chain) \subseteq Held(t)
    BY <1>2 DEF Held, chain
  <2>2. ASSUME NEW j \in 1..Len(chain) PROVE <<b, j>> \in Slots(t)
    BY <1>2, SlotsAre DEF Good, chain
  <2> QED BY <2>1, <2>2
<1>10. Held(u) = Held(t) \cup {k}
  BY <1>7, <1>8, <1>9
<1>11. u.num_buckets = t.num_buckets /\ u.num_elements = m
  BY DEF WithChain
<1> HIDE DEF u
<1>12. Counted(u) /\ m <= t.num_elements + 1
  <2> DEFINE l == Len(chain)
  <2>1. /\ t.num_elements \in Nat
        /\ IsFiniteSet(Slots(t)) /\ Cardinality(Slots(t)) = t.num_elements
        /\ IsFiniteSet(Held(t)) /\ Cardinality(Held(t)) = t.num_elements
    BY DEF Good, Counted
  <2>2. CASE i = 0
    <3>1. k \notin Held(t) /\ Len(c) = l + 1 /\ l \in Nat
      BY <1>2, <1>3, <1>6, <1>7, <2>2
    <3>2. Slots(u) = Slots(t) \cup {<<b, l + 1>>}
      <4>1. 1..Len(c) = (1..l) \cup {l + 1}
        BY <3>1
      <4> QED BY <1>8, <1>9, <4>1
    <3>3. <<b, l + 1>> \notin Slots(t)
      <4>1. \A s : s \in Slots(t) <=>
               \E d \in 0..(t.num_buckets - 1) : \E j \in 1..Len(t.buckets[d]) : s = <<d, j>>
        BY SlotsAre DEF Good
      <4>2. l + 1 \notin 1..Len(t.buckets[b])
        BY <3>1 DEF chain
      <4> QED BY <4>1, <4>2
    <3>4. m = t.num_elements + 1
      BY <2>2
    <3> DEFINE x == <<b, l + 1>>
    <3>5. IsFiniteSet(Slots(u)) /\ Cardinality(Slots(u)) = t.num_elements + 1
      <4>1. Slots(u) = Slots(t) \cup {x} /\ x \notin Slots(t)
        BY <3>2, <3>3
      <4> HIDE DEF x
      <4> QED BY <2>1, <4>1, FS_AddElement
    <3>6. IsFiniteSet(Held(u)) /\ Cardinality(Held(u)) = t.num_elements + 1
      BY <1>10, <2>1, <3>1, FS_AddElement
    <3> QED BY <1>11, <2>1, <3>4, <3>5, <3>6 DEF Counted
  <2>3. CASE i # 0
    <3>1. k \in Held(t) /\ Len(c) = l
      BY <1>2, <1>3, <1>6, <1>7, <2>3
    <3>2. Slots(u) = Slots(t) /\ Held(u) = Held(t)
      BY <1>8, <1>9, <1>10, <3>1
    <3>3. m = t.num_elements
      BY <2>3
    <3> QED BY <1>11, <2>1, <3>2, <3>3 DEF Counted
  <2> QED BY <2>2, <2>3
<1> QED BY <1>4, <1>8, <1>10, <1>11, <1>12, <1>13 DEF Good, k
LEMMA TakeOutGood ==
    ASSUME NEW t, Good(t), NEW k \in Keys
    PROVE  /\ Good(TakeOut(t, k)) /\ Held(TakeOut(t, k)) = Held(t) \ {k}
           /\ TakeOut(t, k).num_buckets = t.num_buckets
           /\ TakeOut(t, k).num_elements <= t.num_elements
           /\ PairsOf(TakeOut(t, k)) = {p \in PairsOf(t) : p.key # k}
           /\ k \in Held(t) =>
                 TakeOut(t, k).buckets =
                    [t.buckets EXCEPT ![HashKeyToBucketNum(t, k)] =
                       Seqs!RemoveAt(ChainOf(t, k), FindKey(ChainOf(t, k), k))]
<1> DEFINE b == HashKeyToBucketNum(t, k)
           chain == t.buckets[b]
           i == FindKey(chain, k)
           c == Seqs!RemoveAt(chain, i)
           m == t.num_elements - 1
           u == WithChain(t, b, c, m)
<1>1. /\ b \in 0..(t.num_buckets - 1) /\ b = k % t.num_buckets
      /\ chain \in Seq(Pairs) /\ OncePerKey(chain)
      /\ k \in Held(t) <=> k \in KeySet(chain)
  BY Bucket
<1>2. /\ i = 0 <=> k \notin KeySet(chain)
      /\ i # 0 => i \in 1..Len(chain) /\ chain[i].key = k
  BY <1>1, FindInChain
<1>3. /\ t.num_elements \in Nat
      /\ IsFiniteSet(Slots(t)) /\ Cardinality(Slots(t)) = t.num_elements
      /\ IsFiniteSet(Held(t)) /\ Cardinality(Held(t)) = t.num_elements
  BY DEF Good, Counted
<1>4. CASE i = 0
  <2>1. TakeOut(t, k) = t
    BY <1>4 DEF TakeOut
  <2>2. k \notin Held(t)
    BY <1>1, <1>2, <1>4
  <2>3. \A p \in PairsOf(t) : p.key # k
    BY <2>2, KeyOfPair DEF PairsOf, Held
  <2> QED BY <1>3, <2>1, <2>2, <2>3
<1>5. CASE i # 0
  <2>1. TakeOut(t, k) = u
    <3>1. /\ t = [num_buckets |-> t.num_buckets, num_elements |-> t.num_elements, buckets |-> t.buckets]
          /\ DOMAIN t.buckets = 0..(t.num_buckets - 1)
      BY DEF Good, Shape
    <3>2. TakeOut(t, k) = [t EXCEPT !.buckets[b] = c, !.num_elements = m]
      BY <1>5 DEF TakeOut
    <3> HIDE DEF b, c, m
    <3> QED BY <3>1, <3>2 DEF WithChain
  <2>2. \A x \in KeySet(chain) : x % t.num_buckets = b
    BY <1>1 DEF Good, Chained
  <2>3. t.buckets[b] = chain
    OBVIOUS
  <2> HIDE DEF b, chain, i
  <2>4. /\ c \in Seq(Pairs) /\ Len(c) = Len(chain) - 1 /\ OncePerKey(c)
        /\ KeySet(c) = KeySet(chain) \ {k}
        /\ PairSet(c) = {p \in PairSet(chain) : p.key # k}
    BY <1>1, <1>2, <1>5, RemoveAtChain
  <2> HIDE DEF c
  <2>5. Fits(t, b, c)
    BY <1>1, <2>2, <2>4 DEF Fits
  <2>6. Replaces(u, t, b, c)
    BY <2>5, ReplaceChain
  <2>7. /\ u.num_buckets = t.num_buckets /\ u.num_elements = m
        /\ u.buckets = [t.buckets EXCEPT ![b] = c]
    BY DEF WithChain
  <2>0. /\ PairsOf(u) = (PairsOf(t) \ PairSet(t.buckets[b])) \cup PairSet(c)
        /\ \A p \in PairsOf(t) : p.key % t.num_buckets = b <=> p \in PairSet(t.buckets[b])
    BY <2>5, ReplacePairs
  <2> HIDE DEF u
  <2>8. KeySet(chain) \subseteq Held(t) /\ k \in KeySet(chain)
    BY <1>1, <1>2, <1>5, <2>3 DEF Held
  <2>9. Held(u) = Held(t) \ {k}
    BY <2>3, <2>4, <2>6, <2>8 DEF Replaces
  <2> DEFINE l == Len(chain)
  <2>10. l \in Nat \ {0} /\ Len(c) = l - 1 /\ 1..l = (1..(l - 1)) \cup {l} /\ l \notin 1..(l - 1)
    BY <1>1, <1>2, <1>5, <2>4
  <2>11. \A j \in 1..l : <<b, j>> \in Slots(t)
    BY <1>1, <2>3, SlotsAre DEF Good
  <2>12. Slots(u) = Slots(t) \ {<<b, l>>}
    <3>1. Slots(u) = (Slots(t) \ {<<b, j>> : j \in 1..l}) \cup {<<b, j>> : j \in 1..(l - 1)}
      BY <2>3, <2>6, <2>10 DEF Replaces, SlotsOf
    <3> HIDE DEF l
    <3> QED BY <2>10, <2>11, <3>1
  <2>13. <<b, l>> \in Slots(t)
    BY <2>10, <2>11
  <2>14. m \in Nat
    <3>1. t.num_elements # 0
      BY <1>3, <2>13, FS_EmptySet
    <3> QED BY <1>3, <3>1
  <2>15. Counted(u)
    <3>1. IsFiniteSet(Slots(u)) /\ Cardinality(Slots(u)) = m
      <4> DEFINE x == <<b, l>>
      <4>1. x \in Slots(t) /\ Slots(u) = Slots(t) \ {x}
        BY <2>12, <2>13
      <4> HIDE DEF x, l
      <4> QED BY <1>3, <4>1, FS_RemoveElement
    <3>2. k \in Held(t)
      BY <2>8
    <3>3. IsFiniteSet(Held(u)) /\ Cardinality(Held(u)) = m
      BY <1>3, <2>9, <3>2, FS_RemoveElement
    <3> QED BY <2>7, <2>14, <3>1, <3>3 DEF Counted
  <2>16. Good(u)
    BY <2>6, <2>15 DEF Good, Replaces
  <2>17. m <= t.num_elements
    BY <1>3
  <2>18. PairsOf(u) = {p \in PairsOf(t) : p.key # k}
    <3>1. \A p \in PairsOf(t) : p.key = k => p \in PairSet(chain)
      BY <1>1, <2>3, <2>0
    <3>2. PairSet(chain) \subseteq PairsOf(t)
      BY <1>1, <2>3 DEF PairsOf
    <3> QED BY <2>3, <2>4, <2>0, <3>1, <3>2
  <2>19. ChainOf(t, k) = chain
    BY <2>3 DEF ChainOf, b
  <2>20. u.buckets = [t.buckets EXCEPT ![HashKeyToBucketNum(t, k)] =
                         Seqs!RemoveAt(ChainOf(t, k), FindKey(ChainOf(t, k), k))]
    BY <2>7, <2>19 DEF b, c, i
  <2> HIDE DEF m
  <2> QED BY <2>1, <2>7, <2>9, <2>16, <2>17, <2>18, <2>20
<1> QED BY <1>4, <1>5

-----------------------------------------------------------------------------
\* The iterator.

\* i points at a pair of the table, or is past the end.
Placed(t, i) ==
    \/ i = PastEnd
    \/ \E b \in 0..(t.num_buckets - 1) : \E k \in KeySet(t.buckets[b]) :
          i = [bucket_idx |-> b, node |-> k]

LEMMA HeadFromFinds ==
    ASSUME NEW t, Shape(t), NEW b \in Nat
    PROVE  \/ /\ HeadFrom(t, b) = PastEnd
              /\ \A j \in b..(t.num_buckets - 1) : t.buckets[j] = <<>>
           \/ \E j \in b..(t.num_buckets - 1) :
                 /\ HeadFrom(t, b) = [bucket_idx |-> j, node |-> t.buckets[j][1].key]
                 /\ t.buckets[j][1].key \in KeySet(t.buckets[j])
                 /\ \A d \in b..(j - 1) : t.buckets[d] = <<>>
<1> DEFINE n == t.num_buckets
           filled == {i \in b..(n - 1) : t.buckets[i] # <<>>}
           first == CHOOSE i \in filled : \A j \in filled : i <= j
<1>1. n \in Nat /\ \A j \in 0..(n - 1) : t.buckets[j] \in Seq(Pairs)
  BY DEF Shape
<1>2. CASE filled = {}
  <2>1. HeadFrom(t, b) = PastEnd
    BY <1>2 DEF HeadFrom
  <2> QED BY <1>2, <2>1
<1>3. CASE filled # {}
  <2>1. HeadFrom(t, b) = [bucket_idx |-> first, node |-> t.buckets[first][1].key]
    BY <1>3 DEF HeadFrom
  <2>2. filled \subseteq Nat
    BY <1>1
  <2>3. first \in filled /\ \A y \in filled : first <= y
    <3> HIDE DEF filled
    <3>1. \E x \in filled : \A y \in filled : x <= y
      BY <1>3, <2>2, LeastElement
    <3> QED BY <3>1
  <2> HIDE DEF first
  <2>7. \A d \in b..(first - 1) : t.buckets[d] = <<>>
    <3> SUFFICES ASSUME NEW d \in b..(first - 1), t.buckets[d] # <<>> PROVE FALSE
      OBVIOUS
    <3>1. d \in filled /\ ~(first <= d)
      BY <1>1, <2>3
    <3> QED BY <2>3, <3>1
  <2>4. first \in b..(n - 1) /\ first \in 0..(n - 1) /\ t.buckets[first] # <<>>
    BY <1>1, <2>3
  <2>5. t.buckets[first] \in Seq(Pairs) /\ 1 \in 1..Len(t.buckets[first])
    BY <1>1, <2>4
  <2>6. t.buckets[first][1].key \in KeySet(t.buckets[first])
    BY <2>5 DEF KeySet
  <2> QED BY <2>1, <2>4, <2>6, <2>7
<1> QED BY <1>2, <1>3

LEMMA HeadFromPlaced ==
    ASSUME NEW t, Shape(t), NEW b \in Nat
    PROVE  Placed(t, HeadFrom(t, b))
<1>1. CASE HeadFrom(t, b) = PastEnd
  BY <1>1 DEF Placed
<1>2. CASE HeadFrom(t, b) # PastEnd
  <2>1. PICK j \in b..(t.num_buckets - 1) :
           /\ HeadFrom(t, b) = [bucket_idx |-> j, node |-> t.buckets[j][1].key]
           /\ t.buckets[j][1].key \in KeySet(t.buckets[j])
    BY <1>2, HeadFromFinds
  <2>2. j \in 0..(t.num_buckets - 1)
    BY <2>1 DEF Shape
  <2> QED BY <2>1, <2>2 DEF Placed
<1> QED BY <1>1, <1>2

LEMMA StartPlaced ==
    ASSUME NEW t, Good(t)
    PROVE  /\ Placed(t, HTIterator_Allocate(t))
           /\ t.num_elements # 0 => IsValid(HeadFrom(t, 0))
<1>1. Placed(t, HTIterator_Allocate(t))
  BY HeadFromPlaced DEF Good, HTIterator_Allocate, Placed
<1>2. ASSUME t.num_elements # 0 PROVE IsValid(HeadFrom(t, 0))
  <2>1. Held(t) # {}
    BY <1>2, FS_EmptySet DEF Good, Counted
  <2>2. PICK b \in 0..(t.num_buckets - 1) : KeySet(t.buckets[b]) # {}
    BY <2>1 DEF Held
  <2>3. t.buckets[b] # <<>>
    BY <2>2 DEF KeySet
  <2>4. PICK j \in 0..(t.num_buckets - 1) :
           HeadFrom(t, 0) = [bucket_idx |-> j, node |-> t.buckets[j][1].key]
    BY <2>3, HeadFromFinds DEF Good
  <2> QED BY <2>4 DEF IsValid, INVALID_IDX, Good, Shape
<1> QED BY <1>1, <1>2

\* What a valid iterator points at.
LEMMA Pointed ==
    ASSUME NEW t, Good(t), NEW i, Placed(t, i), IsValid(i)
    PROVE  /\ i.bucket_idx \in 0..(t.num_buckets - 1)
           /\ i = [bucket_idx |-> i.bucket_idx, node |-> i.node]
           /\ t.buckets[i.bucket_idx] \in Seq(Pairs) /\ OncePerKey(t.buckets[i.bucket_idx])
           /\ i.node \in KeySet(t.buckets[i.bucket_idx])
           /\ i.node \in Keys /\ i.node \in Held(t)
           /\ HashKeyToBucketNum(t, i.node) = i.bucket_idx
           /\ FindKey(t.buckets[i.bucket_idx], i.node) \in 1..Len(t.buckets[i.bucket_idx])
           /\ PairAt(t, i) \in Pairs /\ PairAt(t, i).key = i.node
<1>1. PICK b \in 0..(t.num_buckets - 1) : \E k \in KeySet(t.buckets[b]) :
          i = [bucket_idx |-> b, node |-> k]
  BY DEF Placed, IsValid, PastEnd
<1>2. /\ i.bucket_idx = b /\ i.node \in KeySet(t.buckets[b])
      /\ i = [bucket_idx |-> i.bucket_idx, node |-> i.node]
  BY <1>1
<1> DEFINE chain == t.buckets[b]
<1>3. chain \in Seq(Pairs) /\ OncePerKey(chain)
  BY DEF Good, Shape, Chained
<1>4. i.node % t.num_buckets = b
  BY <1>2 DEF Good, Chained
<1>5. i.node \in Held(t)
  BY <1>2 DEF Held
<1> HIDE DEF chain
<1>6. i.node \in KeySet(chain)
  BY <1>2 DEF chain
<1>7. i.node \in Keys
  <2>1. PICK j \in 1..Len(chain) : chain[j].key = i.node
    BY <1>6 DEF KeySet
  <2>2. chain[j] \in Pairs
    BY <1>3
  <2> QED BY <2>1, <2>2 DEF Pairs
<1>8. FindKey(chain, i.node) \in 1..Len(chain) /\ chain[FindKey(chain, i.node)].key = i.node
  BY <1>3, <1>6, FindInChain
<1>9. PairAt(t, i) = chain[FindKey(chain, i.node)]
  BY <1>2 DEF PairAt, chain
<1>10. PairAt(t, i) \in Pairs
  BY <1>3, <1>8, <1>9
<1> QED BY <1>2, <1>3, <1>4, <1>5, <1>6, <1>7, <1>8, <1>9, <1>10 DEF chain, HashKeyToBucketNum

LEMMA PlacedIsSomething ==
    ASSUME NEW t, Good(t), NEW i, Placed(t, i)
    PROVE  i # Nothing
<1>1. CASE i = PastEnd
  BY <1>1 DEF PastEnd, INVALID_IDX
<1>2. CASE i # PastEnd
  <2>1. IsValid(i)
    BY <1>2 DEF Placed, IsValid, INVALID_IDX, Good, Shape
  <2>2. /\ i.bucket_idx \in Int /\ i.node \in Keys
        /\ i = [bucket_idx |-> i.bucket_idx, node |-> i.node]
    BY <2>1, Pointed
  <2> QED BY <2>2
<1> QED BY <1>1, <1>2

\* A step of the iterator leads to another pair, or past the end.
LEMMA NextPlaced ==
    ASSUME NEW t, Good(t), NEW i, Placed(t, i)
    PROVE  LET j == HTIterator_Next(t, i)
           IN  /\ Placed(t, j)
               /\ IsValid(i) /\ IsValid(j) => j.node # i.node
<1> DEFINE j == HTIterator_Next(t, i)
           b == i.bucket_idx
           chain == t.buckets[b]
           p == FindKey(chain, i.node)
<1>1. CASE ~IsValid(i)
  BY <1>1 DEF HTIterator_Next
<1>2. CASE IsValid(i)
  <2>1. /\ b \in 0..(t.num_buckets - 1) /\ i = [bucket_idx |-> b, node |-> i.node]
        /\ chain \in Seq(Pairs) /\ OncePerKey(chain)
        /\ i.node \in KeySet(chain) /\ i.node \in Keys /\ i.node % t.num_buckets = b
        /\ p \in 1..Len(chain)
    BY <1>2, Pointed DEF HashKeyToBucketNum
  <2>2. chain[p].key = i.node
    BY <2>1, FindInChain
  <2>3. CASE p < Len(chain)
    <3>1. j = [bucket_idx |-> b, node |-> chain[p + 1].key]
      <4>1. j = [i EXCEPT !.node = chain[p + 1].key]
        BY <1>2, <2>3 DEF HTIterator_Next
      <4> HIDE DEF j, b, chain, p
      <4> QED BY <2>1, <4>1
    <3> HIDE DEF j, p
    <3>2. p + 1 \in 1..Len(chain) /\ p + 1 # p
      BY <2>1, <2>3
    <3>3. chain[p + 1].key \in KeySet(chain) /\ chain[p + 1].key # chain[p].key
      BY <2>1, <3>2 DEF KeySet, OncePerKey
    <3>4. Placed(t, j)
      BY <2>1, <3>1, <3>3 DEF Placed
    <3> QED BY <2>2, <3>1, <3>3, <3>4 DEF j
  <2>4. CASE ~(p < Len(chain))
    <3>1. j = HeadFrom(t, b + 1)
      BY <1>2, <2>4 DEF HTIterator_Next
    <3>2. t.num_buckets \in Nat \ {0} /\ b + 1 \in Nat /\ Shape(t)
      BY <2>1 DEF Good, Shape
    <3> HIDE DEF j, b, chain, p
    <3>3. Placed(t, j)
      BY <3>1, <3>2, HeadFromPlaced
    <3>4. ASSUME IsValid(j) PROVE j.node # i.node
      <4>1. j # PastEnd
        BY <3>4 DEF IsValid, PastEnd
      <4>2. PICK d \in (b + 1)..(t.num_buckets - 1) :
               /\ j = [bucket_idx |-> d, node |-> t.buckets[d][1].key]
               /\ t.buckets[d][1].key \in KeySet(t.buckets[d])
        BY <3>1, <3>2, <4>1, HeadFromFinds
      <4>3. d \in 0..(t.num_buckets - 1) /\ d # b
        BY <2>1, <3>2, <4>2
      <4>4. j.node % t.num_buckets = d
        BY <4>2, <4>3 DEF Good, Chained
      <4> QED BY <2>1, <4>3, <4>4
    <3> QED BY <3>3, <3>4 DEF j
  <2> QED BY <2>3, <2>4
<1> QED BY <1>1, <1>2

-----------------------------------------------------------------------------
\* What the walk has still to visit.

Later(t, b) == UNION {KeySet(t.buckets[d]) : d \in b..(t.num_buckets - 1)}

Rest(chain, p) == {chain[i].key : i \in p..Len(chain)}

\* The keys at the iterator and after it.
AheadOf(t, i) ==
    LET chain == t.buckets[i.bucket_idx] IN
    IF ~IsValid(i) THEN {}
    ELSE Rest(chain, FindKey(chain, i.node)) \cup Later(t, i.bucket_idx + 1)

LEMMA FindPlace ==
    ASSUME NEW chain \in Seq(Pairs), OncePerKey(chain), NEW p \in 1..Len(chain)
    PROVE  FindKey(chain, chain[p].key) = p
<1>1. chain[p].key \in KeySet(chain)
  BY DEF KeySet
<1> QED BY <1>1, FindInChain DEF OncePerKey

LEMMA HeadAhead ==
    ASSUME NEW t, Good(t), NEW b \in Nat
    PROVE  AheadOf(t, HeadFrom(t, b)) = Later(t, b)
<1> DEFINE n == t.num_buckets
           h == HeadFrom(t, b)
<1>1. n \in Nat \ {0} /\ Shape(t)
  BY DEF Good, Shape
<1>2. CASE h = PastEnd /\ \A j \in b..(n - 1) : t.buckets[j] = <<>>
  <2>1. \A j \in b..(n - 1) : KeySet(t.buckets[j]) = {}
    BY <1>2 DEF KeySet
  <2> QED BY <1>2, <2>1 DEF AheadOf, Later, IsValid, PastEnd
<1>3. ASSUME NEW j \in b..(n - 1), h = [bucket_idx |-> j, node |-> t.buckets[j][1].key],
             t.buckets[j][1].key \in KeySet(t.buckets[j]),
             \A d \in b..(j - 1) : t.buckets[d] = <<>>
      PROVE  AheadOf(t, h) = Later(t, b)
  <2> DEFINE chain == t.buckets[j]
  <2>1. j \in 0..(n - 1) /\ j # INVALID_IDX /\ IsValid(h)
    BY <1>1, <1>3 DEF IsValid, INVALID_IDX
  <2>2. chain \in Seq(Pairs) /\ OncePerKey(chain)
    BY <2>1 DEF Good, Shape, Chained
  <2>3. 1 \in 1..Len(chain)
    <3>1. 1..Len(chain) # {}
      BY <1>3 DEF KeySet
    <3> QED BY <2>2, <3>1
  <2>4. FindKey(chain, chain[1].key) = 1
    <3> HIDE DEF chain
    <3> QED BY <2>2, <2>3, FindPlace
  <2>5. AheadOf(t, h) = KeySet(chain) \cup Later(t, j + 1)
    BY <1>3, <2>1, <2>4 DEF AheadOf, Rest, KeySet
  <2>6. Later(t, b) = KeySet(chain) \cup Later(t, j + 1)
    <3>1. \A d \in b..(j - 1) : KeySet(t.buckets[d]) = {}
      BY <1>3 DEF KeySet
    <3>2. b..(n - 1) = (b..(j - 1)) \cup {j} \cup ((j + 1)..(n - 1))
      BY <1>1, <2>1
    <3> HIDE DEF n
    <3>3. \A k : k \in Later(t, b) <=> \E d \in b..(n - 1) : k \in KeySet(t.buckets[d])
      BY DEF Later, n
    <3>4. \A k : k \in Later(t, j + 1) <=> \E d \in (j + 1)..(n - 1) : k \in KeySet(t.buckets[d])
      BY DEF Later, n
    <3> QED BY <3>1, <3>2, <3>3, <3>4
  <2> QED BY <2>5, <2>6
<1> QED BY <1>1, <1>2, <1>3, HeadFromFinds

LEMMA StartAhead ==
    ASSUME NEW t, Good(t)
    PROVE  AheadOf(t, HTIterator_Allocate(t)) = Held(t)
<1>1. CASE t.num_elements = 0
  <2>1. Held(t) = {}
    BY <1>1, FS_EmptySet DEF Good, Counted
  <2> QED BY <1>1, <2>1 DEF HTIterator_Allocate, AheadOf, IsValid, PastEnd
<1>2. CASE t.num_elements # 0
  <2>1. HTIterator_Allocate(t) = HeadFrom(t, 0)
    BY <1>2 DEF HTIterator_Allocate
  <2> QED BY <2>1, HeadAhead DEF Later, Held
<1> QED BY <1>1, <1>2

\* What a valid iterator has before it: the rest of its chain, from its own pair on, and
\* the chains after it.
LEMMA ValidAhead ==
    ASSUME NEW t, Good(t), NEW i, Placed(t, i), IsValid(i)
    PROVE  LET chain == t.buckets[i.bucket_idx]
               p     == FindKey(chain, i.node)
               later == Later(t, i.bucket_idx + 1)
           IN  /\ AheadOf(t, i) = {i.node} \cup Rest(chain, p + 1) \cup later
               /\ i.node \notin Rest(chain, p + 1) /\ i.node \notin later
<1> DEFINE b     == i.bucket_idx
           chain == t.buckets[b]
           p     == FindKey(chain, i.node)
           later == Later(t, b + 1)
<1>1. /\ b \in 0..(t.num_buckets - 1)
      /\ chain \in Seq(Pairs) /\ OncePerKey(chain)
      /\ i.node \in KeySet(chain) /\ i.node % t.num_buckets = b
      /\ p \in 1..Len(chain)
  BY Pointed DEF HashKeyToBucketNum
<1>2. chain[p].key = i.node
  BY <1>1, FindInChain
<1>3. AheadOf(t, i) = Rest(chain, p) \cup later
  BY DEF AheadOf
<1>4. i.node \notin later
  <2>1. \A d \in (b + 1)..(t.num_buckets - 1) : d \in 0..(t.num_buckets - 1) /\ d # b
    BY <1>1 DEF Good, Shape
  <2>2. \A d \in (b + 1)..(t.num_buckets - 1) : i.node \notin KeySet(t.buckets[d])
    BY <1>1, <2>1 DEF Good, Chained
  <2> QED BY <2>2 DEF Later
<1> HIDE DEF chain, p, b, later
<1>5. p..Len(chain) = {p} \cup ((p + 1)..Len(chain))
      /\ \A j \in (p + 1)..Len(chain) : j \in 1..Len(chain) /\ j # p
  BY <1>1
<1>6. Rest(chain, p) = {i.node} \cup Rest(chain, p + 1)
  BY <1>2, <1>5 DEF Rest
<1>7. i.node \notin Rest(chain, p + 1)
  BY <1>1, <1>2, <1>5 DEF Rest, OncePerKey
<1> QED BY <1>3, <1>4, <1>6, <1>7 DEF chain, p, b, later

LEMMA NextAhead ==
    ASSUME NEW t, Good(t), NEW i, Placed(t, i), IsValid(i)
    PROVE  AheadOf(t, HTIterator_Next(t, i)) = AheadOf(t, i) \ {i.node}
<1> DEFINE b     == i.bucket_idx
           chain == t.buckets[b]
           p     == FindKey(chain, i.node)
           later == Later(t, b + 1)
           j     == HTIterator_Next(t, i)
<1>1. /\ b \in 0..(t.num_buckets - 1) /\ i = [bucket_idx |-> b, node |-> i.node]
      /\ chain \in Seq(Pairs) /\ OncePerKey(chain) /\ p \in 1..Len(chain)
  BY Pointed
<1>2. AheadOf(t, i) \ {i.node} = Rest(chain, p + 1) \cup later
  BY ValidAhead
<1>3. CASE p < Len(chain)
  <2>1. j = [bucket_idx |-> b, node |-> chain[p + 1].key]
    <3>1. j = [i EXCEPT !.node = chain[p + 1].key]
      BY <1>3 DEF HTIterator_Next
    <3> HIDE DEF j, b, chain, p
    <3> QED BY <1>1, <3>1
  <2>2. p + 1 \in 1..Len(chain)
    BY <1>1, <1>3
  <2>3. FindKey(chain, chain[p + 1].key) = p + 1
    <3> HIDE DEF chain, p
    <3> QED BY <1>1, <2>2, FindPlace
  <2>4. IsValid(j)
    BY <1>1, <2>1 DEF IsValid, INVALID_IDX, Good, Shape
  <2>5. AheadOf(t, j) = Rest(chain, p + 1) \cup later
    <3>1. j.bucket_idx = b /\ j.node = chain[p + 1].key
      BY <2>1
    <3> HIDE DEF j, b, p
    <3> QED BY <2>3, <2>4, <3>1 DEF AheadOf
  <2> QED BY <1>2, <2>5
<1>4. CASE ~(p < Len(chain))
  <2>1. j = HeadFrom(t, b + 1) /\ b + 1 \in Nat
    BY <1>1, <1>4 DEF HTIterator_Next
  <2>2. Rest(chain, p + 1) = {}
    <3>1. (p + 1)..Len(chain) = {}
      BY <1>1, <1>4
    <3> QED BY <3>1 DEF Rest
  <2> HIDE DEF j
  <2>3. AheadOf(t, j) = later
    BY <2>1, HeadAhead
  <2> QED BY <1>2, <2>2, <2>3 DEF j
<1> QED BY <1>3, <1>4

\* HTIterator_Remove: taking out the pair the iterator came from changes nothing of what
\* is before it.
LEMMA RemovedAhead ==
    ASSUME NEW t, Good(t), NEW i, Placed(t, i), IsValid(i)
    PROVE  AheadOf(TakeOut(t, i.node), HTIterator_Next(t, i)) = AheadOf(t, HTIterator_Next(t, i))
<1> DEFINE b     == i.bucket_idx
           n     == t.num_buckets
           chain == t.buckets[b]
           p     == FindKey(chain, i.node)
           c     == Seqs!RemoveAt(chain, p)
           j     == HTIterator_Next(t, i)
           u     == TakeOut(t, i.node)
<1>1. /\ b \in 0..(n - 1) /\ i = [bucket_idx |-> b, node |-> i.node]
      /\ chain \in Seq(Pairs) /\ OncePerKey(chain) /\ p \in 1..Len(chain)
      /\ i.node \in Keys /\ i.node \in Held(t)
      /\ HashKeyToBucketNum(t, i.node) = b
  BY Pointed
<1>2. n \in Nat \ {0} /\ DOMAIN t.buckets = 0..(n - 1) /\ ChainOf(t, i.node) = chain
  BY <1>1 DEF Good, Shape, ChainOf
<1>3. u.num_buckets = n /\ u.buckets = [t.buckets EXCEPT ![b] = c]
  BY <1>1, <1>2, TakeOutGood
<1> HIDE DEF u
<1>4. u.buckets[b] = c /\ \A d \in (b + 1)..(n - 1) : u.buckets[d] = t.buckets[d]
  <2>1. \A d \in (b + 1)..(n - 1) : d \in 0..(n - 1) /\ d # b
    BY <1>1, <1>2
  <2> HIDE DEF b, c, n
  <2> QED BY <1>1, <1>2, <1>3, <2>1
<1>5. ASSUME NEW x \in Nat, b + 1 <= x PROVE Later(u, x) = Later(t, x)
  <2>1. \A d \in x..(n - 1) : d \in (b + 1)..(n - 1)
    BY <1>1, <1>2, <1>5
  <2>2. \A d \in x..(n - 1) : KeySet(u.buckets[d]) = KeySet(t.buckets[d])
    BY <1>4, <2>1
  <2> QED BY <1>3, <2>2 DEF Later
<1>6. CASE ~IsValid(j)
  BY <1>6 DEF AheadOf
<1>7. CASE IsValid(j) /\ p < Len(chain)
  <2>1. j = [bucket_idx |-> b, node |-> chain[p + 1].key]
    <3>1. j = [i EXCEPT !.node = chain[p + 1].key]
      BY <1>7 DEF HTIterator_Next
    <3> HIDE DEF j, b, chain, p
    <3> QED BY <1>1, <3>1
  <2> HIDE DEF j
  <2>2. j.bucket_idx = b /\ j.node = chain[p + 1].key /\ IsValid(j)
    BY <1>7, <2>1
  <2>3. /\ c \in Seq(Pairs) /\ Len(c) = Len(chain) - 1 /\ OncePerKey(c)
        /\ \A q \in 1..Len(c) : c[q] = chain[IF q < p THEN q ELSE q + 1]
    <3> HIDE DEF chain, p
    <3> QED BY <1>1, RemoveAtChain
  <2> HIDE DEF c
  <2>4. p \in 1..Len(c) /\ p..Len(c) \subseteq 1..Len(c)
        /\ \A q \in p..Len(c) : c[q] = chain[q + 1]
    <3>1. p \in Nat \ {0} /\ Len(chain) \in Nat /\ p <= Len(c)
      BY <1>1, <1>7, <2>3
    <3>2. p \in 1..Len(c) /\ \A q \in p..Len(c) : q \in 1..Len(c) /\ ~(q < p)
      BY <2>3, <3>1
    <3> HIDE DEF p, chain
    <3> QED BY <2>3, <3>2
  <2>5. FindKey(c, j.node) = p
    <3>1. c[p].key = j.node
      BY <2>2, <2>3, <2>4
    <3> HIDE DEF p, b, chain
    <3> QED BY <2>3, <2>4, <3>1, FindPlace
  <2>6. FindKey(chain, j.node) = p + 1
    <3>1. p + 1 \in 1..Len(chain)
      BY <1>1, <1>7
    <3> HIDE DEF p, b, chain
    <3> QED BY <1>1, <2>2, <3>1, FindPlace
  <2>7. Rest(c, p) = Rest(chain, p + 1)
    <3> DEFINE m == Len(chain)
    <3>1. m \in Nat /\ Len(c) = m - 1 /\ p \in 1..m
      BY <1>1, <2>3
    <3> HIDE DEF p, b, chain, m
    <3>2. \A q \in p..(m - 1) : c[q] = chain[q + 1] /\ q + 1 \in (p + 1)..m
      BY <2>4, <3>1
    <3>3. \A q \in (p + 1)..m : q - 1 \in p..(m - 1) /\ (q - 1) + 1 = q
      BY <3>1
    <3>4. Rest(c, p) = {c[q].key : q \in p..(m - 1)} /\ Rest(chain, p + 1) = {chain[q].key : q \in (p + 1)..m}
      BY <3>1 DEF Rest, m
    <3>5. \A x : x \in Rest(c, p) => x \in Rest(chain, p + 1)
      BY <3>2, <3>4
    <3>6. ASSUME NEW q \in (p + 1)..m PROVE chain[q].key \in Rest(c, p)
      <4>1. c[q - 1] = chain[q] /\ q - 1 \in p..(m - 1)
        BY <3>2, <3>3
      <4> QED BY <3>4, <4>1
    <3> QED BY <3>4, <3>5, <3>6
  <2>8. Later(u, b + 1) = Later(t, b + 1)
    BY <1>1, <1>2, <1>5
  <2>9. AheadOf(u, j) = Rest(c, p) \cup Later(u, b + 1)
    <3> HIDE DEF p
    <3> QED BY <1>4, <2>2, <2>5 DEF AheadOf
  <2>10. AheadOf(t, j) = Rest(chain, p + 1) \cup Later(t, b + 1)
    <3>1. t.buckets[j.bucket_idx] = chain
      BY <2>2
    <3> HIDE DEF p, b, chain
    <3> QED BY <2>2, <2>6, <3>1 DEF AheadOf
  <2> QED BY <2>7, <2>8, <2>9, <2>10 DEF j, u
<1>8. CASE IsValid(j) /\ ~(p < Len(chain))
  <2>1. j = HeadFrom(t, b + 1) /\ b + 1 \in Nat
    BY <1>1, <1>8 DEF HTIterator_Next
  <2>2. j # PastEnd
    BY <1>8 DEF IsValid, PastEnd
  <2> HIDE DEF j
  <2>3. PICK d \in (b + 1)..(n - 1) : j = [bucket_idx |-> d, node |-> t.buckets[d][1].key]
    BY <2>1, <2>2, HeadFromFinds DEF Good
  <2>4. d + 1 \in Nat /\ b + 1 <= d + 1 /\ j.bucket_idx = d
    BY <1>1, <1>2, <2>3
  <2>5. u.buckets[d] = t.buckets[d] /\ Later(u, d + 1) = Later(t, d + 1)
    BY <1>4, <1>5, <2>4
  <2> QED BY <2>4, <2>5 DEF AheadOf, j, u
<1> QED BY <1>6, <1>7, <1>8 DEF j, u

-----------------------------------------------------------------------------
\* The inductive invariant.  While MaybeResize runs, the new table is a table of
\* some of the keys of the old one, with nine times its buckets, and the walk is at
\* a pair of the old one: the bound on the load of the new table follows from
\* counting keys.

Filling ==
    /\ pending \in Pairs /\ Good(newht) /\ Held(newht) \subseteq Held(ht)
    /\ newht.num_buckets = ht.num_buckets * GrowthFactor
    /\ Placed(ht, it)

IInv ==
    /\ Good(ht) /\ ht.num_elements <= 3 * ht.num_buckets
    /\ pending = Nothing => newht = Nothing
    /\ pending # Nothing => Filling
    /\ it # Nothing => Placed(ht, it)

LEMMA Sizes ==
    ASSUME NEW t, Good(t)
    PROVE  /\ t.num_buckets \in Nat \ {0} /\ t.num_elements \in Nat
           /\ IsFiniteSet(Held(t)) /\ Cardinality(Held(t)) = t.num_elements
BY DEF Good, Shape, Counted

\* The table being filled has no more elements than the one it is filled from.
LEMMA FilledIsSmaller ==
    ASSUME NEW t, Good(t), NEW u, Good(u), Held(u) \subseteq Held(t)
    PROVE  u.num_elements <= t.num_elements
BY Sizes, FS_Subset

LEMMA InitOK == Init => IInv
<1> SUFFICES ASSUME Init PROVE IInv
  OBVIOUS
<1>1. Good(ht) /\ ht.num_elements = 0 /\ ht.num_buckets = InitialBuckets
  BY AllocateGood DEF Init
<1>2. ht.num_elements <= 3 * ht.num_buckets
  BY <1>1
<1> QED BY <1>1, <1>2 DEF Init, IInv

LEMMA StepKeeps == IInv /\ [Next]_vars => IInv'
<1> SUFFICES ASSUME IInv, [Next]_vars PROVE IInv'
  OBVIOUS
<1>1. /\ Good(ht) /\ ht.num_buckets \in Nat \ {0} /\ ht.num_elements \in Nat
      /\ ht.num_elements <= 3 * ht.num_buckets
  BY Sizes DEF IInv
<1>2. ASSUME NEW kv \in Pairs, Insert(kv) PROVE IInv'
  <2>1. /\ Idle /\ ~NeedsResize(ht) /\ ht' = Put(ht, kv)
        /\ newht' = newht /\ pending' = pending /\ it' = it
    BY <1>2 DEF Insert
  <2>2. Good(ht') /\ ht'.num_buckets = ht.num_buckets /\ ht'.num_elements <= ht.num_elements + 1
    BY <1>1, <2>1, PutGood
  <2>3. ht'.num_elements \in Nat
    BY <2>2, Sizes
  <2>4. ht'.num_elements <= 3 * ht'.num_buckets
    BY <1>1, <2>1, <2>2, <2>3 DEF NeedsResize
  <2> QED BY <2>1, <2>2, <2>4 DEF IInv, Idle
<1>3. ASSUME NEW kv \in Pairs, ResizeBegin(kv) PROVE IInv'
  <2>1. /\ newht' = HashTable_Allocate(ht.num_buckets * GrowthFactor)
        /\ it' = HTIterator_Allocate(ht) /\ pending' = kv /\ ht' = ht
    BY <1>3 DEF ResizeBegin
  <2>2. ht.num_buckets * GrowthFactor \in Nat \ {0}
    BY <1>1 DEF GrowthFactor
  <2>3. Good(newht') /\ Held(newht') = {} /\ newht'.num_buckets = ht.num_buckets * GrowthFactor
    BY <2>1, <2>2, AllocateGood
  <2>4. Placed(ht', it')
    BY <1>1, <2>1, StartPlaced
  <2>5. pending' # Nothing
    BY <2>1 DEF Pairs
  <2>6. Filling'
    BY <2>1, <2>3, <2>4 DEF Filling
  <2> QED BY <1>1, <2>1, <2>4, <2>5, <2>6 DEF IInv
<1>4. ASSUME ResizeCopy PROVE IInv'
  <2>1. /\ pending # Nothing /\ IsValid(it)
        /\ newht' = Put(newht, PairAt(ht, it)) /\ it' = HTIterator_Next(ht, it)
        /\ ht' = ht /\ pending' = pending
    BY <1>4 DEF ResizeCopy
  <2>2. Filling
    BY <2>1 DEF IInv
  <2>3. PairAt(ht, it) \in Pairs /\ PairAt(ht, it).key = it.node /\ it.node \in Held(ht)
    BY <1>1, <2>1, <2>2, Pointed DEF Filling
  <2>4. /\ Good(newht') /\ Held(newht') = Held(newht) \cup {it.node}
        /\ newht'.num_buckets = newht.num_buckets
    BY <2>1, <2>2, <2>3, PutGood DEF Filling
  <2>5. Placed(ht', it')
    BY <1>1, <2>1, <2>2, NextPlaced DEF Filling
  <2>6. Filling'
    BY <2>1, <2>2, <2>3, <2>4, <2>5 DEF Filling
  <2> QED BY <1>1, <2>1, <2>5, <2>6 DEF IInv
<1>5. ASSUME ResizeEnd PROVE IInv'
  <2>1. /\ pending # Nothing /\ ht' = Put(newht, pending)
        /\ newht' = Nothing /\ pending' = Nothing /\ it' = Nothing
    BY <1>5 DEF ResizeEnd
  <2>2. Filling
    BY <2>1 DEF IInv
  <2>3. newht.num_elements <= ht.num_elements /\ newht.num_elements \in Nat
    BY <1>1, <2>2, FilledIsSmaller, Sizes DEF Filling
  <2>4. /\ Good(ht') /\ ht'.num_buckets = newht.num_buckets
        /\ ht'.num_elements <= newht.num_elements + 1
    BY <2>1, <2>2, PutGood DEF Filling
  <2>5. ht'.num_elements \in Nat
    BY <2>4, Sizes
  <2>6. ht'.num_elements <= 3 * ht'.num_buckets
    BY <1>1, <2>2, <2>3, <2>4, <2>5 DEF Filling, GrowthFactor
  <2> QED BY <2>1, <2>4, <2>6 DEF IInv
<1>6. ASSUME NEW k \in Keys, Remove(k) PROVE IInv'
  <2>1. /\ Idle /\ ht' = TakeOut(ht, k)
        /\ newht' = newht /\ pending' = pending /\ it' = it
    BY <1>6 DEF Remove
  <2>2. Good(ht') /\ ht'.num_buckets = ht.num_buckets /\ ht'.num_elements <= ht.num_elements
    BY <1>1, <2>1, TakeOutGood
  <2>3. ht'.num_elements \in Nat
    BY <2>2, Sizes
  <2>4. ht'.num_elements <= 3 * ht'.num_buckets
    BY <1>1, <2>2, <2>3
  <2> QED BY <2>1, <2>2, <2>4 DEF IInv, Idle
<1>7. ASSUME FreeTable PROVE IInv'
  <2>1. /\ Idle /\ ht' = HashTable_Allocate(InitialBuckets)
        /\ newht' = newht /\ pending' = pending /\ it' = it
    BY <1>7 DEF FreeTable
  <2>2. Good(ht') /\ ht'.num_elements = 0 /\ ht'.num_buckets = InitialBuckets
    BY <2>1, AllocateGood
  <2>3. ht'.num_elements <= 3 * ht'.num_buckets
    BY <2>2
  <2> QED BY <2>1, <2>2, <2>3 DEF IInv, Idle
<1>8. ASSUME RemoveCurrent PROVE IInv'
  <2>1. it # Nothing /\ pending = Nothing /\ newht' = newht /\ pending' = pending
        /\ Placed(ht, it)
    BY <1>8 DEF RemoveCurrent, IInv
  <2>2. CASE ~IsValid(it)
    BY <1>8, <2>1, <2>2 DEF RemoveCurrent, IInv
  <2>3. CASE IsValid(it)
    <3>1. it' = HTIterator_Next(ht, it) /\ ht' = TakeOut(ht, it.node)
          /\ it.node \in Keys /\ Placed(ht, it')
          /\ (IsValid(it') => it'.node # it.node)
      <4>1. PairAt(ht, it).key = it.node /\ it.node \in Keys
        BY <1>1, <2>1, <2>3, Pointed
      <4>2. it' = HTIterator_Next(ht, it) /\ ht' = TakeOut(ht, PairAt(ht, it).key)
        BY <1>8, <2>3 DEF RemoveCurrent
      <4> QED BY <1>1, <2>1, <2>3, <4>1, <4>2, NextPlaced
    <3>2. /\ Good(ht') /\ ht'.num_buckets = ht.num_buckets /\ ht'.num_elements <= ht.num_elements
          /\ Held(ht') = Held(ht) \ {it.node}
      BY <1>1, <3>1, TakeOutGood
    <3>3. ht'.num_elements \in Nat
      BY <3>2, Sizes
    <3>4. ht'.num_elements <= 3 * ht'.num_buckets
      BY <1>1, <3>2, <3>3
    <3>5. Placed(ht', it')
      <4>1. CASE ~IsValid(it')
        BY <3>1, <4>1, <1>1 DEF Placed, IsValid, INVALID_IDX
      <4>2. CASE IsValid(it')
        <5>1. /\ it'.bucket_idx \in 0..(ht.num_buckets - 1)
              /\ it' = [bucket_idx |-> it'.bucket_idx, node |-> it'.node]
              /\ it'.node \in Keys /\ it'.node \in Held(ht)
              /\ HashKeyToBucketNum(ht, it'.node) = it'.bucket_idx
          BY <1>1, <3>1, <4>2, Pointed
        <5>2. it'.node \in Held(ht') /\ HashKeyToBucketNum(ht', it'.node) = it'.bucket_idx
          BY <3>1, <3>2, <4>2, <5>1 DEF HashKeyToBucketNum
        <5>3. it'.node \in KeySet(ht'.buckets[it'.bucket_idx])
          BY <3>2, <5>1, <5>2, Bucket
        <5> QED BY <3>2, <5>1, <5>3 DEF Placed
      <4> QED BY <4>1, <4>2
    <3> QED BY <2>1, <3>2, <3>4, <3>5 DEF IInv
  <2> QED BY <2>2, <2>3
<1>9. ASSUME Iterate PROVE IInv'
  BY <1>1, <1>9, StartPlaced DEF Iterate, Idle, IInv
<1>10. ASSUME FreeIterator PROVE IInv'
  BY <1>10 DEF FreeIterator, IInv
<1>11. ASSUME Advance PROVE IInv'
  BY <1>1, <1>11, NextPlaced DEF Advance, IInv
<1>12. ASSUME Get PROVE IInv'
  BY <1>12 DEF Get, IInv
<1>13. ASSUME NEW k \in Keys, Find(k) PROVE IInv'
  BY <1>13 DEF Find, IInv
<1>14. CASE UNCHANGED vars
  BY <1>14 DEF vars, IInv, Filling
<1> QED BY <1>2, <1>3, <1>4, <1>5, <1>6, <1>7, <1>8, <1>9, <1>10, <1>11, <1>12, <1>13, <1>14 DEF Next

\* The inductive invariant holds in every state: the table of a customer, and the
\* one MaybeResize fills, are tables whatever calls are made in whatever order.
THEOREM Invariance == Spec => []IInv
BY InitOK, StepKeeps, PTL DEF Spec

-----------------------------------------------------------------------------
\* What follows from it.

LEMMA GoodIsPlaced ==
    ASSUME NEW t, Good(t)
    PROVE  /\ \A s \in Slots(t) : HashKeyToBucketNum(t, t.buckets[s[1]][s[2]].key) = s[1]
           /\ \A b \in DOMAIN t.buckets : \A i, j \in DOMAIN t.buckets[b] :
                 t.buckets[b][i].key = t.buckets[b][j].key => i = j
           /\ t.num_elements = Cardinality(Slots(t))
<1>1. ASSUME NEW s \in Slots(t)
      PROVE  HashKeyToBucketNum(t, t.buckets[s[1]][s[2]].key) = s[1]
  <2>1. PICK b \in 0..(t.num_buckets - 1) : \E i \in 1..Len(t.buckets[b]) : s = <<b, i>>
    BY SlotsAre DEF Good
  <2>2. PICK i \in 1..Len(t.buckets[b]) : s[1] = b /\ s[2] = i
    BY <2>1
  <2>3. t.buckets[b][i].key % t.num_buckets = b
    BY <2>2 DEF Good, Chained, KeySet
  <2> QED BY <2>2, <2>3 DEF HashKeyToBucketNum
<1>2. DOMAIN t.buckets = 0..(t.num_buckets - 1)
      /\ \A b \in 0..(t.num_buckets - 1) : DOMAIN t.buckets[b] = 1..Len(t.buckets[b])
  BY DEF Good, Shape
<1>3. \A b \in DOMAIN t.buckets : \A i, j \in DOMAIN t.buckets[b] :
          t.buckets[b][i].key = t.buckets[b][j].key => i = j
  BY <1>2 DEF Good, Chained, OncePerKey
<1> QED BY <1>1, <1>3 DEF Good, Counted

\* HashTable_Insert, HashTable_Remove and MaybeResize keep every pair in the chain
\* its key hashes to, keep one pair for a key, and keep num_elements right, in the
\* old table and in the new one.
THEOREM PairsWellPlaced == Spec => []WellPlaced
<1>1. IInv => WellPlaced
  <2> SUFFICES ASSUME IInv, NEW t \in Tables PROVE Good(t)
    BY GoodIsPlaced DEF WellPlaced
  <2> QED BY DEF IInv, Filling, Tables
<1> QED BY <1>1, Invariance, PTL

\* The load factor never passes 3, and HashTable_Insert, called by MaybeResize on the
\* new table, never resizes that one: the recursion is one level deep.
THEOREM LoadStaysBounded == Spec => []LoadBounded
<1>1. IInv => LoadBounded
  <2> SUFFICES ASSUME IInv, newht # Nothing PROVE ~NeedsResize(newht)
    BY DEF LoadBounded, IInv
  <2>1. Filling
    BY DEF IInv
  <2>2. /\ ht.num_buckets \in Nat \ {0} /\ ht.num_elements \in Nat
        /\ ht.num_elements <= 3 * ht.num_buckets
    BY Sizes DEF IInv
  <2>3. newht.num_elements <= ht.num_elements /\ newht.num_elements \in Nat
    BY <2>1, FilledIsSmaller, Sizes DEF Filling, IInv
  <2>4. newht.num_buckets = ht.num_buckets * 9
    BY <2>1 DEF Filling, GrowthFactor
  <2> QED BY <2>2, <2>3, <2>4 DEF NeedsResize
<1> QED BY <1>1, Invariance, PTL

\* The conditions that the iterator's functions assert hold in every state: the
\* iterator is at a pair of the table, also after HTIterator_Remove has taken out
\* the pair it was at and in the middle of MaybeResize's loop.
THEOREM IteratorsPoint == Spec => []IteratorPoints
<1>1. IInv => IteratorPoints
  <2> SUFFICES ASSUME IInv PROVE IteratorPoints
    OBVIOUS
  <2>1. Good(ht) /\ (ht.num_elements # 0 => IsValid(HeadFrom(ht, 0)))
    BY StartPlaced DEF IInv
  <2>2. ASSUME it # Nothing, IsValid(it)
        PROVE  /\ FindKey(ht.buckets[it.bucket_idx], it.node) # 0
               /\ FindKey(ChainOf(ht, it.node), it.node) # 0
    <3>1. Placed(ht, it)
      BY <2>2 DEF IInv
    <3>2. /\ ChainOf(ht, it.node) = ht.buckets[it.bucket_idx]
          /\ FindKey(ht.buckets[it.bucket_idx], it.node) \in 1..Len(ht.buckets[it.bucket_idx])
      BY <2>1, <2>2, <3>1, Pointed DEF ChainOf
    <3> QED BY <3>2
  <2> QED BY <2>1, <2>2 DEF IteratorPoints
<1> QED BY <1>1, Invariance, PTL

-----------------------------------------------------------------------------
\* Type correctness.

\* Nothing stands for the absence of a table: it is none.
NothingIsNoTable ==
    \A n, m, b : Nothing # [num_buckets |-> n, num_elements |-> m, buckets |-> b]

Answered == ret.ok \in BOOLEAN /\ ret.out \in Seq(Pairs)

LEMMA LookupAnswers ==
    ASSUME NEW t, Good(t), NEW k \in Keys
    PROVE  Lookup(t, k).ok \in BOOLEAN /\ Lookup(t, k).out \in Seq(Pairs)
<1> DEFINE chain == ChainOf(t, k)
           i == FindKey(chain, k)
<1>1. chain \in Seq(Pairs)
  BY Bucket
<1>2. i # 0 => i \in 1..Len(chain)
  <2> HIDE DEF chain
  <2> QED BY <1>1, FindInChain
<1>3. Lookup(t, k) = IF i = 0 THEN Failure ELSE Found(chain[i])
  BY DEF Lookup
<1> HIDE DEF chain, i
<1>4. CASE i = 0
  <2>1. <<>> \in Seq(Pairs)
    OBVIOUS
  <2> QED BY <1>3, <1>4, <2>1 DEF Failure
<1>5. CASE i # 0
  <2>1. chain[i] \in Pairs
    BY <1>1, <1>2, <1>5
  <2>2. <<chain[i]>> \in Seq(Pairs)
    BY <2>1
  <2> QED BY <1>3, <1>5, <2>2 DEF Found
<1> QED BY <1>4, <1>5

LEMMA StepAnswers == IInv /\ Answered /\ [Next]_vars => Answered'
<1> SUFFICES ASSUME IInv, Answered, [Next]_vars PROVE Answered'
  OBVIOUS
<1>1. Good(ht) /\ (pending # Nothing => Filling) /\ (it # Nothing => Placed(ht, it))
  BY DEF IInv
<1>2. <<>> \in Seq(Pairs)
  OBVIOUS
<1>3. Answered /\ UNCHANGED ret => Answered'
  BY DEF Answered
<1>4. ASSUME NEW kv \in Pairs, Insert(kv) PROVE Answered'
  <2>1. ret' = Lookup(ht, kv.key) /\ kv.key \in Keys
    BY <1>4 DEF Insert, Pairs
  <2> QED BY <1>1, <2>1, LookupAnswers DEF Answered
<1>5. ASSUME ResizeEnd PROVE Answered'
  <2>1. ret' = Lookup(newht, pending.key) /\ pending.key \in Keys /\ Good(newht)
    BY <1>1, <1>5 DEF ResizeEnd, Filling, Pairs
  <2> QED BY <2>1, LookupAnswers DEF Answered
<1>6. ASSUME NEW k \in Keys, Find(k) \/ Remove(k) PROVE Answered'
  <2>1. ret' = Lookup(ht, k)
    BY <1>6 DEF Find, Remove
  <2> QED BY <1>1, <2>1, LookupAnswers DEF Answered
<1>7. ASSUME Advance PROVE Answered'
  BY <1>2, <1>7 DEF Advance, Answered, IsValid
<1>8. ASSUME Get PROVE Answered'
  <2>1. CASE ~IsValid(it)
    BY <1>2, <1>8, <2>1 DEF Get, Answered, Failure
  <2>2. CASE IsValid(it)
    <3>1. PairAt(ht, it) \in Pairs /\ ret' = Found(PairAt(ht, it))
      BY <1>1, <1>8, <2>2, Pointed DEF Get
    <3>2. <<PairAt(ht, it)>> \in Seq(Pairs)
      BY <3>1
    <3> QED BY <3>1, <3>2 DEF Found, Answered
  <2> QED BY <2>1, <2>2
<1>9. ASSUME RemoveCurrent PROVE Answered'
  <2>1. CASE ~IsValid(it)
    <3>1. ret' = Failure
      BY <1>9, <2>1 DEF RemoveCurrent
    <3> QED BY <1>2, <3>1 DEF Answered, Failure
  <2>2. CASE IsValid(it)
    <3>1. PairAt(ht, it).key \in Keys
      BY <1>1, <1>9, <2>2, Pointed DEF RemoveCurrent
    <3>2. ret' = Lookup(ht, PairAt(ht, it).key)
      BY <1>9, <2>2 DEF RemoveCurrent
    <3> QED BY <1>1, <3>1, <3>2, LookupAnswers DEF Answered
  <2> QED BY <2>1, <2>2
<1>10. ASSUME NEW kv \in Pairs, ResizeBegin(kv) PROVE Answered'
  BY <1>3, <1>10 DEF ResizeBegin
<1>11. ASSUME ResizeCopy \/ FreeTable \/ Iterate \/ FreeIterator PROVE Answered'
  BY <1>3, <1>11 DEF ResizeCopy, FreeTable, Iterate, FreeIterator
<1>12. CASE UNCHANGED vars
  BY <1>3, <1>12 DEF vars
<1> QED BY <1>4, <1>5, <1>6, <1>7, <1>8, <1>9, <1>10, <1>11, <1>12 DEF Next

\* The table, the table MaybeResize fills, the iterator and what the calls return
\* keep their types.
THEOREM TypeCorrect ==
    ASSUME NothingIsNoTable
    PROVE  Spec => []TypeOK
<1>1. Init => Answered
  <2>1. <<>> \in Seq(Pairs)
    OBVIOUS
  <2> QED BY <2>1 DEF Init, Answered, Failure
<1>2. IInv /\ Answered => TypeOK
  <2> SUFFICES ASSUME IInv, Answered PROVE TypeOK
    OBVIOUS
  <2>1. Good(ht) /\ (pending # Nothing => Filling) /\ (it # Nothing => Placed(ht, it))
    BY DEF IInv
  <2>2. \A t : Good(t) => t # Nothing
    BY DEF NothingIsNoTable, Good, Shape
  <2>3. \A i : Placed(ht, i) => i # Nothing
    BY <2>1, PlacedIsSomething
  <2>4. ASSUME NEW t \in Tables
        PROVE  /\ t.num_buckets \in Nat \ {0} /\ t.num_elements \in Nat
               /\ DOMAIN t.buckets = 0..(t.num_buckets - 1)
               /\ \A b \in DOMAIN t.buckets : t.buckets[b] \in Seq(Pairs)
    <3>1. Good(t)
      BY <2>1 DEF IInv, Filling, Tables
    <3> QED BY <3>1 DEF Good, Shape, Counted
  <2>5. pending \in Pairs \cup {Nothing} /\ ((newht = Nothing) = (pending = Nothing))
    BY <2>1, <2>2 DEF IInv, Filling
  <2>6. pending # Nothing => it # Nothing
    BY <2>1, <2>3 DEF Filling
  <2>7. it # Nothing => it.bucket_idx \in {INVALID_IDX} \cup DOMAIN ht.buckets
    BY <2>1 DEF Placed, PastEnd, Good, Shape
  <2> QED BY <2>4, <2>5, <2>6, <2>7 DEF TypeOK, Answered
<1> QED BY <1>1, <1>2, InitOK, StepKeeps, StepAnswers, PTL DEF Spec

-----------------------------------------------------------------------------
\* The refinement: what the table is as a map.

LEMMA LookupIs ==
    ASSUME NEW t, Good(t)
    PROVE  /\ \A p \in PairsOf(t) : /\ p \in Pairs /\ p.key \in Keys /\ p.key \in Held(t)
                                    /\ Lookup(t, p.key) = Found(p)
           /\ \A k \in Keys : k \notin Held(t) => Lookup(t, k) = Failure
           /\ \A k \in Held(t) : \E p \in PairsOf(t) : p.key = k
           /\ \A k \in Keys : FindKey(ChainOf(t, k), k) # 0 <=> k \in Held(t)
<1> DEFINE B == 0..(t.num_buckets - 1)
<1>1. \A b \in B : t.buckets[b] \in Seq(Pairs) /\ OncePerKey(t.buckets[b])
  BY DEF Good, Shape, Chained
<1>2. ASSUME NEW k \in Keys PROVE FindKey(ChainOf(t, k), k) # 0 <=> k \in Held(t)
  <2>1. ChainOf(t, k) \in Seq(Pairs) /\ (k \in Held(t) <=> k \in KeySet(ChainOf(t, k)))
    BY Bucket
  <2> QED BY <2>1, FindInChain
<1>3. ASSUME NEW k \in Keys, k \notin Held(t) PROVE Lookup(t, k) = Failure
  BY <1>2, <1>3 DEF Lookup
<1>4. ASSUME NEW k \in Held(t) PROVE \E p \in PairsOf(t) : p.key = k
  <2>1. PICK b \in B : k \in KeySet(t.buckets[b])
    BY DEF Held
  <2>2. PICK j \in 1..Len(t.buckets[b]) : t.buckets[b][j].key = k
    BY <2>1 DEF KeySet
  <2>3. t.buckets[b][j] \in PairsOf(t)
    BY DEF PairsOf, PairSet
  <2> QED BY <2>2, <2>3
<1>5. ASSUME NEW p \in PairsOf(t)
      PROVE  /\ p \in Pairs /\ p.key \in Keys /\ p.key \in Held(t)
             /\ Lookup(t, p.key) = Found(p)
  <2>1. PICK b \in B : p \in PairSet(t.buckets[b])
    BY DEF PairsOf
  <2> DEFINE chain == t.buckets[b]
  <2>2. PICK j \in 1..Len(chain) : chain[j] = p
    BY <2>1 DEF PairSet
  <2>3. p \in Pairs
    BY <1>1, <2>2
  <2>4. p.key \in KeySet(chain) /\ p.key \in Keys
    BY <2>1, <2>3, KeyOfPair DEF Pairs
  <2>5. p.key \in Held(t)
    BY <2>4 DEF Held
  <2>6. p.key % t.num_buckets = b
    BY <2>4 DEF Good, Chained
  <2>7. ChainOf(t, p.key) = chain
    BY <2>6 DEF ChainOf, HashKeyToBucketNum
  <2>8. chain \in Seq(Pairs) /\ OncePerKey(chain)
    BY <1>1
  <2> HIDE DEF chain
  <2>9. FindKey(chain, p.key) = j /\ j # 0
    BY <2>2, <2>8, FindPlace
  <2>10. Lookup(t, p.key) = Found(p)
    BY <2>2, <2>7, <2>9 DEF Lookup
  <2> QED BY <2>3, <2>4, <2>5, <2>10
<1> QED BY <1>2, <1>3, <1>4, <1>5

MapOf(t) == [k \in Held(t) |-> Lookup(t, k).out[1].value]

LEMMA HeldAreKeys ==
    ASSUME NEW t, Good(t)
    PROVE  Held(t) \subseteq Keys /\ Held(t) = {p.key : p \in PairsOf(t)}
BY LookupIs

\* A pair of the table is a point of the map.
LEMMA PairInMap ==
    ASSUME NEW t, Good(t), NEW p \in PairsOf(t)
    PROVE  /\ p.key \in Held(t) /\ MapOf(t)[p.key] = p.value
           /\ Lookup(t, p.key) = [ok |-> TRUE, out |-> <<[key |-> p.key, value |-> MapOf(t)[p.key]]>>]
<1>1. /\ p \in Pairs /\ p.key \in Held(t) /\ Lookup(t, p.key) = Found(p)
  BY LookupIs
<1>2. p = [key |-> p.key, value |-> p.value]
  BY <1>1 DEF Pairs
<1>3. Found(p).out[1] = p
  BY DEF Found
<1>4. MapOf(t)[p.key] = p.value
  BY <1>1, <1>3 DEF MapOf
<1> QED BY <1>1, <1>2, <1>4 DEF Found

LEMMA SamePairs ==
    ASSUME NEW t, Good(t), NEW u, Good(u), PairsOf(u) = PairsOf(t)
    PROVE  /\ Held(u) = Held(t) /\ MapOf(u) = MapOf(t)
           /\ \A k \in Keys : Lookup(u, k) = Lookup(t, k)
<1>1. Held(u) = Held(t)
  BY HeldAreKeys
<1>2. ASSUME NEW k \in Keys PROVE Lookup(u, k) = Lookup(t, k)
  <2>1. CASE k \notin Held(t)
    BY <1>1, <2>1, LookupIs
  <2>2. CASE k \in Held(t)
    <3>1. PICK p \in PairsOf(t) : p.key = k
      BY <2>2, LookupIs
    <3> QED BY <3>1, LookupIs
  <2> QED BY <2>1, <2>2
<1>3. MapOf(u) = MapOf(t)
  BY <1>1, <1>2, HeldAreKeys DEF MapOf
<1> QED BY <1>1, <1>2, <1>3

LEMMA PutMap ==
    ASSUME NEW t, Good(t), NEW kv \in Pairs
    PROVE  MapOf(Put(t, kv)) = [j \in Held(t) \cup {kv.key} |->
                                  IF j = kv.key THEN kv.value ELSE MapOf(t)[j]]
<1> DEFINE u == Put(t, kv)
           f == [j \in Held(t) \cup {kv.key} |-> IF j = kv.key THEN kv.value ELSE MapOf(t)[j]]
<1>1. /\ Good(u) /\ Held(u) = Held(t) \cup {kv.key}
      /\ PairsOf(u) = {p \in PairsOf(t) : p.key # kv.key} \cup {kv}
  BY PutGood
<1> HIDE DEF u
<1>2. ASSUME NEW j \in Held(u) PROVE MapOf(u)[j] = f[j]
  <2>1. CASE j = kv.key
    BY <1>1, <2>1, PairInMap
  <2>2. CASE j # kv.key
    <3>1. PICK p \in PairsOf(t) : p.key = j
      BY <1>1, <2>2, LookupIs
    <3>2. p \in PairsOf(u)
      BY <1>1, <2>2, <3>1
    <3>3. MapOf(u)[j] = p.value /\ MapOf(t)[j] = p.value
      BY <1>1, <3>1, <3>2, PairInMap
    <3> QED BY <1>1, <2>2, <3>3
  <2> QED BY <2>1, <2>2
<1>3. DOMAIN MapOf(u) = Held(u) /\ MapOf(u) = [j \in Held(u) |-> MapOf(u)[j]]
  BY DEF MapOf
<1>4. f = [j \in Held(u) |-> f[j]]
  BY <1>1
<1> HIDE DEF f
<1>5. MapOf(u) = f
  BY <1>2, <1>3, <1>4
<1> QED BY <1>5 DEF u, f

LEMMA TakeOutMap ==
    ASSUME NEW t, Good(t), NEW k \in Keys
    PROVE  MapOf(TakeOut(t, k)) = [j \in Held(t) \ {k} |-> MapOf(t)[j]]
<1> DEFINE u == TakeOut(t, k)
<1>1. /\ Good(u) /\ Held(u) = Held(t) \ {k}
      /\ PairsOf(u) = {p \in PairsOf(t) : p.key # k}
  BY TakeOutGood
<1> HIDE DEF u
<1>2. ASSUME NEW j \in Held(u) PROVE MapOf(u)[j] = MapOf(t)[j]
  <2>1. PICK p \in PairsOf(u) : p.key = j
    BY <1>1, LookupIs
  <2>2. p \in PairsOf(t)
    BY <1>1, <2>1
  <2> QED BY <1>1, <2>1, <2>2, PairInMap
<1>3. MapOf(u) = [j \in Held(u) |-> MapOf(u)[j]]
  BY DEF MapOf
<1> QED BY <1>1, <1>2, <1>3 DEF u

LEMMA AheadIs ==
    ASSUME NEW t, Good(t), NEW i, Placed(t, i), IsValid(i)
    PROVE  {t.buckets[s[1]][s[2]].key : s \in
               {s \in Slots(t) : \/ s[1] > i.bucket_idx
                                 \/ s[1] = i.bucket_idx
                                    /\ s[2] >= FindKey(t.buckets[s[1]], i.node)}} = AheadOf(t, i)
<1> DEFINE b == i.bucket_idx
           n == t.num_buckets
           chain == t.buckets[b]
           p == FindKey(chain, i.node)
           Coming(s) == \/ s[1] > b
                        \/ s[1] = b /\ s[2] >= FindKey(t.buckets[s[1]], i.node)
           A == {t.buckets[s[1]][s[2]].key : s \in {s \in Slots(t) : Coming(s)}}
<1>1. b \in 0..(n - 1) /\ n \in Nat \ {0} /\ p \in 1..Len(chain) /\ chain \in Seq(Pairs)
  BY Pointed DEF Good, Shape
<1>2. AheadOf(t, i) = Rest(chain, p) \cup Later(t, b + 1)
  BY DEF AheadOf
<1>3. \A s : s \in Slots(t) <=> \E d \in 0..(n - 1) : \E j \in 1..Len(t.buckets[d]) : s = <<d, j>>
  BY SlotsAre DEF Good
<1>4. ASSUME NEW k \in A PROVE k \in Rest(chain, p) \cup Later(t, b + 1)
  <2>1. PICK s \in Slots(t) : Coming(s) /\ k = t.buckets[s[1]][s[2]].key
    OBVIOUS
  <2>2. PICK d \in 0..(n - 1) : \E j \in 1..Len(t.buckets[d]) : s = <<d, j>>
    BY <1>3
  <2>3. PICK j \in 1..Len(t.buckets[d]) : s[1] = d /\ s[2] = j
    BY <2>2
  <2>4. CASE d > b
    <3>1. k \in KeySet(t.buckets[d])
      BY <2>1, <2>3 DEF KeySet
    <3>2. d \in (b + 1)..(n - 1)
      BY <1>1, <2>4
    <3> QED BY <3>1, <3>2 DEF Later
  <2>5. CASE d = b /\ j >= p
    <3>1. j \in p..Len(chain) /\ k = chain[j].key
      BY <1>1, <2>1, <2>3, <2>5
    <3> QED BY <3>1 DEF Rest
  <2> QED BY <2>1, <2>3, <2>4, <2>5
<1>5. ASSUME NEW k \in Later(t, b + 1) PROVE k \in A
  <2>1. PICK d \in (b + 1)..(n - 1) : k \in KeySet(t.buckets[d])
    BY DEF Later
  <2>2. PICK j \in 1..Len(t.buckets[d]) : k = t.buckets[d][j].key
    BY <2>1 DEF KeySet
  <2>3. d \in 0..(n - 1) /\ d > b
    BY <1>1, <2>1
  <2>4. <<d, j>> \in Slots(t) /\ Coming(<<d, j>>)
    BY <1>3, <2>3
  <2> QED BY <2>2, <2>4
<1>6. ASSUME NEW k \in Rest(chain, p) PROVE k \in A
  <2>1. PICK j \in p..Len(chain) : k = chain[j].key
    BY DEF Rest
  <2>2. j \in 1..Len(chain) /\ j >= p
    BY <1>1, <2>1
  <2>3. <<b, j>> \in Slots(t) /\ Coming(<<b, j>>)
    BY <1>1, <1>3, <2>2
  <2> QED BY <2>1, <2>3
<1> HIDE DEF A
<1>7. A = Rest(chain, p) \cup Later(t, b + 1)
  BY <1>4, <1>5, <1>6
<1> QED BY <1>2, <1>7 DEF A

LEMMA StoredIs ==
    ASSUME NEW t, Good(t)
    PROVE  [k \in {k \in Keys : FindKey(ChainOf(t, k), k) # 0} |-> Lookup(t, k).out[1].value] = MapOf(t)
<1>1. {k \in Keys : FindKey(ChainOf(t, k), k) # 0} = Held(t)
  BY LookupIs, HeldAreKeys
<1> QED BY <1>1 DEF MapOf

\* What the refinement mapping shows of a state, and of the next one.
LEMMA View ==
    ASSUME IInv
    PROVE  /\ Stored = MapOf(ht) /\ DOMAIN Stored = Held(ht) /\ Held(ht) \subseteq Keys
           /\ Ahead = IF Visiting THEN AheadOf(ht, it) ELSE {}
<1>1. Good(ht) /\ (it # Nothing => Placed(ht, it))
  BY DEF IInv
<1>2. Stored = MapOf(ht)
  BY <1>1, StoredIs DEF Stored, Present
<1>3. Visiting /\ IsValid(it) => Ahead = AheadOf(ht, it)
  BY <1>1, AheadIs DEF Ahead, Visiting
<1>4. ~IsValid(it) => Ahead = {} /\ AheadOf(ht, it) = {}
  BY DEF Ahead, AheadOf
<1>5. ~Visiting => Ahead = {}
  BY DEF Ahead
<1> QED BY <1>1, <1>2, <1>3, <1>4, <1>5, HeldAreKeys DEF MapOf

LEMMA ViewNext ==
    ASSUME IInv'
    PROVE  /\ Stored' = MapOf(ht') /\ Ahead' = IF Visiting' THEN AheadOf(ht', it') ELSE {}
<1>1. Good(ht') /\ (it' # Nothing => Placed(ht', it'))
  BY DEF IInv
<1>2. Stored' = MapOf(ht')
  BY <1>1, StoredIs DEF Stored, Present
<1>3. Visiting' /\ IsValid(it') => Ahead' = AheadOf(ht', it')
  BY <1>1, AheadIs DEF Ahead, Visiting
<1>4. ~IsValid(it') => Ahead' = {} /\ AheadOf(ht', it') = {}
  BY DEF Ahead, AheadOf
<1>5. ~Visiting' => Ahead' = {}
  BY DEF Ahead
<1> QED BY <1>2, <1>3, <1>4, <1>5

LEMMA Asked ==
    ASSUME IInv, NEW k \in Keys
    PROVE  Lookup(ht, k) = Abstract!Lookup(k)
<1>1. Good(ht) /\ Stored = MapOf(ht) /\ DOMAIN Stored = Held(ht)
  BY View DEF IInv
<1>2. CASE k \notin Held(ht)
  BY <1>1, <1>2, LookupIs DEF Abstract!Lookup, Abstract!Failure, Failure
<1>3. CASE k \in Held(ht)
  <2>1. PICK p \in PairsOf(ht) : p.key = k
    BY <1>1, <1>3, LookupIs
  <2>2. Lookup(ht, k) = [ok |-> TRUE, out |-> <<[key |-> k, value |-> MapOf(ht)[k]]>>]
    BY <1>1, <2>1, PairInMap
  <2> QED BY <1>1, <1>3, <2>2 DEF Abstract!Lookup, Abstract!Found
<1> QED BY <1>2, <1>3

LEMMA Moved ==
    ASSUME IInv', Visiting', NEW S, AheadOf(ht', it') = S
    PROVE  Abstract!MoveWithin(S)
<1>1. Good(ht') /\ Placed(ht', it') /\ Ahead' = S /\ Current' = it'.node
  BY ViewNext DEF IInv, Visiting, Current
<1>2. CASE ~IsValid(it')
  <2>1. it' = PastEnd \/ IsValid(it')
    BY <1>1 DEF Placed, IsValid, INVALID_IDX, Good, Shape
  <2>2. it'.node = NoKey /\ S = {}
    BY <1>2, <2>1 DEF PastEnd, AheadOf
  <2> QED BY <1>1, <2>2 DEF Abstract!MoveWithin
<1>3. CASE IsValid(it')
  <2>1. it'.node \in S
    BY <1>1, <1>3, ValidAhead
  <2> QED BY <1>1, <2>1 DEF Abstract!MoveWithin
<1> QED BY <1>2, <1>3

\* While MaybeResize runs, the new table has the pairs that the walk has passed.
Copied ==
    pending # Nothing =>
        PairsOf(newht) = {p \in PairsOf(ht) : p.key \notin AheadOf(ht, it)}

LEMMA StepCopies == IInv /\ Copied /\ [Next]_vars => Copied'
<1> SUFFICES ASSUME IInv, Copied, [Next]_vars PROVE Copied'
  OBVIOUS
<1>1. Good(ht) /\ ht.num_buckets \in Nat \ {0}
  BY DEF IInv, Good, Shape
<1>2. ASSUME NEW kv \in Pairs, ResizeBegin(kv) PROVE Copied'
  <2>1. /\ newht' = HashTable_Allocate(ht.num_buckets * GrowthFactor)
        /\ it' = HTIterator_Allocate(ht) /\ ht' = ht
    BY <1>2 DEF ResizeBegin
  <2>2. ht.num_buckets * GrowthFactor \in Nat \ {0}
    BY <1>1 DEF GrowthFactor
  <2>3. Good(newht') /\ Held(newht') = {}
    BY <2>1, <2>2, AllocateGood
  <2>4. PairsOf(newht') = {}
    BY <2>3, LookupIs
  <2>5. AheadOf(ht', it') = Held(ht')
    BY <1>1, <2>1, StartAhead
  <2>6. \A p \in PairsOf(ht') : p.key \in Held(ht')
    BY <1>1, <2>1, LookupIs
  <2> QED BY <2>4, <2>5, <2>6 DEF Copied
<1>3. ASSUME ResizeCopy PROVE Copied'
  <2>1. /\ pending # Nothing /\ IsValid(it)
        /\ newht' = Put(newht, PairAt(ht, it)) /\ it' = HTIterator_Next(ht, it) /\ ht' = ht
    BY <1>3 DEF ResizeCopy
  <2>2. Good(newht) /\ Placed(ht, it)
    BY <2>1 DEF IInv, Filling
  <2> DEFINE kv == PairAt(ht, it)
  <2>3. /\ kv \in Pairs /\ kv.key = it.node
        /\ it.bucket_idx \in 0..(ht.num_buckets - 1)
        /\ FindKey(ht.buckets[it.bucket_idx], it.node) \in 1..Len(ht.buckets[it.bucket_idx])
    BY <1>1, <2>1, <2>2, Pointed
  <2>4. kv \in PairsOf(ht)
    BY <2>3 DEF PairAt, PairsOf, PairSet
  <2> HIDE DEF kv
  <2>5. PairsOf(newht') = {p \in PairsOf(newht) : p.key # kv.key} \cup {kv}
    BY <2>1, <2>2, <2>3, PutGood DEF kv
  <2>6. AheadOf(ht', it') = AheadOf(ht, it) \ {it.node} /\ it.node \in AheadOf(ht, it)
    BY <1>1, <2>1, <2>2, NextAhead, ValidAhead
  <2>7. PairsOf(newht) = {p \in PairsOf(ht) : p.key \notin AheadOf(ht, it)}
    BY <2>1 DEF Copied
  <2>8. \A p \in PairsOf(ht) : p.key = kv.key => p = kv
    <3>1. \A p \in PairsOf(ht) : Lookup(ht, p.key) = Found(p)
      BY <1>1, LookupIs
    <3>2. \A p : Found(p).out[1] = p
      BY DEF Found
    <3> QED BY <2>4, <3>1, <3>2
  <2>9. PairsOf(newht') = {p \in PairsOf(ht) : p.key \notin AheadOf(ht', it')}
    BY <2>3, <2>4, <2>5, <2>6, <2>7, <2>8
  <2> QED BY <2>1, <2>9 DEF Copied
<1>4. ASSUME ResizeEnd PROVE Copied'
  BY <1>4 DEF ResizeEnd, Copied
<1>5. ASSUME NEW kv \in Pairs, Insert(kv) PROVE Copied'
  BY <1>5 DEF Insert, Idle, Copied
<1>6. ASSUME NEW k \in Keys, Find(k) \/ Remove(k) PROVE Copied'
  BY <1>6 DEF Find, Remove, Idle, Copied
<1>7. ASSUME FreeTable \/ Iterate \/ FreeIterator \/ Advance \/ Get \/ RemoveCurrent PROVE Copied'
  BY <1>7 DEF FreeTable, Iterate, FreeIterator, Advance, Get, RemoveCurrent, Idle, Copied
<1>8. CASE UNCHANGED vars
  BY <1>8 DEF vars, Copied
<1> QED BY <1>2, <1>3, <1>4, <1>5, <1>6, <1>7, <1>8 DEF Next

\* Every step of the table is one of the map, or leaves the map as it was.
LEMMA StepImplements ==
    IInv /\ IInv' /\ Copied /\ [Next]_vars => [Abstract!Next]_(Abstract!vars)
<1> SUFFICES ASSUME IInv, IInv', Copied, [Next]_vars PROVE Abstract!Next \/ UNCHANGED Abstract!vars
  OBVIOUS
<1>1. /\ Good(ht) /\ (pending # Nothing => Filling) /\ (it # Nothing => Placed(ht, it))
      /\ Good(ht')
  BY DEF IInv
<1>2. /\ Stored = MapOf(ht) /\ DOMAIN Stored = Held(ht) /\ Held(ht) \subseteq Keys
      /\ Ahead = IF Visiting THEN AheadOf(ht, it) ELSE {}
  BY View
<1>3. Stored' = MapOf(ht') /\ Ahead' = IF Visiting' THEN AheadOf(ht', it') ELSE {}
  BY ViewNext
\* No iterator of the customer's, before and after.
<1>4. ASSUME ~Visiting, ~Visiting' PROVE UNCHANGED <<Current, Ahead, Visiting>>
  <2>1. Visiting = FALSE /\ Visiting' = FALSE
    BY <1>4 DEF Visiting
  <2>2. Current = NoKey /\ Current' = NoKey
    BY <1>4 DEF Current
  <2> QED BY <1>2, <1>3, <2>1, <2>2
<1>5. ASSUME UNCHANGED <<ht, it, pending>> PROVE UNCHANGED <<Stored, Current, Ahead, Visiting>>
  <2>1. Visiting' = Visiting
    BY <1>5 DEF Visiting
  <2> QED BY <1>2, <1>3, <1>5, <2>1 DEF Current
<1>6. ASSUME NEW kv \in Pairs, Insert(kv) PROVE Abstract!Next
  <2>1. /\ ~Visiting /\ ~Visiting' /\ ht' = Put(ht, kv) /\ ret' = Lookup(ht, kv.key)
        /\ kv.key \in Keys /\ kv.value \in Values
    BY <1>6 DEF Insert, Idle, Visiting, Pairs
  <2>2. Stored' = [j \in DOMAIN Stored \cup {kv.key} |-> IF j = kv.key THEN kv.value ELSE Stored[j]]
    BY <1>1, <1>2, <1>3, <2>1, PutMap
  <2>3. ret' = Abstract!Lookup(kv.key)
    BY <2>1, Asked
  <2>4. Abstract!Insert(kv.key, kv.value)
    BY <1>4, <2>1, <2>2, <2>3 DEF Abstract!Insert
  <2> QED BY <2>1, <2>4 DEF Abstract!Next
<1>7. ASSUME NEW kv \in Pairs, ResizeBegin(kv) PROVE UNCHANGED Abstract!vars
  <2>1. ~Visiting /\ ~Visiting' /\ ht' = ht /\ ret' = ret
    BY <1>7 DEF ResizeBegin, Idle, Visiting, Pairs
  <2> QED BY <1>2, <1>3, <1>4, <2>1 DEF Abstract!vars
<1>8. ASSUME ResizeCopy PROVE UNCHANGED Abstract!vars
  <2>1. ~Visiting /\ ~Visiting' /\ ht' = ht /\ ret' = ret
    BY <1>8 DEF ResizeCopy, Visiting
  <2> QED BY <1>2, <1>3, <1>4, <2>1 DEF Abstract!vars
<1>9. ASSUME ResizeEnd PROVE Abstract!Next
  <2>1. /\ pending # Nothing /\ ~IsValid(it) /\ ~Visiting /\ ~Visiting'
        /\ ht' = Put(newht, pending) /\ ret' = Lookup(newht, pending.key)
    BY <1>9 DEF ResizeEnd, Visiting
  <2>2. Good(newht) /\ pending \in Pairs /\ pending.key \in Keys /\ pending.value \in Values
    BY <1>1, <2>1 DEF Filling, Pairs
  <2>3. PairsOf(newht) = PairsOf(ht)
    BY <2>1 DEF Copied, AheadOf
  <2>4. /\ Held(newht) = Held(ht) /\ MapOf(newht) = MapOf(ht)
        /\ Lookup(newht, pending.key) = Lookup(ht, pending.key)
    BY <1>1, <2>2, <2>3, SamePairs
  <2> DEFINE k == pending.key
             v == pending.value
  <2>5. Stored' = [j \in DOMAIN Stored \cup {k} |-> IF j = k THEN v ELSE Stored[j]]
    <3>1. Stored' = [j \in Held(newht) \cup {pending.key} |->
                       IF j = pending.key THEN pending.value ELSE MapOf(newht)[j]]
      BY <1>3, <2>1, <2>2, PutMap
    <3> QED BY <1>2, <2>4, <3>1
  <2>6. ret' = Abstract!Lookup(k)
    BY <2>1, <2>2, <2>4, Asked
  <2> HIDE DEF k, v
  <2>7. Abstract!Insert(k, v)
    BY <1>4, <2>1, <2>5, <2>6 DEF Abstract!Insert
  <2> QED BY <2>2, <2>7 DEF Abstract!Next, k, v
<1>10. ASSUME NEW k \in Keys, Find(k) PROVE Abstract!Next
  <2>1. ret' = Abstract!Lookup(k) /\ UNCHANGED <<Stored, Current, Ahead, Visiting>>
    BY <1>5, <1>10, Asked DEF Find
  <2> QED BY <2>1 DEF Abstract!Next, Abstract!Find
<1>11. ASSUME NEW k \in Keys, Remove(k) PROVE Abstract!Next
  <2>1. ~Visiting /\ ~Visiting' /\ ht' = TakeOut(ht, k) /\ ret' = Lookup(ht, k)
    BY <1>11 DEF Remove, Idle, Visiting
  <2>2. Stored' = Abstract!Without(k)
    BY <1>1, <1>2, <1>3, <2>1, TakeOutMap DEF Abstract!Without
  <2>3. ret' = Abstract!Lookup(k)
    BY <2>1, Asked
  <2>4. Abstract!Remove(k)
    BY <1>4, <2>1, <2>2, <2>3 DEF Abstract!Remove
  <2> QED BY <2>4 DEF Abstract!Next
<1>12. ASSUME FreeTable PROVE Abstract!Next
  <2>1. /\ ~Visiting /\ ~Visiting' /\ ret' = ret
        /\ ht' = HashTable_Allocate(InitialBuckets)
    BY <1>12 DEF FreeTable, Idle, Visiting
  <2>2. Held(ht') = {}
    BY <2>1, AllocateGood
  <2>3. Stored' = [k \in {} |-> k]
    BY <1>3, <2>2 DEF MapOf
  <2> QED BY <1>4, <2>1, <2>3 DEF Abstract!Next, Abstract!Clear
<1>13. ASSUME Iterate PROVE Abstract!Next
  <2>1. /\ ~Visiting /\ it' = HTIterator_Allocate(ht) /\ ht' = ht /\ ret' = ret /\ pending' = Nothing
    BY <1>13 DEF Iterate, Idle, Visiting
  <2>2. it' # Nothing
    BY <1>1, <2>1, StartPlaced, PlacedIsSomething
  <2>3. Visiting'
    BY <2>1, <2>2 DEF Visiting
  <2>4. AheadOf(ht', it') = DOMAIN Stored
    BY <1>1, <1>2, <2>1, StartAhead
  <2>5. Abstract!MoveWithin(DOMAIN Stored)
    BY <2>3, <2>4, Moved
  <2>6. UNCHANGED <<Stored, ret>>
    BY <1>2, <1>3, <2>1
  <2> QED BY <2>1, <2>3, <2>5, <2>6 DEF Abstract!Next, Abstract!Iterate
<1>14. ASSUME FreeIterator PROVE Abstract!Next
  <2>1. ~Visiting' /\ ht' = ht /\ ret' = ret
    BY <1>14 DEF FreeIterator, Visiting
  <2>2. Current' = NoKey /\ Ahead' = {} /\ UNCHANGED <<Stored, ret>>
    BY <1>2, <1>3, <2>1 DEF Current
  <2> QED BY <2>1, <2>2 DEF Abstract!Next, Abstract!FreeIterator
\* A step of the iterator, in Advance and in RemoveCurrent.
<1>15. ASSUME Visiting, IsValid(it), it' = HTIterator_Next(ht, it), pending' = pending
       PROVE  /\ AheadOf(ht, it') = Ahead \ {Current}
              /\ it' # Nothing /\ Visiting'
  <2>1. Placed(ht, it) /\ Placed(ht, it') /\ Current = it.node
    BY <1>1, <1>15, NextPlaced DEF Visiting, Current
  <2>2. AheadOf(ht, it') = Ahead \ {Current}
    BY <1>1, <1>2, <1>15, <2>1, NextAhead
  <2>3. it' # Nothing
    BY <1>1, <2>1, PlacedIsSomething
  <2> QED BY <1>15, <2>2, <2>3 DEF Visiting
\* Past the end is where there is no key.
<1>16. ASSUME NEW i, Placed(ht, i) PROVE /\ IsValid(i) <=> i.node # NoKey
                                         /\ ~IsValid(i) => AheadOf(ht, i) = {}
  <2>1. CASE i = PastEnd
    BY <2>1 DEF PastEnd, IsValid, AheadOf
  <2>2. CASE i # PastEnd
    <3>1. IsValid(i)
      BY <1>1, <1>16, <2>2 DEF Placed, IsValid, INVALID_IDX, Good, Shape
    <3>2. i.node \in Keys
      BY <1>1, <1>16, <3>1, Pointed
    <3> QED BY <3>1, <3>2
  <2> QED BY <2>1, <2>2
<1>17. ASSUME Advance PROVE Abstract!Next
  <2>1. /\ Visiting /\ it' = HTIterator_Next(ht, it) /\ ret' = [ok |-> IsValid(it'), out |-> <<>>]
        /\ ht' = ht /\ pending' = pending
    BY <1>17 DEF Advance, Visiting
  <2>2. Visiting' /\ AheadOf(ht', it') = Ahead \ {Current} /\ Placed(ht, it')
    <3>1. Placed(ht, it) /\ Current = it.node
      BY <1>1, <2>1 DEF Visiting, Current
    <3>2. CASE IsValid(it)
      BY <1>1, <1>15, <2>1, <3>1, <3>2, NextPlaced
    <3>3. CASE ~IsValid(it)
      <4>1. it' = it /\ Visiting' /\ Ahead = {} /\ AheadOf(ht', it') = {}
        BY <1>2, <1>16, <2>1, <3>1, <3>3 DEF HTIterator_Next, Visiting
      <4> QED BY <3>1, <4>1
    <3> QED BY <3>2, <3>3
  <2>3. Abstract!MoveWithin(Ahead \ {Current})
    BY <2>2, Moved
  <2>4. IsValid(it') <=> Current' # NoKey
    BY <1>16, <2>2 DEF Current
  <2>5. ret' = [ok |-> Current' # NoKey, out |-> <<>>]
    <3>1. IsValid(it') = (Current' # NoKey)
      BY <2>4 DEF IsValid
    <3> QED BY <2>1, <3>1
  <2>6. UNCHANGED <<Stored, Visiting>>
    BY <1>2, <1>3, <2>1, <2>2
  <2> QED BY <2>1, <2>3, <2>5, <2>6 DEF Abstract!Next, Abstract!Advance
<1>18. ASSUME Visiting, IsValid(it)
       PROVE  /\ PairAt(ht, it).key = it.node /\ it.node \in Keys /\ it.node # NoKey
              /\ Current = it.node
              /\ Found(PairAt(ht, it)) = Abstract!Found(Current)
              /\ Lookup(ht, it.node) = Abstract!Found(Current)
  <2>1. Placed(ht, it) /\ Current = it.node
    BY <1>1, <1>18 DEF Visiting, Current
  <2> DEFINE p == PairAt(ht, it)
  <2>2. /\ p.key = it.node /\ it.node \in Keys
        /\ it.bucket_idx \in 0..(ht.num_buckets - 1)
        /\ FindKey(ht.buckets[it.bucket_idx], it.node) \in 1..Len(ht.buckets[it.bucket_idx])
    BY <1>1, <1>18, <2>1, Pointed
  <2>3. p \in PairsOf(ht)
    BY <2>2 DEF PairAt, PairsOf, PairSet
  <2> HIDE DEF p
  <2>4. Lookup(ht, it.node) = Found(p)
    BY <1>1, <2>2, <2>3, LookupIs
  <2>5. Lookup(ht, it.node) = [ok |-> TRUE, out |-> <<[key |-> it.node, value |-> MapOf(ht)[it.node]]>>]
    BY <1>1, <2>2, <2>3, PairInMap
  <2>6. Lookup(ht, it.node) = Abstract!Found(Current)
    BY <1>2, <2>1, <2>5 DEF Abstract!Found
  <2> QED BY <2>1, <2>2, <2>4, <2>6 DEF p
<1>19. ASSUME Get PROVE Abstract!Next
  <2>1. Visiting /\ UNCHANGED <<ht, it, pending>>
    BY <1>19 DEF Get, Visiting
  <2>2. UNCHANGED <<Stored, Current, Ahead, Visiting>>
    BY <1>5, <2>1
  <2>3. Placed(ht, it) /\ Current = it.node
    BY <1>1, <2>1 DEF Visiting, Current
  <2>4. ret' = IF Current = NoKey THEN Abstract!Failure ELSE Abstract!Found(Current)
    BY <1>16, <1>18, <1>19, <2>1, <2>3 DEF Get, Failure, Abstract!Failure
  <2> QED BY <2>1, <2>2, <2>4 DEF Abstract!Next, Abstract!Get
<1>20. ASSUME RemoveCurrent PROVE Abstract!Next
  <2>1. Visiting /\ pending' = pending /\ Placed(ht, it) /\ Current = it.node
    BY <1>1, <1>20 DEF RemoveCurrent, Visiting, Current
  <2>2. CASE ~IsValid(it)
    <3>1. Current = NoKey /\ ret' = Abstract!Failure /\ UNCHANGED <<ht, it, pending>>
      BY <1>16, <1>20, <2>1, <2>2 DEF RemoveCurrent, Failure, Abstract!Failure
    <3>2. UNCHANGED <<Stored, Current, Ahead, Visiting>>
      BY <1>5, <3>1
    <3> QED BY <2>1, <3>1, <3>2 DEF Abstract!Next, Abstract!RemoveCurrent
  <2>3. CASE IsValid(it)
    <3>1. /\ PairAt(ht, it).key = it.node /\ it.node \in Keys /\ Current # NoKey
          /\ Lookup(ht, it.node) = Abstract!Found(Current)
      BY <1>18, <2>1, <2>3
    <3>2. /\ it' = HTIterator_Next(ht, it) /\ ht' = TakeOut(ht, it.node)
          /\ ret' = Abstract!Found(Current)
      BY <1>20, <2>3, <3>1 DEF RemoveCurrent
    <3>3. AheadOf(ht, it') = Ahead \ {Current} /\ Visiting'
      BY <1>15, <2>1, <2>3, <3>2
    <3>4. AheadOf(ht', it') = Ahead \ {Current}
      BY <1>1, <2>1, <2>3, <3>2, <3>3, RemovedAhead
    <3>5. Abstract!MoveWithin(Ahead \ {Current})
      BY <3>3, <3>4, Moved
    <3>6. Stored' = Abstract!Without(Current)
      <4>1. Stored' = [j \in Held(ht) \ {it.node} |-> MapOf(ht)[j]]
        BY <1>1, <1>3, <3>1, <3>2, TakeOutMap
      <4> QED BY <1>2, <2>1, <4>1 DEF Abstract!Without
    <3>7. Visiting' = Visiting
      BY <2>1, <3>3 DEF Visiting
    <3> QED BY <2>1, <3>1, <3>2, <3>5, <3>6, <3>7 DEF Abstract!Next, Abstract!RemoveCurrent
  <2> QED BY <2>2, <2>3
<1>21. CASE UNCHANGED vars
  <2>1. UNCHANGED <<ht, it, pending>> /\ ret' = ret
    BY <1>21 DEF vars
  <2> QED BY <1>5, <2>1 DEF Abstract!vars
<1> QED BY <1>6, <1>7, <1>8, <1>9, <1>10, <1>11, <1>12, <1>13, <1>14, <1>17, <1>19, <1>20, <1>21 DEF Next

\* The table is a map: HashTable_Insert, Find and Remove do to the pairs what they would
\* do to a function, the resize changes none of them, and an iterator visits each pair
\* once, in whatever order, also when HTIterator_Remove takes out pairs on its way.
THEOREM TableImplementsMap == Spec => ImplementsMap
<1>1. Init => Abstract!Init
  <2> SUFFICES ASSUME Init PROVE Abstract!Init
    OBVIOUS
  <2>1. IInv /\ Held(ht) = {}
    BY InitOK, AllocateGood DEF Init
  <2>2. Stored = [k \in {} |-> k]
    BY <2>1, View DEF MapOf
  <2>3. ~Visiting
    BY DEF Init, Visiting
  <2>4. Visiting = FALSE
    BY <2>3 DEF Visiting
  <2>5. Ahead = {} /\ Current = NoKey
    BY <2>3 DEF Ahead, Current
  <2> QED BY <2>2, <2>4, <2>5 DEF Init, Abstract!Init, Failure, Abstract!Failure
<1>2. Init => Copied
  BY DEF Init, Copied
<1>3. Spec => [](IInv /\ Copied)
  BY <1>2, InitOK, StepKeeps, StepCopies, PTL DEF Spec
<1> QED BY <1>1, <1>3, StepImplements, PTL DEF Spec, ImplementsMap, Abstract!Spec
=============================================================================
