------------------------ MODULE SearchEngine_proofs ------------------------
(***************************************************************************)
(* The search engine of hw2, for any tree, any texts and any queries: what *)
(* the parser finds, that the crawl handles every file that it can get at  *)
(* exactly once, that the index says where the words of these files stand, *)
(* and that the answers to queries are what RankedSearch promises.         *)
(***************************************************************************)
EXTENDS SearchEngine, FiniteSetTheorems, FunctionTheorems, SequenceTheorems,
        WellFoundedInduction, TLAPS

-----------------------------------------------------------------------------
(***************************************************************************)
(* Natural numbers: least elements, and induction over a set of them.      *)
(***************************************************************************)
LEMMA LeastElement ==
    ASSUME NEW T, T \subseteq Nat, T # {}
    PROVE  \E x \in T : \A y \in T : x <= y
<1> DEFINE R == OpToRel(<, Nat)
<1>1. IsWellFoundedOn(R, Nat)
  BY NatLessThanWellFounded
<1>2. \A x, y \in Nat : y < x => <<y, x>> \in R
  BY DEF OpToRel
<1> HIDE DEF R
<1>3. PICK x \in T : \A y \in T : ~(<<y, x>> \in R)
  BY <1>1, WFMin
<1>4. ASSUME NEW y \in T PROVE x <= y
  <2>1. x \in Nat /\ y \in Nat
    OBVIOUS
  <2>2. ~(y < x)
    BY <1>2, <1>3, <2>1
  <2> QED BY <2>1, <2>2
<1> QED BY <1>3, <1>4

LEMMA Induction ==
    ASSUME NEW S, 0 \in S, \A n \in Nat : n \in S => n + 1 \in S
    PROVE  Nat \subseteq S
<1> SUFFICES ASSUME Nat \ S # {} PROVE FALSE
  OBVIOUS
<1>1. PICK n \in Nat \ S : \A m \in Nat \ S : n <= m
  BY LeastElement
<1>2. n # 0 /\ n - 1 \in Nat /\ n - 1 < n /\ (n - 1) + 1 = n
  BY <1>1
<1>3. n - 1 \in S
  BY <1>1, <1>2
<1> QED BY <1>1, <1>2, <1>3

-----------------------------------------------------------------------------
(***************************************************************************)
(* FileParser: the loop of InsertContent.                                  *)
(***************************************************************************)
ScanStart == [start |-> 0, tab |-> NoWords]

Scans(text, n, f) ==
    f = [k \in 0..n |-> IF k = 0 THEN ScanStart ELSE ReadChar(text, f[k - 1], k)]

LEMMA ScanExists ==
    ASSUME NEW text, NEW n \in Nat
    PROVE  \E f : Scans(text, n, f)
<1> DEFINE S == {m \in Nat : \E f : Scans(text, m, f)}
<1>1. 0 \in S
  <2>1. Scans(text, 0, [k \in 0..0 |-> ScanStart])
    BY DEF Scans
  <2> QED BY <2>1
<1>2. ASSUME NEW m \in Nat, m \in S PROVE m + 1 \in S
  <2>1. PICK f : Scans(text, m, f)
    BY <1>2
  <2> DEFINE g == [k \in 0..(m + 1) |->
                     IF k = m + 1 THEN ReadChar(text, f[m], m + 1) ELSE f[k]]
  <2>2. ASSUME NEW k \in 0..(m + 1)
        PROVE  g[k] = IF k = 0 THEN ScanStart ELSE ReadChar(text, g[k - 1], k)
    <3>1. CASE k = 0
      BY <3>1, <2>1 DEF Scans
    <3>2. CASE k \in 1..m
      <4>1. g[k] = f[k] /\ g[k - 1] = f[k - 1]
        BY <3>2
      <4>2. f[k] = ReadChar(text, f[k - 1], k)
        BY <2>1, <3>2 DEF Scans
      <4> QED BY <3>2, <4>1, <4>2
    <3>3. CASE k = m + 1
      <4>1. g[k] = ReadChar(text, f[m], k) /\ g[k - 1] = f[m] /\ k # 0
        BY <3>3
      <4> QED BY <4>1
    <3> QED BY <3>1, <3>2, <3>3
  <2>3. Scans(text, m + 1, g)
    <3>1. DOMAIN g = 0..(m + 1)
      OBVIOUS
    <3> QED BY <2>2, <3>1 DEF Scans
  <2> QED BY <2>3
<1>3. Nat \subseteq S
  BY <1>1, <1>2, Induction
<1> QED BY <1>3

LEMMA ScanDef ==
    ASSUME NEW text, Len(text) \in Nat
    PROVE  Scans(text, Len(text), Scan(text))
BY ScanExists, Zenon DEF Scan, Scans, ScanStart

\* A longest run of letters of the text, from p to q, that ends before the text does.
Letter(text, k) == k \in 1..Len(text) /\ IsAlpha(text[k])

Run(text, p, q) ==
    /\ p \in 1..q
    /\ \A k \in p..q : Letter(text, k)
    /\ ~Letter(text, p - 1) /\ ~Letter(text, q + 1)

\* The offsets of the runs that spell w and end before the n-th character.
Found(text, n, w) ==
    {p \in Nat : \E q \in Nat : q < n /\ Run(text, p + 1, q) /\ w = Word(text, p + 1, q)}

Places(table, w) ==
    IF w \in DOMAIN table THEN {table[w][k] : k \in DOMAIN table[w]} ELSE {}

Ascending(s) == \A k, m \in DOMAIN s : k < m => s[k] < s[m]

GoodList(s) == s \in Seq(Nat) /\ s # <<>> /\ Ascending(s)

\* What the parser knows after n characters.
ScanInv(text, n, s) ==
    /\ s.start \in 0..n
    /\ s.start = 0 => ~Letter(text, n)
    /\ s.start > 0 => /\ ~Letter(text, s.start - 1)
                      /\ \A k \in s.start..n : Letter(text, k)
    /\ \A w \in DOMAIN s.tab : GoodList(s.tab[w])
    /\ \A w : Places(s.tab, w) = Found(text, n, w)

LEMMA ScanInvInit ==
    ASSUME NEW text, Len(text) \in Nat
    PROVE  ScanInv(text, 0, ScanStart)
<1>1. \A w : Places(NoWords, w) = {}
  BY DEF Places, NoWords
<1>2. \A w : Found(text, 0, w) = {}
  BY DEF Found
<1>3. DOMAIN NoWords = {}
  BY DEF NoWords
<1>4. ScanStart.start = 0 /\ ScanStart.tab = NoWords
  BY DEF ScanStart
<1>5. ~Letter(text, 0) /\ 0 \in 0..0
  BY DEF Letter
<1>6. PICK s : s = ScanStart
  OBVIOUS
<1>7. s.start = 0 /\ DOMAIN s.tab = {} /\ \A w : Places(s.tab, w) = Found(text, 0, w)
  BY <1>1, <1>2, <1>3, <1>4, <1>6
<1>8. ScanInv(text, 0, s)
  BY <1>5, <1>7 DEF ScanInv
<1> QED BY <1>6, <1>8

\* The new word is the only run that ends with the last character.
LEMMA FoundNext ==
    ASSUME NEW text, Len(text) \in Nat, NEW n \in Nat, n < Len(text), NEW a \in 0..n,
           a = 0 => ~Letter(text, n),
           a > 0 => ~Letter(text, a - 1) /\ \A k \in a..n : Letter(text, k),
           NEW w
    PROVE  Found(text, n + 1, w) =
             IF a > 0 /\ ~Letter(text, n + 1) /\ w = Word(text, a, n)
             THEN Found(text, n, w) \cup {a - 1} ELSE Found(text, n, w)
<1>1. ASSUME NEW p \in Nat, NEW q \in Nat, q < n + 1, Run(text, p + 1, q), ~(q < n)
      PROVE  q = n /\ a > 0 /\ p = a - 1 /\ ~Letter(text, n + 1)
  <2>1. q = n /\ p + 1 \in 1..n
    BY <1>1 DEF Run
  <2>2. Letter(text, n) /\ ~Letter(text, n + 1) /\ ~Letter(text, p)
    BY <1>1, <2>1 DEF Run
  <2>3. \A k \in (p + 1)..n : Letter(text, k)
    BY <1>1, <2>1 DEF Run
  <2>4. a > 0 /\ a - 1 \in Nat
    BY <2>2
  <2>5. ~(a < p + 1)
    <3> SUFFICES ASSUME a < p + 1 PROVE FALSE
      OBVIOUS
    <3>1. p \in a..n
      BY <2>1, <2>4
    <3> QED BY <2>2, <2>4, <3>1
  <2>6. ~(a > p + 1)
    <3> SUFFICES ASSUME a > p + 1 PROVE FALSE
      OBVIOUS
    <3>1. a - 1 \in (p + 1)..n
      BY <2>1, <2>4
    <3> QED BY <2>3, <2>4, <3>1
  <2> QED BY <2>1, <2>2, <2>4, <2>5, <2>6
<1>2. ASSUME a > 0, ~Letter(text, n + 1) PROVE Run(text, (a - 1) + 1, n) /\ a - 1 \in Nat
  BY <1>2 DEF Run
<1>3. Found(text, n, w) \subseteq Found(text, n + 1, w)
  BY DEF Found
<1>4. ASSUME NEW p \in Found(text, n + 1, w), p \notin Found(text, n, w)
      PROVE  a > 0 /\ p = a - 1 /\ ~Letter(text, n + 1) /\ w = Word(text, a, n)
  <2>1. PICK q \in Nat : q < n + 1 /\ Run(text, p + 1, q) /\ w = Word(text, p + 1, q)
    BY <1>4 DEF Found
  <2>2. p \in Nat /\ ~(q < n)
    BY <1>4, <2>1 DEF Found
  <2>3. q = n /\ a > 0 /\ p = a - 1 /\ ~Letter(text, n + 1)
    BY <1>1, <2>1, <2>2
  <2>4. p + 1 = a
    BY <2>2, <2>3
  <2> QED BY <2>1, <2>3, <2>4
<1>5. ASSUME a > 0, ~Letter(text, n + 1), w = Word(text, a, n)
      PROVE  a - 1 \in Found(text, n + 1, w)
  <2>1. (a - 1) + 1 = a /\ n < n + 1
    OBVIOUS
  <2> QED BY <1>2, <1>5, <2>1 DEF Found
<1> QED BY <1>3, <1>4, <1>5

LEMMA AppendPlace ==
    ASSUME NEW s, GoodList(s), NEW x \in Nat, \A k \in DOMAIN s : s[k] < x
    PROVE  /\ GoodList(Append(s, x))
           /\ {Append(s, x)[k] : k \in DOMAIN Append(s, x)} = {s[k] : k \in DOMAIN s} \cup {x}
<1> DEFINE t == Append(s, x)
<1>1. s \in Seq(Nat) /\ Len(s) \in Nat /\ DOMAIN s = 1..Len(s)
  BY DEF GoodList
<1>2. /\ t \in Seq(Nat) /\ t # <<>> /\ DOMAIN t = 1..(Len(s) + 1)
      /\ \A k \in 1..Len(s) : t[k] = s[k]
      /\ t[Len(s) + 1] = x
  BY <1>1, AppendProperties, LenProperties
<1> HIDE DEF t
<1>3. ASSUME NEW k \in DOMAIN t, NEW m \in DOMAIN t, k < m PROVE t[k] < t[m]
  <2>1. k \in 1..Len(s)
    BY <1>1, <1>2, <1>3
  <2>2. CASE m \in 1..Len(s)
    BY <1>1, <1>2, <1>3, <2>1, <2>2 DEF GoodList, Ascending
  <2>3. CASE m = Len(s) + 1
    BY <1>1, <1>2, <2>1, <2>3
  <2> QED BY <1>1, <1>2, <2>2, <2>3
<1>4. {t[k] : k \in DOMAIN t} = {s[k] : k \in DOMAIN s} \cup {x}
  <2>1. ASSUME NEW k \in DOMAIN t PROVE t[k] \in {s[l] : l \in DOMAIN s} \cup {x}
    BY <1>1, <1>2
  <2>2. ASSUME NEW k \in DOMAIN s PROVE s[k] \in {t[l] : l \in DOMAIN t}
    BY <1>1, <1>2
  <2>3. x \in {t[l] : l \in DOMAIN t}
    BY <1>1, <1>2
  <2> QED BY <2>1, <2>2, <2>3
<1> QED BY <1>2, <1>3, <1>4 DEF GoodList, Ascending, t

\* What AddWordPosition does to a table, if the new offset is the last one.
LEMMA AddPlace ==
    ASSUME NEW table, \A w \in DOMAIN table : GoodList(table[w]),
           NEW word, NEW x \in Nat, \A p \in Places(table, word) : p < x
    PROVE  /\ \A w \in DOMAIN AddWordPosition(table, word, x) :
                 GoodList(AddWordPosition(table, word, x)[w])
           /\ \A w : Places(AddWordPosition(table, word, x), w) =
                 IF w = word THEN Places(table, w) \cup {x} ELSE Places(table, w)
<1> DEFINE new == IF word \in DOMAIN table THEN Append(table[word], x) ELSE <<x>>
           more == AddWordPosition(table, word, x)
<1>1. GoodList(new) /\ {new[k] : k \in DOMAIN new} = Places(table, word) \cup {x}
  <2>1. CASE word \in DOMAIN table
    <3>1. \A k \in DOMAIN table[word] : table[word][k] < x
      BY <2>1 DEF Places
    <3>2. Places(table, word) = {table[word][k] : k \in DOMAIN table[word]}
      BY <2>1 DEF Places
    <3>3. new = Append(table[word], x) /\ GoodList(table[word])
      BY <2>1
    <3>4. PICK s : s = table[word]
      OBVIOUS
    <3>5. GoodList(Append(s, x)) /\
          {Append(s, x)[k] : k \in DOMAIN Append(s, x)} = {s[k] : k \in DOMAIN s} \cup {x}
      BY <3>1, <3>3, <3>4, AppendPlace
    <3> HIDE DEF new
    <3> QED BY <3>2, <3>3, <3>4, <3>5
  <2>2. CASE word \notin DOMAIN table
    BY <2>2 DEF Places, GoodList, Ascending
  <2> QED BY <2>1, <2>2
<1>2. more = [k \in DOMAIN table \cup {word} |-> IF k = word THEN new ELSE table[k]]
  BY DEF AddWordPosition, HashTable_Insert
<1> HIDE DEF new, more
<1>3. /\ DOMAIN more = DOMAIN table \cup {word} /\ more[word] = new
      /\ \A w \in DOMAIN table \ {word} : more[w] = table[w]
  BY <1>2
<1>4. \A w \in DOMAIN more : GoodList(more[w])
  BY <1>1, <1>3
<1>5. ASSUME NEW w
      PROVE  Places(more, w) = IF w = word THEN Places(table, w) \cup {x} ELSE Places(table, w)
  <2>1. CASE w = word
    BY <1>1, <1>3, <2>1 DEF Places
  <2>2. CASE w # word
    BY <1>3, <2>2 DEF Places
  <2> QED BY <2>1, <2>2
<1> QED BY <1>4, <1>5 DEF more

LEMMA ScanInvNext ==
    ASSUME NEW text, Len(text) \in Nat, NEW n \in Nat, n < Len(text),
           NEW s, ScanInv(text, n, s)
    PROVE  ScanInv(text, n + 1, ReadChar(text, s, n + 1))
<1>1. /\ s.start \in 0..n
      /\ s.start = 0 => ~Letter(text, n)
      /\ s.start > 0 => ~Letter(text, s.start - 1) /\ \A k \in s.start..n : Letter(text, k)
      /\ \A w \in DOMAIN s.tab : GoodList(s.tab[w])
      /\ \A w : Places(s.tab, w) = Found(text, n, w)
  BY DEF ScanInv
<1>2. n + 1 \in 1..Len(text) /\ (n + 1) - 1 = n
  OBVIOUS
<1>3. \A w : Found(text, n + 1, w) =
             IF s.start > 0 /\ ~Letter(text, n + 1) /\ w = Word(text, s.start, n)
             THEN Found(text, n, w) \cup {s.start - 1} ELSE Found(text, n, w)
  BY <1>1, FoundNext
<1>4. CASE IsAlpha(text[n + 1])
  <2>1. Letter(text, n + 1) /\ \A w : Found(text, n + 1, w) = Found(text, n, w)
    BY <1>2, <1>3, <1>4 DEF Letter
  <2>2. CASE s.start = 0
    <3> DEFINE t == [s EXCEPT !.start = n + 1]
    <3>1. ReadChar(text, s, n + 1) = t /\ t.start = n + 1 /\ t.tab = s.tab
      BY <1>4, <2>2 DEF ReadChar
    <3> HIDE DEF t
    <3>2. \A k \in (n + 1)..(n + 1) : k = n + 1
      OBVIOUS
    <3> QED BY <1>1, <1>2, <2>1, <2>2, <3>1, <3>2 DEF ScanInv
  <2>3. CASE s.start > 0
    <3>1. ReadChar(text, s, n + 1) = s
      BY <1>1, <1>4, <2>3 DEF ReadChar
    <3>2. \A k \in s.start..(n + 1) : k \in s.start..n \/ k = n + 1
      BY <1>1
    <3>3. s.start \in 0..(n + 1)
      BY <1>1
    <3> QED BY <1>1, <2>1, <2>3, <3>1, <3>2, <3>3 DEF ScanInv
  <2> QED BY <1>1, <2>2, <2>3
<1>5. CASE ~IsAlpha(text[n + 1])
  <2>1. ~Letter(text, n + 1)
    BY <1>5 DEF Letter
  <2>2. CASE s.start = 0
    <3>1. ReadChar(text, s, n + 1) = s
      BY <1>5, <2>2 DEF ReadChar
    <3> QED BY <1>1, <1>3, <2>1, <2>2, <3>1 DEF ScanInv
  <2>3. CASE s.start > 0
    <3> DEFINE word == Word(text, s.start, n)
               table == AddWordPosition(s.tab, word, s.start - 1)
    <3>1. ReadChar(text, s, n + 1) = [start |-> 0, tab |-> table]
      BY <1>1, <1>2, <1>5, <2>3 DEF ReadChar
    <3>2. s.start - 1 \in Nat
      BY <1>1, <2>3
    <3>3. ASSUME NEW p \in Found(text, n, word) PROVE p < s.start - 1
      <4>1. PICK q \in Nat : q < n /\ Run(text, p + 1, q)
        BY <3>3 DEF Found
      <4>2. p \in Nat /\ p + 1 \in 1..q /\ ~Letter(text, q + 1) /\ ~Letter(text, p)
        BY <3>3, <4>1 DEF Found, Run
      <4>3. ~(p >= s.start)
        <5> SUFFICES ASSUME p >= s.start PROVE FALSE
          OBVIOUS
        <5>1. p \in s.start..n
          BY <1>1, <4>1, <4>2
        <5> QED BY <1>1, <2>3, <4>2, <5>1
      <4>4. ~(q + 1 >= s.start)
        <5> SUFFICES ASSUME q + 1 >= s.start PROVE FALSE
          OBVIOUS
        <5>1. q + 1 \in s.start..n
          BY <1>1, <4>1
        <5> QED BY <1>1, <2>3, <4>2, <5>1
      <4> QED BY <1>1, <4>1, <4>2, <4>4
    <3>4. /\ \A w \in DOMAIN table : GoodList(table[w])
          /\ \A w : Places(table, w) =
               IF w = word THEN Places(s.tab, w) \cup {s.start - 1} ELSE Places(s.tab, w)
      <4>1. \A p \in Places(s.tab, word) : p < s.start - 1
        BY <1>1, <3>3
      <4>2. PICK old, x : old = s.tab /\ x = s.start - 1
        OBVIOUS
      <4>3. /\ \A w \in DOMAIN old : GoodList(old[w])
            /\ x \in Nat /\ \A p \in Places(old, word) : p < x
        BY <1>1, <3>2, <4>1, <4>2
      <4> HIDE DEF word
      <4>4. /\ \A w \in DOMAIN AddWordPosition(old, word, x) :
                 GoodList(AddWordPosition(old, word, x)[w])
            /\ \A w : Places(AddWordPosition(old, word, x), w) =
                 IF w = word THEN Places(old, w) \cup {x} ELSE Places(old, w)
        BY <4>3, AddPlace
      <4> QED BY <4>2, <4>4
    <3> HIDE DEF table, word
    <3>5. \A w : Places(table, w) = Found(text, n + 1, w)
      BY <1>1, <1>3, <2>1, <2>3, <3>4 DEF word
    <3>6. 0 \in 0..(n + 1)
      OBVIOUS
    <3> QED BY <2>1, <3>1, <3>4, <3>5, <3>6 DEF ScanInv
  <2> QED BY <1>1, <2>2, <2>3
<1> QED BY <1>4, <1>5

LEMMA ScanInvHolds ==
    ASSUME NEW text, Len(text) \in Nat
    PROVE  ScanInv(text, Len(text), Scan(text)[Len(text)])
<1> DEFINE S == {n \in Nat : n <= Len(text) => ScanInv(text, n, Scan(text)[n])}
<1>1. /\ Scan(text)[0] = ScanStart
      /\ \A n \in 1..Len(text) : Scan(text)[n] = ReadChar(text, Scan(text)[n - 1], n)
  BY ScanDef DEF Scans
<1>2. 0 \in S
  BY <1>1, ScanInvInit
<1>3. ASSUME NEW n \in Nat, n \in S PROVE n + 1 \in S
  <2> SUFFICES ASSUME n + 1 <= Len(text) PROVE ScanInv(text, n + 1, Scan(text)[n + 1])
    OBVIOUS
  <2>1. ScanInv(text, n, Scan(text)[n]) /\ n < Len(text)
    BY <1>3
  <2>2. n + 1 \in 1..Len(text) /\ (n + 1) - 1 = n
    OBVIOUS
  <2>3. Scan(text)[n + 1] = ReadChar(text, Scan(text)[n], n + 1)
    BY <1>1, <2>2
  <2> QED BY <2>1, <2>3, ScanInvNext
<1>4. Nat \subseteq S
  BY <1>2, <1>3, Induction
<1> QED BY <1>4

-----------------------------------------------------------------------------
(***************************************************************************)
(* FileParser: the table of a file says where its words are.               *)
(***************************************************************************)
LEMMA IsSeqType ==
    ASSUME NEW s, IsSeq(s)
    PROVE  Len(s) \in Nat /\ DOMAIN s = 1..Len(s) /\ s = [k \in 1..Len(s) |-> s[k]]
<1>1. PICK S : S = {s[k] : k \in DOMAIN s}
  OBVIOUS
<1>2. s \in Seq(S)
  BY <1>1 DEF IsSeq
<1> QED BY <1>2, LenProperties

LEMMA StrLen ==
    ASSUME NEW c, IsSeq(c)
    PROVE  /\ strlen(c) \in 0..Len(c)
           /\ \A k \in 1..strlen(c) : c[k] # NUL
           /\ strlen(c) < Len(c) => c[strlen(c) + 1] = NUL
<1> DEFINE T == {n \in 0..Len(c) : n < Len(c) => c[n + 1] = NUL}
<1>1. Len(c) \in Nat
  BY IsSeqType
<1>2. T \subseteq Nat /\ Len(c) \in T
  BY <1>1
<1>3. PICK n \in T : \A m \in T : n <= m
  <2> HIDE DEF T
  <2> QED BY <1>2, LeastElement
<1>4. \A k \in 1..n : c[k] # NUL
  <2> SUFFICES ASSUME NEW k \in 1..n, c[k] = NUL PROVE FALSE
    OBVIOUS
  <2>1. k - 1 \in 0..Len(c) /\ (k - 1) + 1 = k
    BY <1>1, <1>2
  <2>2. k - 1 \in T
    BY <2>1
  <2>3. n <= k - 1
    <3> HIDE DEF T
    <3> QED BY <1>3, <2>2
  <2>4. n \in Nat /\ k \in 1..n
    BY <1>1, <1>3
  <2> QED BY <2>3, <2>4
<1>5. \E m \in 0..Len(c) : /\ \A k \in 1..m : c[k] # NUL
                           /\ m < Len(c) => c[m + 1] = NUL
  BY <1>3, <1>4
<1> QED BY <1>5 DEF strlen

LEMMA CStringIs ==
    ASSUME NEW c, IsSeq(c)
    PROVE  /\ Len(CString(c)) = strlen(c) /\ DOMAIN CString(c) = 1..strlen(c)
           /\ \A k \in 1..strlen(c) : CString(c)[k] = c[k]
<1>1. PICK S : S = {c[k] : k \in DOMAIN c}
  OBVIOUS
<1>2. /\ strlen(c) \in Nat /\ 1 \in Int /\ strlen(c) \in Int
      /\ \A k \in 1..strlen(c) : c[k] \in S
  BY <1>1, StrLen, IsSeqType
<1>3. PICK n \in Nat : n = strlen(c)
  BY <1>2
<1>4. /\ SubSeq(c, 1, n) \in Seq(S)
      /\ Len(SubSeq(c, 1, n)) = IF 1 <= n THEN n - 1 + 1 ELSE 0
      /\ \A k \in 1..(n - 1 + 1) : SubSeq(c, 1, n)[k] = c[1 + k - 1]
  BY <1>2, <1>3, SubSeqProperties
<1>5. Len(SubSeq(c, 1, n)) = n /\ \A k \in 1..n : SubSeq(c, 1, n)[k] = c[k]
  BY <1>4
<1>6. DOMAIN SubSeq(c, 1, n) = 1..n
  BY <1>4, <1>5, LenProperties
<1> QED BY <1>3, <1>5, <1>6 DEF CString

LEMMA ShowsIs ==
    ASSUME NEW c, IsSeq(c), NEW k \in Int
    PROVE  Shows(c, k) <=> k \in 1..strlen(c)
<1>1. /\ Len(c) \in Nat /\ DOMAIN c = 1..Len(c)
      /\ strlen(c) \in 0..Len(c)
      /\ \A m \in 1..strlen(c) : c[m] # NUL
      /\ strlen(c) < Len(c) => c[strlen(c) + 1] = NUL
  BY StrLen, IsSeqType
<1>2. ASSUME k \in 1..strlen(c) PROVE Shows(c, k)
  BY <1>1, <1>2 DEF Shows
<1>3. ASSUME Shows(c, k), ~(k <= strlen(c)) PROVE FALSE
  <2>1. k \in 1..Len(c) /\ \A m \in 1..k : c[m] # NUL
    BY <1>1, <1>3 DEF Shows
  <2>2. strlen(c) < Len(c) /\ strlen(c) + 1 \in 1..k
    BY <1>1, <1>3, <2>1
  <2> QED BY <1>1, <2>1, <2>2
<1>4. Shows(c, k) => k \in 1..Len(c)
  BY <1>1 DEF Shows
<1> QED BY <1>1, <1>2, <1>3, <1>4

LEMMA LetterIs ==
    ASSUME NEW c, IsSeq(c), NEW k \in Int
    PROVE  Letter(CString(c), k) <=> Shows(c, k) /\ IsAlpha(c[k])
BY CStringIs, ShowsIs DEF Letter

LEMMA WordIs ==
    ASSUME NEW text, NEW p \in Int, NEW q \in Int, p <= q
    PROVE  /\ DOMAIN Word(text, p + 1, q + 1) = 1..(q - p + 1)
           /\ \A k \in 1..(q - p + 1) : Word(text, p + 1, q + 1)[k] = Lower[text[p + k]]
           /\ IsSeq(Word(text, p + 1, q + 1)) /\ Len(Word(text, p + 1, q + 1)) = q - p + 1
<1>1. PICK w : w = Word(text, p + 1, q + 1)
  OBVIOUS
<1>2. (q + 1) - (p + 1) + 1 = q - p + 1 /\ q - p + 1 \in Nat
  OBVIOUS
<1>3. \A k \in 1..(q - p + 1) : (p + 1) + k - 1 = p + k
  OBVIOUS
<1>4. w = [k \in 1..(q - p + 1) |-> Lower[text[p + k]]]
  BY <1>1, <1>2, <1>3 DEF Word
<1>5. DOMAIN w = 1..(q - p + 1) /\ \A k \in 1..(q - p + 1) : w[k] = Lower[text[p + k]]
  BY <1>4
<1>6. PICK S : S = {w[k] : k \in DOMAIN w}
  OBVIOUS
<1>7. w \in [1..(q - p + 1) -> S]
  BY <1>4, <1>5, <1>6
<1>8. w \in Seq(S)
  BY <1>2, <1>7
<1>9. Len(w) = q - p + 1
  BY <1>2, <1>5, <1>8, LenProperties
<1> QED BY <1>1, <1>5, <1>6, <1>8, <1>9 DEF IsSeq

LEMMA FoundIsOccurrences ==
    ASSUME NEW c, IsSeq(c), NEW w, IsSeq(w)
    PROVE  Found(CString(c), Len(CString(c)), w) = Occurrences(c, w, FALSE)
<1>1. PICK text : text = CString(c)
  OBVIOUS
<1>2. PICK n \in Nat : n = strlen(c) /\ n <= Len(c)
  BY StrLen, IsSeqType
<1>3. /\ Len(text) = n /\ Len(c) \in Nat /\ Len(w) \in Nat
      /\ \A k \in 1..n : text[k] = c[k]
      /\ \A k \in Int : Shows(c, k) <=> k \in 1..n
      /\ \A k \in Int : Letter(text, k) <=> Shows(c, k) /\ IsAlpha(c[k])
      /\ DOMAIN w = 1..Len(w) /\ w = [k \in 1..Len(w) |-> w[k]]
  BY <1>1, <1>2, CStringIs, IsSeqType, ShowsIs, LetterIs
<1>4. ASSUME NEW p \in Found(text, n, w) PROVE p \in Occurrences(c, w, FALSE)
  <2>1. PICK q \in Nat : q < n /\ Run(text, p + 1, q) /\ w = Word(text, p + 1, q)
    BY <1>4 DEF Found
  <2>2. p \in Nat /\ p + 1 \in 1..q
    BY <1>4, <2>1 DEF Found, Run
  <2>3. PICK l \in Int : q = l + 1 /\ p <= l
    BY <2>2
  <2>4. /\ Len(w) = l - p + 1
        /\ \A k \in 1..(l - p + 1) : w[k] = Lower[text[p + k]]
    <3>1. PICK v : v = Word(text, p + 1, l + 1)
      OBVIOUS
    <3>2. p \in Int /\ l \in Int /\ p <= l
      BY <2>2, <2>3
    <3>3. Len(v) = l - p + 1 /\ \A k \in 1..(l - p + 1) : v[k] = Lower[text[p + k]]
      BY <3>1, <3>2, WordIs
    <3>4. w = v
      BY <2>1, <2>3, <3>1
    <3> QED BY <3>3, <3>4
  <2>5. p + Len(w) = q
    BY <2>2, <2>3, <2>4
  <2>6. \A k \in DOMAIN w : Lower[c[p + k]] = w[k]
    <3> SUFFICES ASSUME NEW k \in 1..Len(w) PROVE Lower[c[p + k]] = w[k]
      BY <1>3
    <3>1. p + k \in 1..n
      BY <2>1, <2>2, <2>5, <1>3
    <3> QED BY <1>3, <2>4, <3>1
  <2>7. IsRun(c, p + 1, q)
    <3>1. Shows(c, q) /\ p + 1 <= q
      BY <1>3, <2>1, <2>2
    <3>2. \A k \in (p + 1)..q : IsAlpha(c[k])
      BY <1>3, <2>1, <2>2 DEF Run
    <3>3. p + 1 > 1 => ~IsAlpha(c[(p + 1) - 1])
      <4> SUFFICES ASSUME p + 1 > 1 PROVE ~IsAlpha(c[p])
        BY <2>2
      <4>1. p \in 1..n /\ (p + 1) - 1 = p
        BY <2>1, <2>2
      <4>2. ~Letter(text, p)
        BY <2>1, <4>1 DEF Run
      <4> QED BY <1>3, <4>1, <4>2
    <3>4. ~IsAlpha(c[q + 1])
      <4>1. q + 1 \in 1..n /\ ~Letter(text, q + 1)
        BY <2>1 DEF Run
      <4> QED BY <1>3, <4>1
    <3> QED BY <3>1, <3>2, <3>3, <3>4 DEF IsRun
  <2>8. Shows(c, q + 1) /\ p \in 0..(Len(c) - Len(w))
    <3>1. q + 1 \in 1..n
      BY <2>1
    <3>2. p <= Len(c) - Len(w)
      BY <1>2, <1>3, <2>1, <2>2, <2>5
    <3> QED BY <1>3, <2>2, <3>1, <3>2
  <2> QED BY <2>5, <2>6, <2>7, <2>8 DEF Occurrences
<1>5. ASSUME NEW p \in Occurrences(c, w, FALSE) PROVE p \in Found(text, n, w)
  <2>1. PICK q \in Int : q = p + Len(w)
    BY <1>3, <1>5 DEF Occurrences
  <2>2. /\ p \in 0..(Len(c) - Len(w)) /\ IsRun(c, p + 1, q)
        /\ \A k \in DOMAIN w : Lower[c[p + k]] = w[k]
        /\ Shows(c, q + 1)
    BY <2>1 DEF Occurrences
  <2>3. p \in Nat /\ p + 1 <= q /\ q < n
    <3>1. p \in Nat
      BY <1>3, <2>2
    <3>2. q + 1 \in 1..n
      BY <1>3, <2>1, <2>2
    <3> QED BY <2>2, <3>1, <3>2 DEF IsRun
  <2>4. Run(text, p + 1, q)
    <3>1. \A k \in (p + 1)..q : Letter(text, k)
      <4> SUFFICES ASSUME NEW k \in (p + 1)..q PROVE Letter(text, k)
        OBVIOUS
      <4>1. k \in 1..n /\ IsAlpha(c[k])
        BY <2>2, <2>3 DEF IsRun
      <4> QED BY <1>3, <4>1
    <3>2. ~Letter(text, p)
      <4>1. p \in 1..n => ~IsAlpha(c[p])
        <5> SUFFICES ASSUME p \in 1..n PROVE ~IsAlpha(c[p])
          OBVIOUS
        <5>1. p + 1 > 1 /\ (p + 1) - 1 = p
          BY <2>3
        <5> QED BY <2>2, <5>1 DEF IsRun
      <4> QED BY <1>3, <2>3, <4>1
    <3>3. ~Letter(text, q + 1)
      BY <1>3, <2>2, <2>3 DEF IsRun
    <3>4. p + 1 \in 1..q /\ (p + 1) - 1 = p
      BY <2>3
    <3> QED BY <3>1, <3>2, <3>3, <3>4 DEF Run
  <2>5. w = Word(text, p + 1, q)
    <3>1. PICK l \in Int : q = l + 1 /\ p <= l
      BY <2>3
    <3>2. /\ DOMAIN Word(text, p + 1, q) = 1..(l - p + 1)
          /\ \A k \in 1..(l - p + 1) : Word(text, p + 1, q)[k] = Lower[text[p + k]]
      BY <2>3, <3>1, WordIs
    <3>3. Len(w) = l - p + 1
      BY <1>3, <2>1, <2>3, <3>1
    <3>4. \A k \in 1..(l - p + 1) : w[k] = Lower[text[p + k]]
      <4> SUFFICES ASSUME NEW k \in 1..(l - p + 1) PROVE w[k] = Lower[text[p + k]]
        OBVIOUS
      <4>1. p + k \in 1..n /\ k \in DOMAIN w
        BY <1>3, <2>3, <3>1, <3>3
      <4> QED BY <1>3, <2>2, <4>1
    <3>5. Word(text, p + 1, q) = [k \in 1..(q - (p + 1) + 1) |-> Word(text, p + 1, q)[k]]
      BY DEF Word
    <3>6. PICK v : v = Word(text, p + 1, q)
      OBVIOUS
    <3>7. v = [k \in 1..(l - p + 1) |-> v[k]]
      BY <2>3, <3>1, <3>5, <3>6
    <3> QED BY <1>3, <3>2, <3>3, <3>4, <3>6, <3>7
  <2> QED BY <2>3, <2>4, <2>5 DEF Found
<1> QED BY <1>1, <1>2, <1>3, <1>4, <1>5

\* FileParser.c: for any text, every word of the table comes with a non-empty, ascending
\* list of offsets; these are all the places at which the word stands in the text before
\* its first null byte, none if a byte there is not ASCII, and a word that ends the text
\* is left out.
THEOREM ParsedTable ==
    ASSUME NEW c, IsSeq(c), c # Null
    PROVE  /\ \A w \in DOMAIN ParseIntoWordPositionsTable(c) :
                 IsSeq(w) /\ GoodList(ParseIntoWordPositionsTable(c)[w])
           /\ \A w : IsSeq(w) =>
                 Places(ParseIntoWordPositionsTable(c), w) =
                   IF Indexable(c) THEN Occurrences(c, w, FALSE) ELSE {}
           /\ ParseIntoWordPositionsTable(c) # NoWords => Indexable(c)
<1>1. PICK text : text = CString(c)
  OBVIOUS
<1>2. PICK n \in Nat : n = strlen(c)
  BY StrLen, IsSeqType
<1>3. /\ Len(text) = n /\ DOMAIN text = 1..n /\ \A k \in 1..n : text[k] = c[k]
      /\ DOMAIN c = 1..Len(c) /\ Len(c) \in Nat /\ n <= Len(c)
      /\ \A k \in Int : Shows(c, k) <=> k \in 1..n
  BY <1>1, <1>2, CStringIs, ShowsIs, IsSeqType, StrLen
<1>4. Indexable(c) <=> ~\E k \in DOMAIN text : text[k] \in NonAscii
  <2>1. ASSUME NEW k \in DOMAIN text, text[k] \in NonAscii PROVE ~Indexable(c)
    <3>1. k \in DOMAIN c /\ Shows(c, k) /\ c[k] \in NonAscii
      BY <1>3, <2>1
    <3> QED BY <3>1 DEF Indexable
  <2>2. ASSUME ~Indexable(c) PROVE \E k \in DOMAIN text : text[k] \in NonAscii
    <3>1. PICK k \in DOMAIN c : Shows(c, k) /\ c[k] \in NonAscii
      BY <2>2 DEF Indexable
    <3>2. k \in 1..n
      BY <1>3, <3>1
    <3> QED BY <1>3, <3>1, <3>2
  <2> QED BY <2>1, <2>2
<1>5. CASE ~Indexable(c)
  <2>1. ParseIntoWordPositionsTable(c) = NoWords
    BY <1>1, <1>4, <1>5 DEF ParseIntoWordPositionsTable
  <2>2. DOMAIN NoWords = {} /\ \A w : Places(NoWords, w) = {}
    BY DEF NoWords, Places
  <2> QED BY <1>5, <2>1, <2>2
<1>6. CASE Indexable(c)
  <2>1. PICK s : s = Scan(text)[Len(text)]
    OBVIOUS
  <2>2. ParseIntoWordPositionsTable(c) = s.tab
    BY <1>1, <1>4, <1>6, <2>1 DEF ParseIntoWordPositionsTable, InsertContent
  <2>3. ScanInv(text, n, s)
    BY <1>3, <2>1, ScanInvHolds
  <2>4. PICK table : table = s.tab
    OBVIOUS
  <2>5. /\ \A w \in DOMAIN table : GoodList(table[w])
        /\ \A w : Places(table, w) = Found(text, n, w)
    BY <2>3, <2>4 DEF ScanInv
  <2>6. ASSUME NEW w \in DOMAIN table PROVE IsSeq(w)
    <3>1. GoodList(table[w]) /\ Len(table[w]) > 0 /\ 1 \in DOMAIN table[w]
      BY <2>5, EmptySeq, LenProperties DEF GoodList
    <3>2. table[w][1] \in Found(text, n, w)
      BY <2>5, <3>1 DEF Places
    <3>3. PICK p \in Nat, q \in Nat : Run(text, p + 1, q) /\ w = Word(text, p + 1, q)
      BY <3>2 DEF Found
    <3>4. p + 1 <= q
      BY <3>3 DEF Run
    <3>5. PICK l \in Int : q = l + 1 /\ p <= l
      BY <3>4
    <3> QED BY <3>3, <3>5, WordIs
  <2>7. ASSUME NEW w, IsSeq(w) PROVE Places(table, w) = Occurrences(c, w, FALSE)
    BY <1>1, <1>3, <2>5, <2>7, FoundIsOccurrences
  <2> QED BY <1>6, <2>2, <2>4, <2>5, <2>6, <2>7
<1> QED BY <1>5, <1>6

-----------------------------------------------------------------------------
(***************************************************************************)
(* CrawlFileTree: the stack of the directories being handled.              *)
(***************************************************************************)
Waiting(s) == UNION {s[k] : k \in DOMAIN s}

Disjoint(s) == \A k, l \in DOMAIN s : k # l => s[k] \cap s[l] = {}

IsStack(s) == s \in Seq(SUBSET Paths) /\ Disjoint(s)

LEMMA StackPush ==
    ASSUME NEW s, IsStack(s), NEW E \in SUBSET Paths, E \cap Waiting(s) = {}
    PROVE  IsStack(<<E>> \o s) /\ Waiting(<<E>> \o s) = E \cup Waiting(s) /\ <<E>> \o s # <<>>
<1> DEFINE r == <<E>> \o s
<1>1. s \in Seq(SUBSET Paths) /\ Len(s) \in Nat /\ DOMAIN s = 1..Len(s)
  BY LenProperties DEF IsStack
<1>2. <<E>> \in Seq(SUBSET Paths) /\ Len(<<E>>) = 1 /\ <<E>>[1] = E
  OBVIOUS
<1>3. /\ r \in Seq(SUBSET Paths) /\ Len(r) = 1 + Len(s)
      /\ \A k \in 1..(1 + Len(s)) : r[k] = IF k <= 1 THEN E ELSE s[k - 1]
  BY <1>1, <1>2, ConcatProperties
<1>4. DOMAIN r = 1..(1 + Len(s))
  BY <1>3, LenProperties
<1> HIDE DEF r
<1>5. r[1] = E
  BY <1>1, <1>3
<1>6. \A k \in 2..(1 + Len(s)) : k - 1 \in DOMAIN s /\ r[k] = s[k - 1]
  BY <1>1, <1>3
<1>7. \A k \in DOMAIN s : k + 1 \in DOMAIN r /\ r[k + 1] = s[k]
  BY <1>1, <1>3, <1>4
<1>8. Waiting(r) = E \cup Waiting(s)
  <2>1. ASSUME NEW p \in Waiting(r) PROVE p \in E \cup Waiting(s)
    <3>1. PICK k \in DOMAIN r : p \in r[k]
      BY <2>1 DEF Waiting
    <3>2. k = 1 \/ k \in 2..(1 + Len(s))
      BY <1>1, <1>4
    <3> QED BY <1>5, <1>6, <3>1, <3>2 DEF Waiting
  <2>2. ASSUME NEW p \in E PROVE p \in Waiting(r)
    <3>1. 1 \in DOMAIN r
      BY <1>1, <1>4
    <3> QED BY <1>5, <3>1 DEF Waiting
  <2>3. ASSUME NEW p \in Waiting(s) PROVE p \in Waiting(r)
    BY <1>7 DEF Waiting
  <2> QED BY <2>1, <2>2, <2>3
<1>9. ASSUME NEW k \in DOMAIN r, NEW l \in DOMAIN r, k # l PROVE r[k] \cap r[l] = {}
  <2>1. \A m \in DOMAIN s : E \cap s[m] = {}
    BY DEF Waiting
  <2>2. CASE k = 1
    <3>1. l \in 2..(1 + Len(s))
      BY <1>1, <1>4, <1>9, <2>2
    <3> QED BY <1>5, <1>6, <2>1, <2>2, <3>1
  <2>3. CASE l = 1
    <3>1. k \in 2..(1 + Len(s))
      BY <1>1, <1>4, <1>9, <2>3
    <3> QED BY <1>5, <1>6, <2>1, <2>3, <3>1
  <2>4. CASE k # 1 /\ l # 1
    <3>1. k \in 2..(1 + Len(s)) /\ l \in 2..(1 + Len(s)) /\ k - 1 # l - 1
      BY <1>1, <1>4, <1>9, <2>4
    <3> QED BY <1>6, <3>1 DEF IsStack, Disjoint
  <2> QED BY <2>2, <2>3, <2>4
<1>10. r # <<>>
  BY <1>1, <1>4
<1> QED BY <1>3, <1>8, <1>9, <1>10 DEF IsStack, Disjoint, r

LEMMA StackTail ==
    ASSUME NEW s, IsStack(s), s # <<>>
    PROVE  /\ Head(s) = s[1] /\ s[1] \in SUBSET Paths /\ s[1] \subseteq Waiting(s)
           /\ IsStack(Tail(s)) /\ Waiting(Tail(s)) = Waiting(s) \ s[1]
<1> DEFINE t == Tail(s)
<1>1. /\ s \in Seq(SUBSET Paths) /\ Len(s) \in Nat /\ DOMAIN s = 1..Len(s) /\ Len(s) # 0
  BY LenProperties, EmptySeq DEF IsStack
<1>2. /\ t \in Seq(SUBSET Paths) /\ Len(t) = Len(s) - 1
      /\ \A k \in 1..Len(t) : t[k] = s[k + 1]
  BY <1>1, HeadTailProperties
<1>3. DOMAIN t = 1..(Len(s) - 1)
  BY <1>2, LenProperties
<1> HIDE DEF t
<1>4. \A k \in DOMAIN t : k + 1 \in DOMAIN s /\ k + 1 # 1 /\ t[k] = s[k + 1]
  BY <1>1, <1>2, <1>3
<1>5. \A k \in DOMAIN s \ {1} : k - 1 \in DOMAIN t /\ t[k - 1] = s[k]
  BY <1>1, <1>2, <1>3
<1>6. 1 \in DOMAIN s
  BY <1>1
<1>7. Head(s) = s[1] /\ s[1] \in SUBSET Paths
  BY <1>1, <1>6
<1>8. \A k \in DOMAIN s \ {1} : s[k] \cap s[1] = {}
  BY <1>6 DEF IsStack, Disjoint
<1>9. Waiting(t) = Waiting(s) \ s[1]
  <2>1. ASSUME NEW p \in Waiting(t) PROVE p \in Waiting(s) /\ p \notin s[1]
    <3>1. PICK k \in DOMAIN t : p \in t[k]
      BY <2>1 DEF Waiting
    <3>2. PICK l : l = k + 1
      OBVIOUS
    <3>3. l \in DOMAIN s \ {1} /\ p \in s[l]
      BY <1>4, <3>1, <3>2
    <3> QED BY <1>8, <3>3 DEF Waiting
  <2>2. ASSUME NEW p \in Waiting(s), p \notin s[1] PROVE p \in Waiting(t)
    <3>1. PICK k \in DOMAIN s : p \in s[k]
      BY <2>2 DEF Waiting
    <3>2. PICK l : l = k - 1
      OBVIOUS
    <3>3. l \in DOMAIN t /\ p \in t[l]
      BY <1>5, <2>2, <3>1, <3>2
    <3> QED BY <3>3 DEF Waiting
  <2> QED BY <2>1, <2>2
<1>10. Disjoint(t)
  <2> SUFFICES ASSUME NEW k \in DOMAIN t, NEW l \in DOMAIN t, k # l PROVE t[k] \cap t[l] = {}
    BY DEF Disjoint
  <2>1. k + 1 # l + 1
    BY <1>3
  <2> QED BY <1>4, <2>1 DEF IsStack, Disjoint
<1>11. s[1] \subseteq Waiting(s)
  BY <1>6 DEF Waiting
<1> QED BY <1>2, <1>7, <1>9, <1>10, <1>11 DEF IsStack, t

LEMMA StackRest ==
    ASSUME NEW s, IsStack(s), s # <<>>, NEW e \in s[1]
    PROVE  /\ IsStack(<<s[1] \ {e}>> \o Tail(s)) /\ <<s[1] \ {e}>> \o Tail(s) # <<>>
           /\ Waiting(<<s[1] \ {e}>> \o Tail(s)) = Waiting(s) \ {e}
<1>1. /\ s[1] \in SUBSET Paths /\ s[1] \subseteq Waiting(s)
      /\ IsStack(Tail(s)) /\ Waiting(Tail(s)) = Waiting(s) \ s[1]
  BY StackTail
<1>2. PICK E, t : E = s[1] \ {e} /\ t = Tail(s)
  OBVIOUS
<1>3. E \in SUBSET Paths /\ IsStack(t) /\ E \cap Waiting(t) = {}
  BY <1>1, <1>2
<1>4. IsStack(<<E>> \o t) /\ Waiting(<<E>> \o t) = E \cup Waiting(t) /\ <<E>> \o t # <<>>
  BY <1>3, StackPush
<1>5. E \cup Waiting(t) = Waiting(s) \ {e}
  BY <1>1, <1>2
<1> QED BY <1>2, <1>4, <1>5

LEMMA EntryIs ==
    ASSUME IsStack(stack), stack # <<>>, Head(stack) # {}
    PROVE  Entry \in stack[1] /\ Entry \in Paths /\ Entry \in Waiting(stack)
<1> DEFINE places == {k \in DOMAIN PathOrder : PathOrder[k] \in Head(stack)}
<1>1. Head(stack) = stack[1] /\ stack[1] \subseteq Paths /\ stack[1] \subseteq Waiting(stack)
  BY StackTail
<1>2. DOMAIN PathOrder \subseteq Nat
  BY TreeAssumption, IsSeqType
<1>3. places # {} /\ places \subseteq Nat
  BY <1>1, <1>2 DEF Paths
<1>4. \E k \in places : \A l \in places : k <= l
  <2> HIDE DEF places
  <2> QED BY <1>3, LeastElement
<1>5. PICK k \in places : Entry = PathOrder[k]
  BY <1>4 DEF Entry
<1> QED BY <1>1, <1>5

-----------------------------------------------------------------------------
(***************************************************************************)
(* CrawlFileTree: every file that the crawl can get at is handled once.    *)
(***************************************************************************)
Handled == DOMAIN doc_table.name_to_id

Table(f) == ParseIntoWordPositionsTable(fs[f].text)

Texts == \A f \in Files : fs[f].status = "open" => fs[f].text \in Contents

\* No entry that waits lies in another one, all lie in open directories, and none of
\* them or of what lies in them has been handled.
TreeInv ==
    /\ IsStack(stack)
    /\ phase \in {"crawl", "add"} <=> stack # <<>>
    /\ \A p, q \in Waiting(stack) : p \notin Under[q]
    /\ \A q \in Waiting(stack) : \A d \in Under[q] : fs[d].status = "open"
    /\ \A f \in Handled : \A q \in Waiting(stack) : f # q /\ q \notin Under[f]

\* A file that can be reached has been handled, has no words, or lies in an entry that waits.
Covered(f) ==
    \/ f \in Handled
    \/ Table(f) = NoWords
    \/ \E q \in Waiting(stack) : q \in Under[f] \cup {f}

InUse == phase \notin {"start", "exit"}

CrawlInv ==
    /\ phase # "aborted"
    /\ Texts /\ TreeInv /\ Handled \subseteq Reached
    /\ IF InUse THEN \A f \in Reached : Covered(f) ELSE Handled = {}

LEMMA CrawlInvInit == Init => CrawlInv
<1> SUFFICES ASSUME Init PROVE CrawlInv
  OBVIOUS
<1>1. phase = "start" /\ stack = <<>> /\ Handled = {}
  BY DEF Init, Handled
<1>2. Waiting(stack) = {} /\ IsStack(stack)
  BY <1>1, EmptySeq DEF Waiting, IsStack, Disjoint
<1>3. Texts
  <2>1. PICK texts \in [Files -> Contents], closed \in SUBSET (Files \cup Dirs),
             vanished \in SUBSET (Files \ Dirs) :
          fs = [p \in Paths |->
                  IF p \in vanished THEN Node("gone", <<>>)
                  ELSE IF p \in closed \/ p \notin Files \cup Dirs THEN Node("closed", <<>>)
                  ELSE Node("open", IF p \in Files THEN texts[p] ELSE <<>>)]
    BY DEF Init
  <2> SUFFICES ASSUME NEW f \in Files, fs[f].status = "open" PROVE fs[f].text \in Contents
    BY DEF Texts
  <2>2. f \in Paths
    BY TreeAssumption
  <2>3. fs[f] = Node("open", texts[f])
    <3>1. Node("gone", <<>>).status # "open" /\ Node("closed", <<>>).status # "open"
      BY DEF Node
    <3>2. \/ fs[f] = Node("gone", <<>>)
          \/ fs[f] = Node("closed", <<>>)
          \/ fs[f] = Node("open", texts[f])
      BY <2>1, <2>2
    <3> QED BY <3>1, <3>2
  <2> QED BY <2>3 DEF Node
<1> QED BY <1>1, <1>2, <1>3 DEF CrawlInv, TreeInv, InUse

LEMMA UnderIs ==
    ASSUME NEW p \in Paths
    PROVE  /\ Under[p] \subseteq Dirs /\ Under[p] \subseteq Paths /\ p \notin Under[p]
           /\ \A d \in Under[p] : /\ Under[d] \subseteq Under[p]
                                  /\ \E c \in Under[p] \cup {p} : Under[c] = Under[d] \cup {d}
<1>1. Under[p] \in SUBSET Dirs /\ Dirs \subseteq Paths
  BY TreeAssumption
<1> QED BY <1>1, TreeAssumption

LEMMA ReachedIs ==
    ASSUME NEW f \in Reached
    PROVE  /\ f \in Files /\ f \in Paths /\ f \notin Dirs /\ fs[f].status = "open"
           /\ \A d \in Under[f] : fs[d].status = "open"
           /\ Indexable(fs[f].text)
BY TreeAssumption DEF Reached

\* The entries of a directory cover what the directory covered.
LEMMA EntriesCover ==
    ASSUME NEW f \in Reached, NEW d \in Under[f]
    PROVE  \E q \in Entries(d) : q \in Under[f] \cup {f}
<1>1. f \in Paths /\ fs[f].status = "open" /\ \A e \in Under[f] : fs[e].status = "open"
  BY ReachedIs
<1>2. PICK c \in Under[f] \cup {f} : Under[c] = Under[d] \cup {d}
  BY <1>1, UnderIs
<1>3. c \in Paths /\ fs[c].status # "gone"
  BY <1>1, <1>2, UnderIs
<1> QED BY <1>2, <1>3 DEF Entries

LEMMA CrawlStart ==
    ASSUME CrawlInv, CrawlFileTree
    PROVE  CrawlInv'
<1>0. /\ phase = "start" /\ stack = <<>> /\ Waiting(stack) = {} /\ IsStack(stack)
      /\ Texts /\ Handled = {} /\ phase' # "aborted"
      /\ UNCHANGED <<fs, doc_table>>
  BY DEF CrawlInv, TreeInv, InUse, CrawlFileTree, Waiting
<1>1. Texts' /\ Handled' = Handled /\ Reached' = Reached /\ \A f : Table(f)' = Table(f)
  BY <1>0 DEF Texts, Handled, Reached, Table
<1>2. CASE fs[Root].status = "open"
  <2>1. phase' = "crawl" /\ stack' = <<Entries(Root)>>
    BY <1>2 DEF CrawlFileTree
  <2>2. Entries(Root) \in SUBSET Paths
    BY DEF Entries
  <2>3. IsStack(<<Entries(Root)>> \o <<>>) /\ <<Entries(Root)>> \o <<>> # <<>>
        /\ Waiting(<<Entries(Root)>> \o <<>>) = Entries(Root)
    <3>1. PICK E, s : E = Entries(Root) /\ s = stack
      OBVIOUS
    <3>2. IsStack(<<E>> \o s) /\ Waiting(<<E>> \o s) = E \cup Waiting(s) /\ <<E>> \o s # <<>>
      BY <1>0, <2>2, <3>1, StackPush
    <3> QED BY <1>0, <3>1, <3>2
  <2>4. <<Entries(Root)>> \o <<>> = <<Entries(Root)>>
    OBVIOUS
  <2>5. IsStack(stack') /\ stack' # <<>> /\ Waiting(stack') = Entries(Root)
    BY <2>1, <2>3, <2>4
  <2>6. \A p \in Entries(Root) : p \in Paths /\ Under[p] = {Root}
    BY TreeAssumption DEF Entries
  <2>7. ASSUME NEW p \in Entries(Root), NEW q \in Entries(Root) PROVE p \notin Under[q]
    BY <2>6, UnderIs
  <2>8. ASSUME NEW f \in Handled, NEW q \in Entries(Root) PROVE FALSE
    BY <1>0, <2>8
  <2>9. ASSUME NEW f \in Reached PROVE \E q \in Entries(Root) : q \in Under[f] \cup {f}
    <3>1. f \in Paths /\ f # Root
      BY ReachedIs, TreeAssumption
    <3>2. Root \in Under[f]
      BY <3>1, TreeAssumption
    <3> QED BY <3>2, EntriesCover
  <2> QED BY <1>0, <1>1, <1>2, <2>1, <2>5, <2>6, <2>7, <2>8, <2>9
      DEF CrawlInv, TreeInv, Covered
<1>3. CASE fs[Root].status # "open"
  <2>1. phase' = "exit" /\ stack' = stack
    BY <1>3 DEF CrawlFileTree
  <2> QED BY <1>0, <1>1, <2>1 DEF CrawlInv, TreeInv, InUse
<1> QED BY <1>2, <1>3

LEMMA CrawlUnchanged ==
    ASSUME UNCHANGED fs
    PROVE  Texts' = Texts /\ Reached' = Reached /\ \A f : Table(f)' = Table(f)
BY DEF Texts, Reached, Table

\* What the steps on an entry rest on.
LEMMA EntryStep ==
    ASSUME CrawlInv, HasEntry
    PROVE  /\ phase = "crawl" /\ Entry \in Waiting(stack) /\ Entry \in Paths
           /\ IsStack(Rest) /\ Rest # <<>> /\ Waiting(Rest) = Waiting(stack) \ {Entry}
<1>1. IsStack(stack) /\ stack # <<>> /\ Head(stack) # {} /\ phase = "crawl"
  BY DEF CrawlInv, TreeInv, HasEntry
<1>2. Entry \in stack[1] /\ Entry \in Paths /\ Entry \in Waiting(stack)
  BY <1>1, EntryIs
<1>3. Rest = <<stack[1] \ {Entry}>> \o Tail(stack)
  BY <1>1, StackTail DEF Rest
<1>4. PICK e : e = Entry
  OBVIOUS
<1>5. /\ IsStack(<<stack[1] \ {e}>> \o Tail(stack)) /\ <<stack[1] \ {e}>> \o Tail(stack) # <<>>
      /\ Waiting(<<stack[1] \ {e}>> \o Tail(stack)) = Waiting(stack) \ {e}
  BY <1>1, <1>2, <1>4, StackRest
<1> QED BY <1>1, <1>2, <1>3, <1>4, <1>5

LEMMA CrawlEnterDir ==
    ASSUME CrawlInv, EnterDir
    PROVE  CrawlInv'
<1>1. PICK e : e = Entry
  OBVIOUS
<1>2. /\ phase = "crawl" /\ e \in Waiting(stack) /\ e \in Paths
      /\ IsStack(Rest) /\ Rest # <<>> /\ Waiting(Rest) = Waiting(stack) \ {e}
      /\ e \in Dirs /\ fs[e].status = "open"
      /\ stack' = <<Entries(e)>> \o Rest
      /\ UNCHANGED <<fs, phase, doc_table>>
  BY <1>1, EntryStep DEF EnterDir
<1>3. /\ Texts' /\ Handled' = Handled /\ Reached' = Reached /\ \A f : Table(f)' = Table(f)
  BY <1>2, CrawlUnchanged DEF CrawlInv, Handled
<1>4. /\ \A p, q \in Waiting(stack) : p \notin Under[q] /\ q \in Paths
      /\ \A q \in Waiting(stack) : \A d \in Under[q] : fs[d].status = "open"
      /\ \A f \in Handled : \A q \in Waiting(stack) : f # q /\ q \notin Under[f]
      /\ Handled \subseteq Reached /\ \A f \in Reached : Covered(f)
  <2>1. \A q \in Waiting(stack) : q \in Paths
    BY LenProperties DEF CrawlInv, TreeInv, IsStack, Waiting
  <2> QED BY <1>2, <2>1 DEF CrawlInv, TreeInv, InUse
<1>5. \A p \in Entries(e) : p \in Paths /\ Under[p] = Under[e] \cup {e} /\ p \notin Under[p]
  BY UnderIs DEF Entries
<1>6. Entries(e) \cap Waiting(Rest) = {} /\ Entries(e) \in SUBSET Paths
  BY <1>2, <1>4, <1>5
<1>7. /\ IsStack(stack') /\ stack' # <<>>
      /\ Waiting(stack') = Entries(e) \cup (Waiting(stack) \ {e})
  <2>1. PICK E, s : E = Entries(e) /\ s = Rest
    OBVIOUS
  <2>2. IsStack(<<E>> \o s) /\ Waiting(<<E>> \o s) = E \cup Waiting(s) /\ <<E>> \o s # <<>>
    BY <1>2, <1>6, <2>1, StackPush
  <2> QED BY <1>2, <2>1, <2>2
<1>8. ASSUME NEW p \in Waiting(stack'), NEW q \in Waiting(stack') PROVE p \notin Under[q]
  <2>1. CASE p \in Entries(e) /\ q \in Entries(e)
    BY <1>5, <2>1
  <2>2. CASE p \in Entries(e) /\ q \in Waiting(stack) \ {e}
    <3> SUFFICES ASSUME p \in Under[q] PROVE FALSE
      OBVIOUS
    <3>1. e \in Under[q]
      BY <1>4, <1>5, <2>2, UnderIs
    <3> QED BY <1>2, <1>4, <2>2, <3>1
  <2>3. CASE p \in Waiting(stack) \ {e} /\ q \in Entries(e)
    BY <1>2, <1>4, <1>5, <2>3
  <2>4. CASE p \in Waiting(stack) \ {e} /\ q \in Waiting(stack) \ {e}
    BY <1>4, <2>4
  <2> QED BY <1>7, <2>1, <2>2, <2>3, <2>4
<1>9. \A q \in Waiting(stack') : \A d \in Under[q] : fs[d].status = "open"
  BY <1>2, <1>4, <1>5, <1>7
<1>10. ASSUME NEW f \in Handled, NEW q \in Waiting(stack') PROVE f # q /\ q \notin Under[f]
  <2>1. CASE q \in Waiting(stack)
    BY <1>4, <2>1
  <2>2. CASE q \in Entries(e)
    <3>1. f \in Paths /\ e \notin Under[f]
      BY <1>2, <1>4, ReachedIs
    <3>2. f # q
      BY <1>5, <2>2, <3>1
    <3>3. q \in Under[f] => Under[q] \subseteq Under[f]
      BY <3>1, UnderIs
    <3> QED BY <1>5, <2>2, <3>1, <3>2, <3>3
  <2> QED BY <1>7, <2>1, <2>2
<1>11. ASSUME NEW f \in Reached, f \notin Handled, Table(f) # NoWords
       PROVE  \E q \in Waiting(stack') : q \in Under[f] \cup {f}
  <2>1. PICK q \in Waiting(stack) : q \in Under[f] \cup {f}
    BY <1>4, <1>11 DEF Covered
  <2>2. CASE q # e
    BY <1>7, <2>1, <2>2
  <2>3. CASE q = e
    <3>1. e \in Under[f]
      BY <1>2, <2>1, <2>3, ReachedIs
    <3> QED BY <1>7, <3>1, EntriesCover
  <2> QED BY <2>2, <2>3
<1>12. phase' = "crawl"
  BY <1>2
<1>13. TreeInv'
  BY <1>2, <1>3, <1>7, <1>8, <1>9, <1>10, <1>12 DEF TreeInv
<1>14. \A f \in Reached : Covered(f)'
  BY <1>3, <1>11 DEF Covered
<1> QED BY <1>3, <1>4, <1>12, <1>13, <1>14 DEF CrawlInv, InUse

LEMMA CrawlSkipEntry ==
    ASSUME CrawlInv, SkipEntry
    PROVE  CrawlInv'
<1>1. PICK e : e = Entry
  OBVIOUS
<1>2. /\ phase = "crawl" /\ e \in Waiting(stack) /\ e \in Paths
      /\ IsStack(stack') /\ stack' # <<>> /\ Waiting(stack') = Waiting(stack) \ {e}
      /\ \/ e \notin Files /\ fs[e].status # "open"
         \/ e \notin Dirs /\ ParseIntoWordPositionsTable(ReadFileToString(e)) = NoWords
      /\ UNCHANGED <<fs, phase, doc_table>>
  BY <1>1, EntryStep DEF SkipEntry
<1>3. /\ Texts' /\ Handled' = Handled /\ Reached' = Reached /\ \A f : Table(f)' = Table(f)
  BY <1>2, CrawlUnchanged DEF CrawlInv, Handled
<1>4. Handled \subseteq Reached /\ \A f \in Reached : Covered(f)
  BY <1>2 DEF CrawlInv, InUse
<1>5. ASSUME NEW f \in Reached, f \notin Handled, Table(f) # NoWords
      PROVE  \E q \in Waiting(stack') : q \in Under[f] \cup {f}
  <2>1. PICK q \in Waiting(stack) : q \in Under[f] \cup {f}
    BY <1>4, <1>5 DEF Covered
  <2>2. CASE q # e
    BY <1>2, <2>1, <2>2
  <2>3. CASE q = e /\ e \in Under[f]
    <3>1. fs[e].status = "open" /\ e \in Dirs
      BY <2>3, ReachedIs, UnderIs
    <3> QED BY <1>2, <3>1
  <2>4. CASE q = e /\ e = f
    <3>1. f \in Files /\ fs[f].status = "open"
      BY ReachedIs
    <3>2. ReadFileToString(e) = fs[f].text
      BY <2>4, <3>1 DEF ReadFileToString
    <3> QED BY <1>2, <1>5, <2>4, <3>1, <3>2 DEF Table
  <2> QED BY <2>1, <2>2, <2>3, <2>4
<1>6. TreeInv'
  BY <1>2, <1>3 DEF CrawlInv, TreeInv
<1>7. \A f \in Reached : Covered(f)'
  BY <1>3, <1>5 DEF Covered
<1> QED BY <1>2, <1>3, <1>4, <1>6, <1>7 DEF CrawlInv, InUse

\* The file handled is new to the document table and can be reached.
LEMMA HandledFile ==
    ASSUME CrawlInv, HandleFile
    PROVE  /\ Entry \in Reached \ Handled
           /\ tab' = Table(Entry)
           /\ doc_table' = [max_id |-> doc_table.max_id + 1,
                 id_to_name |-> HashTable_Insert(doc_table.id_to_name, doc_table.max_id, Entry),
                 name_to_id |-> HashTable_Insert(doc_table.name_to_id, Entry, doc_table.max_id)]
           /\ doc_id' = doc_table.max_id
           /\ Handled' = Handled \cup {Entry}
<1>1. PICK e : e = Entry
  OBVIOUS
<1>2. /\ e \in Files /\ e \in Waiting(stack)
      /\ tab' = ParseIntoWordPositionsTable(ReadFileToString(e))
      /\ tab' # NoWords
      /\ doc_table' = DocTable_Add(doc_table, e)
      /\ doc_id' = DocTable_GetDocID(doc_table', e)
  BY <1>1, EntryStep DEF HandleFile
<1>3. e \notin Handled /\ \A d \in Under[e] : fs[d].status = "open"
  BY <1>2 DEF CrawlInv, TreeInv
<1>4. fs[e].status = "open"
  <2> SUFFICES ASSUME fs[e].status # "open" PROVE FALSE
    OBVIOUS
  <2>1. ReadFileToString(e) = Null
    BY DEF ReadFileToString
  <2> QED BY <1>2, <2>1 DEF ParseIntoWordPositionsTable
<1>5. tab' = Table(e)
  BY <1>2, <1>4 DEF ReadFileToString, Table
<1>6. IsSeq(fs[e].text) /\ fs[e].text # Null
  BY <1>2, <1>4, DataAssumption DEF CrawlInv, Texts
<1>7. Indexable(fs[e].text)
  <2>1. PICK c : c = fs[e].text
    OBVIOUS
  <2>2. ParseIntoWordPositionsTable(c) # NoWords
    BY <1>2, <1>5, <2>1 DEF Table
  <2> QED BY <1>6, <2>1, <2>2, ParsedTable
<1>8. doc_table' = [max_id |-> doc_table.max_id + 1,
         id_to_name |-> HashTable_Insert(doc_table.id_to_name, doc_table.max_id, e),
         name_to_id |-> HashTable_Insert(doc_table.name_to_id, e, doc_table.max_id)]
  BY <1>2, <1>3 DEF DocTable_Add, DocTable_GetDocID, Handled
<1>9. Handled' = Handled \cup {e} /\ doc_id' = doc_table.max_id
  <2>1. doc_table'.name_to_id = HashTable_Insert(doc_table.name_to_id, e, doc_table.max_id)
    BY <1>8
  <2>2. /\ DOMAIN doc_table'.name_to_id = DOMAIN doc_table.name_to_id \cup {e}
        /\ doc_table'.name_to_id[e] = doc_table.max_id
    BY <2>1 DEF HashTable_Insert
  <2> QED BY <1>2, <2>2 DEF DocTable_GetDocID, Handled
<1>10. e \in Reached
  BY <1>2, <1>3, <1>4, <1>7 DEF Reached
<1> QED BY <1>1, <1>3, <1>5, <1>8, <1>9, <1>10

LEMMA CrawlHandleFile ==
    ASSUME CrawlInv, HandleFile
    PROVE  CrawlInv'
<1>1. PICK e : e = Entry
  OBVIOUS
<1>2. /\ phase = "crawl" /\ phase' = "add" /\ e \in Waiting(stack)
      /\ IsStack(stack') /\ stack' # <<>> /\ Waiting(stack') = Waiting(stack) \ {e}
      /\ UNCHANGED fs
  BY <1>1, EntryStep DEF HandleFile
<1>3. e \in Reached \ Handled /\ Handled' = Handled \cup {e}
  BY <1>1, HandledFile
<1>4. /\ Texts' /\ Reached' = Reached /\ \A f : Table(f)' = Table(f)
  BY <1>2, CrawlUnchanged DEF CrawlInv
<1>5. Handled \subseteq Reached /\ \A f \in Reached : Covered(f)
  BY <1>2 DEF CrawlInv, InUse
<1>6. ASSUME NEW f \in Reached PROVE Covered(f)'
  <2>1. CASE \E q \in Waiting(stack) : q \in Under[f] \cup {f}
    <3>1. PICK q \in Waiting(stack) : q \in Under[f] \cup {f}
      BY <2>1
    <3>2. CASE q # e
      BY <1>2, <3>1, <3>2 DEF Covered
    <3>3. CASE q = e
      <4>1. e \notin Dirs /\ Under[f] \subseteq Dirs
        BY <1>3, ReachedIs, UnderIs
      <4> QED BY <1>3, <3>1, <3>3, <4>1 DEF Covered
    <3> QED BY <3>2, <3>3
  <2> QED BY <1>3, <1>4, <1>5, <2>1 DEF Covered
<1>7. ASSUME NEW f \in Handled', NEW q \in Waiting(stack') PROVE f # q /\ q \notin Under[f]
  BY <1>2, <1>3, <1>7 DEF CrawlInv, TreeInv
<1>8. TreeInv'
  BY <1>2, <1>7 DEF CrawlInv, TreeInv
<1> QED BY <1>2, <1>3, <1>4, <1>5, <1>6, <1>8 DEF CrawlInv, InUse

LEMMA CrawlLeaveDir ==
    ASSUME CrawlInv, LeaveDir
    PROVE  CrawlInv'
<1>1. /\ phase = "crawl" /\ IsStack(stack) /\ stack # <<>> /\ Head(stack) = {}
      /\ stack' = Tail(stack) /\ phase' = IF stack' = <<>> THEN "ready" ELSE "crawl"
      /\ UNCHANGED <<fs, doc_table>>
  BY DEF CrawlInv, TreeInv, LeaveDir
<1>2. IsStack(stack') /\ Waiting(stack') = Waiting(stack)
  <2>1. /\ Head(stack) = stack[1] /\ IsStack(Tail(stack))
        /\ Waiting(Tail(stack)) = Waiting(stack) \ stack[1]
    BY <1>1, StackTail
  <2>2. stack[1] = {}
    BY <1>1, <2>1
  <2>3. Waiting(stack) \ stack[1] = Waiting(stack)
    BY <2>2
  <2> QED BY <1>1, <2>1, <2>3
<1>3. /\ Texts' /\ Handled' = Handled /\ Reached' = Reached /\ \A f : Table(f)' = Table(f)
  BY <1>1, CrawlUnchanged DEF CrawlInv, Handled
<1>4. TreeInv'
  BY <1>1, <1>2, <1>3 DEF CrawlInv, TreeInv
<1>5. \A f \in Reached : Covered(f)'
  BY <1>1, <1>2, <1>3 DEF CrawlInv, InUse, Covered
<1> QED BY <1>1, <1>3, <1>4, <1>5 DEF CrawlInv, InUse

LEMMA CrawlAdd ==
    ASSUME CrawlInv, AddPostingList \/ FileAdded, phase' # "aborted"
    PROVE  CrawlInv'
<1>1. /\ phase = "add" /\ phase' \in {"add", "crawl"}
      /\ UNCHANGED <<fs, stack, doc_table>>
  BY DEF AddPostingList, FileAdded, crawl_vars
<1>2. /\ Texts' /\ Handled' = Handled /\ Reached' = Reached /\ \A f : Table(f)' = Table(f)
  BY <1>1, CrawlUnchanged DEF CrawlInv, Handled
<1>3. TreeInv'
  BY <1>1, <1>2 DEF CrawlInv, TreeInv
<1>4. \A f \in Reached : Covered(f)'
  BY <1>1, <1>2 DEF CrawlInv, InUse, Covered
<1> QED BY <1>1, <1>2, <1>3, <1>4 DEF CrawlInv, InUse

LEMMA CrawlQuiet ==
    ASSUME CrawlInv, UNCHANGED <<fs, stack, doc_table>>,
           phase' = phase \/ (Finished /\ Finished')
    PROVE  CrawlInv'
<1>1. Handled' = Handled /\ Texts' /\ Reached' = Reached /\ \A f : Table(f)' = Table(f)
  BY CrawlUnchanged DEF CrawlInv, Handled
<1>2. /\ phase' # "aborted"
      /\ phase' \in {"crawl", "add"} <=> phase \in {"crawl", "add"}
      /\ InUse' <=> InUse
  BY DEF CrawlInv, InUse, Finished
<1>3. TreeInv'
  BY <1>1, <1>2 DEF CrawlInv, TreeInv
<1>4. InUse => \A f \in Reached : Covered(f)'
  BY <1>1 DEF CrawlInv, Covered
<1>5. Handled \subseteq Reached /\ (~InUse => Handled = {})
  BY DEF CrawlInv
<1>6. Handled' \subseteq Reached' /\ (~InUse' => Handled' = {})
  BY <1>1, <1>2, <1>5
<1>7. InUse' => \A f \in Reached' : Covered(f)'
  BY <1>1, <1>2, <1>4
<1> QED BY <1>1, <1>2, <1>3, <1>6, <1>7 DEF CrawlInv

LEMMA CrawlEnd ==
    ASSUME CrawlInv, EndOfInput
    PROVE  CrawlInv'
<1>1. /\ phase \in {"ready", "answered"} /\ phase' = "exit" /\ UNCHANGED <<fs, stack>>
      /\ doc_table'.name_to_id = [p \in {} |-> 0]
  BY DEF EndOfInput
<1>2. Handled' = {} /\ Texts' /\ Reached' = Reached
  BY <1>1, CrawlUnchanged DEF CrawlInv, Handled
<1>3. TreeInv'
  BY <1>1, <1>2 DEF CrawlInv, TreeInv
<1> QED BY <1>1, <1>2, <1>3 DEF CrawlInv, InUse

-----------------------------------------------------------------------------
(***************************************************************************)
(* DocTable and MemIndex: documents are numbered one to one, and the index *)
(* inverts the tables of the files handled so far.                         *)
(***************************************************************************)
NumberOf(f) == doc_table.name_to_id[f]
NameOf(d)   == doc_table.id_to_name[d]
Numbers     == 1..(doc_table.max_id - 1)

Numbering ==
    /\ doc_table.max_id \in 1..(Cardinality(Files) + 1)
    /\ InUse \/ phase = "start" => doc_table.max_id = Cardinality(Handled) + 1
    /\ InUse \/ phase = "start" => DOMAIN doc_table.id_to_name = Numbers
    /\ phase = "exit" => DOMAIN doc_table.id_to_name \subseteq Numbers
    /\ \A f \in Handled : NumberOf(f) \in Numbers /\ NameOf(NumberOf(f)) = f
    /\ \A d \in DOMAIN doc_table.id_to_name : NameOf(d) \in Handled /\ NumberOf(NameOf(d)) = d

\* The positions of w in f are still in the table that HandleFile empties.
InTable(f, w) == phase = "add" /\ NumberOf(f) = doc_id /\ w \in DOMAIN tab

Inverted(f, w) ==
    IF InTable(f, w) THEN NumberOf(f) \notin DOMAIN Postings(w)
    ELSE /\ NumberOf(f) \in DOMAIN Postings(w) <=> w \in DOMAIN Table(f)
         /\ w \in DOMAIN Table(f) => Postings(w)[NumberOf(f)] = Table(f)[w]

Adding ==
    \E f \in Handled : /\ doc_id = NumberOf(f)
                       /\ DOMAIN tab \subseteq DOMAIN Table(f)
                       /\ \A w \in DOMAIN tab : tab[w] = Table(f)[w]

IndexInv ==
    /\ phase = "add" => Adding
    /\ ~InUse => DOMAIN index = {}
    /\ \A w \in DOMAIN index : DOMAIN index[w] # {} /\ DOMAIN index[w] \subseteq Numbers
    /\ \A f \in Handled : \A w : Inverted(f, w)

LEMMA FilesFinite ==
    /\ IsFiniteSet(Files) /\ IsFiniteSet(Paths)
    /\ Cardinality(Files) \in Nat
    /\ \A T \in SUBSET Files : IsFiniteSet(T) /\ Cardinality(T) <= Cardinality(Files)
                               /\ Cardinality(T) \in Nat
<1>1. PICK n \in Nat : DOMAIN PathOrder = 1..n
  BY TreeAssumption, IsSeqType
<1>2. IsFiniteSet(Paths)
  <2>1. IsFiniteSet(1..n)
    BY FS_Interval
  <2>2. PathOrder = [k \in 1..n |-> PathOrder[k]]
    BY <1>1, TreeAssumption, IsSeqType
  <2>3. PathOrder \in Surjection(1..n, Paths)
    BY <1>1, <2>2 DEF Surjection, Paths
  <2> QED BY <2>1, <2>3, FS_Surjection
<1>3. IsFiniteSet(Files)
  BY <1>2, TreeAssumption, FS_Subset
<1> QED BY <1>2, <1>3, FS_Subset, FS_CardinalityType

LEMMA NumberingInit == Init => Numbering /\ IndexInv
<1> SUFFICES ASSUME Init PROVE Numbering /\ IndexInv
  OBVIOUS
<1>1. /\ phase = "start" /\ Handled = {} /\ doc_table.max_id = 1
      /\ DOMAIN doc_table.id_to_name = {} /\ DOMAIN index = {}
  BY DEF Init, Handled, NoWords
<1>2. Numbers = {}
  BY <1>1 DEF Numbers
<1>3. Cardinality(Handled) = 0 /\ Cardinality(Files) \in Nat
  BY <1>1, FS_EmptySet, FilesFinite
<1> QED BY <1>1, <1>2, <1>3 DEF Numbering, IndexInv, InUse

LEMMA IndexUnchanged ==
    ASSUME Numbering, IndexInv, Handled' = Handled,
           UNCHANGED <<fs, doc_table, doc_id, tab, index>>,
           phase' = "add" <=> phase = "add",
           phase' # "exit" => phase # "exit", InUse => InUse'
    PROVE  Numbering' /\ IndexInv'
<1>1. /\ InUse \/ phase = "start" <=> phase # "exit"
      /\ InUse' \/ phase' = "start" <=> phase' # "exit"
  BY DEF InUse
<1>2. /\ Numbers' = Numbers
      /\ \A f : NumberOf(f)' = NumberOf(f) /\ NameOf(f)' = NameOf(f) /\ Table(f)' = Table(f)
      /\ \A w : Postings(w)' = Postings(w)
  BY DEF Numbers, NumberOf, NameOf, Table, Postings
<1>3. Numbering'
  <2>1. Cardinality(Handled') = Cardinality(Handled)
    OBVIOUS
  <2> QED BY <1>1, <1>2, <2>1 DEF Numbering
<1>4. \A f, w : InTable(f, w)' <=> InTable(f, w)
  BY <1>2 DEF InTable
<1>5. \A f, w : Inverted(f, w)' <=> Inverted(f, w)
  BY <1>2, <1>4 DEF Inverted
<1>6. Adding => Adding'
  BY <1>2 DEF Adding
<1> QED BY <1>1, <1>2, <1>3, <1>5, <1>6 DEF IndexInv

LEMMA IndexHandleFile ==
    ASSUME CrawlInv, Numbering, IndexInv, HandleFile
    PROVE  Numbering' /\ IndexInv'
<1>1. PICK e, n : e = Entry /\ n = doc_table.max_id
  OBVIOUS
<1>2. /\ phase = "crawl" /\ phase' = "add" /\ UNCHANGED <<fs, index>>
      /\ InUse /\ InUse'
  BY DEF HandleFile, HasEntry, InUse
<1>3. /\ e \in Reached \ Handled /\ tab' = Table(e) /\ doc_id' = n
      /\ doc_table' = [max_id |-> n + 1,
            id_to_name |-> HashTable_Insert(doc_table.id_to_name, n, e),
            name_to_id |-> HashTable_Insert(doc_table.name_to_id, e, n)]
      /\ Handled' = Handled \cup {e}
  BY <1>1, HandledFile
<1>4. /\ n \in Nat \ {0} /\ n = Cardinality(Handled) + 1 /\ Numbers = 1..(n - 1)
      /\ DOMAIN doc_table.id_to_name = Numbers
      /\ \A f \in Handled : NumberOf(f) \in Numbers /\ NameOf(NumberOf(f)) = f
      /\ \A d \in Numbers : NameOf(d) \in Handled /\ NumberOf(NameOf(d)) = d
  BY <1>1, <1>2, FilesFinite DEF Numbering, Numbers
<1>5. /\ doc_table'.max_id = n + 1
      /\ DOMAIN doc_table'.id_to_name = Numbers \cup {n}
      /\ doc_table'.id_to_name[n] = e
      /\ \A d \in Numbers \ {n} : doc_table'.id_to_name[d] = doc_table.id_to_name[d]
      /\ doc_table'.name_to_id[e] = n
      /\ \A f \in Handled \ {e} : doc_table'.name_to_id[f] = doc_table.name_to_id[f]
  <2>1. PICK names, ids : names = doc_table.id_to_name /\ ids = doc_table.name_to_id
    OBVIOUS
  <2>2. /\ doc_table'.max_id = n + 1
        /\ doc_table'.id_to_name = HashTable_Insert(names, n, e)
        /\ doc_table'.name_to_id = HashTable_Insert(ids, e, n)
    BY <1>3, <2>1
  <2>3. /\ DOMAIN HashTable_Insert(names, n, e) = DOMAIN names \cup {n}
        /\ HashTable_Insert(names, n, e)[n] = e
        /\ \A d \in DOMAIN names \ {n} : HashTable_Insert(names, n, e)[d] = names[d]
    BY DEF HashTable_Insert
  <2>4. /\ HashTable_Insert(ids, e, n)[e] = n
        /\ \A f \in DOMAIN ids \ {e} : HashTable_Insert(ids, e, n)[f] = ids[f]
    BY DEF HashTable_Insert
  <2> QED BY <1>4, <2>1, <2>2, <2>3, <2>4 DEF Handled
<1>6. n \notin Numbers /\ Numbers \cup {n} = 1..n
  BY <1>4
<1>7. /\ \A f \in Handled : NumberOf(f)' = NumberOf(f) /\ f # e /\ NumberOf(f) # n
      /\ \A d \in Numbers : NameOf(d)' = NameOf(d)
      /\ NumberOf(e)' = n
  <2>1. \A f \in Handled : NumberOf(f)' = NumberOf(f)
    BY <1>3, <1>5 DEF NumberOf
  <2>2. \A d \in Numbers : NameOf(d)' = NameOf(d)
    BY <1>5, <1>6 DEF NameOf
  <2>3. NumberOf(e)' = n
    <3>1. \A x : NumberOf(x)' = doc_table'.name_to_id[x]
      BY DEF NumberOf
    <3> QED BY <1>5, <3>1
  <2> QED BY <1>3, <1>4, <1>6, <2>1, <2>2, <2>3
<1>8. Numbers' = 1..n
  BY <1>4, <1>5 DEF Numbers
<1>9. NameOf(n)' = e
  <2>1. \A x : NameOf(x)' = doc_table'.id_to_name[x]
    BY DEF NameOf
  <2> QED BY <1>5, <2>1
<1>10. Handled \subseteq Files /\ Handled \cup {e} \subseteq Files
  BY <1>3, ReachedIs DEF CrawlInv
<1>11. Cardinality(Handled \cup {e}) = n /\ n <= Cardinality(Files) /\ Cardinality(Files) \in Nat
  <2>1. IsFiniteSet(Handled)
    BY <1>10, FilesFinite
  <2>2. Cardinality(Handled \cup {e}) = Cardinality(Handled) + 1
    BY <1>3, <2>1, FS_AddElement
  <2>3. Cardinality(Handled \cup {e}) <= Cardinality(Files) /\ Cardinality(Files) \in Nat
    BY <1>10, FilesFinite
  <2> QED BY <1>4, <2>2, <2>3
<1>12. Numbering'
  <2>1. doc_table'.max_id \in 1..(Cardinality(Files) + 1) /\ doc_table'.max_id = Cardinality(Handled') + 1
    BY <1>3, <1>4, <1>5, <1>11
  <2>2. DOMAIN doc_table'.id_to_name = Numbers'
    BY <1>5, <1>6, <1>8
  <2>3. ASSUME NEW f \in Handled' PROVE NumberOf(f)' \in Numbers' /\ NameOf(NumberOf(f))' = f
    <3>1. CASE f = e
      <4>1. NumberOf(f)' = n /\ \A x : NameOf(x)' = doc_table'.id_to_name[x]
        BY <1>7, <3>1 DEF NameOf
      <4>2. NameOf(NumberOf(f))' = doc_table'.id_to_name[NumberOf(f)']
        BY DEF NameOf
      <4>3. n \in Numbers'
        BY <1>4, <1>8
      <4> QED BY <1>5, <3>1, <4>1, <4>2, <4>3
    <3>2. CASE f \in Handled
      <4>1. PICK d \in Numbers : d = NumberOf(f)
        BY <1>4, <3>2
      <4>2. NumberOf(f)' = d /\ NameOf(d) = f
        BY <1>4, <1>7, <3>2, <4>1
      <4>3. NameOf(NumberOf(f))' = doc_table'.id_to_name[NumberOf(f)']
        BY DEF NameOf
      <4>4. doc_table'.id_to_name[d] = f
        BY <1>5, <1>6, <4>2 DEF NameOf
      <4> QED BY <1>6, <1>8, <4>2, <4>3, <4>4
    <3> QED BY <1>3, <3>1, <3>2
  <2>4. ASSUME NEW d \in Numbers' PROVE NameOf(d)' \in Handled' /\ NumberOf(NameOf(d))' = d
    <3>0. NumberOf(NameOf(d))' = doc_table'.name_to_id[NameOf(d)']
      BY DEF NumberOf
    <3>1. CASE d = n
      BY <1>3, <1>5, <1>9, <3>0, <3>1
    <3>2. CASE d \in Numbers
      <4>1. PICK f \in Handled : f = NameOf(d) /\ NumberOf(f) = d
        BY <1>4, <3>2
      <4>2. NameOf(d)' = f
        BY <1>7, <3>2, <4>1
      <4>3. doc_table'.name_to_id[f] = d
        BY <1>3, <1>5, <4>1 DEF NumberOf
      <4> QED BY <1>3, <3>0, <4>2, <4>3
    <3> QED BY <1>6, <1>8, <3>1, <3>2
  <2>5. phase' # "exit"
    BY <1>2
  <2>6. \A d \in DOMAIN doc_table'.id_to_name : d \in Numbers'
    BY <2>2
  <2> QED BY <2>1, <2>2, <2>3, <2>4, <2>5, <2>6 DEF Numbering
<1>13. \A w \in DOMAIN index : DOMAIN index[w] # {} /\ DOMAIN index[w] \subseteq Numbers'
  BY <1>6, <1>8 DEF IndexInv
<1>14. /\ \A f : Table(f)' = Table(f)
       /\ \A w : Postings(w)' = Postings(w) /\ DOMAIN Postings(w) \subseteq Numbers
  BY <1>2 DEF Table, Postings, IndexInv, NoWords
<1>15. Adding'
  <2>1. doc_id' = NumberOf(e)' /\ tab' = Table(e)'
    BY <1>3, <1>7, <1>14
  <2> QED BY <1>3, <1>14, <2>1 DEF Adding
<1>16. ASSUME NEW f \in Handled', NEW w PROVE Inverted(f, w)'
  <2>1. CASE f = e
    <3>1. NumberOf(f)' = n /\ NumberOf(f)' \notin DOMAIN Postings(w)'
      BY <1>6, <1>7, <1>14, <2>1
    <3>2. w \in DOMAIN Table(f)' => InTable(f, w)'
      BY <1>2, <1>3, <1>14, <2>1, <3>1 DEF InTable
    <3> QED BY <3>1, <3>2 DEF Inverted
  <2>2. CASE f \in Handled
    <3>1. NumberOf(f)' = NumberOf(f) /\ ~InTable(f, w) /\ ~InTable(f, w)'
      BY <1>2, <1>3, <1>7, <2>2 DEF InTable
    <3>2. Inverted(f, w)
      BY <2>2 DEF IndexInv
    <3> QED BY <1>14, <3>1, <3>2 DEF Inverted
  <2> QED BY <1>3, <2>1, <2>2
<1> QED BY <1>2, <1>12, <1>13, <1>15, <1>16 DEF IndexInv

LEMMA IndexAdd ==
    ASSUME Numbering, IndexInv, AddPostingList
    PROVE  phase' = "add" /\ Numbering' /\ IndexInv'
<1>1. /\ phase = "add" /\ UNCHANGED <<fs, doc_id, doc_table>> /\ InUse
  BY DEF AddPostingList, InUse
<1>2. PICK g \in Handled : /\ doc_id = NumberOf(g)
                           /\ DOMAIN tab \subseteq DOMAIN Table(g)
                           /\ \A w \in DOMAIN tab : tab[w] = Table(g)[w]
  BY <1>1 DEF IndexInv, Adding
<1>3. PICK v \in DOMAIN tab :
          /\ tab' = [w \in DOMAIN tab \ {v} |-> tab[w]]
          /\ IF doc_id \in DOMAIN Postings(v)
             THEN phase' = "aborted" /\ UNCHANGED index
             ELSE index' = WithPostings(v, doc_id, tab[v]) /\ UNCHANGED phase
  BY DEF AddPostingList
<1>4. doc_id \notin DOMAIN Postings(v)
  BY <1>1, <1>2, <1>3 DEF IndexInv, Inverted, InTable
<1>5. PICK d, ps : d = doc_id /\ ps = tab[v]
  OBVIOUS
<1>6. /\ phase' = "add" /\ InUse'
      /\ index' = HashTable_Insert(index, v, HashTable_Insert(Postings(v), d, ps))
  BY <1>1, <1>3, <1>4, <1>5 DEF WithPostings, InUse
<1>7. /\ DOMAIN index' = DOMAIN index \cup {v}
      /\ index'[v] = HashTable_Insert(Postings(v), d, ps)
      /\ \A w \in DOMAIN index \ {v} : index'[w] = index[w]
  <2>1. PICK t, l : t = index /\ l = HashTable_Insert(Postings(v), d, ps)
    OBVIOUS
  <2>2. /\ DOMAIN HashTable_Insert(t, v, l) = DOMAIN t \cup {v}
        /\ HashTable_Insert(t, v, l)[v] = l
        /\ \A w \in DOMAIN t \ {v} : HashTable_Insert(t, v, l)[w] = t[w]
    BY DEF HashTable_Insert
  <2> QED BY <1>6, <2>1, <2>2
<1>8. /\ DOMAIN index'[v] = DOMAIN Postings(v) \cup {d}
      /\ index'[v][d] = ps
      /\ \A c \in DOMAIN Postings(v) \ {d} : index'[v][c] = Postings(v)[c]
  <2>1. PICK P : P = Postings(v)
    OBVIOUS
  <2>2. /\ DOMAIN HashTable_Insert(P, d, ps) = DOMAIN P \cup {d}
        /\ HashTable_Insert(P, d, ps)[d] = ps
        /\ \A c \in DOMAIN P \ {d} : HashTable_Insert(P, d, ps)[c] = P[c]
    BY DEF HashTable_Insert
  <2> QED BY <1>7, <2>1, <2>2
<1>9. /\ Handled' = Handled /\ Numbers' = Numbers
      /\ \A f : NumberOf(f)' = NumberOf(f) /\ NameOf(f)' = NameOf(f) /\ Table(f)' = Table(f)
  BY <1>1 DEF Handled, Numbers, NumberOf, NameOf, Table
<1>10. Numbering'
  BY <1>1, <1>6, <1>9 DEF Numbering
<1>11. /\ Postings(v)' = index'[v]
       /\ \A w : w # v => Postings(w)' = Postings(w)
  <2>1. \A w : Postings(w)' = IF w \in DOMAIN index' THEN index'[w] ELSE NoWords
    BY DEF Postings
  <2> QED BY <1>7, <2>1 DEF Postings
<1>12. DOMAIN tab' = DOMAIN tab \ {v} /\ \A w \in DOMAIN tab \ {v} : tab'[w] = tab[w]
  BY <1>3
<1>13. Adding'
  BY <1>1, <1>2, <1>9, <1>12 DEF Adding
<1>14. d \in Numbers /\ DOMAIN Postings(v) \subseteq Numbers
  BY <1>2, <1>5 DEF Numbering, IndexInv, Postings, NoWords
<1>15. \A w \in DOMAIN index' : DOMAIN index'[w] # {} /\ DOMAIN index'[w] \subseteq Numbers'
  BY <1>7, <1>8, <1>9, <1>14 DEF IndexInv
<1>16. ASSUME NEW f \in Handled, NEW w PROVE Inverted(f, w)'
  <2>1. Inverted(f, w)
    BY DEF IndexInv
  <2>2. CASE w # v
    <3>1. InTable(f, w)' <=> InTable(f, w)
      BY <1>1, <1>6, <1>9, <1>12, <2>2 DEF InTable
    <3> QED BY <1>9, <1>11, <2>1, <2>2, <3>1 DEF Inverted
  <2>3. CASE w = v /\ f = g
    <3>1. ~InTable(f, w)'
      BY <1>12, <2>3 DEF InTable
    <3>2. NumberOf(f)' = d /\ v \in DOMAIN Table(f)' /\ ps = Table(f)'[v]
      BY <1>2, <1>3, <1>5, <1>9, <2>3
    <3> QED BY <1>8, <1>11, <2>3, <3>1, <3>2 DEF Inverted
  <2>4. CASE w = v /\ f # g
    <3>1. NumberOf(f) # d
      BY <1>2, <1>5, <2>4 DEF Numbering
    <3>2. ~InTable(f, w) /\ ~InTable(f, w)'
      BY <1>1, <1>5, <1>9, <3>1 DEF InTable
    <3>3. NumberOf(f) \in DOMAIN Postings(w)' <=> NumberOf(f) \in DOMAIN Postings(w)
      BY <1>8, <1>11, <2>4, <3>1
    <3>4. NumberOf(f) \in DOMAIN Postings(w) =>
            Postings(w)'[NumberOf(f)] = Postings(w)[NumberOf(f)]
      BY <1>8, <1>11, <2>4, <3>1
    <3> QED BY <1>9, <2>1, <3>2, <3>3, <3>4 DEF Inverted
  <2> QED BY <2>2, <2>3, <2>4
<1> QED BY <1>6, <1>9, <1>10, <1>13, <1>15, <1>16 DEF IndexInv

LEMMA IndexFileAdded ==
    ASSUME Numbering, IndexInv, FileAdded
    PROVE  Numbering' /\ IndexInv'
<1>1. /\ phase = "add" /\ phase' = "crawl" /\ DOMAIN tab = {}
      /\ UNCHANGED <<fs, doc_id, tab, doc_table, index>>
  BY DEF FileAdded, crawl_vars, NoWords
<1>2. /\ Numbers' = Numbers /\ Handled' = Handled
      /\ \A f : NumberOf(f)' = NumberOf(f) /\ NameOf(f)' = NameOf(f) /\ Table(f)' = Table(f)
      /\ \A w : Postings(w)' = Postings(w)
  BY <1>1 DEF Numbers, NumberOf, NameOf, Table, Postings, Handled
<1>3. Numbering'
  BY <1>1, <1>2 DEF Numbering, InUse
<1>4. \A f, w : ~InTable(f, w) /\ ~InTable(f, w)'
  BY <1>1 DEF InTable
<1>5. \A f, w : Inverted(f, w)' <=> Inverted(f, w)
  BY <1>2, <1>4 DEF Inverted
<1> QED BY <1>1, <1>2, <1>3, <1>5 DEF IndexInv, InUse

LEMMA IndexEnd ==
    ASSUME Numbering, EndOfInput
    PROVE  Numbering' /\ IndexInv'
<1>1. /\ phase' = "exit" /\ DOMAIN index' = {}
      /\ doc_table'.max_id = doc_table.max_id
      /\ DOMAIN doc_table'.id_to_name = {}
      /\ DOMAIN doc_table'.name_to_id = {}
  BY DEF EndOfInput, NoWords
<1> QED BY <1>1 DEF Numbering, IndexInv, Handled, InUse

-----------------------------------------------------------------------------
(***************************************************************************)
(* What the index says when the crawl is over.                             *)
(***************************************************************************)
\* The words that the parser gives a table for are sequences.
LEMMA TableIs ==
    ASSUME CrawlInv, NEW f \in Reached
    PROVE  /\ \A w \in DOMAIN Table(f) : IsSeq(w) /\ GoodList(Table(f)[w])
           /\ \A w : IsSeq(w) => Places(Table(f), w) = Occur(f, w, FALSE)
<1>1. PICK c : c = fs[f].text
  OBVIOUS
<1>2. IsSeq(c) /\ c # Null /\ Indexable(c)
  BY <1>1, ReachedIs, DataAssumption DEF CrawlInv, Texts
<1>3. /\ \A w \in DOMAIN ParseIntoWordPositionsTable(c) :
             IsSeq(w) /\ GoodList(ParseIntoWordPositionsTable(c)[w])
      /\ \A w : IsSeq(w) =>
             Places(ParseIntoWordPositionsTable(c), w) = Occurrences(c, w, FALSE)
  BY <1>2, ParsedTable
<1> QED BY <1>1, <1>3 DEF Table, Occur

\* A list in the index is one of the table of the file it belongs to.
LEMMA PostingIs ==
    ASSUME CrawlInv, Numbering, IndexInv, NEW w \in DOMAIN index, NEW d \in DOMAIN index[w]
    PROVE  /\ d \in Numbers /\ NameOf(d) \in Handled /\ NameOf(d) \in Reached
           /\ NumberOf(NameOf(d)) = d
           /\ w \in DOMAIN Table(NameOf(d)) /\ index[w][d] = Table(NameOf(d))[w]
           /\ IsSeq(w) /\ GoodList(index[w][d])
<1>1. InUse /\ d \in Numbers
  BY DEF IndexInv
<1>2. PICK f : f = NameOf(d)
  OBVIOUS
<1>3. f \in Handled /\ NumberOf(f) = d
  BY <1>1, <1>2 DEF Numbering
<1>4. f \in Reached
  BY <1>3 DEF CrawlInv
<1>5. Inverted(f, w) /\ Postings(w) = index[w]
  BY <1>3 DEF IndexInv, Postings
<1>6. w \in DOMAIN Table(f) /\ index[w][d] = Table(f)[w]
  BY <1>3, <1>5 DEF Inverted
<1> QED BY <1>1, <1>2, <1>3, <1>4, <1>6, TableIs

LEMMA NotHandled ==
    ASSUME CrawlInv, Numbering, IndexInv, Finished, NEW f \in Reached \ Handled, NEW w, IsSeq(w)
    PROVE  Occur(f, w, FALSE) = {}
<1>1. phase \notin {"crawl", "add"} /\ InUse
  BY DEF Finished, InUse
<1>2. stack = <<>>
  BY <1>1 DEF CrawlInv, TreeInv
<1>3. Table(f) = NoWords
  BY <1>1, <1>2 DEF CrawlInv, Covered, Waiting
<1>4. Places(Table(f), w) = {}
  BY <1>3 DEF Places, NoWords
<1> QED BY <1>4, TableIs

LEMMA IndexedFile ==
    ASSUME CrawlInv, Numbering, IndexInv, Finished, NEW f \in Handled, NEW w, IsSeq(w)
    PROVE  /\ f \in Reached
           /\ NumberOf(f) \in DOMAIN Postings(w) <=> Occur(f, w, FALSE) # {}
           /\ NumberOf(f) \in DOMAIN Postings(w) =>
                 /\ w \in DOMAIN index
                 /\ GoodList(Postings(w)[NumberOf(f)])
                 /\ {Postings(w)[NumberOf(f)][k] : k \in DOMAIN Postings(w)[NumberOf(f)]} =
                       Occur(f, w, FALSE)
<1>1. f \in Reached
  BY DEF CrawlInv
<1>2. phase # "add"
  BY DEF Finished
<1>3. /\ NumberOf(f) \in DOMAIN Postings(w) <=> w \in DOMAIN Table(f)
      /\ w \in DOMAIN Table(f) => Postings(w)[NumberOf(f)] = Table(f)[w]
  BY <1>2 DEF IndexInv, Inverted, InTable
<1>4. /\ \A v \in DOMAIN Table(f) : GoodList(Table(f)[v])
      /\ Places(Table(f), w) = Occur(f, w, FALSE)
  BY <1>1, TableIs
<1>5. CASE w \in DOMAIN Table(f)
  <2>1. PICK s : s = Table(f)[w]
    OBVIOUS
  <2>2. GoodList(s) /\ {s[k] : k \in DOMAIN s} = Occur(f, w, FALSE)
    BY <1>4, <1>5, <2>1 DEF Places
  <2>3. 1 \in DOMAIN s
    BY <2>2, EmptySeq, LenProperties DEF GoodList
  <2>4. Occur(f, w, FALSE) # {}
    BY <2>2, <2>3
  <2>5. w \in DOMAIN index
    BY <1>3, <1>5 DEF Postings, NoWords
  <2> QED BY <1>1, <1>3, <1>5, <2>1, <2>2, <2>4, <2>5
<1>6. CASE w \notin DOMAIN Table(f)
  BY <1>1, <1>3, <1>4, <1>6 DEF Places
<1> QED BY <1>5, <1>6

LEMMA PositionsIs ==
    ASSUME CrawlInv, Numbering, IndexInv, Finished, NEW f \in Files, NEW w, IsSeq(w)
    PROVE  Positions(f, w) = IF f \in Reached THEN Occur(f, w, FALSE) ELSE {}
<1>1. CASE f \in Handled
  <2>1. DocTable_GetDocID(doc_table, f) = NumberOf(f)
    BY <1>1 DEF DocTable_GetDocID, Handled, NumberOf
  <2> QED BY <1>1, <2>1, IndexedFile DEF Positions
<1>2. CASE f \notin Handled
  <2>1. DocTable_GetDocID(doc_table, f) = 0
    BY <1>2 DEF DocTable_GetDocID, INVALID_DOCID, Handled
  <2>2. 0 \notin DOMAIN Postings(w)
    BY DEF Postings, NoWords, IndexInv, Numbers
  <2> QED BY <1>2, <2>1, <2>2, NotHandled DEF Positions
<1> QED BY <1>1, <1>2

LEMMA IndexSuffices ==
    ASSUME CrawlInv, Numbering, IndexInv
    PROVE  IndexInvertsFiles
<1> SUFFICES ASSUME Finished PROVE IndexInvertsFiles
  BY DEF IndexInvertsFiles
<1>1. ASSUME NEW f \in Handled, NEW g \in Handled
      PROVE  NameOf(NumberOf(f)) = f /\ (f # g => NumberOf(f) # NumberOf(g))
  BY DEF Numbering
<1>2. ASSUME NEW w \in QueryWords PROVE IsSeq(w)
  BY DataAssumption DEF QueryWords
<1>3. ASSUME NEW w \in DOMAIN index PROVE IsSeq(w)
  <2>1. PICK d : d \in DOMAIN index[w]
    BY DEF IndexInv
  <2> QED BY <2>1, PostingIs
<1>4. ASSUME NEW w \in QueryWords \cup DOMAIN index, NEW f \in Files
      PROVE  Positions(f, w) = IF f \in Reached THEN Occur(f, w, FALSE) ELSE {}
  BY <1>2, <1>3, PositionsIs
<1> QED BY <1>1, <1>4 DEF IndexInvertsFiles, Handled, NameOf, NumberOf

-----------------------------------------------------------------------------
(***************************************************************************)
(* Lists: their length and their places, removal, and sorting.             *)
(***************************************************************************)
LEMMA LenIsCardinality ==
    ASSUME NEW s, GoodList(s)
    PROVE  Cardinality({s[k] : k \in DOMAIN s}) = Len(s) /\ Len(s) \in Nat \ {0}
<1>1. PICK S : S = {s[k] : k \in DOMAIN s}
  OBVIOUS
<1>2. s \in Seq(Nat) /\ Len(s) \in Nat /\ DOMAIN s = 1..Len(s) /\ Len(s) # 0
  BY EmptySeq, LenProperties DEF GoodList
<1>3. s = [k \in 1..Len(s) |-> s[k]]
  BY <1>2, LenProperties
<1>4. s \in [1..Len(s) -> S]
  BY <1>1, <1>2, <1>3
<1>5. \A k, l \in 1..Len(s) : s[k] = s[l] => k = l
  <2> SUFFICES ASSUME NEW k \in 1..Len(s), NEW l \in 1..Len(s), k # l PROVE s[k] # s[l]
    OBVIOUS
  <2>1. k < l \/ l < k
    BY <1>2
  <2>2. s[k] \in Nat /\ s[l] \in Nat
    BY <1>2
  <2> QED BY <1>2, <2>1, <2>2 DEF GoodList, Ascending
<1>6. \A x \in S : \E k \in 1..Len(s) : s[k] = x
  BY <1>1, <1>2
<1>7. s \in Injection(1..Len(s), S)
  BY <1>4, <1>5, Fun_IsInj
<1>8. s \in Bijection(1..Len(s), S)
  BY <1>4, <1>5, <1>6, Fun_IsBij
<1>9. Cardinality(S) = Len(s)
  BY <1>2, <1>8, FS_CountingElements DEF ExistsBijection
<1> QED BY <1>1, <1>2, <1>9

LEMMA RemoveAtIs ==
    ASSUME NEW S, NEW s \in Seq(S), NEW k \in 1..Len(s)
    PROVE  /\ Seqs!RemoveAt(s, k) \in Seq(S)
           /\ Len(Seqs!RemoveAt(s, k)) = Len(s) - 1
           /\ DOMAIN Seqs!RemoveAt(s, k) = 1..(Len(s) - 1)
           /\ \A l \in 1..(Len(s) - 1) :
                 Seqs!RemoveAt(s, k)[l] = IF l < k THEN s[l] ELSE s[l + 1]
<1> DEFINE a == SubSeq(s, 1, k - 1)
           b == SubSeq(s, k + 1, Len(s))
<1>1. PICK n \in Nat : n = Len(s) /\ k \in 1..n /\ \A l \in 1..n : s[l] \in S
  BY LenProperties
<1>2. /\ a \in Seq(S) /\ Len(a) = k - 1
      /\ \A l \in 1..(k - 1) : a[l] = s[l]
  <2>1. 1 \in Int /\ k - 1 \in Int /\ \A l \in 1..(k - 1) : s[l] \in S
    BY <1>1
  <2>2. /\ a \in Seq(S)
        /\ Len(a) = IF 1 <= k - 1 THEN k - 1 - 1 + 1 ELSE 0
        /\ \A l \in 1..(k - 1 - 1 + 1) : a[l] = s[1 + l - 1]
    BY <2>1, SubSeqProperties
  <2> HIDE DEF a
  <2> QED BY <1>1, <2>2
<1>3. /\ b \in Seq(S) /\ Len(b) = n - k
      /\ \A l \in 1..(n - k) : b[l] = s[k + l]
  <2>1. k + 1 \in Int /\ n \in Int /\ \A l \in (k + 1)..n : s[l] \in S
    BY <1>1
  <2>2. /\ b \in Seq(S)
        /\ Len(b) = IF k + 1 <= n THEN n - (k + 1) + 1 ELSE 0
        /\ \A l \in 1..(n - (k + 1) + 1) : b[l] = s[k + 1 + l - 1]
    BY <1>1, <2>1, SubSeqProperties
  <2> HIDE DEF b
  <2>3. \A l \in Int : k + 1 + l - 1 = k + l
    BY <1>1
  <2> QED BY <1>1, <2>2, <2>3
<1>4. Seqs!RemoveAt(s, k) = a \o b
  BY DEF Seqs!RemoveAt
<1> HIDE DEF a, b
<1>6. PICK r : r = a \o b
  OBVIOUS
<1>5. /\ r \in Seq(S) /\ Len(r) = Len(a) + Len(b)
      /\ \A l \in 1..Len(a) + Len(b) : r[l] = IF l <= Len(a) THEN a[l] ELSE b[l - Len(a)]
  BY <1>2, <1>3, <1>6, ConcatProperties
<1>7. /\ r \in Seq(S) /\ Len(r) = n - 1 /\ DOMAIN r = 1..(n - 1)
      /\ \A l \in 1..(n - 1) : r[l] = IF l <= k - 1 THEN a[l] ELSE b[l - (k - 1)]
  <2>1. Len(a) + Len(b) = n - 1
    BY <1>1, <1>2, <1>3
  <2>2. DOMAIN r = 1..Len(r)
    BY <1>5, LenProperties
  <2> QED BY <1>2, <1>5, <2>1, <2>2
<1>8. ASSUME NEW l \in 1..(n - 1) PROVE r[l] = IF l < k THEN s[l] ELSE s[l + 1]
  <2>2. r[l] = IF l <= k - 1 THEN a[l] ELSE b[l - (k - 1)]
    BY <1>7
  <2>3. CASE l < k
    <3>1. l \in 1..(k - 1)
      BY <1>1, <2>3
    <3> QED BY <1>2, <2>2, <2>3, <3>1
  <2>4. CASE ~(l < k)
    <3>1. l - (k - 1) \in 1..(n - k) /\ k + (l - (k - 1)) = l + 1 /\ ~(l <= k - 1)
      BY <1>1, <2>4
    <3>2. r[l] = b[l - (k - 1)]
      BY <2>2, <3>1
    <3>3. b[l - (k - 1)] = s[k + (l - (k - 1))]
      BY <1>3, <3>1
    <3> QED BY <2>4, <3>1, <3>2, <3>3
  <2> QED BY <2>3, <2>4
<1> QED BY <1>1, <1>4, <1>6, <1>7, <1>8

Ranks(list) == \A k \in DOMAIN list : list[k].rank \in Nat

Before(list, k, l) ==
    list[k].rank > list[l].rank \/ (list[k].rank = list[l].rank /\ k < l)

UpTo(list, k) == {l \in DOMAIN list : l = k \/ Before(list, l, k)}

LEMMA PlaceGrows ==
    ASSUME NEW list, NEW n \in Nat, DOMAIN list = 1..n, Ranks(list)
    PROVE  /\ \A k \in 1..n : Cardinality(UpTo(list, k)) \in 1..n
           /\ \A k, l \in 1..n :
                 Before(list, k, l) => Cardinality(UpTo(list, k)) < Cardinality(UpTo(list, l))
<1>1. IsFiniteSet(1..n) /\ Cardinality(1..n) = n
  BY FS_Interval
<1>2. ASSUME NEW k \in 1..n
      PROVE  /\ UpTo(list, k) \in SUBSET (1..n) /\ k \in UpTo(list, k)
             /\ IsFiniteSet(UpTo(list, k)) /\ Cardinality(UpTo(list, k)) \in 1..n
  <2>1. UpTo(list, k) \in SUBSET (1..n) /\ k \in UpTo(list, k)
    BY DEF UpTo
  <2>2. IsFiniteSet(UpTo(list, k)) /\ Cardinality(UpTo(list, k)) <= n
    BY <1>1, <2>1, FS_Subset
  <2>3. Cardinality(UpTo(list, k)) \in Nat /\ Cardinality(UpTo(list, k)) # 0
    BY <2>1, <2>2, FS_CardinalityType, FS_EmptySet
  <2> QED BY <2>1, <2>2, <2>3
<1>3. ASSUME NEW k \in 1..n, NEW l \in 1..n, Before(list, k, l)
      PROVE  Cardinality(UpTo(list, k)) < Cardinality(UpTo(list, l))
  <2>1. \A m \in 1..n : list[m].rank \in Nat
    BY DEF Ranks
  <2>2. ASSUME NEW m \in UpTo(list, k) PROVE m \in UpTo(list, l)
    <3>1. m \in 1..n /\ (m = k \/ Before(list, m, k))
      BY DEF UpTo
    <3>2. Before(list, m, l)
      BY <1>3, <2>1, <3>1 DEF Before
    <3> QED BY <3>1, <3>2 DEF UpTo
  <2>3. l \in UpTo(list, l) /\ l \notin UpTo(list, k)
    BY <1>3, <2>1 DEF UpTo, Before
  <2>4. UpTo(list, k) \in SUBSET UpTo(list, l) /\ UpTo(list, k) # UpTo(list, l)
    BY <2>2, <2>3
  <2>5. PICK S, T : S = UpTo(list, k) /\ T = UpTo(list, l)
    OBVIOUS
  <2>6. IsFiniteSet(T) /\ S \in SUBSET T /\ S # T
    BY <1>2, <2>4, <2>5
  <2>7. Cardinality(S) <= Cardinality(T) /\ Cardinality(S) # Cardinality(T)
    BY <2>6, FS_Subset
  <2>8. Cardinality(S) \in Nat /\ Cardinality(T) \in Nat
    BY <1>2, <2>5
  <2> QED BY <2>5, <2>7, <2>8
<1> QED BY <1>2, <1>3

\* LinkedList_Sort: the list is permuted into the order of its ranks.
LEMMA SortedIs ==
    ASSUME NEW list, NEW n \in Nat, DOMAIN list = 1..n, Ranks(list)
    PROVE  \E f \in [1..n -> 1..n] :
              /\ \A p, q \in 1..n : p # q => f[p] # f[q]
              /\ \A k \in 1..n : \E p \in 1..n : f[p] = k
              /\ DOMAIN Sorted(list) = 1..n
              /\ \A p \in 1..n : Sorted(list)[p] = list[f[p]]
              /\ \A p, q \in 1..n : p < q => list[f[p]].rank >= list[f[q]].rank
<1> DEFINE place == [k \in 1..n |-> Cardinality(UpTo(list, k))]
<1>1. place \in [1..n -> 1..n]
  BY PlaceGrows
<1>2. \A k, l \in 1..n : Before(list, k, l) => place[k] < place[l]
  BY PlaceGrows
<1>3. \A k \in 1..n : place[k] = Cardinality(UpTo(list, k))
  OBVIOUS
<1> HIDE DEF place
<1>4. \A k \in 1..n : list[k].rank \in Nat
  BY DEF Ranks
<1>5. \A k, l \in 1..n : place[k] = place[l] => k = l
  <2> SUFFICES ASSUME NEW k \in 1..n, NEW l \in 1..n, k # l PROVE place[k] # place[l]
    OBVIOUS
  <2>1. Before(list, k, l) \/ Before(list, l, k)
    BY <1>4 DEF Before
  <2>2. place[k] \in 1..n /\ place[l] \in 1..n
    BY <1>1
  <2> QED BY <1>2, <2>1, <2>2
<1>6. \A p \in 1..n : \E k \in 1..n : place[k] = p
  <2>1. place \in Injection(1..n, 1..n)
    BY <1>1, <1>5, Fun_IsInj
  <2>2. IsFiniteSet(1..n)
    BY FS_Interval
  <2>3. place \in Surjection(1..n, 1..n)
    BY <2>1, <2>2, FS_Injection
  <2> QED BY <2>3 DEF Surjection
<1> DEFINE f == [p \in 1..n |-> CHOOSE k \in 1..n : place[k] = p]
<1>7. \A p \in 1..n : f[p] \in 1..n /\ place[f[p]] = p
  BY <1>6
<1>8. f \in [1..n -> 1..n]
  BY <1>7
<1>9. Sorted(list) = [p \in 1..n |-> list[CHOOSE k \in 1..n : Cardinality(UpTo(list, k)) = p]]
  BY DEF Sorted, InOrder, UpTo, Before
<1>10. ASSUME NEW p \in 1..n
       PROVE  (CHOOSE k \in 1..n : Cardinality(UpTo(list, k)) = p) = f[p]
  <2>1. (CHOOSE k \in 1..n : Cardinality(UpTo(list, k)) = p) \in 1..n
        /\ Cardinality(UpTo(list, CHOOSE k \in 1..n : Cardinality(UpTo(list, k)) = p)) = p
    <3>1. \E k \in 1..n : Cardinality(UpTo(list, k)) = p
      BY <1>3, <1>6
    <3> QED BY <3>1, Zenon
  <2> HIDE DEF f
  <2> QED BY <1>3, <1>5, <1>7, <2>1
<1>11. DOMAIN Sorted(list) = 1..n /\ \A p \in 1..n : Sorted(list)[p] = list[f[p]]
  <2> HIDE DEF f
  <2> QED BY <1>9, <1>10
<1> HIDE DEF f
<1>12. ASSUME NEW p \in 1..n, NEW q \in 1..n, p < q
       PROVE  list[f[p]].rank >= list[f[q]].rank
  <2>1. ~Before(list, f[q], f[p])
    BY <1>2, <1>7, <1>12
  <2>2. list[f[p]].rank \in Nat /\ list[f[q]].rank \in Nat
    BY <1>4, <1>7
  <2> QED BY <2>1, <2>2 DEF Before
<1>13. \A p, q \in 1..n : p # q => f[p] # f[q]
  BY <1>7
<1>14. \A k \in 1..n : \E p \in 1..n : f[p] = k
  <2> SUFFICES ASSUME NEW k \in 1..n PROVE f[place[k]] = k /\ place[k] \in 1..n
    OBVIOUS
  <2> QED BY <1>1, <1>5, <1>7
<1> QED BY <1>8, <1>11, <1>12, <1>13, <1>14

-----------------------------------------------------------------------------
(***************************************************************************)
(* MemIndex_Search: what the results are, word by word and result by       *)
(* result.                                                                 *)
(***************************************************************************)
Result == [doc_id : Nat \ {0}, rank : Nat \ {0}]

\* The documents with each of the first k words of the query, and how often f has them.
Wanted(k)   == {f \in Handled : \A j \in 1..k : Count[f][query[j]] > 0}
Total(f, k) == Ranked!Sums(f, query)[k]

\* r is a result for the first k words.
ResultFor(r, k) ==
    /\ r.doc_id \in Numbers /\ NameOf(r.doc_id) \in Wanted(k)
    /\ r.rank = Total(NameOf(r.doc_id), k)

\* The first done results of the list are those for k words, the others for one less;
\* no document with the k words is missing, none is there twice.
ResultsFor(list, k, done) ==
    /\ \A m \in DOMAIN list : ResultFor(list[m], IF m <= done THEN k ELSE k - 1)
    /\ \A m, n \in DOMAIN list : m # n => list[m].doc_id # list[n].doc_id
    /\ \A f \in Wanted(k) : \E m \in DOMAIN list : NameOf(list[m].doc_id) = f

Searching ==
    /\ query \in Queries /\ printed = NoAnswer
    /\ i \in 0..Len(query) /\ left <= Len(results)
    /\ phase = "search" => left = 0
    /\ phase = "filter" => i >= 2
    /\ left > 0 => at = Len(results) - left + 1
    /\ \A j \in 1..i : query[j] \in DOMAIN index
    /\ i = 0 => results = <<>>
    /\ i > 0 => ResultsFor(results, i, Len(results) - left)

SearchInv ==
    /\ phase \in {"start", "crawl", "add", "ready", "search", "filter", "answered", "exit"}
    /\ results \in Seq(Result) /\ i \in Nat /\ at \in Nat /\ left \in Nat
    /\ phase \in {"start", "crawl", "add", "ready"} => query = NoQuery /\ printed = NoAnswer
    /\ phase \in {"search", "filter"} => Searching
    /\ phase = "answered" => query \in Queries /\ printed # NoAnswer

\* The inductive invariant.
IInv == CrawlInv /\ Numbering /\ IndexInv /\ SearchInv

Adds(c, q, n, f) ==
    f = [k \in 0..n |-> IF k = 0 THEN 0 ELSE f[k - 1] + c[q[k]]]

LEMMA AddsExists ==
    ASSUME NEW c, NEW q, NEW n \in Nat
    PROVE  \E f : Adds(c, q, n, f)
<1> DEFINE S == {m \in Nat : \E f : Adds(c, q, m, f)}
<1>1. 0 \in S
  <2>1. Adds(c, q, 0, [k \in 0..0 |-> 0])
    BY DEF Adds
  <2> QED BY <2>1
<1>2. ASSUME NEW m \in Nat, m \in S PROVE m + 1 \in S
  <2>1. PICK f : Adds(c, q, m, f)
    BY <1>2
  <2> DEFINE g == [k \in 0..(m + 1) |-> IF k = m + 1 THEN f[m] + c[q[m + 1]] ELSE f[k]]
  <2>2. ASSUME NEW k \in 0..(m + 1)
        PROVE  g[k] = IF k = 0 THEN 0 ELSE g[k - 1] + c[q[k]]
    <3>1. CASE k = 0
      BY <3>1, <2>1 DEF Adds
    <3>2. CASE k \in 1..m
      <4>1. g[k] = f[k] /\ g[k - 1] = f[k - 1]
        BY <3>2
      <4>2. f[k] = f[k - 1] + c[q[k]]
        BY <2>1, <3>2 DEF Adds
      <4> QED BY <3>2, <4>1, <4>2
    <3>3. CASE k = m + 1
      <4>1. g[k] = f[m] + c[q[k]] /\ g[k - 1] = f[m] /\ k # 0
        BY <3>3
      <4> QED BY <4>1
    <3> QED BY <3>1, <3>2, <3>3
  <2>3. Adds(c, q, m + 1, g)
    <3>1. DOMAIN g = 0..(m + 1)
      OBVIOUS
    <3> QED BY <2>2, <3>1 DEF Adds
  <2> QED BY <2>3
<1>3. Nat \subseteq S
  BY <1>1, <1>2, Induction
<1> QED BY <1>3

LEMMA SumsDef ==
    ASSUME NEW d, NEW q, Len(q) \in Nat
    PROVE  /\ Ranked!Sums(d, q)[0] = 0
           /\ \A k \in 1..Len(q) :
                 Ranked!Sums(d, q)[k] = Ranked!Sums(d, q)[k - 1] + Count[d][q[k]]
<1>1. PICK c : c = Count[d]
  OBVIOUS
<1>2. Ranked!Sums(d, q) = CHOOSE f : Adds(c, q, Len(q), f)
  BY <1>1 DEF Ranked!Sums, Adds
<1>3. Adds(c, q, Len(q), Ranked!Sums(d, q))
  BY <1>2, AddsExists, Zenon
<1>4. PICK s : s = Ranked!Sums(d, q)
  OBVIOUS
<1>5. s[0] = 0 /\ \A k \in 1..Len(q) : s[k] = s[k - 1] + c[q[k]]
  BY <1>3, <1>4 DEF Adds
<1> QED BY <1>1, <1>4, <1>5

LEMMA CountIs ==
    ASSUME NEW f \in Reached, NEW w \in QueryWords, CrawlInv
    PROVE  /\ Count[f][w] \in Nat /\ IsSeq(w)
           /\ Count[f][w] = Cardinality(Occur(f, w, FALSE))
           /\ Count[f][w] > 0 <=> Occur(f, w, FALSE) # {}
<1>1. Count[f][w] = Cardinality(Occur(f, w, FALSE))
  BY DEF Count
<1>2. IsSeq(w) /\ IsSeq(fs[f].text)
  BY ReachedIs, DataAssumption DEF QueryWords, CrawlInv, Texts
<1>3. PICK n \in Int : n = Len(fs[f].text) - Len(w)
  BY <1>2, IsSeqType
<1>4. Occur(f, w, FALSE) \in SUBSET (0..n)
  BY <1>3 DEF Occur, Occurrences
<1>5. PICK S \in SUBSET (0..n) : S = Occur(f, w, FALSE)
  BY <1>4
<1>6. IsFiniteSet(0..n)
  BY FS_Interval
<1>7. IsFiniteSet(S)
  BY <1>6, FS_Subset
<1>8. Cardinality(S) \in Nat /\ (Cardinality(S) = 0 <=> S = {})
  BY <1>7, FS_CardinalityType, FS_EmptySet
<1>9. PICK m \in Nat : m = Cardinality(S)
  BY <1>8
<1>10. PICK c : c = Count[f][w]
  OBVIOUS
<1>11. c = Cardinality(S)
  BY <1>1, <1>5, <1>10
<1>12. c = m /\ (m = 0 <=> S = {})
  BY <1>8, <1>9, <1>11
<1>13. m > 0 <=> m # 0
  OBVIOUS
<1>14. c \in Nat /\ (c > 0 <=> S # {})
  BY <1>12, <1>13, Zenon
<1> QED BY <1>1, <1>2, <1>5, <1>10, <1>14

\* The list that the index has of a query word and a document is as long as the
\* document has the word often.
LEMMA IndexCount ==
    ASSUME CrawlInv, Numbering, IndexInv, Finished, NEW f \in Handled, NEW w \in QueryWords
    PROVE  /\ f \in Reached /\ Count[f][w] \in Nat
           /\ NumberOf(f) \in DOMAIN Postings(w) <=> Count[f][w] > 0
           /\ Count[f][w] > 0 => w \in DOMAIN index /\ Len(Postings(w)[NumberOf(f)]) = Count[f][w]
<1>1. f \in Reached
  BY DEF CrawlInv
<1>2. /\ Count[f][w] \in Nat /\ IsSeq(w)
      /\ Count[f][w] = Cardinality(Occur(f, w, FALSE))
      /\ Count[f][w] > 0 <=> Occur(f, w, FALSE) # {}
  BY <1>1, CountIs
<1>3. /\ NumberOf(f) \in DOMAIN Postings(w) <=> Occur(f, w, FALSE) # {}
      /\ NumberOf(f) \in DOMAIN Postings(w) =>
            /\ w \in DOMAIN index
            /\ GoodList(Postings(w)[NumberOf(f)])
            /\ {Postings(w)[NumberOf(f)][k] : k \in DOMAIN Postings(w)[NumberOf(f)]} =
                  Occur(f, w, FALSE)
  BY <1>2, IndexedFile
<1>4. PICK s : s = Postings(w)[NumberOf(f)]
  OBVIOUS
<1>5. NumberOf(f) \in DOMAIN Postings(w) => Len(s) = Count[f][w]
  <2> SUFFICES ASSUME NumberOf(f) \in DOMAIN Postings(w) PROVE Len(s) = Count[f][w]
    OBVIOUS
  <2>1. GoodList(s) /\ {s[k] : k \in DOMAIN s} = Occur(f, w, FALSE)
    BY <1>3, <1>4
  <2> QED BY <1>2, <2>1, LenIsCardinality
<1> QED BY <1>1, <1>2, <1>3, <1>4, <1>5

LEMMA UnknownWord ==
    ASSUME CrawlInv, Numbering, IndexInv, Finished, NEW w \in QueryWords, w \notin DOMAIN index,
           NEW f \in Reached
    PROVE  ~(Count[f][w] > 0)
<1>1. CASE f \in Handled
  BY <1>1, IndexCount
<1>2. CASE f \notin Handled
  BY <1>2, CountIs, NotHandled
<1> QED BY <1>1, <1>2

LEMMA QueryIs ==
    ASSUME query \in Queries
    PROVE  /\ Len(query) \in Nat /\ DOMAIN query = 1..Len(query) /\ query # NoQuery
           /\ \A k \in 1..Len(query) : query[k] \in QueryWords
<1>1. PICK q \in Queries : q = query
  OBVIOUS
<1>2. IsSeq(q) /\ q # NoQuery
  BY DataAssumption
<1>3. Len(q) \in Nat /\ DOMAIN q = 1..Len(q)
  BY <1>2, IsSeqType
<1> QED BY <1>1, <1>2, <1>3 DEF QueryWords

\* One word more.
LEMMA TotalIs ==
    ASSUME CrawlInv, query \in Queries, NEW f \in Handled
    PROVE  /\ Total(f, 0) = 0
           /\ \A k \in 1..Len(query) : Total(f, k) = Total(f, k - 1) + Count[f][query[k]]
           /\ \A k \in 0..Len(query) : Total(f, k) \in Nat
<1>1. /\ Len(query) \in Nat /\ f \in Reached
      /\ \A k \in 1..Len(query) : Count[f][query[k]] \in Nat
  BY QueryIs, CountIs DEF CrawlInv
<1>2. PICK s, c : s = Ranked!Sums(f, query) /\ c = [k \in 1..Len(query) |-> Count[f][query[k]]]
  OBVIOUS
<1>3. /\ s[0] = 0 /\ \A k \in 1..Len(query) : s[k] = s[k - 1] + c[k] /\ c[k] \in Nat
  BY <1>1, <1>2, SumsDef
<1>4. PICK n \in Nat : n = Len(query)
  BY <1>1
<1> DEFINE S == {k \in Nat : k <= n => s[k] \in Nat}
<1>5. 0 \in S
  BY <1>3
<1>6. ASSUME NEW k \in Nat, k \in S PROVE k + 1 \in S
  <2> SUFFICES ASSUME k + 1 <= n PROVE s[k + 1] \in Nat
    OBVIOUS
  <2>1. k + 1 \in 1..n /\ (k + 1) - 1 = k /\ k <= n
    OBVIOUS
  <2>2. s[k + 1] = s[k] + c[k + 1] /\ c[k + 1] \in Nat
    BY <1>3, <1>4, <2>1
  <2>3. s[k] \in Nat
    BY <1>6, <2>1
  <2> QED BY <2>2, <2>3
<1>7. Nat \subseteq S
  BY <1>5, <1>6, Induction
<1> QED BY <1>2, <1>3, <1>4, <1>7 DEF Total

LEMMA SearchQuiet ==
    ASSUME UNCHANGED <<fs, doc_table, query>>
    PROVE  /\ Count' = Count /\ Numbers' = Numbers
           /\ \A k : Wanted(k)' = Wanted(k)
           /\ \A f, k : Total(f, k)' = Total(f, k)
           /\ \A d : NameOf(d)' = NameOf(d)
           /\ \A r, k : ResultFor(r, k)' <=> ResultFor(r, k)
<1>1. Count' = Count
  BY DEF Count, Reached, Occur
<1>2. Handled' = Handled /\ Numbers' = Numbers /\ \A d : NameOf(d)' = NameOf(d)
  BY DEF Handled, Numbers, NameOf
<1>3. \A k : Wanted(k)' = Wanted(k)
  BY <1>1, <1>2 DEF Wanted
<1>4. \A f, k : Total(f, k)' = Total(f, k)
  BY <1>1 DEF Total, Ranked!Sums
<1> QED BY <1>1, <1>2, <1>3, <1>4 DEF ResultFor

LEMMA ResultsQuiet ==
    ASSUME UNCHANGED <<fs, doc_table, query>>, NEW list, NEW k, NEW done,
           ResultsFor(list, k, done)
    PROVE  ResultsFor(list, k, done)'
<1>1. /\ \A r, n : ResultFor(r, n)' <=> ResultFor(r, n)
      /\ \A n : Wanted(n)' = Wanted(n)
      /\ \A d : NameOf(d)' = NameOf(d)
  BY SearchQuiet
<1> QED BY <1>1 DEF ResultsFor

LEMMA SearchInvInit == Init => SearchInv
<1> SUFFICES ASSUME Init PROVE SearchInv
  OBVIOUS
<1>1. /\ phase = "start" /\ query = NoQuery /\ printed = NoAnswer
      /\ results = <<>> /\ i = 0 /\ at = 0 /\ left = 0
  BY DEF Init
<1> QED BY <1>1, EmptySeq DEF SearchInv

\* While the tree is crawled, and when the input has ended.
LEMMA SearchIdle ==
    ASSUME SearchInv, UNCHANGED search_vars,
           \/ phase \in {"start", "crawl", "add"} /\ phase' \in {"crawl", "add", "ready", "exit"}
           \/ phase' = "exit"
    PROVE  SearchInv'
BY DEF SearchInv, search_vars

LEMMA SearchStutter ==
    ASSUME SearchInv, UNCHANGED vars
    PROVE  SearchInv'
<1>1. UNCHANGED <<fs, doc_table, query, phase, index, printed, i, results, at, left>>
  BY DEF vars, crawl_vars, search_vars
<1>2. Searching => Searching'
  BY <1>1, ResultsQuiet DEF Searching
<1> QED BY <1>1, <1>2 DEF SearchInv

LEMMA SearchStart ==
    ASSUME SearchInv, NEW q \in Queries, ProcessQueries(q)
    PROVE  SearchInv'
<1>1. /\ phase' = "search" /\ query' = q /\ i' = 0 /\ results' = <<>> /\ at' = 0 /\ left' = 0
      /\ printed' = NoAnswer
  BY DEF ProcessQueries
<1>2. Len(q) \in Nat /\ Len(<<>>) = 0
  BY IsSeqType, DataAssumption, EmptySeq
<1>3. Searching'
  BY <1>1, <1>2 DEF Searching
<1> QED BY <1>1, <1>3, EmptySeq DEF SearchInv

LEMMA SearchNoSuchWord ==
    ASSUME SearchInv, NoSuchWord
    PROVE  SearchInv'
<1>1. /\ phase = "search" /\ phase' = "answered" /\ results' = <<>> /\ printed' = <<>>
      /\ UNCHANGED <<query, i, at, left>>
  BY DEF NoSuchWord
<1>2. query \in Queries
  BY <1>1 DEF SearchInv, Searching
<1>3. <<>> # NoAnswer
  BY DataAssumption, EmptySeq
<1> QED BY <1>1, <1>2, <1>3, EmptySeq DEF SearchInv

LEMMA SearchNextWord ==
    ASSUME SearchInv, NextWord
    PROVE  SearchInv'
<1>1. /\ phase = "search" /\ phase' = "filter" /\ i \in 1..(Len(query) - 1)
      /\ query[i + 1] \in DOMAIN index /\ i' = i + 1 /\ at' = 1 /\ left' = Len(results)
      /\ UNCHANGED <<fs, doc_table, index, query, results, printed>>
  BY DEF NextWord, crawl_vars
<1>2. PICK n \in Nat : n = Len(results) /\ DOMAIN results = 1..n
  BY LenProperties DEF SearchInv
<1>3. PICK l \in Nat : l = Len(query)
  BY <1>1, QueryIs DEF SearchInv, Searching
<1>4. /\ query \in Queries /\ printed = NoAnswer /\ left = 0
      /\ \A j \in 1..i : query[j] \in DOMAIN index
      /\ ResultsFor(results, i, n)
  <2>1. Searching /\ i > 0 /\ left = 0
    BY <1>1 DEF SearchInv, Searching
  <2> QED BY <1>2, <2>1 DEF Searching
<1>5. ResultsFor(results, i + 1, 0)
  <2>1. i + 1 - 1 = i /\ i \in Nat
    BY <1>1
  <2>2. \A m \in DOMAIN results : m <= n /\ ~(m <= 0)
    BY <1>2
  <2>3. \A m \in DOMAIN results : ResultFor(results[m], i)
    BY <1>4, <2>2 DEF ResultsFor
  <2>4. Wanted(i + 1) \subseteq Wanted(i)
    <3>1. \A j \in 1..i : j \in 1..(i + 1)
      BY <2>1
    <3> QED BY <3>1 DEF Wanted
  <2> QED BY <1>4, <2>1, <2>2, <2>3, <2>4 DEF ResultsFor
<1>6. PICK r, k : r = results /\ k = i + 1
  OBVIOUS
<1>7. ResultsFor(r, k, 0)'
  BY <1>1, <1>5, <1>6, ResultsQuiet
<1>8. /\ i' = k /\ results' = r /\ Len(r) - left' = 0 /\ k \in 2..l /\ left' = n /\ Len(r) = n
  BY <1>1, <1>2, <1>3, <1>6
<1>9. ASSUME NEW j \in 1..k PROVE query'[j] \in DOMAIN index'
  <2>1. j \in 1..i \/ j = i + 1
    BY <1>1, <1>6, <1>9
  <2> QED BY <1>1, <1>4, <2>1
<1>10. Searching'
  <2>1. ResultsFor(results, i, Len(results) - left)'
    BY <1>7, <1>8
  <2> QED BY <1>1, <1>2, <1>3, <1>4, <1>8, <1>9, <2>1 DEF Searching
<1> QED BY <1>1, <1>2, <1>10 DEF SearchInv

\* Every result is one of a handled document, by its number.
LEMMA ResultDoc ==
    ASSUME Numbering, Finished, NEW r, NEW k, ResultFor(r, k)
    PROVE  /\ NameOf(r.doc_id) \in Handled /\ NameOf(r.doc_id) \in Wanted(k)
           /\ NumberOf(NameOf(r.doc_id)) = r.doc_id
           /\ r.rank = Total(NameOf(r.doc_id), k)
<1>1. PICK d : d = r.doc_id
  OBVIOUS
<1>2. d \in Numbers /\ NameOf(d) \in Wanted(k) /\ r.rank = Total(NameOf(d), k)
  BY <1>1 DEF ResultFor
<1>3. d \in DOMAIN doc_table.id_to_name
  BY <1>2 DEF Numbering, Finished, InUse
<1>4. NumberOf(NameOf(d)) = d
  BY <1>3 DEF Numbering
<1> QED BY <1>1, <1>2, <1>4 DEF Wanted

\* The documents of the first word.
LEMMA FirstResults ==
    ASSUME CrawlInv, Numbering, IndexInv, Finished, query \in Queries,
           NEW l \in Nat, l = Len(query), l > 0,
           NEW w, w = query[1], w \in DOMAIN index,
           NEW order \in Seqs!SetToSeqs(DOMAIN index[w]),
           NEW list, list = [k \in DOMAIN order |->
                               [doc_id |-> order[k], rank |-> Len(index[w][order[k]])]]
    PROVE  list \in Seq(Result) /\ ResultsFor(list, 1, Len(list))
<1>1. w \in QueryWords /\ 1 \in 1..l
  BY QueryIs
<1>2. PICK D : D = DOMAIN index[w]
  OBVIOUS
<1>3. D \subseteq Numbers /\ D # {}
  BY <1>2 DEF IndexInv
<1>4. IsFiniteSet(D)
  <2>1. PICK m \in Int : m = doc_table.max_id - 1
    BY FilesFinite DEF Numbering
  <2>2. D \in SUBSET (1..m)
    BY <1>3, <2>1 DEF Numbers
  <2>3. IsFiniteSet(1..m)
    BY FS_Interval
  <2> QED BY <2>2, <2>3, FS_Subset
<1>5. PICK n \in Nat : n = Cardinality(D)
  BY <1>4, FS_CardinalityType
<1>6. /\ order \in [1..n -> D]
      /\ \A p, q \in 1..n : order[p] = order[q] => p = q
  <2>1. order \in Seqs!SetToSeqs(D)
    BY <1>2
  <2>2. Seqs!Cardinality(D) = Cardinality(D)
    BY DEF Seqs!Cardinality, Cardinality, Seqs!IsFiniteSet, IsFiniteSet
  <2> QED BY <1>5, <2>1, <2>2 DEF Seqs!SetToSeqs
<1>7. \A d \in D : \E k \in 1..n : order[k] = d
  <2>1. order \in Injection(1..n, D)
    BY <1>6, Fun_IsInj
  <2>2. IsFiniteSet(1..n) /\ Cardinality(1..n) = n
    BY <1>5, FS_Interval
  <2>3. order \in Surjection(1..n, D)
    BY <1>4, <1>5, <2>1, <2>2, FS_Injection
  <2> QED BY <2>3 DEF Surjection
<1>8. /\ DOMAIN list = 1..n
      /\ \A k \in 1..n : /\ list[k].doc_id = order[k]
                         /\ list[k] = [doc_id |-> order[k], rank |-> Len(index[w][order[k]])]
  BY <1>6
<1>9. ASSUME NEW d \in D
      PROVE  /\ d \in Nat \ {0} /\ d \in Numbers /\ NameOf(d) \in Wanted(1)
             /\ Len(index[w][d]) = Total(NameOf(d), 1) /\ Len(index[w][d]) \in Nat \ {0}
  <2>1. PICK f : f = NameOf(d)
    OBVIOUS
  <2>2. /\ d \in Numbers /\ f \in Handled /\ NumberOf(f) = d
    BY <1>2, <2>1, PostingIs
  <2>3. Postings(w) = index[w]
    BY DEF Postings
  <2>4. /\ Count[f][w] \in Nat /\ Count[f][w] > 0
        /\ Len(index[w][d]) = Count[f][w]
    BY <1>1, <1>2, <2>2, <2>3, IndexCount
  <2>5. f \in Wanted(1)
    BY <2>2, <2>4 DEF Wanted
  <2>6. Total(f, 1) = Count[f][w]
    <3>1. Total(f, 0) = 0 /\ Total(f, 1) = Total(f, 1 - 1) + Count[f][query[1]]
      BY <1>1, <2>2, TotalIs
    <3> QED BY <2>4, <3>1
  <2>7. d \in Nat \ {0}
    BY <2>2, FilesFinite DEF Numbers, Numbering
  <2> QED BY <2>1, <2>2, <2>4, <2>5, <2>6, <2>7
<1>10. ASSUME NEW k \in 1..n
       PROVE  list[k] \in Result /\ ResultFor(list[k], 1)
  <2>1. PICK d \in D : d = order[k]
    BY <1>6
  <2>2. list[k] = [doc_id |-> d, rank |-> Len(index[w][d])]
    BY <1>8, <2>1
  <2>3. PICK r : r = Len(index[w][d])
    OBVIOUS
  <2>4. list[k].doc_id = d /\ list[k].rank = r /\ list[k] = [doc_id |-> d, rank |-> r]
    BY <2>2, <2>3
  <2> QED BY <1>9, <2>3, <2>4 DEF Result, ResultFor
<1>11. ASSUME NEW f \in Wanted(1) PROVE \E m \in 1..n : NameOf(list[m].doc_id) = f
  <2>1. f \in Handled /\ Count[f][w] > 0
    BY DEF Wanted
  <2>2. PICK d : d = NumberOf(f)
    OBVIOUS
  <2>3. d \in D /\ NameOf(d) = f
    <3>1. NumberOf(f) \in DOMAIN Postings(w)
      BY <1>1, <2>1, IndexCount
    <3>2. NameOf(NumberOf(f)) = f
      BY <2>1 DEF Numbering
    <3> QED BY <1>2, <2>2, <3>1, <3>2 DEF Postings
  <2> QED BY <1>7, <1>8, <2>3
<1>12. list \in Seq(Result) /\ Len(list) = n
  <2>1. list = [k \in 1..n |-> list[k]]
    BY <1>6
  <2>2. list \in [1..n -> Result]
    BY <1>10, <2>1
  <2> QED BY <2>2, SeqDef, LenProperties
<1>13. ResultsFor(list, 1, n)
  <2>1. \A m \in DOMAIN list : m <= n
    BY <1>8
  <2>2. \A m \in DOMAIN list : ResultFor(list[m], IF m <= n THEN 1 ELSE 1 - 1)
    BY <1>8, <1>10, <2>1
  <2>3. \A m, p \in DOMAIN list : m # p => list[m].doc_id # list[p].doc_id
    BY <1>6, <1>8
  <2>4. \A f \in Wanted(1) : \E m \in DOMAIN list : NameOf(list[m].doc_id) = f
    BY <1>8, <1>11
  <2> QED BY <2>2, <2>3, <2>4 DEF ResultsFor
<1> QED BY <1>12, <1>13

LEMMA SearchFirstWord ==
    ASSUME CrawlInv, Numbering, IndexInv, SearchInv, FirstWord
    PROVE  SearchInv'
<1>1. /\ phase = "search" /\ phase' = "search" /\ i = 0 /\ i' = 1 /\ query # <<>>
      /\ query[1] \in DOMAIN index
      /\ UNCHANGED <<fs, doc_table, index, query, at, left, printed>>
  BY DEF FirstWord, crawl_vars
<1>2. query \in Queries /\ printed = NoAnswer /\ left = 0 /\ at \in Nat /\ left \in Nat
  BY <1>1 DEF SearchInv, Searching
<1>3. PICK l \in Nat : l = Len(query) /\ l > 0
  <2>1. PICK q \in Queries : q = query
    BY <1>2
  <2>2. IsSeq(q) /\ q # <<>>
    BY <1>1, <2>1, DataAssumption
  <2> QED BY <2>1, <2>2, EmptySeq, LenProperties DEF IsSeq
<1>4. PICK w : w = query[1]
  OBVIOUS
<1>5. PICK order \in Seqs!SetToSeqs(DOMAIN index[w]) :
          results' = [k \in DOMAIN order |->
                        [doc_id |-> order[k], rank |-> Len(index[w][order[k]])]]
  BY <1>4 DEF FirstWord
<1>6. PICK list : list = results'
  OBVIOUS
<1>7. list \in Seq(Result) /\ ResultsFor(list, 1, Len(list)) /\ Finished
  BY <1>1, <1>2, <1>3, <1>4, <1>5, <1>6, FirstResults DEF Finished
<1>8. ResultsFor(list, 1, Len(list))'
  BY <1>1, <1>7, ResultsQuiet
<1>9. PICK n \in Nat : n = Len(list)
  BY <1>7, LenProperties
<1>10. Searching'
  <2>1. ResultsFor(results, i, Len(results) - left)'
    BY <1>1, <1>2, <1>6, <1>8, <1>9
  <2>2. ASSUME NEW j \in 1..1 PROVE query'[j] \in DOMAIN index'
    BY <1>1, <2>2
  <2> QED BY <1>1, <1>2, <1>3, <1>6, <1>9, <2>1, <2>2 DEF Searching
<1> QED BY <1>1, <1>2, <1>6, <1>7, <1>10 DEF SearchInv

\* What the loop over the results finds at its next one: a document of the words before,
\* and in the list of the new word just if it has it.
LEMMA NextResult ==
    ASSUME CrawlInv, Numbering, IndexInv, SearchInv, phase = "filter", left > 0
    PROVE  /\ at \in DOMAIN results /\ i \in 2..Len(query) /\ query[i] \in DOMAIN index
           /\ results[at].doc_id \in Nat \ {0}
           /\ NameOf(results[at].doc_id) \in Wanted(i - 1)
           /\ results[at].rank = Total(NameOf(results[at].doc_id), i - 1)
           /\ results[at].doc_id \in DOMAIN index[query[i]] <=>
                 NameOf(results[at].doc_id) \in Wanted(i)
           /\ results[at].doc_id \in DOMAIN index[query[i]] =>
                 results[at].rank + Len(index[query[i]][results[at].doc_id]) =
                    Total(NameOf(results[at].doc_id), i)
<1>1. /\ Searching /\ Finished /\ results \in Seq(Result) /\ i \in Nat /\ left \in Nat
  BY DEF SearchInv, Finished
<1>2. PICK n \in Nat : n = Len(results) /\ DOMAIN results = 1..n
                       /\ \A k \in 1..n : results[k] \in Result
  BY <1>1, LenProperties
<1>3. /\ query \in Queries /\ i \in 2..Len(query) /\ left <= n /\ at = n - left + 1
      /\ query[i] \in DOMAIN index /\ ResultsFor(results, i, n - left)
  BY <1>1, <1>2, QueryIs DEF Searching
<1>4. at \in 1..n /\ ~(at <= n - left)
  BY <1>1, <1>2, <1>3
<1>5. ResultFor(results[at], i - 1)
  BY <1>2, <1>3, <1>4 DEF ResultsFor
<1>6. PICK d, f, w : d = results[at].doc_id /\ f = NameOf(d) /\ w = query[i]
  OBVIOUS
<1>7. d \in Nat \ {0}
  BY <1>2, <1>4, <1>6 DEF Result
<1>8. /\ f \in Handled /\ f \in Wanted(i - 1) /\ NumberOf(f) = d
      /\ results[at].rank = Total(f, i - 1)
  <2>1. PICK r, k : r = results[at] /\ k = i - 1
    OBVIOUS
  <2>2. ResultFor(r, k)
    BY <1>5, <2>1
  <2>3. /\ NameOf(r.doc_id) \in Handled /\ NameOf(r.doc_id) \in Wanted(k)
        /\ NumberOf(NameOf(r.doc_id)) = r.doc_id
        /\ r.rank = Total(NameOf(r.doc_id), k)
    BY <1>1, <2>2, ResultDoc
  <2> QED BY <1>6, <2>1, <2>3
<1>9. w \in QueryWords /\ Postings(w) = index[w] /\ i \in 1..Len(query)
  BY <1>3, <1>6, QueryIs DEF Postings
<1>10. /\ Count[f][w] \in Nat
       /\ d \in DOMAIN index[w] <=> Count[f][w] > 0
       /\ Count[f][w] > 0 => Len(index[w][d]) = Count[f][w]
  BY <1>1, <1>8, <1>9, IndexCount
<1>11. Total(f, i) = Total(f, i - 1) + Count[f][w]
  BY <1>3, <1>6, <1>8, <1>9, TotalIs
<1>12. f \in Wanted(i) <=> Count[f][w] > 0
  <2>1. \A j \in 1..i : j \in 1..(i - 1) \/ j = i
    BY <1>1
  <2>2. i \in 1..i
    BY <1>3
  <2> QED BY <1>6, <1>8, <2>1, <2>2 DEF Wanted
<1>13. d \in DOMAIN index[w] <=> f \in Wanted(i)
  BY <1>10, <1>12
<1>14. ASSUME d \in DOMAIN index[w]
       PROVE  results[at].rank + Len(index[w][d]) = Total(f, i)
  BY <1>8, <1>10, <1>11, <1>14
<1> QED BY <1>2, <1>3, <1>4, <1>6, <1>7, <1>8, <1>13, <1>14

LEMMA SearchFilter ==
    ASSUME CrawlInv, Numbering, IndexInv, SearchInv, Filter
    PROVE  SearchInv' /\ phase' = "filter"
<1>1. /\ phase = "filter" /\ left > 0 /\ left' = left - 1
      /\ UNCHANGED <<fs, doc_table, index, query, i, printed>>
  BY DEF Filter, crawl_vars
<1>2. PICK n \in Nat : /\ n = Len(results) /\ DOMAIN results = 1..n
                       /\ \A k \in 1..n : results[k] \in Result
  BY LenProperties DEF SearchInv
<1>3. /\ results \in Seq(Result) /\ i \in Nat /\ left \in 1..n /\ at = n - left + 1 /\ at \in 1..n
      /\ ResultsFor(results, i, n - left) /\ Searching
  BY <1>1, <1>2 DEF SearchInv, Searching
<1>4. PICK d, f, w : d = results[at].doc_id /\ f = NameOf(d) /\ w = query[i]
  OBVIOUS
<1>5. /\ at \in DOMAIN results /\ i \in 2..Len(query) /\ w \in DOMAIN index
      /\ d \in Nat \ {0} /\ f \in Wanted(i - 1) /\ results[at].rank = Total(f, i - 1)
      /\ d \in DOMAIN index[w] <=> f \in Wanted(i)
      /\ d \in DOMAIN index[w] => results[at].rank + Len(index[w][d]) = Total(f, i)
  BY <1>1, <1>4, NextResult
<1>6. /\ phase' = "filter"
      /\ IF d \in DOMAIN index[w]
         THEN /\ results' = [results EXCEPT ![at].rank = @ + Len(index[w][d])]
              /\ at' = at + 1
         ELSE /\ results' = Seqs!RemoveAt(results, at)
              /\ at' = IF at = n THEN at - 1 ELSE at
  BY <1>1, <1>2, <1>4, <1>5 DEF Filter, LLIterator_Remove
<1>7. /\ \A m \in 1..(n - left) : ResultFor(results[m], i)
      /\ \A m \in 1..n : m > n - left => ResultFor(results[m], i - 1)
      /\ \A m, p \in 1..n : m # p => results[m].doc_id # results[p].doc_id
      /\ \A g \in Wanted(i) : \E m \in 1..n : NameOf(results[m].doc_id) = g
  <2>1. ASSUME NEW m \in 1..(n - left) PROVE ResultFor(results[m], i)
    <3>1. m \in 1..n /\ m <= n - left
      BY <1>3
    <3> QED BY <1>2, <1>3, <3>1 DEF ResultsFor
  <2>2. ASSUME NEW m \in 1..n, m > n - left PROVE ResultFor(results[m], i - 1)
    <3>1. ~(m <= n - left)
      BY <1>3, <2>2
    <3> QED BY <1>2, <1>3, <3>1 DEF ResultsFor
  <2> QED BY <1>2, <1>3, <2>1, <2>2 DEF ResultsFor
<1>8. PICK list, c, a : list = results' /\ c = n - left /\ a = at
  OBVIOUS
<1>9. c \in 0..(n - 1) /\ a = c + 1 /\ a \in 1..n
  BY <1>3, <1>8
<1>10. CASE d \in DOMAIN index[w]
  <2>1. PICK k : k = results[at].rank + Len(index[w][d])
    OBVIOUS
  <2>2. k = Total(f, i) /\ k \in Nat \ {0}
    <3>1. k = Total(f, i)
      BY <1>5, <1>10, <2>1
    <3>2. query \in Queries /\ f \in Handled /\ i \in 0..Len(query) /\ i \in 1..Len(query)
      BY <1>3, <1>5 DEF Searching, Wanted
    <3>3. Total(f, i) \in Nat
      BY <3>2, TotalIs
    <3>4. Total(f, i) = Total(f, i - 1) + Count[f][query[i]]
      BY <3>2, TotalIs
    <3>5. i \in 1..i
      BY <3>2, QueryIs
    <3>6. Count[f][query[i]] > 0
      BY <1>5, <1>10, <3>5 DEF Wanted
    <3>7. /\ Count[f][query[i]] \in Nat
      BY <3>2, CountIs, QueryIs DEF CrawlInv
    <3>8. results[at].rank \in Nat /\ results[at].rank = Total(f, i - 1)
      BY <1>2, <1>3, <1>5 DEF Result
    <3> QED BY <3>1, <3>3, <3>4, <3>6, <3>7, <3>8
  <2>3. /\ DOMAIN list = 1..n
        /\ \A m \in 1..n : m # a => list[m] = results[m]
        /\ list[a] = [results[a] EXCEPT !.rank = k]
    BY <1>2, <1>6, <1>8, <1>9, <1>10, <2>1
  <2>4. list[a] \in Result /\ list[a].doc_id = d /\ list[a].rank = k
    BY <1>2, <1>4, <1>8, <1>9, <2>2, <2>3 DEF Result
  <2>5. list \in Seq(Result) /\ Len(list) = n
    <3>1. \A m \in 1..n : list[m] \in Result
      BY <1>2, <2>3, <2>4
    <3>2. list = [m \in 1..n |-> list[m]]
      BY <1>2, <1>6, <1>8, <1>10
    <3>3. list \in [1..n -> Result]
      BY <3>1, <3>2
    <3> QED BY <3>3, SeqDef, LenProperties
  <2>6. ResultFor(list[a], i)
    <3>1. d \in Numbers
      BY <1>3, <1>4, <1>7, <1>9, <1>8 DEF ResultFor
    <3> QED BY <1>4, <1>5, <1>10, <2>2, <2>4, <3>1 DEF ResultFor
  <2>7. \A m \in 1..n : list[m].doc_id = results[m].doc_id
    BY <1>4, <1>8, <2>3, <2>4
  <2>8. ASSUME NEW m \in 1..n PROVE ResultFor(list[m], IF m <= c + 1 THEN i ELSE i - 1)
    <3>1. CASE m = a
      BY <1>9, <2>6, <3>1
    <3>2. CASE m < a
      <4>1. m \in 1..(n - left) /\ m <= c + 1 /\ m # a
        BY <1>8, <1>9, <3>2
      <4> QED BY <1>7, <2>3, <4>1
    <3>3. CASE m > a
      <4>1. m > n - left /\ ~(m <= c + 1) /\ m # a
        BY <1>8, <1>9, <3>3
      <4> QED BY <1>7, <2>3, <4>1
    <3> QED BY <1>9, <3>1, <3>2, <3>3
  <2>9. ResultsFor(list, i, c + 1)
    <3>1. \A m, p \in DOMAIN list : m # p => list[m].doc_id # list[p].doc_id
      BY <1>7, <2>3, <2>7
    <3>2. \A g \in Wanted(i) : \E m \in DOMAIN list : NameOf(list[m].doc_id) = g
      BY <1>7, <2>3, <2>7
    <3> QED BY <2>3, <2>8, <3>1, <3>2 DEF ResultsFor
  <2>10. ResultsFor(list, i, c + 1)'
    <3>1. PICK k2, c2 : k2 = i /\ c2 = c + 1
      OBVIOUS
    <3>2. ResultsFor(list, k2, c2)'
      BY <1>1, <2>9, <3>1, ResultsQuiet
    <3> QED BY <1>1, <3>1, <3>2
  <2>11. Searching'
    <3>1. Len(results') = n /\ left' = left - 1 /\ n - (left - 1) = c + 1 /\ at' = at + 1
      BY <1>1, <1>3, <1>6, <1>8, <1>10, <2>5
    <3>2. ResultsFor(results, i, Len(results) - left)'
      BY <1>8, <2>10, <3>1
    <3>3. left' <= Len(results') /\ (left' > 0 => at' = Len(results') - left' + 1)
      BY <1>3, <3>1
    <3>4. /\ query \in Queries /\ printed = NoAnswer /\ i \in 0..Len(query) /\ i >= 2
          /\ \A j \in 1..i : query[j] \in DOMAIN index
      BY <1>1, <1>3 DEF Searching
    <3> QED BY <1>1, <1>3, <1>6, <3>2, <3>3, <3>4 DEF Searching
  <2> QED BY <1>1, <1>3, <1>6, <1>8, <1>10, <2>5, <2>11 DEF SearchInv
<1>11. CASE d \notin DOMAIN index[w]
  <2>1. /\ list \in Seq(Result) /\ Len(list) = n - 1 /\ DOMAIN list = 1..(n - 1)
        /\ \A l \in 1..(n - 1) : list[l] = IF l < a THEN results[l] ELSE results[l + 1]
    <3>1. PICK s : s = results
      OBVIOUS
    <3>2. /\ Seqs!RemoveAt(s, a) \in Seq(Result)
          /\ Len(Seqs!RemoveAt(s, a)) = Len(s) - 1
          /\ DOMAIN Seqs!RemoveAt(s, a) = 1..(Len(s) - 1)
          /\ \A l \in 1..(Len(s) - 1) :
                Seqs!RemoveAt(s, a)[l] = IF l < a THEN s[l] ELSE s[l + 1]
      BY <1>2, <1>3, <1>9, <3>1, RemoveAtIs
    <3>3. list = Seqs!RemoveAt(s, a)
      BY <1>6, <1>8, <1>11, <3>1
    <3> QED BY <1>2, <3>1, <3>2, <3>3
  <2>2. ASSUME NEW m \in 1..(n - 1) PROVE ResultFor(list[m], IF m <= c THEN i ELSE i - 1)
    <3>1. CASE m <= c
      <4>1. m < a /\ m \in 1..(n - left)
        BY <1>8, <1>9, <3>1
      <4> QED BY <1>7, <2>1, <3>1, <4>1
    <3>2. CASE ~(m <= c)
      <4>1. ~(m < a) /\ m + 1 \in 1..n /\ m + 1 > n - left
        BY <1>8, <1>9, <3>2
      <4> QED BY <1>7, <2>1, <3>2, <4>1
    <3> QED BY <3>1, <3>2
  <2>3. ASSUME NEW m \in 1..(n - 1), NEW p \in 1..(n - 1), m # p
        PROVE  list[m].doc_id # list[p].doc_id
    <3>1. PICK m1 \in 1..n : m1 = IF m < a THEN m ELSE m + 1
      OBVIOUS
    <3>2. PICK p1 \in 1..n : p1 = IF p < a THEN p ELSE p + 1
      OBVIOUS
    <3>3. list[m] = results[m1] /\ list[p] = results[p1] /\ m1 # p1
      BY <1>9, <2>1, <2>3, <3>1, <3>2
    <3> QED BY <1>7, <3>3
  <2>4. ASSUME NEW g \in Wanted(i) PROVE \E m \in 1..(n - 1) : NameOf(list[m].doc_id) = g
    <3>1. PICK m \in 1..n : NameOf(results[m].doc_id) = g
      BY <1>7
    <3>2. m # a
      BY <1>4, <1>5, <1>8, <1>11, <3>1
    <3>3. PICK l : l = IF m < a THEN m ELSE m - 1
      OBVIOUS
    <3>4. l \in 1..(n - 1) /\ list[l] = results[m]
      BY <1>9, <2>1, <3>2, <3>3
    <3> QED BY <3>1, <3>4
  <2>5. ResultsFor(list, i, c)
    BY <2>1, <2>2, <2>3, <2>4 DEF ResultsFor
  <2>6. ResultsFor(list, i, c)'
    <3>1. PICK k2 : k2 = i
      OBVIOUS
    <3>2. ResultsFor(list, k2, c)'
      BY <1>1, <2>5, <3>1, ResultsQuiet
    <3> QED BY <1>1, <3>1, <3>2
  <2>7. /\ Len(results') = n - 1 /\ left' = left - 1 /\ (n - 1) - (left - 1) = c
        /\ at' \in Nat /\ (left - 1 > 0 => at' = (n - 1) - (left - 1) + 1)
    BY <1>1, <1>3, <1>6, <1>8, <1>11, <2>1
  <2>8. Searching'
    <3>1. ResultsFor(results, i, Len(results) - left)'
      BY <1>8, <2>6, <2>7
    <3>2. left' <= Len(results') /\ (left' > 0 => at' = Len(results') - left' + 1)
      BY <1>3, <2>7
    <3>3. /\ query \in Queries /\ printed = NoAnswer /\ i \in 0..Len(query) /\ i >= 2
          /\ \A j \in 1..i : query[j] \in DOMAIN index
      BY <1>1, <1>3 DEF Searching
    <3> QED BY <1>1, <1>3, <1>6, <3>1, <3>2, <3>3 DEF Searching
  <2> QED BY <1>1, <1>3, <1>6, <1>8, <2>1, <2>7, <2>8 DEF SearchInv
<1> QED BY <1>6, <1>10, <1>11

LEMMA SearchWordDone ==
    ASSUME SearchInv, WordDone
    PROVE  SearchInv'
<1>1. /\ phase = "filter" /\ left = 0
      /\ UNCHANGED <<fs, doc_table, index, query, i, results, at, left>>
      /\ IF results = <<>> THEN phase' = "answered" /\ printed' = <<>>
                           ELSE phase' = "search" /\ UNCHANGED printed
  BY DEF WordDone, crawl_vars
<1>2. Searching /\ query \in Queries
  BY <1>1 DEF SearchInv, Searching
<1>3. <<>> # NoAnswer
  BY DataAssumption, EmptySeq
<1>4. CASE results # <<>>
  <2>1. \A list, k, done : ResultsFor(list, k, done) => ResultsFor(list, k, done)'
    BY <1>1, ResultsQuiet
  <2>2. i > 0 => ResultsFor(results, i, Len(results) - left)'
    BY <1>1, <1>2, <2>1 DEF Searching
  <2>3. Searching'
    BY <1>1, <1>2, <1>4, <2>2 DEF Searching
  <2> QED BY <1>1, <1>4, <2>3 DEF SearchInv
<1> QED BY <1>1, <1>2, <1>3, <1>4 DEF SearchInv

\* The documents that match are those that the index has for every word.
LEMMA MatchesIs ==
    ASSUME CrawlInv, Numbering, IndexInv, Finished, query \in Queries, query # <<>>
    PROVE  Ranked!Matches(query) = Wanted(Len(query))
<1>1. /\ Len(query) \in Nat /\ DOMAIN query = 1..Len(query) /\ 1 \in 1..Len(query)
      /\ \A k \in 1..Len(query) : query[k] \in QueryWords
  <2>1. PICK q \in Queries : q = query
    OBVIOUS
  <2>2. IsSeq(q) /\ q # <<>>
    BY <2>1, DataAssumption
  <2>3. Len(q) \in Nat /\ 1 \in 1..Len(q)
    BY <2>2, EmptySeq, LenProperties DEF IsSeq
  <2> QED BY <2>1, <2>3, QueryIs
<1>2. DOMAIN Count = Reached
  BY DEF Count
<1>3. ASSUME NEW f \in Reached, \A k \in DOMAIN query : Count[f][query[k]] > 0
      PROVE  f \in Handled
  <2> SUFFICES ASSUME f \notin Handled PROVE FALSE
    OBVIOUS
  <2>1. PICK w \in QueryWords : w = query[1]
    BY <1>1
  <2>2. IsSeq(w) /\ (Count[f][w] > 0 <=> Occur(f, w, FALSE) # {})
    BY CountIs
  <2>3. Occur(f, w, FALSE) = {}
    BY <2>2, NotHandled
  <2>4. Count[f][w] > 0
    BY <1>1, <1>3, <2>1
  <2> QED BY <2>2, <2>3, <2>4
<1>4. Handled \subseteq Reached
  BY DEF CrawlInv
<1> QED BY <1>1, <1>2, <1>3, <1>4 DEF Ranked!Matches, Wanted

\* The answer that says that nothing matches.
LEMMA NothingMatches ==
    ASSUME Ranked!Matches(query) = {}
    PROVE  Ranked!IsRanking(<<>>, query)
<1>1. DOMAIN <<>> = {}
  OBVIOUS
<1> QED BY <1>1 DEF Ranked!IsRanking

LEMMA AnswerNoSuchWord ==
    ASSUME CrawlInv, Numbering, IndexInv, SearchInv, NoSuchWord
    PROVE  Ranked!Reply
<1>1. /\ phase = "search" /\ printed' = <<>> /\ UNCHANGED <<fs, doc_table, query>>
      /\ query = <<>> \/ (i < Len(query) /\ query[i + 1] \notin DOMAIN index)
  BY DEF NoSuchWord, crawl_vars
<1>2. query \in Queries /\ query # NoQuery /\ printed = NoAnswer /\ i \in 0..Len(query) /\ Finished
  BY <1>1, QueryIs DEF SearchInv, Searching, Finished
<1>3. Ranked!Matches(query) = {}
  <2>1. CASE query = <<>>
    BY <2>1 DEF Ranked!Matches
  <2>2. CASE i < Len(query) /\ query[i + 1] \notin DOMAIN index
    <3>1. i + 1 \in 1..Len(query) /\ i + 1 \in DOMAIN query
      BY <1>2, <2>2, QueryIs
    <3>2. PICK w \in QueryWords : w = query[i + 1]
      BY <1>2, <3>1, QueryIs
    <3>3. \A f \in Reached : ~(Count[f][w] > 0)
      BY <1>2, <2>2, <3>2, UnknownWord
    <3> QED BY <3>1, <3>2, <3>3 DEF Ranked!Matches, Count
  <2> QED BY <1>1, <2>1, <2>2
<1>4. printed' # NoAnswer
  BY <1>1, DataAssumption, EmptySeq
<1>5. Ranked!IsRanking(printed', query)
  BY <1>1, <1>3, NothingMatches
<1>6. Count' = Count
  BY <1>1, SearchQuiet
<1> QED BY <1>1, <1>2, <1>4, <1>5, <1>6 DEF Ranked!Reply

LEMMA AnswerWordDone ==
    ASSUME CrawlInv, Numbering, IndexInv, SearchInv, WordDone, results = <<>>
    PROVE  Ranked!Reply
<1>1. /\ phase = "filter" /\ left = 0 /\ printed' = <<>> /\ UNCHANGED <<fs, doc_table, query>>
  BY DEF WordDone, crawl_vars
<1>2. /\ query \in Queries /\ query # NoQuery /\ printed = NoAnswer /\ i \in 2..Len(query)
      /\ ResultsFor(results, i, 0) /\ Finished
  <2>1. Len(<<>>) - 0 = 0
    BY EmptySeq
  <2> QED BY <1>1, <2>1, QueryIs DEF SearchInv, Searching, Finished
<1>3. Wanted(i) = {}
  <2>1. DOMAIN results = {}
    OBVIOUS
  <2> QED BY <1>2, <2>1 DEF ResultsFor
<1>4. Wanted(Len(query)) \subseteq Wanted(i)
  <2>1. \A j \in 1..i : j \in 1..Len(query)
    BY <1>2, QueryIs
  <2> QED BY <2>1 DEF Wanted
<1>5. Ranked!Matches(query) = {}
  <2>1. query # <<>>
    BY <1>2, EmptySeq
  <2> QED BY <1>2, <1>3, <1>4, <2>1, MatchesIs
<1>6. printed' # NoAnswer
  BY <1>1, DataAssumption, EmptySeq
<1>7. Ranked!IsRanking(printed', query)
  BY <1>1, <1>5, NothingMatches
<1>8. Count' = Count
  BY <1>1, SearchQuiet
<1> QED BY <1>1, <1>2, <1>6, <1>7, <1>8 DEF Ranked!Reply

\* The sorted results are printed: they rank what matches.
LEMMA AnswerSorted ==
    ASSUME CrawlInv, Numbering, IndexInv, SearchInv, Answer
    PROVE  SearchInv' /\ Ranked!Reply
<1>1. /\ phase = "search" /\ phase' = "answered" /\ i = Len(query) /\ i > 0
      /\ results' = Sorted(results)
      /\ printed' = [k \in DOMAIN results' |->
                        [doc  |-> doc_table.id_to_name[results'[k].doc_id],
                         rank |-> results'[k].rank]]
      /\ UNCHANGED <<fs, doc_table, query, i, at, left>>
  BY DEF Answer, crawl_vars
<1>2. PICK n \in Nat : /\ n = Len(results) /\ DOMAIN results = 1..n
                       /\ \A k \in 1..n : results[k] \in Result
  BY LenProperties DEF SearchInv
<1>3. /\ query \in Queries /\ query # NoQuery /\ printed = NoAnswer /\ Finished
      /\ left = 0 /\ n - 0 = n /\ ResultsFor(results, i, n - 0) /\ i \in Nat /\ at \in Nat
      /\ left \in Nat /\ query # <<>>
  <2>1. Searching
    BY <1>1 DEF SearchInv
  <2> QED BY <1>1, <1>2, <2>1, QueryIs, EmptySeq DEF SearchInv, Searching, Finished
<1>4. /\ \A m \in 1..n : ResultFor(results[m], i)
      /\ \A m, p \in 1..n : m # p => results[m].doc_id # results[p].doc_id
      /\ \A g \in Wanted(i) : \E m \in 1..n : NameOf(results[m].doc_id) = g
  <2>1. \A m \in 1..n : m <= n - 0
    BY <1>3
  <2> QED BY <1>2, <1>3, <2>1 DEF ResultsFor
<1>5. PICK list, r, a : list = results /\ r = results' /\ a = printed'
  OBVIOUS
<1>6. Ranks(list) /\ DOMAIN list = 1..n
  BY <1>2, <1>5 DEF Ranks, Result
<1>7. PICK f \in [1..n -> 1..n] :
          /\ \A p, q \in 1..n : p # q => f[p] # f[q]
          /\ \A k \in 1..n : \E p \in 1..n : f[p] = k
          /\ DOMAIN Sorted(list) = 1..n
          /\ \A p \in 1..n : Sorted(list)[p] = list[f[p]]
          /\ \A p, q \in 1..n : p < q => list[f[p]].rank >= list[f[q]].rank
  BY <1>6, SortedIs
<1>8. /\ r = Sorted(list) /\ DOMAIN r = 1..n
      /\ \A p \in 1..n : f[p] \in 1..n /\ r[p] = list[f[p]] /\ r[p] \in Result
  <2>1. r = Sorted(list)
    BY <1>1, <1>5
  <2>2. DOMAIN r = 1..n /\ \A p \in 1..n : r[p] = list[f[p]]
    BY <1>7, <2>1
  <2>3. \A p \in 1..n : f[p] \in 1..n /\ list[f[p]] \in Result
    BY <1>2, <1>5
  <2> QED BY <2>1, <2>2, <2>3
<1>9. r \in Seq(Result)
  <2>1. r = [p \in 1..n |-> r[p]]
    BY <1>8 DEF Sorted, InOrder
  <2>2. r \in [1..n -> Result]
    BY <1>8, <2>1
  <2> QED BY <2>2, SeqDef
<1>10. /\ a = [p \in 1..n |-> [doc |-> NameOf(r[p].doc_id), rank |-> r[p].rank]]
  BY <1>1, <1>5, <1>8 DEF NameOf
<1>11. ASSUME NEW p \in 1..n
       PROVE  /\ NameOf(r[p].doc_id) \in Handled /\ NameOf(r[p].doc_id) \in Wanted(i)
              /\ r[p].rank = Total(NameOf(r[p].doc_id), i)
              /\ NumberOf(NameOf(r[p].doc_id)) = r[p].doc_id
              /\ r[p].rank \in Nat
  <2>1. PICK x, k : x = r[p] /\ k = i
    OBVIOUS
  <2>2. ResultFor(x, k)
    BY <1>4, <1>5, <1>8, <2>1
  <2>3. /\ NameOf(x.doc_id) \in Handled /\ NameOf(x.doc_id) \in Wanted(k)
        /\ NumberOf(NameOf(x.doc_id)) = x.doc_id
        /\ x.rank = Total(NameOf(x.doc_id), k)
    BY <1>3, <2>2, ResultDoc
  <2>4. x.rank \in Nat
    BY <1>8, <2>1 DEF Result
  <2> QED BY <2>1, <2>3, <2>4
<1>12. /\ DOMAIN a = 1..n
       /\ \A p \in 1..n : a[p].doc = NameOf(r[p].doc_id) /\ a[p].rank = r[p].rank
  BY <1>10
<1>13. {a[p].doc : p \in DOMAIN a} = Ranked!Matches(query)
  <2>1. Ranked!Matches(query) = Wanted(i)
    BY <1>1, <1>3, MatchesIs
  <2>2. \A p \in 1..n : a[p].doc \in Wanted(i)
    BY <1>11, <1>12
  <2>3. ASSUME NEW g \in Wanted(i) PROVE \E p \in 1..n : a[p].doc = g
    <3>1. PICK m \in 1..n : NameOf(results[m].doc_id) = g
      BY <1>4
    <3>2. PICK p \in 1..n : f[p] = m
      BY <1>7
    <3>3. r[p] = results[m]
      BY <1>5, <1>8, <3>2
    <3> QED BY <1>12, <3>1, <3>3
  <2> QED BY <1>12, <2>1, <2>2, <2>3
<1>14. ASSUME NEW p \in 1..n, NEW q \in 1..n, p # q PROVE a[p].doc # a[q].doc
  <2>1. f[p] # f[q] /\ f[p] \in 1..n /\ f[q] \in 1..n
    BY <1>7, <1>14
  <2>2. PICK k, l \in 1..n : k = f[p] /\ l = f[q]
    BY <2>1
  <2>3. r[p] = results[k] /\ r[q] = results[l]
    BY <1>5, <1>8, <2>2
  <2>4. r[p].doc_id # r[q].doc_id
    BY <1>4, <2>1, <2>2, <2>3
  <2>5. NumberOf(NameOf(r[p].doc_id)) = r[p].doc_id /\ NumberOf(NameOf(r[q].doc_id)) = r[q].doc_id
    BY <1>11
  <2>6. NameOf(r[p].doc_id) # NameOf(r[q].doc_id)
    BY <2>4, <2>5
  <2> QED BY <1>12, <2>6
<1>15. ASSUME NEW p \in 1..n PROVE a[p].rank = Ranked!Rank(a[p].doc, query)
  BY <1>1, <1>11, <1>12 DEF Ranked!Rank, Total
<1>16. ASSUME NEW p \in 1..n, NEW q \in 1..n, p < q PROVE a[p].rank >= a[q].rank
  <2>1. list[f[p]].rank >= list[f[q]].rank
    BY <1>7, <1>16
  <2>2. r[p] = list[f[p]] /\ r[q] = list[f[q]]
    BY <1>8
  <2> QED BY <1>12, <2>1, <2>2
<1>17. Ranked!IsRanking(a, query)
  BY <1>12, <1>13, <1>14, <1>15, <1>16 DEF Ranked!IsRanking
<1>18. a # NoAnswer
  <2>1. \A p \in 1..n : NameOf(r[p].doc_id) \in Paths
    BY <1>11, TreeAssumption DEF CrawlInv, Reached
  <2>2. a \in [1..n -> [doc : Paths, rank : Nat]]
    BY <1>10, <1>11, <2>1
  <2>3. PICK R : R = [doc : Paths, rank : Nat]
    OBVIOUS
  <2>4. a \in [1..n -> R]
    BY <2>2, <2>3
  <2>5. a \in Seq(R)
    BY <2>4, SeqDef
  <2>6. NoAnswer \notin Seq(R)
    BY <2>3, DataAssumption
  <2> QED BY <2>5, <2>6
<1>19. SearchInv'
  BY <1>1, <1>3, <1>5, <1>9, <1>18 DEF SearchInv
<1>20. Count' = Count
  BY <1>1, SearchQuiet
<1> QED BY <1>1, <1>3, <1>5, <1>17, <1>18, <1>19, <1>20 DEF Ranked!Reply

-----------------------------------------------------------------------------
(***************************************************************************)
(* The inductive invariant, and what follows from it.                      *)
(***************************************************************************)
LEMMA IInvInit == Init => IInv
BY CrawlInvInit, NumberingInit, SearchInvInit DEF IInv

\* What a step of the search leaves alone.
LEMMA SearchLeaves ==
    ASSUME CrawlInv, Numbering, IndexInv, Finished, Finished', UNCHANGED <<fs, crawl_vars>>
    PROVE  CrawlInv' /\ Numbering' /\ IndexInv'
<1>1. /\ UNCHANGED <<fs, stack, doc_id, tab, doc_table, index>>
      /\ phase # "add" /\ phase' # "add" /\ phase # "exit" /\ phase' # "exit" /\ InUse'
  BY DEF Finished, InUse, crawl_vars
<1>2. CrawlInv'
  BY <1>1, CrawlQuiet
<1>3. Handled' = Handled
  BY <1>1 DEF Handled
<1> QED BY <1>1, <1>2, <1>3, IndexUnchanged

LEMMA IInvSearch ==
    ASSUME IInv, Search
    PROVE  IInv'
<1>1. CrawlInv /\ Numbering /\ IndexInv /\ SearchInv
  BY DEF IInv
<1>2. Finished /\ UNCHANGED <<fs, crawl_vars>>
  BY DEF Search, NoSuchWord, FirstWord, NextWord, Filter, WordDone, Answer, Finished
<1>3. SearchInv' /\ phase' \in {"search", "filter", "answered"}
  <2>1. CASE NoSuchWord
    BY <1>1, <2>1, SearchNoSuchWord DEF NoSuchWord
  <2>2. CASE FirstWord
    <3>1. phase' = "search"
      BY <2>2 DEF FirstWord
    <3> QED BY <1>1, <2>2, <3>1, SearchFirstWord
  <2>3. CASE NextWord
    BY <1>1, <2>3, SearchNextWord DEF NextWord
  <2>4. CASE Filter
    BY <1>1, <2>4, SearchFilter
  <2>5. CASE WordDone
    <3>1. phase' \in {"search", "answered"}
      BY <2>5 DEF WordDone
    <3> QED BY <1>1, <2>5, <3>1, SearchWordDone
  <2>6. CASE Answer
    <3>1. phase' = "answered"
      BY <2>6 DEF Answer
    <3> QED BY <1>1, <2>6, <3>1, AnswerSorted
  <2> QED BY <2>1, <2>2, <2>3, <2>4, <2>5, <2>6 DEF Search
<1>4. Finished'
  BY <1>3 DEF Finished
<1> QED BY <1>1, <1>2, <1>3, <1>4, SearchLeaves DEF IInv

LEMMA IInvCrawl ==
    ASSUME IInv, Crawl
    PROVE  IInv' /\ UNCHANGED <<fs, search_vars>>
<1>1. CrawlInv /\ Numbering /\ IndexInv /\ SearchInv
  BY DEF IInv
<1>2. /\ UNCHANGED <<fs, search_vars>>
      /\ phase \in {"start", "crawl", "add"}
  BY DEF Crawl, CrawlFileTree, EnterDir, SkipEntry, HasEntry, HandleFile, LeaveDir,
         AddPostingList, FileAdded
<1>3. CASE CrawlFileTree
  <2>1. /\ UNCHANGED <<fs, doc_table, doc_id, tab, index>>
        /\ phase = "start" /\ phase' \in {"crawl", "exit"}
    BY <1>3 DEF CrawlFileTree
  <2>2. CrawlInv'
    BY <1>1, <1>3, CrawlStart
  <2>3. /\ Handled' = Handled /\ Numbers' = Numbers
        /\ \A f : NumberOf(f)' = NumberOf(f) /\ NameOf(f)' = NameOf(f) /\ Table(f)' = Table(f)
        /\ \A w : Postings(w)' = Postings(w)
    BY <2>1 DEF Handled, Numbers, NumberOf, NameOf, Table, Postings
  <2>4. ~InUse /\ Handled = {}
    BY <1>1, <2>1 DEF CrawlInv, InUse
  <2>5. Numbering' /\ IndexInv'
    BY <1>1, <2>1, <2>3, <2>4 DEF Numbering, IndexInv, InUse
  <2>6. SearchInv'
    BY <1>1, <1>2, <2>1, SearchIdle
  <2> QED BY <1>2, <2>2, <2>5, <2>6 DEF IInv
<1>4. CASE EnterDir \/ SkipEntry
  <2>1. /\ UNCHANGED <<fs, phase, doc_table, doc_id, tab, index>> /\ phase = "crawl"
    BY <1>4 DEF EnterDir, SkipEntry, HasEntry
  <2>2. CrawlInv' /\ Handled' = Handled /\ InUse'
    BY <1>1, <1>4, <2>1, CrawlEnterDir, CrawlSkipEntry DEF Handled, InUse
  <2>3. Numbering' /\ IndexInv'
    BY <1>1, <2>1, <2>2, IndexUnchanged
  <2>4. SearchInv'
    BY <1>1, <1>2, <2>1, SearchIdle
  <2> QED BY <1>2, <2>2, <2>3, <2>4 DEF IInv
<1>5. CASE HandleFile
  <2>1. phase' = "add"
    BY <1>5 DEF HandleFile
  <2> QED BY <1>1, <1>2, <1>5, <2>1, CrawlHandleFile, IndexHandleFile, SearchIdle DEF IInv
<1>6. CASE LeaveDir
  <2>1. /\ UNCHANGED <<fs, doc_table, doc_id, tab, index>>
        /\ phase = "crawl" /\ phase' \in {"crawl", "ready"}
    BY <1>6 DEF LeaveDir
  <2>2. CrawlInv' /\ Handled' = Handled /\ InUse'
    BY <1>1, <1>6, <2>1, CrawlLeaveDir DEF Handled, InUse
  <2>3. Numbering' /\ IndexInv'
    BY <1>1, <2>1, <2>2, IndexUnchanged
  <2>4. SearchInv'
    BY <1>1, <1>2, <2>1, SearchIdle
  <2> QED BY <1>2, <2>2, <2>3, <2>4 DEF IInv
<1>7. CASE AddPostingList
  <2>1. phase' = "add" /\ Numbering' /\ IndexInv'
    BY <1>1, <1>7, IndexAdd
  <2> QED BY <1>1, <1>2, <1>7, <2>1, CrawlAdd, SearchIdle DEF IInv
<1>8. CASE FileAdded
  <2>1. phase' = "crawl"
    BY <1>8 DEF FileAdded
  <2> QED BY <1>1, <1>2, <1>8, <2>1, CrawlAdd, IndexFileAdded, SearchIdle DEF IInv
<1> QED BY <1>3, <1>4, <1>5, <1>6, <1>7, <1>8 DEF Crawl

LEMMA IInvNext ==
    ASSUME IInv, [Next]_vars
    PROVE  IInv'
<1>1. CrawlInv /\ Numbering /\ IndexInv /\ SearchInv
  BY DEF IInv
<1>2. CASE Crawl
  BY <1>2, IInvCrawl
<1>3. CASE Search
  BY <1>3, IInvSearch
<1>4. ASSUME NEW q \in Queries, ProcessQueries(q) PROVE IInv'
  <2>1. phase \in {"ready", "answered"} /\ phase' = "search" /\ UNCHANGED <<fs, crawl_vars>>
    BY <1>4 DEF ProcessQueries
  <2>2. Finished /\ Finished'
    BY <2>1 DEF Finished
  <2> QED BY <1>1, <1>4, <2>1, <2>2, SearchLeaves, SearchStart DEF IInv
<1>5. CASE EndOfInput
  <2>1. phase' = "exit" /\ UNCHANGED search_vars
    BY <1>5 DEF EndOfInput
  <2> QED BY <1>1, <1>5, <2>1, CrawlEnd, IndexEnd, SearchIdle DEF IInv
<1>6. CASE UNCHANGED vars
  <2>1. UNCHANGED <<fs, stack, phase, doc_table, doc_id, tab, index>>
    BY <1>6 DEF vars, crawl_vars
  <2>2. Handled' = Handled /\ (InUse => InUse')
    BY <2>1 DEF Handled, InUse
  <2> QED BY <1>1, <1>6, <2>1, <2>2, CrawlQuiet, IndexUnchanged, SearchStutter DEF IInv
<1> QED BY <1>2, <1>3, <1>4, <1>5, <1>6 DEF Next, Stopped

LEMMA Invariance == Spec => []IInv
<1>1. IInv /\ [Next]_vars => IInv'
  BY IInvNext
<1> QED BY IInvInit, <1>1, PTL DEF Spec

\* The tables and the lists keep their types: postings are non-empty and ascending, and
\* ids are those of the document table (MemIndex.c, DocTable.c).
THEOREM TypesHold == Spec => []TypeOK
<1>1. IInv => TypeOK
  <2> SUFFICES ASSUME IInv PROVE TypeOK
    OBVIOUS
  <2>1. CrawlInv /\ Numbering /\ IndexInv /\ SearchInv
    BY DEF IInv
  <2>2. /\ phase \in {"start", "crawl", "add", "ready", "search", "filter", "answered",
                      "exit", "aborted"}
        /\ i \in Nat /\ left \in Nat /\ at \in Nat
        /\ results \in Seq(Result)
    BY <2>1 DEF SearchInv
  <2>3. \A k \in DOMAIN results : results[k].doc_id \in Nat \ {0} /\ results[k].rank \in Nat \ {0}
    <3>1. \A k \in DOMAIN results : results[k] \in Result
      BY <2>2, LenProperties
    <3> QED BY <3>1 DEF Result
  <2>4. stack \in Seq(SUBSET Paths)
    BY <2>1 DEF CrawlInv, TreeInv, IsStack
  <2>5. /\ doc_table.max_id \in 1..(Cardinality(Files) + 1)
        /\ DOMAIN doc_table.id_to_name \subseteq 1..(doc_table.max_id - 1)
    <3>1. phase = "exit" \/ phase = "start" \/ InUse
      BY DEF InUse
    <3> QED BY <2>1, <3>1 DEF Numbering, Numbers
  <2>6. DOMAIN doc_table.name_to_id \subseteq Files
    BY <2>1 DEF CrawlInv, Handled, Reached
  <2>7. ASSUME NEW w \in DOMAIN index
        PROVE  index[w] # NoWords /\ DOMAIN index[w] \subseteq 1..(doc_table.max_id - 1)
    BY <2>1 DEF IndexInv, Numbers, NoWords
  <2>8. ASSUME NEW w \in DOMAIN index, NEW d \in DOMAIN index[w]
        PROVE  /\ index[w][d] # <<>>
               /\ \A k, m \in DOMAIN index[w][d] : k < m => index[w][d][k] < index[w][d][m]
    <3>1. PICK ps : ps = index[w][d]
      OBVIOUS
    <3>2. GoodList(ps)
      BY <2>1, <3>1, PostingIs
    <3> QED BY <3>1, <3>2 DEF GoodList, Ascending
  <2> QED BY <2>2, <2>3, <2>4, <2>5, <2>6, <2>7, <2>8 DEF TypeOK
<1> QED BY Invariance, <1>1, PTL

\* No Verify333 of AddPostingList or LLIterator_Get (MemIndex.c, LinkedList.c) fails.
THEOREM NeverAborts == Spec => []NoAbort
<1>1. IInv => NoAbort
  BY DEF IInv, CrawlInv, NoAbort
<1> QED BY Invariance, <1>1, PTL

\* The index is the inverse of the files that the crawl can get at (CrawlFileTree.c,
\* FileParser.c, DocTable.c, MemIndex.c).
THEOREM IndexIsInverse == Spec => []IndexInvertsFiles
<1>1. IInv => IndexInvertsFiles
  BY IndexSuffices DEF IInv
<1> QED BY Invariance, <1>1, PTL

\* Every step of the crawl and of the search is one of RankedSearch, or none of its
\* business: an answer of MemIndex_Search is a ranking of the crawled files.
LEMMA RankedStep ==
    ASSUME IInv, [Next]_vars
    PROVE  [Ranked!Next]_(Ranked!vars)
<1>1. CrawlInv /\ Numbering /\ IndexInv /\ SearchInv
  BY DEF IInv
<1>2. ASSUME UNCHANGED <<fs, query, printed>> PROVE UNCHANGED Ranked!vars
  <2>1. Count' = Count
    BY <1>2 DEF Count, Reached, Occur
  <2> QED BY <1>2, <2>1 DEF Ranked!vars
<1>3. CASE Crawl
  BY <1>2, <1>3, IInvCrawl DEF search_vars
<1>4. CASE Search
  <2>1. CASE NoSuchWord
    BY <1>1, <2>1, AnswerNoSuchWord DEF Ranked!Next
  <2>2. CASE FirstWord \/ NextWord \/ Filter
    BY <1>2, <2>2 DEF FirstWord, NextWord, Filter
  <2>3. CASE WordDone
    <3>1. CASE results = <<>>
      BY <1>1, <2>3, <3>1, AnswerWordDone DEF Ranked!Next
    <3>2. CASE results # <<>>
      BY <1>2, <2>3, <3>2 DEF WordDone
    <3> QED BY <3>1, <3>2
  <2>4. CASE Answer
    BY <1>1, <2>4, AnswerSorted DEF Ranked!Next
  <2> QED BY <1>4, <2>1, <2>2, <2>3, <2>4 DEF Search
<1>5. ASSUME NEW q \in Queries, ProcessQueries(q) PROVE Ranked!Next
  <2>1. /\ phase \in {"ready", "answered"} /\ query' = q /\ printed' = NoAnswer
        /\ UNCHANGED fs
    BY <1>5 DEF ProcessQueries
  <2>2. query = NoQuery \/ printed # NoAnswer
    BY <1>1, <2>1 DEF SearchInv
  <2>3. Count' = Count
    BY <2>1 DEF Count, Reached, Occur
  <2>4. Ranked!Ask(q)
    BY <2>1, <2>2, <2>3 DEF Ranked!Ask
  <2> QED BY <2>4 DEF Ranked!Next
<1>6. CASE EndOfInput
  BY <1>2, <1>6 DEF EndOfInput, search_vars
<1>7. CASE UNCHANGED vars
  BY <1>2, <1>7 DEF vars, search_vars
<1> QED BY <1>3, <1>4, <1>5, <1>6, <1>7 DEF Next, Stopped

\* Whatever searchshell prints for a query, for every tree, text and query: the documents
\* that have all its words, each once, ranked by how often, the best first
\* (MemIndex_Search, LinkedList_Sort).  That it prints something is left to the runs.
THEOREM AnswersAreRankings == Spec => Ranked!Safety
<1>1. Init => Ranked!Init
  BY DEF Init, Ranked!Init
<1>2. IInv /\ [Next]_vars => [Ranked!Next]_(Ranked!vars)
  BY RankedStep
<1> QED BY Invariance, <1>1, <1>2, PTL DEF Spec, Ranked!Safety
=============================================================================
