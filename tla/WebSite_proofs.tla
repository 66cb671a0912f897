--------------------------- MODULE WebSite_proofs ---------------------------
(***************************************************************************)
(* First Crc32 by itself: an intact index is refused only after two        *)
(* threads have filled the table at once, for any number of threads and    *)
(* entries.  Then the whole server, of which every step is one of Crc32 or *)
(* leaves its variables alone.                                             *)
(***************************************************************************)
EXTENDS WebSite, FiniteSetTheorems, FunctionTheorems, SequenceTheorems,
        WellFoundedInduction, TLAPS

CrcTypeOK ==
    /\ table \in [Codes -> Int]
    /\ table_is_initialized_ \in BOOLEAN
    /\ pc \in [Threads -> CrcPC]
    /\ code \in [Threads -> Nat]
    /\ position \in [Threads -> Nat]
    /\ register \in [Threads -> Int]
    /\ right \in [Threads -> BOOLEAN]
    /\ overlapped \in BOOLEAN
    /\ \A t \in Threads : pc[t] \in {"entry", "load", "store"} => code[t] \in Codes
    /\ \A t \in Threads : pc[t] \notin FillPC => code[t] = 1

\* What a thread that fills the table alone has done so far.
Progress(t) ==
    /\ pc[t] \in {"entry", "load", "store"} => \A c \in 1..(code[t] - 1) : table[c] = Entry
    /\ pc[t] \in {"load", "store"} =>
          position[t] <= NumShifts /\ table[code[t]] = position[t] + 1
    /\ pc[t] = "store" => register[t] = table[code[t]]
    /\ pc[t] = "flag"  => \A c \in Codes : table[c] = Entry

\* While no two threads have filled the table at once, one at most is at it, and
\* none once the flag is set; who folds has seen the flag, and only right entries.
Alone ==
    /\ \A t, u \in Threads : Filling(t) /\ Filling(u) => t = u
    /\ table_is_initialized_ =>
          (\A t \in Threads : ~Filling(t)) /\ (\A c \in Codes : table[c] = Entry)
    /\ \A t \in Threads : pc[t] = "fold" => table_is_initialized_
    /\ \A t \in Threads : pc[t] # "refused" /\ right[t] /\ Progress(t)

CrcInv == CrcTypeOK /\ (~overlapped => Alone)

-----------------------------------------------------------------------------
LEMMA CrcInitInv == CrcInit => CrcInv
<1> SUFFICES ASSUME CrcInit PROVE CrcInv
    OBVIOUS
<1>1. CrcTypeOK
  <2>1. /\ table \in [Codes -> Int] /\ register \in [Threads -> Int]
        /\ code \in [Threads -> Nat] /\ position \in [Threads -> Nat]
        BY DEF CrcInit
  <2>2. pc \in [Threads -> CrcPC] /\ right \in [Threads -> BOOLEAN]
        BY DEF CrcInit, CrcPC
  <2> QED BY <2>1, <2>2 DEF CrcInit, CrcTypeOK, FillPC
<1>2. \A t \in Threads : pc[t] = "none" /\ code[t] = 1 /\ right[t]
      BY DEF CrcInit
<1>3. Alone
      BY <1>2 DEF CrcInit, Alone, Progress, Filling, FillPC
<1> QED BY <1>1, <1>3 DEF CrcInv

LEMMA CrcNextInv == CrcInv /\ [CrcNext]_crcVars => CrcInv'
<1> SUFFICES ASSUME CrcInv, [CrcNext]_crcVars PROVE CrcInv'
    OBVIOUS
<1> USE Crc32Assumption DEF CrcInv, CrcTypeOK, Codes, CrcPC, FillPC
<1>1. CASE UNCHANGED crcVars
      BY <1>1 DEF crcVars, Alone, Progress, Filling
<1>2. ASSUME NEW t \in Threads, Construct(t) PROVE CrcInv'
  <2>1. CrcTypeOK'
        BY <1>2 DEF Construct
  <2>2. ASSUME ~overlapped' PROVE Alone'
    <3>1. Alone /\ (table_is_initialized_ \/ \A u \in Threads : ~Filling(u))
          BY <1>2, <2>2 DEF Construct
    <3>2. CASE table_is_initialized_
          BY <1>2, <3>1, <3>2 DEF Construct, Alone, Progress, Filling
    <3>3. CASE ~table_is_initialized_
      <4>1. pc' = [pc EXCEPT ![t] = "entry"]
            BY <1>2, <3>3 DEF Construct
      <4>2. \A u \in Threads : u # t => ~Filling(u)' /\ pc'[u] # "fold"
            BY <3>1, <3>3, <4>1 DEF Alone, Filling
      <4>3. \A u \in Threads : pc'[u] # "refused" /\ right'[u]
            BY <1>2, <3>1, <4>1 DEF Construct, Alone
      <4>4. \A u \in Threads : Progress(u)'
            BY <1>2, <3>1, <4>1 DEF Construct, Alone, Progress
      <4> QED BY <1>2, <3>3, <4>1, <4>2, <4>3, <4>4 DEF Construct, Alone, Filling
    <3> QED BY <3>2, <3>3
  <2> QED BY <2>1, <2>2
<1>3. ASSUME NEW t \in Threads, SetEntry(t) PROVE CrcInv'
  <2>1. CrcTypeOK'
        BY <1>3 DEF SetEntry
  <2>2. ASSUME ~overlapped' PROVE Alone'
    <3>1. /\ Alone /\ ~table_is_initialized_
          /\ \A u \in Threads : u # t => pc[u] \notin FillPC /\ pc[u] # "fold"
          BY <1>3, <2>2 DEF SetEntry, Alone, Filling
    <3>2. Progress(t)'
          BY <1>3, <3>1 DEF SetEntry, Alone, Progress
    <3>3. \A u \in Threads : u # t => Progress(u)'
          BY <1>3, <3>1 DEF SetEntry, Alone, Progress
    <3> QED BY <1>3, <3>1, <3>2, <3>3 DEF SetEntry, Alone, Filling
  <2> QED BY <2>1, <2>2
<1>4. ASSUME NEW t \in Threads, LoadEntry(t) PROVE CrcInv'
  <2>1. CrcTypeOK'
        BY <1>4 DEF LoadEntry
  <2>2. ASSUME ~overlapped' PROVE Alone'
    <3>1. /\ Alone /\ ~table_is_initialized_
          /\ \A u \in Threads : u # t => pc[u] \notin FillPC /\ pc[u] # "fold"
          BY <1>4, <2>2 DEF LoadEntry, Alone, Filling
    <3>2. Progress(t)'
          BY <1>4, <3>1 DEF LoadEntry, Alone, Progress
    <3>3. \A u \in Threads : u # t => Progress(u)'
          BY <1>4, <3>1 DEF LoadEntry, Alone, Progress
    <3> QED BY <1>4, <3>1, <3>2, <3>3 DEF LoadEntry, Alone, Filling
  <2> QED BY <2>1, <2>2
<1>5. ASSUME NEW t \in Threads, StoreShifted(t) PROVE CrcInv'
  <2>1. CrcTypeOK'
        BY <1>5 DEF StoreShifted, Shift
  <2>2. ASSUME ~overlapped' PROVE Alone'
    <3>1. /\ Alone /\ ~table_is_initialized_
          /\ \A u \in Threads : u # t => pc[u] \notin FillPC /\ pc[u] # "fold"
          BY <1>5, <2>2 DEF StoreShifted, Alone, Filling
    <3>2. Progress(t)'
          BY <1>5, <3>1 DEF StoreShifted, Alone, Progress, Shift
    <3>3. \A u \in Threads : u # t => Progress(u)'
          BY <1>5, <3>1 DEF StoreShifted, Alone, Progress
    <3> QED BY <1>5, <3>1, <3>2, <3>3 DEF StoreShifted, Alone, Filling
  <2> QED BY <2>1, <2>2
<1>6. ASSUME NEW t \in Threads, StoreReflected(t) PROVE CrcInv'
  <2>1. CrcTypeOK'
        BY <1>6 DEF StoreReflected, Reflect
  <2>2. ASSUME ~overlapped' PROVE Alone'
    <3>1. /\ Alone /\ ~table_is_initialized_
          /\ \A u \in Threads : u # t => pc[u] \notin FillPC /\ pc[u] # "fold"
          BY <1>6, <2>2 DEF StoreReflected, Alone, Filling
    <3>2. Progress(t)'
      <4>1. pc[t] = "store" /\ position[t] = NumShifts /\ register[t] = NumShifts + 1
            BY <1>6, <3>1 DEF StoreReflected, Alone, Progress
      <4>2. table' = [table EXCEPT ![code[t]] = Entry]
            BY <1>6, <4>1 DEF StoreReflected, Reflect, Entry
      <4>3. \A c \in 1..code[t] : table'[c] = Entry
            BY <1>6, <3>1, <4>1, <4>2 DEF Alone, Progress
      <4>4. code'[t] = code[t] + 1 /\ pc'[t] = IF code[t] = NumCodes THEN "flag" ELSE "entry"
            BY <1>6 DEF StoreReflected
      <4> QED BY <4>3, <4>4 DEF Progress
    <3>3. \A u \in Threads : u # t => Progress(u)'
          BY <1>6, <3>1 DEF StoreReflected, Alone, Progress
    <3> QED BY <1>6, <3>1, <3>2, <3>3 DEF StoreReflected, Alone, Filling
  <2> QED BY <2>1, <2>2
<1>7. ASSUME NEW t \in Threads, SetFlag(t) PROVE CrcInv'
      BY <1>7 DEF SetFlag, Alone, Progress, Filling
<1>8. ASSUME NEW t \in Threads, FoldByteIntoCRC(t) PROVE CrcInv'
      BY <1>8 DEF FoldByteIntoCRC, Alone, Progress, Filling
<1>9. ASSUME NEW t \in Threads, Accept(t) PROVE CrcInv'
      BY <1>9 DEF Accept, Alone, Progress, Filling
<1>10. ASSUME NEW t \in Threads, Refuse(t) PROVE CrcInv'
      BY <1>10 DEF Refuse, Alone
<1> QED BY <1>1, <1>2, <1>3, <1>4, <1>5, <1>6, <1>7, <1>8, <1>9, <1>10
    DEF CrcNext, CrcStep

LEMMA CrcInvSuffices == CrcInv => RefusedOnlyInRace
BY DEF CrcInv, Alone, RefusedOnlyInRace

-----------------------------------------------------------------------------
\* A step of a thread, of a browser or of the world is one of Crc32, or none.
LEMMA StepIsCrcStep == [Next]_vars => [CrcNext]_crcVars
<1> SUFFICES ASSUME [Next]_vars PROVE [CrcNext]_crcVars
    OBVIOUS
<1>1. CASE UNCHANGED vars
      BY <1>1 DEF vars
<1>2. CASE Over
      BY <1>2 DEF Over, vars
<1>6. CASE Start
      BY <1>6 DEF Start
<1>3. ASSUME NEW name, Remove(name) PROVE UNCHANGED crcVars
      BY <1>3 DEF Remove
<1>4. ASSUME NEW t \in Threads, Browse(t) PROVE UNCHANGED crcVars
      BY <1>4 DEF Browse, Type, Visit, Part, Follow, Receive
<1>5. ASSUME NEW t \in Threads, Handle(t) PROVE CrcNext \/ UNCHANGED crcVars
  <2>1. CASE CheckPath(t) \/ CheckFullFile(t)
        BY <2>1 DEF CheckPath, CheckFullFile, Goto, NotFound, Answer
  <2>2. CASE ReadFile(t) \/ ReadNothing(t) \/ SetContentType(t)
        BY <2>2 DEF ReadFile, ReadNothing, SetContentType, Goto, Answer
  <2>3. CASE Search(t) \/ OpenNoIndex(t)
        BY <2>3 DEF Search, OpenNoIndex, Answer, Goto
  <2>4. CASE OpenIndex(t) \/ CheckIndex(t) \/ IndexAccepted(t) \/ IndexRefused(t)
        BY <2>4 DEF OpenIndex, CheckIndex, IndexAccepted, IndexRefused, CrcNext
  <2> QED BY <1>5, <2>1, <2>2, <2>3, <2>4 DEF Handle
<1> QED BY <1>1, <1>2, <1>3, <1>4, <1>5, <1>6 DEF Next

\* As to the table of CRC32 (Utils.cc), the threads of the server behave as Crc32 says.
THEOREM ServerUsesCrc32 == Spec => CrcSpec
<1>1. Init => CrcInit
      BY DEF Init
<1> QED BY <1>1, StepIsCrcStep, PTL DEF Spec, CrcSpec

\* However many threads open however many indices at once (Utils.cc, QueryProcessor.cc,
\* FileIndexReader.cc), an intact index is refused, which would end the server, only if
\* two threads have been in CRC32::Initialize at once.
THEOREM RefusalsAreRaces == Spec => []RefusedOnlyInRace
<1>1. CrcSpec => []CrcInv
      BY CrcInitInv, CrcNextInv, PTL DEF CrcSpec
<1> QED BY <1>1, ServerUsesCrc32, CrcInvSuffices, PTL

-----------------------------------------------------------------------------
(***************************************************************************)
(* Natural numbers: least elements, induction, and functions defined by it.*)
(***************************************************************************)
LEMMA LeastElement ==
    ASSUME NEW T, T \subseteq Nat, T # {}
    PROVE  \E x \in T : \A y \in T : x <= y
<1> DEFINE R == OpToRel(<, Nat)
<1>1. IsWellFoundedOn(R, Nat)
  BY NatLessThanWellFounded
<1>2. \A x, y \in Nat : y < x => <<y, x>> \in R
  BY DEF OpToRel
<1> HIDE DEF R
<1>3. PICK x \in T : \A y \in T : ~(<<y, x>> \in R)
  BY <1>1, WFMin
<1>4. ASSUME NEW y \in T PROVE x <= y
  <2>1. x \in Nat /\ y \in Nat
    OBVIOUS
  <2>2. ~(y < x)
    BY <1>2, <1>3, <2>1
  <2> QED BY <2>1, <2>2
<1> QED BY <1>3, <1>4

LEMMA Induction ==
    ASSUME NEW S, 0 \in S, \A n \in Nat : n \in S => n + 1 \in S
    PROVE  Nat \subseteq S
<1> SUFFICES ASSUME Nat \ S # {} PROVE FALSE
  OBVIOUS
<1>1. PICK n \in Nat \ S : \A m \in Nat \ S : n <= m
  BY LeastElement
<1>2. n # 0 /\ n - 1 \in Nat /\ n - 1 < n /\ (n - 1) + 1 = n
  BY <1>1
<1>3. n - 1 \in S
  BY <1>1, <1>2
<1> QED BY <1>1, <1>2, <1>3

\* Induction up to a bound.
LEMMA InductionTo ==
    ASSUME NEW N \in Nat, NEW S, 0 \in S, \A n \in 1..N : n - 1 \in S => n \in S
    PROVE  0..N \subseteq S
<1> DEFINE T == {n \in Nat : n <= N => n \in S}
<1>1. 0 \in T
  OBVIOUS
<1>2. ASSUME NEW n \in Nat, n \in T PROVE n + 1 \in T
  <2>1. CASE n + 1 <= N
    <3>1. n <= N /\ n + 1 \in 1..N /\ (n + 1) - 1 = n
      BY <2>1
    <3>2. n \in S
      BY <1>2, <3>1
    <3> QED BY <3>1, <3>2
  <2> QED BY <2>1
<1>3. Nat \subseteq T
  <2> HIDE DEF T
  <2> QED BY <1>1, <1>2, Induction
<1> QED BY <1>3

\* f[n] from f[n - 1], for as long as the values stay in V.
Steps(G, N, V) == G \in [1..N -> [V -> V]]

Takes(f, N, V, base, G) ==
    f \in [0..N -> V] /\ f[0] = base /\ \A n \in 1..N : f[n] = G[n][f[n - 1]]

LEMMA Recursion ==
    ASSUME NEW N \in Nat, NEW V, NEW base, base \in V, NEW G, Steps(G, N, V)
    PROVE  \E f : Takes(f, N, V, base, G)
<1> DEFINE Upto(m, f) == Takes(f, m, V, base, G)
           S == {m \in 0..N : \E f : Upto(m, f)}
<1>1. 0 \in S
  <2>1. Upto(0, [n \in 0..0 |-> base])
    BY DEF Takes
  <2>2. \E f : Upto(0, f)
    <3> HIDE DEF Upto
    <3> QED BY <2>1
  <2> HIDE DEF Upto
  <2> QED BY <2>2
<1>2. ASSUME NEW m \in 1..N, m - 1 \in S PROVE m \in S
  <2>1. PICK f : Upto(m - 1, f)
    BY <1>2
  <2> DEFINE g == [n \in 0..m |-> IF n = m THEN G[m][f[m - 1]] ELSE f[n]]
  <2>2. f[m - 1] \in V /\ G[m] \in [V -> V]
    BY <2>1 DEF Takes, Steps
  <2>3. G[m][f[m - 1]] \in V
    BY <2>2
  <2>4. g \in [0..m -> V] /\ g[0] = base
    BY <2>1, <2>3 DEF Takes
  <2>5. ASSUME NEW n \in 1..m PROVE g[n] = G[n][g[n - 1]]
    <3>1. CASE n = m
      BY <3>1
    <3>2. CASE n # m
      <4>1. n \in 1..(m - 1) /\ n - 1 \in 0..(m - 1)
        BY <3>2
      <4>2. g[n] = f[n] /\ g[n - 1] = f[n - 1]
        BY <3>2, <4>1
      <4> QED BY <2>1, <4>1, <4>2 DEF Takes
    <3> QED BY <3>1, <3>2
  <2>6. Upto(m, g)
    BY <2>4, <2>5 DEF Takes
  <2>7. \E h : Upto(m, h)
    <3> HIDE DEF Upto, g
    <3> QED BY <2>6
  <2> HIDE DEF Upto
  <2> QED BY <2>7
<1>3. N \in S
  <2> HIDE DEF S
  <2>1. 0..N \subseteq S
    BY <1>1, <1>2, InductionTo
  <2> QED BY <2>1
<1> QED BY <1>3

-----------------------------------------------------------------------------
(***************************************************************************)
(* Sequences.                                                              *)
(***************************************************************************)
LEMMA SeqParts ==
    ASSUME NEW P, NEW s \in Seq(P), s # <<>>
    PROVE  /\ SubSeq(s, 1, Len(s) - 1) \in Seq(P) /\ Len(SubSeq(s, 1, Len(s) - 1)) = Len(s) - 1
           /\ s[Len(s)] \in P
           /\ s = Append(SubSeq(s, 1, Len(s) - 1), s[Len(s)])
           /\ Len(s) \in Nat \ {0}
<1>1. Len(s) \in Nat \ {0} /\ \A k \in 1..Len(s) : s[k] \in P
  OBVIOUS
<1>2. PICK t : t = SubSeq(s, 1, Len(s) - 1)
  OBVIOUS
<1>3. t \in Seq(P) /\ Len(t) = Len(s) - 1 /\ \A k \in 1..(Len(s) - 1) : t[k] = s[k]
  <2>1. \A k \in 1..(Len(s) - 1) : s[k] \in P
    BY <1>1
  <2>2. PICK m \in Nat : m = Len(s) - 1
    BY <1>1
  <2>3. \A i \in 1..m : s[i] \in P
    BY <2>1, <2>2
  <2>4. /\ SubSeq(s, 1, m) \in Seq(P)
        /\ Len(SubSeq(s, 1, m)) = IF 1 <= m THEN m - 1 + 1 ELSE 0
        /\ \A i \in 1..(m - 1 + 1) : SubSeq(s, 1, m)[i] = s[1 + i - 1]
    BY <2>3, SubSeqProperties
  <2>5. \A i \in 1..m : SubSeq(s, 1, m)[i] = s[i]
    BY <2>4
  <2> QED BY <1>1, <1>2, <2>2, <2>4, <2>5
<1>4. s = Append(t, s[Len(s)])
  <2>1. Append(t, s[Len(s)]) \in Seq(P) /\ Len(Append(t, s[Len(s)])) = Len(s)
    BY <1>1, <1>3
  <2>2. \A k \in 1..Len(s) : Append(t, s[Len(s)])[k] = s[k]
    BY <1>1, <1>3
  <2> QED BY <2>1, <2>2, SeqEqual
<1> QED BY <1>1, <1>2, <1>3, <1>4

\* Induction over a sequence, from its front.
LEMMA SeqInduction ==
    ASSUME NEW P, NEW S, <<>> \in S,
           \A s \in Seq(P) : \A p \in P : s \in S => Append(s, p) \in S
    PROVE  Seq(P) \subseteq S
<1> DEFINE T == {n \in Nat : \A s \in Seq(P) : Len(s) = n => s \in S}
<1>1. 0 \in T
  <2>1. \A s \in Seq(P) : Len(s) = 0 => s = <<>>
    BY EmptySeq
  <2> QED BY <2>1
<1>2. ASSUME NEW n \in Nat, n \in T PROVE n + 1 \in T
  <2>1. ASSUME NEW s \in Seq(P), Len(s) = n + 1 PROVE s \in S
    <3>1. s # <<>>
      BY <2>1
    <3>2. PICK t, p : t = SubSeq(s, 1, Len(s) - 1) /\ p = s[Len(s)]
      OBVIOUS
    <3>3. t \in Seq(P) /\ Len(t) = Len(s) - 1 /\ p \in P /\ s = Append(t, p)
      BY <3>1, <3>2, SeqParts
    <3>4. Len(t) = n
      BY <2>1, <3>3
    <3>5. t \in S
      BY <1>2, <3>3, <3>4
    <3> QED BY <3>3, <3>5
  <2> QED BY <2>1
<1>3. Nat \subseteq T
  <2> HIDE DEF T
  <2> QED BY <1>1, <1>2, Induction
<1>4. ASSUME NEW s \in Seq(P) PROVE s \in S
  <2>1. Len(s) \in T
    BY <1>3
  <2> QED BY <2>1
<1> QED BY <1>4

-----------------------------------------------------------------------------
(***************************************************************************)
(* boost::split.                                                           *)
(***************************************************************************)
\* The tokens when the n-th piece has been read.
ReadPiece(read, s, n, sep, compress) ==
    IF s[n] # sep THEN [read EXCEPT ![Len(read)] = Append(@, s[n])]
    ELSE IF compress /\ n > 1 /\ s[n - 1] = sep THEN read
    ELSE Append(read, <<>>)

Tokenizes(s, sep, compress, T) ==
    T = [n \in 0..Len(s) |-> IF n = 0 THEN << <<>> >>
                             ELSE ReadPiece(T[n - 1], s, n, sep, compress)]

Tokens1(P) == Seq(Seq(P)) \ {<<>>}

LEMMA ReadPieceType ==
    ASSUME NEW P, NEW s \in Seq(P), NEW read \in Tokens1(P), NEW n \in 1..Len(s),
           NEW sep, NEW compress
    PROVE  ReadPiece(read, s, n, sep, compress) \in Tokens1(P)
<1>1. read \in Seq(Seq(P)) /\ Len(read) \in Nat \ {0} /\ read[Len(read)] \in Seq(P) /\ s[n] \in P
  <2>1. read \in Seq(Seq(P)) /\ read # <<>>
    BY DEF Tokens1
  <2> QED BY <2>1, EmptySeq
<1>2. Append(read[Len(read)], s[n]) \in Seq(P)
  BY <1>1
<1>3. [read EXCEPT ![Len(read)] = Append(read[Len(read)], s[n])] \in Tokens1(P)
  <2>1. PICK new : new = [read EXCEPT ![Len(read)] = Append(read[Len(read)], s[n])]
    OBVIOUS
  <2>2. new \in Seq(Seq(P)) /\ Len(new) = Len(read)
    BY <1>1, <1>2, <2>1
  <2> QED BY <1>1, <2>1, <2>2 DEF Tokens1
<1>4. Append(read, <<>>) \in Tokens1(P)
  <2>1. PICK new : new = Append(read, <<>>)
    OBVIOUS
  <2>2. <<>> \in Seq(P)
    BY EmptySeq
  <2>3. new \in Seq(Seq(P)) /\ Len(new) = Len(read) + 1
    BY <1>1, <2>1, <2>2, AppendProperties
  <2>4. new # <<>>
    BY <1>1, <2>3, EmptySeq
  <2> QED BY <2>1, <2>3, <2>4 DEF Tokens1
<1>5. \/ ReadPiece(read, s, n, sep, compress) =
            [read EXCEPT ![Len(read)] = Append(read[Len(read)], s[n])]
      \/ ReadPiece(read, s, n, sep, compress) = read
      \/ ReadPiece(read, s, n, sep, compress) = Append(read, <<>>)
  BY DEF ReadPiece
<1> QED BY <1>3, <1>4, <1>5

LEMMA TokenizeDef ==
    ASSUME NEW P, NEW s \in Seq(P), NEW sep, NEW compress
    PROVE  /\ Tokenizes(s, sep, compress, Tokenize(s, sep, compress))
           /\ \A n \in 0..Len(s) : Tokenize(s, sep, compress)[n] \in Tokens1(P)
<1> DEFINE V == Tokens1(P)
           G == [n \in 1..Len(s) |-> [read \in V |-> ReadPiece(read, s, n, sep, compress)]]
<1>1. << <<>> >> \in V
  BY DEF Tokens1
<1>2. Steps(G, Len(s), V)
  BY ReadPieceType DEF Steps
<1>3. PICK f : Takes(f, Len(s), V, << <<>> >>, G)
  <2>1. Len(s) \in Nat
    OBVIOUS
  <2> HIDE DEF V, G
  <2> QED BY <1>1, <1>2, <2>1, Recursion
<1>4. f \in [0..Len(s) -> V] /\ f[0] = << <<>> >> /\ \A n \in 1..Len(s) : f[n] = G[n][f[n - 1]]
  BY <1>3 DEF Takes
<1>5. Tokenizes(s, sep, compress, f)
  <2>1. ASSUME NEW n \in 0..Len(s)
        PROVE  f[n] = IF n = 0 THEN << <<>> >> ELSE ReadPiece(f[n - 1], s, n, sep, compress)
    <3>1. CASE n = 0
      BY <1>4, <3>1
    <3>2. CASE n # 0
      <4>1. n \in 1..Len(s) /\ n - 1 \in 0..Len(s)
        BY <3>2
      <4>2. f[n - 1] \in V
        BY <1>4, <4>1
      <4>3. f[n] = G[n][f[n - 1]]
        BY <1>4, <4>1
      <4>4. G[n][f[n - 1]] = ReadPiece(f[n - 1], s, n, sep, compress)
        BY <4>1, <4>2
      <4> QED BY <3>2, <4>3, <4>4
    <3> QED BY <3>1, <3>2
  <2> HIDE DEF V, G
  <2>2. f = [n \in 0..Len(s) |-> f[n]]
    BY <1>4
  <2> QED BY <2>1, <2>2 DEF Tokenizes
<1> HIDE DEF V, G
<1>6. PICK T : T = Tokenize(s, sep, compress)
  OBVIOUS
<1>7. Tokenizes(s, sep, compress, T)
  BY <1>5, <1>6, Zenon DEF Tokenize, Tokenizes, ReadPiece
<1>8. \A n \in 0..Len(s) : T[n] \in Tokens1(P)
  <2> DEFINE S == {n \in 0..Len(s) : T[n] \in Tokens1(P)}
  <2>1. 0 \in S
    BY <1>1, <1>7 DEF Tokenizes, V
  <2>2. ASSUME NEW n \in 1..Len(s), n - 1 \in S PROVE n \in S
    <3>1. T[n] = ReadPiece(T[n - 1], s, n, sep, compress)
      <4>1. n \in 0..Len(s) /\ n # 0
        OBVIOUS
      <4> QED BY <1>7, <4>1, Zenon DEF Tokenizes
    <3>2. T[n - 1] \in Tokens1(P)
      BY <2>2
    <3>3. T[n] \in Tokens1(P)
      BY <3>1, <3>2, ReadPieceType
    <3> QED BY <3>3
  <2>3. 0..Len(s) \subseteq S
    <3>1. Len(s) \in Nat
      OBVIOUS
    <3> HIDE DEF S
    <3> QED BY <2>1, <2>2, <3>1, InductionTo
  <2> QED BY <2>3
<1> QED BY <1>6, <1>7, <1>8

\* One more piece.
Tok(s, sep, compress) == Tokenize(s, sep, compress)[Len(s)]
AddTo(tokens, p) == [tokens EXCEPT ![Len(tokens)] = Append(@, p)]

LEMMA TokType ==
    ASSUME NEW P, NEW s \in Seq(P), NEW sep, NEW compress
    PROVE  Tok(s, sep, compress) \in Tokens1(P)
<1>1. Len(s) \in 0..Len(s)
  OBVIOUS
<1> QED BY <1>1, TokenizeDef DEF Tok

LEMMA TokEmpty ==
    ASSUME NEW sep, NEW compress
    PROVE  Tok(<<>>, sep, compress) = << <<>> >>
<1>1. PICK s : s = <<>> /\ s \in Seq({}) /\ Len(s) = 0
  BY EmptySeq
<1>2. Tokenizes(s, sep, compress, Tokenize(s, sep, compress))
  BY <1>1, TokenizeDef
<1>3. Tokenize(s, sep, compress)[0] = << <<>> >>
  BY <1>1, <1>2 DEF Tokenizes
<1> QED BY <1>1, <1>3 DEF Tok

LEMMA TokenizeNext ==
    ASSUME NEW P, NEW s \in Seq(P), NEW sep, NEW compress, NEW n \in 1..Len(s)
    PROVE  Tokenize(s, sep, compress)[n] =
              ReadPiece(Tokenize(s, sep, compress)[n - 1], s, n, sep, compress)
<1>1. PICK T : T = Tokenize(s, sep, compress)
  OBVIOUS
<1>2. Tokenizes(s, sep, compress, T)
  BY <1>1, TokenizeDef
<1>3. n \in 0..Len(s) /\ n # 0
  OBVIOUS
<1>4. T[n] = ReadPiece(T[n - 1], s, n, sep, compress)
  BY <1>2, <1>3, Zenon DEF Tokenizes
<1> QED BY <1>1, <1>4

LEMMA TokAppend ==
    ASSUME NEW P, NEW s \in Seq(P), NEW p \in P, NEW sep, NEW compress
    PROVE  Tok(Append(s, p), sep, compress) =
              IF p # sep THEN AddTo(Tok(s, sep, compress), p)
              ELSE IF compress /\ s # <<>> /\ s[Len(s)] = sep THEN Tok(s, sep, compress)
              ELSE Append(Tok(s, sep, compress), <<>>)
<1>1. PICK t : t = Append(s, p)
  OBVIOUS
<1>2. PICK N \in Nat : N = Len(s)
  OBVIOUS
<1>3. t \in Seq(P) /\ Len(t) = N + 1 /\ t[N + 1] = p /\ \A k \in 1..N : t[k] = s[k]
  BY <1>1, <1>2
<1>4. PICK T, U : T = Tokenize(s, sep, compress) /\ U = Tokenize(t, sep, compress)
  OBVIOUS
<1>5. T[0] = << <<>> >> /\ U[0] = << <<>> >>
  <2>1. Tokenizes(s, sep, compress, T) /\ Tokenizes(t, sep, compress, U)
    BY <1>3, <1>4, TokenizeDef
  <2>2. 0 \in 0..Len(s) /\ 0 \in 0..Len(t)
    BY <1>2, <1>3
  <2> QED BY <2>1, <2>2, Zenon DEF Tokenizes
<1>6. U[N] = T[N]
  <2> DEFINE S == {n \in 0..N : U[n] = T[n]}
  <2>1. 0 \in S
    BY <1>5
  <2>2. ASSUME NEW n \in 1..N, n - 1 \in S PROVE n \in S
    <3>1. T[n] = ReadPiece(T[n - 1], s, n, sep, compress)
      BY <1>2, <1>4, TokenizeNext
    <3>2. n \in 1..Len(t)
      BY <1>3
    <3>3. U[n] = ReadPiece(U[n - 1], t, n, sep, compress)
      BY <1>3, <1>4, <3>2, TokenizeNext
    <3>4. t[n] = s[n] /\ (n > 1 => t[n - 1] = s[n - 1]) /\ U[n - 1] = T[n - 1]
      BY <1>3, <2>2
    <3>5. U[n] = T[n]
      BY <3>1, <3>3, <3>4 DEF ReadPiece
    <3> QED BY <3>5
  <2>3. 0..N \subseteq S
    <3> HIDE DEF S
    <3> QED BY <2>1, <2>2, InductionTo
  <2> QED BY <2>3
<1>7. U[N + 1] = ReadPiece(T[N], t, N + 1, sep, compress)
  <2>1. N + 1 \in 1..Len(t) /\ (N + 1) - 1 = N
    BY <1>3
  <2>2. U[N + 1] = ReadPiece(U[(N + 1) - 1], t, N + 1, sep, compress)
    BY <1>3, <1>4, <2>1, TokenizeNext
  <2> QED BY <1>6, <2>1, <2>2
<1>8. Tok(t, sep, compress) = U[N + 1] /\ Tok(s, sep, compress) = T[N]
  BY <1>2, <1>3, <1>4 DEF Tok
<1>9. (N + 1 > 1) <=> s # <<>>
  BY <1>2, EmptySeq
<1>10. N + 1 > 1 => t[(N + 1) - 1] = s[Len(s)]
  BY <1>2, <1>3
<1> QED BY <1>1, <1>3, <1>7, <1>8, <1>9, <1>10 DEF ReadPiece, AddTo

LEMMA AddToIs ==
    ASSUME NEW P, NEW tokens \in Tokens1(P), NEW p \in P
    PROVE  /\ AddTo(tokens, p) \in Tokens1(P)
           /\ Len(AddTo(tokens, p)) = Len(tokens) /\ Len(tokens) \in Nat \ {0}
           /\ \A k \in 1..(Len(tokens) - 1) : AddTo(tokens, p)[k] = tokens[k]
           /\ AddTo(tokens, p)[Len(tokens)] = Append(tokens[Len(tokens)], p)
<1>1. tokens \in Seq(Seq(P)) /\ Len(tokens) \in Nat \ {0} /\ tokens[Len(tokens)] \in Seq(P)
  <2>1. tokens \in Seq(Seq(P)) /\ tokens # <<>>
    BY DEF Tokens1
  <2> QED BY <2>1, EmptySeq
<1>2. Append(tokens[Len(tokens)], p) \in Seq(P)
  BY <1>1
<1>3. PICK new : new = AddTo(tokens, p)
  OBVIOUS
<1>4. new \in Seq(Seq(P)) /\ Len(new) = Len(tokens)
  BY <1>1, <1>2, <1>3 DEF AddTo
<1>5. new # <<>>
  BY <1>1, <1>4, EmptySeq
<1>6. /\ \A k \in 1..(Len(tokens) - 1) : new[k] = tokens[k]
      /\ new[Len(tokens)] = Append(tokens[Len(tokens)], p)
  BY <1>1, <1>3 DEF AddTo
<1> QED BY <1>1, <1>3, <1>4, <1>5, <1>6 DEF Tokens1

\* Without the separator there is one token.
LEMMA TokPlain ==
    ASSUME NEW P, NEW sep, sep \notin P, NEW s \in Seq(P), NEW compress
    PROVE  Tok(s, sep, compress) = <<s>>
<1> DEFINE S == {t \in Seq(P) : Tok(t, sep, compress) = <<t>>}
<1>1. <<>> \in S
  BY TokEmpty, EmptySeq
<1>2. ASSUME NEW t \in Seq(P), NEW p \in P, t \in S PROVE Append(t, p) \in S
  <2>1. PICK tokens : tokens = <<t>>
    OBVIOUS
  <2>2. Tok(Append(t, p), sep, compress) = AddTo(tokens, p)
    BY <1>2, <2>1, TokAppend
  <2>3. AddTo(tokens, p) = <<Append(t, p)>>
    BY <2>1 DEF AddTo
  <2> QED BY <2>2, <2>3
<1>3. Seq(P) \subseteq S
  <2> HIDE DEF S
  <2> QED BY <1>1, <1>2, SeqInduction
<1> QED BY <1>3

LEMMA ConcatAppend ==
    ASSUME NEW P, NEW a \in Seq(P), NEW b \in Seq(P), NEW p \in P
    PROVE  a \o Append(b, p) = Append(a \o b, p)
<1>1. PICK x, y : x = a \o Append(b, p) /\ y = Append(a \o b, p)
  OBVIOUS
<1>2. x \in Seq(P) /\ y \in Seq(P) /\ Len(x) = Len(a) + Len(b) + 1 /\ Len(y) = Len(x)
  BY <1>1
<1>3. ASSUME NEW k \in 1..Len(x) PROVE x[k] = y[k]
  BY <1>1, <1>2
<1> QED BY <1>1, <1>2, <1>3, SeqEqual

LEMMA ConcatAddTo ==
    ASSUME NEW P, NEW a \in Seq(Seq(P)), NEW b \in Tokens1(P), NEW p \in P
    PROVE  a \o AddTo(b, p) = AddTo(a \o b, p) /\ a \o b \in Tokens1(P)
<1>1. PICK new : new = AddTo(b, p)
  OBVIOUS
<1>2. /\ new \in Seq(Seq(P)) /\ Len(new) = Len(b) /\ Len(b) \in Nat \ {0}
      /\ \A k \in 1..(Len(b) - 1) : new[k] = b[k]
      /\ new[Len(b)] = Append(b[Len(b)], p)
  <2>1. /\ new \in Tokens1(P) /\ Len(new) = Len(b) /\ Len(b) \in Nat \ {0}
        /\ \A k \in 1..(Len(b) - 1) : new[k] = b[k]
        /\ new[Len(b)] = Append(b[Len(b)], p)
    BY <1>1, AddToIs
  <2> QED BY <2>1 DEF Tokens1
<1>3. b \in Seq(Seq(P))
  BY DEF Tokens1
<1>4. PICK c : c = a \o b
  OBVIOUS
<1>5. c \in Seq(Seq(P)) /\ Len(c) = Len(a) + Len(b) /\ Len(a) \in Nat
  BY <1>3, <1>4
<1>6. c \in Tokens1(P)
  <2>1. c # <<>>
    BY <1>2, <1>5, EmptySeq
  <2> QED BY <1>5, <2>1 DEF Tokens1
<1>7. /\ AddTo(c, p) \in Seq(Seq(P)) /\ Len(AddTo(c, p)) = Len(c)
      /\ \A k \in 1..(Len(c) - 1) : AddTo(c, p)[k] = c[k]
      /\ AddTo(c, p)[Len(c)] = Append(c[Len(c)], p)
  <2>1. /\ AddTo(c, p) \in Tokens1(P) /\ Len(AddTo(c, p)) = Len(c)
        /\ \A k \in 1..(Len(c) - 1) : AddTo(c, p)[k] = c[k]
        /\ AddTo(c, p)[Len(c)] = Append(c[Len(c)], p)
    BY <1>6, AddToIs
  <2> QED BY <2>1 DEF Tokens1
<1>8. PICK x, y : x = a \o new /\ y = AddTo(c, p)
  OBVIOUS
<1>9. x \in Seq(Seq(P)) /\ Len(x) = Len(c) /\ y \in Seq(Seq(P)) /\ Len(y) = Len(c)
  <2>1. x \in Seq(Seq(P)) /\ Len(x) = Len(a) + Len(new)
    BY <1>2, <1>8, ConcatProperties
  <2> QED BY <1>2, <1>5, <1>7, <1>8, <2>1
<1>10. ASSUME NEW k \in 1..Len(c) PROVE x[k] = y[k]
  <2>1. CASE k <= Len(a)
    <3>1. x[k] = a[k] /\ c[k] = a[k]
      BY <1>2, <1>3, <1>4, <1>5, <1>8, <2>1
    <3>2. k \in 1..(Len(c) - 1)
      BY <1>2, <1>5, <2>1
    <3> QED BY <1>7, <1>8, <3>1, <3>2
  <2>2. CASE k > Len(a)
    <3>1. PICK m \in 1..Len(b) : m = k - Len(a)
      <4>1. k - Len(a) \in 1..Len(b)
        BY <1>2, <1>5, <2>2
      <4> QED BY <4>1
    <3>2. x[k] = new[m] /\ c[k] = b[m]
      BY <1>2, <1>3, <1>4, <1>5, <1>8, <2>2, <3>1
    <3>3. CASE m = Len(b)
      <4>1. k = Len(c)
        BY <1>5, <3>1, <3>3
      <4> QED BY <1>2, <1>7, <1>8, <3>2, <3>3, <4>1
    <3>4. CASE m # Len(b)
      <4>1. m \in 1..(Len(b) - 1) /\ k \in 1..(Len(c) - 1)
        BY <1>2, <1>5, <3>1, <3>4
      <4> QED BY <1>2, <1>7, <1>8, <3>2, <4>1
    <3> QED BY <3>3, <3>4
  <2> QED BY <1>5, <2>1, <2>2
<1>11. x = y
  BY <1>9, <1>10, SeqEqual
<1> QED BY <1>1, <1>4, <1>6, <1>8, <1>11

\* No two separators stand next to each other where the sequences meet.
Meet(s, t, sep) == (s # <<>> => s[Len(s)] # sep) /\ (t # <<>> => t[1] # sep)

Joined(s, sep, t) == s \o <<sep>> \o t

\* The tokens on both sides of a separator.
LEMMA TokJoin ==
    ASSUME NEW P, NEW s \in Seq(P), NEW t \in Seq(P), NEW sep \in P, NEW compress,
           compress => Meet(s, t, sep)
    PROVE  Tok(Joined(s, sep, t), sep, compress) = Tok(s, sep, compress) \o Tok(t, sep, compress)
<1>1. PICK u : u = s \o <<sep>>
  OBVIOUS
<1>2. u \in Seq(P) /\ u = Append(s, sep) /\ Len(u) = Len(s) + 1 /\ u # <<>> /\ u[Len(u)] = sep
  <2>1. u = Append(s, sep)
    BY <1>1, AppendIsConcat
  <2>2. u \in Seq(P) /\ Len(u) = Len(s) + 1 /\ u[Len(s) + 1] = sep
    BY <2>1
  <2> QED BY <2>1, <2>2, EmptySeq
<1>3. PICK a : a = Tok(s, sep, compress)
  OBVIOUS
<1>4. a \in Seq(Seq(P)) /\ a \in Tokens1(P)
  BY <1>3, TokType DEF Tokens1
<1> DEFINE S == {r \in Seq(P) : (compress /\ r # <<>> => r[1] # sep) =>
                    Tok(u \o r, sep, compress) = a \o Tok(r, sep, compress)}
<1>5. <<>> \in S
  <2>1. Tok(u, sep, compress) = Append(a, <<>>)
    <3>1. ~(compress /\ s # <<>> /\ s[Len(s)] = sep)
      BY DEF Meet
    <3> QED BY <1>2, <1>3, <3>1, TokAppend
  <2>2. u \o <<>> = u
    BY <1>2, ConcatEmptySeq
  <2>3. Append(a, <<>>) = a \o << <<>> >>
    <3>1. <<>> \in Seq(P)
      BY EmptySeq
    <3> QED BY <1>4, <3>1, AppendIsConcat
  <2>4. Tok(u \o <<>>, sep, compress) = a \o Tok(<<>>, sep, compress)
    BY <2>1, <2>2, <2>3, TokEmpty
  <2> QED BY <2>4, EmptySeq
<1>6. ASSUME NEW r \in Seq(P), NEW p \in P, r \in S PROVE Append(r, p) \in S
  <2>1. PICK v : v = Append(r, p)
    OBVIOUS
  <2>2. v \in Seq(P) /\ v # <<>> /\ Len(v) = Len(r) + 1 /\ v[Len(r) + 1] = p
        /\ \A k \in 1..Len(r) : v[k] = r[k]
    <3>1. v \in Seq(P) /\ Len(v) = Len(r) + 1 /\ v[Len(r) + 1] = p
          /\ \A k \in 1..Len(r) : v[k] = r[k]
      BY <2>1
    <3> QED BY <3>1, EmptySeq
  <2>3. SUFFICES ASSUME compress => v[1] # sep
                 PROVE  Tok(u \o v, sep, compress) = a \o Tok(v, sep, compress)
    BY <2>1, <2>2
  <2>4. PICK b : b = Tok(r, sep, compress)
    OBVIOUS
  <2>5. b \in Tokens1(P) /\ b \in Seq(Seq(P))
    BY <2>4, TokType DEF Tokens1
  <2>6. Tok(u \o r, sep, compress) = a \o b
    <3>1. r # <<>> => 1 \in 1..Len(r)
      BY EmptySeq
    <3>2. r # <<>> => v[1] = r[1]
      BY <2>2, <3>1
    <3> QED BY <1>6, <2>3, <2>4, <3>2
  <2>7. PICK w \in Seq(P) : w = u \o r
    BY <1>2, ConcatProperties
  <2>8. u \o v = Append(w, p)
    BY <1>2, <2>1, <2>7, ConcatAppend
  <2>9. w # <<>> /\ w[Len(w)] = IF r = <<>> THEN sep ELSE r[Len(r)]
    <3>1. Len(w) = Len(u) + Len(r)
      BY <1>2, <2>7, ConcatProperties
    <3>2. Len(u) \in Nat \ {0} /\ Len(r) \in Nat
      BY <1>2
    <3>3. w # <<>>
      BY <3>1, <3>2, EmptySeq
    <3>4. CASE r = <<>>
      <4>1. w = u
        BY <1>2, <2>7, <3>4, ConcatEmptySeq
      <4> QED BY <1>2, <3>3, <3>4, <4>1
    <3>5. CASE r # <<>>
      <4>1. Len(r) \in Nat \ {0}
        BY <3>5, EmptySeq
      <4>2. w[Len(w)] = r[Len(r)]
        BY <1>2, <2>7, <3>1, <3>2, <4>1
      <4> QED BY <3>3, <3>5, <4>2
    <3> QED BY <3>4, <3>5
  <2>12. PICK ab : ab = a \o b
    OBVIOUS
  <2>13. Tok(w, sep, compress) = ab
    BY <2>6, <2>7, <2>12
  <2>14. Tok(Append(w, p), sep, compress) =
            IF p # sep THEN AddTo(ab, p)
            ELSE IF compress /\ w # <<>> /\ w[Len(w)] = sep THEN ab ELSE Append(ab, <<>>)
    BY <2>13, TokAppend
  <2>15. Tok(v, sep, compress) =
            IF p # sep THEN AddTo(b, p)
            ELSE IF compress /\ r # <<>> /\ r[Len(r)] = sep THEN b ELSE Append(b, <<>>)
    BY <2>1, <2>4, TokAppend
  <2>10. CASE p # sep
    <3>1. Tok(v, sep, compress) = AddTo(b, p)
      BY <2>10, <2>15
    <3>2. Tok(Append(w, p), sep, compress) = AddTo(a \o b, p)
      BY <2>10, <2>12, <2>14
    <3> QED BY <1>4, <2>5, <2>8, <3>1, <3>2, ConcatAddTo
  <2>11. CASE p = sep
    <3>1. compress => r # <<>>
      <4>1. r = <<>> => v[1] = p
        BY <2>2
      <4> QED BY <2>3, <2>11, <4>1
    <3>2. CASE compress /\ r[Len(r)] = sep
      <4>1. Tok(v, sep, compress) = b
        BY <2>11, <2>15, <3>1, <3>2
      <4>2. Tok(Append(w, p), sep, compress) = a \o b
        BY <2>9, <2>11, <2>12, <2>14, <3>1, <3>2
      <4> QED BY <2>8, <4>1, <4>2
    <3>3. CASE ~(compress /\ r[Len(r)] = sep)
      <4>1. Tok(v, sep, compress) = Append(b, <<>>)
        BY <2>11, <2>15, <3>1, <3>3
      <4>2. Tok(Append(w, p), sep, compress) = Append(a \o b, <<>>)
        BY <2>9, <2>11, <2>12, <2>14, <3>1, <3>3
      <4>3. PICK Q, e : Q = Seq(P) /\ e = <<>>
        OBVIOUS
      <4>4. a \o Append(b, e) = Append(a \o b, e)
        <5>1. e \in Q
          BY <4>3, EmptySeq
        <5>2. a \in Seq(Q) /\ b \in Seq(Q)
          BY <1>4, <2>5, <4>3 DEF Tokens1
        <5> QED BY <5>1, <5>2, ConcatAppend
      <4> QED BY <2>8, <4>1, <4>2, <4>3, <4>4
    <3> QED BY <3>2, <3>3
  <2> QED BY <2>10, <2>11
<1>7. Seq(P) \subseteq S
  <2> HIDE DEF S
  <2> QED BY <1>5, <1>6, SeqInduction
<1>8. t \in S
  BY <1>7
<1>9. compress /\ t # <<>> => t[1] # sep
  BY DEF Meet
<1> QED BY <1>1, <1>3, <1>8, <1>9 DEF Joined

-----------------------------------------------------------------------------
(***************************************************************************)
(* ParseRequest.                                                           *)
(***************************************************************************)
LEMMA SmallSeqs ==
    ASSUME NEW P, NEW Q, P \subseteq Q, NEW s \in Seq(P)
    PROVE  s \in Seq(Q)
OBVIOUS

LEMMA TuplesType ==
    ASSUME NEW P, NEW a \in P, NEW b \in P, NEW c \in P, NEW d \in P
    PROVE  /\ <<a>> \in Seq(P) /\ <<a, b>> \in Seq(P) /\ <<a, b, c>> \in Seq(P)
           /\ <<a, b, c, d>> \in Seq(P)
OBVIOUS

LEMMA Pair ==
    ASSUME NEW a, NEW b
    PROVE  <<a>> \o <<b>> = <<a, b>>
<1>1. PICK x, y : x = <<a>> \o <<b>> /\ y = <<a, b>>
  OBVIOUS
<1>2. PICK P : P = {a, b}
  OBVIOUS
<1>3. x \in Seq(P) /\ y \in Seq(P) /\ Len(x) = 2 /\ Len(y) = 2
  BY <1>1, <1>2
<1>4. x[1] = y[1] /\ x[2] = y[2]
  BY <1>1
<1>5. \A k \in 1..2 : x[k] = y[k]
  BY <1>4
<1> QED BY <1>1, <1>3, <1>5, SeqEqual

LEMMA Triple ==
    ASSUME NEW a, NEW b, NEW c
    PROVE  <<a, b>> \o <<c>> = <<a, b, c>> /\ <<a>> \o <<b, c>> = <<a, b, c>>
<1>1. PICK x, z, y : x = <<a, b>> \o <<c>> /\ z = <<a>> \o <<b, c>> /\ y = <<a, b, c>>
  OBVIOUS
<1>2. PICK P : P = {a, b, c}
  OBVIOUS
<1>3. x \in Seq(P) /\ y \in Seq(P) /\ z \in Seq(P) /\ Len(x) = 3 /\ Len(y) = 3 /\ Len(z) = 3
  BY <1>1, <1>2
<1>4. x[1] = y[1] /\ x[2] = y[2] /\ x[3] = y[3]
  BY <1>1
<1>5. z[1] = y[1] /\ z[2] = y[2] /\ z[3] = y[3]
  BY <1>1
<1>6. \A k \in 1..3 : x[k] = y[k]
  BY <1>4
<1>7. \A k \in 1..3 : z[k] = y[k]
  BY <1>5
<1>8. x = y
  BY <1>3, <1>6, SeqEqual
<1>9. z = y
  BY <1>3, <1>7, SeqEqual
<1> QED BY <1>1, <1>8, <1>9

LEMMA Quadruple ==
    ASSUME NEW a, NEW b, NEW c, NEW d
    PROVE  <<a>> \o <<b, c, d>> = <<a, b, c, d>>
<1>1. PICK x, y : x = <<a>> \o <<b, c, d>> /\ y = <<a, b, c, d>>
  OBVIOUS
<1>2. PICK P : P = {a, b, c, d}
  OBVIOUS
<1>3. x \in Seq(P) /\ y \in Seq(P) /\ Len(x) = 4 /\ Len(y) = 4
  BY <1>1, <1>2
<1>4. x[1] = y[1] /\ x[2] = y[2] /\ x[3] = y[3] /\ x[4] = y[4]
  BY <1>1
<1>5. \A k \in 1..4 : x[k] = y[k]
  BY <1>4
<1> QED BY <1>1, <1>3, <1>5, SeqEqual

\* A separator that neither side has in it.
LEMMA MeetWithout ==
    ASSUME NEW P, NEW s \in Seq(P), NEW t \in Seq(P), NEW sep, sep \notin P
    PROVE  Meet(s, t, sep)
<1>1. s # <<>> => s[Len(s)] \in P
  BY SeqParts
<1>2. t # <<>> => t[1] \in P
  <2>1. t # <<>> => 1 \in 1..Len(t)
    BY EmptySeq
  <2> QED BY <2>1
<1> QED BY <1>1, <1>2 DEF Meet

LEMMA TwoTokens ==
    ASSUME NEW P, NEW s \in Seq(P), NEW t \in Seq(P), NEW sep, sep \notin P, NEW compress
    PROVE  Tok(Joined(s, sep, t), sep, compress) = <<s, t>>
<1>1. PICK PS : PS = P \cup {sep}
  OBVIOUS
<1>2. s \in Seq(PS) /\ t \in Seq(PS) /\ sep \in PS
  BY <1>1, SmallSeqs
<1>3. Tok(Joined(s, sep, t), sep, compress) = Tok(s, sep, compress) \o Tok(t, sep, compress)
  <2>1. Meet(s, t, sep)
    BY MeetWithout
  <2> QED BY <1>2, <2>1, TokJoin
<1>4. Tok(s, sep, compress) = <<s>> /\ Tok(t, sep, compress) = <<t>>
  BY TokPlain
<1>5. <<s>> \o <<t>> = <<s, t>>
  BY Pair
<1> QED BY <1>3, <1>4, <1>5

LEMMA ThreeTokens ==
    ASSUME NEW P, NEW s \in Seq(P), NEW t \in Seq(P), NEW r \in Seq(P), NEW sep, sep \notin P,
           t # <<>>, NEW compress
    PROVE  Tok(Joined(Joined(s, sep, t), sep, r), sep, compress) = <<s, t, r>>
<1>1. PICK PS : PS = P \cup {sep}
  OBVIOUS
<1>2. s \in Seq(PS) /\ t \in Seq(PS) /\ r \in Seq(PS) /\ sep \in PS /\ <<sep>> \in Seq(PS)
  BY <1>1, SmallSeqs, TuplesType
<1>3. PICK ss : ss = s \o <<sep>>
  OBVIOUS
<1>4. ss \in Seq(PS)
  BY <1>2, <1>3, ConcatProperties
<1>5. PICK x : x = Joined(s, sep, t) /\ x = ss \o t
  BY <1>3 DEF Joined
<1>6. x \in Seq(PS) /\ x[Len(x)] = t[Len(t)]
  <2>1. Len(t) \in Nat \ {0} /\ Len(ss) \in Nat
    BY <1>4, EmptySeq
  <2>2. /\ x \in Seq(PS) /\ Len(x) = Len(ss) + Len(t)
        /\ \A k \in 1..(Len(ss) + Len(t)) : x[k] = IF k <= Len(ss) THEN ss[k] ELSE t[k - Len(ss)]
    BY <1>2, <1>4, <1>5, ConcatProperties
  <2>3. Len(ss) + Len(t) \in 1..(Len(ss) + Len(t)) /\ ~(Len(ss) + Len(t) <= Len(ss))
        /\ (Len(ss) + Len(t)) - Len(ss) = Len(t)
    BY <2>1
  <2> QED BY <2>2, <2>3
<1>7. Meet(x, r, sep)
  <2>1. t[Len(t)] \in P
    BY SeqParts
  <2>2. Meet(<<>>, r, sep)
    <3>1. <<>> \in Seq(P)
      BY EmptySeq
    <3> QED BY <3>1, MeetWithout
  <2> QED BY <1>6, <2>1, <2>2 DEF Meet
<1>8. Tok(Joined(x, sep, r), sep, compress) = Tok(x, sep, compress) \o Tok(r, sep, compress)
  BY <1>2, <1>6, <1>7, TokJoin
<1>9. Tok(x, sep, compress) = <<s, t>> /\ Tok(r, sep, compress) = <<r>>
  <2>1. Tok(r, sep, compress) = <<r>>
    BY TokPlain
  <2>2. Tok(Joined(s, sep, t), sep, compress) = <<s, t>>
    BY TwoTokens
  <2> QED BY <1>5, <2>1, <2>2
<1>10. <<s, t>> \o <<r>> = <<s, t, r>>
  BY Triple
<1> QED BY <1>5, <1>8, <1>9, <1>10

Compresses(compress) == compress = TRUE

LEMMA LineTokens ==
    ASSUME NEW Q, NEW eol, eol \notin Q, NEW l1 \in Seq(Q), NEW l2 \in Seq(Q), NEW l3 \in Seq(Q),
           l2 # <<>>, l3 # <<>>, NEW compress, Compresses(compress)
    PROVE  Tok(Joined(l1, eol, Joined(l2, eol, l3 \o <<eol, eol>>)), eol, compress) =
              <<l1, l2, l3, <<>> >>
<1>1. PICK P : P = Q \cup {eol}
  OBVIOUS
<1>2. l1 \in Seq(P) /\ l2 \in Seq(P) /\ l3 \in Seq(P) /\ eol \in P /\ <<eol>> \in Seq(P)
  BY <1>1, SmallSeqs, TuplesType
<1>3. PICK e, ee : e = Append(l3, eol) /\ ee = Append(e, eol)
  OBVIOUS
<1>4. /\ e \in Seq(P) /\ Len(e) = Len(l3) + 1 /\ e # <<>> /\ e[Len(e)] = eol
      /\ ee \in Seq(P) /\ Len(ee) = Len(l3) + 2 /\ ee # <<>> /\ ee[1] = l3[1]
  <2>1. Len(l3) \in Nat \ {0}
    BY EmptySeq
  <2>2. /\ e \in Seq(P) /\ Len(e) = Len(l3) + 1 /\ e[Len(l3) + 1] = eol
        /\ \A k \in 1..Len(l3) : e[k] = l3[k]
    BY <1>2, <1>3, AppendProperties
  <2>3. /\ ee \in Seq(P) /\ Len(ee) = Len(e) + 1 /\ \A k \in 1..Len(e) : ee[k] = e[k]
    BY <1>2, <1>3, <2>2, AppendProperties
  <2>4. e # <<>> /\ ee # <<>>
    BY <2>1, <2>2, <2>3, EmptySeq
  <2> QED BY <2>1, <2>2, <2>3, <2>4
<1>5. ee = l3 \o <<eol, eol>>
  <2>1. e = l3 \o <<eol>> /\ ee = e \o <<eol>>
    BY <1>2, <1>3, <1>4, AppendIsConcat
  <2>2. ee = l3 \o (<<eol>> \o <<eol>>)
    BY <1>2, <2>1, ConcatAssociative
  <2> QED BY <2>2, Pair
<1>6. Tok(ee, eol, compress) = <<l3, <<>> >>
  <2>1. l3[Len(l3)] # eol
    BY SeqParts
  <2>2. Tok(l3, eol, compress) = <<l3>>
    BY TokPlain
  <2>3. Tok(e, eol, compress) = Append(<<l3>>, <<>>)
    <3>1. Tok(Append(l3, eol), eol, compress) =
             IF eol # eol THEN AddTo(Tok(l3, eol, compress), eol)
             ELSE IF compress /\ l3 # <<>> /\ l3[Len(l3)] = eol THEN Tok(l3, eol, compress)
             ELSE Append(Tok(l3, eol, compress), <<>>)
      BY <1>2, TokAppend
    <3> QED BY <1>3, <2>1, <2>2, <3>1
  <2>4. Append(<<l3>>, <<>>) = <<l3, <<>> >>
    <3>1. <<>> \in Seq(Q)
      BY EmptySeq
    <3>2. <<l3>> \in Seq(Seq(Q))
      BY TuplesType
    <3>3. Append(<<l3>>, <<>>) = <<l3>> \o << <<>> >>
      BY <3>1, <3>2, AppendIsConcat
    <3> QED BY <3>3, Pair
  <2>5. Tok(ee, eol, compress) = Tok(e, eol, compress)
    <3>1. Tok(Append(e, eol), eol, compress) =
             IF eol # eol THEN AddTo(Tok(e, eol, compress), eol)
             ELSE IF compress /\ e # <<>> /\ e[Len(e)] = eol THEN Tok(e, eol, compress)
             ELSE Append(Tok(e, eol, compress), <<>>)
      BY <1>2, <1>4, TokAppend
    <3> QED BY <1>3, <1>4, <3>1 DEF Compresses
  <2> QED BY <2>3, <2>4, <2>5
<1>7. PICK l2e : l2e = l2 \o <<eol>>
  OBVIOUS
<1>8. l2e \in Seq(P) /\ l2e[1] \in Q /\ Len(l2e) \in Nat \ {0}
  <2>1. Len(l2) \in Nat \ {0} /\ l2[1] \in Q
    <3>1. Len(l2) \in Nat \ {0}
      BY EmptySeq
    <3> QED BY <3>1
  <2>2. Len(<<eol>>) = 1
    OBVIOUS
  <2>3. /\ l2e \in Seq(P) /\ Len(l2e) = Len(l2) + 1
        /\ \A k \in 1..(Len(l2) + 1) : l2e[k] = IF k <= Len(l2) THEN l2[k] ELSE <<eol>>[k - Len(l2)]
    BY <1>2, <1>7, <2>2, ConcatProperties
  <2> QED BY <2>1, <2>3
<1>9. PICK r : r = l2e \o ee /\ r = Joined(l2, eol, ee)
  BY <1>7 DEF Joined
<1>10. r \in Seq(P) /\ r[1] \in Q
  <2>1. /\ r \in Seq(P)
        /\ \A k \in 1..(Len(l2e) + Len(ee)) : r[k] = IF k <= Len(l2e) THEN l2e[k] ELSE ee[k - Len(l2e)]
    <3>1. r = l2e \o ee
      BY <1>9
    <3> QED BY <1>4, <1>8, <3>1, ConcatProperties
  <2>2. 1 \in 1..(Len(l2e) + Len(ee)) /\ 1 <= Len(l2e)
    BY <1>4, <1>8
  <2> QED BY <1>8, <2>1, <2>2
<1>11. Tok(r, eol, compress) = <<l2, l3, <<>> >>
  <2>1. Meet(l2, ee, eol)
    <3>1. Meet(l2, l3, eol)
      BY MeetWithout
    <3> QED BY <1>4, <3>1 DEF Meet
  <2>2. Tok(r, eol, compress) = Tok(l2, eol, compress) \o Tok(ee, eol, compress)
    <3>1. Tok(Joined(l2, eol, ee), eol, compress) = Tok(l2, eol, compress) \o Tok(ee, eol, compress)
      BY <1>2, <1>4, <2>1, TokJoin
    <3> QED BY <1>9, <3>1
  <2>3. Tok(l2, eol, compress) = <<l2>>
    BY TokPlain
  <2>4. <<l2>> \o <<l3, <<>> >> = <<l2, l3, <<>> >>
    BY Triple
  <2> QED BY <1>6, <2>2, <2>3, <2>4
<1>12. Tok(Joined(l1, eol, r), eol, compress) = <<l1, l2, l3, <<>> >>
  <2>1. Meet(l1, r, eol)
    <3>1. Meet(l1, l3, eol)
      BY MeetWithout
    <3> QED BY <1>10, <3>1 DEF Meet
  <2>2. Tok(Joined(l1, eol, r), eol, compress) = Tok(l1, eol, compress) \o Tok(r, eol, compress)
    BY <1>2, <1>10, <2>1, TokJoin
  <2>3. Tok(l1, eol, compress) = <<l1>>
    BY TokPlain
  <2>4. <<l1>> \o <<l2, l3, <<>> >> = <<l1, l2, l3, <<>> >>
    BY Quadruple
  <2> QED BY <1>11, <2>2, <2>3, <2>4
<1> QED BY <1>5, <1>9, <1>12

LEMMA Sextuple ==
    ASSUME NEW P, NEW a \in P, NEW b \in P, NEW c \in P, NEW d \in P, NEW e \in P, NEW f \in P
    PROVE  /\ <<a, b, c, d, e, f>> \in Seq(P) /\ <<a, b, c, d, e, f>> # <<>>
<1>1. <<a, b, c, d, e, f>> \in Seq(P) /\ Len(<<a, b, c, d, e, f>>) = 6
  OBVIOUS
<1>2. <<a, b, c, d, e, f>> # <<>>
  BY <1>1, EmptySeq
<1> QED BY <1>1, <1>2

LEMMA Septuple ==
    ASSUME NEW a, NEW b, NEW c, NEW d, NEW e, NEW f, NEW g
    PROVE  <<a, b, c, d, e, f, g>> = <<a, b, c, d, e, f>> \o <<g>>
<1>1. PICK x, y, P : x = <<a, b, c, d, e, f, g>> /\ y = <<a, b, c, d, e, f>> \o <<g>>
                     /\ P = {a, b, c, d, e, f, g}
  OBVIOUS
<1>2. x \in Seq(P) /\ y \in Seq(P) /\ Len(x) = 7 /\ Len(y) = 7
  BY <1>1
<1>3. /\ x[1] = y[1] /\ x[2] = y[2] /\ x[3] = y[3] /\ x[4] = y[4] /\ x[5] = y[5] /\ x[6] = y[6]
      /\ x[7] = y[7]
  BY <1>1
<1>4. \A k \in 1..7 : x[k] = y[k]
  BY <1>3
<1> QED BY <1>1, <1>2, <1>4, SeqEqual

LEMMA SextupleApart ==
    ASSUME NEW a, NEW b, NEW c, NEW d, NEW e, NEW f
    PROVE  <<a, b, c, d, e, f>> = <<a, b, c, d>> \o <<e>> \o <<f>>
<1>1. PICK z, P : z = <<a, b, c, d>> \o <<e>> /\ P = {a, b, c, d, e, f}
  OBVIOUS
<1>p. a \in P /\ b \in P /\ c \in P /\ d \in P /\ e \in P /\ f \in P
  BY <1>1
<1>2. z \in Seq(P) /\ Len(z) = 5
  BY <1>p, <1>1
<1>3. z[1] = a /\ z[2] = b /\ z[3] = c /\ z[4] = d /\ z[5] = e
  BY <1>1
<1>4. PICK x, y : x = <<a, b, c, d, e, f>> /\ y = z \o <<f>>
  OBVIOUS
<1>5. x \in Seq(P) /\ Len(x) = 6 /\ x[1] = a /\ x[2] = b /\ x[3] = c /\ x[4] = d /\ x[5] = e /\ x[6] = f
  BY <1>p, <1>4
<1>6. y \in Seq(P) /\ Len(y) = 6 /\ y[6] = f /\ \A k \in 1..5 : y[k] = z[k]
  <2>1. PICK w : w = <<f>>
    OBVIOUS
  <2>2. w \in Seq(P) /\ Len(w) = 1 /\ w[1] = f
    BY <1>p, <2>1
  <2>3. /\ z \o w \in Seq(P) /\ Len(z \o w) = Len(z) + Len(w)
        /\ \A k \in 1..(Len(z) + Len(w)) : (z \o w)[k] = IF k <= Len(z) THEN z[k] ELSE w[k - Len(z)]
    BY <1>2, <2>2, ConcatProperties
  <2>4. y = z \o w
    BY <1>4, <2>1
  <2> QED BY <1>2, <2>2, <2>3, <2>4
<1>7. \A k \in 1..6 : x[k] = y[k]
  BY <1>3, <1>5, <1>6
<1> QED BY <1>1, <1>4, <1>5, <1>6, <1>7, SeqEqual


\* SplitCompressed and Split are tokens of all that is read.
LEMMA SplitsAre ==
    \A s, sep : /\ \A yes : Compresses(yes) => SplitCompressed(s, sep) = Tok(s, sep, yes)
                /\ Split(s, sep) = Tok(s, sep, FALSE)
BY DEF SplitCompressed, Split, Tok, Compresses

LEMMA SomethingCompresses == \E yes : Compresses(yes)
BY DEF Compresses

\* The pieces of the lines, for any pieces.
PiecesOfLines(P, get, blank, http, host, colon, local, port, conn, c) ==
    /\ get \in P /\ http \in P /\ blank \notin P
    /\ colon \notin {host, blank, local, port, conn, c}

LEMMA LineParts ==
    ASSUME NEW P, NEW get, NEW blank, NEW http, NEW host, NEW colon, NEW local, NEW port, NEW conn,
           NEW c, NEW compress, NEW u \in Seq(P), u # <<>>,
           PiecesOfLines(P, get, blank, http, host, colon, local, port, conn, c)
    PROVE  /\ Tok(<<get, blank>> \o u \o <<blank, http>>, blank, compress) = << <<get>>, u, <<http>> >>
           /\ Tok(<<host, colon, blank, local, colon, port>>, colon, compress) =
                 << <<host>>, <<blank, local>>, <<port>> >>
           /\ Tok(<<conn, colon, blank, c>>, colon, compress) = << <<conn>>, <<blank, c>> >>
<1> /\ get \in P /\ http \in P /\ blank \notin P
    /\ colon \notin {host, blank, local, port, conn, c}
  BY DEF PiecesOfLines
<1>1. Tok(<<get, blank>> \o u \o <<blank, http>>, blank, compress) = << <<get>>, u, <<http>> >>
  <2>1. PICK g, h : g = <<get>> /\ h = <<http>>
    OBVIOUS
  <2>2. g \in Seq(P) /\ h \in Seq(P)
    BY <2>1, TuplesType
  <2>3. Tok(Joined(Joined(g, blank, u), blank, h), blank, compress) = <<g, u, h>>
    BY <2>2, ThreeTokens
  <2>4. PICK PB : PB = P \cup {blank}
    OBVIOUS
  <2>5. g \in Seq(PB) /\ h \in Seq(PB) /\ u \in Seq(PB) /\ <<blank>> \in Seq(PB)
    BY <2>2, <2>4, SmallSeqs, TuplesType
  <2>6. PICK a : a = g \o <<blank>> \o u
    OBVIOUS
  <2>7. a \in Seq(PB)
    <3>1. g \o <<blank>> \in Seq(PB)
      BY <2>5, ConcatProperties
    <3> QED BY <2>5, <2>6, <3>1, ConcatProperties
  <2>8. (a \o <<blank>>) \o h = a \o (<<blank>> \o h)
    BY <2>5, <2>7, ConcatAssociative
  <2>9. <<blank>> \o h = <<blank, http>> /\ g \o <<blank>> = <<get, blank>>
    BY <2>1, Pair
  <2>10. Joined(Joined(g, blank, u), blank, h) = (a \o <<blank>>) \o h
    BY <2>6 DEF Joined
  <2>11. Joined(Joined(g, blank, u), blank, h) = <<get, blank>> \o u \o <<blank, http>>
    BY <2>6, <2>8, <2>9, <2>10
  <2> QED BY <2>1, <2>3, <2>11
<1>2. PICK Q : Q = {host, blank, local, port, conn, c}
  OBVIOUS
<1>3. /\ host \in Q /\ blank \in Q /\ local \in Q /\ port \in Q /\ conn \in Q /\ c \in Q
      /\ colon \notin Q
  BY <1>2
<1>4. Tok(<<host, colon, blank, local, colon, port>>, colon, compress) =
         << <<host>>, <<blank, local>>, <<port>> >>
  <2>1. PICK h, b, p : h = <<host>> /\ b = <<blank, local>> /\ p = <<port>>
    OBVIOUS
  <2>2. h \in Seq(Q) /\ b \in Seq(Q) /\ p \in Seq(Q)
    BY <1>3, <2>1, TuplesType
  <2>3. b # <<>>
    BY <2>1
  <2>4. Tok(Joined(Joined(h, colon, b), colon, p), colon, compress) = <<h, b, p>>
    BY <1>3, <2>2, <2>3, ThreeTokens
  <2>5. h \o <<colon>> = <<host, colon>>
    BY <2>1, Pair
  <2>6. <<host, colon>> \o b = <<host, colon, blank, local>>
    <3>1. <<host>> \o <<colon, blank, local>> = <<host, colon, blank, local>>
      BY Quadruple
    <3>2. <<colon>> \o b = <<colon, blank, local>>
      BY <2>1, Triple
    <3>3. PICK QC : QC = Q \cup {colon}
      OBVIOUS
    <3>4. h \in Seq(QC) /\ b \in Seq(QC) /\ <<colon>> \in Seq(QC)
      BY <2>2, <3>3, SmallSeqs, TuplesType
    <3>5. (h \o <<colon>>) \o b = h \o (<<colon>> \o b)
      BY <3>4, ConcatAssociative
    <3> QED BY <2>1, <2>5, <3>1, <3>2, <3>5
  <2>7. <<host, colon, blank, local, colon, port>> = <<host, colon, blank, local>> \o <<colon>> \o <<port>>
    BY SextupleApart
  <2>8. Joined(Joined(h, colon, b), colon, p) = <<host, colon, blank, local, colon, port>>
    BY <2>1, <2>5, <2>6, <2>7 DEF Joined
  <2> QED BY <2>1, <2>4, <2>8
<1>5. Tok(<<conn, colon, blank, c>>, colon, compress) = << <<conn>>, <<blank, c>> >>
  <2>1. PICK h, b : h = <<conn>> /\ b = <<blank, c>>
    OBVIOUS
  <2>2. h \in Seq(Q) /\ b \in Seq(Q)
    BY <1>3, <2>1, TuplesType
  <2>3. Tok(Joined(h, colon, b), colon, compress) = <<h, b>>
    BY <1>3, <2>2, TwoTokens
  <2>4. PICK QC : QC = Q \cup {colon}
    OBVIOUS
  <2>5. h \in Seq(QC) /\ b \in Seq(QC) /\ <<colon>> \in Seq(QC)
    BY <2>2, <2>4, SmallSeqs, TuplesType
  <2>6. (h \o <<colon>>) \o b = h \o (<<colon>> \o b)
    BY <2>5, ConcatAssociative
  <2>7. <<colon>> \o b = <<colon, blank, c>>
    BY <2>1, Triple
  <2>8. <<conn>> \o <<colon, blank, c>> = <<conn, colon, blank, c>>
    BY Quadruple
  <2>9. Joined(h, colon, b) = <<conn, colon, blank, c>>
    BY <2>1, <2>6, <2>7, <2>8 DEF Joined
  <2> QED BY <2>1, <2>3, <2>9
<1> QED BY <1>1, <1>4, <1>5

\* A request of four lines, of which only the third is cut into two by colons.
HasOneHeader(request, l1, l2, l3, l4, a, b) ==
    /\ SplitCompressed(request, "CRLF") = <<l1, l2, l3, l4>>
    /\ Len(SplitCompressed(l2, ":")) # 2
    /\ SplitCompressed(l3, ":") = <<a, b>>
    /\ Len(SplitCompressed(l4, ":")) # 2

LEMMA OneHeader ==
    ASSUME NEW request, NEW l1, NEW l2, NEW l3, NEW l4, NEW a, NEW b,
           HasOneHeader(request, l1, l2, l3, l4, a, b)
    PROVE  /\ ParseRequest(request).uri = SplitCompressed(l1, " ")[2]
           /\ DOMAIN ParseRequest(request).headers = {ToLower(a)}
           /\ ParseRequest(request).headers[ToLower(a)] = Trim(b)
<1> DEFINE lines  == SplitCompressed(request, "CRLF")
           header == [k \in 2..Len(lines) |-> SplitCompressed(lines[k], ":")]
           proper == {k \in DOMAIN header : Len(header[k]) = 2}
           name   == [k \in proper |-> ToLower(header[k][1])]
           Last(n) == CHOOSE k \in proper : name[k] = n /\ \A l \in proper : name[l] = n => l <= k
<1> /\ SplitCompressed(request, "CRLF") = <<l1, l2, l3, l4>>
    /\ Len(SplitCompressed(l2, ":")) # 2
    /\ SplitCompressed(l3, ":") = <<a, b>>
    /\ Len(SplitCompressed(l4, ":")) # 2
  BY DEF HasOneHeader
<1>1. Len(lines) = 4 /\ lines[1] = l1 /\ lines[2] = l2 /\ lines[3] = l3 /\ lines[4] = l4
  OBVIOUS
<1>2. ParseRequest(request) =
        [uri |-> SplitCompressed(lines[1], " ")[2],
         headers |-> [n \in {name[k] : k \in proper} |-> Trim(header[Last(n)][2])]]
  BY DEF ParseRequest
<1>3. proper = {3} /\ header[3] = SplitCompressed(l3, ":")
  <2> HIDE DEF lines
  <2>1. 2..Len(lines) = {2, 3, 4}
    BY <1>1
  <2>2. header[2] = SplitCompressed(l2, ":") /\ header[3] = SplitCompressed(l3, ":")
        /\ header[4] = SplitCompressed(l4, ":") /\ DOMAIN header = {2, 3, 4}
    BY <1>1, <2>1
  <2>3. Len(header[3]) = 2
    BY <2>2
  <2> HIDE DEF header
  <2> QED BY <2>2, <2>3
<1>4. header[3][1] = a /\ header[3][2] = b
  <2> HIDE DEF header
  <2> QED BY <1>3
<1> HIDE DEF lines, header
<1>5. name = [k \in {3} |-> ToLower(a)]
  <2> HIDE DEF proper
  <2> QED BY <1>3, <1>4
<1> HIDE DEF proper
<1>6. {name[k] : k \in proper} = {ToLower(a)} /\ Last(ToLower(a)) = 3
  <2>1. name[3] = ToLower(a)
    BY <1>5
  <2> HIDE DEF name
  <2>2. {name[k] : k \in proper} = {ToLower(a)}
    BY <1>3, <2>1
  <2>3. \A k : (k \in proper /\ name[k] = ToLower(a) /\ \A l \in proper : name[l] = ToLower(a) => l <= k)
               <=> k = 3
    BY <1>3, <2>1
  <2>4. Last(ToLower(a)) = 3
    BY <2>3
  <2> QED BY <2>2, <2>4
<1>7. [n \in {name[k] : k \in proper} |-> Trim(header[Last(n)][2])] = [n \in {ToLower(a)} |-> Trim(b)]
  <2> HIDE DEF name, Last
  <2>1. ASSUME NEW n \in {ToLower(a)} PROVE Trim(header[Last(n)][2]) = Trim(b)
    BY <1>4, <1>6
  <2>2. [n \in {name[k] : k \in proper} |-> Trim(header[Last(n)][2])] =
        [n \in {ToLower(a)} |-> Trim(header[Last(n)][2])]
    BY <1>6
  <2> QED BY <2>1, <2>2
<1>8. PICK x, y : /\ x = SplitCompressed(lines[1], " ")[2]
                  /\ y = [n \in {name[k] : k \in proper} |-> Trim(header[Last(n)][2])]
  OBVIOUS
<1>9. ParseRequest(request) = [uri |-> x, headers |-> y]
  BY <1>2, <1>8
<1>10. x = SplitCompressed(l1, " ")[2] /\ y = [n \in {ToLower(a)} |-> Trim(b)]
  BY <1>1, <1>7, <1>8
<1>11. ParseRequest(request).uri = x /\ ParseRequest(request).headers = y
  BY <1>9
<1>12. DOMAIN y = {ToLower(a)} /\ y[ToLower(a)] = Trim(b)
  BY <1>10
<1> QED BY <1>10, <1>11, <1>12, Zenon

LEMMA ToLowerName == ToLower(<<"Connection">>) = <<"connection">>
<1>1. PICK s : s = <<"Connection">>
  OBVIOUS
<1>2. DOMAIN s = 1..1 /\ s[1] = "Connection"
  BY <1>1
<1>3. ToLower(s) = [k \in 1..1 |-> "connection"]
  <2>1. PICK big, small : big = "Connection" /\ small = "connection"
    OBVIOUS
  <2>2. big \in DOMAIN LowerCase /\ LowerCase[big] = small
    BY <2>1, EscapesAssumption
  <2>3. ToLower(s) = [k \in DOMAIN s |-> IF s[k] \in DOMAIN LowerCase THEN LowerCase[s[k]] ELSE s[k]]
    BY DEF ToLower
  <2>4. \A k \in 1..1 : s[k] = big
    BY <1>2, <2>1
  <2>5. ToLower(s) = [k \in 1..1 |-> IF s[k] \in DOMAIN LowerCase THEN LowerCase[s[k]] ELSE s[k]]
    BY <1>2, <2>3
  <2> QED BY <2>1, <2>2, <2>4, <2>5
<1>4. PICK l, r : l = ToLower(s) /\ r = <<"connection">>
  OBVIOUS
<1>5. l \in Seq({"connection"}) /\ Len(l) = 1 /\ l[1] = "connection"
  BY <1>3, <1>4
<1>6. r \in Seq({"connection"}) /\ Len(r) = 1 /\ r[1] = "connection"
  BY <1>4
<1>7. l = r
  BY <1>5, <1>6, SeqEqual
<1> QED BY <1>1, <1>4, <1>7

\* What boost::trim leaves of a blank and something else.
LEMMA LeastIs ==
    ASSUME NEW S, S \subseteq Nat, NEW m \in S, \A n \in S : m <= n
    PROVE  Seqs!Min(S) = m
<1>1. \A x \in S : (\A n \in S : x <= n) => x = m
  OBVIOUS
<1> QED BY <1>1 DEF Seqs!Min

LEMMA GreatestIs ==
    ASSUME NEW S, S \subseteq Nat, NEW m \in S, \A n \in S : n <= m
    PROVE  Seqs!Max(S) = m
<1>1. \A x \in S : (\A n \in S : x >= n) => x = m
  OBVIOUS
<1> QED BY <1>1 DEF Seqs!Max

LEMMA SingleTwo == Seqs!Min({2}) = 2 /\ Seqs!Max({2}) = 2 /\ {2} # {}
<1>0. PICK S : S = {2}
  OBVIOUS
<1>1. S \subseteq Nat /\ 2 \in S /\ \A n \in S : 2 <= n /\ n <= 2
  BY <1>0
<1>2. Seqs!Min(S) = 2
  BY <1>1, LeastIs
<1>3. Seqs!Max(S) = 2
  BY <1>1, GreatestIs
<1> QED BY <1>0, <1>2, <1>3

LEMMA LenThree ==
    \A a, b, c : Len(<<a, b, c>>) # 2 /\ Len(<<a>>) # 2 /\ <<a, b, c>>[2] = b
OBVIOUS

LEMMA OneShown ==
    ASSUME NEW b, NEW c, c # b
    PROVE  {k \in DOMAIN <<b, c>> : <<b, c>>[k] # b} = {2} /\ SubSeq(<<b, c>>, 2, 2) = <<c>>
<1>1. PICK P, s : P = {b, c} /\ s = <<b, c>>
  OBVIOUS
<1>2. s \in Seq(P) /\ Len(s) = 2 /\ s[1] = b /\ s[2] = c
  BY <1>1
<1>3. {k \in DOMAIN s : s[k] # b} = {2}
  <2>1. DOMAIN s = 1..2
    BY <1>2
  <2>2. \A k \in 1..2 : s[k] # b <=> k = 2
    BY <1>2
  <2> QED BY <2>1, <2>2
<1>4. PICK l, r : l = SubSeq(s, 2, 2) /\ r = <<c>>
  OBVIOUS
<1>5. l \in Seq(P) /\ Len(l) = 1 /\ l[1] = c
  <2>1. \A i \in 2..2 : s[i] \in P
    BY <1>1, <1>2
  <2>2. /\ SubSeq(s, 2, 2) \in Seq(P) /\ Len(SubSeq(s, 2, 2)) = IF 2 <= 2 THEN 2 - 2 + 1 ELSE 0
        /\ \A i \in 1..(2 - 2 + 1) : SubSeq(s, 2, 2)[i] = s[2 + i - 1]
    BY <2>1, SubSeqProperties
  <2> QED BY <1>2, <1>4, <2>2
<1>6. r \in Seq(P) /\ Len(r) = 1 /\ r[1] = c
  BY <1>1, <1>4
<1>7. l = r
  BY <1>5, <1>6, SeqEqual
<1> QED BY <1>1, <1>3, <1>4, <1>7

LEMMA TrimBlank ==
    ASSUME NEW c, c # " "
    PROVE  Trim(<<" ", c>>) = <<c>>
<1>1. PICK shown : shown = {k \in DOMAIN <<" ", c>> : <<" ", c>>[k] # " "}
  OBVIOUS
<1>2. shown = {2} /\ SubSeq(<<" ", c>>, 2, 2) = <<c>>
  BY <1>1, OneShown, Zenon
<1>3. Seqs!Min(shown) = 2 /\ Seqs!Max(shown) = 2 /\ shown # {}
  BY <1>2, SingleTwo, Zenon
<1>4. Trim(<<" ", c>>) = IF shown = {} THEN <<>>
                         ELSE SubSeq(<<" ", c>>, Seqs!Min(shown), Seqs!Max(shown))
  BY <1>1, Zenon DEF Trim
<1> QED BY <1>2, <1>3, <1>4, Zenon

\* A request, and the lines it is cut into.
RequestOf(u, get, blank, http, host, colon, local, port, conn, c, eol) ==
    <<get, blank>> \o u \o <<blank, http, eol>>
    \o <<host, colon, blank, local, colon, port, eol>>
    \o <<conn, colon, blank, c, eol, eol>>

PiecesOfRequest(P, get, blank, http, host, colon, local, port, conn, c, eol, yes) ==
    /\ get \in P /\ blank \in P /\ http \in P /\ host \in P /\ colon \in P /\ local \in P
    /\ port \in P /\ conn \in P /\ c \in P /\ eol \notin P /\ Compresses(yes)

CutInto(request, u, get, blank, http, host, colon, local, port, conn, c, eol, yes, l1, l2, l3) ==
    /\ Tok(request, eol, yes) = <<l1, l2, l3, <<>> >>
    /\ Tok(l1, blank, yes) = << <<get>>, u, <<http>> >>
    /\ Tok(l2, colon, yes) = << <<host>>, <<blank, local>>, <<port>> >>
    /\ Tok(l3, colon, yes) = << <<conn>>, <<blank, c>> >>

LEMMA RequestCut ==
    ASSUME NEW P, NEW Q, NEW u \in Seq(P), u \in Seq(Q), u # <<>>, NEW get, NEW blank,
            NEW http, NEW host, NEW colon,
           NEW local, NEW port, NEW conn, NEW c, NEW eol, NEW yes,
           PiecesOfRequest(P, get, blank, http, host, colon, local, port, conn, c, eol, yes),
           PiecesOfLines(Q, get, blank, http, host, colon, local, port, conn, c)
    PROVE  \E l1, l2, l3 :
              CutInto(RequestOf(u, get, blank, http, host, colon, local, port, conn, c, eol),
                      u, get, blank, http, host, colon, local, port, conn, c, eol, yes, l1, l2, l3)
<1> /\ get \in P /\ blank \in P /\ http \in P /\ host \in P /\ colon \in P /\ local \in P
    /\ port \in P /\ conn \in P /\ c \in P /\ eol \notin P /\ Compresses(yes)
  BY DEF PiecesOfRequest
<1>1. PICK l1, l2, l3 : /\ l1 = <<get, blank>> \o u \o <<blank, http>>
                        /\ l2 = <<host, colon, blank, local, colon, port>>
                        /\ l3 = <<conn, colon, blank, c>>
  OBVIOUS
<1>2. l1 \in Seq(P) /\ l2 \in Seq(P) /\ l3 \in Seq(P) /\ l2 # <<>> /\ l3 # <<>>
  <2>1. <<get, blank>> \in Seq(P) /\ <<blank, http>> \in Seq(P) /\ l3 \in Seq(P)
    BY <1>1, TuplesType
  <2>2. <<get, blank>> \o u \in Seq(P)
    BY <2>1, ConcatProperties
  <2>3. l1 \in Seq(P)
    BY <1>1, <2>1, <2>2, ConcatProperties
  <2>4. l2 \in Seq(P) /\ l2 # <<>>
    BY <1>1, Sextuple
  <2>6. l3 # <<>>
    BY <1>1, TuplesType
  <2> QED BY <2>1, <2>3, <2>4, <2>6
<1>3. Tok(Joined(l1, eol, Joined(l2, eol, l3 \o <<eol, eol>>)), eol, yes) = <<l1, l2, l3, <<>> >>
  BY <1>2, LineTokens
<1>4. PICK PE : PE = P \cup {eol}
  OBVIOUS
<1>5. /\ l1 \in Seq(PE) /\ l2 \in Seq(PE) /\ l3 \in Seq(PE) /\ u \in Seq(PE)
      /\ <<eol>> \in Seq(PE) /\ <<eol, eol>> \in Seq(PE) /\ <<get, blank>> \in Seq(PE)
      /\ <<blank, http>> \in Seq(PE)
  <2>1. P \subseteq PE /\ eol \in PE /\ get \in PE /\ blank \in PE /\ http \in PE
    BY <1>4
  <2>2. l1 \in Seq(PE) /\ l2 \in Seq(PE) /\ l3 \in Seq(PE) /\ u \in Seq(PE)
    BY <1>2, <2>1, SmallSeqs
  <2>3. <<eol>> \in Seq(PE) /\ <<eol, eol>> \in Seq(PE) /\ <<get, blank>> \in Seq(PE)
        /\ <<blank, http>> \in Seq(PE)
    BY <2>1, TuplesType
  <2> QED BY <2>2, <2>3
<1>6. <<get, blank>> \o u \o <<blank, http, eol>> = l1 \o <<eol>>
  <2>1. PICK a : a = <<get, blank>> \o u
    OBVIOUS
  <2>2. a \in Seq(PE)
    BY <1>5, <2>1, ConcatProperties
  <2>3. a \o (<<blank, http>> \o <<eol>>) = (a \o <<blank, http>>) \o <<eol>>
    BY <1>5, <2>2, ConcatAssociative
  <2>4. <<blank, http>> \o <<eol>> = <<blank, http, eol>>
    BY Triple
  <2> QED BY <1>1, <2>1, <2>3, <2>4
<1>7. <<host, colon, blank, local, colon, port, eol>> = l2 \o <<eol>>
  <2>1. /\ host \in PE /\ colon \in PE /\ blank \in PE /\ local \in PE /\ port \in PE /\ eol \in PE
    BY <1>4
  <2>2. ASSUME NEW g \in PE
        PROVE  <<host, colon, blank, local, colon, port, g>> =
               <<host, colon, blank, local, colon, port>> \o <<g>>
    BY Septuple
  <2> QED BY <1>1, <2>1, <2>2
<1>8. <<conn, colon, blank, c, eol, eol>> = l3 \o <<eol, eol>>
  <2>1. /\ conn \in PE /\ colon \in PE /\ blank \in PE /\ c \in PE /\ eol \in PE
    BY <1>4
  <2>2. ASSUME NEW g \in PE, NEW h \in PE
        PROVE  <<conn, colon, blank, c, g, h>> = <<conn, colon, blank, c>> \o <<g>> \o <<h>>
    BY SextupleApart
  <2>3. (l3 \o <<eol>>) \o <<eol>> = l3 \o (<<eol>> \o <<eol>>)
    BY <1>5, ConcatAssociative
  <2>4. <<conn, colon, blank, c, eol, eol>> = <<conn, colon, blank, c>> \o <<eol>> \o <<eol>>
    BY <2>1, <2>2
  <2>5. <<eol>> \o <<eol>> = <<eol, eol>>
    BY Pair
  <2> QED BY <1>1, <2>3, <2>4, <2>5
<1>9. PICK l3ee : l3ee = l3 \o <<eol, eol>>
  OBVIOUS
<1>10. /\ l1 \o <<eol>> \in Seq(PE) /\ l2 \o <<eol>> \in Seq(PE) /\ l3ee \in Seq(PE)
  BY <1>5, <1>9, ConcatProperties
<1>11. PICK a, b : a = l1 \o <<eol>> /\ b = l2 \o <<eol>>
  OBVIOUS
<1>12. Joined(l1, eol, Joined(l2, eol, l3ee)) = (l1 \o <<eol>>) \o (l2 \o <<eol>>) \o l3ee
  <2>1. a \in Seq(PE) /\ b \in Seq(PE) /\ l3ee \in Seq(PE)
    BY <1>10, <1>11
  <2>2. a \o (b \o l3ee) = (a \o b) \o l3ee
    BY <2>1, ConcatAssociative
  <2>3. Joined(l1, eol, Joined(l2, eol, l3ee)) = a \o (b \o l3ee)
    BY <1>11 DEF Joined
  <2> QED BY <1>11, <2>2, <2>3
<1>13. RequestOf(u, get, blank, http, host, colon, local, port, conn, c, eol) =
         Joined(l1, eol, Joined(l2, eol, l3ee))
  BY <1>6, <1>7, <1>8, <1>9, <1>12, Zenon DEF RequestOf
<1>14. Tok(RequestOf(u, get, blank, http, host, colon, local, port, conn, c, eol), eol, yes) =
          <<l1, l2, l3, <<>> >>
  BY <1>3, <1>9, <1>13, Zenon
<1>15. /\ Tok(l1, blank, yes) = << <<get>>, u, <<http>> >>
       /\ Tok(l2, colon, yes) = << <<host>>, <<blank, local>>, <<port>> >>
       /\ Tok(l3, colon, yes) = << <<conn>>, <<blank, c>> >>
  <2>1. /\ Tok(<<get, blank>> \o u \o <<blank, http>>, blank, yes) = << <<get>>, u, <<http>> >>
        /\ Tok(<<host, colon, blank, local, colon, port>>, colon, yes) =
                 << <<host>>, <<blank, local>>, <<port>> >>
        /\ Tok(<<conn, colon, blank, c>>, colon, yes) = << <<conn>>, <<blank, c>> >>
    BY LineParts
  <2> QED BY <1>1, <2>1, Zenon
<1> QED BY <1>14, <1>15, Zenon DEF CutInto

\* ParseRequest finds the URI and the one header that browsers send.
LEMMA ParsedRequest ==
    ASSUME NEW P, NEW u \in Seq(P), u # <<>>, " " \notin P, "CRLF" \notin P,
           NEW c \in {"keep-alive", "close"}
    PROVE  /\ ParseRequest(Request(u, c)).uri = u
           /\ DOMAIN ParseRequest(Request(u, c)).headers = {<<"connection">>}
           /\ ParseRequest(Request(u, c)).headers[<<"connection">>] = <<c>>
<1>1. PICK Q, B : /\ Q = P \cup {"GET", " ", "HTTP/1.1", "Host", ":", "localhost", "5555", "Connection", c}
                  /\ B = P \cup {"GET", "HTTP/1.1"}
  OBVIOUS
<1>2. PICK yes : Compresses(yes)
  BY SomethingCompresses
<1>3. PiecesOfRequest(Q, "GET", " ", "HTTP/1.1", "Host", ":", "localhost", "5555", "Connection", c, "CRLF", yes)
  BY <1>1, <1>2 DEF PiecesOfRequest
<1>4. PiecesOfLines(B, "GET", " ", "HTTP/1.1", "Host", ":", "localhost", "5555", "Connection", c)
  BY <1>1 DEF PiecesOfLines
<1>5. u \in Seq(Q) /\ u \in Seq(B)
  BY <1>1, SmallSeqs
<1>6. PICK l1, l2, l3 :
         CutInto(RequestOf(u, "GET", " ", "HTTP/1.1", "Host", ":", "localhost", "5555", "Connection", c, "CRLF"),
                 u, "GET", " ", "HTTP/1.1", "Host", ":", "localhost", "5555", "Connection", c, "CRLF", yes,
                 l1, l2, l3)
  BY <1>3, <1>4, <1>5, RequestCut, Zenon
<1>7. PICK request : request = Request(u, c)
  OBVIOUS
<1>8. request = RequestOf(u, "GET", " ", "HTTP/1.1", "Host", ":", "localhost", "5555", "Connection", c, "CRLF")
  BY <1>7, Zenon DEF Request, RequestOf
<1>9. PICK h, b, p, n, v, g, t, l4 :
        /\ h = <<"Host">> /\ b = <<" ", "localhost">> /\ p = <<"5555">>
        /\ n = <<"Connection">> /\ v = <<" ", c>> /\ g = <<"GET">> /\ t = <<"HTTP/1.1">> /\ l4 = <<>>
  OBVIOUS
<1>10. Tok(<<>>, ":", yes) = << <<>> >>
  BY TokEmpty
<1>11. /\ SplitCompressed(request, "CRLF") = <<l1, l2, l3, l4>>
       /\ SplitCompressed(l1, " ") = <<g, u, t>>
       /\ SplitCompressed(l2, ":") = <<h, b, p>>
       /\ SplitCompressed(l3, ":") = <<n, v>>
       /\ SplitCompressed(l4, ":") = <<l4>>
  BY <1>2, <1>6, <1>8, <1>9, <1>10, SplitsAre, Zenon DEF CutInto
<1>12. Len(SplitCompressed(l2, ":")) # 2 /\ Len(SplitCompressed(l4, ":")) # 2
       /\ SplitCompressed(l1, " ")[2] = u
  <2>1. Len(<<h, b, p>>) # 2 /\ Len(<<l4>>) # 2
    BY LenThree, Zenon
  <2>2. <<g, u, t>>[2] = u
    BY LenThree, Zenon
  <2> QED BY <1>11, <2>1, <2>2, Zenon
<1>13. /\ ParseRequest(request).uri = SplitCompressed(l1, " ")[2]
       /\ DOMAIN ParseRequest(request).headers = {ToLower(n)}
       /\ ParseRequest(request).headers[ToLower(n)] = Trim(v)
  <2>1. HasOneHeader(request, l1, l2, l3, l4, n, v)
    BY <1>11, <1>12, Zenon DEF HasOneHeader
  <2> QED BY <2>1, OneHeader
<1>14. ToLower(n) = <<"connection">> /\ Trim(v) = <<c>>
  <2>1. c # " "
    OBVIOUS
  <2>2. Trim(<<" ", c>>) = <<c>>
    BY <2>1, TrimBlank
  <2> QED BY <1>9, <2>2, ToLowerName, Zenon
<1> QED BY <1>7, <1>12, <1>13, <1>14, Zenon

-----------------------------------------------------------------------------
(***************************************************************************)
(* realpath(3): the walk over the pieces of a path.                        *)
(***************************************************************************)
IsSlash(p) == p = "/"

\* What a walk does at its n-th piece.
Strides(path, F, W) ==
    /\ W[0].at = IF IsSlash(path[1]) THEN <<>> ELSE Cwd
    /\ W[0].name = <<>>
    /\ \A n \in 1..Len(path) :
          /\ W[n].at = IF IsSlash(path[n]) THEN Enter(W[n - 1].at, W[n - 1].name, F) ELSE W[n - 1].at
          /\ W[n].name = IF IsSlash(path[n]) THEN <<>> ELSE Append(W[n - 1].name, path[n])

Stride(w, p, F) ==
    IF IsSlash(p) THEN [at |-> Enter(w.at, w.name, F), name |-> <<>>]
    ELSE [w EXCEPT !.name = Append(@, p)]

Names == UNION {{dir[k] : k \in DOMAIN dir} : dir \in Dirs}
Places(F) == Seq(Names) \cup F \cup {None}

LEMMA DirsAreSeqs == Dirs \subseteq Seq(Names) /\ None \notin Dirs /\ Cwd \in Dirs /\ <<>> \in Dirs
<1>1. ASSUME NEW dir \in Dirs PROVE dir \in Seq(Names)
  <2>1. PICK N : N = {dir[k] : k \in DOMAIN dir}
    OBVIOUS
  <2>2. dir \in Seq(N)
    BY <2>1, DirsAssumption
  <2>3. N \subseteq Names
    BY <2>1 DEF Names
  <2> QED BY <2>2, <2>3, SmallSeqs
<1> QED BY <1>1, DirsAssumption

LEMMA EnterType ==
    ASSUME NEW F, NEW place \in Places(F), NEW name
    PROVE  Enter(place, name, F) \in Places(F)
<1>1. CASE place \in Dirs
  <2>1. place \in Seq(Names)
    BY <1>1, DirsAreSeqs
  <2>2. place # <<>> => Seqs!Front(place) \in Seq(Names)
    BY <2>1, SeqParts DEF Seqs!Front
  <2>3. Append(place, name) \in Dirs \cup F => Append(place, name) \in Places(F)
    BY DirsAreSeqs DEF Places
  <2>4. \/ Enter(place, name, F) = place
        \/ place # <<>> /\ Enter(place, name, F) = Seqs!Front(place)
        \/ Append(place, name) \in Dirs \cup F /\ Enter(place, name, F) = Append(place, name)
        \/ Enter(place, name, F) = None
    BY Zenon DEF Enter
  <2> QED BY <2>1, <2>2, <2>3, <2>4 DEF Places
<1>2. CASE place \notin Dirs
  <2>1. Enter(place, name, F) = None
    BY <1>2, Zenon DEF Enter
  <2> QED BY <2>1 DEF Places
<1> QED BY <1>1, <1>2

LEMMA WalkDef ==
    ASSUME NEW P, NEW path \in Seq(P), path # <<>>, NEW F
    PROVE  /\ Strides(path, F, Walk(path, F))
           /\ RealPath(path, F) = Enter(Walk(path, F)[Len(path)].at, Walk(path, F)[Len(path)].name, F)
<1> DEFINE V == [at : Places(F), name : Seq(P)]
           base == [at |-> IF IsSlash(path[1]) THEN <<>> ELSE Cwd, name |-> <<>>]
           G == [n \in 1..Len(path) |-> [w \in V |-> Stride(w, path[n], F)]]
<1>1. base \in V
  <2>1. <<>> \in Places(F) /\ Cwd \in Places(F) /\ <<>> \in Seq(P)
    BY DirsAreSeqs, EmptySeq DEF Places
  <2> QED BY <2>1
<1>2. ASSUME NEW w \in V, NEW p \in P PROVE Stride(w, p, F) \in V
  <2>1. w.at \in Places(F) /\ w.name \in Seq(P) /\ <<>> \in Seq(P)
    BY EmptySeq
  <2>2. Enter(w.at, w.name, F) \in Places(F)
    BY <2>1, EnterType
  <2>3. Append(w.name, p) \in Seq(P)
    BY <2>1
  <2> QED BY <2>1, <2>2, <2>3 DEF Stride
<1>3. \A n \in 1..Len(path) : path[n] \in P
  OBVIOUS
<1>4. Steps(G, Len(path), V)
  BY <1>2, <1>3 DEF Steps
<1>5. Len(path) \in Nat \ {0}
  BY EmptySeq
<1> HIDE DEF V, base, G
<1>6. PICK f : Takes(f, Len(path), V, base, G)
  BY <1>1, <1>4, <1>5, Recursion
<1>7. /\ f \in [0..Len(path) -> V] /\ f[0] = base
      /\ \A n \in 1..Len(path) : f[n] = Stride(f[n - 1], path[n], F)
  <2>1. ASSUME NEW n \in 1..Len(path) PROVE f[n] = Stride(f[n - 1], path[n], F)
    <3>1. n - 1 \in 0..Len(path)
      BY <1>5
    <3>2. f[n - 1] \in V
      BY <1>6, <3>1 DEF Takes
    <3>3. G[n][f[n - 1]] = Stride(f[n - 1], path[n], F)
      BY <3>2 DEF G
    <3> QED BY <1>6, <3>3 DEF Takes
  <2> QED BY <1>6, <2>1 DEF Takes
<1> DEFINE Is(W) == W = [n \in 0..Len(path) |-> IF n = 0 THEN base ELSE Stride(W[n - 1], path[n], F)]
<1>8. Is(f)
  <2>1. \A n \in 0..Len(path) : f[n] = IF n = 0 THEN base ELSE Stride(f[n - 1], path[n], F)
    BY <1>5, <1>7
  <2> QED BY <1>7, <2>1
<1>9. Walk(path, F) = CHOOSE W : Is(W)
  BY Zenon DEF Walk, Stride, base, IsSlash
<1>10. PICK W : W = Walk(path, F)
  OBVIOUS
<1>11. Is(W)
  <2> HIDE DEF Is
  <2> QED BY <1>8, <1>9, <1>10
<1>12. W[0] = base /\ \A n \in 1..Len(path) : W[n] = Stride(W[n - 1], path[n], F)
  <2>1. \A n \in 0..Len(path) : W[n] = IF n = 0 THEN base ELSE Stride(W[n - 1], path[n], F)
    BY <1>11, Zenon
  <2> QED BY <1>5, <2>1
<1>13. \A n \in 0..Len(path) : W[n] \in V
  <2> DEFINE S == {n \in 0..Len(path) : W[n] \in V}
  <2>1. 0 \in S
    BY <1>1, <1>5, <1>12
  <2>2. ASSUME NEW n \in 1..Len(path), n - 1 \in S PROVE n \in S
    BY <1>2, <1>3, <1>12, <2>2
  <2> HIDE DEF S
  <2>3. 0..Len(path) \subseteq S
    BY <1>5, <2>1, <2>2, InductionTo
  <2> QED BY <2>3 DEF S
<1>14. Strides(path, F, W)
  <2>1. W[0].at = (IF IsSlash(path[1]) THEN <<>> ELSE Cwd) /\ W[0].name = <<>>
    BY <1>12 DEF base
  <2>2. ASSUME NEW n \in 1..Len(path)
        PROVE  /\ W[n].at = IF IsSlash(path[n]) THEN Enter(W[n - 1].at, W[n - 1].name, F) ELSE W[n - 1].at
               /\ W[n].name = IF IsSlash(path[n]) THEN <<>> ELSE Append(W[n - 1].name, path[n])
    <3>1. n - 1 \in 0..Len(path)
      BY <1>5
    <3>2. W[n - 1] \in [at : Places(F), name : Seq(P)]
      BY <1>13, <3>1 DEF V
    <3>3. PICK w : w = W[n - 1]
      OBVIOUS
    <3>4. W[n] = Stride(w, path[n], F)
      BY <1>12, <3>3
    <3>5. w \in [at : Places(F), name : Seq(P)]
      BY <3>2, <3>3
    <3>6. CASE IsSlash(path[n])
      <4>1. W[n] = [at |-> Enter(w.at, w.name, F), name |-> <<>>]
        BY <3>4, <3>6 DEF Stride
      <4> QED BY <3>3, <3>6, <4>1
    <3>7. CASE ~IsSlash(path[n])
      <4>1. W[n] = [w EXCEPT !.name = Append(w.name, path[n])]
        BY <3>4, <3>7 DEF Stride
      <4>2. W[n].at = w.at /\ W[n].name = Append(w.name, path[n])
        BY <3>5, <4>1
      <4> QED BY <3>3, <3>7, <4>2
    <3> QED BY <3>6, <3>7
  <2> QED BY <2>1, <2>2 DEF Strides
<1>15. RealPath(path, F) = Enter(W[Len(path)].at, W[Len(path)].name, F)
  BY <1>10, Zenon DEF RealPath
<1> QED BY <1>10, <1>14, <1>15

LEMMA RealPathType ==
    ASSUME NEW P, NEW path \in Seq(P), path # <<>>, NEW F
    PROVE  RealPath(path, F) \in Places(F)
<1>1. PICK W : W = Walk(path, F)
  OBVIOUS
<1>2. Strides(path, F, W) /\ RealPath(path, F) = Enter(W[Len(path)].at, W[Len(path)].name, F)
  BY <1>1, WalkDef
<1>3. Len(path) \in Nat
  OBVIOUS
<1> DEFINE S == {n \in 0..Len(path) : W[n].at \in Places(F)}
<1>4. 0 \in S
  <2>1. <<>> \in Places(F) /\ Cwd \in Places(F)
    BY DirsAreSeqs DEF Places
  <2> QED BY <1>2, <1>3, <2>1 DEF Strides
<1>5. ASSUME NEW n \in 1..Len(path), n - 1 \in S PROVE n \in S
  <2>1. W[n - 1].at \in Places(F)
    BY <1>5
  <2>2. W[n].at = IF IsSlash(path[n]) THEN Enter(W[n - 1].at, W[n - 1].name, F) ELSE W[n - 1].at
    BY <1>2 DEF Strides
  <2>3. W[n].at \in Places(F)
    BY <2>1, <2>2, EnterType
  <2> QED BY <2>3
<1> HIDE DEF S
<1>6. Len(path) \in S
  <2>1. 0..Len(path) \subseteq S
    BY <1>3, <1>4, <1>5, InductionTo
  <2> QED BY <1>3, <2>1
<1>7. W[Len(path)].at \in Places(F)
  BY <1>6 DEF S
<1> QED BY <1>2, <1>7, EnterType

\* A walk goes on in the same way wherever it started.
LEMMA SameEnd ==
    ASSUME NEW P, NEW a \in Seq(P), NEW b \in Seq(P), NEW t \in Seq(P), NEW F, NEW G, NEW V, NEW W,
           Strides(a \o t, F, V), Strides(b \o t, F, W),
           V[Len(a)].at = W[Len(b)].at, V[Len(a)].name = W[Len(b)].name
    PROVE  /\ V[Len(a \o t)].at = W[Len(b \o t)].at
           /\ V[Len(a \o t)].name = W[Len(b \o t)].name
<1>1. PICK la, lb, lt : la = Len(a) /\ lb = Len(b) /\ lt = Len(t)
  OBVIOUS
<1>2. la \in Nat /\ lb \in Nat /\ lt \in Nat
  BY <1>1
<1>3. PICK att, bt : att = a \o t /\ bt = b \o t
  OBVIOUS
<1>4. Len(att) = la + lt /\ Len(bt) = lb + lt
  BY <1>1, <1>3, ConcatProperties
<1>5. \A k \in 1..lt : att[la + k] = t[k] /\ bt[lb + k] = t[k]
  <2>1. \A k \in 1..lt : /\ la + k \in 1..(la + lt) /\ ~(la + k <= la) /\ (la + k) - la = k
                         /\ lb + k \in 1..(lb + lt) /\ ~(lb + k <= lb) /\ (lb + k) - lb = k
    BY <1>2
  <2>2. /\ \A i \in 1..(la + lt) : att[i] = IF i <= la THEN a[i] ELSE t[i - la]
        /\ \A i \in 1..(lb + lt) : bt[i] = IF i <= lb THEN b[i] ELSE t[i - lb]
    BY <1>1, <1>3, ConcatProperties
  <2> QED BY <2>1, <2>2
<1> DEFINE S == {k \in 0..lt : V[la + k].at = W[lb + k].at /\ V[la + k].name = W[lb + k].name}
<1>6. 0 \in S
  BY <1>1, <1>2
<1>7. ASSUME NEW k \in 1..lt, k - 1 \in S PROVE k \in S
  <2>1. V[la + (k - 1)].at = W[lb + (k - 1)].at /\ V[la + (k - 1)].name = W[lb + (k - 1)].name
    BY <1>7
  <2>2. /\ la + k \in 1..Len(att) /\ lb + k \in 1..Len(bt) /\ (la + k) - 1 = la + (k - 1)
        /\ (lb + k) - 1 = lb + (k - 1)
    BY <1>2, <1>4
  <2>3. att[la + k] = t[k] /\ bt[lb + k] = t[k]
    BY <1>5
  <2>4. /\ V[la + k].at = IF IsSlash(t[k]) THEN Enter(V[la + (k - 1)].at, V[la + (k - 1)].name, F)
                          ELSE V[la + (k - 1)].at
        /\ V[la + k].name = IF IsSlash(t[k]) THEN <<>> ELSE Append(V[la + (k - 1)].name, t[k])
    BY <1>3, <2>2, <2>3 DEF Strides
  <2>5. /\ W[lb + k].at = IF IsSlash(t[k]) THEN Enter(W[lb + (k - 1)].at, W[lb + (k - 1)].name, F)
                          ELSE W[lb + (k - 1)].at
        /\ W[lb + k].name = IF IsSlash(t[k]) THEN <<>> ELSE Append(W[lb + (k - 1)].name, t[k])
    BY <1>3, <2>2, <2>3 DEF Strides
  <2> QED BY <2>1, <2>4, <2>5
<1> HIDE DEF S
<1>8. lt \in S
  <2>1. 0..lt \subseteq S
    BY <1>2, <1>6, <1>7, InductionTo
  <2> QED BY <1>2, <2>1
<1> QED BY <1>3, <1>4, <1>8 DEF S

\* A walk over the front of a path is the front of the walk.
LEMMA SameFront ==
    ASSUME NEW P, NEW a \in Seq(P), a # <<>>, NEW t \in Seq(P), NEW F, NEW V, NEW W,
           Strides(a, F, V), Strides(a \o t, F, W)
    PROVE  V[Len(a)].at = W[Len(a)].at /\ V[Len(a)].name = W[Len(a)].name
<1>1. PICK att : att = a \o t
  OBVIOUS
<1>2. Len(a) \in Nat \ {0} /\ Len(t) \in Nat /\ Len(att) = Len(a) + Len(t)
      /\ \A k \in 1..Len(a) : k \in 1..Len(att) /\ att[k] = a[k]
  <2>1. Len(a) \in Nat \ {0} /\ Len(t) \in Nat
    BY EmptySeq
  <2>2. /\ Len(att) = Len(a) + Len(t)
        /\ \A k \in 1..(Len(a) + Len(t)) : att[k] = IF k <= Len(a) THEN a[k] ELSE t[k - Len(a)]
    BY <1>1, ConcatProperties
  <2> QED BY <2>1, <2>2
<1> DEFINE S == {k \in 0..Len(a) : V[k].at = W[k].at /\ V[k].name = W[k].name}
<1>3. 0 \in S
  <2>1. att[1] = a[1]
    BY <1>2
  <2> QED BY <1>1, <1>2, <2>1 DEF Strides
<1>4. ASSUME NEW k \in 1..Len(a), k - 1 \in S PROVE k \in S
  <2>1. V[k - 1].at = W[k - 1].at /\ V[k - 1].name = W[k - 1].name
    BY <1>4
  <2>2. k \in 1..Len(att) /\ att[k] = a[k]
    BY <1>2
  <2>3. /\ V[k].at = IF IsSlash(a[k]) THEN Enter(V[k - 1].at, V[k - 1].name, F) ELSE V[k - 1].at
        /\ V[k].name = IF IsSlash(a[k]) THEN <<>> ELSE Append(V[k - 1].name, a[k])
    BY DEF Strides
  <2>4. /\ W[k].at = IF IsSlash(a[k]) THEN Enter(W[k - 1].at, W[k - 1].name, F) ELSE W[k - 1].at
        /\ W[k].name = IF IsSlash(a[k]) THEN <<>> ELSE Append(W[k - 1].name, a[k])
    BY <1>1, <2>2 DEF Strides
  <2> QED BY <2>1, <2>3, <2>4
<1> HIDE DEF S
<1>5. Len(a) \in S
  <2>1. 0..Len(a) \subseteq S
    BY <1>2, <1>3, <1>4, InductionTo
  <2> QED BY <1>2, <2>1
<1> QED BY <1>5 DEF S

\* After a slash a walk is where the path before the slash leads.
LEMMA AtSlash ==
    ASSUME NEW P, NEW a \in Seq(P), a # <<>>, NEW t \in Seq(P), "/" \in P, NEW F
    PROVE  /\ Len(a \o <<"/">>) = Len(a) + 1
           /\ Walk(a \o <<"/">> \o t, F)[Len(a) + 1].at = RealPath(a, F)
           /\ Walk(a \o <<"/">> \o t, F)[Len(a) + 1].name = <<>>
<1>1. PICK slash : slash = "/"
  OBVIOUS
<1>2. PICK sa, st, path : sa = a \o <<slash>> /\ path = sa \o t /\ st = <<slash>> \o t
  OBVIOUS
<1>3. slash \in P /\ IsSlash(slash)
  BY <1>1 DEF IsSlash
<1>4. <<slash>> \in Seq(P)
  BY <1>3, TuplesType
<1>5. /\ sa \in Seq(P) /\ st \in Seq(P) /\ path \in Seq(P) /\ path = a \o st
      /\ Len(sa) = Len(a) + 1
  <2>1. sa \in Seq(P) /\ Len(sa) = Len(a) + Len(<<slash>>)
    BY <1>2, <1>4, ConcatProperties
  <2>2. st \in Seq(P)
    BY <1>2, <1>4, ConcatProperties
  <2>3. path \in Seq(P)
    BY <1>2, <2>1, ConcatProperties
  <2>4. path = a \o st
    BY <1>2, <1>4, ConcatAssociative
  <2> QED BY <2>1, <2>2, <2>3, <2>4
<1>6. Len(a) + 1 \in 1..Len(path) /\ path[Len(a) + 1] = slash /\ path # <<>>
  <2>1. Len(a) \in Nat /\ Len(t) \in Nat
    OBVIOUS
  <2>2. /\ Len(path) = Len(sa) + Len(t)
        /\ \A k \in 1..(Len(sa) + Len(t)) : path[k] = IF k <= Len(sa) THEN sa[k] ELSE t[k - Len(sa)]
    BY <1>2, <1>5, ConcatProperties
  <2>3. sa[Len(a) + 1] = slash
    BY <1>2
  <2>4. Len(a) + 1 \in 1..Len(path) /\ path[Len(a) + 1] = slash
    BY <1>5, <2>1, <2>2, <2>3
  <2>5. path # <<>>
    BY <1>5, <2>1, <2>4, EmptySeq
  <2> QED BY <2>4, <2>5
<1>7. PICK W, V : W = Walk(path, F) /\ V = Walk(a, F)
  OBVIOUS
<1>8. Strides(path, F, W)
  BY <1>5, <1>6, <1>7, WalkDef
<1>9. Strides(a, F, V) /\ RealPath(a, F) = Enter(V[Len(a)].at, V[Len(a)].name, F)
  BY <1>7, WalkDef
<1>10. V[Len(a)].at = W[Len(a)].at /\ V[Len(a)].name = W[Len(a)].name
  <2>1. Strides(a \o st, F, W)
    BY <1>5, <1>8
  <2> QED BY <1>5, <1>9, <2>1, SameFront
<1>11. W[Len(a) + 1].at = RealPath(a, F) /\ W[Len(a) + 1].name = <<>>
  <2>1. (Len(a) + 1) - 1 = Len(a)
    OBVIOUS
  <2>2. /\ W[Len(a) + 1].at = Enter(W[(Len(a) + 1) - 1].at, W[(Len(a) + 1) - 1].name, F)
        /\ W[Len(a) + 1].name = <<>>
    BY <1>3, <1>6, <1>8 DEF Strides
  <2> QED BY <1>9, <1>10, <2>1, <2>2
<1>12. Walk(a \o <<"/">> \o t, F) = W
  BY <1>1, <1>2, <1>7, Zenon
<1> QED BY <1>1, <1>2, <1>5, <1>11, <1>12, Zenon

\* What is not a directory leads nowhere.
LEMMA Nowhere ==
    ASSUME NEW P, NEW path \in Seq(P), path # <<>>, NEW F, NEW m \in 0..Len(path),
           Walk(path, F)[m].at \notin Dirs
    PROVE  RealPath(path, F) = None
<1>1. PICK W : W = Walk(path, F)
  OBVIOUS
<1>2. Strides(path, F, W) /\ RealPath(path, F) = Enter(W[Len(path)].at, W[Len(path)].name, F)
  BY <1>1, WalkDef
<1>3. \A place, name : place \notin Dirs => Enter(place, name, F) = None
  BY Zenon DEF Enter
<1>4. None \notin Dirs
  BY DirsAreSeqs
<1> DEFINE S == {k \in 0..(Len(path) - m) : W[m + k].at \notin Dirs}
<1>5. 0 \in S
  BY <1>1
<1>6. ASSUME NEW k \in 1..(Len(path) - m), k - 1 \in S PROVE k \in S
  <2>1. m + k \in 1..Len(path) /\ (m + k) - 1 = m + (k - 1) /\ k \in 0..(Len(path) - m)
    OBVIOUS
  <2>2. W[m + (k - 1)].at \notin Dirs
    BY <1>6
  <2>3. W[m + k].at = IF IsSlash(path[m + k]) THEN Enter(W[m + (k - 1)].at, W[m + (k - 1)].name, F)
                      ELSE W[m + (k - 1)].at
    BY <1>2, <2>1 DEF Strides
  <2> QED BY <1>3, <1>4, <2>1, <2>2, <2>3
<1> HIDE DEF S
<1>7. Len(path) - m \in S
  <2>1. Len(path) - m \in Nat
    OBVIOUS
  <2>2. 0..(Len(path) - m) \subseteq S
    BY <1>5, <1>6, <2>1, InductionTo
  <2> QED BY <2>1, <2>2
<1>8. W[Len(path)].at \notin Dirs
  <2>1. m + (Len(path) - m) = Len(path)
    OBVIOUS
  <2> QED BY <1>7, <2>1 DEF S
<1> QED BY <1>2, <1>3, <1>8

\* A file that is not there makes a path that leads to it lead nowhere, and no other.
Loses(x, y, F, G) == x = y \/ (x = None /\ y \in F \ (G \cup Dirs))

LEMMA LosesOne ==
    ASSUME NEW F, NEW G, G \subseteq F, NEW x, NEW y, Loses(x, y, F, G), NEW name
    PROVE  Loses(Enter(x, name, G), Enter(y, name, F), F, G)
<1>1. \A place, H : place \notin Dirs => Enter(place, name, H) = None
  BY Zenon DEF Enter
<1>2. CASE x = y /\ x \in Dirs
  <2>1. CASE name \in {<<>>, <<".">>} \/ name = <<".", ".">>
    <3>1. Enter(x, name, G) = Enter(x, name, F)
      BY <2>1, Zenon DEF Enter
    <3> QED BY <1>2, <3>1 DEF Loses
  <2>2. CASE ~(name \in {<<>>, <<".">>} \/ name = <<".", ".">>)
    <3>1. \A H : Enter(x, name, H) = IF Append(x, name) \in Dirs \cup H THEN Append(x, name) ELSE None
      BY <1>2, <2>2, Zenon DEF Enter
    <3>2. PICK z : z = Append(x, name)
      OBVIOUS
    <3>3. \A H : Enter(x, name, H) = IF z \in Dirs \cup H THEN z ELSE None
      BY <3>1, <3>2, Zenon
    <3> QED BY <1>2, <3>3 DEF Loses
  <2> QED BY <2>1, <2>2, Zenon
<1>3. CASE ~(x = y /\ x \in Dirs)
  <2>1. x \notin Dirs /\ y \notin Dirs
    BY <1>3, DirsAreSeqs DEF Loses
  <2> QED BY <1>1, <2>1 DEF Loses
<1> QED BY <1>2, <1>3

LEMMA FewerFiles ==
    ASSUME NEW P, NEW path \in Seq(P), path # <<>>, NEW F, NEW G, G \subseteq F
    PROVE  \/ RealPath(path, G) = RealPath(path, F)
           \/ RealPath(path, G) = None /\ RealPath(path, F) \in F \ (G \cup Dirs)
<1>1. PICK V, W : V = Walk(path, G) /\ W = Walk(path, F)
  OBVIOUS
<1>2. /\ Strides(path, G, V) /\ RealPath(path, G) = Enter(V[Len(path)].at, V[Len(path)].name, G)
      /\ Strides(path, F, W) /\ RealPath(path, F) = Enter(W[Len(path)].at, W[Len(path)].name, F)
  BY <1>1, WalkDef
<1>3. Len(path) \in Nat
  OBVIOUS
<1> DEFINE S == {k \in 0..Len(path) : Loses(V[k].at, W[k].at, F, G) /\ V[k].name = W[k].name}
<1>4. 0 \in S
  BY <1>2, <1>3 DEF Strides, Loses
<1>5. ASSUME NEW k \in 1..Len(path), k - 1 \in S PROVE k \in S
  <2>1. Loses(V[k - 1].at, W[k - 1].at, F, G) /\ V[k - 1].name = W[k - 1].name
    BY <1>5
  <2>2. /\ V[k].at = IF IsSlash(path[k]) THEN Enter(V[k - 1].at, V[k - 1].name, G) ELSE V[k - 1].at
        /\ V[k].name = IF IsSlash(path[k]) THEN <<>> ELSE Append(V[k - 1].name, path[k])
        /\ W[k].at = IF IsSlash(path[k]) THEN Enter(W[k - 1].at, W[k - 1].name, F) ELSE W[k - 1].at
        /\ W[k].name = IF IsSlash(path[k]) THEN <<>> ELSE Append(W[k - 1].name, path[k])
    BY <1>2 DEF Strides
  <2>3. Loses(Enter(V[k - 1].at, V[k - 1].name, G), Enter(W[k - 1].at, V[k - 1].name, F), F, G)
    BY <2>1, LosesOne
  <2>4. Loses(V[k].at, W[k].at, F, G) /\ V[k].name = W[k].name
    BY <2>1, <2>2, <2>3
  <2> QED BY <2>4
<1> HIDE DEF S
<1>6. Len(path) \in S
  <2>1. 0..Len(path) \subseteq S
    BY <1>3, <1>4, <1>5, InductionTo
  <2> QED BY <1>3, <2>1
<1>7. Loses(Enter(V[Len(path)].at, V[Len(path)].name, G), Enter(W[Len(path)].at, V[Len(path)].name, F), F, G)
  BY <1>6, LosesOne DEF S
<1>8. V[Len(path)].name = W[Len(path)].name
  BY <1>6 DEF S
<1> QED BY <1>2, <1>7, <1>8 DEF Loses

LEMMA WithoutFiles ==
    ASSUME NEW P, NEW path \in Seq(P), path # <<>>, NEW F
    PROVE  \/ RealPath(path, {}) = RealPath(path, F)
           \/ RealPath(path, {}) = None /\ RealPath(path, F) \notin Dirs
<1>1. PICK G : G = {}
  OBVIOUS
<1>2. G \subseteq F
  BY <1>1
<1>3. \/ RealPath(path, G) = RealPath(path, F)
      \/ RealPath(path, G) = None /\ RealPath(path, F) \in F \ (G \cup Dirs)
  BY <1>2, FewerFiles
<1> QED BY <1>1, <1>3

Associates(x, y, z) == (x \o y) \o z = x \o (y \o z)

LEMMA Association ==
    ASSUME NEW P, NEW x \in Seq(P), NEW y \in Seq(P), NEW z \in Seq(P)
    PROVE  Associates(x, y, z)
BY ConcatAssociative DEF Associates

Regroups(b, s, rest) == b \o s \o (b \o s \o rest) = b \o s \o b \o s \o rest

LEMMA Regroup ==
    ASSUME NEW P, NEW b \in Seq(P), NEW s \in Seq(P), NEW rest \in Seq(P)
    PROVE  Regroups(b, s, rest)
<1>1. PICK bs, bb, bsr, sr : bs = b \o s /\ bb = bs \o b /\ bsr = bs \o rest /\ sr = s \o rest
  OBVIOUS
<1>2. bs \in Seq(P) /\ bb \in Seq(P) /\ sr \in Seq(P)
  BY <1>1, ConcatProperties
<1>3. Associates(bs, b, sr) /\ Associates(bb, s, rest) /\ Associates(b, s, rest)
  BY <1>2, Association
<1>4. b \o s \o (b \o s \o rest) = b \o s \o b \o s \o rest
  BY <1>1, <1>3 DEF Associates
<1> QED BY <1>4, Zenon DEF Regroups

\* What base_dir in front of base_dir does to a name that follows it.
LEMMA Repeated ==
    ASSUME NEW base \in BaseDirs, NEW P, base \in Seq(P), "/" \in P, NEW rest \in Seq(P), NEW F,
           RealPath(base \o <<"/">> \o base, {}) = BasePath
    PROVE  RealPath(base \o <<"/">> \o (base \o <<"/">> \o rest), F) = RealPath(base \o <<"/">> \o rest, F)
<1>1. PICK s, b : s = <<"/">> /\ b = base
  OBVIOUS
<1>2. s \in Seq(P) /\ b \in Seq(P)
  <2>1. PICK slash : slash = "/"
    OBVIOUS
  <2>2. <<slash>> \in Seq(P)
    BY <2>1, TuplesType
  <2> QED BY <1>1, <2>1, <2>2, Zenon
<1>3. b # <<>> /\ RealPath(b, {}) = BasePath /\ BasePath \in Dirs
  <2>1. \A dir \in BaseDirs : dir # <<>> /\ RealPath(dir, {}) = BasePath
    BY BaseDirsAssumption, Zenon
  <2>2. BasePath \in Dirs
    BY BaseDirsAssumption, Zenon
  <2> QED BY <1>1, <2>1, <2>2, Zenon
<1>4. None \notin Dirs
  BY DirsAreSeqs
<1>5. PICK bs, bb, bbs, once, twice :
        /\ bs = b \o s /\ bb = bs \o b /\ bbs = bb \o s /\ once = bs \o rest /\ twice = bbs \o rest
  OBVIOUS
<1>6. /\ bs \in Seq(P) /\ bb \in Seq(P) /\ bbs \in Seq(P) /\ once \in Seq(P) /\ twice \in Seq(P)
  BY <1>2, <1>5, ConcatProperties
<1>7. bb # <<>> /\ once # <<>> /\ twice # <<>> /\ bs # <<>> /\ bbs # <<>>
  BY <1>2, <1>3, <1>5, <1>6, ConcatEqualIffEmpty
<1>8. base \o <<"/">> \o (base \o <<"/">> \o rest) = twice /\ base \o <<"/">> \o rest = once
  <2>1. b \o s \o (b \o s \o rest) = twice
    <3>1. Regroups(b, s, rest)
      BY <1>2, Regroup
    <3> QED BY <1>5, <3>1, Zenon DEF Regroups
  <2> QED BY <1>1, <1>5, <2>1, Zenon
<1>9. PICK V, W : V = Walk(once, F) /\ W = Walk(twice, F)
  OBVIOUS
<1>10. /\ Strides(once, F, V) /\ RealPath(once, F) = Enter(V[Len(once)].at, V[Len(once)].name, F)
       /\ Strides(twice, F, W) /\ RealPath(twice, F) = Enter(W[Len(twice)].at, W[Len(twice)].name, F)
  BY <1>6, <1>7, <1>9, WalkDef
<1>11. /\ Len(bs) = Len(b) + 1 /\ V[Len(b) + 1].at = RealPath(b, F) /\ V[Len(b) + 1].name = <<>>
  <2>1. /\ Len(b \o <<"/">>) = Len(b) + 1
        /\ Walk(b \o <<"/">> \o rest, F)[Len(b) + 1].at = RealPath(b, F)
        /\ Walk(b \o <<"/">> \o rest, F)[Len(b) + 1].name = <<>>
    BY <1>2, <1>3, AtSlash
  <2> QED BY <1>1, <1>5, <1>9, <2>1, Zenon
<1>12. /\ Len(bbs) = Len(bb) + 1 /\ W[Len(bb) + 1].at = RealPath(bb, F) /\ W[Len(bb) + 1].name = <<>>
  <2>1. /\ Len(bb \o <<"/">>) = Len(bb) + 1
        /\ Walk(bb \o <<"/">> \o rest, F)[Len(bb) + 1].at = RealPath(bb, F)
        /\ Walk(bb \o <<"/">> \o rest, F)[Len(bb) + 1].name = <<>>
    BY <1>6, <1>7, AtSlash
  <2> QED BY <1>1, <1>5, <1>9, <2>1, Zenon
<1>13. RealPath(b, F) = BasePath
  <2>1. RealPath(b, {}) = RealPath(b, F) \/ RealPath(b, {}) = None
    BY <1>2, <1>3, WithoutFiles
  <2> QED BY <1>3, <1>4, <2>1
<1>14. \/ RealPath(bb, {}) = RealPath(bb, F)
       \/ RealPath(bb, {}) = None /\ RealPath(bb, F) \notin Dirs
  BY <1>6, <1>7, WithoutFiles
<1>15. RealPath(bb, {}) = BasePath
  BY <1>1, <1>5, Zenon
<1>16. W[Len(bbs)].at = V[Len(bs)].at /\ W[Len(bbs)].name = V[Len(bs)].name
  BY <1>3, <1>4, <1>11, <1>12, <1>13, <1>14, <1>15
<1>17. Strides(bs \o rest, F, V) /\ Strides(bbs \o rest, F, W)
  BY <1>5, <1>10
<1>18. /\ W[Len(bbs \o rest)].at = V[Len(bs \o rest)].at
       /\ W[Len(bbs \o rest)].name = V[Len(bs \o rest)].name
  BY <1>6, <1>16, <1>17, SameEnd
<1>19. RealPath(twice, F) = RealPath(once, F)
  BY <1>5, <1>10, <1>18
<1> QED BY <1>8, <1>19, Zenon

-----------------------------------------------------------------------------
(***************************************************************************)
(* The paths of requests for static files.                                 *)
(***************************************************************************)
\* What the first token is.
Leads(s, tokens, sep) ==
    /\ Len(tokens[1]) <= Len(s)
    /\ \A k \in 1..Len(tokens[1]) : tokens[1][k] = s[k]
    /\ Len(tokens) > 1 => Len(tokens[1]) + 1 <= Len(s) /\ s[Len(tokens[1]) + 1] = sep
    /\ Len(tokens) = 1 => tokens[1] = s /\ \A k \in 1..Len(s) : s[k] # sep

LEMMA OneOrMore ==
    \A n : n \in Nat /\ n >= 1 => n = 1 \/ (n # 1 /\ n > 1 /\ 1 \in 1..(n - 1))
OBVIOUS

LEMMA FirstToken ==
    ASSUME NEW P, NEW s \in Seq(P), NEW sep, NEW compress
    PROVE  /\ Leads(s, Tok(s, sep, compress), sep)
           /\ Tok(s, sep, compress)[1] \in Seq(P)
           /\ Len(Tok(s, sep, compress)) \in Nat /\ Len(Tok(s, sep, compress)) >= 1
<1> DEFINE S == {r \in Seq(P) : Leads(r, Tok(r, sep, compress), sep)}
<1>1. <<>> \in S
  <2>1. PICK e : e = <<>> /\ e \in Seq(P) /\ Len(e) = 0
    BY EmptySeq
  <2>2. PICK tokens : tokens = Tok(e, sep, compress) /\ tokens = << e >>
    BY <2>1, TokEmpty
  <2>3. Len(tokens) = 1 /\ tokens[1] = e
    BY <2>2
  <2>4. Leads(e, tokens, sep)
    BY <2>1, <2>3 DEF Leads
  <2> QED BY <2>1, <2>2, <2>4
<1>2. ASSUME NEW r \in Seq(P), NEW p \in P, r \in S PROVE Append(r, p) \in S
  <2>1. PICK T, U, t : T = Tok(r, sep, compress) /\ U = Tok(t, sep, compress) /\ t = Append(r, p)
    OBVIOUS
  <2>2. Leads(r, T, sep)
    BY <1>2, <2>1
  <2>3. T \in Tokens1(P)
    BY <2>1, TokType
  <2>4. U = IF p # sep THEN AddTo(T, p)
            ELSE IF compress /\ r # <<>> /\ r[Len(r)] = sep THEN T
            ELSE Append(T, <<>>)
    BY <2>1, TokAppend
  <2>5. Len(r) \in Nat /\ Len(t) = Len(r) + 1 /\ t \in Seq(P) /\ t[Len(t)] = p
        /\ \A k \in 1..Len(r) : t[k] = r[k]
    BY <2>1
  <2>6. T \in Seq(Seq(P)) /\ Len(T) \in Nat /\ Len(T) >= 1 /\ T[1] \in Seq(P) /\ Len(T[1]) \in Nat
    <3>1. T \in Seq(Seq(P)) /\ T # <<>>
      BY <2>3 DEF Tokens1
    <3>2. Len(T) \in Nat \ {0}
      BY <3>1, EmptySeq
    <3>3. 1 \in 1..Len(T)
      BY <3>2
    <3>4. T[1] \in Seq(P)
      BY <3>1, <3>3, ElementOfSeq
    <3>5. Len(T) \in Nat /\ Len(T) >= 1
      BY <3>2
    <3> QED BY <3>1, <3>4, <3>5, LenProperties
  <2>n. Len(T) \in Nat /\ Len(T) >= 1
    BY <2>6
  <2>7. CASE p # sep /\ Len(T) = 1
    <3>1. Len(U) = 1 /\ U[1] = Append(T[1], p)
      BY <2>3, <2>4, <2>7, AddToIs
    <3>2. U[1] = t /\ \A k \in 1..Len(t) : t[k] # sep
      <4>1. T[1] = r /\ \A k \in 1..Len(r) : r[k] # sep
        BY <2>2, <2>7 DEF Leads
      <4> QED BY <2>1, <2>5, <2>7, <3>1, <4>1
    <3>3. Leads(t, U, sep)
      BY <2>5, <3>1, <3>2 DEF Leads
    <3> QED BY <2>1, <2>5, <3>3
  <2>8. CASE p # sep /\ Len(T) # 1
    <3>1. Len(U) = Len(T) /\ U[1] = T[1]
      <4>1. /\ Len(AddTo(T, p)) = Len(T)
            /\ \A k \in 1..(Len(T) - 1) : AddTo(T, p)[k] = T[k]
        BY <2>3, AddToIs
      <4>2. 1 \in 1..(Len(T) - 1)
        <5>1. Len(T) # 1
          BY <2>8
        <5> QED BY <2>n, <5>1, OneOrMore, Zenon
      <4>3. U = AddTo(T, p)
        BY <2>4, <2>8
      <4> QED BY <4>1, <4>2, <4>3
    <3>2. Leads(t, U, sep)
      BY <2>2, <2>5, <2>6, <2>8, <3>1 DEF Leads
    <3> QED BY <2>1, <2>5, <3>2
  <2>9. CASE p = sep /\ U = T
    <3>1. Len(T) # 1
      <4>1. CASE ~(compress /\ r # <<>> /\ r[Len(r)] = sep)
        <5>1. U = Append(T, <<>>)
          BY <2>4, <2>9, <4>1
        <5>2. Len(U) = Len(T) + 1
          BY <2>6, <5>1
        <5> QED BY <2>6, <2>9, <5>2
      <4>2. CASE r # <<>> /\ r[Len(r)] = sep
        <5>1. Len(r) \in 1..Len(r)
          BY <4>2, EmptySeq
        <5> QED BY <2>2, <4>2, <5>1 DEF Leads
      <4> QED BY <4>1, <4>2
    <3>2. Leads(t, U, sep)
      BY <2>2, <2>5, <2>6, <2>9, <3>1 DEF Leads
    <3> QED BY <2>1, <2>5, <3>2
  <2>10. CASE p = sep /\ U = Append(T, <<>>)
    <3>1. Len(U) = Len(T) + 1 /\ U[1] = T[1]
      BY <2>6, <2>10
    <3>a. Len(T[1]) <= Len(r) /\ \A k \in 1..Len(T[1]) : T[1][k] = r[k]
      BY <2>2 DEF Leads
    <3>b. Len(T[1]) + 1 <= Len(t) /\ t[Len(T[1]) + 1] = sep
      <4>1. CASE Len(T) = 1
        <5>1. Len(T[1]) = Len(r)
          BY <2>2, <4>1 DEF Leads
        <5> QED BY <2>5, <2>6, <2>10, <5>1
      <4>2. CASE Len(T) > 1
        <5>1. Len(T[1]) + 1 <= Len(r) /\ r[Len(T[1]) + 1] = sep
          BY <2>2, <4>2 DEF Leads
        <5>2. Len(T[1]) + 1 \in 1..Len(r)
          BY <2>5, <2>6, <5>1
        <5> QED BY <2>5, <2>6, <5>1, <5>2
      <4> QED BY <2>n, <4>1, <4>2, OneOrMore, Zenon
    <3>c. \A k \in 1..Len(T[1]) : k \in 1..Len(r) /\ T[1][k] = t[k]
      BY <2>5, <2>6, <3>a
    <3>d. Len(U) # 1
      BY <2>6, <3>1
    <3>2. Leads(t, U, sep)
      BY <2>5, <2>6, <3>1, <3>a, <3>b, <3>c, <3>d DEF Leads
    <3> QED BY <2>1, <2>5, <3>2
  <2> QED BY <2>4, <2>7, <2>8, <2>9, <2>10
<1>3. s \in S
  <2> HIDE DEF S
  <2>1. Seq(P) \subseteq S
    BY <1>1, <1>2, SeqInduction
  <2> QED BY <2>1
<1>4. PICK T : T = Tok(s, sep, compress)
  OBVIOUS
<1>5. T \in Seq(Seq(P)) /\ T # <<>>
  BY <1>4, TokType DEF Tokens1
<1>6. Len(T) \in Nat \ {0}
  BY <1>5, EmptySeq
<1>7. 1 \in 1..Len(T)
  BY <1>6
<1>8. T[1] \in Seq(P)
  BY <1>5, <1>7, ElementOfSeq
<1>9. Len(T) \in Nat /\ Len(T) >= 1
  BY <1>6
<1> QED BY <1>3, <1>4, <1>8, <1>9

LEMMA PrefixIs ==
    ASSUME NEW P, NEW s \in Seq(P), NEW t \in Seq(P)
    PROVE  Seqs!IsPrefix(s, t) <=> Len(s) <= Len(t) /\ \A k \in 1..Len(s) : s[k] = t[k]
<1>1. CASE Len(s) <= Len(t)
  <2>1. PICK a, b : a = SubSeq(s, 1, Len(s)) /\ b = SubSeq(t, 1, Len(s))
    OBVIOUS
  <2>2. /\ a \in Seq(P) /\ b \in Seq(P) /\ Len(a) = Len(s) /\ Len(b) = Len(s)
        /\ \A k \in 1..Len(s) : a[k] = s[k] /\ b[k] = t[k]
    BY <1>1, <2>1
  <2>3. a = b <=> \A k \in 1..Len(s) : a[k] = b[k]
    BY <2>2, SeqEqual
  <2> QED BY <1>1, <2>1, <2>2, <2>3 DEF Seqs!IsPrefix
<1>2. CASE ~(Len(s) <= Len(t))
  BY <1>2 DEF Seqs!IsPrefix
<1> QED BY <1>1, <1>2

ThreeFirst(P, u, a, b, sep, start) ==
    /\ u \in Seq(P) /\ start \in Seq(P) /\ sep # a /\ sep # b
    /\ Len(start) = 3 /\ start[1] = a /\ start[2] = b /\ start[3] = a
    /\ Seqs!IsPrefix(start, u)

LEMMA FirstOfThree ==
    ASSUME NEW P, NEW u, NEW a, NEW b, NEW sep, NEW start, ThreeFirst(P, u, a, b, sep, start), NEW compress
    PROVE  /\ Tok(u, sep, compress)[1] \in Seq(P) /\ Len(Tok(u, sep, compress)[1]) >= 3
           /\ Tok(u, sep, compress)[1][3] = a
<1> /\ u \in Seq(P) /\ start \in Seq(P) /\ sep # a /\ sep # b
    /\ Len(start) = 3 /\ start[1] = a /\ start[2] = b /\ start[3] = a
    /\ Seqs!IsPrefix(start, u)
  BY DEF ThreeFirst
<1>1. Len(u) \in Nat /\ Len(u) >= 3 /\ u[1] = a /\ u[2] = b /\ u[3] = a
  <2>1. Len(start) <= Len(u) /\ \A k \in 1..Len(start) : start[k] = u[k]
    BY PrefixIs
  <2> QED BY <2>1
<1>2. PICK T, h : T = Tok(u, sep, compress) /\ h = T[1]
  OBVIOUS
<1>3. Leads(u, T, sep) /\ h \in Seq(P) /\ Len(T) \in Nat /\ Len(T) >= 1
  BY <1>2, FirstToken
<1>4. Len(h) \in Nat
  BY <1>3
<1>5. Len(h) >= 3
  <2>1. CASE Len(T) = 1
    <3>1. h = u
      BY <1>2, <1>3, <2>1 DEF Leads
    <3> QED BY <1>1, <3>1
  <2>2. CASE Len(T) > 1
    <3>1. u[Len(h) + 1] = sep
      BY <1>2, <1>3, <2>2 DEF Leads
    <3>2. PICK n : n = Len(h)
      OBVIOUS
    <3>3. u[n + 1] = sep /\ n \in Nat
      BY <1>4, <3>1, <3>2
    <3>4. n # 0
      BY <1>1, <3>3
    <3>5. n # 1
      BY <1>1, <3>3
    <3>6. n # 2
      BY <1>1, <3>3
    <3>7. n >= 3
      BY <3>3, <3>4, <3>5, <3>6
    <3> QED BY <3>2, <3>7
  <2>3. Len(T) \in Nat /\ Len(T) >= 1
    BY <1>3
  <2> QED BY <2>1, <2>2, <2>3, OneOrMore, Zenon
<1>6. h[3] = a
  <2>1. \A k \in 1..Len(h) : h[k] = u[k]
    BY <1>2, <1>3 DEF Leads
  <2> QED BY <1>1, <1>4, <1>5, <2>1
<1> QED BY <1>2, <1>3, <1>5, <1>6

\* What URIDecode leaves as it is.
Kept(p) == p \notin DOMAIN Escapes /\ p # "+"

LEMMA DecodeIs ==
    ASSUME NEW P, NEW s \in Seq(P)
    PROVE  \E Q : /\ URIDecode(s) \in Seq(Q) /\ Len(URIDecode(s)) = Len(s)
                  /\ \A k \in 1..Len(s) : Kept(s[k]) => URIDecode(s)[k] = s[k]
<1>1. PICK D : D = URIDecode(s)
  OBVIOUS
<1>2. PICK N : N = Len(s) /\ N \in Nat /\ DOMAIN s = 1..N
  OBVIOUS
<1>3. /\ DOMAIN D = DOMAIN s /\ D = [k \in DOMAIN s |-> D[k]]
      /\ \A k \in DOMAIN s : Kept(s[k]) => D[k] = s[k]
  <2>1. D = [k \in DOMAIN s |->
            IF s[k] = "+" THEN " "
            ELSE IF s[k] \in DOMAIN Escapes /\ Escapes[s[k]] \in Printable THEN Escapes[s[k]]
            ELSE s[k]]
    BY <1>1, Zenon DEF URIDecode
  <2>2. DOMAIN D = DOMAIN s /\ D = [k \in DOMAIN s |-> D[k]]
    BY <2>1
  <2>3. ASSUME NEW k \in DOMAIN s, Kept(s[k]) PROVE D[k] = s[k]
    BY <2>1, <2>3 DEF Kept
  <2> QED BY <2>2, <2>3
<1>4. PICK Q : Q = {D[k] : k \in 1..N}
  OBVIOUS
<1>5. D \in Seq(Q) /\ Len(D) = N
  <2>1. \A k \in 1..N : D[k] \in Q
    BY <1>4
  <2>2. D = [k \in 1..N |-> D[k]]
    BY <1>2, <1>3
  <2>3. D \in [1..N -> Q]
    BY <2>1, <2>2
  <2> QED BY <1>2, <2>3
<1> QED BY <1>1, <1>2, <1>3, <1>5

\* The path of a URI for a static file goes on with a slash.
LEMMA StaticPath ==
    ASSUME NEW P, NEW u \in Seq(P), IsStatic(u)
    PROVE  \E Q : /\ Path(u) \in Seq(Q) /\ Len(Path(u)) >= 3
                  /\ Path(u)[3] = "/"
<1>1. PICK start, PS : start = <<"/", "static", "/">> /\ PS = P \cup {"/", "static"}
  OBVIOUS
<1>2. Seqs!IsPrefix(start, u)
  BY <1>1, Zenon DEF IsStatic
<1>3. u \in Seq(PS) /\ "/" \in PS /\ "static" \in PS
  <2>1. P \subseteq PS /\ "/" \in PS /\ "static" \in PS
    BY <1>1
  <2>2. u \in Seq(PS)
    BY <2>1, SmallSeqs
  <2> QED BY <2>1, <2>2
<1>4. start \in Seq(PS) /\ Len(start) = 3 /\ start[1] = "/" /\ start[2] = "static" /\ start[3] = "/"
  BY <1>1, <1>3
<1>5. PICK h : h = Tok(u, "?", FALSE)[1]
  OBVIOUS
<1>6. h \in Seq(PS) /\ Len(h) >= 3 /\ h[3] = "/"
  <2>1. PICK a, b, sep, never : a = "/" /\ b = "static" /\ sep = "?" /\ never = FALSE
    OBVIOUS
  <2>2. ThreeFirst(PS, u, a, b, sep, start)
    BY <1>2, <1>3, <1>4, <2>1 DEF ThreeFirst
  <2>3. /\ Tok(u, sep, never)[1] \in Seq(PS) /\ Len(Tok(u, sep, never)[1]) >= 3
        /\ Tok(u, sep, never)[1][3] = a
    BY <2>2, FirstOfThree
  <2> QED BY <1>5, <2>1, <2>3, Zenon
<1>7. Path(u) = URIDecode(h)
  BY <1>5, SplitsAre, Zenon DEF Path
<1>8. Kept(h[3])
  BY <1>6, EscapesAssumption DEF Kept
<1>9. PICK Q : /\ URIDecode(h) \in Seq(Q) /\ Len(URIDecode(h)) = Len(h)
               /\ \A k \in 1..Len(h) : Kept(h[k]) => URIDecode(h)[k] = h[k]
  BY <1>6, DecodeIs
<1>10. 3 \in 1..Len(h)
  BY <1>6
<1> QED BY <1>6, <1>7, <1>8, <1>9, <1>10

\* What IsPathSafe says when base_dir leads to BasePath: the path lies below it, unless
\* BasePath is the root.
Filled(tokens, n) == [k \in 1..n |-> IF k <= Len(tokens) THEN tokens[k] ELSE <<>>]

LEMMA TokensAre ==
    ASSUME NEW X, NEW path \in Seq(X)
    PROVE  LET n == IF path = <<>> THEN 1 ELSE Len(path)
           IN  /\ Len(Tokens(path)) = n + 1 /\ DOMAIN Tokens(path) = 1..(n + 1)
               /\ \E S : Tokens(path) \in Seq(S)
               /\ Tokens(path)[1] = <<>>
               /\ \A k \in 1..n : Tokens(path)[k + 1] = IF path = <<>> THEN <<>> ELSE path[k]
<1>1. CASE path = <<>>
  <2>1. PICK tokens : tokens = << <<>>, <<>> >>
    OBVIOUS
  <2>2. tokens \in Seq({<<>>}) /\ Len(tokens) = 2 /\ tokens[1] = <<>> /\ tokens[2] = <<>>
        /\ DOMAIN tokens = 1..2
    BY <2>1
  <2>3. Tokens(path) = tokens
    BY <1>1, <2>1, Zenon DEF Tokens
  <2> QED BY <1>1, <2>2, <2>3
<1>2. CASE path # <<>>
  <2>1. PICK e, S : e = << <<>> >> /\ S = X \cup {<<>>}
    OBVIOUS
  <2>2. e \in Seq(S) /\ Len(e) = 1 /\ e[1] = <<>>
    BY <2>1
  <2>3. path \in Seq(S) /\ Len(path) \in Nat
    BY <2>1
  <2>4. PICK tokens : tokens = e \o path
    OBVIOUS
  <2>5. /\ tokens \in Seq(S) /\ Len(tokens) = Len(e) + Len(path)
        /\ \A k \in 1..(Len(e) + Len(path)) : tokens[k] = IF k <= Len(e) THEN e[k] ELSE path[k - Len(e)]
    BY <2>2, <2>3, <2>4, ConcatProperties
  <2>6. Len(tokens) = Len(path) + 1 /\ tokens[1] = <<>> /\ DOMAIN tokens = 1..(Len(path) + 1)
    BY <2>2, <2>3, <2>5
  <2>7. ASSUME NEW k \in 1..Len(path) PROVE tokens[k + 1] = path[k]
    <3>1. k + 1 \in 1..(1 + Len(path)) /\ ~(k + 1 <= 1) /\ (k + 1) - 1 = k
      BY <2>3
    <3> QED BY <2>2, <2>5, <3>1
  <2>8. Tokens(path) = tokens
    BY <1>2, <2>1, <2>4, Zenon DEF Tokens
  <2> QED BY <1>2, <2>5, <2>6, <2>7, <2>8
<1> QED BY <1>1, <1>2

LEMMA SafeIs ==
    ASSUME NEW root_dir, NEW test_file, NEW F, NEW X, RealPath(root_dir, F) = BasePath,
           BasePath \in Dirs, BasePath \in Seq(X),
           RealPath(test_file, F) # None => RealPath(test_file, F) \in Seq(X)
    PROVE  /\ IsPathSafe(root_dir, test_file, F) => InBase(RealPath(test_file, F))
           /\ BasePath # <<>> /\ InBase(RealPath(test_file, F)) => IsPathSafe(root_dir, test_file, F)
<1>1. PICK path, base : path = RealPath(test_file, F) /\ base = BasePath
  OBVIOUS
<1>2. IsPathSafe(root_dir, test_file, F) <=>
         path # None /\ Tokens(base) = Filled(Tokens(path), Len(Tokens(base)))
  <2>1. None # BasePath
    BY DirsAreSeqs
  <2> QED BY <1>1, <2>1, Zenon DEF IsPathSafe, Filled
<1>3. CASE path = None
  BY <1>1, <1>2, <1>3 DEF InBase
<1>4. CASE path # None
  <2>1. path \in Seq(X) /\ base \in Seq(X)
    BY <1>1, <1>4
  <2>2. InBase(path) <=> Len(base) <= Len(path) /\ \A k \in 1..Len(base) : base[k] = path[k]
    BY <1>1, <1>4, <2>1, PrefixIs DEF InBase
  <2>3. \A k \in DOMAIN base : base[k] # <<>>
    BY <1>1, DirsAssumption
  <2>4. Len(base) \in Nat /\ Len(path) \in Nat /\ DOMAIN base = 1..Len(base)
    BY <2>1
  <2>5. CASE base = <<>>
    <3>1. Len(base) = 0
      BY <2>5
    <3>2. InBase(path)
      BY <2>2, <2>4, <3>1
    <3> QED BY <1>1, <2>5, <3>2
  <2>6. CASE base # <<>>
    <3>1. PICK tb, tp, n : tb = Tokens(base) /\ tp = Tokens(path)
                           /\ n = IF path = <<>> THEN 1 ELSE Len(path)
      OBVIOUS
    <3>2. /\ Len(tb) = Len(base) + 1 /\ DOMAIN tb = 1..(Len(base) + 1) /\ tb[1] = <<>>
          /\ \A k \in 1..Len(base) : tb[k + 1] = base[k]
          /\ \E S : tb \in Seq(S)
      BY <2>1, <2>6, <3>1, TokensAre
    <3>3. /\ Len(tp) = n + 1 /\ tp[1] = <<>>
          /\ \A k \in 1..n : tp[k + 1] = IF path = <<>> THEN <<>> ELSE path[k]
      BY <2>1, <3>1, TokensAre
    <3>4. Len(base) >= 1 /\ n \in Nat /\ n >= 1 /\ (path # <<>> => n = Len(path)) /\ (path = <<>> => Len(path) = 0)
      <4>1. Len(base) \in Nat \ {0}
        BY <2>1, <2>6, EmptySeq
      <4>2. path # <<>> => Len(path) \in Nat \ {0}
        BY <2>1, EmptySeq
      <4> QED BY <2>4, <3>1, <4>1, <4>2
    <3>5. tb = Filled(tp, Len(tb)) <=>
             \A k \in 1..(Len(base) + 1) : tb[k] = IF k <= n + 1 THEN tp[k] ELSE <<>>
      <4>1. PICK m, f : m = Len(tb) /\ f = Filled(tp, m)
        OBVIOUS
      <4>2. m = Len(base) + 1
        BY <3>2, <4>1
      <4>3. f = [k \in 1..m |-> IF k <= Len(tp) THEN tp[k] ELSE <<>>]
        BY <4>1 DEF Filled
      <4>4. tb = [k \in 1..m |-> tb[k]]
        BY <3>2, <4>2
      <4>5. tb = f <=> \A k \in 1..m : tb[k] = f[k]
        BY <4>3, <4>4
      <4> QED BY <3>3, <4>1, <4>2, <4>3, <4>5
    <3>6. ASSUME tb = Filled(tp, Len(tb)) PROVE InBase(path)
      <4>1. ASSUME NEW k \in 1..Len(base) PROVE k <= Len(path) /\ base[k] = path[k]
        <5>1. k + 1 \in 1..(Len(base) + 1) /\ base[k] # <<>> /\ tb[k + 1] = base[k]
          BY <2>3, <2>4, <3>2
        <5>2. base[k] = IF k + 1 <= n + 1 THEN tp[k + 1] ELSE <<>>
          BY <3>5, <3>6, <5>1
        <5>3. k <= n
          BY <2>4, <3>4, <5>1, <5>2
        <5>4. base[k] = IF path = <<>> THEN <<>> ELSE path[k]
          BY <3>3, <3>4, <5>2, <5>3
        <5> QED BY <3>4, <5>1, <5>3, <5>4
      <4>2. Len(base) <= Len(path)
        BY <2>4, <3>4, <4>1
      <4> QED BY <2>2, <4>1, <4>2
    <3>7. ASSUME InBase(path) PROVE tb = Filled(tp, Len(tb))
      <4>1. Len(base) <= Len(path) /\ \A k \in 1..Len(base) : base[k] = path[k]
        BY <2>2, <3>7
      <4>2. path # <<>> /\ n = Len(path)
        BY <2>4, <3>4, <4>1
      <4>3. ASSUME NEW k \in 1..(Len(base) + 1) PROVE tb[k] = IF k <= n + 1 THEN tp[k] ELSE <<>>
        <5>1. CASE k = 1
          BY <3>2, <3>3, <3>4, <5>1
        <5>2. CASE k # 1
          <6>1. PICK j \in 1..Len(base) : k = j + 1
            <7>1. k - 1 \in 1..Len(base) /\ k = (k - 1) + 1
              BY <2>4, <5>2
            <7> QED BY <7>1
          <6>2. tb[j + 1] = base[j] /\ base[j] = path[j]
            BY <3>2, <4>1
          <6>3. j \in 1..n /\ tp[j + 1] = path[j]
            BY <2>4, <3>3, <4>1, <4>2
          <6>4. j + 1 <= n + 1
            BY <2>4, <3>4, <6>3
          <6> QED BY <6>1, <6>2, <6>3, <6>4
        <5> QED BY <5>1, <5>2
      <4> QED BY <3>5, <4>3
    <3> QED BY <1>1, <1>2, <1>4, <3>1, <3>6, <3>7
  <2> QED BY <2>5, <2>6
<1> QED BY <1>3, <1>4

Pieces == Names \cup UNION {Seq(Seqs!ToSet(d)) : d \in DocNames}

\* Directories and documents are sequences of names.
LEMMA PathTypes ==
    /\ Dirs \subseteq Seq(Pieces) /\ Documents \subseteq Seq(Pieces) /\ None \notin Documents
    /\ BasePath \in Dirs /\ BasePath \in Seq(Pieces)
<1>1. Dirs \subseteq Seq(Pieces)
  <2>1. Names \subseteq Pieces
    BY DEF Pieces
  <2> QED BY <2>1, DirsAreSeqs, SmallSeqs
<1>2. BasePath \in Dirs
  BY BaseDirsAssumption, Zenon
<1>3. ASSUME NEW d \in DocNames PROVE NamePath(d) \in Seq(Pieces)
  <2>1. PICK S : S = Seqs!ToSet(d)
    OBVIOUS
  <2>2. d \in Seq(S)
    BY <2>1, DocNamesAssumption, Zenon
  <2>3. PICK names : names = Split(d, "/")
    OBVIOUS
  <2>4. names \in Seq(Seq(S))
    <3>1. Tok(d, "/", FALSE) \in Tokens1(S)
      BY <2>2, TokType
    <3>2. Split(d, "/") = Tok(d, "/", FALSE)
      BY SplitsAre, Zenon
    <3> QED BY <2>3, <3>1, <3>2, Zenon DEF Tokens1
  <2>5. Seq(S) \subseteq Pieces
    BY <2>1 DEF Pieces
  <2>6. names \in Seq(Pieces) /\ BasePath \in Seq(Pieces)
    BY <1>1, <1>2, <2>4, <2>5, SmallSeqs
  <2>7. BasePath \o names \in Seq(Pieces)
    BY <2>6, ConcatProperties
  <2> QED BY <2>3, <2>7, Zenon DEF NamePath
<1>4. None \notin Documents
  BY DocNamesAssumption, Zenon DEF Documents
<1> QED BY <1>1, <1>2, <1>3, <1>4 DEF Documents

-----------------------------------------------------------------------------
(***************************************************************************)
(* StaticServed.                                                           *)
(***************************************************************************)
IsSeq(s) == \E P : s \in Seq(P)

TwoSeqs(P, s, Q, t) == s \in Seq(P) /\ t \in Seq(Q)

LEMMA UnitedSeqs ==
    ASSUME NEW P, NEW Q, NEW s, NEW t, TwoSeqs(P, s, Q, t), NEW p
    PROVE  \E R : s \in Seq(R) /\ t \in Seq(R) /\ p \in R
<1> s \in Seq(P) /\ t \in Seq(Q)
  BY DEF TwoSeqs
<1>1. PICK R : R = P \cup Q \cup {p}
  OBVIOUS
<1>2. P \subseteq R /\ Q \subseteq R /\ p \in R
  BY <1>1
<1>3. s \in Seq(R)
  BY <1>2, SmallSeqs
<1>4. t \in Seq(R)
  BY <1>2, SmallSeqs
<1> QED BY <1>2, <1>3, <1>4

LEMMA BasesAre ==
    ASSUME NEW base \in BaseDirs
    PROVE  IsSeq(base) /\ base # <<>> /\ RealPath(base, {}) = BasePath
<1>1. base \in Seq(Seqs!ToSet(base)) /\ base # <<>> /\ RealPath(base, {}) = BasePath
  BY BaseDirsAssumption, Zenon
<1> QED BY <1>1, Zenon DEF IsSeq

\* The cut before the third piece and the one behind it.
LEMMA CutAtSlash ==
    ASSUME NEW P, NEW s \in Seq(P), Len(s) >= 3, NEW slash, s[3] = slash
    PROVE  /\ SubSeq(s, 3, Len(s)) = <<slash>> \o SubSeq(s, 4, Len(s))
           /\ SubSeq(s, 4, Len(s)) \in Seq(P)
<1>1. PICK n \in Nat : n = Len(s) /\ n >= 3
  OBVIOUS
<1>2. \A i \in 1..n : s[i] \in P
  BY <1>1
<1>3. PICK a, b, c, d : a = SubSeq(s, 3, n) /\ b = SubSeq(s, 4, n) /\ c = <<slash>> /\ d = c \o b
  OBVIOUS
<1>4. slash \in P
  BY <1>1, <1>2
<1>5. c \in Seq(P) /\ Len(c) = 1 /\ c[1] = slash
  BY <1>3, <1>4
<1>6. a \in Seq(P) /\ Len(a) = n - 2 /\ \A i \in 1..(n - 2) : a[i] = s[i + 2]
  <2>1. \A i \in 3..n : s[i] \in P
    BY <1>1, <1>2
  <2>2. /\ SubSeq(s, 3, n) \in Seq(P) /\ Len(SubSeq(s, 3, n)) = IF 3 <= n THEN n - 3 + 1 ELSE 0
        /\ \A i \in 1..(n - 3 + 1) : SubSeq(s, 3, n)[i] = s[3 + i - 1]
    BY <1>1, <2>1, SubSeqProperties
  <2>3. n - 3 + 1 = n - 2 /\ \A i \in 1..(n - 2) : 3 + i - 1 = i + 2
    BY <1>1
  <2> QED BY <1>1, <1>3, <2>2, <2>3
<1>7. b \in Seq(P) /\ Len(b) = n - 3 /\ \A i \in 1..(n - 3) : b[i] = s[i + 3]
  <2>1. \A i \in 4..n : s[i] \in P
    BY <1>1, <1>2
  <2>2. /\ SubSeq(s, 4, n) \in Seq(P) /\ Len(SubSeq(s, 4, n)) = IF 4 <= n THEN n - 4 + 1 ELSE 0
        /\ \A i \in 1..(n - 4 + 1) : SubSeq(s, 4, n)[i] = s[4 + i - 1]
    BY <1>1, <2>1, SubSeqProperties
  <2>3. n - 4 + 1 = n - 3 /\ (~(4 <= n) => n - 3 = 0) /\ \A i \in 1..(n - 3) : 4 + i - 1 = i + 3
    BY <1>1
  <2> QED BY <1>1, <1>3, <2>2, <2>3
<1>8. /\ d \in Seq(P) /\ Len(d) = 1 + (n - 3)
      /\ \A i \in 1..(1 + (n - 3)) : d[i] = IF i <= 1 THEN c[i] ELSE b[i - 1]
  BY <1>3, <1>5, <1>7, ConcatProperties
<1>9. Len(a) = Len(d) /\ \A i \in 1..Len(a) : a[i] = d[i]
  <2>1. ASSUME NEW i \in 1..(n - 2) PROVE a[i] = d[i]
    <3>1. CASE i = 1
      BY <1>1, <1>5, <1>6, <1>8, <3>1
    <3>2. CASE i # 1
      <4>1. i - 1 \in 1..(n - 3) /\ i \in 1..(1 + (n - 3)) /\ ~(i <= 1) /\ (i - 1) + 3 = i + 2
        BY <1>1, <3>2
      <4> QED BY <1>6, <1>7, <1>8, <4>1
    <3> QED BY <3>1, <3>2
  <2>2. n - 2 = 1 + (n - 3)
    BY <1>1
  <2> QED BY <1>6, <1>8, <2>1, <2>2
<1>10. a = d
  BY <1>6, <1>8, <1>9, SeqEqual
<1> QED BY <1>1, <1>3, <1>7, <1>10

\* The name that ProcessFileRequest makes up is the one that the request means, and
\* what FileReader makes of it leads to the source.
LEMMA NamesAre ==
    ASSUME NEW t \in Threads, base_dir \in BaseDirs, IsSeq(uri[t]), IsStatic(uri[t])
    PROVE  /\ FileName(t) = Meant(t) /\ IsSeq(Meant(t)) /\ Meant(t) # <<>>
           /\ IsSeq(FullFile(t)) /\ FullFile(t) # <<>>
           /\ \A F : RealPath(base_dir, F) = BasePath
           /\ Source(t) = RealPath(FullFile(t), Documents)
<1>1. PICK u, base, path, rest : /\ u = uri[t] /\ base = base_dir /\ path = Path(u)
                                 /\ rest = SubSeq(path, 4, Len(path))
  OBVIOUS
<1>2. PICK P : base \in Seq(P)
  BY <1>1, BasesAre DEF IsSeq
<1>3. PICK Q : path \in Seq(Q) /\ Len(path) >= 3 /\ path[3] = "/"
  <2>1. PICK R : u \in Seq(R)
    BY <1>1 DEF IsSeq
  <2>2. IsStatic(u)
    BY <1>1
  <2> QED BY <1>1, <2>1, <2>2, StaticPath, Zenon
<1>4. SubSeq(path, 3, Len(path)) = <<"/">> \o rest /\ rest \in Seq(Q)
  BY <1>1, <1>3, CutAtSlash, Zenon
<1>5. PICK R : base \in Seq(R) /\ rest \in Seq(R) /\ "/" \in R
  <2>1. TwoSeqs(P, base, Q, rest)
    BY <1>2, <1>4, Zenon DEF TwoSeqs
  <2> HIDE <1>1, <1>2, <1>3, <1>4
  <2>2. \A slash : \E R : base \in Seq(R) /\ rest \in Seq(R) /\ slash \in R
    BY <2>1, UnitedSeqs, Zenon
  <2> QED BY <2>2, Zenon
<1>6. FileName(t) = base \o (<<"/">> \o rest) /\ Meant(t) = base \o <<"/">> \o rest
      /\ FullFile(t) = base \o <<"/">> \o FileName(t)
  BY <1>1, <1>4, Zenon DEF FileName, Meant, FullFile
<1>7. <<"/">> \in Seq(R)
  <2>1. PICK slash : slash = "/"
    OBVIOUS
  <2>2. <<slash>> \in Seq(R)
    BY <1>5, <2>1, TuplesType
  <2> QED BY <2>1, <2>2, Zenon
<1>8. base \o (<<"/">> \o rest) = base \o <<"/">> \o rest
  <2>1. Associates(base, <<"/">>, rest)
    BY <1>5, <1>7, Association
  <2> QED BY <2>1, Zenon DEF Associates
<1>9. base # <<>> /\ RealPath(base, {}) = BasePath
  BY <1>1, BasesAre
<1>10. Meant(t) \in Seq(R) /\ Meant(t) # <<>>
  <2>1. PICK s, bs, all : s = <<"/">> /\ bs = base \o s /\ all = bs \o rest
    OBVIOUS
  <2>2. s \in Seq(R)
    BY <1>7, <2>1, Zenon
  <2>3. bs \in Seq(R) /\ bs # <<>>
    BY <1>5, <1>9, <2>1, <2>2, ConcatProperties, ConcatEqualIffEmpty
  <2>4. all \in Seq(R) /\ all # <<>>
    BY <1>5, <2>1, <2>3, ConcatProperties, ConcatEqualIffEmpty
  <2>5. Meant(t) = all
    BY <1>6, <2>1, Zenon
  <2> QED BY <2>4, <2>5
<1>11. ASSUME NEW F PROVE RealPath(base_dir, F) = BasePath
  <2>1. RealPath(base, {}) = RealPath(base, F) \/ RealPath(base, {}) = None
    BY <1>5, <1>9, WithoutFiles
  <2>2. BasePath # None
    BY PathTypes, DirsAreSeqs
  <2> QED BY <1>1, <1>9, <2>1, <2>2
<1>12. FullFile(t) = base \o <<"/">> \o (base \o <<"/">> \o rest) /\ FileName(t) = Meant(t)
  BY <1>6, <1>8, Zenon
<1>13. Source(t) = RealPath(FullFile(t), Documents)
  <2>1. SelfRelative <=> RealPath(base \o <<"/">> \o base, {}) = BasePath
    BY <1>1, Zenon DEF SelfRelative
  <2>2. CASE SelfRelative
    <3>1. base \in BaseDirs
      BY <1>1
    <3>2. RealPath(base \o <<"/">> \o (base \o <<"/">> \o rest), Documents) =
             RealPath(base \o <<"/">> \o rest, Documents)
      BY <1>5, <2>1, <2>2, <3>1, Repeated
    <3>3. RealPath(FullFile(t), Documents) = RealPath(Meant(t), Documents)
      BY <1>6, <1>12, <3>2, Zenon
    <3> QED BY <2>2, <3>3, Zenon DEF Source, Target
  <2>3. CASE ~SelfRelative
    BY <1>1, <1>6, <1>12, <2>3, Zenon DEF Source
  <2> QED BY <2>2, <2>3
<1>14. IsSeq(FullFile(t)) /\ FullFile(t) # <<>>
  <2>1. PICK bs, name, all : bs = base \o <<"/">> /\ name = Meant(t) /\ all = bs \o name
    OBVIOUS
  <2>2. bs \in Seq(R) /\ name \in Seq(R) /\ name # <<>>
    BY <1>5, <1>7, <1>10, <2>1, ConcatProperties
  <2>3. all \in Seq(R) /\ all # <<>>
    BY <2>1, <2>2, ConcatProperties, ConcatEqualIffEmpty
  <2>4. FullFile(t) = all
    BY <1>6, <1>12, <2>1, Zenon
  <2> QED BY <2>3, <2>4 DEF IsSeq
<1>15. IsSeq(Meant(t))
  BY <1>10 DEF IsSeq
<1> QED BY <1>10, <1>11, <1>12, <1>13, <1>14, <1>15, Zenon

\* What a response for a static file is worth, and what it takes to get there.
Reached(t) ==
    /\ at[t] \in {"path", "read", "load", "type"} => IsStatic(uri[t])
    /\ at[t] = "query" => ~IsStatic(uri[t])
    /\ at[t] \in {"idle", "path", "read", "load", "query"} => page[t] = NoPage
    /\ at[t] = "type" => page[t].kind = "file"
    /\ at[t] = "read" => InBase(Target(t))
    /\ at[t] = "load" => InBase(Target(t)) /\ InBase(Source(t))

Deserves(t, response) ==
    /\ response.kind = "file" =>
          /\ InBase(Target(t)) /\ InBase(Source(t))
          /\ \/ Source(t) \in Documents /\ response.body = Contents(Source(t))
             \/ Source(t) \notin files /\ response.body = {}
    /\ response.kind = "not found" => BasePath = <<>> \/ Missing(Target(t)) \/ Missing(Source(t))

Served(t) ==
    /\ Deserves(t, page[t])
    /\ at[t] = "crashed" => Source(t) \notin files \/ ~HasExtension(Meant(t))

StaticInv ==
    /\ base_dir \in BaseDirs /\ files \subseteq Documents
    /\ DOMAIN at = Threads /\ DOMAIN uri = Threads /\ DOMAIN page = Threads
    /\ \A t \in Threads : IsSeq(uri[t]) /\ Reached(t) /\ (IsStatic(uri[t]) => Served(t))

\* Where a name leads, as opposed to where it led before anybody removed documents.
LEMMA NameLeads ==
    ASSUME base_dir \in BaseDirs, files \subseteq Documents, RealPath(base_dir, files) = BasePath,
           NEW name, IsSeq(name), name # <<>>,
           NEW path, path = RealPath(name, files), NEW target, target = RealPath(name, Documents)
    PROVE  /\ path = target \/ (path = None /\ target \in Documents \ files)
           /\ IsPathSafe(base_dir, name, files) => path # None /\ InBase(target)
           /\ ~IsPathSafe(base_dir, name, files) => BasePath = <<>> \/ Missing(target)
<1>1. PICK P : name \in Seq(P)
  BY DEF IsSeq
<1>2. path = target \/ (path = None /\ target \in Documents \ files)
  <2>1. PICK F, G : F = Documents /\ G = files
    OBVIOUS
  <2>2. name \in Seq(P) /\ name # <<>> /\ G \subseteq F
    BY <1>1, <2>1
  <2>3. \/ RealPath(name, G) = RealPath(name, F)
        \/ RealPath(name, G) = None /\ RealPath(name, F) \in F \ (G \cup Dirs)
    BY <2>2, FewerFiles
  <2> QED BY <2>1, <2>3
<1>3. path # None => path \in Seq(Pieces)
  <2>1. path \in Places(files)
    BY <1>1, RealPathType
  <2>2. Seq(Names) \subseteq Seq(Pieces)
    <3>1. Names \subseteq Pieces
      BY DEF Pieces
    <3> QED BY <3>1, SmallSeqs
  <2>3. files \subseteq Seq(Pieces)
    BY PathTypes
  <2> QED BY <2>1, <2>2, <2>3 DEF Places
<1>4. BasePath \in Dirs /\ BasePath \in Seq(Pieces)
  BY PathTypes
<1>5. /\ IsPathSafe(base_dir, name, files) => InBase(path)
      /\ BasePath # <<>> /\ InBase(path) => IsPathSafe(base_dir, name, files)
  BY <1>3, <1>4, SafeIs
<1>6. InBase(path) => path # None /\ path = target
  BY <1>2 DEF InBase
<1>7. ~InBase(path) => Missing(target)
  BY <1>2 DEF Missing
<1> QED BY <1>2, <1>5, <1>6, <1>7

LEMMA TargetsAre ==
    ASSUME NEW t \in Threads, base_dir \in BaseDirs, files \subseteq Documents, IsSeq(uri[t]), IsStatic(uri[t])
    PROVE  LET path == RealPath(FullFile(t), files)
           IN  /\ path = Source(t) \/ (path = None /\ Source(t) \in Documents \ files)
               /\ IsPathSafe(base_dir, FileName(t), files) => InBase(Target(t))
               /\ ~IsPathSafe(base_dir, FileName(t), files) => BasePath = <<>> \/ Missing(Target(t))
               /\ IsPathSafe(base_dir, FullFile(t), files) => InBase(Source(t))
               /\ ~IsPathSafe(base_dir, FullFile(t), files) => BasePath = <<>> \/ Missing(Source(t))
<1>1. /\ FileName(t) = Meant(t) /\ IsSeq(Meant(t)) /\ Meant(t) # <<>>
      /\ IsSeq(FullFile(t)) /\ FullFile(t) # <<>>
      /\ RealPath(base_dir, files) = BasePath
      /\ Source(t) = RealPath(FullFile(t), Documents)
  BY NamesAre
<1>2. Target(t) = RealPath(FileName(t), Documents)
  BY <1>1, Zenon DEF Target
<1>3. PICK name, full, path : /\ name = FileName(t) /\ full = FullFile(t)
                              /\ path = RealPath(full, files)
  OBVIOUS
<1>4. /\ IsPathSafe(base_dir, name, files) => InBase(Target(t))
      /\ ~IsPathSafe(base_dir, name, files) => BasePath = <<>> \/ Missing(Target(t))
  <2>1. IsSeq(name) /\ name # <<>> /\ Target(t) = RealPath(name, Documents)
    BY <1>1, <1>2, <1>3, Zenon
  <2> QED BY <1>1, <2>1, NameLeads
<1>5. /\ path = Source(t) \/ (path = None /\ Source(t) \in Documents \ files)
      /\ IsPathSafe(base_dir, full, files) => InBase(Source(t))
      /\ ~IsPathSafe(base_dir, full, files) => BasePath = <<>> \/ Missing(Source(t))
  <2>1. IsSeq(full) /\ full # <<>> /\ Source(t) = RealPath(full, Documents)
    BY <1>1, <1>3, Zenon
  <2> QED BY <1>1, <1>3, <2>1, NameLeads
<1> QED BY <1>3, <1>4, <1>5, Zenon

-----------------------------------------------------------------------------
(***************************************************************************)
(* The requests that browsers make.                                        *)
(***************************************************************************)
Asked(u) == \E P : u \in Seq(P) /\ u # <<>> /\ " " \notin P /\ "CRLF" \notin P

\* A URI after five or three pieces.
LEMMA StartsWith ==
    ASSUME NEW P, NEW start \in Seq(P), NEW rest \in Seq(P), start # <<>>
    PROVE  start \o rest \in Seq(P) /\ start \o rest # <<>>
BY ConcatProperties, ConcatEqualIffEmpty

LEMMA Mapped ==
    ASSUME NEW P, NEW s, NEW n \in Nat, DOMAIN s = 1..n, s = [k \in 1..n |-> s[k]], \A k \in 1..n : s[k] \in P
    PROVE  s \in Seq(P) /\ Len(s) = n
<1>1. s \in [1..n -> P]
  OBVIOUS
<1> QED BY <1>1

LEMMA EncodeIs ==
    ASSUME NEW P, NEW text \in Seq(P)
    PROVE  /\ DOMAIN FormEncode(text) = 1..Len(text)
           /\ FormEncode(text) = [k \in 1..Len(text) |-> FormEncode(text)[k]]
           /\ \A k \in 1..Len(text) :
                 /\ text[k] = " " => FormEncode(text)[k] = "+"
                 /\ text[k] # " " /\ (\E e \in DOMAIN Escapes : Escapes[e] = text[k])
                       => FormEncode(text)[k] \in DOMAIN Escapes /\ Escapes[FormEncode(text)[k]] = text[k]
                 /\ text[k] # " " /\ ~(\E e \in DOMAIN Escapes : Escapes[e] = text[k])
                       => FormEncode(text)[k] = text[k]
<1> DEFINE Code(p) == CHOOSE e \in DOMAIN Escapes : Escapes[e] = p
<1>1. PICK f : f = FormEncode(text)
  OBVIOUS
<1>2. f = [k \in DOMAIN text |->
        IF text[k] = " " THEN "+"
        ELSE IF \E e \in DOMAIN Escapes : Escapes[e] = text[k] THEN Code(text[k])
        ELSE text[k]]
  BY <1>1, Zenon DEF FormEncode
<1>3. \A p : (\E e \in DOMAIN Escapes : Escapes[e] = p) => Code(p) \in DOMAIN Escapes /\ Escapes[Code(p)] = p
  BY Zenon
<1> HIDE DEF Code
<1>4. DOMAIN text = 1..Len(text)
  OBVIOUS
<1>5. DOMAIN f = 1..Len(text) /\ f = [k \in 1..Len(text) |-> f[k]]
  BY <1>2, <1>4
<1>6. ASSUME NEW k \in 1..Len(text)
      PROVE  /\ text[k] = " " => f[k] = "+"
             /\ text[k] # " " /\ (\E e \in DOMAIN Escapes : Escapes[e] = text[k]) => f[k] = Code(text[k])
             /\ text[k] # " " /\ ~(\E e \in DOMAIN Escapes : Escapes[e] = text[k]) => f[k] = text[k]
  BY <1>2, <1>4
<1> QED BY <1>1, <1>3, <1>5, <1>6, Zenon

LEMMA QueryAsked ==
    ASSUME NEW text \in Typed
    PROVE  Asked(QueryURI(text))
<1>1. PICK T, E : T = Seqs!ToSet(text) /\ E = DOMAIN Escapes
  OBVIOUS
<1>2. text \in Seq(T) /\ "CRLF" \notin T
  BY <1>1, RequestsAssumption, Zenon
<1>3. " " \notin E /\ "CRLF" \notin E
  BY <1>1, EscapesAssumption
<1>4. PICK P : P = {"/", "query", "?", "terms", "=", "+"} \cup E \cup (T \ {" "})
  OBVIOUS
<1>5. " " \notin P /\ "CRLF" \notin P
  BY <1>2, <1>3, <1>4
<1>6. PICK f, n : f = FormEncode(text) /\ n = Len(text)
  OBVIOUS
<1>7. n \in Nat /\ \A k \in 1..n : text[k] \in T
  BY <1>2, <1>6
<1>8. DOMAIN f = 1..n /\ f = [k \in 1..n |-> f[k]]
  BY <1>2, <1>6, EncodeIs
<1>9. ASSUME NEW k \in 1..n PROVE f[k] \in P
  <2>1. f[k] = "+" \/ f[k] \in E \/ (text[k] # " " /\ f[k] = text[k])
    BY <1>1, <1>2, <1>6, EncodeIs
  <2> QED BY <1>4, <1>7, <2>1
<1>10. f \in Seq(P)
  BY <1>7, <1>8, <1>9, Mapped
<1>11. PICK start : start = <<"/", "query", "?", "terms", "=">>
  OBVIOUS
<1>12. start \in Seq(P) /\ start # <<>>
  <2>1. "/" \in P /\ "query" \in P /\ "?" \in P /\ "terms" \in P /\ "=" \in P
    BY <1>4
  <2>2. \A a, b, c, d, e \in P : <<a, b, c, d, e>> \in Seq(P) /\ <<a, b, c, d, e>> # <<>>
    OBVIOUS
  <2> QED BY <1>11, <2>1, <2>2, Zenon
<1>13. start \o f \in Seq(P) /\ start \o f # <<>>
  BY <1>10, <1>12, StartsWith
<1>14. QueryURI(text) = start \o f
  BY <1>6, <1>11, Zenon DEF QueryURI
<1> QED BY <1>5, <1>13, <1>14, Zenon DEF Asked

LEMMA StaticAsked ==
    ASSUME NEW u \in StaticURIs
    PROVE  Asked(u)
<1>1. u \in Seq(Seqs!ToSet(u)) /\ u # <<>> /\ " " \notin Seqs!ToSet(u) /\ "CRLF" \notin Seqs!ToSet(u)
  BY RequestsAssumption
<1> QED BY <1>1, Zenon DEF Asked

\* The name in a link, and what the browser makes of it.
Ends(name) == {k \in DOMAIN name : name[k] \in {"'", "#"}}
Href(name) == IF Ends(name) = {} THEN name ELSE SubSeq(name, 1, Seqs!Min(Ends(name)) - 1)
Blank == CHOOSE e \in DOMAIN Escapes : Escapes[e] = " "
Unblanked(href) == [j \in DOMAIN href |-> IF href[j] = " " THEN Blank ELSE href[j]]

LEMMA LinkIs ==
    ASSUME NEW name
    PROVE  LinkURI(name) = <<"/", "static", "/">> \o Unblanked(Href(name))
BY Zenon DEF LinkURI, Unblanked, Href, Ends, Blank

LEMMA BlankIs == Blank \in DOMAIN Escapes /\ Escapes[Blank] = " "
<1>1. \E e \in DOMAIN Escapes : Escapes[e] = " "
  BY EscapesAssumption
<1> QED BY <1>1, Zenon DEF Blank

LEMMA UnblankedIs ==
    ASSUME NEW P, NEW s \in Seq(P)
    PROVE  /\ Unblanked(s) \in Seq({Blank} \cup (P \ {" "})) /\ Len(Unblanked(s)) = Len(s)
           /\ \A k \in 1..Len(s) : Unblanked(s)[k] = IF s[k] = " " THEN Blank ELSE s[k]
<1>1. PICK Q, n, f : Q = {Blank} \cup (P \ {" "}) /\ n = Len(s) /\ f = Unblanked(s)
  OBVIOUS
<1>2. n \in Nat /\ DOMAIN s = 1..n /\ \A k \in 1..n : s[k] \in P
  BY <1>1, LenProperties, ElementOfSeq
<1>3. f = [j \in 1..n |-> IF s[j] = " " THEN Blank ELSE s[j]]
  BY <1>1, <1>2 DEF Unblanked
<1>4. DOMAIN f = 1..n /\ f = [k \in 1..n |-> f[k]] /\ \A k \in 1..n : f[k] = IF s[k] = " " THEN Blank ELSE s[k]
  BY <1>3
<1>5. \A k \in 1..n : f[k] \in Q
  BY <1>1, <1>2, <1>4
<1>6. f \in Seq(Q) /\ Len(f) = n
  BY <1>2, <1>4, <1>5, Mapped
<1> QED BY <1>1, <1>4, <1>6

LEMMA HrefType ==
    ASSUME NEW P, NEW name \in Seq(P)
    PROVE  Href(name) \in Seq(P)
<1>1. CASE Ends(name) = {}
  BY <1>1 DEF Href
<1>2. CASE Ends(name) # {}
  <2>1. PICK S, n : S = Ends(name) /\ n = Len(name)
    OBVIOUS
  <2>2. n \in Nat /\ DOMAIN name = 1..n /\ \A k \in 1..n : name[k] \in P
    BY <2>1
  <2>3. S \subseteq 1..n /\ S # {}
    BY <1>2, <2>1, <2>2 DEF Ends
  <2>4. PICK c : c \in S /\ Seqs!Min(S) = c
    <3>1. S \subseteq Nat
      BY <2>2, <2>3
    <3>2. PICK c \in S : \A k \in S : c <= k
      BY <2>3, <3>1, LeastElement
    <3>3. Seqs!Min(S) = c
      BY <3>1, <3>2, LeastIs
    <3> QED BY <3>2, <3>3
  <2>5. PICK m : m = Seqs!Min(S) - 1
    OBVIOUS
  <2>6. m \in Int /\ m <= n
    <3>1. c \in 1..n /\ m = c - 1
      BY <2>3, <2>4, <2>5
    <3> QED BY <2>2, <3>1
  <2>7. \A k \in 1..m : name[k] \in P
    BY <2>2, <2>6
  <2>8. SubSeq(name, 1, m) \in Seq(P)
    BY <2>6, <2>7, SubSeqProperties
  <2>9. Href(name) = SubSeq(name, 1, m)
    BY <1>2, <2>1, <2>5, Zenon DEF Href
  <2> QED BY <2>8, <2>9
<1> QED BY <1>1, <1>2

LEMMA LinkAsked ==
    ASSUME NEW name \in DocNames
    PROVE  Asked(LinkURI(name))
<1>1. PICK T, E, Q, P : /\ T = Seqs!ToSet(name) /\ E = DOMAIN Escapes /\ Q = {Blank} \cup (T \ {" "})
                        /\ P = {"/", "static"} \cup Q
  OBVIOUS
<1>2. name \in Seq(T) /\ "CRLF" \notin T
  BY <1>1, DocNamesAssumption, Zenon
<1>3. " " \notin E /\ "CRLF" \notin E /\ Blank \in E
  BY <1>1, BlankIs, EscapesAssumption
<1>4. " " \notin P /\ "CRLF" \notin P
  BY <1>1, <1>2, <1>3
<1>5. PICK start, rest : start = <<"/", "static", "/">> /\ rest = Unblanked(Href(name))
  OBVIOUS
<1>6. rest \in Seq(Q)
  <2>1. Href(name) \in Seq(T)
    BY <1>2, HrefType
  <2> QED BY <1>1, <1>5, <2>1, UnblankedIs
<1>7. start \in Seq(P) /\ start # <<>> /\ rest \in Seq(P)
  <2>1. Q \subseteq P /\ "/" \in P /\ "static" \in P
    BY <1>1
  <2>2. rest \in Seq(P)
    BY <1>6, <2>1, SmallSeqs
  <2> QED BY <1>5, <2>1, <2>2
<1>8. start \o rest \in Seq(P) /\ start \o rest # <<>>
  BY <1>7, StartsWith
<1>9. LinkURI(name) = start \o rest
  BY <1>5, LinkIs, Zenon
<1> QED BY <1>4, <1>8, <1>9, Zenon DEF Asked

LEMMA RootAsked == Asked(<<"/">>)
<1>1. PICK u, P : u = <<"/">> /\ P = {"/"}
  OBVIOUS
<1>2. u \in Seq(P) /\ u # <<>> /\ " " \notin P /\ "CRLF" \notin P
  BY <1>1
<1> QED BY <1>1, <1>2, Zenon DEF Asked

\* What a thread reads is what the browser asked for.
LEMMA UriAsked ==
    ASSUME NEW u, Asked(u), NEW c \in {"keep-alive", "close"}, Request(u, c) \in Requests
    PROVE  /\ Parsed[Request(u, c)].uri = u
           /\ DOMAIN Parsed[Request(u, c)].headers = {<<"connection">>}
           /\ Parsed[Request(u, c)].headers[<<"connection">>] = <<c>>
<1>1. PICK P : u \in Seq(P) /\ u # <<>> /\ " " \notin P /\ "CRLF" \notin P
  BY DEF Asked
<1>2. /\ ParseRequest(Request(u, c)).uri = u
      /\ DOMAIN ParseRequest(Request(u, c)).headers = {<<"connection">>}
      /\ ParseRequest(Request(u, c)).headers[<<"connection">>] = <<c>>
  BY <1>1, ParsedRequest
<1>3. Parsed[Request(u, c)] = ParseRequest(Request(u, c))
  <2>1. PICK r, R : r = Request(u, c) /\ R = Requests
    OBVIOUS
  <2>2. \A x \in R : [y \in R |-> ParseRequest(y)][x] = ParseRequest(x)
    BY Zenon
  <2> QED BY <2>1, <2>2, Zenon DEF Parsed
<1> QED BY <1>2, <1>3, Zenon

-----------------------------------------------------------------------------
(***************************************************************************)
(* The steps.                                                              *)
(***************************************************************************)
SameWebsite == base_dir' = base_dir /\ files' \subseteq files

LEMMA SameTarget ==
    ASSUME NEW t \in Threads, base_dir' = base_dir, uri'[t] = uri[t]
    PROVE  /\ Meant(t)' = Meant(t) /\ Target(t)' = Target(t) /\ Source(t)' = Source(t)
           /\ FileName(t)' = FileName(t)
<1>1. Meant(t)' = Meant(t) /\ FileName(t)' = FileName(t)
  BY Zenon DEF Meant, FileName
<1>2. Target(t)' = Target(t)
  BY <1>1, Zenon DEF Target
<1>3. SelfRelative' = SelfRelative
  BY Zenon DEF SelfRelative
<1>4. Source(t)' = Source(t)
  BY <1>1, <1>2, <1>3, Zenon DEF Source
<1> QED BY <1>1, <1>2, <1>4

\* A thread that does not move loses nothing.
LEMMA AtRest ==
    ASSUME NEW t \in Threads, SameWebsite, uri'[t] = uri[t], at'[t] = at[t], page'[t] = page[t],
           IsSeq(uri[t]), Reached(t), IsStatic(uri[t]) => Served(t)
    PROVE  IsSeq(uri'[t]) /\ Reached(t)' /\ (IsStatic(uri'[t]) => Served(t)')
<1>1. Meant(t)' = Meant(t) /\ Target(t)' = Target(t) /\ Source(t)' = Source(t)
  BY SameTarget DEF SameWebsite
<1>2. PICK target, source, meant : target = Target(t) /\ source = Source(t) /\ meant = Meant(t)
  OBVIOUS
<1>3. Reached(t)'
  BY <1>1, <1>2 DEF Reached
<1>4. ASSUME Served(t) PROVE Served(t)'
  <2>1. files' \subseteq files
    BY DEF SameWebsite
  <2> QED BY <1>1, <1>2, <1>4, <2>1 DEF Served, Deserves, Missing
<1>5. IsSeq(uri'[t])
  BY Zenon
<1>6. IsStatic(uri'[t]) => IsStatic(uri[t])
  BY Zenon
<1> QED BY <1>3, <1>4, <1>5, <1>6

OthersRest(t) ==
    /\ DOMAIN at' = Threads /\ DOMAIN uri' = Threads /\ DOMAIN page' = Threads
    /\ \A s \in Threads : s # t => at'[s] = at[s] /\ uri'[s] = uri[s] /\ page'[s] = page[s]

\* One thread moves.
LEMMA OneMoves ==
    ASSUME StaticInv, SameWebsite, NEW t \in Threads, OthersRest(t),
           IsSeq(uri'[t]) /\ Reached(t)' /\ (IsStatic(uri'[t]) => Served(t)')
    PROVE  StaticInv'
<1>1. /\ base_dir' \in BaseDirs /\ files' \subseteq Documents
      /\ DOMAIN at' = Threads /\ DOMAIN uri' = Threads /\ DOMAIN page' = Threads
  BY DEF StaticInv, SameWebsite, OthersRest
<1>2. ASSUME NEW s \in Threads PROVE IsSeq(uri'[s]) /\ Reached(s)' /\ (IsStatic(uri'[s]) => Served(s)')
  <2>1. CASE s = t
    BY <2>1
  <2>2. CASE s # t
    <3>1. uri'[s] = uri[s] /\ at'[s] = at[s] /\ page'[s] = page[s]
      BY <2>2 DEF OthersRest
    <3>2. IsSeq(uri[s]) /\ Reached(s) /\ (IsStatic(uri[s]) => Served(s))
      BY DEF StaticInv
    <3> QED BY <3>1, <3>2, AtRest
  <2> QED BY <2>1, <2>2
<1> QED BY <1>1, <1>2 DEF StaticInv

LEMMA NoneMoves ==
    ASSUME StaticInv, SameWebsite, at' = at, uri' = uri, page' = page
    PROVE  StaticInv'
<1>1. /\ base_dir' \in BaseDirs /\ files' \subseteq Documents
      /\ DOMAIN at' = Threads /\ DOMAIN uri' = Threads /\ DOMAIN page' = Threads
  BY DEF StaticInv, SameWebsite
<1>2. ASSUME NEW s \in Threads PROVE IsSeq(uri'[s]) /\ Reached(s)' /\ (IsStatic(uri'[s]) => Served(s)')
  <2>1. uri'[s] = uri[s] /\ at'[s] = at[s] /\ page'[s] = page[s]
    OBVIOUS
  <2>2. IsSeq(uri[s]) /\ Reached(s) /\ (IsStatic(uri[s]) => Served(s))
    BY DEF StaticInv
  <2> QED BY <2>1, <2>2, AtRest
<1> QED BY <1>1, <1>2 DEF StaticInv

LEMMA StaticInit == Init => StaticInv
<1> SUFFICES ASSUME Init PROVE StaticInv
  OBVIOUS
<1>1. /\ base_dir \in BaseDirs /\ files = Documents
      /\ DOMAIN at = Threads /\ DOMAIN uri = Threads /\ DOMAIN page = Threads
  BY DEF Init
<1>2. ASSUME NEW t \in Threads PROVE IsSeq(uri[t]) /\ Reached(t) /\ (IsStatic(uri[t]) => Served(t))
  <2>1. at[t] = "idle" /\ uri[t] = <<>> /\ page[t] = NoPage
    BY DEF Init
  <2>2. IsSeq(uri[t])
    BY <2>1, EmptySeq DEF IsSeq
  <2> QED BY <2>1, <2>2 DEF Reached, Served, Deserves, NoPage
<1> QED BY <1>1, <1>2 DEF StaticInv

\* A new request.
LEMMA ReceiveKeeps ==
    ASSUME StaticInv, NEW t \in Threads, NEW what, NEW u, Asked(u), NEW c \in {"keep-alive", "close"},
           Request(u, c) \in Requests, Receive(t, what, Request(u, c))
    PROVE  StaticInv'
<1>1. PICK parsed : parsed = Parsed[Request(u, c)] /\ parsed.uri = u
  BY UriAsked
<1>2. PICK a : /\ a \in {"closed", "path", "query"} /\ (a = "path" => IsStatic(u)) /\ (a = "query" => ~IsStatic(u))
               /\ at' = [at EXCEPT ![t] = a] /\ uri' = [uri EXCEPT ![t] = u]
               /\ page' = [page EXCEPT ![t] = NoPage]
  <2>1. PICK close : /\ at' = [at EXCEPT ![t] = IF close THEN "closed"
                                   ELSE IF IsStatic(parsed.uri) THEN "path" ELSE "query"]
                     /\ uri' = [uri EXCEPT ![t] = parsed.uri]
                     /\ page' = [page EXCEPT ![t] = NoPage]
    BY <1>1, Zenon DEF Receive
  <2>2. PICK a : a = IF close THEN "closed" ELSE IF IsStatic(u) THEN "path" ELSE "query"
    OBVIOUS
  <2>3. /\ at' = [at EXCEPT ![t] = a] /\ uri' = [uri EXCEPT ![t] = u]
        /\ page' = [page EXCEPT ![t] = NoPage]
    BY <1>1, <2>1, <2>2, Zenon
  <2>4. a \in {"closed", "path", "query"} /\ (a = "path" => IsStatic(u)) /\ (a = "query" => ~IsStatic(u))
    BY <2>2
  <2> QED BY <2>3, <2>4
<1>3. SameWebsite
  BY DEF Receive, config, SameWebsite
<1>4. at'[t] = a /\ uri'[t] = u /\ page'[t] = NoPage /\ OthersRest(t)
  BY <1>2 DEF StaticInv, OthersRest
<1>5. IsSeq(uri'[t])
  BY <1>4, Zenon DEF Asked, IsSeq
<1>6. Reached(t)'
  BY <1>2, <1>4 DEF Reached
<1>7. Served(t)'
  <2>1. page'[t].kind = "none" /\ at'[t] # "crashed"
    BY <1>2, <1>4 DEF NoPage
  <2>2. page'[t].kind # "file" /\ page'[t].kind # "not found"
    BY <2>1
  <2> QED BY <2>1, <2>2, Zenon DEF Served, Deserves
<1> QED BY <1>3, <1>4, <1>5, <1>6, <1>7, OneMoves

LEMMA BrowseKeeps ==
    ASSUME StaticInv, NEW t \in Threads, Browse(t)
    PROVE  StaticInv'
<1>1. ASSUME NEW text \in Typed, Type(t, text) PROVE StaticInv'
  <2>1. Request(QueryURI(text), "keep-alive") \in Requests
    BY Zenon DEF Requests
  <2>2. Asked(QueryURI(text))
    BY QueryAsked
  <2>3. PICK what : Receive(t, what, Request(QueryURI(text), "keep-alive"))
    BY <1>1, Zenon DEF Type
  <2> QED BY <2>1, <2>2, <2>3, ReceiveKeeps
<1>2. ASSUME NEW u \in StaticURIs, Visit(t, u) PROVE StaticInv'
  <2>1. Request(u, "keep-alive") \in Requests
    BY Zenon DEF Requests
  <2>2. Asked(u)
    BY StaticAsked
  <2>3. PICK what : Receive(t, what, Request(u, "keep-alive"))
    BY <1>2, Zenon DEF Visit
  <2> QED BY <2>1, <2>2, <2>3, ReceiveKeeps
<1>3. ASSUME NEW name \in DocNames, Follow(t, name) PROVE StaticInv'
  <2>1. Request(LinkURI(name), "keep-alive") \in Requests
    BY Zenon DEF Requests
  <2>2. Asked(LinkURI(name))
    BY LinkAsked
  <2>3. PICK what : Receive(t, what, Request(LinkURI(name), "keep-alive"))
    BY <1>3, Zenon DEF Follow
  <2> QED BY <2>1, <2>2, <2>3, ReceiveKeeps
<1>4. ASSUME Part(t) PROVE StaticInv'
  <2>1. Request(<<"/">>, "close") \in Requests
    BY Zenon DEF Requests
  <2>2. PICK what : Receive(t, what, Request(<<"/">>, "close"))
    BY <1>4, Zenon DEF Part
  <2> QED BY <2>1, <2>2, RootAsked, ReceiveKeeps
<1> QED BY <1>1, <1>2, <1>3, <1>4 DEF Browse

\* An answer.
LEMMA AnswerKeeps ==
    ASSUME StaticInv, NEW t \in Threads, NEW response, Answer(t, response),
           IsStatic(uri[t]) => Deserves(t, response)
    PROVE  StaticInv'
<1>1. /\ at' = [at EXCEPT ![t] = "answered"] /\ page' = [page EXCEPT ![t] = response] /\ uri' = uri
      /\ base_dir' = base_dir /\ files' = files
  BY DEF Answer, config
<1>2. SameWebsite /\ OthersRest(t) /\ at'[t] = "answered" /\ uri'[t] = uri[t] /\ page'[t] = response
  BY <1>1 DEF SameWebsite, OthersRest, StaticInv
<1>3. IsSeq(uri'[t])
  <2>1. IsSeq(uri[t])
    BY DEF StaticInv
  <2> QED BY <1>2, <2>1, Zenon
<1>4. Reached(t)'
  BY <1>2 DEF Reached
<1>5. ASSUME IsStatic(uri'[t]) PROVE Served(t)'
  <2>1. Deserves(t, response)
    BY <1>2, <1>5, Zenon
  <2>2. Target(t)' = Target(t) /\ Source(t)' = Source(t)
    BY <1>1, <1>2, SameTarget
  <2>3. Deserves(t, response)'
    BY <1>1, <2>1, <2>2, Zenon DEF Deserves, Missing
  <2>4. at'[t] # "crashed"
    BY <1>2
  <2> QED BY <1>2, <2>3, <2>4, Zenon DEF Served
<1> QED BY <1>2, <1>3, <1>4, <1>5, OneMoves

\* A step without one.
LEMMA GotoKeeps ==
    ASSUME StaticInv, NEW t \in Threads, NEW place \in {"read", "load", "crashed"}, Goto(t, place),
           place # "crashed" => IsStatic(uri[t]) /\ page[t] = NoPage /\ InBase(Target(t)),
           place = "load" => InBase(Source(t)),
           place = "crashed" /\ IsStatic(uri[t]) =>
              Deserves(t, page[t]) /\ (Source(t) \notin files \/ ~HasExtension(Meant(t)))
    PROVE  StaticInv'
<1>1. at' = [at EXCEPT ![t] = place] /\ page' = page /\ uri' = uri /\ base_dir' = base_dir /\ files' = files
  BY DEF Goto, config
<1>2. SameWebsite /\ OthersRest(t) /\ at'[t] = place /\ uri'[t] = uri[t] /\ page'[t] = page[t]
  BY <1>1 DEF SameWebsite, OthersRest, StaticInv
<1>3. IsSeq(uri'[t])
  <2>1. IsSeq(uri[t])
    BY DEF StaticInv
  <2> QED BY <1>2, <2>1, Zenon
<1>4. Target(t)' = Target(t) /\ Source(t)' = Source(t) /\ Meant(t)' = Meant(t)
  BY <1>1, <1>2, SameTarget
<1>5. (InBase(Target(t)') <=> InBase(Target(t))) /\ (InBase(Source(t)') <=> InBase(Source(t)))
  BY <1>4, Zenon
<1>6. IsStatic(uri'[t]) <=> IsStatic(uri[t])
  BY <1>2, Zenon
<1>7. Reached(t)'
  BY <1>2, <1>4, <1>5, <1>6 DEF Reached
<1>8. ASSUME IsStatic(uri'[t]) PROVE Served(t)'
  <2>1. CASE place = "crashed"
    <3>1. Deserves(t, page[t]) /\ (Source(t) \notin files \/ ~HasExtension(Meant(t)))
      BY <1>6, <1>8, <2>1
    <3>2. Deserves(t, page[t])'
      BY <1>1, <1>4, <3>1, Zenon DEF Deserves, Missing
    <3>3. Source(t)' \notin files' \/ ~HasExtension(Meant(t)')
      BY <1>1, <1>4, <3>1, Zenon
    <3> QED BY <3>2, <3>3, Zenon DEF Served
  <2>2. CASE place # "crashed"
    <3>1. page'[t] = NoPage /\ at'[t] # "crashed"
      BY <1>2, <2>2
    <3>2. page'[t].kind # "file" /\ page'[t].kind # "not found"
      BY <3>1 DEF NoPage
    <3> QED BY <3>1, <3>2, Zenon DEF Served, Deserves
  <2> QED BY <2>1, <2>2
<1> QED BY <1>2, <1>3, <1>7, <1>8, OneMoves

\* The steps of a thread that answers a query.
LEMMA QueryKeeps ==
    ASSUME StaticInv, NEW t \in Threads,
           OpenIndex(t) \/ OpenNoIndex(t) \/ CheckIndex(t) \/ IndexAccepted(t) \/ IndexRefused(t) \/ Search(t)
    PROVE  StaticInv'
<1>1. CASE OpenIndex(t) \/ CheckIndex(t) \/ IndexAccepted(t) \/ IndexRefused(t)
  <2>1. SameWebsite /\ at' = at /\ uri' = uri /\ page' = page
    BY <1>1 DEF OpenIndex, CheckIndex, IndexAccepted, IndexRefused, webVars, config, SameWebsite
  <2> QED BY <2>1, NoneMoves
<1>2. CASE OpenNoIndex(t) \/ Search(t)
  <2>1. ~IsStatic(uri[t])
    BY <1>2 DEF OpenNoIndex, Search, StaticInv, Reached
  <2>2. CASE OpenNoIndex(t)
    BY <2>1, <2>2, GotoKeeps DEF OpenNoIndex
  <2>3. CASE Search(t)
    <3>1. PICK response : Answer(t, response)
      BY <2>3, Zenon DEF Search
    <3> QED BY <2>1, <3>1, AnswerKeeps
  <2> QED BY <1>2, <2>2, <2>3
<1> QED BY <1>1, <1>2

\* And those of one that answers with a file.
LEMMA FileKeeps ==
    ASSUME StaticInv, NEW t \in Threads,
           CheckPath(t) \/ CheckFullFile(t) \/ ReadFile(t) \/ ReadNothing(t) \/ SetContentType(t)
    PROVE  StaticInv'
<1>1. /\ base_dir \in BaseDirs /\ files \subseteq Documents /\ IsSeq(uri[t]) /\ Reached(t)
      /\ (IsStatic(uri[t]) => Served(t)) /\ DOMAIN at = Threads /\ DOMAIN page = Threads /\ DOMAIN uri = Threads
  BY DEF StaticInv
<1>2. IsStatic(uri[t])
  BY <1>1 DEF CheckPath, CheckFullFile, ReadFile, ReadNothing, SetContentType, Reached
<1>3. PICK path, target, source :
         path = RealPath(FullFile(t), files) /\ target = Target(t) /\ source = Source(t)
  OBVIOUS
<1>4. /\ path = source \/ (path = None /\ source \in Documents \ files)
      /\ IsPathSafe(base_dir, FileName(t), files) => InBase(target)
      /\ ~IsPathSafe(base_dir, FileName(t), files) => BasePath = <<>> \/ Missing(target)
      /\ IsPathSafe(base_dir, FullFile(t), files) => InBase(source)
      /\ ~IsPathSafe(base_dir, FullFile(t), files) => BasePath = <<>> \/ Missing(source)
  BY <1>1, <1>2, <1>3, TargetsAre, Zenon
<1>5. FileName(t) = Meant(t)
  BY <1>1, <1>2, NamesAre
\* 404, here or there.
<1>6. ASSUME NotFound(t), BasePath = <<>> \/ Missing(target) \/ Missing(source)
      PROVE  StaticInv'
  <2>1. PICK shown : Answer(t, [kind |-> "not found", shown |-> shown])
    BY <1>6, Zenon DEF NotFound
  <2>r. PICK response : response = [kind |-> "not found", shown |-> shown]
    OBVIOUS
  <2>2. response = [kind |-> "not found", shown |-> shown] /\ response.kind = "not found"
    BY <2>r
  <2>3. Deserves(t, response)
    BY <1>3, <1>6, <2>2 DEF Deserves
  <2> QED BY <2>1, <2>2, <2>3, AnswerKeeps
<1>7. CASE CheckPath(t)
  <2>1. page[t] = NoPage
    BY <1>1, <1>7 DEF CheckPath, Reached
  <2>2. CASE IsPathSafe(base_dir, FileName(t), files)
    BY <1>2, <1>3, <1>4, <1>7, <2>1, <2>2, GotoKeeps DEF CheckPath
  <2>3. CASE ~IsPathSafe(base_dir, FileName(t), files)
    BY <1>4, <1>6, <1>7, <2>3 DEF CheckPath
  <2> QED BY <2>2, <2>3
<1>8. CASE CheckFullFile(t)
  <2>1. page[t] = NoPage /\ InBase(target)
    BY <1>1, <1>3, <1>8 DEF CheckFullFile, Reached
  <2>2. CASE IsPathSafe(base_dir, FullFile(t), files)
    BY <1>2, <1>3, <1>4, <1>8, <2>1, <2>2, GotoKeeps DEF CheckFullFile
  <2>3. CASE ~IsPathSafe(base_dir, FullFile(t), files)
    BY <1>4, <1>6, <1>8, <2>3 DEF CheckFullFile
  <2> QED BY <2>2, <2>3
\* What is read is the file, which is there, or nothing.
<1>9. ASSUME at[t] = "load"
      PROVE  /\ page[t] = NoPage /\ InBase(target) /\ InBase(source)
             /\ path \in files => source = path /\ source \in Documents
             /\ path \notin files => source \notin files
  <2>1. page[t] = NoPage /\ InBase(target) /\ InBase(source)
    BY <1>1, <1>3, <1>9 DEF Reached
  <2>2. None \notin files
    BY <1>1, PathTypes
  <2> QED BY <1>1, <1>4, <2>1, <2>2
<1>10. CASE ReadFile(t)
  <2>1. at[t] = "load"
    BY <1>10 DEF ReadFile
  <2>2. PICK body : /\ body = IF path \in files THEN Contents(path) ELSE {}
                    /\ page' = [page EXCEPT ![t] = [kind |-> "file", body |-> body]]
    BY <1>3, <1>10, Zenon DEF ReadFile
  <2>r. PICK response : response = [kind |-> "file", body |-> body]
    OBVIOUS
  <2>3. response = [kind |-> "file", body |-> body] /\ response.kind = "file" /\ response.body = body
    BY <2>r
  <2>4. at' = [at EXCEPT ![t] = "type"] /\ uri' = uri /\ base_dir' = base_dir /\ files' = files
    BY <1>10 DEF ReadFile, config
  <2>5. SameWebsite /\ OthersRest(t) /\ at'[t] = "type" /\ uri'[t] = uri[t] /\ page'[t] = response
    BY <1>1, <2>2, <2>3, <2>4 DEF SameWebsite, OthersRest
  <2>6. Deserves(t, response)
    BY <1>3, <1>9, <2>1, <2>2, <2>3, Zenon DEF Deserves
  <2>7. Target(t)' = Target(t) /\ Source(t)' = Source(t)
    BY <2>4, <2>5, SameTarget
  <2>8. Deserves(t, response)'
    BY <2>4, <2>6, <2>7, Zenon DEF Deserves, Missing
  <2>9. at'[t] # "crashed"
    BY <2>5
  <2>10. Served(t)'
    BY <2>5, <2>8, <2>9, Zenon DEF Served
  <2>11. IsSeq(uri'[t]) /\ IsStatic(uri'[t])
    BY <1>1, <1>2, <2>5, Zenon
  <2>12. Reached(t)'
    BY <2>3, <2>5, <2>11 DEF Reached
  <2> QED BY <2>5, <2>10, <2>11, <2>12, OneMoves
<1>11. CASE ReadNothing(t)
  <2>1. at[t] = "load" /\ RealPath(FullFile(t), files) \notin files /\ Goto(t, "crashed")
    BY <1>11 DEF ReadNothing
  <2>2. Source(t) \notin files
    BY <1>3, <1>9, <2>1
  <2>3. Deserves(t, page[t])
    BY <1>1, <1>2 DEF Served
  <2> QED BY <2>1, <2>2, <2>3, GotoKeeps
<1>12. CASE SetContentType(t)
  <2>1. Deserves(t, page[t])
    BY <1>1, <1>2 DEF Served
  <2>2. CASE HasExtension(FileName(t))
    <3>1. Answer(t, page[t])
      BY <1>12, <2>2 DEF SetContentType
    <3> QED BY <2>1, <3>1, AnswerKeeps
  <2>3. CASE ~HasExtension(FileName(t))
    <3>1. Goto(t, "crashed")
      BY <1>12, <2>3 DEF SetContentType
    <3>2. ~HasExtension(Meant(t))
      BY <1>5, <2>3, Zenon
    <3> QED BY <2>1, <3>1, <3>2, GotoKeeps
  <2> QED BY <2>2, <2>3
<1> QED BY <1>7, <1>8, <1>10, <1>11, <1>12

LEMMA StaticNext == StaticInv /\ [Next]_vars => StaticInv'
<1> SUFFICES ASSUME StaticInv, [Next]_vars PROVE StaticInv'
  OBVIOUS
<1>1. CASE UNCHANGED vars \/ Over
  <2>1. SameWebsite /\ at' = at /\ uri' = uri /\ page' = page
    BY <1>1 DEF vars, webVars, config, Over, SameWebsite
  <2> QED BY <2>1, NoneMoves
<1>2. CASE Start
  <2>1. SameWebsite /\ at' = at /\ uri' = uri /\ page' = page
    BY <1>2 DEF Start, SameWebsite
  <2> QED BY <2>1, NoneMoves
<1>3. ASSUME NEW name, Remove(name) PROVE StaticInv'
  <2>1. SameWebsite /\ at' = at /\ uri' = uri /\ page' = page
    BY <1>3 DEF Remove, config, SameWebsite
  <2> QED BY <2>1, NoneMoves
<1>4. ASSUME NEW t \in Threads, Handle(t) PROVE StaticInv'
  BY <1>4, QueryKeeps, FileKeeps DEF Handle
<1>5. ASSUME NEW t \in Threads, Browse(t) PROVE StaticInv'
  BY <1>5, BrowseKeeps
<1> QED BY <1>1, <1>2, <1>3, <1>4, <1>5 DEF Next

\* A request for a static file (HttpServer.cc, FileReader.cc, HttpUtils.cc) is answered
\* with the file it names, or the one that FileReader's name leads to, or with 404, or
\* ends the server, as StaticServed says: whatever the directories, a directory within
\* one of the same name included, the names of documents and the way the directory is
\* given, and however many threads read while documents are removed.
THEOREM FilesServed == Spec => []StaticServed
<1>1. StaticInv => StaticServed
  <2> SUFFICES ASSUME StaticInv, NEW t \in Threads, IsStatic(uri[t]), Served(t) PROVE
        /\ page[t].kind = "file" =>
              /\ InBase(Target(t)) /\ InBase(Source(t))
              /\ \/ Source(t) \in Documents /\ page[t].body = Contents(Source(t))
                 \/ Source(t) \notin files /\ page[t].body = {}
        /\ page[t].kind = "not found" => BasePath = <<>> \/ Missing(Target(t)) \/ Missing(Source(t))
        /\ at[t] = "crashed" => Source(t) \notin files \/ ~HasExtension(Meant(t))
    BY DEF StaticServed, StaticInv
  <2> QED BY DEF Served, Deserves
<1> QED BY <1>1, StaticInit, StaticNext, PTL DEF Spec

-----------------------------------------------------------------------------
(***************************************************************************)
(* Where the name of a document leads.                                     *)
(***************************************************************************)
\* The tokens in the first n pieces.
After(s, sep, n) == Tokenize(s, sep, FALSE)[n]

LEMMA AfterIs ==
    ASSUME NEW P, NEW s \in Seq(P), NEW sep
    PROVE  /\ After(s, sep, 0) = << <<>> >> /\ After(s, sep, Len(s)) = Tok(s, sep, FALSE)
           /\ \A n \in 0..Len(s) : After(s, sep, n) \in Tokens1(P)
           /\ \A n \in 1..Len(s) :
                 After(s, sep, n) = IF s[n] # sep THEN AddTo(After(s, sep, n - 1), s[n])
                                    ELSE Append(After(s, sep, n - 1), <<>>)
<1>1. PICK T, never : T = Tokenize(s, sep, never) /\ never = FALSE
  OBVIOUS
<1>2. Tokenizes(s, sep, never, T) /\ \A n \in 0..Len(s) : T[n] \in Tokens1(P)
  BY <1>1, TokenizeDef
<1>3. Len(s) \in Nat
  OBVIOUS
<1>4. T[0] = << <<>> >>
  BY <1>2, <1>3 DEF Tokenizes
<1>5. ASSUME NEW n \in 1..Len(s)
      PROVE  T[n] = IF s[n] # sep THEN AddTo(T[n - 1], s[n]) ELSE Append(T[n - 1], <<>>)
  <2>1. T[n] = ReadPiece(T[n - 1], s, n, sep, never)
    BY <1>1, TokenizeNext
  <2> QED BY <1>1, <2>1, Zenon DEF ReadPiece, AddTo
<1>6. T[Len(s)] = Tok(s, sep, never)
  BY <1>1, Zenon DEF Tok
<1>7. \A n : After(s, sep, n) = T[n]
  BY <1>1, Zenon DEF After
<1> QED BY <1>1, <1>2, <1>4, <1>5, <1>6, <1>7, Zenon

\* All but the last of the tokens stay as they are.
Grows(T, U) == Len(T) <= Len(U) /\ \A k \in 1..(Len(T) - 1) : T[k] = U[k]

LEMMA GrowsOne ==
    ASSUME NEW P, NEW T \in Tokens1(P), NEW U \in Tokens1(P), NEW V, NEW p \in P, Grows(T, U),
           V = AddTo(U, p) \/ V = Append(U, <<>>)
    PROVE  Grows(T, V)
<1>1. T \in Seq(Seq(P)) /\ T # <<>> /\ U \in Seq(Seq(P)) /\ U # <<>>
  BY DEF Tokens1
<1>2. PICK m, n : m = Len(T) /\ n = Len(U) /\ m \in Nat \ {0} /\ n \in Nat \ {0}
  BY <1>1, EmptySeq
<1>3. m <= n /\ \A k \in 1..(m - 1) : T[k] = U[k]
  BY <1>2 DEF Grows
<1>4. Len(V) \in Nat /\ m <= Len(V) /\ \A k \in 1..(n - 1) : V[k] = U[k]
  <2>1. CASE V = AddTo(U, p)
    <3>1. Len(V) = n /\ \A k \in 1..(n - 1) : V[k] = U[k]
      BY <1>2, <2>1, AddToIs
    <3> QED BY <1>2, <1>3, <3>1
  <2>2. CASE V = Append(U, <<>>)
    <3>1. Len(V) = n + 1 /\ \A k \in 1..n : V[k] = U[k]
      BY <1>1, <1>2, <2>2
    <3> QED BY <1>2, <1>3, <3>1
  <2> QED BY <2>1, <2>2
<1>5. \A k \in 1..(m - 1) : k \in 1..(n - 1)
  BY <1>2, <1>3
<1>6. \A k \in 1..(m - 1) : T[k] = V[k]
  BY <1>3, <1>4, <1>5
<1> QED BY <1>2, <1>4, <1>6 DEF Grows

LEMMA TokensGrow ==
    ASSUME NEW P, NEW s \in Seq(P), NEW sep, NEW n \in 0..Len(s)
    PROVE  Grows(After(s, sep, n), Tok(s, sep, FALSE))
<1> DEFINE S == {j \in 0..(Len(s) - n) : Grows(After(s, sep, n), After(s, sep, n + j))}
<1>1. Len(s) \in Nat /\ n \in Nat /\ Len(s) - n \in Nat /\ n + 0 = n
  OBVIOUS
<1>2. 0 \in S
  <2>1. Grows(After(s, sep, n), After(s, sep, n))
    <3>1. PICK T : T = After(s, sep, n)
      OBVIOUS
    <3>2. T \in Seq(Seq(P))
      BY <3>1, AfterIs DEF Tokens1
    <3>3. Len(T) \in Nat
      BY <3>2
    <3> QED BY <3>1, <3>3 DEF Grows
  <2> QED BY <1>1, <2>1
<1>3. ASSUME NEW j \in 1..(Len(s) - n), j - 1 \in S PROVE j \in S
  <2>1. PICK i, T, U, V : /\ i = n + j /\ T = After(s, sep, n) /\ U = After(s, sep, i - 1)
                          /\ V = After(s, sep, i)
    OBVIOUS
  <2>2. i \in 1..Len(s) /\ i - 1 \in 0..Len(s) /\ n + (j - 1) = i - 1 /\ j \in 0..(Len(s) - n)
    BY <1>1, <2>1
  <2>3. Grows(T, U)
    BY <1>3, <2>1, <2>2
  <2>4. T \in Tokens1(P) /\ U \in Tokens1(P)
    BY <2>1, <2>2, AfterIs
  <2>5. V = AddTo(U, s[i]) \/ V = Append(U, <<>>)
    <3>1. V = IF s[i] # sep THEN AddTo(U, s[i]) ELSE Append(U, <<>>)
      BY <2>1, <2>2, AfterIs
    <3> QED BY <3>1, Zenon
  <2>6. s[i] \in P
    BY <2>2, ElementOfSeq
  <2>7. Grows(T, V)
    BY <2>3, <2>4, <2>5, <2>6, GrowsOne
  <2> QED BY <2>1, <2>2, <2>7
<1>4. Len(s) - n \in S
  <2> HIDE DEF S
  <2>1. 0..(Len(s) - n) \subseteq S
    BY <1>1, <1>2, <1>3, InductionTo
  <2> QED BY <1>1, <2>1
<1>5. n + (Len(s) - n) = Len(s)
  BY <1>1
<1>6. After(s, sep, Len(s)) = Tok(s, sep, FALSE)
  BY AfterIs
<1> QED BY <1>4, <1>5, <1>6

\* All but the last.
Lead(s) == SubSeq(s, 1, Len(s) - 1)

LEMMA LeadIs ==
    ASSUME NEW X, NEW T \in Seq(X), T # <<>>, NEW U \in Seq(X), U # <<>>,
           Len(T) <= Len(U), \A k \in 1..(Len(T) - 1) : T[k] = U[k]
    PROVE  Lead(T) = SubSeq(U, 1, Len(T) - 1) /\ Lead(T) \in Seq(X)
<1>1. PICK m, n : m = Len(T) /\ n = Len(U) /\ m \in Nat \ {0} /\ n \in Nat \ {0}
  BY EmptySeq
<1>2. PICK a, b : a = SubSeq(T, 1, m - 1) /\ b = SubSeq(U, 1, m - 1)
  OBVIOUS
<1>3. \A k \in 1..(m - 1) : k \in 1..m /\ k \in 1..n
  BY <1>1
<1>4. a \in Seq(X) /\ Len(a) = m - 1 /\ \A k \in 1..(m - 1) : a[k] = T[k]
  BY <1>1, <1>2, <1>3
<1>5. b \in Seq(X) /\ Len(b) = m - 1 /\ \A k \in 1..(m - 1) : b[k] = U[k]
  BY <1>1, <1>2, <1>3
<1>6. a = b
  BY <1>1, <1>4, <1>5, SeqEqual
<1> QED BY <1>1, <1>2, <1>4, <1>6 DEF Lead

LEMMA LeadAppend ==
    ASSUME NEW X, NEW T \in Seq(X), NEW x \in X
    PROVE  Lead(Append(T, x)) = T
<1>1. PICK U, a : U = Append(T, x) /\ a = Lead(U)
  OBVIOUS
<1>2. U \in Seq(X) /\ Len(U) = Len(T) + 1 /\ Len(T) \in Nat /\ \A k \in 1..Len(T) : U[k] = T[k]
  BY <1>1
<1>3. a = SubSeq(U, 1, Len(T))
  BY <1>1, <1>2 DEF Lead
<1>4. a \in Seq(X) /\ Len(a) = Len(T) /\ \A k \in 1..Len(T) : a[k] = U[k]
  BY <1>2, <1>3
<1>5. a = T
  BY <1>2, <1>4, SeqEqual
<1> QED BY <1>1, <1>5

\* From a directory, names that are neither empty nor dots lead down.
Below(dir, names, F) ==
    /\ \A k \in 1..Len(names) : names[k] \notin {<<>>, <<".">>, <<".", ".">>}
    /\ \A n \in 0..(Len(names) - 1) : dir \o SubSeq(names, 1, n) \in Dirs
    /\ dir \o names \in Dirs \cup F

\* With the last token, the walk goes on to where all of them lead.
LEMMA EnterLast ==
    ASSUME NEW X, NEW dir \in Seq(X), NEW names \in Seq(X), NEW T \in Seq(X), T # <<>>, NEW F,
           Below(dir, names, F), Len(T) <= Len(names), \A k \in 1..Len(T) : T[k] = names[k]
    PROVE  Enter(dir \o Lead(T), T[Len(T)], F) = dir \o T
<1>1. PICK m, l, x : m = Len(T) /\ l = Lead(T) /\ x = T[m]
  OBVIOUS
<1>2. m \in Nat \ {0} /\ l \in Seq(X) /\ x \in X /\ T = Append(l, x)
  BY <1>1, SeqParts DEF Lead
<1>3. names # <<>> /\ Len(names) \in Nat /\ m - 1 \in 0..(Len(names) - 1) /\ m \in 1..Len(names)
  <2>1. Len(names) \in Nat /\ m <= Len(names)
    BY <1>1
  <2>2. Len(names) # 0
    BY <1>2, <2>1
  <2> QED BY <1>2, <2>1, <2>2, EmptySeq
<1>4. l = SubSeq(names, 1, m - 1)
  <2>1. \A k \in 1..(m - 1) : k \in 1..m
    BY <1>2
  <2>2. \A k \in 1..(Len(T) - 1) : T[k] = names[k]
    BY <1>1, <2>1
  <2> QED BY <1>1, <1>3, <2>2, LeadIs
<1>5. dir \o l \in Dirs /\ x \notin {<<>>, <<".">>, <<".", ".">>}
  <2>1. x = names[m]
    BY <1>1, <1>2
  <2> QED BY <1>3, <1>4, <2>1, Zenon DEF Below
<1>6. Append(dir \o l, x) = dir \o T
  <2>1. dir \o Append(l, x) = Append(dir \o l, x)
    BY <1>2, ConcatAppend
  <2> QED BY <1>2, <2>1
<1>7. dir \o T \in Dirs \cup F
  <2>1. CASE m = Len(names)
    <3>1. T = names
      BY <1>1, <2>1, SeqEqual
    <3> QED BY <3>1 DEF Below
  <2>2. CASE m # Len(names)
    <3>1. m \in 0..(Len(names) - 1)
      BY <1>3, <2>2
    <3>2. T = SubSeq(names, 1, m)
      <4>1. PICK b : b = SubSeq(names, 1, m)
        OBVIOUS
      <4>2. b \in Seq(X) /\ Len(b) = m /\ \A k \in 1..m : b[k] = names[k]
        BY <1>3, <4>1
      <4> QED BY <1>1, <4>1, <4>2, SeqEqual
    <3> QED BY <3>1, <3>2 DEF Below
  <2> QED BY <2>1, <2>2
<1>8. Enter(dir \o l, x, F) = Append(dir \o l, x)
  <2>1. x \notin {<<>>, <<".">>} /\ x # <<".", ".">>
    BY <1>5, Zenon
  <2>2. Append(dir \o l, x) \in Dirs \cup F
    BY <1>6, <1>7
  <2> QED BY <1>5, <2>1, <2>2, Zenon DEF Enter
<1> QED BY <1>1, <1>6, <1>8

\* So a walk from a directory is at the names that have ended.
LEMMA Descends ==
    ASSUME NEW P, NEW a \in Seq(P), a # <<>>, "/" \in P, NEW name \in Seq(P), NEW F,
           NEW dir, dir \in Dirs, RealPath(a, F) = dir, Below(dir, Tok(name, "/", FALSE), F)
    PROVE  RealPath(a \o <<"/">> \o name, F) = dir \o Tok(name, "/", FALSE)
<1>1. PICK path, front, slash, off, W, names, X :
         /\ slash = "/" /\ front = a \o <<"/">> /\ path = front \o name /\ off = Len(a) + 1 /\ W = Walk(path, F)
         /\ names = Tok(name, "/", FALSE) /\ X = Names \cup Seq(P)
  OBVIOUS
<1>2. front \in Seq(P) /\ Len(front) = off /\ off \in Nat /\ off > 0
  <2>1. <<slash>> \in Seq(P)
    BY <1>1, TuplesType
  <2>2. <<"/">> \in Seq(P)
    BY <1>1, <2>1, Zenon
  <2>3. front \in Seq(P)
    BY <1>1, <2>2, ConcatProperties
  <2>4. Len(a \o <<"/">>) = Len(a) + 1
    BY AtSlash
  <2>5. Len(a) \in Nat
    OBVIOUS
  <2> QED BY <1>1, <2>3, <2>4, <2>5
<1>3. /\ path \in Seq(P) /\ Len(name) \in Nat /\ Len(path) = off + Len(name) /\ path # <<>>
      /\ \A n \in 1..Len(name) : off + n \in 1..Len(path) /\ path[off + n] = name[n]
  <2>1. /\ path \in Seq(P) /\ Len(path) = Len(front) + Len(name)
        /\ \A i \in 1..(Len(front) + Len(name)) : path[i] =
              IF i <= Len(front) THEN front[i] ELSE name[i - Len(front)]
    BY <1>1, <1>2, ConcatProperties
  <2>2. Len(name) \in Nat
    OBVIOUS
  <2>3. ASSUME NEW n \in 1..Len(name) PROVE off + n \in 1..Len(path) /\ path[off + n] = name[n]
    <3>1. off + n \in 1..(off + Len(name)) /\ ~(off + n <= off) /\ (off + n) - off = n
      BY <1>2, <2>2
    <3> QED BY <1>2, <2>1, <3>1
  <2>4. Len(path) # 0
    BY <1>2, <2>1, <2>2
  <2> QED BY <1>2, <2>1, <2>2, <2>3, <2>4, EmptySeq
<1>4. /\ Strides(path, F, W) /\ RealPath(path, F) = Enter(W[Len(path)].at, W[Len(path)].name, F)
  BY <1>1, <1>3, WalkDef
<1>5. W[off].at = dir /\ W[off].name = <<>>
  <2>1. /\ Walk(a \o <<"/">> \o name, F)[Len(a) + 1].at = RealPath(a, F)
        /\ Walk(a \o <<"/">> \o name, F)[Len(a) + 1].name = <<>>
    BY AtSlash
  <2> QED BY <1>1, <2>1, Zenon
<1>6. dir \in Seq(X) /\ names \in Seq(X) /\ Below(dir, names, F) /\ Seq(P) \subseteq X
  <2>1. dir \in Seq(Names)
    BY DirsAreSeqs
  <2>2. names \in Seq(Seq(P))
    <3>1. Tok(name, "/", FALSE) \in Tokens1(P)
      BY TokType
    <3> QED BY <1>1, <3>1 DEF Tokens1
  <2>3. Names \subseteq X /\ Seq(P) \subseteq X
    BY <1>1
  <2>4. dir \in Seq(X)
    BY <2>1, <2>3, SmallSeqs
  <2>5. names \in Seq(X)
    BY <2>2, <2>3, SmallSeqs
  <2> QED BY <1>1, <2>3, <2>4, <2>5, Zenon
<1> DEFINE At(n) == After(name, slash, n)
           S == {n \in 0..Len(name) : /\ W[off + n].at = dir \o Lead(At(n))
                                      /\ W[off + n].name = At(n)[Len(At(n))]}
<1>7. \A n \in 0..Len(name) : /\ At(n) \in Tokens1(P) /\ At(n) \in Seq(X) /\ At(n) # <<>> /\ Grows(At(n), names)
                              /\ Len(At(n)) \in Nat /\ Len(At(n)) >= 1
  <2> SUFFICES ASSUME NEW n \in 0..Len(name)
               PROVE  /\ At(n) \in Tokens1(P) /\ At(n) \in Seq(X) /\ At(n) # <<>> /\ Grows(At(n), names)
                      /\ Len(At(n)) \in Nat /\ Len(At(n)) >= 1
    OBVIOUS
  <2>1. PICK T : T = At(n)
    OBVIOUS
  <2>2. T \in Tokens1(P)
    BY <2>1, AfterIs
  <2>3. T \in Seq(Seq(P)) /\ T # <<>>
    BY <2>2 DEF Tokens1
  <2>4. T \in Seq(X)
    BY <1>6, <2>3, SmallSeqs
  <2>5. Len(T) \in Nat \ {0}
    BY <2>3, EmptySeq
  <2>6. Grows(T, names)
    BY <1>1, <2>1, TokensGrow, Zenon
  <2> QED BY <2>1, <2>2, <2>3, <2>4, <2>5, <2>6
<1>8. 0 \in S
  <2>1. At(0) = << <<>> >>
    BY AfterIs
  <2>2. PICK e, T : e = <<>> /\ T = <<e>>
    OBVIOUS
  <2>3. Len(T) = 1 /\ T[1] = e /\ Lead(T) = <<>>
    <3>1. Len(T) = 1 /\ T[1] = e
      BY <2>2
    <3>2. SubSeq(T, 1, 0) = <<>>
      <4>1. T \in Seq({e})
        BY <2>2
      <4>2. PICK b : b = SubSeq(T, 1, 0)
        OBVIOUS
      <4>3. b \in Seq({e}) /\ Len(b) = 0
        BY <4>1, <4>2
      <4> QED BY <4>2, <4>3, EmptySeq
    <3> QED BY <3>1, <3>2 DEF Lead
  <2>4. dir \o <<>> = dir
    BY <1>6, ConcatEmptySeq
  <2>5. At(0) = T /\ e = <<>>
    BY <2>1, <2>2, Zenon
  <2>6. W[off + 0].at = dir \o Lead(At(0)) /\ W[off + 0].name = At(0)[Len(At(0))]
    <3>1. off + 0 = off
      BY <1>2
    <3> QED BY <1>5, <2>3, <2>4, <2>5, <3>1, Zenon
  <2> QED BY <1>3, <2>6
<1>9. ASSUME NEW n \in 1..Len(name), n - 1 \in S PROVE n \in S
  <2>1. PICK T, U, p : T = At(n - 1) /\ U = At(n) /\ p = name[n]
    OBVIOUS
  <2>2. n - 1 \in 0..Len(name) /\ n \in 0..Len(name) /\ (off + n) - 1 = off + (n - 1) /\ p \in P
    BY <1>2, <1>3, <2>1
  <2>3. W[off + (n - 1)].at = dir \o Lead(T) /\ W[off + (n - 1)].name = T[Len(T)]
    BY <1>9, <2>1
  <2>4. U = IF p # slash THEN AddTo(T, p) ELSE Append(T, <<>>)
    BY <2>1, AfterIs
  <2>5. off + n \in 1..Len(path) /\ path[off + n] = p
    BY <1>3, <2>1
  <2>6. /\ W[off + n].at = IF IsSlash(p) THEN Enter(dir \o Lead(T), T[Len(T)], F) ELSE dir \o Lead(T)
        /\ W[off + n].name = IF IsSlash(p) THEN <<>> ELSE Append(T[Len(T)], p)
    BY <1>4, <2>2, <2>3, <2>5 DEF Strides
  <2>7. IsSlash(p) <=> p = slash
    BY <1>1 DEF IsSlash
  <2>8. /\ T \in Tokens1(P) /\ T \in Seq(X) /\ T # <<>> /\ Len(T) \in Nat /\ Len(T) >= 1
        /\ U \in Tokens1(P) /\ U \in Seq(X) /\ U # <<>> /\ Grows(U, names)
    BY <1>7, <2>1, <2>2
  <2>9. CASE p # slash
    <3>1. /\ Len(U) = Len(T) /\ \A k \in 1..(Len(T) - 1) : U[k] = T[k]
          /\ U[Len(T)] = Append(T[Len(T)], p)
      <4>1. U = AddTo(T, p)
        BY <2>4, <2>9
      <4>2. /\ Len(AddTo(T, p)) = Len(T) /\ \A k \in 1..(Len(T) - 1) : AddTo(T, p)[k] = T[k]
            /\ AddTo(T, p)[Len(T)] = Append(T[Len(T)], p)
        <5>1. T \in Tokens1(P) /\ p \in P
          BY <2>2, <2>8
        <5> HIDE DEF At, S
        <5>2. Len(AddTo(T, p)) = Len(T)
          BY <5>1, AddToIs
        <5>3. \A k \in 1..(Len(T) - 1) : AddTo(T, p)[k] = T[k]
          BY <5>1, AddToIs
        <5>4. AddTo(T, p)[Len(T)] = Append(T[Len(T)], p)
          BY <5>1, AddToIs
        <5> QED BY <5>2, <5>3, <5>4
      <4> QED BY <4>1, <4>2
    <3>2. Lead(U) = Lead(T)
      BY <2>8, <3>1, LeadIs DEF Lead
    <3> QED BY <2>1, <2>2, <2>6, <2>7, <2>9, <3>1, <3>2
  <2>10. CASE p = slash
    <3>1. PICK e : e = <<>> /\ e \in Seq(P)
      BY EmptySeq
    <3>2. U = Append(T, e) /\ e \in X
      BY <1>6, <2>4, <2>10, <3>1
    <3>3. Lead(U) = T
      BY <2>8, <3>2, LeadAppend
    <3>4. Len(U) = Len(T) + 1 /\ U[Len(U)] = e /\ \A k \in 1..Len(T) : U[k] = T[k]
      BY <2>8, <3>2
    <3>5. Len(T) <= Len(names) /\ \A k \in 1..Len(T) : T[k] = names[k]
      <4>1. Len(T) + 1 <= Len(names) /\ \A k \in 1..Len(T) : U[k] = names[k]
        BY <2>8, <3>4 DEF Grows
      <4>2. Len(names) \in Nat
        BY <1>6
      <4> QED BY <2>8, <3>4, <4>1, <4>2
    <3>6. Enter(dir \o Lead(T), T[Len(T)], F) = dir \o T
      BY <1>6, <2>8, <3>5, EnterLast
    <3> QED BY <2>1, <2>2, <2>6, <2>7, <2>10, <3>1, <3>3, <3>4, <3>6
  <2> QED BY <2>9, <2>10
<1>10. Len(name) \in S
  <2>1. 0..Len(name) \subseteq S
    <3> HIDE DEF S
    <3> QED BY <1>3, <1>8, <1>9, InductionTo
  <2> QED BY <1>3, <2>1
<1>11. /\ W[Len(path)].at = dir \o Lead(names) /\ W[Len(path)].name = names[Len(names)]
  <2>1. At(Len(name)) = names
    BY <1>1, AfterIs
  <2>2. off + Len(name) = Len(path)
    BY <1>3
  <2> QED BY <1>10, <2>1, <2>2
<1>12. names # <<>> /\ Len(names) \in Nat
  <2>1. At(Len(name)) = names
    BY <1>1, AfterIs
  <2>2. Len(name) \in 0..Len(name)
    BY <1>3
  <2> QED BY <1>7, <2>1, <2>2
<1>13. Enter(dir \o Lead(names), names[Len(names)], F) = dir \o names
  BY <1>6, <1>12, EnterLast
<1> QED BY <1>1, <1>4, <1>11, <1>13

\* Tokens tell what they were cut from.
LEMMA AddToApart ==
    ASSUME NEW P, NEW T \in Tokens1(P), NEW U \in Tokens1(P), NEW p \in P
    PROVE  /\ \A q \in P : AddTo(T, p) = AddTo(U, q) => T = U /\ p = q
           /\ AddTo(T, p) # Append(U, <<>>) /\ AddTo(T, p) # << <<>> >>
<1>1. PICK A, m, n : A = AddTo(T, p) /\ m = Len(T) /\ n = Len(U)
  OBVIOUS
<1>2. T \in Seq(Seq(P)) /\ T # <<>> /\ U \in Seq(Seq(P)) /\ U # <<>>
  BY DEF Tokens1
<1>3. m \in Nat \ {0} /\ n \in Nat \ {0} /\ T[m] \in Seq(P) /\ U[n] \in Seq(P)
  BY <1>1, <1>2, SeqParts
<1>4. Len(A) = m /\ (\A k \in 1..(m - 1) : A[k] = T[k]) /\ A[m] = Append(T[m], p)
  BY <1>1, AddToIs
<1>5. A[m] # <<>>
  BY <1>3, <1>4
<1>6. ASSUME NEW q \in P, A = AddTo(U, q) PROVE T = U /\ p = q
  <2>1. Len(A) = n /\ (\A k \in 1..(n - 1) : A[k] = U[k]) /\ A[n] = Append(U[n], q)
    <3>1. Len(AddTo(U, q)) = Len(U)
      BY AddToIs
    <3>a. \A k \in 1..(Len(U) - 1) : AddTo(U, q)[k] = U[k]
      BY AddToIs
    <3>b. AddTo(U, q)[Len(U)] = Append(U[Len(U)], q)
      BY AddToIs
    <3>2. AddTo(U, q) = A /\ Len(U) = n
      BY <1>1, <1>6
    <3> QED BY <3>1, <3>2, <3>a, <3>b, Zenon
  <2>2. n = m /\ \A k \in 1..(m - 1) : T[k] = U[k]
    BY <1>4, <2>1
  <2>3. T[m] = U[m] /\ p = q
    <3>1. Append(T[m], p) = Append(U[m], q) /\ U[m] \in Seq(P)
      BY <1>3, <1>4, <2>1, <2>2
    <3>2. PICK a, b : a = T[m] /\ b = U[m]
      OBVIOUS
    <3>3. a \in Seq(P) /\ b \in Seq(P) /\ Append(a, p) = Append(b, q)
      BY <1>3, <3>1, <3>2
    <3>4. a = b /\ p = q
      BY <3>3, AppendInjective
    <3> QED BY <3>2, <3>4
  <2>4. \A k \in 1..m : T[k] = U[k]
    BY <1>3, <2>2, <2>3
  <2>5. T = U
    BY <1>1, <1>2, <2>2, <2>4, SeqEqual
  <2> QED BY <2>3, <2>5
<1>7. A # Append(U, <<>>)
  <2>1. PICK e, B : e = <<>> /\ B = Append(U, e) /\ e \in Seq(P)
    BY EmptySeq
  <2>2. Len(B) = n + 1 /\ B[n + 1] = e
    BY <1>1, <1>2, <2>1
  <2>3. A # B
    BY <1>3, <1>4, <1>5, <2>1, <2>2
  <2> QED BY <2>1, <2>3
<1>8. A # << <<>> >>
  <2>1. PICK e, B : e = <<>> /\ B = <<e>>
    OBVIOUS
  <2>2. Len(B) = 1 /\ B[1] = e
    BY <2>1
  <2>3. A # B
    BY <1>4, <1>5, <2>1, <2>2
  <2> QED BY <2>1, <2>3
<1> QED BY <1>1, <1>6, <1>7, <1>8

LEMMA TokApart ==
    ASSUME NEW P, NEW sep, NEW s \in Seq(P), NEW t \in Seq(P), Tok(s, sep, FALSE) = Tok(t, sep, FALSE)
    PROVE  s = t
<1>1. PICK never : never = FALSE
  OBVIOUS
<1> DEFINE S == {r \in Seq(P) : \A v \in Seq(P) : Tok(r, sep, never) = Tok(v, sep, never) => r = v}
<1>2. \A r \in Seq(P), p \in P : Tok(Append(r, p), sep, never) =
         IF p # sep THEN AddTo(Tok(r, sep, never), p) ELSE Append(Tok(r, sep, never), <<>>)
  <2>1. \A r \in Seq(P), p \in P : Tok(Append(r, p), sep, never) =
              IF p # sep THEN AddTo(Tok(r, sep, never), p)
              ELSE IF never /\ r # <<>> /\ r[Len(r)] = sep THEN Tok(r, sep, never)
              ELSE Append(Tok(r, sep, never), <<>>)
    BY TokAppend
  <2> QED BY <1>1, <2>1
<1>3. ASSUME NEW r \in Seq(P), NEW p \in P
      PROVE  Tok(Append(r, p), sep, never) # << <<>> >>
  <2>1. PICK T : T = Tok(r, sep, never) /\ T \in Tokens1(P)
    BY TokType
  <2>2. AddTo(T, p) # << <<>> >>
    BY <2>1, AddToApart
  <2>3. Append(T, <<>>) # << <<>> >>
    <3>1. PICK e, B : e = <<>> /\ B = <<e>> /\ e \in Seq(P)
      BY EmptySeq
    <3>2. T \in Seq(Seq(P)) /\ T # <<>>
      BY <2>1 DEF Tokens1
    <3>3. PICK C : C = Append(T, e)
      OBVIOUS
    <3>4. Len(C) = Len(T) + 1 /\ Len(T) \in Nat \ {0} /\ Len(B) = 1
      BY <3>1, <3>2, <3>3, EmptySeq
    <3>5. Len(C) # Len(B)
      BY <3>4
    <3>6. C # B
      BY <3>5
    <3> QED BY <3>1, <3>3, <3>6
  <2> QED BY <1>2, <2>1, <2>2, <2>3
<1>4. ASSUME NEW v \in Seq(P), v # <<>> PROVE \E r \in Seq(P), p \in P : v = Append(r, p)
  BY <1>4, SequenceEmptyOrAppend
<1>5. <<>> \in S
  <2>1. Tok(<<>>, sep, never) = << <<>> >>
    BY TokEmpty
  <2>2. ASSUME NEW v \in Seq(P), v # <<>> PROVE Tok(v, sep, never) # << <<>> >>
    BY <1>3, <1>4, <2>2
  <2>3. <<>> \in Seq(P)
    BY EmptySeq
  <2> QED BY <2>1, <2>2, <2>3
<1>6. ASSUME NEW r \in Seq(P), NEW p \in P, r \in S PROVE Append(r, p) \in S
  <2>1. PICK T, V : T = Tok(r, sep, never) /\ V = Tok(Append(r, p), sep, never)
    OBVIOUS
  <2>2. V = IF p # sep THEN AddTo(T, p) ELSE Append(T, <<>>)
    BY <1>2, <2>1
  <2>3. T \in Tokens1(P)
    BY <2>1, TokType
  <2>4. ASSUME NEW v \in Seq(P), V = Tok(v, sep, never) PROVE Append(r, p) = v
    <3>1. v # <<>>
      <4>1. Tok(<<>>, sep, never) = << <<>> >>
        BY TokEmpty
      <4>2. V # << <<>> >>
        BY <1>3, <2>1
      <4> QED BY <2>4, <4>1, <4>2
    <3>2. PICK w \in Seq(P), q \in P : v = Append(w, q)
      BY <1>4, <3>1
    <3>3. PICK U : U = Tok(w, sep, never) /\ U \in Tokens1(P)
      BY TokType
    <3>4. V = IF q # sep THEN AddTo(U, q) ELSE Append(U, <<>>)
      BY <1>2, <2>4, <3>2, <3>3
    <3>5. T = U /\ p = q
      <4>1. CASE p # sep /\ q # sep
        <5>1. AddTo(T, p) = AddTo(U, q)
          BY <2>2, <3>4, <4>1
        <5> QED BY <2>3, <3>3, <5>1, AddToApart
      <4>2. CASE p # sep /\ q = sep
        <5>1. AddTo(T, p) = Append(U, <<>>)
          BY <2>2, <3>4, <4>2
        <5>2. AddTo(T, p) # Append(U, <<>>)
          BY <2>3, <3>3, AddToApart
        <5> QED BY <5>1, <5>2
      <4>3. CASE p = sep /\ q # sep
        <5>1. AddTo(U, q) = Append(T, <<>>)
          BY <2>2, <3>4, <4>3
        <5> QED BY <2>3, <3>3, <5>1, AddToApart
      <4>4. CASE p = sep /\ q = sep
        <5>1. PICK e : e = <<>> /\ e \in Seq(P)
          BY EmptySeq
        <5>2. Append(T, e) = Append(U, e)
          BY <2>2, <3>4, <4>4, <5>1
        <5>3. T \in Seq(Seq(P)) /\ U \in Seq(Seq(P))
          BY <2>3, <3>3 DEF Tokens1
        <5>4. T = U
          BY <5>1, <5>2, <5>3, AppendInjective
        <5> QED BY <4>4, <5>4
      <4> QED BY <4>1, <4>2, <4>3, <4>4
    <3>6. r = w
      BY <1>6, <2>1, <3>3, <3>5
    <3> QED BY <3>2, <3>5, <3>6
  <2>5. Append(r, p) \in Seq(P)
    OBVIOUS
  <2> QED BY <2>1, <2>4, <2>5
<1>7. s \in S
  <2> HIDE DEF S
  <2>1. Seq(P) \subseteq S
    BY <1>5, <1>6, SeqInduction
  <2> QED BY <2>1
<1> QED BY <1>1, <1>7

-----------------------------------------------------------------------------
(***************************************************************************)
(* LinksLead.                                                              *)
(***************************************************************************)
Decoded(p) ==
    IF p = "+" THEN " "
    ELSE IF p \in DOMAIN Escapes /\ Escapes[p] \in Printable THEN Escapes[p] ELSE p

LEMMA DecodesEach ==
    ASSUME NEW P, NEW s \in Seq(P)
    PROVE  URIDecode(s) = [k \in 1..Len(s) |-> Decoded(s[k])]
<1>1. PICK n : n = Len(s) /\ DOMAIN s = 1..n
  OBVIOUS
<1>2. URIDecode(s) = [k \in DOMAIN s |-> Decoded(s[k])]
  BY Zenon DEF URIDecode, Decoded
<1> QED BY <1>1, <1>2, Zenon

\* What decoding two joined strings gives, if each piece of them becomes a piece.
DecodesTo(s, d) == Len(s) = Len(d) /\ \A k \in 1..Len(s) : Decoded(s[k]) = d[k]

LEMMA DecodesToIs ==
    ASSUME NEW P, NEW s \in Seq(P), NEW d \in Seq(P), DecodesTo(s, d)
    PROVE  URIDecode(s) = d
<1>1. PICK n, D : n = Len(s) /\ n \in Nat /\ D = URIDecode(s)
  OBVIOUS
<1>2. D = [k \in 1..n |-> Decoded(s[k])]
  BY <1>1, DecodesEach
<1>3. Len(d) = n /\ \A k \in 1..n : Decoded(s[k]) = d[k] /\ d[k] \in P
  BY <1>1 DEF DecodesTo
<1>4. DOMAIN D = 1..n /\ D = [k \in 1..n |-> D[k]] /\ \A k \in 1..n : D[k] = d[k]
  BY <1>2, <1>3
<1>5. D \in Seq(P) /\ Len(D) = n
  BY <1>1, <1>3, <1>4, Mapped
<1>6. D = d
  BY <1>3, <1>4, <1>5, SeqEqual
<1> QED BY <1>1, <1>6

LEMMA DecodesJoined ==
    ASSUME NEW P, NEW s1 \in Seq(P), NEW s2 \in Seq(P), NEW d1 \in Seq(P), NEW d2 \in Seq(P),
           DecodesTo(s1, d1), DecodesTo(s2, d2)
    PROVE  DecodesTo(s1 \o s2, d1 \o d2)
<1>1. PICK s, d, m, n : s = s1 \o s2 /\ d = d1 \o d2 /\ m = Len(s1) /\ n = Len(s2)
  OBVIOUS
<1>m. m \in Nat /\ n \in Nat
  BY <1>1
<1>2. Len(d1) = m /\ Len(d2) = n
  BY <1>1 DEF DecodesTo
<1>3. Len(s) = m + n /\ \A i \in 1..(m + n) : s[i] = IF i <= m THEN s1[i] ELSE s2[i - m]
  <2>1. /\ Len(s1 \o s2) = Len(s1) + Len(s2)
        /\ \A i \in 1..(Len(s1) + Len(s2)) : (s1 \o s2)[i] = IF i <= Len(s1) THEN s1[i] ELSE s2[i - Len(s1)]
    BY ConcatProperties
  <2> QED BY <1>1, <2>1, Zenon
<1>4. Len(d) = m + n /\ \A i \in 1..(m + n) : d[i] = IF i <= m THEN d1[i] ELSE d2[i - m]
  <2>1. /\ Len(d1 \o d2) = Len(d1) + Len(d2)
        /\ \A i \in 1..(Len(d1) + Len(d2)) : (d1 \o d2)[i] = IF i <= Len(d1) THEN d1[i] ELSE d2[i - Len(d1)]
    BY ConcatProperties
  <2> QED BY <1>1, <1>2, <2>1, Zenon
<1>5. ASSUME NEW i \in 1..(m + n) PROVE Decoded(s[i]) = d[i]
  <2>1. CASE i <= m
    <3>1. s[i] = s1[i] /\ d[i] = d1[i] /\ i \in 1..m
      BY <1>m, <1>3, <1>4, <2>1
    <3> QED BY <1>1, <3>1 DEF DecodesTo
  <2>2. CASE ~(i <= m)
    <3>1. s[i] = s2[i - m] /\ d[i] = d2[i - m] /\ i - m \in 1..n
      BY <1>m, <1>3, <1>4, <2>2
    <3> QED BY <1>1, <3>1 DEF DecodesTo
  <2> QED BY <2>1, <2>2
<1> QED BY <1>1, <1>3, <1>4, <1>5 DEF DecodesTo

\* What a browser asks for, and what URLParser makes of it.
LEMMA LinkPath ==
    ASSUME NEW name \in DocNames, Linkable(name)
    PROVE  /\ IsStatic(LinkURI(name))
           /\ Path(LinkURI(name)) = <<"/", "static", "/">> \o name
<1>1. PICK N, E : N = {name[k] : k \in DOMAIN name} /\ E = DOMAIN Escapes
  OBVIOUS
<1>2. name \in Seq(N)
  <2>1. name \in Seq(Seqs!ToSet(name))
    BY DocNamesAssumption, Zenon
  <2>2. Seqs!ToSet(name) = N
    BY <1>1 DEF Seqs!ToSet
  <2> QED BY <2>1, <2>2
<1>3. N \cap E = {} /\ "+" \notin N /\ "?" \notin N /\ "'" \notin N /\ "#" \notin N
  BY <1>1 DEF Linkable
<1>4. Blank \in E /\ Escapes[Blank] = " "
  BY <1>1, BlankIs
<1>5. "/" \notin E /\ "static" \notin E /\ "?" \notin E /\ "+" \notin E /\ " " \in Printable
  BY <1>1, EscapesAssumption
<1>6. Ends(name) = {}
  BY <1>1, <1>3 DEF Ends
<1>7. LinkURI(name) = <<"/", "static", "/">> \o Unblanked(name)
  <2>1. Href(name) = name
    BY <1>6 DEF Href
  <2> QED BY <2>1, LinkIs
<1>8. PICK P, R : P = {"/", "static", Blank} \cup N \cup {" "} /\ R = {"/", "static", Blank} \cup (N \ {" "})
  OBVIOUS
<1>9. PICK start, rest : start = <<"/", "static", "/">> /\ rest = Unblanked(name)
  OBVIOUS
<1>10. PICK a, b : a = "/" /\ b = "static"
  OBVIOUS
<1>11. start = <<a, b, a>> /\ a \in R /\ b \in R
  BY <1>8, <1>9, <1>10
<1>12. start \in Seq(R) /\ Len(start) = 3 /\ start[1] = a /\ start[2] = b /\ start[3] = a
  BY <1>11
<1>13. /\ rest \in Seq({Blank} \cup (N \ {" "})) /\ Len(rest) = Len(name)
       /\ \A k \in 1..Len(name) : rest[k] = IF name[k] = " " THEN Blank ELSE name[k]
  BY <1>2, <1>9, UnblankedIs
<1>14. rest \in Seq(R)
  <2>1. {Blank} \cup (N \ {" "}) \subseteq R
    BY <1>8
  <2> QED BY <1>13, <2>1, SmallSeqs
<1>15. PICK u : u = start \o rest /\ u \in Seq(R) /\ u # <<>>
  <2>1. start # <<>>
    BY <1>12, EmptySeq
  <2> QED BY <1>12, <1>14, <2>1, StartsWith
<1>16. LinkURI(name) = u
  BY <1>7, <1>9, <1>15, Zenon
<1>17. Split(u, "?") = <<u>>
  <2>1. "?" \notin R
    BY <1>3, <1>4, <1>5, <1>8
  <2>2. PICK q : q = "?" /\ q \notin R
    BY <2>1
  <2>3. Tok(u, q, FALSE) = <<u>>
    BY <1>15, <2>2, TokPlain
  <2> QED BY <2>2, <2>3, SplitsAre, Zenon
<1>18. Path(u) = URIDecode(u)
  <2>1. PICK T : T = <<u>>
    OBVIOUS
  <2>2. T[1] = u
    BY <2>1
  <2> QED BY <1>17, <2>1, <2>2, Zenon DEF Path
<1>19. /\ u \in Seq(P) /\ start \in Seq(P) /\ rest \in Seq(P) /\ name \in Seq(P)
  <2>1. R \subseteq P /\ N \subseteq P
    BY <1>8
  <2>2. u \in Seq(P)
    BY <1>15, <2>1, SmallSeqs
  <2>3. start \in Seq(P)
    BY <1>12, <2>1, SmallSeqs
  <2>4. rest \in Seq(P)
    BY <1>14, <2>1, SmallSeqs
  <2>5. name \in Seq(P)
    BY <1>2, <2>1, SmallSeqs
  <2> QED BY <2>2, <2>3, <2>4, <2>5
<1>20. DecodesTo(start, start)
  <2>1. Decoded(a) = a /\ Decoded(b) = b
    BY <1>1, <1>5, <1>10 DEF Decoded
  <2>2. \A k \in 1..3 : start[k] = a \/ start[k] = b
    BY <1>12
  <2> QED BY <1>12, <2>1, <2>2 DEF DecodesTo
<1>21. DecodesTo(rest, name)
  <2>1. ASSUME NEW k \in 1..Len(name) PROVE Decoded(rest[k]) = name[k]
    <3>1. rest[k] = IF name[k] = " " THEN Blank ELSE name[k]
      BY <1>13
    <3>2. name[k] \in N
      BY <1>2
    <3>3. CASE name[k] = " "
      <4>1. rest[k] = Blank /\ Blank # "+"
        BY <1>4, <1>5, <3>1, <3>3
      <4>2. Decoded(Blank) = " "
        BY <1>1, <1>4, <1>5, <4>1 DEF Decoded
      <4> QED BY <3>3, <4>1, <4>2
    <3>4. CASE name[k] # " "
      <4>1. rest[k] = name[k] /\ name[k] # "+" /\ name[k] \notin E
        BY <1>3, <3>1, <3>2, <3>4
      <4> QED BY <1>1, <4>1 DEF Decoded
    <3> QED BY <3>3, <3>4
  <2>2. Len(rest) = Len(name)
    BY <1>13
  <2> QED BY <2>1, <2>2 DEF DecodesTo
<1>22. PICK d : d = start \o name /\ d \in Seq(P)
  BY <1>19, ConcatProperties
<1>23. DecodesTo(u, d)
  BY <1>15, <1>19, <1>20, <1>21, <1>22, DecodesJoined
<1>24. Path(u) = d
  BY <1>18, <1>19, <1>22, <1>23, DecodesToIs
<1>25. Seqs!IsPrefix(start, u)
  <2>1. /\ Len(u) = Len(start) + Len(rest)
        /\ \A i \in 1..(Len(start) + Len(rest)) : u[i] = IF i <= Len(start) THEN start[i] ELSE rest[i - Len(start)]
    BY <1>15, <1>19, ConcatProperties
  <2>2. Len(rest) \in Nat
    BY <1>19
  <2>3. Len(start) <= Len(u) /\ \A k \in 1..Len(start) : start[k] = u[k]
    BY <1>12, <2>1, <2>2
  <2> QED BY <1>19, <2>3, PrefixIs
<1>26. IsStatic(u)
  BY <1>9, <1>25, Zenon DEF IsStatic
<1> QED BY <1>9, <1>16, <1>22, <1>24, <1>26, Zenon

\* The rest behind three pieces.
LEMMA BehindThree ==
    ASSUME NEW P, NEW start \in Seq(P), Len(start) = 3, NEW name \in Seq(P)
    PROVE  SubSeq(start \o name, 4, Len(start \o name)) = name
<1>1. PICK s, n, r : s = start \o name /\ n = Len(name) /\ r = SubSeq(s, 4, Len(s))
  OBVIOUS
<1>n. n \in Nat
  BY <1>1
<1>2. s \in Seq(P) /\ Len(s) = 3 + n /\ \A i \in 1..(3 + n) : s[i] = IF i <= 3 THEN start[i] ELSE name[i - 3]
  <2>1. /\ start \o name \in Seq(P) /\ Len(start \o name) = Len(start) + Len(name)
        /\ \A i \in 1..(Len(start) + Len(name)) :
              (start \o name)[i] = IF i <= Len(start) THEN start[i] ELSE name[i - Len(start)]
    BY ConcatProperties
  <2> QED BY <1>1, <2>1, Zenon
<1>3. ASSUME NEW i \in 1..n PROVE s[i + 3] = name[i]
  <2>1. i + 3 \in 1..(3 + n) /\ ~(i + 3 <= 3) /\ (i + 3) - 3 = i
    BY <1>n
  <2> QED BY <1>2, <2>1
<1>4. r \in Seq(P) /\ Len(r) = n /\ \A i \in 1..n : r[i] = s[i + 3]
  <2>0. PICK m : m = 3 + n /\ m \in Nat
    BY <1>n
  <2>1. \A i \in 4..m : s[i] \in P
    <3>1. \A i \in 4..m : i \in 1..m
      BY <2>0
    <3> QED BY <1>2, <2>0, <3>1, ElementOfSeq
  <2>2. /\ SubSeq(s, 4, m) \in Seq(P) /\ Len(SubSeq(s, 4, m)) = IF 4 <= m THEN m - 4 + 1 ELSE 0
        /\ \A i \in 1..(m - 4 + 1) : SubSeq(s, 4, m)[i] = s[4 + i - 1]
    BY <2>0, <2>1, SubSeqProperties
  <2>3. m - 4 + 1 = n /\ (~(4 <= m) => n = 0) /\ \A i \in 1..n : 4 + i - 1 = i + 3
    BY <1>n, <2>0
  <2> QED BY <1>1, <1>2, <2>0, <2>2, <2>3
<1>5. r = name
  BY <1>1, <1>n, <1>3, <1>4, SeqEqual
<1> QED BY <1>1, <1>5

LEMMA CancelFront ==
    ASSUME NEW P, NEW f \in Seq(P), NEW s \in Seq(P), NEW t \in Seq(P), f \o s = f \o t
    PROVE  s = t
<1>1. PICK l, m, n : l = Len(f) /\ m = Len(s) /\ n = Len(t)
  OBVIOUS
<1>2. l \in Nat /\ m \in Nat /\ n \in Nat
  BY <1>1
<1>3. PICK a, b : a = f \o s /\ b = f \o t /\ a = b
  OBVIOUS
<1>4. Len(a) = l + m /\ \A i \in 1..(l + m) : a[i] = IF i <= l THEN f[i] ELSE s[i - l]
  <2>1. /\ Len(f \o s) = Len(f) + Len(s)
        /\ \A i \in 1..(Len(f) + Len(s)) : (f \o s)[i] = IF i <= Len(f) THEN f[i] ELSE s[i - Len(f)]
    BY ConcatProperties
  <2> QED BY <1>1, <1>3, <2>1, Zenon
<1>5. Len(b) = l + n /\ \A i \in 1..(l + n) : b[i] = IF i <= l THEN f[i] ELSE t[i - l]
  <2>1. /\ Len(f \o t) = Len(f) + Len(t)
        /\ \A i \in 1..(Len(f) + Len(t)) : (f \o t)[i] = IF i <= Len(f) THEN f[i] ELSE t[i - Len(f)]
    BY ConcatProperties
  <2> QED BY <1>1, <1>3, <2>1, Zenon
<1>6. m = n
  <2>1. l + m = l + n
    BY <1>3, <1>4, <1>5
  <2> QED BY <1>2, <2>1
<1>7. ASSUME NEW i \in 1..m PROVE s[i] = t[i]
  <2>1. i + l \in 1..(l + m) /\ ~(i + l <= l) /\ (i + l) - l = i
    BY <1>2
  <2>2. a[i + l] = s[i]
    BY <1>4, <2>1
  <2>3. b[i + l] = t[i]
    BY <1>5, <1>6, <2>1
  <2> QED BY <1>3, <2>2, <2>3
<1> QED BY <1>1, <1>6, <1>7, SeqEqual

LEMMA FrontIsPrefix ==
    ASSUME NEW P, NEW s \in Seq(P), NEW t \in Seq(P)
    PROVE  Seqs!IsPrefix(s, s \o t)
<1>1. PICK a, m, n : a = s \o t /\ m = Len(s) /\ n = Len(t)
  OBVIOUS
<1>2. m \in Nat /\ n \in Nat
  BY <1>1
<1>3. a \in Seq(P) /\ Len(a) = m + n /\ \A i \in 1..(m + n) : a[i] = IF i <= m THEN s[i] ELSE t[i - m]
  <2>1. /\ s \o t \in Seq(P) /\ Len(s \o t) = Len(s) + Len(t)
        /\ \A i \in 1..(Len(s) + Len(t)) : (s \o t)[i] = IF i <= Len(s) THEN s[i] ELSE t[i - Len(s)]
    BY ConcatProperties
  <2> QED BY <1>1, <2>1, Zenon
<1>4. Len(s) <= Len(a) /\ \A k \in 1..Len(s) : s[k] = a[k]
  BY <1>1, <1>2, <1>3
<1>5. Seqs!IsPrefix(s, a)
  BY <1>3, <1>4, PrefixIs
<1> QED BY <1>1, <1>5

\* The tokens of a document's name.
LEMMA NameTokens ==
    ASSUME NEW name \in DocNames
    PROVE  /\ IsSeq(name) /\ NamePath(name) = BasePath \o Tok(name, "/", FALSE)
           /\ NamePath(name) \in Documents /\ IsSeq(Tok(name, "/", FALSE))
           /\ Below(BasePath, Tok(name, "/", FALSE), Documents)
<1>1. PICK names : names = Tok(name, "/", FALSE) /\ names = Split(name, "/")
  BY SplitsAre
<1>2. PICK N : N = Seqs!ToSet(name) /\ name \in Seq(N)
  BY DocNamesAssumption
<1>3. NamePath(name) = BasePath \o names
  BY <1>1, Zenon DEF NamePath
<1>4. NamePath(name) \in Documents
  BY DEF Documents
<1>5. names \in Seq(Seq(N))
  <2>1. names \in Tokens1(N)
    BY <1>1, <1>2, TokType
  <2> QED BY <2>1 DEF Tokens1
<1>6. /\ Seqs!ToSet(names) \cap {<<>>, <<".">>, <<".", ".">>} = {}
      /\ \A n \in 0..(Len(names) - 1) : BasePath \o SubSeq(names, 1, n) \in Dirs
  BY <1>1, DocNamesAssumption, Zenon
<1>7. \A k \in 1..Len(names) : names[k] \notin {<<>>, <<".">>, <<".", ".">>}
  <2>1. ASSUME NEW k \in 1..Len(names) PROVE names[k] \in Seqs!ToSet(names)
    <3>1. DOMAIN names = 1..Len(names)
      BY <1>5
    <3> QED BY <3>1 DEF Seqs!ToSet
  <2> QED BY <1>6, <2>1, Zenon
<1>8. Below(BasePath, names, Documents)
  BY <1>3, <1>4, <1>6, <1>7, Zenon DEF Below
<1> QED BY <1>1, <1>2, <1>3, <1>4, <1>5, <1>8, Zenon DEF IsSeq

\* No two documents have one path.
LEMMA NamesApart ==
    ASSUME NEW d \in DocNames, NEW e \in DocNames, NamePath(d) = NamePath(e)
    PROVE  d = e
<1>1. PICK S, T : S = Tok(d, "/", FALSE) /\ T = Tok(e, "/", FALSE)
  OBVIOUS
<1>2. BasePath \o S = BasePath \o T /\ IsSeq(S) /\ IsSeq(T) /\ IsSeq(d) /\ IsSeq(e)
  BY <1>1, NameTokens, Zenon
<1>3. S = T
  <2>1. PICK P, Q : S \in Seq(P) /\ T \in Seq(Q)
    BY <1>2, Zenon DEF IsSeq
  <2>2. PICK R : R = Pieces \cup P \cup Q
    OBVIOUS
  <2>3. Pieces \subseteq R /\ P \subseteq R /\ Q \subseteq R
    BY <2>2
  <2>4. BasePath \in Seq(R)
    BY <2>3, PathTypes, SmallSeqs
  <2>5. S \in Seq(R)
    BY <2>1, <2>3, SmallSeqs
  <2>6. T \in Seq(R)
    BY <2>1, <2>3, SmallSeqs
  <2> QED BY <1>2, <2>4, <2>5, <2>6, CancelFront
<1>4. PICK P, Q : d \in Seq(P) /\ e \in Seq(Q)
  BY <1>2, Zenon DEF IsSeq
<1>5. PICK R : d \in Seq(R) /\ e \in Seq(R)
  <2>1. TwoSeqs(P, d, Q, e)
    BY <1>4 DEF TwoSeqs
  <2> QED BY <2>1, UnitedSeqs
<1> QED BY <1>1, <1>3, <1>5, TokApart, Zenon

\* Where the name of a document leads, and what is there.
LEMMA LinkTarget ==
    ASSUME NEW name \in DocNames, NEW base \in BaseDirs
    PROVE  /\ RealPath(base \o <<"/">> \o name, Documents) = NamePath(name)
           /\ NamePath(name) \in Documents /\ InBase(NamePath(name))
           /\ Contents(NamePath(name)) = Words[name]
<1>1. PICK names : names = Tok(name, "/", FALSE)
  OBVIOUS
<1>2. /\ IsSeq(name) /\ NamePath(name) = BasePath \o names /\ NamePath(name) \in Documents
      /\ IsSeq(names) /\ Below(BasePath, Tok(name, "/", FALSE), Documents)
  BY <1>1, NameTokens
<1>3. IsSeq(base) /\ base # <<>> /\ RealPath(base, {}) = BasePath
  BY BasesAre
<1>4. PICK P, Q : base \in Seq(P) /\ name \in Seq(Q)
  BY <1>2, <1>3, Zenon DEF IsSeq
<1>5. PICK R : base \in Seq(R) /\ name \in Seq(R) /\ "/" \in R
  <2>1. TwoSeqs(P, base, Q, name)
    BY <1>4, Zenon DEF TwoSeqs
  <2> HIDE <1>1, <1>2, <1>3, <1>4
  <2>2. \A slash : \E R : base \in Seq(R) /\ name \in Seq(R) /\ slash \in R
    BY <2>1, UnitedSeqs, Zenon
  <2> QED BY <2>2, Zenon
<1>6. BasePath \in Dirs /\ BasePath \in Seq(Pieces) /\ BasePath # None /\ None \notin Documents
  BY PathTypes, DirsAreSeqs
<1>7. RealPath(base, Documents) = BasePath
  <2>1. RealPath(base, {}) = RealPath(base, Documents) \/ RealPath(base, {}) = None
    BY <1>3, <1>5, WithoutFiles
  <2> QED BY <1>3, <1>6, <2>1
<1>8. RealPath(base \o <<"/">> \o name, Documents) = BasePath \o Tok(name, "/", FALSE)
  <2>1. PICK F, dir : F = Documents /\ dir = BasePath
    OBVIOUS
  <2>2. dir \in Dirs /\ RealPath(base, F) = dir /\ Below(dir, Tok(name, "/", FALSE), F)
    BY <1>2, <1>6, <1>7, <2>1, Zenon
  <2> HIDE <1>1
  <2>3. RealPath(base \o <<"/">> \o name, F) = dir \o Tok(name, "/", FALSE)
    BY <1>3, <1>5, <2>2, Descends
  <2> QED BY <2>1, <2>3, Zenon
<1>9. InBase(NamePath(name))
  <2>1. PICK S : names \in Seq(S)
    BY <1>2, Zenon DEF IsSeq
  <2>2. PICK T : T = Pieces \cup S
    OBVIOUS
  <2>3. Pieces \subseteq T /\ S \subseteq T
    BY <2>2
  <2>4. BasePath \in Seq(T)
    BY <1>6, <2>3, SmallSeqs
  <2>5. names \in Seq(T)
    BY <2>1, <2>3, SmallSeqs
  <2>6. Seqs!IsPrefix(BasePath, BasePath \o names)
    BY <2>4, <2>5, FrontIsPrefix
  <2> QED BY <1>2, <1>6, <2>6, Zenon DEF InBase
<1>10. Contents(NamePath(name)) = Words[name]
  <2>1. {n \in DocNames : NamePath(n) = NamePath(name)} = {name}
    BY NamesApart
  <2>2. {Words[d] : d \in {n \in DocNames : NamePath(n) = NamePath(name)}} = {Words[name]}
    BY <2>1
  <2>3. PICK W : W = {Words[d] : d \in {n \in DocNames : NamePath(n) = NamePath(name)}} /\ W = {Words[name]}
    BY <2>2
  <2>4. Contents(NamePath(name)) = CHOOSE w \in W : TRUE
    BY <2>3, Zenon DEF Contents
  <2> QED BY <2>3, <2>4
<1> QED BY <1>1, <1>2, <1>8, <1>9, <1>10, Zenon

LEMMA LinkIsStatic ==
    ASSUME NEW name \in DocNames
    PROVE  IsStatic(LinkURI(name))
<1>1. PICK a, b, start, rest : /\ a = "/" /\ b = "static" /\ start = <<"/", "static", "/">>
                               /\ rest = Unblanked(Href(name))
  OBVIOUS
<1>2. PICK N : name \in Seq(N)
  BY DocNamesAssumption
<1>3. rest \in Seq({Blank} \cup (N \ {" "}))
  BY <1>1, <1>2, HrefType, UnblankedIs
<1>4. PICK P : P = {a, b} \cup {Blank} \cup (N \ {" "})
  OBVIOUS
<1>5. start = <<a, b, a>> /\ a \in P /\ b \in P
  BY <1>1, <1>4
<1>6. start \in Seq(P)
  BY <1>5, TuplesType
<1>7. rest \in Seq(P)
  <2>1. {Blank} \cup (N \ {" "}) \subseteq P
    BY <1>4
  <2> QED BY <1>3, <2>1, SmallSeqs
<1>8. Seqs!IsPrefix(start, start \o rest)
  BY <1>6, <1>7, FrontIsPrefix
<1>9. LinkURI(name) = start \o rest
  BY <1>1, LinkIs, Zenon
<1> QED BY <1>1, <1>8, <1>9, Zenon DEF IsStatic

\* A thread that was sent along a link is on its way to a file.
Linked(t) ==
    /\ asked[t].kind = "link" =>
          /\ asked[t].text \in DocNames /\ uri[t] = LinkURI(asked[t].text)
          /\ at[t] \in {"path", "read", "load", "type", "answered", "crashed"}
          /\ at[t] = "answered" => page[t].kind \in {"file", "not found"}
    /\ page[t].kind = "file" => page[t] = [kind |-> "file", body |-> page[t].body]

LinkInv == DOMAIN asked = Threads /\ \A t \in Threads : Linked(t)

LEMMA LinkMoves ==
    ASSUME LinkInv, NEW t \in Threads, DOMAIN asked' = Threads,
           \A s \in Threads : s # t =>
               asked'[s] = asked[s] /\ uri'[s] = uri[s] /\ at'[s] = at[s] /\ page'[s] = page[s],
           Linked(t)'
    PROVE  LinkInv'
<1>1. ASSUME NEW s \in Threads, s # t PROVE Linked(s)'
  <2>1. asked'[s] = asked[s] /\ uri'[s] = uri[s] /\ at'[s] = at[s] /\ page'[s] = page[s]
    BY <1>1
  <2>2. Linked(s)
    BY DEF LinkInv
  <2> QED BY <2>1, <2>2, Zenon DEF Linked
<1> QED BY <1>1 DEF LinkInv

LEMMA LinkRests ==
    ASSUME LinkInv, asked' = asked, uri' = uri, at' = at, page' = page
    PROVE  LinkInv'
<1>1. ASSUME NEW s \in Threads PROVE Linked(s)'
  <2>1. asked'[s] = asked[s] /\ uri'[s] = uri[s] /\ at'[s] = at[s] /\ page'[s] = page[s]
    OBVIOUS
  <2>2. Linked(s)
    BY DEF LinkInv
  <2> QED BY <2>1, <2>2, Zenon DEF Linked
<1> QED BY <1>1 DEF LinkInv

\* Another request, and the one for a link.
LEMMA LinkReceived ==
    ASSUME StaticInv, LinkInv, NEW t \in Threads, NEW what, NEW request, Receive(t, what, request),
           what.kind # "link" \/ (\E name \in DocNames : what = [kind |-> "link", text |-> name]
                                                         /\ request = Request(LinkURI(name), "keep-alive"))
    PROVE  LinkInv'
<1>1. /\ asked' = [asked EXCEPT ![t] = what] /\ uri' = [uri EXCEPT ![t] = Parsed[request].uri]
      /\ page' = [page EXCEPT ![t] = NoPage]
  BY Zenon DEF Receive
<1>2. PICK place : at' = [at EXCEPT ![t] = place]
  BY Zenon DEF Receive
<1>3. DOMAIN asked = Threads /\ DOMAIN at = Threads /\ DOMAIN uri = Threads /\ DOMAIN page = Threads
  BY DEF StaticInv, LinkInv
<1>4. DOMAIN asked' = Threads /\ asked'[t] = what /\ uri'[t] = Parsed[request].uri /\ page'[t] = NoPage
      /\ at'[t] = place
  BY <1>1, <1>2, <1>3
<1>5. \A s \in Threads : s # t =>
          asked'[s] = asked[s] /\ uri'[s] = uri[s] /\ at'[s] = at[s] /\ page'[s] = page[s]
  BY <1>1, <1>2, <1>3
<1>6. page'[t].kind # "file"
  BY <1>4 DEF NoPage
<1>7. CASE what.kind # "link"
  <2>1. asked'[t].kind # "link"
    BY <1>4, <1>7
  <2>2. Linked(t)'
    BY <1>6, <2>1, Zenon DEF Linked
  <2> QED BY <1>4, <1>5, <2>2, LinkMoves
<1>8. ASSUME NEW name \in DocNames, what = [kind |-> "link", text |-> name],
             request = Request(LinkURI(name), "keep-alive")
      PROVE  LinkInv'
  <2>1. PICK u : u = LinkURI(name) /\ IsStatic(u) /\ Asked(u)
    BY LinkIsStatic, LinkAsked
  <2>2. request = Request(u, "keep-alive") /\ Request(u, "keep-alive") \in Requests
    BY <1>8, <2>1, Zenon DEF Requests
  <2>3. PICK parsed : /\ parsed = Parsed[request] /\ parsed.uri = u
                      /\ parsed.headers[<<"connection">>] = <<"keep-alive">>
    BY <2>1, <2>2, UriAsked
  <2>4. <<"keep-alive">> # <<"close">>
    OBVIOUS
  <2>5. at' = [at EXCEPT ![t] = "path"]
    <3>1. PICK close : /\ close <=> /\ <<"connection">> \in DOMAIN parsed.headers
                                    /\ parsed.headers[<<"connection">>] = <<"close">>
                       /\ at' = [at EXCEPT ![t] = IF close THEN "closed"
                                                  ELSE IF IsStatic(parsed.uri) THEN "path" ELSE "query"]
      BY <2>3, Zenon DEF Receive
    <3>2. ~close
      BY <2>3, <2>4, <3>1, Zenon
    <3>3. IsStatic(parsed.uri)
      BY <2>1, <2>3, Zenon
    <3> QED BY <3>1, <3>2, <3>3, Zenon
  <2>6. at'[t] = "path" /\ uri'[t] = u
    BY <1>3, <1>4, <2>3, <2>5
  <2>7. asked'[t].kind = "link" /\ asked'[t].text = name
    BY <1>4, <1>8
  <2>8. Linked(t)'
    BY <1>6, <2>1, <2>6, <2>7 DEF Linked
  <2> QED BY <1>4, <1>5, <2>8, LinkMoves
<1> QED BY <1>7, <1>8

\* An answer, and a step without one.
LEMMA LinkAnswers ==
    ASSUME StaticInv, LinkInv, NEW t \in Threads, NEW response, Answer(t, response),
           asked[t].kind = "link" => response.kind \in {"file", "not found"},
           response.kind = "file" => response = [kind |-> "file", body |-> response.body]
    PROVE  LinkInv'
<1>1. /\ at' = [at EXCEPT ![t] = "answered"] /\ page' = [page EXCEPT ![t] = response] /\ uri' = uri /\ asked' = asked
  BY DEF Answer
<1>2. DOMAIN asked = Threads /\ DOMAIN at = Threads /\ DOMAIN page = Threads /\ Linked(t)
  BY DEF StaticInv, LinkInv
<1>3. at'[t] = "answered" /\ page'[t] = response /\ uri'[t] = uri[t] /\ asked'[t] = asked[t] /\ DOMAIN asked' = Threads
  BY <1>1, <1>2
<1>4. \A s \in Threads : s # t =>
          asked'[s] = asked[s] /\ uri'[s] = uri[s] /\ at'[s] = at[s] /\ page'[s] = page[s]
  BY <1>1, <1>2
<1>5. Linked(t)'
  <2>1. ASSUME asked'[t].kind = "link"
        PROVE  /\ asked'[t].text \in DocNames /\ uri'[t] = LinkURI(asked'[t].text)
               /\ at'[t] \in {"path", "read", "load", "type", "answered", "crashed"}
               /\ page'[t].kind \in {"file", "not found"}
    <3>1. asked[t].text \in DocNames /\ uri[t] = LinkURI(asked[t].text) /\ response.kind \in {"file", "not found"}
      BY <1>2, <1>3, <2>1 DEF Linked
    <3> QED BY <1>3, <3>1
  <2>2. page'[t].kind = "file" => page'[t] = [kind |-> "file", body |-> page'[t].body]
    BY <1>3, Zenon
  <2> QED BY <2>1, <2>2, Zenon DEF Linked
<1> QED BY <1>3, <1>4, <1>5, LinkMoves

LEMMA LinkGoes ==
    ASSUME StaticInv, LinkInv, NEW t \in Threads, NEW place, Goto(t, place),
           asked[t].kind = "link" => place \in {"read", "load", "type", "crashed"}
    PROVE  LinkInv'
<1>1. at' = [at EXCEPT ![t] = place] /\ page' = page /\ uri' = uri /\ asked' = asked
  BY DEF Goto
<1>2. DOMAIN asked = Threads /\ DOMAIN at = Threads /\ Linked(t)
  BY DEF StaticInv, LinkInv
<1>3. at'[t] = place /\ page'[t] = page[t] /\ uri'[t] = uri[t] /\ asked'[t] = asked[t] /\ DOMAIN asked' = Threads
  BY <1>1, <1>2
<1>4. \A s \in Threads : s # t =>
          asked'[s] = asked[s] /\ uri'[s] = uri[s] /\ at'[s] = at[s] /\ page'[s] = page[s]
  BY <1>1, <1>2
<1>5. Linked(t)'
  <2>1. ASSUME asked'[t].kind = "link"
        PROVE  /\ asked'[t].text \in DocNames /\ uri'[t] = LinkURI(asked'[t].text)
               /\ at'[t] \in {"path", "read", "load", "type", "answered", "crashed"}
               /\ at'[t] # "answered"
    <3>1. asked[t].text \in DocNames /\ uri[t] = LinkURI(asked[t].text) /\ place \in {"read", "load", "type", "crashed"}
      BY <1>2, <1>3, <2>1 DEF Linked
    <3> QED BY <1>3, <3>1
  <2>2. page'[t].kind = "file" => page'[t] = [kind |-> "file", body |-> page'[t].body]
    BY <1>2, <1>3, Zenon DEF Linked
  <2> QED BY <2>1, <2>2, Zenon DEF Linked
<1> QED BY <1>3, <1>4, <1>5, LinkMoves

LEMMA LinkInit == Init => LinkInv
<1> SUFFICES ASSUME Init PROVE LinkInv
  OBVIOUS
<1>1. DOMAIN asked = Threads
  BY DEF Init
<1>2. ASSUME NEW t \in Threads PROVE Linked(t)
  <2>1. asked[t].kind = "none" /\ page[t].kind = "none"
    BY DEF Init, NoPage
  <2>2. asked[t].kind # "link" /\ page[t].kind # "file"
    BY <2>1
  <2> QED BY <2>2, Zenon DEF Linked
<1> QED BY <1>1, <1>2 DEF LinkInv

LEMMA LinkHandled ==
    ASSUME StaticInv, LinkInv, NEW t \in Threads, Handle(t)
    PROVE  LinkInv'
<1>1. Reached(t) /\ Linked(t) /\ DOMAIN at = Threads /\ DOMAIN page = Threads /\ DOMAIN asked = Threads
  BY DEF StaticInv, LinkInv
<1>2. CASE OpenIndex(t) \/ CheckIndex(t) \/ IndexAccepted(t) \/ IndexRefused(t)
  <2>1. asked' = asked /\ uri' = uri /\ at' = at /\ page' = page
    BY <1>2 DEF OpenIndex, CheckIndex, IndexAccepted, IndexRefused, webVars
  <2> QED BY <2>1, LinkRests
<1>3. CASE OpenNoIndex(t) \/ Search(t)
  <2>1. at[t] = "query"
    BY <1>3 DEF OpenNoIndex, Search
  <2>2. asked[t].kind # "link"
    BY <1>1, <2>1 DEF Linked
  <2>3. CASE OpenNoIndex(t)
    BY <2>2, <2>3, LinkGoes DEF OpenNoIndex
  <2>4. CASE Search(t)
    <3>1. PICK shown, links : Answer(t, [kind |-> "results", shown |-> shown, links |-> links])
      BY <2>4, Zenon DEF Search
    <3>2. PICK response : response = [kind |-> "results", shown |-> shown, links |-> links]
      OBVIOUS
    <3>3. response.kind # "file"
      BY <3>2
    <3> QED BY <2>2, <3>1, <3>2, <3>3, LinkAnswers
  <2> QED BY <1>3, <2>3, <2>4
<1>4. ASSUME NotFound(t) PROVE LinkInv'
  <2>1. PICK shown : Answer(t, [kind |-> "not found", shown |-> shown])
    BY <1>4, Zenon DEF NotFound
  <2>2. PICK response : response = [kind |-> "not found", shown |-> shown]
    OBVIOUS
  <2>3. response.kind = "not found" /\ response.kind # "file"
    BY <2>2
  <2> QED BY <2>1, <2>2, <2>3, LinkAnswers
<1>5. CASE CheckPath(t)
  <2>1. Goto(t, "read") \/ NotFound(t)
    BY <1>5 DEF CheckPath
  <2> QED BY <1>4, <2>1, LinkGoes
<1>6. CASE CheckFullFile(t)
  <2>1. Goto(t, "load") \/ NotFound(t)
    BY <1>6 DEF CheckFullFile
  <2> QED BY <1>4, <2>1, LinkGoes
<1>7. CASE ReadFile(t)
  <2>1. PICK body : page' = [page EXCEPT ![t] = [kind |-> "file", body |-> body]]
    BY <1>7, Zenon DEF ReadFile
  <2>2. PICK response : response = [kind |-> "file", body |-> body]
    OBVIOUS
  <2>3. response.kind = "file" /\ response.body = body
    BY <2>2
  <2>4. at' = [at EXCEPT ![t] = "type"] /\ uri' = uri /\ asked' = asked
    BY <1>7 DEF ReadFile
  <2>5. at'[t] = "type" /\ page'[t] = response /\ uri'[t] = uri[t] /\ asked'[t] = asked[t] /\ DOMAIN asked' = Threads
    BY <1>1, <2>1, <2>2, <2>4
  <2>6. \A s \in Threads : s # t =>
            asked'[s] = asked[s] /\ uri'[s] = uri[s] /\ at'[s] = at[s] /\ page'[s] = page[s]
    BY <1>1, <2>1, <2>4
  <2>7. page'[t] = [kind |-> "file", body |-> page'[t].body]
    BY <2>2, <2>3, <2>5, Zenon
  <2>8. Linked(t)'
    BY <1>1, <2>5, <2>7 DEF Linked
  <2> QED BY <2>5, <2>6, <2>8, LinkMoves
<1>8. CASE ReadNothing(t)
  BY <1>8, LinkGoes DEF ReadNothing
<1>9. CASE SetContentType(t)
  <2>1. at[t] = "type" /\ (Answer(t, page[t]) \/ Goto(t, "crashed"))
    BY <1>9 DEF SetContentType
  <2>2. page[t].kind = "file"
    BY <1>1, <2>1 DEF Reached
  <2>3. page[t] = [kind |-> "file", body |-> page[t].body]
    BY <1>1, <2>2, Zenon DEF Linked
  <2>4. PICK response : response = page[t]
    OBVIOUS
  <2>5. response.kind = "file" /\ response = [kind |-> "file", body |-> response.body]
    BY <2>2, <2>3, <2>4, Zenon
  <2>6. CASE Answer(t, page[t])
    <3>1. Answer(t, response)
      BY <2>4, <2>6
    <3> QED BY <2>5, <3>1, LinkAnswers
  <2>7. CASE Goto(t, "crashed")
    BY <2>7, LinkGoes
  <2> QED BY <2>1, <2>6, <2>7
<1> QED BY <1>2, <1>3, <1>5, <1>6, <1>7, <1>8, <1>9 DEF Handle

LEMMA LinkBrowsed ==
    ASSUME StaticInv, LinkInv, NEW t \in Threads, Browse(t)
    PROVE  LinkInv'
<1>1. ASSUME NEW what, NEW request, Receive(t, what, request), what.kind # "link" PROVE LinkInv'
  BY <1>1, LinkReceived
<1>2. ASSUME NEW text \in Typed, Type(t, text) PROVE LinkInv'
  <2>1. PICK what : what = [kind |-> "typed", text |-> text]
    OBVIOUS
  <2>2. what.kind # "link"
    BY <2>1
  <2>3. Receive(t, what, Request(QueryURI(text), "keep-alive"))
    BY <1>2, <2>1, Zenon DEF Type
  <2> QED BY <1>1, <2>2, <2>3
<1>3. ASSUME NEW u \in StaticURIs, Visit(t, u) PROVE LinkInv'
  <2>1. PICK what : what = [kind |-> "uri", text |-> u]
    OBVIOUS
  <2>2. what.kind # "link"
    BY <2>1
  <2>3. Receive(t, what, Request(u, "keep-alive"))
    BY <1>3, <2>1, Zenon DEF Visit
  <2> QED BY <1>1, <2>2, <2>3
<1>4. ASSUME Part(t) PROVE LinkInv'
  <2>1. PICK what : what = [kind |-> "parting"]
    OBVIOUS
  <2>2. what.kind # "link"
    BY <2>1
  <2>3. Receive(t, what, Request(<<"/">>, "close"))
    BY <1>4, <2>1, Zenon DEF Part
  <2> QED BY <1>1, <2>2, <2>3
<1>5. ASSUME NEW name \in DocNames, Follow(t, name) PROVE LinkInv'
  <2>1. PICK what, request : /\ what = [kind |-> "link", text |-> name]
                             /\ request = Request(LinkURI(name), "keep-alive")
    OBVIOUS
  <2>2. Receive(t, what, request)
    BY <1>5, <2>1, Zenon DEF Follow
  <2> QED BY <2>1, <2>2, LinkReceived
<1> QED BY <1>2, <1>3, <1>4, <1>5 DEF Browse

LEMMA LinkNext == StaticInv /\ LinkInv /\ [Next]_vars => LinkInv'
<1> SUFFICES ASSUME StaticInv, LinkInv, [Next]_vars PROVE LinkInv'
  OBVIOUS
<1>1. ASSUME asked' = asked, uri' = uri, at' = at, page' = page PROVE LinkInv'
  BY <1>1, LinkRests
<1>2. CASE UNCHANGED vars \/ Over
  BY <1>1, <1>2 DEF vars, webVars, Over
<1>3. CASE Start
  BY <1>1, <1>3 DEF Start
<1>4. ASSUME NEW name, Remove(name) PROVE LinkInv'
  BY <1>1, <1>4 DEF Remove
<1>5. ASSUME NEW t \in Threads, Handle(t) PROVE LinkInv'
  BY <1>5, LinkHandled
<1>6. ASSUME NEW t \in Threads, Browse(t) PROVE LinkInv'
  BY <1>6, LinkBrowsed
<1> QED BY <1>2, <1>3, <1>4, <1>5, <1>6 DEF Next

\* A thread that was sent along a link and has answered was asked for the document,
\* which is still there, and answers with it.
LEMMA LinkServed ==
    ASSUME StaticInv, LinkInv, NEW t \in Threads, asked[t].kind = "link", at[t] \in {"answered", "crashed"},
           SelfRelative, BasePath # <<>>, Linkable(asked[t].text), NamePath(asked[t].text) \in files
    PROVE  page[t] = [kind |-> "file", body |-> Words[asked[t].text]]
<1>1. Linked(t) /\ base_dir \in BaseDirs /\ (IsStatic(uri[t]) => Served(t)) /\ files \subseteq Documents
  BY DEF StaticInv, LinkInv
<1>2. PICK name \in DocNames : name = asked[t].text /\ uri[t] = LinkURI(name)
  BY <1>1 DEF Linked
<1>3. IsStatic(uri[t]) /\ Path(uri[t]) = <<"/", "static", "/">> \o name
  <2>1. Linkable(name)
    BY <1>2
  <2>2. IsStatic(LinkURI(name)) /\ Path(LinkURI(name)) = <<"/", "static", "/">> \o name
    BY <2>1, LinkPath, Zenon
  <2> QED BY <1>2, <2>2, Zenon
<1>4. SubSeq(Path(uri[t]), 4, Len(Path(uri[t]))) = name
  <2>1. PICK a, b, start : a = "/" /\ b = "static" /\ start = <<"/", "static", "/">>
    OBVIOUS
  <2>2. start = <<a, b, a>>
    BY <2>1
  <2>3. PICK N : name \in Seq(N)
    BY DocNamesAssumption
  <2>p. PICK P : P = N \cup {a, b}
    OBVIOUS
  <2>4. N \subseteq P /\ a \in P /\ b \in P
    BY <2>p
  <2>5. start \in Seq(P) /\ Len(start) = 3
    BY <2>2, <2>4
  <2>6. name \in Seq(P)
    BY <2>3, <2>4, SmallSeqs
  <2>7. SubSeq(start \o name, 4, Len(start \o name)) = name
    BY <2>5, <2>6, BehindThree
  <2> QED BY <1>3, <2>1, <2>7, Zenon
<1>5. Meant(t) = base_dir \o <<"/">> \o name
  BY <1>4, Zenon DEF Meant
<1>6. /\ Target(t) = NamePath(name) /\ InBase(NamePath(name)) /\ NamePath(name) \in Documents
      /\ Contents(NamePath(name)) = Words[name]
  <2>1. Target(t) = RealPath(base_dir \o <<"/">> \o name, Documents)
    BY <1>5, Zenon DEF Target
  <2> QED BY <1>1, <2>1, LinkTarget
<1>7. HasExtension(Meant(t))
  BY <1>2, <1>5, Zenon DEF Linkable
<1>8. Source(t) \in files /\ Source(t) = Target(t)
  BY <1>2, <1>6, Zenon DEF Source
<1>9. Served(t)
  BY <1>1, <1>3
<1>10. at[t] # "crashed"
  BY <1>7, <1>8, <1>9 DEF Served
<1>11. page[t].kind \in {"file", "not found"}
  BY <1>1, <1>10 DEF Linked
<1>12. page[t].kind # "not found"
  BY <1>6, <1>8, <1>9 DEF Served, Deserves, Missing
<1>13. page[t].kind = "file" /\ page[t].body = Words[name]
  <2>1. page[t].kind = "file"
    BY <1>11, <1>12
  <2> QED BY <1>6, <1>8, <1>9, <2>1 DEF Served, Deserves
<1>14. page[t] = [kind |-> "file", body |-> page[t].body]
  BY <1>1, <1>13 DEF Linked
<1> QED BY <1>2, <1>13, <1>14, Zenon

\* A link on a page of results leads to the document it is about (ProcessQueryRequest
\* and ProcessFileRequest in HttpServer.cc, URLParser and IsPathSafe in HttpUtils.cc), as
\* LinksLead says: for every set of names of documents, however deep in the directory.
THEOREM LinksFollowed == Spec => []LinksLead
<1>1. StaticInv /\ LinkInv => LinksLead
  BY LinkServed DEF LinksLead
<1>2. Init => StaticInv /\ LinkInv
  BY StaticInit, LinkInit
<1>3. StaticInv /\ LinkInv /\ [Next]_vars => (StaticInv /\ LinkInv)'
  BY StaticNext, LinkNext
<1> QED BY <1>1, <1>2, <1>3, PTL DEF Spec

-----------------------------------------------------------------------------
(***************************************************************************)
(* QueryUnderstood: what is typed.                                         *)
(***************************************************************************)
HasOneArg(url, field, front, rest, name, value) ==
    /\ Split(url, "?") = <<front, rest>> /\ Split(rest, "&") = <<rest>>
    /\ Split(rest, "=") = <<name, value>> /\ URIDecode(name) = field

LEMMA SingleOne == Seqs!Max({1}) = 1
<1>0. PICK S : S = {1}
  OBVIOUS
<1>1. S \subseteq Nat /\ 1 \in S /\ \A n \in S : n <= 1
  BY <1>0
<1>2. Seqs!Max(S) = 1
  BY <1>1, GreatestIs
<1> QED BY <1>0, <1>2

LEMMA OneArg ==
    ASSUME NEW url, NEW field, NEW front, NEW rest, NEW name, NEW value,
           HasOneArg(url, field, front, rest, name, value)
    PROVE  Arg(url, field) = URIDecode(value)
<1> DEFINE parts == Split(url, "?")
           vals  == IF Len(parts) < 2 THEN <<>> ELSE Split(parts[2], "&")
           fv    == [k \in DOMAIN vals |-> Split(vals[k], "=")]
           named == {k \in DOMAIN vals : Len(fv[k]) = 2 /\ URIDecode(fv[k][1]) = field}
<1>1. PICK fr : fr = <<front, rest>>
  OBVIOUS
<1>2. Len(fr) = 2 /\ fr[2] = rest
  BY <1>1
<1>3. parts = fr
  BY <1>1 DEF HasOneArg
<1>4. PICK one : one = <<rest>>
  OBVIOUS
<1>5. DOMAIN one = {1} /\ one[1] = rest
  BY <1>4
<1>6. vals = one
  <2> HIDE DEF parts
  <2>1. ~(Len(parts) < 2) /\ parts[2] = rest
    BY <1>2, <1>3
  <2> QED BY <1>4, <2>1 DEF HasOneArg
<1>7. PICK nv : nv = <<name, value>>
  OBVIOUS
<1>8. Len(nv) = 2 /\ nv[1] = name /\ nv[2] = value
  BY <1>7
<1>9. DOMAIN vals = {1} /\ fv[1] = nv
  <2> HIDE DEF vals
  <2>1. DOMAIN vals = {1} /\ vals[1] = rest
    BY <1>5, <1>6
  <2> QED BY <1>7, <2>1 DEF HasOneArg
<1>10. named = {1}
  <2> HIDE DEF vals, fv
  <2> QED BY <1>8, <1>9 DEF HasOneArg
<1>11. Arg(url, field) = IF named = {} THEN <<>> ELSE URIDecode(fv[Seqs!Max(named)][2])
  BY Zenon DEF Arg
<1> HIDE DEF named, fv
<1> QED BY <1>8, <1>9, <1>10, <1>11, SingleOne

LEMMA Quintuple ==
    ASSUME NEW a, NEW b, NEW c, NEW d, NEW e
    PROVE  <<a, b, c>> \o <<d, e>> = <<a, b, c, d, e>>
<1>1. PICK P, x, y, z : P = {a, b, c, d, e} /\ x = <<a, b, c>> /\ y = <<d, e>> /\ z = <<a, b, c, d, e>>
  OBVIOUS
<1>2. /\ x \in Seq(P) /\ Len(x) = 3 /\ x[1] = a /\ x[2] = b /\ x[3] = c
      /\ y \in Seq(P) /\ Len(y) = 2 /\ y[1] = d /\ y[2] = e
      /\ z \in Seq(P) /\ Len(z) = 5 /\ z[1] = a /\ z[2] = b /\ z[3] = c /\ z[4] = d /\ z[5] = e
  BY <1>1
<1>3. PICK w : w = x \o y
  OBVIOUS
<1>4. w \in Seq(P) /\ Len(w) = 5 /\ \A i \in 1..5 : w[i] = IF i <= 3 THEN x[i] ELSE y[i - 3]
  <2>1. /\ x \o y \in Seq(P) /\ Len(x \o y) = Len(x) + Len(y)
        /\ \A i \in 1..(Len(x) + Len(y)) : (x \o y)[i] = IF i <= Len(x) THEN x[i] ELSE y[i - Len(x)]
    BY <1>2, ConcatProperties
  <2>2. Len(x) + Len(y) = 5
    BY <1>2
  <2> QED BY <1>2, <1>3, <2>1, <2>2, Zenon
<1>5. w[1] = a /\ w[2] = b /\ w[3] = c /\ w[4] = d /\ w[5] = e
  BY <1>2, <1>4
<1>6. \A i \in 1..5 : w[i] = z[i]
  BY <1>2, <1>5
<1>7. w = z
  BY <1>2, <1>4, <1>6, SeqEqual
<1> QED BY <1>1, <1>3, <1>7

\* The form's text, encoded and decoded.
LEMMA EncodedText ==
    ASSUME NEW text \in Typed
    PROVE  /\ IsSeq(text)
           /\ \E Q : /\ FormEncode(text) \in Seq(Q) /\ "?" \notin Q /\ "&" \notin Q /\ "=" \notin Q
           /\ URIDecode(FormEncode(text)) = text
<1>1. PICK T, E, R : T = Seqs!ToSet(text) /\ E = DOMAIN Escapes /\ R = {Escapes[e] : e \in DOMAIN Escapes}
  OBVIOUS
<1>2. /\ text \in Seq(T) /\ T \cap E = {} /\ T \cap {"?", "&", "=", "+"} \subseteq R
      /\ \A e \in E : Escapes[e] \in T => Escapes[e] \in Printable
  <2>1. /\ text \in Seq(Seqs!ToSet(text))
        /\ Seqs!ToSet(text) \cap (DOMAIN Escapes \cup {"CRLF"}) = {}
        /\ Seqs!ToSet(text) \cap {"?", "&", "=", "+"} \subseteq {Escapes[e] : e \in DOMAIN Escapes}
        /\ \A e \in DOMAIN Escapes : Escapes[e] \in Seqs!ToSet(text) => Escapes[e] \in Printable
    BY RequestsAssumption, Zenon
  <2> QED BY <1>1, <2>1
<1>3. "?" \notin E /\ "&" \notin E /\ "=" \notin E /\ "+" \notin E
  BY <1>1, EscapesAssumption
<1>4. PICK f, n : f = FormEncode(text) /\ n = Len(text)
  OBVIOUS
<1>5. n \in Nat /\ \A k \in 1..n : text[k] \in T
  BY <1>2, <1>4
<1>6. /\ DOMAIN f = 1..n /\ f = [k \in 1..n |-> f[k]]
      /\ \A k \in 1..n :
            /\ text[k] = " " => f[k] = "+"
            /\ text[k] # " " /\ text[k] \in R => f[k] \in E /\ Escapes[f[k]] = text[k]
            /\ text[k] # " " /\ text[k] \notin R => f[k] = text[k]
  <2>1. /\ DOMAIN f = 1..n /\ f = [k \in 1..n |-> f[k]]
        /\ \A k \in 1..n :
              /\ text[k] = " " => f[k] = "+"
              /\ text[k] # " " /\ (\E e \in DOMAIN Escapes : Escapes[e] = text[k])
                    => f[k] \in DOMAIN Escapes /\ Escapes[f[k]] = text[k]
              /\ text[k] # " " /\ ~(\E e \in DOMAIN Escapes : Escapes[e] = text[k]) => f[k] = text[k]
    BY <1>2, <1>4, EncodeIs
  <2>2. \A p : p \in R <=> \E e \in DOMAIN Escapes : Escapes[e] = p
    BY <1>1
  <2> QED BY <1>1, <2>1, <2>2
<1>7. PICK Q : Q = {f[k] : k \in 1..n}
  OBVIOUS
<1>8. f \in Seq(Q) /\ Len(f) = n
  <2>1. \A k \in 1..n : f[k] \in Q
    BY <1>7
  <2>2. n \in Nat /\ DOMAIN f = 1..n /\ f = [k \in 1..n |-> f[k]]
    BY <1>5, <1>6
  <2>3. f \in Seq(Q)
    BY <2>1, <2>2, Mapped
  <2>4. Len(f) = n
    BY <2>1, <2>2, Mapped
  <2> QED BY <2>3, <2>4
<1>9. ASSUME NEW k \in 1..n PROVE f[k] # "?" /\ f[k] # "&" /\ f[k] # "="
  <2>1. CASE text[k] = " "
    BY <1>6, <2>1
  <2>2. CASE text[k] # " " /\ text[k] \in R
    BY <1>3, <1>6, <2>2
  <2>3. CASE text[k] # " " /\ text[k] \notin R
    <3>1. f[k] = text[k] /\ text[k] \in T
      BY <1>5, <1>6, <2>3
    <3>2. text[k] \notin {"?", "&", "=", "+"}
      BY <1>2, <2>3, <3>1
    <3> QED BY <3>1, <3>2
  <2> QED BY <2>1, <2>2, <2>3
<1>10. "?" \notin Q /\ "&" \notin Q /\ "=" \notin Q
  BY <1>7, <1>9
<1>11. ASSUME NEW k \in 1..n PROVE Decoded(f[k]) = text[k]
  <2>1. CASE text[k] = " "
    BY <1>6, <2>1 DEF Decoded
  <2>2. CASE text[k] # " " /\ text[k] \in R
    <3>1. f[k] \in E /\ Escapes[f[k]] = text[k] /\ text[k] \in T
      BY <1>5, <1>6, <2>2
    <3>2. f[k] # "+" /\ Escapes[f[k]] \in Printable
      BY <1>2, <1>3, <3>1
    <3> QED BY <1>1, <3>1, <3>2, Zenon DEF Decoded
  <2>3. CASE text[k] # " " /\ text[k] \notin R
    <3>1. f[k] = text[k] /\ text[k] \in T
      BY <1>5, <1>6, <2>3
    <3>2. text[k] # "+" /\ text[k] \notin E
      BY <1>2, <2>3, <3>1
    <3> QED BY <1>1, <3>1, <3>2, Zenon DEF Decoded
  <2> QED BY <2>1, <2>2, <2>3
<1>12. URIDecode(f) = text
  <2>1. PICK P : P = Q \cup T
    OBVIOUS
  <2>2. Q \subseteq P /\ T \subseteq P
    BY <2>1
  <2>3. f \in Seq(P)
    BY <1>8, <2>2, SmallSeqs
  <2>4. text \in Seq(P)
    BY <1>2, <2>2, SmallSeqs
  <2>6. DecodesTo(f, text)
    BY <1>4, <1>8, <1>11 DEF DecodesTo
  <2> QED BY <2>3, <2>4, <2>6, DecodesToIs
<1>13. IsSeq(text)
  BY <1>2, Zenon DEF IsSeq
<1> QED BY <1>4, <1>8, <1>10, <1>12, <1>13, Zenon

\* What ProcessQueryRequest takes out of the URI is what was typed.
LEMMA ArgOfQuery ==
    ASSUME NEW text \in Typed
    PROVE  Arg(QueryURI(text), <<"terms">>) = text /\ ~IsStatic(QueryURI(text))
<1>1. PICK a, b, q, c, e : a = "/" /\ b = "query" /\ q = "?" /\ c = "terms" /\ e = "="
  OBVIOUS
<1>2. q \notin {a, b, c, e} /\ e \notin {a, b, q, c} /\ "&" \notin {a, b, q, c, e} /\ b # "static"
  BY <1>1
<1>3. PICK f, Q : f = FormEncode(text) /\ f \in Seq(Q) /\ q \notin Q /\ "&" \notin Q /\ e \notin Q
                  /\ URIDecode(f) = text
  BY <1>1, EncodedText
<1>4. PICK front, name, start, P :
         /\ front = <<a, b>> /\ name = <<c>> /\ start = <<a, b, q, c, e>> /\ P = Q \cup {a, b, c}
  OBVIOUS
<1>5. /\ front \in Seq(P) /\ name \in Seq(P) /\ f \in Seq(P) /\ q \notin P /\ e \notin P /\ "&" \notin P
  <2>1. Q \subseteq P /\ a \in P /\ b \in P /\ c \in P /\ q \notin P /\ e \notin P /\ "&" \notin P
    BY <1>2, <1>3, <1>4
  <2>2. f \in Seq(P)
    BY <1>3, <2>1, SmallSeqs
  <2> QED BY <1>4, <2>1, <2>2, TuplesType
<1>6. PICK rest, S : rest = Joined(name, e, f) /\ S = P \cup {e}
  OBVIOUS
<1>7. /\ rest \in Seq(S) /\ front \in Seq(S) /\ name \in Seq(S) /\ f \in Seq(S)
      /\ e \in S /\ q \notin S /\ "&" \notin S
  <2>1. P \subseteq S /\ e \in S /\ q \notin S /\ "&" \notin S
    BY <1>2, <1>5, <1>6
  <2>2. name \in Seq(S)
    BY <1>5, <2>1, SmallSeqs
  <2>3. f \in Seq(S)
    BY <1>5, <2>1, SmallSeqs
  <2>4. front \in Seq(S)
    BY <1>5, <2>1, SmallSeqs
  <2>5. rest \in Seq(S)
    <3>1. <<e>> \in Seq(S)
      BY <2>1, TuplesType
    <3>2. PICK n : n = name \o <<e>> /\ n \in Seq(S)
      BY <2>2, <3>1, ConcatProperties
    <3>3. n \o f \in Seq(S)
      BY <2>3, <3>2, ConcatProperties
    <3> QED BY <1>6, <3>2, <3>3 DEF Joined
  <2> QED BY <2>1, <2>2, <2>3, <2>4, <2>5
<1>8. PICK u : u = Joined(front, q, rest)
  OBVIOUS
<1>9. QueryURI(text) = start \o f
  BY <1>1, <1>3, <1>4, Zenon DEF QueryURI
<1>10. PICK W : W = S \cup {q}
  OBVIOUS
<1>11. u = start \o f /\ start \in Seq(W) /\ f \in Seq(W)
  <2>1. S \subseteq W /\ q \in W /\ a \in W /\ b \in W /\ c \in W /\ e \in W
    BY <1>4, <1>6, <1>10
  <2>2. PICK abq, ce : abq = <<a, b, q>> /\ ce = <<c, e>>
    OBVIOUS
  <2>3. abq \in Seq(W) /\ ce \in Seq(W)
    BY <2>1, <2>2, TuplesType
  <2>4. f \in Seq(W)
    BY <1>7, <2>1, SmallSeqs
  <2>5. front \o <<q>> = abq /\ name \o <<e>> = ce
    BY <1>4, <2>2, Triple, Pair
  <2>6. u = abq \o (ce \o f)
    BY <1>6, <1>8, <2>5, Zenon DEF Joined
  <2>7. Associates(abq, ce, f)
    BY <2>3, <2>4, Association
  <2>8. abq \o ce = start
    BY <1>4, <2>2, Quintuple
  <2>9. start \in Seq(W)
    BY <2>3, <2>8, ConcatProperties
  <2> QED BY <2>4, <2>6, <2>7, <2>8, <2>9, Zenon DEF Associates
<1>12. HasOneArg(u, name, front, rest, name, f)
  <2>0. PICK never : never = FALSE
    OBVIOUS
  <2>t. Tok(Joined(front, q, rest), q, never) = <<front, rest>>
    BY <1>7, TwoTokens
  <2>1. Tok(u, q, FALSE) = <<front, rest>>
    BY <1>8, <2>0, <2>t
  <2>2. Tok(rest, "&", FALSE) = <<rest>>
    <3>1. PICK amp : amp = "&"
      OBVIOUS
    <3>2. Tok(rest, amp, FALSE) = <<rest>>
      BY <1>7, <3>1, TokPlain
    <3> QED BY <3>1, <3>2
  <2>s. Tok(Joined(name, e, f), e, never) = <<name, f>>
    BY <1>5, TwoTokens
  <2>3. Tok(rest, e, FALSE) = <<name, f>>
    BY <1>6, <2>0, <2>s
  <2>4. URIDecode(name) = name
    <3>1. c \notin DOMAIN Escapes /\ c # "+"
      BY <1>1, EscapesAssumption
    <3>2. Decoded(c) = c
      BY <3>1 DEF Decoded
    <3>3. Len(name) = 1 /\ name[1] = c
      BY <1>4
    <3>4. DecodesTo(name, name)
      BY <3>2, <3>3 DEF DecodesTo
    <3> QED BY <1>5, <3>4, DecodesToIs
  <2> QED BY <1>1, <2>1, <2>2, <2>3, <2>4, SplitsAre, Zenon DEF HasOneArg
<1>13. Arg(u, name) = text
  BY <1>3, <1>12, OneArg
<1>14. ~IsStatic(u)
  <2>1. PICK st : st = <<"/", "static", "/">>
    OBVIOUS
  <2>2. PICK d : d = "static" /\ st = <<a, d, a>> /\ d # b
    BY <1>1, <1>2, <2>1
  <2>3. PICK V : V = W \cup {a, d}
    OBVIOUS
  <2>4. st \in Seq(V) /\ Len(st) = 3 /\ st[2] = d
    BY <2>2, <2>3
  <2>5. u \in Seq(V)
    <3>1. start \o f \in Seq(W)
      BY <1>11, ConcatProperties
    <3>2. W \subseteq V
      BY <2>3
    <3> QED BY <1>11, <3>1, <3>2, SmallSeqs
  <2>6. u[2] = b
    <3>1. /\ Len(start \o f) = Len(start) + Len(f)
          /\ \A i \in 1..(Len(start) + Len(f)) : (start \o f)[i] =
                IF i <= Len(start) THEN start[i] ELSE f[i - Len(start)]
      BY <1>11, ConcatProperties
    <3>2. Len(start) = 5 /\ start[2] = b
      BY <1>4
    <3>3. Len(f) \in Nat
      BY <1>11
    <3> QED BY <1>11, <3>1, <3>2, <3>3
  <2>7. ~Seqs!IsPrefix(st, u)
    <3>1. Seqs!IsPrefix(st, u) => \A k \in 1..Len(st) : st[k] = u[k]
      BY <2>4, <2>5, PrefixIs
    <3>2. 2 \in 1..Len(st) /\ st[2] # u[2]
      BY <2>2, <2>4, <2>6
    <3> QED BY <3>1, <3>2
  <2> QED BY <2>1, <2>7, Zenon DEF IsStatic
<1> QED BY <1>1, <1>4, <1>9, <1>11, <1>13, <1>14, Zenon

-----------------------------------------------------------------------------
(***************************************************************************)
(* EscapeHtml.                                                             *)
(***************************************************************************)
Flattens(seqs, f) == f = [i \in 1..Len(seqs) |-> IF i = 1 THEN seqs[i] ELSE f[i - 1] \o seqs[i]]

LEMMA FlattensExists ==
    ASSUME NEW P, NEW X \in Seq(Seq(P))
    PROVE  \E f : Flattens(X, f)
<1>1. PICK N, V : N = Len(X) /\ V = Seq(P)
  OBVIOUS
<1>2. N \in Nat /\ (\A i \in 1..N : X[i] \in V) /\ <<>> \in V /\ \A r, s \in V : r \o s \in V
  BY <1>1, EmptySeq, ConcatProperties
<1> DEFINE G == [n \in 1..N |-> [r \in V |-> r \o X[n]]]
<1>3. Steps(G, N, V)
  BY <1>2 DEF Steps
<1>4. PICK g : Takes(g, N, V, <<>>, G)
  <2> HIDE DEF G
  <2> QED BY <1>2, <1>3, Recursion
<1>5. g \in [0..N -> V] /\ g[0] = <<>> /\ \A n \in 1..N : g[n] = G[n][g[n - 1]]
  BY <1>4 DEF Takes
<1>6. ASSUME NEW n \in 1..N PROVE g[n] = g[n - 1] \o X[n] /\ g[n - 1] \in V
  <2>1. n - 1 \in 0..N
    BY <1>2
  <2>2. g[n - 1] \in V
    BY <1>5, <2>1
  <2> QED BY <1>5, <2>2
<1> HIDE DEF G
<1>7. PICK f : f = [n \in 1..N |-> g[n]]
  OBVIOUS
<1>8. ASSUME NEW i \in 1..N PROVE f[i] = IF i = 1 THEN X[i] ELSE f[i - 1] \o X[i]
  <2>1. CASE i = 1
    <3>1. g[1] = <<>> \o X[1]
      <4>1. PICK m : m = i - 1
        OBVIOUS
      <4>2. g[i] = g[m] \o X[i]
        BY <1>6, <4>1
      <4>3. m = 0
        BY <2>1, <4>1
      <4> QED BY <1>5, <2>1, <4>2, <4>3
    <3>2. X[1] \in Seq(P)
      BY <1>1, <1>2, <2>1
    <3>3. <<>> \o X[1] = X[1]
      BY <3>2, ConcatEmptySeq
    <3> QED BY <1>7, <2>1, <3>1, <3>3
  <2>2. CASE i # 1
    <3>1. i - 1 \in 1..N
      BY <1>2, <2>2
    <3>2. f[i] = g[i] /\ f[i - 1] = g[i - 1]
      BY <1>7, <3>1
    <3> QED BY <1>6, <2>2, <3>2
  <2> QED BY <2>1, <2>2
<1>9. f = [i \in 1..N |-> IF i = 1 THEN X[i] ELSE f[i - 1] \o X[i]]
  <2>1. f = [i \in 1..N |-> f[i]]
    BY <1>7
  <2> QED BY <1>8, <2>1
<1>10. Flattens(X, f)
  BY <1>1, <1>9 DEF Flattens
<1> QED BY <1>10

LEMMA FlatIs ==
    ASSUME NEW P, NEW X \in Seq(Seq(P))
    PROVE  /\ X = <<>> => Seqs!FlattenSeq(X) = <<>>
           /\ X # <<>> => \E f : Flattens(X, f) /\ Seqs!FlattenSeq(X) = f[Len(X)]
<1>1. CASE X = <<>>
  <2>1. PICK Y : Y = X /\ Len(Y) = 0 /\ Y = <<>>
    BY <1>1, EmptySeq
  <2> QED BY <1>1, <2>1, Zenon DEF Seqs!FlattenSeq
<1>2. CASE X # <<>>
  <2>1. Len(X) # 0
    BY <1>2, EmptySeq
  <2>2. PICK T : T = CHOOSE f : Flattens(X, f)
    OBVIOUS
  <2>3. Flattens(X, T)
    BY <2>2, FlattensExists, Zenon
  <2>4. Seqs!FlattenSeq(X) = T[Len(X)]
    BY <2>1, <2>2, Zenon DEF Seqs!FlattenSeq, Flattens
  <2> QED BY <1>2, <2>3, <2>4
<1> QED BY <1>1, <1>2

\* The flattening of some of the sequences is known from that of all of them.
LEMMA FlattensPart ==
    ASSUME NEW P, NEW X \in Seq(Seq(P)), NEW Y \in Seq(Seq(P)), NEW f, Flattens(X, f), NEW h, Flattens(Y, h),
           Len(X) <= Len(Y), \A k \in 1..Len(X) : X[k] = Y[k]
    PROVE  \A n \in 1..Len(X) : f[n] = h[n] /\ f[n] \in Seq(P)
<1>1. PICK M, N : M = Len(X) /\ N = Len(Y)
  OBVIOUS
<1>2. M \in Nat /\ N \in Nat /\ M <= N /\ \A k \in 1..M : X[k] = Y[k] /\ X[k] \in Seq(P)
  BY <1>1
<1>3. /\ \A i \in 1..M : f[i] = IF i = 1 THEN X[i] ELSE f[i - 1] \o X[i]
      /\ \A i \in 1..N : h[i] = IF i = 1 THEN Y[i] ELSE h[i - 1] \o Y[i]
  BY <1>1 DEF Flattens
<1> DEFINE S == {n \in 0..M : n = 0 \/ (f[n] = h[n] /\ f[n] \in Seq(P))}
<1>4. 0 \in S
  BY <1>2
<1>5. ASSUME NEW n \in 1..M, n - 1 \in S PROVE n \in S
  <2>1. n \in 1..N /\ X[n] = Y[n] /\ X[n] \in Seq(P) /\ n \in 0..M
    BY <1>2
  <2>2. CASE n = 1
    BY <1>3, <2>1, <2>2
  <2>3. CASE n # 1
    <3>1. f[n - 1] = h[n - 1] /\ f[n - 1] \in Seq(P)
      BY <1>5, <2>3
    <3>2. f[n] = f[n - 1] \o X[n] /\ h[n] = h[n - 1] \o Y[n]
      BY <1>3, <2>1, <2>3
    <3>3. f[n - 1] \o X[n] \in Seq(P)
      BY <2>1, <3>1, ConcatProperties
    <3> QED BY <2>1, <3>1, <3>2, <3>3
  <2> QED BY <2>2, <2>3
<1>6. 0..M \subseteq S
  <2> HIDE DEF S
  <2> QED BY <1>2, <1>4, <1>5, InductionTo
<1>7. ASSUME NEW n \in 1..M PROVE f[n] = h[n] /\ f[n] \in Seq(P)
  <2>1. n \in 0..M /\ n # 0
    BY <1>2
  <2>2. n \in S
    BY <1>6, <2>1
  <2> QED BY <2>1, <2>2
<1> QED BY <1>1, <1>7

LEMMA FlatType ==
    ASSUME NEW P, NEW X \in Seq(Seq(P))
    PROVE  Seqs!FlattenSeq(X) \in Seq(P)
<1>1. CASE X = <<>>
  BY <1>1, FlatIs, EmptySeq
<1>2. CASE X # <<>>
  <2>1. PICK f : Flattens(X, f) /\ Seqs!FlattenSeq(X) = f[Len(X)]
    BY <1>2, FlatIs
  <2>2. Len(X) \in 1..Len(X)
    BY <1>2, EmptySeq
  <2>3. Len(X) <= Len(X)
    OBVIOUS
  <2>4. \A n \in 1..Len(X) : f[n] = f[n] /\ f[n] \in Seq(P)
    BY <2>1, <2>3, FlattensPart
  <2> QED BY <2>1, <2>2, <2>4
<1> QED BY <1>1, <1>2

LEMMA FlatAppend ==
    ASSUME NEW P, NEW X \in Seq(Seq(P)), NEW x \in Seq(P)
    PROVE  Seqs!FlattenSeq(Append(X, x)) = Seqs!FlattenSeq(X) \o x
<1>1. PICK Y, N : Y = Append(X, x) /\ N = Len(X)
  OBVIOUS
<1>2. N \in Nat /\ Y \in Seq(Seq(P)) /\ Len(Y) = N + 1 /\ Y[N + 1] = x /\ Y # <<>> /\ \A k \in 1..N : X[k] = Y[k]
  BY <1>1, EmptySeq
<1>3. PICK h : Flattens(Y, h) /\ Seqs!FlattenSeq(Y) = h[N + 1]
  BY <1>2, FlatIs
<1>4. \A i \in 1..(N + 1) : h[i] = IF i = 1 THEN Y[i] ELSE h[i - 1] \o Y[i]
  BY <1>2, <1>3 DEF Flattens
<1>5. CASE X = <<>>
  <2>1. N = 0
    BY <1>1, <1>5, EmptySeq
  <2>2. h[1] = x
    BY <1>2, <1>4, <2>1
  <2>3. Seqs!FlattenSeq(X) = <<>>
    BY <1>5, FlatIs
  <2>4. <<>> \o x = x
    BY ConcatEmptySeq
  <2>5. N + 1 = 1
    BY <2>1
  <2> QED BY <1>1, <1>3, <2>2, <2>3, <2>4, <2>5
<1>6. CASE X # <<>>
  <2>1. N # 0 /\ N \in 1..N
    BY <1>1, <1>2, <1>6, EmptySeq
  <2>2. PICK f : Flattens(X, f) /\ Seqs!FlattenSeq(X) = f[N]
    BY <1>1, <1>6, FlatIs
  <2>3. f[N] = h[N]
    <3>1. Len(X) <= Len(Y)
      BY <1>1, <1>2
    <3>2. \A n \in 1..Len(X) : f[n] = h[n] /\ f[n] \in Seq(P)
      BY <1>1, <1>2, <1>3, <2>2, <3>1, FlattensPart
    <3> QED BY <1>1, <2>1, <3>2
  <2>4. N + 1 \in 1..(N + 1) /\ N + 1 # 1 /\ (N + 1) - 1 = N
    BY <1>2, <2>1
  <2>5. h[N + 1] = h[N] \o x
    BY <1>2, <1>4, <2>4
  <2> QED BY <1>1, <1>3, <2>2, <2>3, <2>5
<1> QED BY <1>5, <1>6

\* Every piece replaced by a string.
Subst(s, g) == Seqs!FlattenSeq([k \in DOMAIN s |-> g[s[k]]])

Substitutes(g, P) == DOMAIN g = P /\ \A p \in P : g[p] \in Seq(P)

LEMMA SubstParts ==
    ASSUME NEW P, NEW g, Substitutes(g, P), NEW s \in Seq(P)
    PROVE  [k \in DOMAIN s |-> g[s[k]]] \in Seq(Seq(P))
<1>1. PICK n : n = Len(s)
  OBVIOUS
<1>2. n \in Nat /\ DOMAIN s = 1..n /\ \A k \in 1..n : s[k] \in P
  BY <1>1
<1>3. PICK X : X = [k \in 1..n |-> g[s[k]]]
  OBVIOUS
<1>4. DOMAIN X = 1..n /\ X = [k \in 1..n |-> X[k]]
  BY <1>3
<1>5. \A k \in 1..n : X[k] \in Seq(P)
  BY <1>2, <1>3 DEF Substitutes
<1>6. X \in Seq(Seq(P))
  BY <1>2, <1>4, <1>5, Mapped
<1> QED BY <1>2, <1>3, <1>6, Zenon

LEMMA SubstType ==
    ASSUME NEW P, NEW g, Substitutes(g, P), NEW s \in Seq(P)
    PROVE  Subst(s, g) \in Seq(P)
<1>1. PICK X : X = [k \in DOMAIN s |-> g[s[k]]]
  OBVIOUS
<1>2. X \in Seq(Seq(P))
  BY <1>1, SubstParts
<1>3. Seqs!FlattenSeq(X) \in Seq(P)
  BY <1>2, FlatType
<1> QED BY <1>1, <1>3 DEF Subst

LEMMA SubstEmpty ==
    ASSUME NEW g
    PROVE  Subst(<<>>, g) = <<>>
<1>1. PICK e : e = <<>>
  OBVIOUS
<1>2. PICK X : X = [k \in DOMAIN e |-> g[e[k]]]
  OBVIOUS
<1>3. X = <<>>
  BY <1>1, <1>2
<1>4. <<>> \in Seq(Seq({}))
  BY EmptySeq
<1>5. Seqs!FlattenSeq(X) = <<>>
  BY <1>3, <1>4, FlatIs
<1> QED BY <1>1, <1>2, <1>5, Zenon DEF Subst

LEMMA SubstAppend ==
    ASSUME NEW P, NEW g, Substitutes(g, P), NEW s \in Seq(P), NEW p \in P
    PROVE  Subst(Append(s, p), g) = Subst(s, g) \o g[p]
<1>1. PICK t, n : t = Append(s, p) /\ n = Len(s)
  OBVIOUS
<1>2. /\ n \in Nat /\ t \in Seq(P) /\ DOMAIN s = 1..n /\ DOMAIN t = 1..(n + 1)
      /\ t[n + 1] = p /\ \A k \in 1..n : t[k] = s[k]
  BY <1>1
<1>3. PICK X, Y : X = [k \in DOMAIN s |-> g[s[k]]] /\ Y = [k \in DOMAIN t |-> g[t[k]]]
  OBVIOUS
<1>4. X \in Seq(Seq(P))
  BY <1>3, SubstParts
<1>5. Y \in Seq(Seq(P))
  BY <1>2, <1>3, SubstParts
<1>6. g[p] \in Seq(P)
  BY DEF Substitutes
<1>7. PICK x, Z : x = g[p] /\ Z = Append(X, x)
  OBVIOUS
<1>8. DOMAIN X = 1..n /\ \A k \in 1..n : X[k] = g[s[k]]
  BY <1>2, <1>3
<1>9. DOMAIN Y = 1..(n + 1) /\ \A k \in 1..(n + 1) : Y[k] = g[t[k]]
  BY <1>2, <1>3
<1>10. Len(X) = n /\ Len(Y) = n + 1
  <2>1. n + 1 \in Nat
    BY <1>2
  <2>2. Len(X) \in Nat /\ DOMAIN X = 1..Len(X)
    BY <1>4
  <2>3. Len(Y) \in Nat /\ DOMAIN Y = 1..Len(Y)
    BY <1>5
  <2> QED BY <1>2, <1>8, <1>9, <2>1, <2>2, <2>3
<1>11. Z \in Seq(Seq(P)) /\ Len(Z) = n + 1 /\ Z[n + 1] = x /\ \A k \in 1..n : Z[k] = X[k]
  BY <1>4, <1>6, <1>7, <1>10
<1>12. ASSUME NEW k \in 1..(n + 1) PROVE Y[k] = Z[k]
  <2>1. CASE k = n + 1
    BY <1>2, <1>7, <1>9, <1>11, <2>1
  <2>2. CASE k # n + 1
    <3>1. k \in 1..n
      BY <1>2, <2>2
    <3>2. t[k] = s[k]
      BY <1>2, <3>1, Zenon
    <3>3. Y[k] = g[t[k]]
      BY <1>9, Zenon
    <3>4. X[k] = g[s[k]] /\ Z[k] = X[k]
      BY <1>8, <1>11, <3>1, Zenon
    <3> QED BY <3>2, <3>3, <3>4, Zenon
  <2> QED BY <2>1, <2>2
<1>13. Y = Z
  BY <1>5, <1>10, <1>11, <1>12, SeqEqual
<1>14. Seqs!FlattenSeq(Append(X, x)) = Seqs!FlattenSeq(X) \o x
  BY <1>4, <1>6, <1>7, FlatAppend
<1> QED BY <1>1, <1>3, <1>7, <1>13, <1>14, Zenon DEF Subst

LEMMA SubstOne ==
    ASSUME NEW P, NEW g, Substitutes(g, P), NEW p \in P
    PROVE  Subst(<<p>>, g) = g[p]
<1>1. PICK e : e = <<>> /\ e \in Seq(P)
  BY EmptySeq
<1>2. Append(e, p) = <<p>>
  <2>1. PICK a, b : a = Append(e, p) /\ b = <<p>>
    OBVIOUS
  <2>2. a \in Seq(P) /\ Len(a) = 1 /\ a[1] = p
    BY <1>1, <2>1, EmptySeq
  <2>3. b \in Seq(P) /\ Len(b) = 1 /\ b[1] = p
    BY <2>1
  <2>4. a = b
    BY <2>2, <2>3, SeqEqual
  <2> QED BY <2>1, <2>4
<1>3. Subst(Append(e, p), g) = Subst(e, g) \o g[p]
  BY <1>1, SubstAppend
<1>4. Subst(e, g) = <<>>
  BY <1>1, SubstEmpty
<1>5. <<>> \o g[p] = g[p]
  <2>1. g[p] \in Seq(P)
    BY DEF Substitutes
  <2> QED BY <2>1, ConcatEmptySeq
<1> QED BY <1>2, <1>3, <1>4, <1>5

LEMMA SubstJoined ==
    ASSUME NEW P, NEW g, Substitutes(g, P), NEW a \in Seq(P), NEW b \in Seq(P)
    PROVE  Subst(a \o b, g) = Subst(a, g) \o Subst(b, g)
<1> DEFINE S == {r \in Seq(P) : Subst(a \o r, g) = Subst(a, g) \o Subst(r, g)}
<1>1. <<>> \in S
  <2>1. PICK e : e = <<>> /\ e \in Seq(P)
    BY EmptySeq
  <2>2. a \o e = a /\ Subst(e, g) = <<>>
    BY <2>1, ConcatEmptySeq, SubstEmpty
  <2>3. Subst(a, g) \o e = Subst(a, g)
    <3>1. Subst(a, g) \in Seq(P)
      BY SubstType
    <3> QED BY <2>1, <3>1, ConcatEmptySeq
  <2> QED BY <2>1, <2>2, <2>3
<1>2. ASSUME NEW r \in Seq(P), NEW p \in P, r \in S PROVE Append(r, p) \in S
  <2>1. Subst(a \o r, g) = Subst(a, g) \o Subst(r, g)
    BY <1>2
  <2>2. a \o Append(r, p) = Append(a \o r, p) /\ a \o r \in Seq(P)
    BY ConcatAppend, ConcatProperties
  <2>3. Subst(Append(a \o r, p), g) = Subst(a \o r, g) \o g[p]
    <3>1. PICK ar : ar = a \o r /\ ar \in Seq(P)
      BY <2>2
    <3>2. Subst(Append(ar, p), g) = Subst(ar, g) \o g[p]
      BY <3>1, SubstAppend
    <3> QED BY <3>1, <3>2
  <2>4. Subst(Append(r, p), g) = Subst(r, g) \o g[p]
    BY SubstAppend
  <2>5. PICK A, R, x : A = Subst(a, g) /\ R = Subst(r, g) /\ x = g[p]
    OBVIOUS
  <2>6. A \in Seq(P) /\ R \in Seq(P) /\ x \in Seq(P)
    <3>1. A \in Seq(P)
      BY <2>5, SubstType
    <3>2. R \in Seq(P)
      BY <2>5, SubstType
    <3>3. x \in Seq(P)
      BY <2>5 DEF Substitutes
    <3> QED BY <3>1, <3>2, <3>3
  <2>7. (A \o R) \o x = A \o (R \o x)
    <3>1. Associates(A, R, x)
      BY <2>6, Association
    <3> QED BY <3>1, Zenon DEF Associates
  <2>8. Subst(a \o Append(r, p), g) = Subst(a, g) \o Subst(Append(r, p), g)
    BY <2>1, <2>2, <2>3, <2>4, <2>5, <2>7, Zenon
  <2>9. Append(r, p) \in Seq(P)
    OBVIOUS
  <2> QED BY <2>8, <2>9
<1>3. b \in S
  <2> HIDE DEF S
  <2>1. Seq(P) \subseteq S
    BY <1>1, <1>2, SeqInduction
  <2> QED BY <2>1
<1> QED BY <1>3

\* One substitution after the other is a third.
LEMMA SubstTwice ==
    ASSUME NEW P, NEW g, Substitutes(g, P), NEW h, Substitutes(h, P), NEW f, Substitutes(f, P),
           \A p \in P : f[p] = Subst(g[p], h), NEW s \in Seq(P)
    PROVE  Subst(Subst(s, g), h) = Subst(s, f)
<1> DEFINE S == {r \in Seq(P) : Subst(Subst(r, g), h) = Subst(r, f)}
<1>1. <<>> \in S
  <2>1. PICK e : e = <<>> /\ e \in Seq(P)
    BY EmptySeq
  <2>2. Subst(e, g) = e /\ Subst(e, h) = e /\ Subst(e, f) = e
    BY <2>1, SubstEmpty
  <2> QED BY <2>1, <2>2
<1>2. ASSUME NEW r \in Seq(P), NEW p \in P, r \in S PROVE Append(r, p) \in S
  <2>1. Subst(Subst(r, g), h) = Subst(r, f)
    BY <1>2
  <2>2. PICK R, x : R = Subst(r, g) /\ x = g[p]
    OBVIOUS
  <2>3. R \in Seq(P) /\ x \in Seq(P)
    <3>1. R \in Seq(P)
      BY <2>2, SubstType
    <3>2. x \in Seq(P)
      BY <2>2 DEF Substitutes
    <3> QED BY <3>1, <3>2
  <2>4. Subst(Append(r, p), g) = R \o x
    BY <2>2, SubstAppend
  <2>5. Subst(R \o x, h) = Subst(R, h) \o Subst(x, h)
    BY <2>3, SubstJoined
  <2>6. Subst(x, h) = f[p]
    BY <2>2
  <2>7. Subst(Append(r, p), f) = Subst(r, f) \o f[p]
    BY SubstAppend
  <2>8. Append(r, p) \in Seq(P)
    OBVIOUS
  <2> QED BY <2>1, <2>2, <2>4, <2>5, <2>6, <2>7, <2>8
<1>3. s \in S
  <2> HIDE DEF S
  <2>1. Seq(P) \subseteq S
    BY <1>1, <1>2, SeqInduction
  <2> QED BY <2>1
<1> QED BY <1>3

\* A substitution that leaves all pieces of a string alone.
LEMMA SubstNone ==
    ASSUME NEW P, NEW h, Substitutes(h, P), NEW Q, Q \subseteq P, \A q \in Q : h[q] = <<q>>, NEW s \in Seq(Q)
    PROVE  Subst(s, h) = s
<1> DEFINE S == {r \in Seq(Q) : Subst(r, h) = r}
<1>1. <<>> \in S
  <2>1. PICK e : e = <<>> /\ e \in Seq(Q)
    BY EmptySeq
  <2>2. Subst(e, h) = e
    BY <2>1, SubstEmpty
  <2> QED BY <2>1, <2>2
<1>2. ASSUME NEW r \in Seq(Q), NEW p \in Q, r \in S PROVE Append(r, p) \in S
  <2>1. r \in Seq(P) /\ p \in P
    BY SmallSeqs
  <2>2. Subst(Append(r, p), h) = Subst(r, h) \o h[p]
    BY <2>1, SubstAppend
  <2>3. Subst(r, h) = r /\ h[p] = <<p>>
    BY <1>2
  <2>4. r \o <<p>> = Append(r, p)
    OBVIOUS
  <2>5. Append(r, p) \in Seq(Q)
    OBVIOUS
  <2> QED BY <2>2, <2>3, <2>4, <2>5
<1>3. s \in S
  <2> HIDE DEF S
  <2>1. Seq(Q) \subseteq S
    BY <1>1, <1>2, SeqInduction
  <2> QED BY <2>1
<1> QED BY <1>3

Shown(p) == IF p \in DOMAIN Entity THEN Entity[p] ELSE <<p>>

\* The pieces that escaping may meet.
Escapable(P) == DOMAIN Entity \subseteq P /\ \A p \in DOMAIN Entity : Entity[p] \in Seq(P)

\* What the first n entities have replaced, and what the n-th does.
EscapedBy(n, p) == IF \E j \in 1..n : Entities[j] = p THEN Entity[p] ELSE <<p>>
AfterEntities(n, P) == [p \in P |-> EscapedBy(n, p)]
OneEntity(q, P) == [p \in P |-> IF p = q THEN Entity[q] ELSE <<p>>]

LEMMA EntitiesAre ==
    /\ Len(Entities) \in Nat /\ \A j \in 1..Len(Entities) : Entities[j] \in DOMAIN Entity
    /\ \A p : p \in DOMAIN Entity <=> \E j \in 1..Len(Entities) : Entities[j] = p
    /\ \A j, k \in 1..Len(Entities) : j < k => Entities[j] # Entities[k]
    /\ \A p \in DOMAIN Entity : \E Q : Entity[p] \in Seq(Q)
                                /\ \A j, k \in 1..Len(Entities) : Entities[j] = p /\ j < k => Entities[k] \notin Q
<1>1. PICK N : N = Len(Entities)
  OBVIOUS
<1>2. Entities \in Seq(DOMAIN Entity) /\ DOMAIN Entity = {Entities[k] : k \in DOMAIN Entities}
  BY EntitiesAssumption
<1>3. N \in Nat /\ DOMAIN Entities = 1..N /\ \A j \in 1..N : Entities[j] \in DOMAIN Entity
  BY <1>1, <1>2
<1>4. \A j, k \in 1..N : j < k =>
          /\ Entities[j] # Entities[k]
          /\ \A m \in DOMAIN Entity[Entities[j]] : Entity[Entities[j]][m] # Entities[k]
  BY <1>3, EntitiesAssumption, Zenon
<1>5. ASSUME NEW p \in DOMAIN Entity
      PROVE  \E Q : Entity[p] \in Seq(Q) /\ \A j, k \in 1..N : Entities[j] = p /\ j < k => Entities[k] \notin Q
  <2>1. PICK Q : Q = {Entity[p][m] : m \in DOMAIN Entity[p]}
    OBVIOUS
  <2>2. Entity[p] \in Seq(Q)
    BY <2>1, EntitiesAssumption, Zenon
  <2>3. ASSUME NEW j \in 1..N, NEW k \in 1..N, Entities[j] = p, j < k PROVE Entities[k] \notin Q
    BY <1>4, <2>1, <2>3
  <2> QED BY <2>2, <2>3
<1>6. \A p : p \in DOMAIN Entity <=> \E j \in 1..N : Entities[j] = p
  BY <1>2, <1>3
<1> QED BY <1>1, <1>3, <1>4, <1>5, <1>6

LEMMA EntitiesSubstitute ==
    ASSUME NEW P, Escapable(P)
    PROVE  /\ \A n \in 0..Len(Entities) : Substitutes(AfterEntities(n, P), P)
           /\ \A q \in DOMAIN Entity : Substitutes(OneEntity(q, P), P)
<1>1. \A p \in P : <<p>> \in Seq(P)
  BY TuplesType
<1>2. \A p \in DOMAIN Entity : Entity[p] \in Seq(P)
  BY DEF Escapable
<1>3. ASSUME NEW n \in 0..Len(Entities) PROVE Substitutes(AfterEntities(n, P), P)
  <2>1. PICK g : g = AfterEntities(n, P)
    OBVIOUS
  <2>2. DOMAIN g = P /\ \A p \in P : g[p] = EscapedBy(n, p)
    BY <2>1 DEF AfterEntities
  <2>3. ASSUME NEW p \in P PROVE EscapedBy(n, p) \in Seq(P)
    <3>1. CASE \E j \in 1..n : Entities[j] = p
      <4>1. PICK j \in 1..n : Entities[j] = p
        BY <3>1
      <4>2. j \in 1..Len(Entities)
        BY EntitiesAre
      <4>3. p \in DOMAIN Entity
        BY <4>1, <4>2, EntitiesAre
      <4> QED BY <1>2, <3>1, <4>3 DEF EscapedBy
    <3>2. CASE ~(\E j \in 1..n : Entities[j] = p)
      BY <1>1, <3>2 DEF EscapedBy
    <3> QED BY <3>1, <3>2
  <2> QED BY <2>1, <2>2, <2>3 DEF Substitutes
<1>4. ASSUME NEW q \in DOMAIN Entity PROVE Substitutes(OneEntity(q, P), P)
  <2>1. PICK g : g = OneEntity(q, P)
    OBVIOUS
  <2>2. DOMAIN g = P /\ \A p \in P : g[p] = IF p = q THEN Entity[q] ELSE <<p>>
    BY <2>1 DEF OneEntity
  <2>3. \A p \in P : g[p] \in Seq(P)
    BY <1>1, <1>2, <2>2
  <2> QED BY <2>1, <2>2, <2>3 DEF Substitutes
<1> QED BY <1>3, <1>4

\* One more entity replaced.
LEMMA NextEntity ==
    ASSUME NEW P, Escapable(P), NEW n \in 1..Len(Entities), NEW p \in P
    PROVE  EscapedBy(n, p) = Subst(EscapedBy(n - 1, p), OneEntity(Entities[n], P))
<1>1. PICK q, h : q = Entities[n] /\ h = OneEntity(q, P)
  OBVIOUS
<1>2. Len(Entities) \in Nat /\ q \in DOMAIN Entity
  BY <1>1, EntitiesAre
<1>3. Substitutes(h, P) /\ \A r \in P : h[r] = IF r = q THEN Entity[q] ELSE <<r>>
  BY <1>1, <1>2, EntitiesSubstitute DEF OneEntity
<1>4. CASE \E j \in 1..(n - 1) : Entities[j] = p
  <2>1. PICK j \in 1..(n - 1) : Entities[j] = p
    BY <1>4
  <2>2. j \in 1..n /\ j \in 1..Len(Entities) /\ j < n
    BY <1>2
  <2>3. EscapedBy(n, p) = Entity[p] /\ EscapedBy(n - 1, p) = Entity[p]
    BY <2>1, <2>2 DEF EscapedBy
  <2>4. p \in DOMAIN Entity
    BY <2>1, <2>2, EntitiesAre
  <2>5. PICK Q : Entity[p] \in Seq(Q) /\ \A i, k \in 1..Len(Entities) : Entities[i] = p /\ i < k => Entities[k] \notin Q
    BY <2>4, EntitiesAre
  <2>6. q \notin Q
    BY <1>1, <2>1, <2>2, <2>5
  <2>7. PICK s, R : s = Entity[p] /\ R = Q \cap P
    OBVIOUS
  <2>8. s \in Seq(R)
    <3>1. s \in Seq(Q) /\ s \in Seq(P)
      BY <2>4, <2>5, <2>7 DEF Escapable
    <3>2. \A k \in 1..Len(s) : s[k] \in R
      BY <2>7, <3>1
    <3>3. Len(s) \in Nat /\ DOMAIN s = 1..Len(s) /\ s = [k \in 1..Len(s) |-> s[k]]
      BY <3>1
    <3>4. PICK m : m = Len(s)
      OBVIOUS
    <3>5. m \in Nat /\ DOMAIN s = 1..m /\ s = [k \in 1..m |-> s[k]] /\ \A k \in 1..m : s[k] \in R
      BY <3>2, <3>3, <3>4
    <3> QED BY <3>5, Mapped
  <2>9. R \subseteq P /\ \A r \in R : h[r] = <<r>>
    BY <1>3, <2>6, <2>7
  <2>10. Subst(s, h) = s
    BY <1>3, <2>8, <2>9, SubstNone
  <2> QED BY <1>1, <2>3, <2>7, <2>10
<1>5. CASE ~(\E j \in 1..(n - 1) : Entities[j] = p)
  <2>1. EscapedBy(n - 1, p) = <<p>>
    BY <1>5 DEF EscapedBy
  <2>2. Subst(<<p>>, h) = h[p]
    BY <1>3, SubstOne
  <2>3. (\E j \in 1..n : Entities[j] = p) <=> p = q
    <3>1. ASSUME NEW j \in 1..n, Entities[j] = p PROVE p = q
      <4>1. j \notin 1..(n - 1)
        BY <1>5, <3>1
      <4>2. j = n
        BY <1>2, <4>1
      <4> QED BY <1>1, <3>1, <4>2
    <3>2. n \in 1..n
      BY <1>2
    <3> QED BY <1>1, <3>1, <3>2
  <2>4. EscapedBy(n, p) = IF p = q THEN Entity[p] ELSE <<p>>
    BY <2>3, Zenon DEF EscapedBy
  <2> QED BY <1>1, <1>3, <2>1, <2>2, <2>4
<1> QED BY <1>4, <1>5

LEMMA ReplaceIs ==
    ASSUME NEW P, NEW s \in Seq(P), NEW q
    PROVE  Replace(s, q) = Subst(s, OneEntity(q, P))
<1>1. PICK h : h = OneEntity(q, P)
  OBVIOUS
<1>2. ASSUME NEW k \in DOMAIN s PROVE (IF s[k] = q THEN Entity[q] ELSE <<s[k]>>) = h[s[k]]
  <2>1. s[k] \in P
    OBVIOUS
  <2>2. \A r \in P : h[r] = IF r = q THEN Entity[q] ELSE <<r>>
    BY <1>1 DEF OneEntity
  <2> QED BY <2>1, <2>2
<1>3. [k \in DOMAIN s |-> IF s[k] = q THEN Entity[q] ELSE <<s[k]>>] = [k \in DOMAIN s |-> h[s[k]]]
  BY <1>2
<1> QED BY <1>1, <1>3, Zenon DEF Replace, Subst

Replaces(s, order, f) == f = [n \in 0..Len(order) |-> IF n = 0 THEN s ELSE Replace(f[n - 1], order[n])]

LEMMA EscapedIs ==
    ASSUME NEW P, Escapable(P), NEW s \in Seq(P)
    PROVE  EscapeHtml(s) = Seqs!FlattenSeq([k \in DOMAIN s |-> Shown(s[k])])
<1>1. PICK N : N = Len(Entities)
  OBVIOUS
<1>2. N \in Nat /\ \A n \in 1..N : Entities[n] \in DOMAIN Entity
  BY <1>1, EntitiesAre
<1> DEFINE Str(n) == Subst(s, AfterEntities(n, P))
<1>3. ASSUME NEW n \in 0..N PROVE Str(n) \in Seq(P)
  BY <1>1, EntitiesSubstitute, SubstType
<1>4. Str(0) = s
  <2>1. PICK h : h = AfterEntities(0, P)
    OBVIOUS
  <2>2. Substitutes(h, P)
    BY <1>1, <1>2, <2>1, EntitiesSubstitute
  <2>3. ASSUME NEW p \in P PROVE h[p] = <<p>>
    <3>1. h[p] = EscapedBy(0, p)
      BY <2>1 DEF AfterEntities
    <3>2. ~(\E j \in 1..0 : Entities[j] = p)
      OBVIOUS
    <3> QED BY <3>1, <3>2, Zenon DEF EscapedBy
  <2>4. P \subseteq P
    OBVIOUS
  <2>5. Subst(s, h) = s
    BY <2>2, <2>3, <2>4, SubstNone
  <2> QED BY <2>1, <2>5
<1>5. ASSUME NEW n \in 1..N PROVE Str(n) = Replace(Str(n - 1), Entities[n])
  <2>1. PICK m, q, g, h, f : m = n - 1 /\ q = Entities[n] /\ g = AfterEntities(m, P) /\ h = OneEntity(q, P)
                             /\ f = AfterEntities(n, P)
    OBVIOUS
  <2>2. m \in 0..N /\ n \in 0..N
    BY <1>2, <2>1
  <2>3. Substitutes(g, P) /\ Substitutes(f, P)
    BY <1>1, <2>1, <2>2, EntitiesSubstitute
  <2>4. Substitutes(h, P)
    BY <1>2, <2>1, EntitiesSubstitute
  <2>5. ASSUME NEW p \in P PROVE f[p] = Subst(g[p], h)
    <3>1. f[p] = EscapedBy(n, p) /\ g[p] = EscapedBy(m, p)
      BY <2>1 DEF AfterEntities
    <3>2. n \in 1..Len(Entities)
      BY <1>1
    <3>3. EscapedBy(n, p) = Subst(EscapedBy(n - 1, p), OneEntity(Entities[n], P))
      BY <3>2, NextEntity
    <3> QED BY <2>1, <3>1, <3>3
  <2>6. Subst(Subst(s, g), h) = Subst(s, f)
    BY <2>3, <2>4, <2>5, SubstTwice
  <2>7. PICK r : r = Subst(s, g) /\ r \in Seq(P)
    BY <2>3, SubstType
  <2>8. Replace(r, q) = Subst(r, h)
    BY <2>1, <2>7, ReplaceIs
  <2> QED BY <2>1, <2>6, <2>7, <2>8
<1>6. PICK f : f = [n \in 0..N |-> Str(n)]
  OBVIOUS
<1>7. Replaces(s, Entities, f)
  <2>1. ASSUME NEW n \in 0..N PROVE f[n] = IF n = 0 THEN s ELSE Replace(f[n - 1], Entities[n])
    <3>1. CASE n = 0
      BY <1>4, <1>6, <3>1
    <3>2. CASE n # 0
      <4>1. n \in 1..N /\ n - 1 \in 0..N
        BY <1>2, <3>2
      <4>2. f[n] = Str(n) /\ f[n - 1] = Str(n - 1)
        BY <1>6, <4>1
      <4>3. Str(n) = Replace(Str(n - 1), Entities[n])
        BY <1>5, <4>1
      <4> QED BY <3>2, <4>2, <4>3
    <3> QED BY <3>1, <3>2
  <2> HIDE DEF Str
  <2>2. f = [n \in 0..N |-> f[n]]
    BY <1>6
  <2> QED BY <1>1, <2>1, <2>2, Zenon DEF Replaces
<1> HIDE DEF Str
<1>8. PICK T : T = CHOOSE r : Replaces(s, Entities, r)
  OBVIOUS
<1>9. Replaces(s, Entities, T)
  BY <1>7, <1>8, Zenon
<1>10. EscapeHtml(s) = T[N]
  BY <1>1, <1>8, Zenon DEF EscapeHtml, ReplaceInOrder, Replaces
<1>11. \A n \in 0..N : T[n] = IF n = 0 THEN s ELSE Replace(T[n - 1], Entities[n])
  BY <1>1, <1>9 DEF Replaces
<1>12. T[N] = Str(N)
  <2> DEFINE S == {n \in 0..N : T[n] = Str(n)}
  <2>1. 0 \in S
    BY <1>2, <1>4, <1>11
  <2>2. ASSUME NEW n \in 1..N, n - 1 \in S PROVE n \in S
    <3>1. n \in 0..N /\ n # 0
      BY <1>2
    <3>2. T[n] = Replace(T[n - 1], Entities[n])
      BY <1>11, <3>1
    <3>3. T[n - 1] = Str(n - 1)
      BY <2>2
    <3>4. Str(n) = Replace(Str(n - 1), Entities[n])
      BY <1>5
    <3> QED BY <3>1, <3>2, <3>3, <3>4
  <2>3. N \in S
    <3> HIDE DEF S
    <3>1. 0..N \subseteq S
      BY <1>2, <2>1, <2>2, InductionTo
    <3> QED BY <1>2, <3>1
  <2> QED BY <2>3
<1>13. Str(N) = Seqs!FlattenSeq([k \in DOMAIN s |-> Shown(s[k])])
  <2>1. PICK h : h = AfterEntities(N, P)
    OBVIOUS
  <2>2. ASSUME NEW k \in DOMAIN s PROVE h[s[k]] = Shown(s[k])
    <3>1. s[k] \in P
      OBVIOUS
    <3>2. h[s[k]] = EscapedBy(N, s[k])
      BY <2>1, <3>1 DEF AfterEntities
    <3>3. s[k] \in DOMAIN Entity <=> \E j \in 1..N : Entities[j] = s[k]
      BY <1>1, EntitiesAre, Zenon
    <3> QED BY <3>2, <3>3, Zenon DEF EscapedBy, Shown
  <2>3. [k \in DOMAIN s |-> h[s[k]]] = [k \in DOMAIN s |-> Shown(s[k])]
    BY <2>2
  <2> QED BY <2>1, <2>3, Zenon DEF Str, Subst
<1> QED BY <1>10, <1>12, <1>13

-----------------------------------------------------------------------------
(***************************************************************************)
(* The words of a query.                                                   *)
(***************************************************************************)
Within(s, i, j) == i \in 1..(Len(s) + 1) /\ j \in 0..Len(s) /\ i <= j + 1

LEMMA CutIs ==
    ASSUME NEW P, NEW s \in Seq(P), NEW i \in Int, NEW j \in Int, Within(s, i, j)
    PROVE  /\ SubSeq(s, i, j) \in Seq(P) /\ Len(SubSeq(s, i, j)) = j - i + 1
           /\ \A k \in 1..(j - i + 1) : SubSeq(s, i, j)[k] = s[i + k - 1]
<1>1. PICK n : n = Len(s)
  OBVIOUS
<1>2. n \in Nat /\ (\A k \in 1..n : s[k] \in P) /\ i \in 1..(n + 1) /\ j \in 0..n /\ i <= j + 1
  BY <1>1 DEF Within
<1>3. \A k \in i..j : s[k] \in P
  BY <1>2
<1>4. i \in Int /\ j \in Int
  BY <1>2
<1>5. /\ SubSeq(s, i, j) \in Seq(P) /\ Len(SubSeq(s, i, j)) = IF i <= j THEN j - i + 1 ELSE 0
      /\ \A k \in 1..(j - i + 1) : SubSeq(s, i, j)[k] = s[i + k - 1]
  BY <1>3, <1>4, SubSeqProperties
<1>6. ~(i <= j) => j - i + 1 = 0
  BY <1>2
<1> QED BY <1>5, <1>6

Alike(s, t, i, j) == \A k \in i..j : s[k] = t[k]

LEMMA SameCut ==
    ASSUME NEW P, NEW s \in Seq(P), NEW t \in Seq(P),
            NEW i \in Int, NEW j \in Int, Within(s, i, j), Within(t, i, j),
           Alike(s, t, i, j)
    PROVE  SubSeq(s, i, j) = SubSeq(t, i, j)
<1>1. PICK a, b, n : a = SubSeq(s, i, j) /\ b = SubSeq(t, i, j) /\ n = j - i + 1
  OBVIOUS
<1>2. a \in Seq(P) /\ Len(a) = n /\ \A k \in 1..n : a[k] = s[i + k - 1]
  BY <1>1, CutIs
<1>3. b \in Seq(P) /\ Len(b) = n /\ \A k \in 1..n : b[k] = t[i + k - 1]
  BY <1>1, CutIs
<1>4. i \in Nat /\ j \in Nat
  BY DEF Within
<1>5. ASSUME NEW k \in 1..n PROVE a[k] = b[k]
  <2>1. i + k - 1 \in i..j
    BY <1>1, <1>4
  <2>2. s[i + k - 1] = t[i + k - 1]
    BY <2>1 DEF Alike
  <2> QED BY <1>2, <1>3, <2>2
<1>6. a = b
  BY <1>2, <1>3, <1>5, SeqEqual
<1> QED BY <1>1, <1>6

LEMMA CutAppend ==
    ASSUME NEW P, NEW r \in Seq(P), NEW p \in P, NEW i \in 1..(Len(r) + 1)
    PROVE  SubSeq(Append(r, p), i, Len(r) + 1) = Append(SubSeq(r, i, Len(r)), p)
<1>1. PICK n, t, a, b, c : /\ n = Len(r) /\ t = Append(r, p) /\ a = SubSeq(t, i, n + 1)
                           /\ b = SubSeq(r, i, n) /\ c = Append(b, p)
  OBVIOUS
<1>2. n \in Nat /\ t \in Seq(P) /\ Len(t) = n + 1 /\ t[n + 1] = p /\ \A k \in 1..n : t[k] = r[k]
  BY <1>1
<1>i. i \in Nat /\ 1 <= i /\ i <= n + 1
  BY <1>1
<1>n. PICK nn : nn = n + 1 /\ nn \in Nat
  BY <1>2
<1>3. Within(t, i, nn) /\ Within(r, i, n)
  <2>1. Within(t, i, nn)
    BY <1>2, <1>i, <1>n DEF Within
  <2>2. Within(r, i, n)
    BY <1>1, <1>2, <1>i DEF Within
  <2> QED BY <2>1, <2>2
<1>4. PICK m : m = n + 1 - i /\ m \in Nat
  BY <1>2, <1>i
<1>5. a \in Seq(P) /\ Len(a) = m + 1 /\ \A k \in 1..(m + 1) : a[k] = t[i + k - 1]
  <2>1. /\ SubSeq(t, i, nn) \in Seq(P) /\ Len(SubSeq(t, i, nn)) = nn - i + 1
        /\ \A k \in 1..(nn - i + 1) : SubSeq(t, i, nn)[k] = t[i + k - 1]
    <3>1. Within(t, i, nn)
      BY <1>3
    <3>2. t \in Seq(P) /\ i \in Int /\ nn \in Int
      BY <1>2, <1>i, <1>n
    <3>3. SubSeq(t, i, nn) \in Seq(P)
      BY <3>1, <3>2, CutIs
    <3>4. Len(SubSeq(t, i, nn)) = nn - i + 1
      BY <3>1, <3>2, CutIs
    <3>5. \A k \in 1..(nn - i + 1) : SubSeq(t, i, nn)[k] = t[i + k - 1]
      BY <3>1, <3>2, CutIs
    <3> QED BY <3>3, <3>4, <3>5
  <2>2. nn - i + 1 = m + 1
    BY <1>2, <1>i, <1>4, <1>n
  <2>3. a = SubSeq(t, i, nn)
    BY <1>1, <1>n
  <2> QED BY <2>1, <2>2, <2>3
<1>6. b \in Seq(P) /\ Len(b) = m /\ \A k \in 1..m : b[k] = r[i + k - 1]
  <2>1. /\ SubSeq(r, i, n) \in Seq(P) /\ Len(SubSeq(r, i, n)) = n - i + 1
        /\ \A k \in 1..(n - i + 1) : SubSeq(r, i, n)[k] = r[i + k - 1]
    <3>1. i \in Int /\ n \in Int /\ Within(r, i, n)
      BY <1>2, <1>3, <1>i
    <3> QED BY <3>1, CutIs
  <2>2. n - i + 1 = m
    BY <1>2, <1>4, <1>i
  <2> QED BY <1>1, <2>1, <2>2
<1>7. c \in Seq(P) /\ Len(c) = m + 1 /\ c[m + 1] = p /\ \A k \in 1..m : c[k] = b[k]
  BY <1>1, <1>6
<1>8. ASSUME NEW k \in 1..(m + 1) PROVE a[k] = c[k]
  <2>1. CASE k = m + 1
    <3>1. i + k - 1 = n + 1
      BY <1>2, <1>4, <1>i, <2>1
    <3> QED BY <1>2, <1>5, <1>7, <2>1, <3>1
  <2>2. CASE k # m + 1
    <3>1. k \in 1..m /\ i + k - 1 \in 1..n
      <4>1. k \in 1..m
        BY <1>4, <2>2
      <4>2. 1 <= i + k - 1 /\ i + k - 1 <= n /\ i + k - 1 \in Int
        BY <1>2, <1>4, <1>i, <4>1
      <4> QED BY <1>2, <4>1, <4>2
    <3>2. a[k] = t[i + k - 1] /\ t[i + k - 1] = r[i + k - 1]
      BY <1>2, <1>5, <3>1
    <3>3. c[k] = b[k] /\ b[k] = r[i + k - 1]
      BY <1>6, <1>7, <3>1
    <3> QED BY <3>2, <3>3
  <2> QED BY <2>1, <2>2
<1>9. a = c
  BY <1>5, <1>7, <1>8, SeqEqual
<1> QED BY <1>1, <1>9

\* A word that starts at i, and one that starts there and ends at j, before the end of the string.
StartsAt(r, i, b) ==
    i \in 1..(Len(r) + 1) /\ (\A k \in i..Len(r) : r[k] # b) /\ (i = 1 \/ r[i - 1] = b)

EndsAt(r, i, j, b) ==
    /\ i \in 1..Len(r) /\ j \in 1..Len(r) /\ i <= j /\ j < Len(r)
    /\ \A k \in i..j : r[k] # b
    /\ i = 1 \/ r[i - 1] = b
    /\ r[j + 1] = b

\* A word that has come to an end, and a token that has.
Ended(r, w, b) == \E i, j \in 1..Len(r) : EndsAt(r, i, j, b) /\ w = SubSeq(r, i, j)
IsRead(T, w) == \E m \in 1..(Len(T) - 1) : T[m] = w

\* What the tokens of a string that does not start with a blank are.
WordsSoFar(r, T, b) ==
    /\ \E i \in 1..(Len(r) + 1) : StartsAt(r, i, b) /\ T[Len(T)] = SubSeq(r, i, Len(r))
    /\ \A w : IsRead(T, w) <=> Ended(r, w, b)

\* The words that have come to an end are still there when the string goes on.
LEMMA EndsStill ==
    ASSUME NEW P, NEW r \in Seq(P), NEW p \in P, NEW b, p # b \/ (r # <<>> /\ r[Len(r)] = b),
            NEW i \in Int, NEW j \in Int
    PROVE  EndsAt(Append(r, p), i, j, b) <=> EndsAt(r, i, j, b)
<1>1. PICK n, t : n = Len(r) /\ t = Append(r, p)
  OBVIOUS
<1>2. n \in Nat /\ t \in Seq(P) /\ Len(t) = n + 1 /\ t[n + 1] = p /\ \A k \in 1..n : t[k] = r[k]
  BY <1>1
<1>3. ASSUME EndsAt(r, i, j, b) PROVE EndsAt(t, i, j, b)
  <2>1. /\ i \in 1..n /\ j \in 1..n /\ i <= j /\ j < n /\ (\A k \in i..j : r[k] # b)
        /\ (i = 1 \/ r[i - 1] = b) /\ r[j + 1] = b
    BY <1>1, <1>3 DEF EndsAt
  <2>2. i \in 1..(n + 1) /\ j \in 1..(n + 1) /\ j < n + 1
    BY <1>2, <2>1
  <2>3. \A k \in i..j : t[k] = r[k] /\ t[k] # b
    BY <1>2, <2>1
  <2>4. i = 1 \/ t[i - 1] = b
    <3>1. i # 1 => i - 1 \in 1..n
      BY <1>2, <2>1
    <3> QED BY <1>2, <2>1, <3>1
  <2>5. t[j + 1] = b
    <3>1. j + 1 \in 1..n
      BY <1>2, <2>1
    <3> QED BY <1>2, <2>1, <3>1
  <2>6. EndsAt(t, i, j, b)
    BY <1>2, <2>1, <2>2, <2>3, <2>4, <2>5 DEF EndsAt
  <2> QED BY <2>6
<1>4. ASSUME EndsAt(t, i, j, b) PROVE EndsAt(r, i, j, b)
  <2>1. /\ i \in 1..(n + 1) /\ j \in 1..(n + 1) /\ i <= j /\ j < n + 1 /\ (\A k \in i..j : t[k] # b)
        /\ (i = 1 \/ t[i - 1] = b) /\ t[j + 1] = b
    BY <1>2, <1>4 DEF EndsAt
  <2>2. j \in 1..n /\ i \in 1..n
    BY <1>2, <2>1
  <2>3. j # n
    <3>1. CASE p # b
      BY <1>2, <2>1, <3>1
    <3>2. CASE r # <<>> /\ r[Len(r)] = b
      <4>1. j = n => t[j] = b /\ j \in i..j
        BY <1>1, <1>2, <2>1, <2>2, <3>2
      <4> QED BY <2>1, <4>1
    <3> QED BY <3>1, <3>2
  <2>4. j < n
    BY <1>2, <2>2, <2>3
  <2>5. \A k \in i..j : r[k] # b
    <3>1. \A k \in i..j : k \in 1..n
      BY <1>2, <2>1, <2>2
    <3> QED BY <1>2, <2>1, <3>1
  <2>6. i = 1 \/ r[i - 1] = b
    <3>1. i # 1 => i - 1 \in 1..n
      BY <1>2, <2>2
    <3> QED BY <1>2, <2>1, <3>1
  <2>7. r[j + 1] = b
    <3>1. j + 1 \in 1..n
      BY <1>2, <2>2, <2>4
    <3> QED BY <1>2, <2>1, <3>1
  <2> QED BY <1>1, <2>1, <2>2, <2>4, <2>5, <2>6, <2>7 DEF EndsAt
<1> QED BY <1>1, <1>3, <1>4

SameWord(s, t, i, j) == SubSeq(s, i, j) = SubSeq(t, i, j)

LEMMA EndsSame ==
    ASSUME NEW P, NEW r \in Seq(P), NEW p \in P, NEW b,
           NEW i \in Int, NEW j \in Int, EndsAt(r, i, j, b)
    PROVE  SameWord(Append(r, p), r, i, j)
<1>1. PICK n, t : n = Len(r) /\ t = Append(r, p)
  OBVIOUS
<1>2. n \in Nat /\ t \in Seq(P) /\ Len(t) = n + 1 /\ \A k \in 1..n : t[k] = r[k]
  BY <1>1
<1>3. i \in 1..n /\ j \in 1..n /\ i <= j
  BY <1>1 DEF EndsAt
<1>4. Within(r, i, j) /\ Within(t, i, j)
  BY <1>1, <1>2, <1>3 DEF Within
<1>5. Alike(t, r, i, j)
  <2>1. \A k \in i..j : k \in 1..n
    BY <1>2, <1>3
  <2> QED BY <1>2, <2>1 DEF Alike
<1>6. SubSeq(t, i, j) = SubSeq(r, i, j)
  BY <1>2, <1>4, <1>5, SameCut
<1> QED BY <1>1, <1>6 DEF SameWord

LEMMA EndedStill ==
    ASSUME NEW P, NEW r \in Seq(P), NEW p \in P, NEW b, p # b \/ (r # <<>> /\ r[Len(r)] = b), NEW w
    PROVE  Ended(Append(r, p), w, b) <=> Ended(r, w, b)
<1>1. PICK n, t : n = Len(r) /\ t = Append(r, p)
  OBVIOUS
<1>2. n \in Nat /\ Len(t) = n + 1
  BY <1>1
<1>3. ASSUME NEW i \in Int, NEW j \in Int
      PROVE  /\ EndsAt(t, i, j, b) <=> EndsAt(r, i, j, b)
             /\ EndsAt(r, i, j, b) => SubSeq(t, i, j) = SubSeq(r, i, j)
  <2>1. EndsAt(Append(r, p), i, j, b) <=> EndsAt(r, i, j, b)
    BY EndsStill
  <2>2. ASSUME EndsAt(r, i, j, b) PROVE SubSeq(t, i, j) = SubSeq(r, i, j)
    <3>1. SameWord(Append(r, p), r, i, j)
      BY <2>2, EndsSame
    <3> QED BY <1>1, <3>1 DEF SameWord
  <2> QED BY <1>1, <2>1, <2>2
<1>4. ASSUME Ended(r, w, b) PROVE Ended(t, w, b)
  <2>1. PICK i \in 1..n, j \in 1..n : EndsAt(r, i, j, b) /\ w = SubSeq(r, i, j)
    BY <1>1, <1>4 DEF Ended
  <2>2. i \in Int /\ j \in Int /\ i \in 1..(n + 1) /\ j \in 1..(n + 1)
    BY <1>2
  <2>3. EndsAt(t, i, j, b) /\ w = SubSeq(t, i, j)
    BY <1>3, <2>1, <2>2
  <2> QED BY <1>2, <2>2, <2>3 DEF Ended
<1>5. ASSUME Ended(t, w, b) PROVE Ended(r, w, b)
  <2>1. PICK i \in 1..(n + 1), j \in 1..(n + 1) : EndsAt(t, i, j, b) /\ w = SubSeq(t, i, j)
    BY <1>2, <1>5 DEF Ended
  <2>2. i \in Int /\ j \in Int
    BY <1>2
  <2>3. EndsAt(r, i, j, b) /\ w = SubSeq(r, i, j)
    BY <1>3, <2>1, <2>2
  <2>4. i \in 1..Len(r) /\ j \in 1..Len(r)
    BY <2>3 DEF EndsAt
  <2> QED BY <2>3, <2>4 DEF Ended
<1> QED BY <1>1, <1>4, <1>5

\* A string has one start of its last word.
LEMMA OneStart ==
    ASSUME NEW P, NEW r \in Seq(P), NEW b, NEW i \in Int, NEW k \in Int, StartsAt(r, i, b), StartsAt(r, k, b)
    PROVE  i = k
<1>1. PICK n : n = Len(r) /\ n \in Nat
  OBVIOUS
<1>2. ASSUME NEW x \in Int, NEW y \in Int, StartsAt(r, x, b), StartsAt(r, y, b) PROVE ~(x < y)
  <2>1. x \in 1..(n + 1) /\ (\A m \in x..n : r[m] # b)
    BY <1>1, <1>2 DEF StartsAt
  <2>2. y \in 1..(n + 1) /\ (y = 1 \/ r[y - 1] = b)
    BY <1>1, <1>2 DEF StartsAt
  <2>3. x < y => y # 1 /\ y - 1 \in x..n
    BY <1>1, <2>1, <2>2
  <2> QED BY <2>1, <2>2, <2>3
<1> QED BY <1>2

\* A blank behind a word brings it to an end.
LEMMA EndsNow ==
    ASSUME NEW P, NEW b \in P, NEW r \in Seq(P), r # <<>>, r[Len(r)] # b,
           NEW i \in 1..(Len(r) + 1), StartsAt(r, i, b), NEW w
    PROVE  Ended(Append(r, b), w, b) <=> Ended(r, w, b) \/ w = SubSeq(r, i, Len(r))
<1>1. PICK n, t : n = Len(r) /\ t = Append(r, b)
  OBVIOUS
<1>2. n \in Nat \ {0} /\ t \in Seq(P) /\ Len(t) = n + 1 /\ t[n + 1] = b /\ \A k \in 1..n : t[k] = r[k]
  BY <1>1, EmptySeq
<1>3. i \in 1..n /\ (\A k \in i..n : r[k] # b) /\ (i = 1 \/ r[i - 1] = b)
  <2>1. i \in 1..(n + 1) /\ (\A k \in i..n : r[k] # b) /\ (i = 1 \/ r[i - 1] = b)
    BY <1>1 DEF StartsAt
  <2>2. i # n + 1
    <3>1. r[n] # b
      BY <1>1
    <3>2. i = n + 1 => i # 1 /\ i - 1 = n
      BY <1>2
    <3> QED BY <2>1, <3>1, <3>2
  <2> QED BY <1>2, <2>1, <2>2
<1>4. ASSUME NEW x \in 1..n, NEW y \in 1..n, \A k \in x..y : r[k] # b PROVE SubSeq(t, x, y) = SubSeq(r, x, y)
  <2>1. CASE x <= y + 1
    <3>1. x \in Int /\ y \in Int /\ Within(t, x, y) /\ Within(r, x, y)
      BY <1>1, <1>2, <2>1 DEF Within
    <3>2. Alike(t, r, x, y)
      <4>1. \A k \in x..y : k \in 1..n
        BY <1>2
      <4> QED BY <1>2, <4>1 DEF Alike
    <3> QED BY <1>2, <3>1, <3>2, SameCut
  <2>2. CASE ~(x <= y + 1)
    <3>1. x \in Int /\ y \in Int /\ x > y
      BY <1>2, <2>2
    <3>2. SubSeq(t, x, y) = <<>> /\ SubSeq(r, x, y) = <<>>
      BY <3>1
    <3> QED BY <3>2
  <2> QED BY <2>1, <2>2
<1>5. ASSUME Ended(t, w, b) PROVE Ended(r, w, b) \/ w = SubSeq(r, i, n)
  <2>1. PICK x \in 1..(n + 1), y \in 1..(n + 1) : EndsAt(t, x, y, b) /\ w = SubSeq(t, x, y)
    BY <1>2, <1>5 DEF Ended
  <2>2. /\ x <= y /\ y < n + 1 /\ (\A k \in x..y : t[k] # b)
        /\ (x = 1 \/ t[x - 1] = b) /\ t[y + 1] = b
    BY <1>2, <2>1 DEF EndsAt
  <2>3. x \in 1..n /\ y \in 1..n
    BY <1>2, <2>2
  <2>4. \A k \in x..y : k \in 1..n /\ r[k] # b
    <3>1. \A k \in x..y : k \in 1..n
      BY <1>2, <2>3
    <3> QED BY <1>2, <2>2, <3>1
  <2>5. x = 1 \/ r[x - 1] = b
    <3>1. x # 1 => x - 1 \in 1..n
      BY <1>2, <2>3
    <3> QED BY <1>2, <2>2, <3>1
  <2>6. w = SubSeq(r, x, y)
    BY <1>4, <2>1, <2>3, <2>4
  <2>7. CASE y = n
    <3>1. StartsAt(r, x, b)
      BY <1>1, <1>2, <2>3, <2>4, <2>5, <2>7 DEF StartsAt
    <3>2. x = i
      <4>1. x \in Int /\ i \in Int
        BY <1>2, <1>3
      <4> QED BY <3>1, <4>1, OneStart
    <3> QED BY <2>6, <2>7, <3>2
  <2>8. CASE y # n
    <3>1. y < n /\ y + 1 \in 1..n
      BY <1>2, <2>3, <2>8
    <3>2. r[y + 1] = b
      BY <1>2, <2>2, <3>1
    <3>3. EndsAt(r, x, y, b)
      BY <1>1, <2>2, <2>3, <2>4, <2>5, <3>1, <3>2 DEF EndsAt
    <3> QED BY <1>1, <2>3, <2>6, <3>3 DEF Ended
  <2> QED BY <2>7, <2>8
<1>6. ASSUME Ended(r, w, b) PROVE Ended(t, w, b)
  <2>1. PICK x \in 1..n, y \in 1..n : EndsAt(r, x, y, b) /\ w = SubSeq(r, x, y)
    BY <1>1, <1>6 DEF Ended
  <2>2. /\ x <= y /\ y < n /\ (\A k \in x..y : r[k] # b)
        /\ (x = 1 \/ r[x - 1] = b) /\ r[y + 1] = b
    BY <1>1, <2>1 DEF EndsAt
  <2>3. x \in 1..(n + 1) /\ y \in 1..(n + 1) /\ y < n + 1
    BY <1>2, <2>2
  <2>4. \A k \in x..y : t[k] # b
    <3>1. \A k \in x..y : k \in 1..n
      BY <1>2, <2>2
    <3> QED BY <1>2, <2>2, <3>1
  <2>5. x = 1 \/ t[x - 1] = b
    <3>1. x # 1 => x - 1 \in 1..n
      BY <1>2, <2>2
    <3> QED BY <1>2, <2>2, <3>1
  <2>6. t[y + 1] = b
    <3>1. y + 1 \in 1..n
      BY <1>2, <2>2
    <3> QED BY <1>2, <2>2, <3>1
  <2>7. EndsAt(t, x, y, b)
    BY <1>2, <2>2, <2>3, <2>4, <2>5, <2>6 DEF EndsAt
  <2>8. w = SubSeq(t, x, y)
    BY <1>4, <2>1, <2>2
  <2> QED BY <1>2, <2>3, <2>7, <2>8 DEF Ended
<1>7. ASSUME w = SubSeq(r, i, n) PROVE Ended(t, w, b)
  <2>1. n \in 1..n /\ i \in 1..(n + 1) /\ n \in 1..(n + 1) /\ i <= n /\ n < n + 1
    BY <1>2, <1>3
  <2>2. \A k \in i..n : t[k] # b
    <3>1. \A k \in i..n : k \in 1..n
      BY <1>2, <1>3
    <3> QED BY <1>2, <1>3, <3>1
  <2>3. i = 1 \/ t[i - 1] = b
    <3>1. i # 1 => i - 1 \in 1..n
      BY <1>2, <1>3
    <3> QED BY <1>2, <1>3, <3>1
  <2>4. EndsAt(t, i, n, b)
    BY <1>2, <2>1, <2>2, <2>3 DEF EndsAt
  <2>5. w = SubSeq(t, i, n)
    BY <1>3, <1>4, <1>7, <2>1
  <2> QED BY <1>2, <2>1, <2>4, <2>5 DEF Ended
<1> QED BY <1>1, <1>5, <1>6, <1>7

\* The tokens of a string that does not start with a blank: its words, and the last one so far.
LEMMA WordsOfTokens ==
    ASSUME NEW P, NEW b \in P, NEW s \in Seq(P), s = <<>> \/ s[1] # b, NEW compress, Compresses(compress)
    PROVE  WordsSoFar(s, Tok(s, b, compress), b)
<1> DEFINE S == {r \in Seq(P) : r = <<>> \/ r[1] # b => WordsSoFar(r, Tok(r, b, compress), b)}
<1>1. <<>> \in S
  <2>1. PICK r, T, e : r = <<>> /\ e = <<>> /\ T = <<e>>
    OBVIOUS
  <2>2. Tok(r, b, compress) = T
    BY <2>1, TokEmpty
  <2>3. r \in Seq(P) /\ Len(r) = 0 /\ Len(T) = 1 /\ T[1] = e
    BY <2>1, EmptySeq
  <2>4. StartsAt(r, 1, b)
    BY <2>3 DEF StartsAt
  <2>5. SubSeq(r, 1, 0) = e
    BY <2>1, <2>3
  <2>6. \A w : ~IsRead(T, w)
    BY <2>3 DEF IsRead
  <2>7. \A w : ~Ended(r, w, b)
    BY <2>3 DEF Ended
  <2>8. WordsSoFar(r, T, b)
    <3>1. \E i \in 1..(Len(r) + 1) : StartsAt(r, i, b) /\ T[Len(T)] = SubSeq(r, i, Len(r))
      BY <2>3, <2>4, <2>5
    <3> QED BY <2>6, <2>7, <3>1 DEF WordsSoFar
  <2> QED BY <2>1, <2>2, <2>3, <2>8
<1>2. ASSUME NEW r \in Seq(P), NEW p \in P, r \in S PROVE Append(r, p) \in S
  <2>1. PICK t, n, T, U, l : /\ t = Append(r, p) /\ n = Len(r) /\ T = Tok(r, b, compress)
                             /\ U = Tok(t, b, compress) /\ l = Len(T)
    OBVIOUS
  <2>2. n \in Nat /\ t \in Seq(P) /\ Len(t) = n + 1 /\ t[n + 1] = p /\ \A k \in 1..n : t[k] = r[k]
    BY <2>1
  <2>3. T \in Seq(Seq(P)) /\ T \in Tokens1(P) /\ l \in Nat \ {0}
    <3>1. T \in Tokens1(P)
      BY <2>1, TokType
    <3>2. T \in Seq(Seq(P)) /\ T # <<>>
      BY <3>1 DEF Tokens1
    <3> QED BY <2>1, <3>1, <3>2, EmptySeq
  <2>4. U = IF p # b THEN AddTo(T, p)
            ELSE IF compress /\ r # <<>> /\ r[n] = b THEN T ELSE Append(T, <<>>)
    BY <2>1, TokAppend
  <2>5. ASSUME t = <<>> \/ t[1] # b PROVE WordsSoFar(t, U, b)
    <3>1. (r = <<>> => p # b) /\ (r = <<>> \/ r[1] # b)
      <4>1. t # <<>> /\ t[1] # b
        BY <2>2, <2>5, EmptySeq
      <4>2. r = <<>> => n = 0
        BY <2>1
      <4>3. r # <<>> => 1 \in 1..n
        BY <2>1, EmptySeq
      <4>4. r = <<>> => t[1] = p
        BY <2>2, <4>2
      <4>5. r # <<>> => t[1] = r[1]
        BY <2>2, <4>3
      <4> QED BY <4>1, <4>4, <4>5
    <3>2. WordsSoFar(r, T, b)
      BY <1>2, <2>1, <3>1
    <3>3. PICK i \in 1..(n + 1) : StartsAt(r, i, b) /\ T[l] = SubSeq(r, i, n)
      BY <2>1, <3>2 DEF WordsSoFar
    <3>4. \A w : IsRead(T, w) <=> Ended(r, w, b)
      BY <3>2 DEF WordsSoFar
    <3>a. i \in 1..Len(t) /\ i \in 1..(Len(t) + 1) /\ i \in 1..(Len(r) + 1)
      BY <2>1, <2>2
    <3>b. i \in 1..(n + 1) /\ (\A k \in i..n : r[k] # b) /\ (i = 1 \/ r[i - 1] = b)
      BY <2>1, <3>3 DEF StartsAt
    <3>5. CASE p # b
      <4>1. U = AddTo(T, p)
        BY <2>4, <3>5
      <4>2. Len(U) = l
        BY <2>1, <2>3, <4>1, AddToIs
      <4>3. \A k \in 1..(l - 1) : U[k] = T[k]
        BY <2>1, <2>3, <4>1, AddToIs
      <4>4. U[l] = Append(T[l], p)
        <5>1. AddTo(T, p)[Len(T)] = Append(T[Len(T)], p)
          BY <2>3, AddToIs
        <5> QED BY <2>1, <4>1, <5>1, Zenon
      <4>5. StartsAt(t, i, b)
        <5>1. \A k \in i..(n + 1) : t[k] # b
          <6>1. ASSUME NEW k \in i..(n + 1) PROVE t[k] # b
            <7>1. k = n + 1 \/ (k \in 1..n /\ k \in i..n)
              BY <2>2
            <7> QED BY <2>2, <3>5, <3>b, <7>1
          <6> QED BY <6>1
        <5>2. i = 1 \/ t[i - 1] = b
          <6>1. i # 1 => i - 1 \in 1..n
            BY <2>2
          <6> QED BY <2>2, <3>b, <6>1
        <5> QED BY <2>2, <3>a, <5>1, <5>2 DEF StartsAt
      <4>6. U[l] = SubSeq(t, i, n + 1)
        <5>1. SubSeq(Append(r, p), i, Len(r) + 1) = Append(SubSeq(r, i, Len(r)), p)
          BY <3>a, CutAppend
        <5> QED BY <2>1, <3>3, <4>4, <5>1, Zenon
      <4>7. ASSUME NEW w PROVE IsRead(U, w) <=> Ended(t, w, b)
        <5>1. IsRead(U, w) <=> IsRead(T, w)
          BY <2>1, <4>2, <4>3 DEF IsRead
        <5>2. Ended(Append(r, p), w, b) <=> Ended(r, w, b)
          BY <3>5, EndedStill
        <5> QED BY <2>1, <3>4, <5>1, <5>2
      <4>8. \E x \in 1..(Len(t) + 1) : StartsAt(t, x, b) /\ U[Len(U)] = SubSeq(t, x, Len(t))
        BY <2>2, <3>a, <4>2, <4>5, <4>6
      <4> QED BY <4>7, <4>8 DEF WordsSoFar
    <3>c. PICK x : x = n + 2 /\ x \in 1..(Len(t) + 1)
      BY <2>2
    <3>d. ASSUME p = b PROVE StartsAt(t, x, b) /\ SubSeq(t, x, n + 1) = <<>>
      <4>1. x # 1 /\ x - 1 = n + 1 /\ \A k \in x..(n + 1) : FALSE
        BY <2>2, <3>c
      <4>2. StartsAt(t, x, b)
        BY <2>2, <3>c, <3>d, <4>1 DEF StartsAt
      <4>3. x \in Int /\ n + 1 \in Int /\ x > n + 1
        BY <2>2, <3>c
      <4> QED BY <4>2, <4>3
    <3>6. CASE p = b /\ r[n] = b
      <4>1. r # <<>> /\ r[Len(r)] = b
        BY <2>1, <3>1, <3>6
      <4>2. U = T
        <5>1. compress
          BY DEF Compresses
        <5> QED BY <2>1, <2>4, <3>6, <4>1, <5>1
      <4>3. n \in 1..n
        BY <2>1, <4>1, EmptySeq
      <4>4. T[l] = <<>>
        <5>1. i = n + 1
          <6>1. n \notin i..n
            BY <3>6, <3>b
          <6> QED BY <2>2, <6>1
        <5>2. i \in Int /\ n \in Int /\ i > n
          BY <2>2, <5>1
        <5>3. SubSeq(r, i, n) = <<>>
          BY <5>2
        <5> QED BY <3>3, <5>3
      <4>5. ASSUME NEW w PROVE IsRead(U, w) <=> Ended(t, w, b)
        <5>2. Ended(Append(r, p), w, b) <=> Ended(r, w, b)
          BY <4>1, EndedStill
        <5> QED BY <2>1, <3>4, <4>2, <5>2
      <4>6. \E y \in 1..(Len(t) + 1) : StartsAt(t, y, b) /\ U[Len(U)] = SubSeq(t, y, Len(t))
        BY <2>1, <2>2, <3>6, <3>c, <3>d, <4>2, <4>4
      <4> QED BY <4>5, <4>6 DEF WordsSoFar
    <3>7. CASE p = b /\ r[n] # b
      <4>1. r # <<>> /\ r[Len(r)] # b
        BY <2>1, <3>1, <3>7
      <4>2. PICK e : e = <<>> /\ e \in Seq(P)
        BY EmptySeq
      <4>3. U = Append(T, e)
        BY <2>1, <2>4, <3>7, <4>2
      <4>4. Len(U) = l + 1 /\ U[l + 1] = e /\ \A k \in 1..l : U[k] = T[k]
        BY <2>1, <2>3, <4>2, <4>3
      <4>5. ASSUME NEW w PROVE IsRead(U, w) <=> Ended(t, w, b)
        <5>1. IsRead(U, w) <=> IsRead(T, w) \/ w = T[l]
          <6>1. \A m \in 1..l : m \in 1..(l - 1) \/ m = l
            BY <2>3
          <6>2. \A m \in 1..(l - 1) : m \in 1..l
            BY <2>3
          <6>3. l \in 1..l /\ Len(U) - 1 = l
            BY <2>3, <4>4
          <6>4. IsRead(U, w) <=> \E m \in 1..l : T[m] = w
            BY <4>4, <6>3 DEF IsRead
          <6>5. IsRead(T, w) <=> \E m \in 1..(l - 1) : T[m] = w
            BY <2>1 DEF IsRead
          <6> QED BY <6>1, <6>2, <6>3, <6>4, <6>5
        <5>2. Ended(Append(r, b), w, b) <=> Ended(r, w, b) \/ w = SubSeq(r, i, Len(r))
          BY <3>3, <3>a, <4>1, EndsNow
        <5> QED BY <2>1, <3>3, <3>4, <3>7, <5>1, <5>2
      <4>6. \E y \in 1..(Len(t) + 1) : StartsAt(t, y, b) /\ U[Len(U)] = SubSeq(t, y, Len(t))
        BY <2>2, <3>7, <3>c, <3>d, <4>2, <4>4
      <4> QED BY <4>5, <4>6 DEF WordsSoFar
    <3> QED BY <3>5, <3>6, <3>7
  <2> QED BY <2>1, <2>2, <2>5
<1>3. Seq(P) \subseteq S
  <2> HIDE DEF S
  <2> QED BY <1>1, <1>2, SeqInduction
<1> QED BY <1>3

-----------------------------------------------------------------------------
\* The words of a string, as pairs of places.
TypedAt(s, i, j, b) ==
    /\ i \in 1..Len(s) /\ j \in 1..Len(s) /\ i <= j
    /\ \A k \in i..j : s[k] # b
    /\ i = 1 \/ s[i - 1] = b
    /\ j = Len(s) \/ s[j + 1] = b

IsTyped(s, w, b) == \E i, j \in 1..Len(s) : TypedAt(s, i, j, b) /\ w = SubSeq(s, i, j)

LEMMA InTypedWords ==
    ASSUME NEW P, NEW s \in Seq(P), NEW w
    PROVE  w \in TypedWords(s) <=> IsTyped(s, w, " ")
<1> DEFINE Between(i, j) == /\ i <= j /\ \A k \in i..j : s[k] # " "
                            /\ (i = 1 \/ s[i - 1] = " ") /\ (j = Len(s) \/ s[j + 1] = " ")
           Pairs == {q \in (DOMAIN s) \X (DOMAIN s) : Between(q[1], q[2])}
<1>1. TypedWords(s) = {SubSeq(s, p[1], p[2]) : p \in Pairs}
  BY Zenon DEF TypedWords
<1>2. DOMAIN s = 1..Len(s)
  OBVIOUS
<1>3. \A i, j \in 1..Len(s) : Between(i, j) <=> TypedAt(s, i, j, " ")
  BY DEF TypedAt
<1>4. ASSUME w \in TypedWords(s) PROVE IsTyped(s, w, " ")
  <2> HIDE DEF Between
  <2>1. PICK p \in Pairs : w = SubSeq(s, p[1], p[2])
    BY <1>1, <1>4
  <2>2. PICK i, j : i = p[1] /\ j = p[2]
    OBVIOUS
  <2>3. i \in 1..Len(s) /\ j \in 1..Len(s) /\ Between(i, j)
    BY <1>2, <2>2
  <2> QED BY <1>3, <2>1, <2>2, <2>3 DEF IsTyped
<1>5. ASSUME IsTyped(s, w, " ") PROVE w \in TypedWords(s)
  <2> HIDE DEF Between
  <2>1. PICK i \in 1..Len(s), j \in 1..Len(s) : TypedAt(s, i, j, " ") /\ w = SubSeq(s, i, j)
    BY <1>5 DEF IsTyped
  <2>p. PICK p : p = <<i, j>>
    OBVIOUS
  <2>2. p[1] = i /\ p[2] = j /\ p \in (DOMAIN s) \X (DOMAIN s)
    BY <1>2, <2>p
  <2>3. p \in Pairs
    BY <1>3, <2>1, <2>2
  <2> QED BY <1>1, <2>1, <2>2, <2>3
<1> QED BY <1>4, <1>5

\* The words are the ones that have come to an end, and the last one.
LEMMA LastWord ==
    ASSUME NEW P, NEW s \in Seq(P), NEW b, s # <<>>, s[Len(s)] # b,
           NEW i \in 1..(Len(s) + 1), StartsAt(s, i, b), NEW w
    PROVE  IsTyped(s, w, b) <=> Ended(s, w, b) \/ w = SubSeq(s, i, Len(s))
<1>1. PICK n : n = Len(s) /\ n \in Nat \ {0}
  BY EmptySeq
<1>2. i \in 1..n /\ (\A k \in i..n : s[k] # b) /\ (i = 1 \/ s[i - 1] = b)
  <2>1. i \in 1..(n + 1) /\ (\A k \in i..n : s[k] # b) /\ (i = 1 \/ s[i - 1] = b)
    BY <1>1 DEF StartsAt
  <2>2. i # n + 1
    <3>1. s[n] # b
      BY <1>1
    <3>2. i = n + 1 => i # 1 /\ i - 1 = n
      BY <1>1
    <3> QED BY <2>1, <3>1, <3>2
  <2> QED BY <1>1, <2>1, <2>2
<1>3. ASSUME IsTyped(s, w, b) PROVE Ended(s, w, b) \/ w = SubSeq(s, i, n)
  <2>1. PICK x \in 1..n, y \in 1..n : TypedAt(s, x, y, b) /\ w = SubSeq(s, x, y)
    BY <1>1, <1>3 DEF IsTyped
  <2>2. x <= y /\ (\A k \in x..y : s[k] # b) /\ (x = 1 \/ s[x - 1] = b) /\ (y = n \/ s[y + 1] = b)
    BY <1>1, <2>1 DEF TypedAt
  <2>3. CASE y = n
    <3>1. StartsAt(s, x, b)
      BY <1>1, <2>2, <2>3 DEF StartsAt
    <3>2. x = i
      <4>1. x \in Int /\ i \in Int
        BY <1>1, <1>2
      <4> QED BY <3>1, <4>1, OneStart
    <3> QED BY <2>1, <2>3, <3>2
  <2>4. CASE y # n
    <3>1. EndsAt(s, x, y, b)
      BY <1>1, <2>2, <2>4 DEF EndsAt
    <3> QED BY <1>1, <2>1, <3>1 DEF Ended
  <2> QED BY <2>3, <2>4
<1>4. ASSUME Ended(s, w, b) PROVE IsTyped(s, w, b)
  <2>1. PICK x \in 1..n, y \in 1..n : EndsAt(s, x, y, b) /\ w = SubSeq(s, x, y)
    BY <1>1, <1>4 DEF Ended
  <2>2. TypedAt(s, x, y, b)
    BY <2>1 DEF EndsAt, TypedAt
  <2> QED BY <1>1, <2>1, <2>2 DEF IsTyped
<1>5. ASSUME w = SubSeq(s, i, n) PROVE IsTyped(s, w, b)
  <2>1. n \in 1..n /\ i <= n
    BY <1>1, <1>2
  <2>2. TypedAt(s, i, n, b)
    BY <1>1, <1>2, <2>1 DEF TypedAt
  <2> QED BY <1>1, <1>2, <1>5, <2>1, <2>2 DEF IsTyped
<1> QED BY <1>1, <1>3, <1>4, <1>5

IsBlank(b) == b = " "

\* boost::split of a trimmed text gives the words somebody typed, and there are some.
LEMMA QueryWordsAre ==
    ASSUME NEW P, NEW b, IsBlank(b), NEW s \in Seq(P), s # <<>>, s[1] # b, s[Len(s)] # b
    PROVE  QueryWords(s) = TypedWords(s) /\ TypedWords(s) # {}
<1>1. PICK compress : Compresses(compress)
  BY DEF Compresses
<1>2. PICK PB : PB = P \cup {b} /\ s \in Seq(PB) /\ b \in PB
  <2>1. PICK Q : Q = P \cup {b}
    OBVIOUS
  <2>2. P \subseteq Q
    BY <2>1
  <2>3. s \in Seq(Q)
    BY <2>2, SmallSeqs
  <2> QED BY <2>1, <2>3
<1>3. PICK T, l : T = Tok(s, b, compress) /\ l = Len(T)
  OBVIOUS
<1>4. WordsSoFar(s, T, b)
  BY <1>1, <1>2, <1>3, WordsOfTokens
<1>5. PICK i \in 1..(Len(s) + 1) : StartsAt(s, i, b) /\ T[l] = SubSeq(s, i, Len(s))
  BY <1>3, <1>4 DEF WordsSoFar
<1>6. l \in Nat \ {0} /\ DOMAIN T = 1..l
  <2>1. T \in Tokens1(PB)
    BY <1>2, <1>3, TokType
  <2>2. T \in Seq(Seq(PB)) /\ T # <<>>
    BY <2>1 DEF Tokens1
  <2>3. Len(T) \in Nat \ {0} /\ DOMAIN T = 1..Len(T)
    BY <2>2, EmptySeq
  <2>4. l = Len(T)
    BY <1>3
  <2> QED BY <2>3, <2>4
<1>7. ASSUME NEW w PROVE IsTyped(s, w, b) <=> \E m \in 1..l : T[m] = w
  <2>2. IsTyped(s, w, b) <=> Ended(s, w, b) \/ w = SubSeq(s, i, Len(s))
    BY <1>2, <1>5, LastWord
  <2>3. IsRead(T, w) <=> Ended(s, w, b)
    BY <1>4 DEF WordsSoFar
  <2>4. IsRead(T, w) <=> \E m \in 1..(l - 1) : T[m] = w
    BY <1>3 DEF IsRead
  <2>5. /\ \A m \in 1..l : m \in 1..(l - 1) \/ m = l
        /\ \A m \in 1..(l - 1) : m \in 1..l
        /\ l \in 1..l
    BY <1>6
  <2>6. (\E m \in 1..l : T[m] = w) <=> (\E m \in 1..(l - 1) : T[m] = w) \/ T[l] = w
    BY <2>5
  <2>7. T[l] = SubSeq(s, i, Len(s))
    BY <1>5
  <2> QED BY <2>2, <2>3, <2>4, <2>6, <2>7
<1>8. QueryWords(s) = Seqs!ToSet(T)
  BY <1>1, <1>3, SplitsAre, Zenon DEF QueryWords, IsBlank
<1>9. Seqs!ToSet(T) = {T[m] : m \in 1..l}
  BY <1>6 DEF Seqs!ToSet
<1>10. \A w : w \in TypedWords(s) <=> IsTyped(s, w, b)
  BY InTypedWords DEF IsBlank
<1>11. QueryWords(s) = TypedWords(s)
  BY <1>7, <1>8, <1>9, <1>10
<1>12. T[l] \in QueryWords(s)
  <2>1. l \in 1..l
    BY <1>6
  <2> QED BY <1>8, <1>9, <2>1
<1> QED BY <1>11, <1>12

-----------------------------------------------------------------------------
\* Trimming takes no word away.
LEMMA GreatestElement ==
    ASSUME NEW n \in Nat, NEW S, S \subseteq 1..n, S # {}
    PROVE  \E m \in S : \A x \in S : x <= m
<1> DEFINE D == {n - x : x \in S}
<1>1. D \subseteq Nat /\ D # {}
  <2>1. \A x \in S : n - x \in Nat
    OBVIOUS
  <2> QED BY <2>1
<1>2. PICK d \in D : \A y \in D : d <= y
  <2> HIDE DEF D
  <2> QED BY <1>1, LeastElement
<1>3. PICK m \in S : d = n - m
  BY <1>2
<1>4. ASSUME NEW x \in S PROVE x <= m
  <2>1. n - x \in D /\ n - m <= n - x
    BY <1>2, <1>3
  <2> QED BY <2>1
<1> QED BY <1>3, <1>4

\* What is left of a string: the places from the first to the last that are no blanks.
Shows(s, lo, hi, b) ==
    /\ lo \in 1..Len(s) /\ hi \in 1..Len(s) /\ lo <= hi /\ s[lo] # b /\ s[hi] # b
    /\ \A k \in 1..Len(s) : s[k] # b => lo <= k /\ k <= hi

LEMMA TrimIs ==
    ASSUME NEW P, NEW b, IsBlank(b), NEW s \in Seq(P)
    PROVE  \/ (\A k \in 1..Len(s) : s[k] = b) /\ Trim(s) = <<>>
           \/ \E lo, hi : Shows(s, lo, hi, b) /\ Trim(s) = SubSeq(s, lo, hi)
<1>1. PICK n, shown : n = Len(s) /\ shown = {k \in DOMAIN s : s[k] # b}
  OBVIOUS
<1>2. n \in Nat /\ DOMAIN s = 1..n /\ shown \subseteq 1..n /\ shown \subseteq Nat
  BY <1>1
<1>3. \A k \in 1..n : k \in shown <=> s[k] # b
  BY <1>1, <1>2
<1>4. Trim(s) = IF shown = {} THEN <<>> ELSE SubSeq(s, Seqs!Min(shown), Seqs!Max(shown))
  BY <1>1, Zenon DEF Trim, IsBlank
<1>5. CASE shown = {}
  <2>1. \A k \in 1..n : s[k] = b
    BY <1>3, <1>5
  <2>2. Trim(s) = <<>>
    BY <1>4, <1>5
  <2> QED BY <1>1, <2>1, <2>2
<1>6. CASE shown # {}
  <2>1. PICK lo \in shown : \A x \in shown : lo <= x
    BY <1>2, <1>6, LeastElement
  <2>2. PICK hi \in shown : \A x \in shown : x <= hi
    BY <1>2, <1>6, GreatestElement
  <2>3. Seqs!Min(shown) = lo
    BY <1>2, <2>1, LeastIs
  <2>4. Seqs!Max(shown) = hi
    BY <1>2, <2>2, GreatestIs
  <2>5. Trim(s) = SubSeq(s, lo, hi)
    BY <1>4, <1>6, <2>3, <2>4
  <2>6. lo \in 1..n /\ hi \in 1..n /\ lo <= hi /\ s[lo] # b /\ s[hi] # b
    BY <1>2, <1>3, <2>1, <2>2
  <2>7. \A k \in 1..n : s[k] # b => lo <= k /\ k <= hi
    BY <1>3, <2>1, <2>2
  <2>8. Shows(s, lo, hi, b)
    BY <1>1, <2>6, <2>7 DEF Shows
  <2> QED BY <1>1, <2>5, <2>8
<1> QED BY <1>5, <1>6

\* The words of the part, in the places of the whole.
LEMMA TypedInside ==
    ASSUME NEW P, NEW s \in Seq(P), NEW b, NEW lo \in Nat, NEW hi \in Nat, Shows(s, lo, hi, b), NEW w
    PROVE  IsTyped(SubSeq(s, lo, hi), w, b) <=> IsTyped(s, w, b)
<1>1. PICK n, m, t : n = Len(s) /\ m = hi - lo + 1 /\ t = SubSeq(s, lo, hi)
  OBVIOUS
<1>2. /\ n \in Nat /\ lo \in 1..n /\ hi \in 1..n /\ lo <= hi /\ s[lo] # b /\ s[hi] # b
      /\ \A k \in 1..n : s[k] # b => lo <= k /\ k <= hi
  BY <1>1 DEF Shows
<1>3. m \in Nat \ {0} /\ lo + m - 1 = hi
  BY <1>1, <1>2
<1>4. t \in Seq(P) /\ Len(t) = m /\ \A k \in 1..m : t[k] = s[lo + k - 1]
  <2>1. lo \in Int /\ hi \in Int /\ Within(s, lo, hi)
    BY <1>1, <1>2 DEF Within
  <2>2. SubSeq(s, lo, hi) \in Seq(P)
    BY <2>1, CutIs
  <2>3. Len(SubSeq(s, lo, hi)) = hi - lo + 1
    BY <2>1, CutIs
  <2>4. \A k \in 1..(hi - lo + 1) : SubSeq(s, lo, hi)[k] = s[lo + k - 1]
    BY <2>1, CutIs
  <2> QED BY <1>1, <2>2, <2>3, <2>4
<1>5. ASSUME NEW i \in 1..m, NEW j \in 1..m, i <= j
      PROVE  SubSeq(t, i, j) = SubSeq(s, lo + i - 1, lo + j - 1)
  <2>1. PICK x, y, l : x = lo + i - 1 /\ y = lo + j - 1 /\ l = j - i + 1
    OBVIOUS
  <2>2. /\ x \in 1..n /\ y \in 1..n /\ x <= y /\ l \in Nat /\ y - x + 1 = l /\ x \in Int /\ y \in Int
        /\ i \in Int /\ j \in Int
    BY <1>2, <1>3, <1>5, <2>1
  <2>3. Within(s, x, y) /\ Within(t, i, j)
    BY <1>1, <1>3, <1>4, <1>5, <2>2 DEF Within
  <2>4. PICK u, v : u = SubSeq(t, i, j) /\ v = SubSeq(s, x, y)
    OBVIOUS
  <2>5. u \in Seq(P) /\ Len(u) = l /\ \A k \in 1..l : u[k] = t[i + k - 1]
    <3>1. SubSeq(t, i, j) \in Seq(P)
      BY <1>4, <2>2, <2>3, CutIs
    <3>2. Len(SubSeq(t, i, j)) = j - i + 1
      BY <1>4, <2>2, <2>3, CutIs
    <3>3. \A k \in 1..(j - i + 1) : SubSeq(t, i, j)[k] = t[i + k - 1]
      BY <1>4, <2>2, <2>3, CutIs
    <3> QED BY <2>1, <2>4, <3>1, <3>2, <3>3
  <2>6. v \in Seq(P) /\ Len(v) = l /\ \A k \in 1..l : v[k] = s[x + k - 1]
    <3>1. SubSeq(s, x, y) \in Seq(P)
      BY <2>2, <2>3, CutIs
    <3>2. Len(SubSeq(s, x, y)) = y - x + 1
      BY <2>2, <2>3, CutIs
    <3>3. \A k \in 1..(y - x + 1) : SubSeq(s, x, y)[k] = s[x + k - 1]
      BY <2>2, <2>3, CutIs
    <3> QED BY <2>2, <2>4, <3>1, <3>2, <3>3
  <2>7. ASSUME NEW k \in 1..l PROVE u[k] = v[k]
    <3>1. i + k - 1 \in 1..m /\ lo + (i + k - 1) - 1 = x + k - 1
      BY <1>2, <1>3, <2>1, <2>2
    <3>2. u[k] = t[i + k - 1] /\ t[i + k - 1] = s[lo + (i + k - 1) - 1]
      BY <1>4, <2>5, <3>1
    <3> QED BY <2>6, <3>1, <3>2
  <2>8. u = v
    BY <2>5, <2>6, <2>7, SeqEqual
  <2> QED BY <2>1, <2>4, <2>8
<1>6. ASSUME NEW i \in 1..m, NEW j \in 1..m, TypedAt(t, i, j, b)
      PROVE  TypedAt(s, lo + i - 1, lo + j - 1, b)
  <2>1. PICK x, y : x = lo + i - 1 /\ y = lo + j - 1
    OBVIOUS
  <2>2. i <= j /\ (\A k \in i..j : t[k] # b) /\ (i = 1 \/ t[i - 1] = b) /\ (j = m \/ t[j + 1] = b)
    BY <1>4, <1>6 DEF TypedAt
  <2>3. x \in 1..n /\ y \in 1..n /\ x <= y
    BY <1>2, <1>3, <2>1, <2>2
  <2>4. ASSUME NEW k \in x..y PROVE s[k] # b
    <3>1. PICK h : h = k - lo + 1
      OBVIOUS
    <3>2. h \in i..j /\ h \in 1..m /\ lo + h - 1 = k
      BY <1>2, <1>3, <2>1, <3>1
    <3> QED BY <1>4, <2>2, <3>2
  <2>5. x = 1 \/ s[x - 1] = b
    <3>1. CASE i = 1
      <4>1. x # 1 => x - 1 \in 1..n /\ ~(lo <= x - 1)
        BY <1>2, <2>1, <2>3, <3>1
      <4> QED BY <1>2, <4>1
    <3>2. CASE i # 1
      <4>1. i - 1 \in 1..m /\ lo + (i - 1) - 1 = x - 1
        BY <1>2, <1>3, <2>1, <3>2
      <4> QED BY <1>4, <2>2, <3>2, <4>1
    <3> QED BY <3>1, <3>2
  <2>6. y = n \/ s[y + 1] = b
    <3>1. CASE j = m
      <4>1. y # n => y + 1 \in 1..n /\ ~(y + 1 <= hi)
        BY <1>2, <1>3, <2>1, <2>3, <3>1
      <4> QED BY <1>2, <4>1
    <3>2. CASE j # m
      <4>1. j + 1 \in 1..m /\ lo + (j + 1) - 1 = y + 1
        BY <1>2, <1>3, <2>1, <3>2
      <4> QED BY <1>4, <2>2, <3>2, <4>1
    <3> QED BY <3>1, <3>2
  <2>7. TypedAt(s, x, y, b)
    BY <1>1, <2>3, <2>4, <2>5, <2>6 DEF TypedAt
  <2> QED BY <2>1, <2>7
<1>7. ASSUME NEW x \in 1..n, NEW y \in 1..n, TypedAt(s, x, y, b)
      PROVE  /\ x - lo + 1 \in 1..m /\ y - lo + 1 \in 1..m
             /\ TypedAt(t, x - lo + 1, y - lo + 1, b)
  <2>1. PICK i, j : i = x - lo + 1 /\ j = y - lo + 1
    OBVIOUS
  <2>2. x <= y /\ (\A k \in x..y : s[k] # b) /\ (x = 1 \/ s[x - 1] = b) /\ (y = n \/ s[y + 1] = b)
    BY <1>1, <1>7 DEF TypedAt
  <2>3. lo <= x /\ y <= hi
    <3>1. x \in x..y /\ y \in x..y
      BY <1>2, <2>2
    <3> QED BY <1>2, <2>2, <3>1
  <2>4. i \in 1..m /\ j \in 1..m /\ i <= j
    BY <1>2, <1>3, <2>1, <2>2, <2>3
  <2>5. ASSUME NEW k \in i..j PROVE t[k] # b
    <3>1. k \in 1..m /\ lo + k - 1 \in x..y
      BY <1>2, <1>3, <2>1, <2>4
    <3> QED BY <1>4, <2>2, <3>1
  <2>6. i = 1 \/ t[i - 1] = b
    <3>1. i # 1 => i - 1 \in 1..m /\ lo + (i - 1) - 1 = x - 1 /\ x # 1
      BY <1>2, <1>3, <2>1, <2>4
    <3> QED BY <1>4, <2>2, <3>1
  <2>7. j = m \/ t[j + 1] = b
    <3>1. j # m => j + 1 \in 1..m /\ lo + (j + 1) - 1 = y + 1 /\ y # n
      BY <1>2, <1>3, <2>1, <2>4
    <3> QED BY <1>4, <2>2, <3>1
  <2>8. TypedAt(t, i, j, b)
    BY <1>4, <2>4, <2>5, <2>6, <2>7 DEF TypedAt
  <2> QED BY <2>1, <2>4, <2>8
<1>8. ASSUME IsTyped(t, w, b) PROVE IsTyped(s, w, b)
  <2>1. PICK i \in 1..m, j \in 1..m : TypedAt(t, i, j, b) /\ w = SubSeq(t, i, j)
    BY <1>4, <1>8 DEF IsTyped
  <2>2. PICK x, y : x = lo + i - 1 /\ y = lo + j - 1
    OBVIOUS
  <2>3. TypedAt(s, x, y, b)
    BY <1>6, <2>1, <2>2
  <2>4. w = SubSeq(s, x, y)
    <3>1. i <= j
      BY <2>1 DEF TypedAt
    <3> QED BY <1>5, <2>1, <2>2, <3>1
  <2>5. x \in 1..Len(s) /\ y \in 1..Len(s)
    BY <2>3 DEF TypedAt
  <2> QED BY <2>3, <2>4, <2>5 DEF IsTyped
<1>9. ASSUME IsTyped(s, w, b) PROVE IsTyped(t, w, b)
  <2>1. PICK x \in 1..n, y \in 1..n : TypedAt(s, x, y, b) /\ w = SubSeq(s, x, y)
    BY <1>1, <1>9 DEF IsTyped
  <2>2. PICK i, j : i = x - lo + 1 /\ j = y - lo + 1
    OBVIOUS
  <2>3. i \in 1..m /\ j \in 1..m /\ TypedAt(t, i, j, b)
    BY <1>7, <2>1, <2>2
  <2>4. lo + i - 1 = x /\ lo + j - 1 = y
    BY <1>2, <2>2
  <2>5. i <= j
    BY <2>3 DEF TypedAt
  <2>6. SubSeq(t, i, j) = SubSeq(s, lo + i - 1, lo + j - 1)
    BY <1>5, <2>3, <2>5
  <2>7. w = SubSeq(t, i, j)
    BY <2>1, <2>4, <2>6
  <2> QED BY <1>4, <2>3, <2>7 DEF IsTyped
<1> QED BY <1>1, <1>8, <1>9

\* The words of a query are the words that were typed.
LEMMA TrimmedWords ==
    ASSUME NEW P, NEW s \in Seq(P)
    PROVE  /\ Trim(s) = <<>> => TypedWords(s) = {}
           /\ Trim(s) # <<>> => QueryWords(Trim(s)) = TypedWords(s) /\ TypedWords(s) # {}
           /\ Trim(s) \in Seq(P)
<1>1. PICK b : IsBlank(b)
  BY DEF IsBlank
<1>w. ASSUME NEW t \in Seq(P), NEW w PROVE w \in TypedWords(t) <=> IsTyped(t, w, b)
  BY <1>1, InTypedWords DEF IsBlank
<1>2. CASE (\A k \in 1..Len(s) : s[k] = b) /\ Trim(s) = <<>>
  <2>1. ASSUME NEW w PROVE ~IsTyped(s, w, b)
    <3>1. ASSUME NEW i \in 1..Len(s), NEW j \in 1..Len(s) PROVE ~TypedAt(s, i, j, b)
      <4>1. i <= j => i \in i..j
        OBVIOUS
      <4> QED BY <1>1, <1>2, <4>1 DEF TypedAt
    <3> QED BY <3>1 DEF IsTyped
  <2>2. TypedWords(s) = {}
    BY <1>w, <2>1
  <2> QED BY <1>2, <2>2, EmptySeq
<1>3. ASSUME NEW lo, NEW hi, Shows(s, lo, hi, b), Trim(s) = SubSeq(s, lo, hi)
      PROVE  /\ QueryWords(Trim(s)) = TypedWords(s) /\ TypedWords(s) # {}
             /\ Trim(s) \in Seq(P) /\ Trim(s) # <<>>
  <2>1. PICK n, m, t : n = Len(s) /\ m = hi - lo + 1 /\ t = SubSeq(s, lo, hi)
    OBVIOUS
  <2>2. lo \in 1..n /\ hi \in 1..n /\ lo <= hi /\ s[lo] # b /\ s[hi] # b /\ n \in Nat
    BY <1>1, <1>3, <2>1 DEF Shows
  <2>3. lo \in Nat /\ hi \in Nat /\ lo \in Int /\ hi \in Int /\ m \in Nat \ {0} /\ lo + m - 1 = hi
    BY <2>1, <2>2
  <2>4. t \in Seq(P) /\ Len(t) = m /\ \A k \in 1..m : t[k] = s[lo + k - 1]
    <3>1. Within(s, lo, hi)
      BY <2>1, <2>2, <2>3 DEF Within
    <3>2. SubSeq(s, lo, hi) \in Seq(P)
      BY <2>3, <3>1, CutIs
    <3>3. Len(SubSeq(s, lo, hi)) = hi - lo + 1
      BY <2>3, <3>1, CutIs
    <3>4. \A k \in 1..(hi - lo + 1) : SubSeq(s, lo, hi)[k] = s[lo + k - 1]
      BY <2>3, <3>1, CutIs
    <3> QED BY <2>1, <3>2, <3>3, <3>4
  <2>5. t # <<>> /\ t[1] # b /\ t[Len(t)] # b
    <3>1. 1 \in 1..m /\ m \in 1..m /\ lo + 1 - 1 = lo
      BY <2>3
    <3>2. t[1] = s[lo] /\ t[m] = s[hi]
      BY <2>3, <2>4, <3>1
    <3>3. t # <<>>
      BY <2>3, <2>4, EmptySeq
    <3> QED BY <2>2, <2>4, <3>2, <3>3
  <2>6. QueryWords(t) = TypedWords(t) /\ TypedWords(t) # {}
    BY <1>1, <2>4, <2>5, QueryWordsAre
  <2>7. TypedWords(t) = TypedWords(s)
    <3>1. ASSUME NEW w PROVE IsTyped(SubSeq(s, lo, hi), w, b) <=> IsTyped(s, w, b)
      <4>1. Shows(s, lo, hi, b)
        BY <1>1, <1>3
      <4> QED BY <2>3, <4>1, TypedInside
    <3>2. \A w : w \in TypedWords(t) <=> w \in TypedWords(s)
      BY <1>w, <2>1, <2>4, <3>1
    <3> QED BY <3>2
  <2> QED BY <1>3, <2>1, <2>4, <2>5, <2>6, <2>7
<1> QED BY <1>1, <1>2, <1>3, TrimIs

-----------------------------------------------------------------------------
\* What to_lower and EscapeHtml make of a typed text.
Lowered(text) == {ToLower(text)[k] : k \in DOMAIN text}
Characters(text) ==
    Lowered(text) \cup DOMAIN Entity
    \cup UNION {{Entity[p][k] : k \in DOMAIN Entity[p]} : p \in DOMAIN Entity}

LEMMA TextIs ==
    ASSUME NEW text \in Typed
    PROVE  ToLower(text) \in Seq(Characters(text)) /\ Escapable(Characters(text))
<1>1. PICK T : T = Seqs!ToSet(text) /\ text \in Seq(T)
  BY RequestsAssumption, Zenon
<1>2. PICK n, s : n = Len(text) /\ s = ToLower(text)
  OBVIOUS
<1>3. n \in Nat /\ DOMAIN text = 1..n
  BY <1>1, <1>2
<1>4. DOMAIN s = 1..n /\ s = [k \in 1..n |-> s[k]]
  BY <1>2, <1>3 DEF ToLower
<1>5. \A k \in 1..n : s[k] \in Characters(text)
  BY <1>2, <1>3 DEF Characters, Lowered
<1>6. s \in Seq(Characters(text))
  BY <1>3, <1>4, <1>5, Mapped
<1>7. DOMAIN Entity \subseteq Characters(text)
  BY DEF Characters
<1>8. ASSUME NEW p \in DOMAIN Entity PROVE Entity[p] \in Seq(Characters(text))
  <2>1. PICK Q : Q = {Entity[p][k] : k \in DOMAIN Entity[p]}
    OBVIOUS
  <2>2. Entity[p] \in Seq(Q)
    BY <2>1, EntitiesAssumption, Zenon
  <2>3. Q \subseteq Characters(text)
    BY <2>1, Zenon DEF Characters
  <2> QED BY <2>2, <2>3, SmallSeqs
<1> QED BY <1>2, <1>6, <1>7, <1>8 DEF Escapable

\* What is found for a typed text: the text, escaped, and the documents that contain its words.
ShownText(s) == Seqs!FlattenSeq([k \in DOMAIN s |-> Shown(s[k])])
LinksFor(s) == {d \in DocNames : TypedWords(s) # {} /\ TypedWords(s) \subseteq Words[d]}

Found(input) ==
    IF input = <<>> THEN {} ELSE {d \in DocNames : QueryWords(input) \subseteq Words[d]}

LEMMA SearchIs ==
    ASSUME NEW text \in Typed, NEW input, input = Trim(ToLower(text))
    PROVE  /\ EscapeHtml(input) = ShownText(input)
           /\ Found(input) = LinksFor(ToLower(text))
<1>1. PICK s, P : s = ToLower(text) /\ P = Characters(text)
  OBVIOUS
<1>2. s \in Seq(P) /\ Escapable(P) /\ input = Trim(s)
  BY <1>1, TextIs
<1>3. Trim(s) \in Seq(P)
  BY <1>2, TrimmedWords
<1>4. EscapeHtml(input) = ShownText(input)
  BY <1>2, <1>3, EscapedIs DEF ShownText
<1>5. input = <<>> => TypedWords(s) = {}
  BY <1>2, TrimmedWords
<1>6. input # <<>> => QueryWords(input) = TypedWords(s) /\ TypedWords(s) # {}
  BY <1>2, TrimmedWords
<1>7. Found(input) = LinksFor(s)
  <2>1. CASE input = <<>>
    BY <1>5, <2>1 DEF Found, LinksFor
  <2>2. CASE input # <<>>
    BY <1>6, <2>2 DEF Found, LinksFor
  <2> QED BY <2>1, <2>2
<1> QED BY <1>1, <1>4, <1>7

\* The indices that are left are a sequence.
LEMMA StartIndices ==
    ASSUME IsSeq(indices), Start
    PROVE  IsSeq(indices')
<1>1. PICK P : indices \in Seq(P)
  BY DEF IsSeq
<1>2. PICK n, X : /\ n = Len(indices)
                  /\ X = [k \in DOMAIN indices |->
                            IF indices[k] \in {"index", "gone"} THEN <<indices[k]>> ELSE <<>>]
  OBVIOUS
<1>3. indices' = Seqs!FlattenSeq(X)
  BY <1>2, Zenon DEF Start
<1>4. n \in Nat /\ DOMAIN indices = 1..n /\ \A k \in 1..n : indices[k] \in P
  BY <1>1, <1>2
<1>5. DOMAIN X = 1..n /\ X = [k \in 1..n |-> X[k]] /\ \A k \in 1..n : X[k] \in {<<indices[k]>>, <<>>}
  BY <1>2, <1>4
<1>6. \A k \in 1..n : X[k] \in Seq(P)
  <2>1. \A p \in P : <<p>> \in Seq(P)
    BY TuplesType
  <2>2. <<>> \in Seq(P)
    BY EmptySeq
  <2> QED BY <1>4, <1>5, <2>1, <2>2
<1>7. X \in Seq(Seq(P))
  BY <1>4, <1>5, <1>6, Mapped
<1>8. Seqs!FlattenSeq(X) \in Seq(P)
  BY <1>7, FlatType
<1> QED BY <1>3, <1>8 DEF IsSeq

-----------------------------------------------------------------------------
(***************************************************************************)
(* The queries: a thread with a typed text looks for its words, in as many *)
(* indices as there are.                                                   *)
(***************************************************************************)
Understood(text, results) ==
    /\ results.shown = ShownText(Trim(ToLower(text)))
    /\ results.links = LinksFor(ToLower(text))

GoneIsThere == \E k \in 1..Len(indices) : indices[k] = "gone"

Queried(t) ==
    /\ at[t] = "closed" <=> asked[t].kind = "parting"
    /\ asked[t].kind = "typed" =>
          /\ asked[t].text \in Typed /\ uri[t] = QueryURI(asked[t].text)
          /\ at[t] \in {"query", "answered", "crashed"}
          /\ at[t] = "crashed" => GoneIsThere
          /\ at[t] = "answered" => Understood(asked[t].text, page[t])

QueryInv ==
    /\ IsSeq(indices)
    /\ DOMAIN asked = Threads /\ opened \in [Threads -> Nat]
    /\ server = "start" => \A t \in Threads : asked[t].kind = "none"
    /\ \A t \in Threads : Queried(t)

\* One thread moves, after the server has started, or none does.
LEMMA QueryMoves ==
    ASSUME QueryInv, NEW t \in Threads, DOMAIN asked' = Threads, opened' \in [Threads -> Nat],
           server = "serving", UNCHANGED config,
           \A s \in Threads : s # t =>
               asked'[s] = asked[s] /\ uri'[s] = uri[s] /\ at'[s] = at[s] /\ page'[s] = page[s],
           Queried(t)'
    PROVE  QueryInv'
<1>1. indices' = indices /\ server' = server
  BY DEF config
<1>2. ASSUME NEW s \in Threads, s # t PROVE Queried(s)'
  <2>1. asked'[s] = asked[s] /\ uri'[s] = uri[s] /\ at'[s] = at[s] /\ page'[s] = page[s]
    BY <1>2
  <2>2. Queried(s)
    BY DEF QueryInv
  <2>3. GoneIsThere' <=> GoneIsThere
    BY <1>1 DEF GoneIsThere
  <2>4. Understood(asked'[s].text, page'[s]) <=> Understood(asked[s].text, page[s])
    BY <2>1
  <2>5. Understood(asked[s].text, page[s])' <=> Understood(asked'[s].text, page'[s])
    BY DEF Understood
  <2> QED BY <2>1, <2>2, <2>3, <2>4, <2>5, Zenon DEF Queried
<1>3. server' # "start"
  BY <1>1
<1>4. IsSeq(indices')
  BY <1>1 DEF QueryInv
<1>5. \A s \in Threads : Queried(s)'
  BY <1>2
<1> QED BY <1>3, <1>4, <1>5 DEF QueryInv

LEMMA QueryRests ==
    ASSUME QueryInv, asked' = asked, uri' = uri, at' = at, page' = page, UNCHANGED config,
           opened' \in [Threads -> Nat]
    PROVE  QueryInv'
<1>1. indices' = indices /\ server' = server
  BY DEF config
<1>2. ASSUME NEW s \in Threads PROVE Queried(s)'
  <2>1. asked'[s] = asked[s] /\ uri'[s] = uri[s] /\ at'[s] = at[s] /\ page'[s] = page[s]
    OBVIOUS
  <2>2. Queried(s)
    BY DEF QueryInv
  <2>3. GoneIsThere' <=> GoneIsThere
    BY <1>1 DEF GoneIsThere
  <2>4. Understood(asked'[s].text, page'[s]) <=> Understood(asked[s].text, page[s])
    BY <2>1
  <2> QED BY <2>1, <2>2, <2>3, <2>4, Zenon DEF Queried
<1>3. IsSeq(indices')
  BY <1>1 DEF QueryInv
<1>4. server' = "start" => \A s \in Threads : asked'[s].kind = "none"
  BY <1>1 DEF QueryInv
<1>5. DOMAIN asked' = Threads
  BY DEF QueryInv
<1> QED BY <1>2, <1>3, <1>4, <1>5 DEF QueryInv

\* A request is received: the kinds, and where each leads.
LEMMA QueryReceived ==
    ASSUME StaticInv, QueryInv, server = "serving", NEW t \in Threads, NEW what, NEW request,
           Receive(t, what, request), NEW place, at' = [at EXCEPT ![t] = place],
           place = "closed" <=> what.kind = "parting",
           what.kind = "typed" => /\ what.text \in Typed /\ Parsed[request].uri = QueryURI(what.text)
                                  /\ place = "query"
    PROVE  QueryInv'
<1>1. /\ asked' = [asked EXCEPT ![t] = what] /\ uri' = [uri EXCEPT ![t] = Parsed[request].uri]
      /\ page' = [page EXCEPT ![t] = NoPage] /\ opened' = [opened EXCEPT ![t] = 0]
      /\ UNCHANGED config
  BY Zenon DEF Receive
<1>2. /\ DOMAIN asked = Threads /\ DOMAIN at = Threads /\ DOMAIN uri = Threads /\ DOMAIN page = Threads
      /\ opened \in [Threads -> Nat]
  BY DEF StaticInv, QueryInv
<1>3. /\ DOMAIN asked' = Threads /\ asked'[t] = what /\ uri'[t] = Parsed[request].uri /\ at'[t] = place
      /\ opened' \in [Threads -> Nat]
  <2>1. opened' \in [Threads -> Nat]
    BY <1>1, <1>2
  <2> QED BY <1>1, <1>2, <2>1
<1>4. \A s \in Threads : s # t =>
          asked'[s] = asked[s] /\ uri'[s] = uri[s] /\ at'[s] = at[s] /\ page'[s] = page[s]
  BY <1>1, <1>2
<1>5. Queried(t)'
  BY <1>3 DEF Queried
<1> QED BY <1>1, <1>3, <1>4, <1>5, QueryMoves

\* Where the request for a URI leads.
LEMMA ReceivedPlace ==
    ASSUME NEW t \in Threads, NEW what, NEW u, Asked(u), NEW c \in {"keep-alive", "close"},
           NEW request, request = Request(u, c), request \in Requests, Receive(t, what, request)
    PROVE  /\ Parsed[request].uri = u
           /\ at' = [at EXCEPT ![t] = IF c = "close" THEN "closed" ELSE IF IsStatic(u) THEN "path" ELSE "query"]
<1>1. PICK parsed : parsed = Parsed[request]
  OBVIOUS
<1>2. /\ parsed.uri = u /\ DOMAIN parsed.headers = {<<"connection">>}
      /\ parsed.headers[<<"connection">>] = <<c>>
  BY <1>1, UriAsked
<1>3. PICK close : /\ close <=> /\ <<"connection">> \in DOMAIN parsed.headers
                                /\ parsed.headers[<<"connection">>] = <<"close">>
                   /\ at' = [at EXCEPT ![t] = IF close THEN "closed"
                                              ELSE IF IsStatic(parsed.uri) THEN "path" ELSE "query"]
  BY <1>1, Zenon DEF Receive
<1>4. close <=> <<c>> = <<"close">>
  <2>1. <<"connection">> \in DOMAIN parsed.headers
    BY <1>2, Zenon
  <2> QED BY <1>2, <1>3, <2>1, Zenon
<1>5. <<c>> = <<"close">> <=> c = "close"
  <2>1. <<c>> = <<"close">> => <<c>>[1] = <<"close">>[1]
    OBVIOUS
  <2>2. <<c>>[1] = c /\ <<"close">>[1] = "close"
    OBVIOUS
  <2> QED BY <2>1, <2>2
<1> QED BY <1>1, <1>2, <1>3, <1>4, <1>5, Zenon

LEMMA QueryBrowsed ==
    ASSUME StaticInv, QueryInv, server = "serving", NEW t \in Threads, Browse(t)
    PROVE  QueryInv'
<1>1. ASSUME NEW text \in Typed, Type(t, text) PROVE QueryInv'
  <2>1. PICK what, u, request : /\ what = [kind |-> "typed", text |-> text] /\ u = QueryURI(text)
                                /\ request = Request(u, "keep-alive")
    OBVIOUS
  <2>2. Receive(t, what, request)
    BY <1>1, <2>1, Zenon DEF Type
  <2>3. what.kind = "typed" /\ what.kind # "parting" /\ what.text = text
    BY <2>1
  <2>4. request \in Requests
    BY <2>1, Zenon DEF Requests
  <2>5. Asked(u) /\ ~IsStatic(u)
    BY <2>1, QueryAsked, ArgOfQuery
  <2>6. PICK c : c = "keep-alive" /\ c \in {"keep-alive", "close"} /\ c # "close"
    OBVIOUS
  <2>7. request = Request(u, c)
    BY <2>1, <2>6
  <2>8. Parsed[request].uri = u
    BY <2>2, <2>4, <2>5, <2>6, <2>7, ReceivedPlace
  <2>9. at' = [at EXCEPT ![t] = IF c = "close" THEN "closed" ELSE IF IsStatic(u) THEN "path" ELSE "query"]
    BY <2>2, <2>4, <2>5, <2>6, <2>7, ReceivedPlace
  <2>10. PICK place : place = "query" /\ at' = [at EXCEPT ![t] = place]
    BY <2>5, <2>6, <2>9
  <2>11. place # "closed"
    BY <2>10
  <2>12. Parsed[request].uri = QueryURI(what.text) /\ what.text \in Typed
    BY <2>1, <2>3, <2>8
  <2> QED BY <2>2, <2>3, <2>10, <2>11, <2>12, QueryReceived
<1>2. ASSUME NEW u, Asked(u), Request(u, "keep-alive") \in Requests, NEW what,
             what.kind \notin {"typed", "parting"}, Receive(t, what, Request(u, "keep-alive"))
      PROVE  QueryInv'
  <2>1. PICK c : c = "keep-alive" /\ c \in {"keep-alive", "close"} /\ c # "close"
    OBVIOUS
  <2>2. PICK request : request = Request(u, c) /\ request \in Requests /\ Receive(t, what, request)
    BY <1>2, <2>1
  <2>3. at' = [at EXCEPT ![t] = IF c = "close" THEN "closed" ELSE IF IsStatic(u) THEN "path" ELSE "query"]
    BY <1>2, <2>1, <2>2, ReceivedPlace
  <2>4. PICK place : place \in {"path", "query"} /\ at' = [at EXCEPT ![t] = place]
    BY <2>1, <2>3
  <2>5. place # "closed" /\ what.kind # "parting" /\ what.kind # "typed"
    BY <1>2, <2>4
  <2> QED BY <2>2, <2>4, <2>5, QueryReceived
<1>3. ASSUME NEW u \in StaticURIs, Visit(t, u) PROVE QueryInv'
  <2>1. PICK what : what = [kind |-> "uri", text |-> u]
    OBVIOUS
  <2>2. Receive(t, what, Request(u, "keep-alive"))
    BY <1>3, <2>1, Zenon DEF Visit
  <2>3. what.kind \notin {"typed", "parting"}
    BY <2>1
  <2>4. Request(u, "keep-alive") \in Requests
    BY Zenon DEF Requests
  <2>5. Asked(u)
    BY StaticAsked
  <2> QED BY <1>2, <2>2, <2>3, <2>4, <2>5
<1>4. ASSUME NEW name \in DocNames, Follow(t, name) PROVE QueryInv'
  <2>1. PICK what, u : what = [kind |-> "link", text |-> name] /\ u = LinkURI(name)
    OBVIOUS
  <2>2. Receive(t, what, Request(u, "keep-alive"))
    BY <1>4, <2>1, Zenon DEF Follow
  <2>3. what.kind \notin {"typed", "parting"}
    BY <2>1
  <2>4. Request(u, "keep-alive") \in Requests
    BY <2>1, Zenon DEF Requests
  <2>5. Asked(u)
    BY <2>1, LinkAsked
  <2> QED BY <1>2, <2>2, <2>3, <2>4, <2>5
<1>5. ASSUME Part(t) PROVE QueryInv'
  <2>1. PICK what, u, c : what = [kind |-> "parting"] /\ u = <<"/">> /\ c = "close"
    OBVIOUS
  <2>2. PICK request : request = Request(u, c) /\ Receive(t, what, request) /\ request \in Requests
    <3>1. Receive(t, what, Request(<<"/">>, "close"))
      BY <1>5, <2>1, Zenon DEF Part
    <3>2. Request(<<"/">>, "close") \in Requests
      BY Zenon DEF Requests
    <3> QED BY <2>1, <3>1, <3>2
  <2>3. what.kind = "parting" /\ what.kind # "typed"
    BY <2>1
  <2>4. Asked(u) /\ c \in {"keep-alive", "close"}
    BY <2>1, RootAsked
  <2>5. at' = [at EXCEPT ![t] = IF c = "close" THEN "closed" ELSE IF IsStatic(u) THEN "path" ELSE "query"]
    BY <2>2, <2>4, ReceivedPlace
  <2>6. PICK place : place = "closed" /\ at' = [at EXCEPT ![t] = place]
    BY <2>1, <2>5
  <2> QED BY <2>2, <2>3, <2>6, QueryReceived
<1> QED BY <1>1, <1>3, <1>4, <1>5 DEF Browse

\* An answer to a query, or to a request for a file; nobody is hung up on.
LEMMA QueryAnswers ==
    ASSUME StaticInv, QueryInv, server = "serving", NEW t \in Threads, NEW response, Answer(t, response),
           at[t] # "closed",
           asked[t].kind = "typed" => Understood(asked[t].text, response)
    PROVE  QueryInv'
<1>1. /\ at' = [at EXCEPT ![t] = "answered"] /\ page' = [page EXCEPT ![t] = response]
      /\ uri' = uri /\ asked' = asked /\ opened' = opened /\ UNCHANGED config
  BY DEF Answer
<1>2. /\ DOMAIN asked = Threads /\ DOMAIN at = Threads /\ DOMAIN page = Threads
      /\ opened \in [Threads -> Nat] /\ Queried(t)
  BY DEF StaticInv, QueryInv
<1>3. /\ at'[t] = "answered" /\ page'[t] = response /\ uri'[t] = uri[t] /\ asked'[t] = asked[t]
      /\ DOMAIN asked' = Threads /\ opened' \in [Threads -> Nat]
  BY <1>1, <1>2
<1>4. \A s \in Threads : s # t =>
          asked'[s] = asked[s] /\ uri'[s] = uri[s] /\ at'[s] = at[s] /\ page'[s] = page[s]
  BY <1>1, <1>2
<1>5. asked[t].kind # "parting"
  BY <1>2 DEF Queried
<1>6. asked'[t].kind = "typed" => asked'[t].text \in Typed /\ uri'[t] = QueryURI(asked'[t].text)
  BY <1>2, <1>3 DEF Queried
<1>7. asked'[t].kind = "typed" => Understood(asked'[t].text, page'[t])
  BY <1>3
<1>8. at'[t] = "closed" <=> asked'[t].kind = "parting"
  BY <1>3, <1>5
<1>9. Queried(t)'
  BY <1>3, <1>6, <1>7, <1>8 DEF Queried
<1> QED BY <1>1, <1>3, <1>4, <1>9, QueryMoves

LEMMA QueryGoes ==
    ASSUME StaticInv, QueryInv, server = "serving", NEW t \in Threads, NEW place, Goto(t, place),
           at[t] # "closed", place # "closed",
           asked[t].kind = "typed" => place = "crashed" /\ GoneIsThere
    PROVE  QueryInv'
<1>1. /\ at' = [at EXCEPT ![t] = place] /\ page' = page
      /\ uri' = uri /\ asked' = asked /\ opened' = opened /\ UNCHANGED config
  BY DEF Goto
<1>2. /\ DOMAIN asked = Threads /\ DOMAIN at = Threads
      /\ opened \in [Threads -> Nat] /\ Queried(t)
  BY DEF StaticInv, QueryInv
<1>3. /\ at'[t] = place /\ page'[t] = page[t] /\ uri'[t] = uri[t] /\ asked'[t] = asked[t]
      /\ DOMAIN asked' = Threads /\ opened' \in [Threads -> Nat]
  BY <1>1, <1>2
<1>4. \A s \in Threads : s # t =>
          asked'[s] = asked[s] /\ uri'[s] = uri[s] /\ at'[s] = at[s] /\ page'[s] = page[s]
  BY <1>1, <1>2
<1>5. asked[t].kind # "parting"
  BY <1>2 DEF Queried
<1>6. asked'[t].kind = "typed" => asked'[t].text \in Typed /\ uri'[t] = QueryURI(asked'[t].text)
  BY <1>2, <1>3 DEF Queried
<1>7. asked'[t].kind = "typed" => at'[t] = "crashed" /\ GoneIsThere'
  <2>1. indices' = indices
    BY <1>1 DEF config
  <2> QED BY <1>3, <2>1 DEF GoneIsThere
<1>8. at'[t] = "closed" <=> asked'[t].kind = "parting"
  BY <1>3, <1>5
<1>9. Queried(t)'
  BY <1>6, <1>7, <1>8 DEF Queried
<1> QED BY <1>1, <1>3, <1>4, <1>9, QueryMoves

\* What Search finds for a typed text.
LEMMA QueryFinds ==
    ASSUME NEW t \in Threads, Queried(t), asked[t].kind = "typed", NEW shown, NEW links,
           shown = EscapeHtml(Input(t)), links = Found(Input(t))
    PROVE  Understood(asked[t].text, [kind |-> "results", shown |-> shown, links |-> links])
<1>1. PICK text, input, response : /\ text = asked[t].text /\ input = Input(t)
                                   /\ response = [kind |-> "results", shown |-> shown, links |-> links]
  OBVIOUS
<1>2. text \in Typed /\ uri[t] = QueryURI(text)
  BY <1>1 DEF Queried
<1>3. Arg(QueryURI(text), <<"terms">>) = text
  BY <1>2, ArgOfQuery
<1>4. input = Trim(ToLower(text))
  BY <1>1, <1>2, <1>3, Zenon DEF Input
<1>5. EscapeHtml(input) = ShownText(input) /\ Found(input) = LinksFor(ToLower(text))
  BY <1>2, <1>4, SearchIs
<1>6. response.shown = ShownText(Trim(ToLower(text))) /\ response.links = LinksFor(ToLower(text))
  <2>1. response.shown = shown /\ response.links = links
    BY <1>1
  <2> QED BY <1>1, <1>4, <1>5, <2>1
<1> QED BY <1>1, <1>6 DEF Understood

LEMMA QueryHandled ==
    ASSUME StaticInv, QueryInv, server = "serving", NEW t \in Threads, Handle(t)
    PROVE  QueryInv'
<1>1. /\ Queried(t) /\ DOMAIN at = Threads /\ DOMAIN page = Threads /\ DOMAIN asked = Threads
      /\ opened \in [Threads -> Nat] /\ IsSeq(indices)
  BY DEF StaticInv, QueryInv
<1>2. CASE OpenIndex(t) \/ CheckIndex(t) \/ IndexRefused(t)
  <2>1. asked' = asked /\ uri' = uri /\ at' = at /\ page' = page /\ opened' = opened /\ UNCHANGED config
    BY <1>2 DEF OpenIndex, CheckIndex, IndexRefused, webVars
  <2> QED BY <1>1, <2>1, QueryRests
<1>3. CASE IndexAccepted(t)
  <2>1. /\ asked' = asked /\ uri' = uri /\ at' = at /\ page' = page /\ UNCHANGED config
        /\ opened' = [opened EXCEPT ![t] = opened[t] + 1]
    BY <1>3 DEF IndexAccepted
  <2>2. opened[t] + 1 \in Nat
    BY <1>1
  <2>3. opened' \in [Threads -> Nat]
    BY <1>1, <2>1, <2>2
  <2> QED BY <2>1, <2>3, QueryRests
<1>4. CASE OpenNoIndex(t)
  <2>1. at[t] = "query" /\ opened[t] < Len(indices) /\ indices[opened[t] + 1] = "gone" /\ Goto(t, "crashed")
    BY <1>4 DEF OpenNoIndex
  <2>2. GoneIsThere
    <3>1. PICK n, k : n = Len(indices) /\ k = opened[t] + 1
      OBVIOUS
    <3>2. n \in Nat
      <4>1. PICK P : indices \in Seq(P)
        BY <1>1 DEF IsSeq
      <4> QED BY <3>1, <4>1
    <3>3. opened[t] \in Nat /\ opened[t] < n
      BY <1>1, <2>1, <3>1
    <3>4. k \in 1..n
      BY <3>1, <3>2, <3>3
    <3> QED BY <2>1, <3>1, <3>4 DEF GoneIsThere
  <2>3. at[t] # "closed"
    BY <2>1
  <2>4. PICK place : place = "crashed" /\ Goto(t, place) /\ place # "closed"
    BY <2>1
  <2> QED BY <2>2, <2>3, <2>4, QueryGoes
<1>5. CASE Search(t)
  <2>1. PICK shown, links : shown = EscapeHtml(Input(t)) /\ links = Found(Input(t))
    OBVIOUS
  <2>2. at[t] = "query" /\ Answer(t, [kind |-> "results", shown |-> shown, links |-> links])
    BY <1>5, <2>1, Zenon DEF Search, Found
  <2>3. PICK response : response = [kind |-> "results", shown |-> shown, links |-> links]
    OBVIOUS
  <2>4. asked[t].kind = "typed" => Understood(asked[t].text, response)
    BY <1>1, <2>1, <2>3, QueryFinds
  <2>5. at[t] # "closed" /\ Answer(t, response)
    BY <2>2, <2>3
  <2> QED BY <2>4, <2>5, QueryAnswers
<1>6. ASSUME at[t] \in {"path", "read", "load", "type"} PROVE asked[t].kind # "typed" /\ at[t] # "closed"
  BY <1>1, <1>6 DEF Queried
<1>7. ASSUME at[t] \in {"path", "read", "load", "type"}, NEW response, Answer(t, response) PROVE QueryInv'
  BY <1>6, <1>7, QueryAnswers
<1>8. ASSUME at[t] \in {"path", "read", "load", "type"}, NEW place \in {"read", "load", "crashed"},
             Goto(t, place)
      PROVE QueryInv'
  <2>1. place # "closed"
    OBVIOUS
  <2> QED BY <1>6, <1>8, <2>1, QueryGoes
<1>9. CASE CheckPath(t)
  BY <1>7, <1>8, <1>9 DEF CheckPath, NotFound
<1>10. CASE CheckFullFile(t)
  BY <1>7, <1>8, <1>10 DEF CheckFullFile, NotFound
<1>11. CASE ReadFile(t)
  <2>1. PICK response : page' = [page EXCEPT ![t] = response]
    BY <1>11, Zenon DEF ReadFile
  <2>2. /\ at[t] = "load" /\ at' = [at EXCEPT ![t] = "type"] /\ uri' = uri /\ asked' = asked
        /\ opened' = opened /\ UNCHANGED config
    BY <1>11 DEF ReadFile
  <2>3. /\ at'[t] = "type" /\ asked'[t] = asked[t] /\ DOMAIN asked' = Threads
        /\ opened' \in [Threads -> Nat]
    BY <1>1, <2>2
  <2>4. \A s \in Threads : s # t =>
            asked'[s] = asked[s] /\ uri'[s] = uri[s] /\ at'[s] = at[s] /\ page'[s] = page[s]
    BY <1>1, <2>1, <2>2
  <2>5. asked'[t].kind # "typed" /\ asked'[t].kind # "parting" /\ at'[t] # "closed"
    BY <1>1, <1>6, <2>2, <2>3 DEF Queried
  <2>6. Queried(t)'
    BY <2>5 DEF Queried
  <2> QED BY <2>2, <2>3, <2>4, <2>6, QueryMoves
<1>12. CASE ReadNothing(t)
  BY <1>8, <1>12 DEF ReadNothing
<1>13. CASE SetContentType(t)
  BY <1>7, <1>8, <1>13 DEF SetContentType
<1> QED BY <1>2, <1>3, <1>4, <1>5, <1>9, <1>10, <1>11, <1>12, <1>13 DEF Handle

LEMMA QueryInit == Init => QueryInv
<1> SUFFICES ASSUME Init PROVE QueryInv
  OBVIOUS
<1>1. IsSeq(indices)
  <2>1. PICK P : Arguments \subseteq Seq(P)
    BY ArgumentsAssumption
  <2>2. indices \in Arguments
    BY DEF Init
  <2> QED BY <2>1, <2>2 DEF IsSeq
<1>2. DOMAIN asked = Threads /\ opened \in [Threads -> Nat]
  BY DEF Init
<1>3. ASSUME NEW t \in Threads PROVE asked[t].kind = "none" /\ at[t] = "idle"
  BY DEF Init
<1>4. ASSUME NEW t \in Threads PROVE Queried(t)
  <2>1. asked[t].kind # "parting" /\ asked[t].kind # "typed" /\ at[t] # "closed"
    BY <1>3
  <2> QED BY <2>1 DEF Queried
<1> QED BY <1>1, <1>2, <1>3, <1>4 DEF QueryInv

LEMMA QueryNext == StaticInv /\ QueryInv /\ [Next]_vars => QueryInv'
<1> SUFFICES ASSUME StaticInv, QueryInv, [Next]_vars PROVE QueryInv'
  OBVIOUS
<1>o. opened \in [Threads -> Nat]
  BY DEF QueryInv
<1>1. CASE UNCHANGED vars \/ Over
  <2>1. /\ asked' = asked /\ uri' = uri /\ at' = at /\ page' = page /\ opened' = opened /\ UNCHANGED config
    BY <1>1 DEF vars, webVars, Over
  <2> QED BY <1>o, <2>1, QueryRests
<1>2. CASE Start
  <2>1. server = "start" /\ asked' = asked /\ uri' = uri /\ at' = at /\ page' = page /\ opened' = opened
    BY <1>2, Zenon DEF Start
  <2>2. IsSeq(indices')
    BY <1>2, StartIndices DEF QueryInv
  <2>3. \A t \in Threads : asked'[t].kind = "none"
    BY <2>1 DEF QueryInv
  <2>4. ASSUME NEW t \in Threads PROVE Queried(t)'
    <3>1. at'[t] # "closed" /\ asked'[t].kind # "parting" /\ asked'[t].kind # "typed"
      BY <2>1, <2>3 DEF QueryInv, Queried
    <3> QED BY <3>1 DEF Queried
  <2> QED BY <1>o, <2>1, <2>2, <2>3, <2>4 DEF QueryInv
<1>3. ASSUME NEW name, Remove(name) PROVE QueryInv'
  <2>1. /\ asked' = asked /\ uri' = uri /\ at' = at /\ page' = page /\ opened' = opened /\ UNCHANGED config
    BY <1>3 DEF Remove
  <2> QED BY <1>o, <2>1, QueryRests
<1>4. Alive => server = "serving"
  BY DEF Alive
<1>5. ASSUME Alive, NEW t \in Threads, Handle(t) PROVE QueryInv'
  BY <1>4, <1>5, QueryHandled
<1>6. ASSUME Alive, NEW t \in Threads, Browse(t) PROVE QueryInv'
  BY <1>4, <1>6, QueryBrowsed
<1> QED BY <1>1, <1>2, <1>3, <1>5, <1>6 DEF Next

LEMMA QueryInvSuffices == QueryInv => QueryUnderstood
<1> SUFFICES ASSUME QueryInv, NEW t \in Threads
             PROVE  /\ at[t] = "closed" <=> asked[t].kind = "parting"
                    /\ asked[t].kind = "typed" =>
                       /\ at[t] = "crashed" => \E k \in 1..Len(indices) : indices[k] = "gone"
                       /\ at[t] = "answered" =>
                             LET text == ToLower(asked[t].text)
                                 Show(p) == IF p \in DOMAIN Entity THEN Entity[p] ELSE <<p>>
                             IN  /\ page[t].shown = Seqs!FlattenSeq([k \in DOMAIN Trim(text) |-> Show(Trim(text)[k])])
                                 /\ page[t].links = {d \in DocNames :
                                        TypedWords(text) # {} /\ TypedWords(text) \subseteq Words[d]}
  BY DEF QueryUnderstood
<1>1. Queried(t)
  BY DEF QueryInv
<1>2. ASSUME asked[t].kind = "typed", at[t] = "answered"
      PROVE  LET text == ToLower(asked[t].text)
                 Show(p) == IF p \in DOMAIN Entity THEN Entity[p] ELSE <<p>>
             IN  /\ page[t].shown = Seqs!FlattenSeq([k \in DOMAIN Trim(text) |-> Show(Trim(text)[k])])
                 /\ page[t].links = {d \in DocNames :
                        TypedWords(text) # {} /\ TypedWords(text) \subseteq Words[d]}
  <2>1. Understood(asked[t].text, page[t])
    BY <1>1, <1>2 DEF Queried
  <2> QED BY <2>1 DEF Understood, ShownText, LinksFor, Shown
<1> QED BY <1>1, <1>2 DEF Queried, GoneIsThere

\* What is typed comes out of form encoding, URLParser, trim, to_lower and split as the
\* words that were typed, the page shows it escaped once, the server lives to answer unless
\* it was started with an index that is not one, and hangs up on who says so and nobody else.
THEOREM QueriesUnderstood == Spec => []QueryUnderstood
<1>1. StaticInv /\ QueryInv => QueryUnderstood
  BY QueryInvSuffices
<1>2. Init => StaticInv /\ QueryInv
  BY StaticInit, QueryInit
<1>3. StaticInv /\ QueryInv /\ [Next]_vars => (StaticInv /\ QueryInv)'
  BY StaticNext, QueryNext
<1> QED BY <1>1, <1>2, <1>3, PTL DEF Spec
=============================================================================
