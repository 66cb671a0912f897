-------------------------- MODULE IndexFile_proofs --------------------------
(***************************************************************************)
(* The index files of hw3, for every size of everything: what the writers  *)
(* leave tiles the file, hw3fsck accepts it, the readers find in it what   *)
(* was written, the answers to queries are what RankedSearch promises, and *)
(* the file gets on disk in the right order.                               *)
(***************************************************************************)
EXTENDS QueryProcessor, IndexFile, FiniteSetTheorems, FunctionTheorems, SequenceTheorems,
        WellFoundedInduction, TLAPS

-----------------------------------------------------------------------------
(***************************************************************************)
(* Natural numbers: least elements, and induction over a set of them.      *)
(***************************************************************************)
LEMMA LeastElement ==
    ASSUME NEW T, T \subseteq Nat, T # {}
    PROVE  \E x \in T : \A y \in T : x <= y
<1> DEFINE R == OpToRel(<, Nat)
<1>1. IsWellFoundedOn(R, Nat)
  BY NatLessThanWellFounded
<1>2. \A x, y \in Nat : y < x => <<y, x>> \in R
  BY DEF OpToRel
<1> HIDE DEF R
<1>3. PICK x \in T : \A y \in T : ~(<<y, x>> \in R)
  BY <1>1, WFMin
<1>4. ASSUME NEW y \in T PROVE x <= y
  <2>1. x \in Nat /\ y \in Nat
    OBVIOUS
  <2>2. ~(y < x)
    BY <1>2, <1>3, <2>1
  <2> QED BY <2>1, <2>2
<1> QED BY <1>3, <1>4

LEMMA Induction ==
    ASSUME NEW S, 0 \in S, \A n \in Nat : n \in S => n + 1 \in S
    PROVE  Nat \subseteq S
<1> SUFFICES ASSUME Nat \ S # {} PROVE FALSE
  OBVIOUS
<1>1. PICK n \in Nat \ S : \A m \in Nat \ S : n <= m
  BY LeastElement
<1>2. n # 0 /\ n - 1 \in Nat /\ n - 1 < n /\ (n - 1) + 1 = n
  BY <1>1
<1>3. n - 1 \in S
  BY <1>1, <1>2
<1> QED BY <1>1, <1>2, <1>3

-----------------------------------------------------------------------------
(***************************************************************************)
(* What is written at one place: it stays within its bytes, and no field   *)
(* overlaps another.  The gaps are its bytes that no field covers.         *)
(***************************************************************************)
Behind(f, g) == At(f) + Size(f) <= At(g)

Fits(w, at) ==
    /\ w.bytes \in Nat
    /\ \A f \in w.fields : /\ At(f) \in Nat /\ Size(f) \in Nat \ {0}
                           /\ at <= At(f) /\ At(f) + Size(f) <= at + w.bytes
    /\ \A f, g \in w.fields : f # g => Behind(f, g) \/ Behind(g, f)

Gaps(w, at) == {b \in at..(at + w.bytes - 1) : \A f \in w.fields : b \notin Bytes(f)}

LEMMA WrittenIs ==
    ASSUME NEW F, NEW n
    PROVE  Written(F, n).fields = F /\ Written(F, n).bytes = n
BY DEF Written

LEMMA FieldIs ==
    ASSUME NEW at, NEW size, NEW val
    PROVE  /\ At(Field(at, size, val)) = at /\ Size(Field(at, size, val)) = size
           /\ Val(Field(at, size, val)) = val
BY DEF At, Size, Val, Field

\* One field.
LEMMA FieldFits ==
    ASSUME NEW at \in Nat, NEW size \in Nat \ {0}, NEW val
    PROVE  /\ Fits(Written({Field(at, size, val)}, size), at)
           /\ Gaps(Written({Field(at, size, val)}, size), at) = {}
<1>1. PICK f : f = Field(at, size, val)
  OBVIOUS
<1>2. At(f) = at /\ Size(f) = size
  BY <1>1, FieldIs
<1>3. PICK w : w = Written({f}, size)
  OBVIOUS
<1>4. w.fields = {f} /\ w.bytes = size
  BY <1>3, WrittenIs
<1>5. Fits(w, at)
  BY <1>2, <1>4 DEF Fits
<1>6. Gaps(w, at) = {}
  BY <1>2, <1>4 DEF Gaps, Bytes
<1> QED BY <1>1, <1>3, <1>5, <1>6

\* One thing behind the other.
Both(v, w) == Written(v.fields \cup w.fields, v.bytes + w.bytes)

LEMMA BothFit ==
    ASSUME NEW v, NEW w, NEW at \in Nat, Fits(v, at), Fits(w, at + v.bytes)
    PROVE  /\ Fits(Both(v, w), at)
           /\ Gaps(Both(v, w), at) = Gaps(v, at) \cup Gaps(w, at + v.bytes)
<1>1. PICK u : u = Both(v, w)
  OBVIOUS
<1>2. u.fields = v.fields \cup w.fields /\ u.bytes = v.bytes + w.bytes
  BY <1>1, WrittenIs DEF Both
<1>3. PICK m \in Nat, n \in Nat : m = v.bytes /\ n = w.bytes
  BY DEF Fits
<1>4. \A f \in v.fields : /\ At(f) \in Nat /\ Size(f) \in Nat \ {0}
                          /\ at <= At(f) /\ At(f) + Size(f) <= at + m
  BY <1>3 DEF Fits
<1>5. \A f \in w.fields : /\ At(f) \in Nat /\ Size(f) \in Nat \ {0}
                          /\ at + m <= At(f) /\ At(f) + Size(f) <= at + m + n
  BY <1>3 DEF Fits
<1>6. Fits(u, at)
  <2>1. u.bytes \in Nat
    BY <1>2, <1>3
  <2>2. \A f \in u.fields : /\ At(f) \in Nat /\ Size(f) \in Nat \ {0}
                            /\ at <= At(f) /\ At(f) + Size(f) <= at + u.bytes
    BY <1>2, <1>3, <1>4, <1>5
  <2>3. ASSUME NEW f \in u.fields, NEW g \in u.fields, f # g
        PROVE  Behind(f, g) \/ Behind(g, f)
    <3>1. CASE f \in v.fields /\ g \in v.fields
      BY <2>3, <3>1 DEF Fits
    <3>2. CASE f \in w.fields /\ g \in w.fields
      BY <2>3, <3>2 DEF Fits
    <3>3. CASE f \in v.fields /\ g \in w.fields
      BY <1>4, <1>5, <3>3 DEF Behind
    <3>4. CASE g \in v.fields /\ f \in w.fields
      BY <1>4, <1>5, <3>4 DEF Behind
    <3> QED BY <1>2, <3>1, <3>2, <3>3, <3>4
  <2> QED BY <2>1, <2>2, <2>3 DEF Fits
<1>7. Gaps(u, at) = Gaps(v, at) \cup Gaps(w, at + m)
  <2>1. ASSUME NEW b \in at..(at + m - 1)
        PROVE  b \in Gaps(u, at) <=> b \in Gaps(v, at) \cup Gaps(w, at + m)
    <3>1. b \in at..(at + u.bytes - 1) /\ b \notin (at + m)..(at + m + n - 1)
      BY <1>2, <1>3
    <3>2. \A f \in w.fields : b \notin Bytes(f)
      BY <1>5 DEF Bytes
    <3> QED BY <1>2, <1>3, <3>1, <3>2 DEF Gaps
  <2>2. ASSUME NEW b \in (at + m)..(at + m + n - 1)
        PROVE  b \in Gaps(u, at) <=> b \in Gaps(v, at) \cup Gaps(w, at + m)
    <3>1. b \in at..(at + u.bytes - 1) /\ b \notin at..(at + m - 1)
      BY <1>2, <1>3
    <3>2. \A f \in v.fields : b \notin Bytes(f)
      BY <1>4 DEF Bytes
    <3> QED BY <1>2, <1>3, <3>1, <3>2 DEF Gaps
  <2>3. ASSUME NEW b, b \notin at..(at + m - 1), b \notin (at + m)..(at + m + n - 1)
        PROVE  b \notin Gaps(u, at) /\ b \notin Gaps(v, at) \cup Gaps(w, at + m)
    <3>1. b \notin at..(at + u.bytes - 1)
      BY <1>2, <1>3, <2>3
    <3> QED BY <1>3, <2>3, <3>1 DEF Gaps
  <2> QED BY <2>1, <2>2, <2>3
<1> QED BY <1>1, <1>3, <1>6, <1>7

\* Records of so many bytes, one behind the other.
Records(at, n, size, val) == {Field(at + (k - 1) * size, size, val[k]) : k \in 1..n}

LEMMA RecordsFit ==
    ASSUME NEW at \in Nat, NEW n \in Nat, NEW size \in {4, 8}, NEW val
    PROVE  /\ Fits(Written(Records(at, n, size, val), n * size), at)
           /\ Gaps(Written(Records(at, n, size, val), n * size), at) = {}
<1>1. PICK R : R = Records(at, n, size, val)
  OBVIOUS
<1>2. PICK w : w = Written(R, n * size)
  OBVIOUS
<1>3. w.fields = R /\ w.bytes = n * size /\ n * size \in Nat
  BY <1>2, WrittenIs
<1>4. \A f \in R : \E k \in 1..n : f = Field(at + (k - 1) * size, size, val[k])
  BY <1>1 DEF Records
<1>5. \A k \in 1..n : Field(at + (k - 1) * size, size, val[k]) \in R
  BY <1>1 DEF Records
<1>6. \A k \in 1..n : /\ At(Field(at + (k - 1) * size, size, val[k])) = at + (k - 1) * size
                      /\ Size(Field(at + (k - 1) * size, size, val[k])) = size
  BY FieldIs
<1>7. \A f \in R : /\ At(f) \in Nat /\ Size(f) \in Nat \ {0}
                   /\ at <= At(f) /\ At(f) + Size(f) <= at + n * size
  <2>1. SUFFICES ASSUME NEW f \in R
                 PROVE  /\ At(f) \in Nat /\ Size(f) \in Nat \ {0}
                        /\ at <= At(f) /\ At(f) + Size(f) <= at + n * size
    OBVIOUS
  <2>2. PICK k \in 1..n : f = Field(at + (k - 1) * size, size, val[k])
    BY <1>4
  <2>3. At(f) = at + (k - 1) * size /\ Size(f) = size
    BY <1>6, <2>2
  <2>4. CASE size = 4
    BY <2>3, <2>4
  <2>5. CASE size = 8
    BY <2>3, <2>5
  <2> QED BY <2>4, <2>5
<1>8. ASSUME NEW f \in R, NEW g \in R, f # g PROVE Behind(f, g) \/ Behind(g, f)
  <2>1. PICK k \in 1..n : f = Field(at + (k - 1) * size, size, val[k])
    BY <1>4
  <2>2. PICK m \in 1..n : g = Field(at + (m - 1) * size, size, val[m])
    BY <1>4
  <2>3. k # m
    BY <1>8, <2>1, <2>2
  <2>4. /\ At(f) = at + (k - 1) * size /\ Size(f) = size
        /\ At(g) = at + (m - 1) * size /\ Size(g) = size
    BY <1>6, <2>1, <2>2
  <2>5. CASE size = 4
    BY <2>3, <2>4, <2>5 DEF Behind
  <2>6. CASE size = 8
    BY <2>3, <2>4, <2>6 DEF Behind
  <2> QED BY <2>5, <2>6
<1>9. Fits(w, at)
  BY <1>3, <1>7, <1>8 DEF Fits
<1>10. ASSUME NEW b \in at..(at + n * size - 1) PROVE \E f \in R : b \in Bytes(f)
  <2>1. PICK k \in 1..n : at + (k - 1) * size <= b /\ b < at + (k - 1) * size + size
    <3>1. CASE size = 4
      <4>1. PICK k \in Nat : k = (b - at) \div 4
        OBVIOUS
      <4>2. k + 1 \in 1..n /\ at + ((k + 1) - 1) * 4 <= b /\ b < at + ((k + 1) - 1) * 4 + 4
        BY <1>10, <3>1, <4>1
      <4> QED BY <3>1, <4>2
    <3>2. CASE size = 8
      <4>1. PICK k \in Nat : k = (b - at) \div 8
        OBVIOUS
      <4>2. k + 1 \in 1..n /\ at + ((k + 1) - 1) * 8 <= b /\ b < at + ((k + 1) - 1) * 8 + 8
        BY <1>10, <3>2, <4>1
      <4> QED BY <3>2, <4>2
    <3> QED BY <3>1, <3>2
  <2>2. PICK f \in R : f = Field(at + (k - 1) * size, size, val[k])
    BY <1>5
  <2>3. At(f) = at + (k - 1) * size /\ Size(f) = size
    BY <1>6, <2>2
  <2>4. PICK a \in Nat : a = at + (k - 1) * size
    <3>1. CASE size = 4
      BY <3>1
    <3>2. CASE size = 8
      BY <3>2
    <3> QED BY <3>1, <3>2
  <2>5. a <= b /\ b < a + size /\ At(f) = a
    BY <2>1, <2>3, <2>4
  <2> QED BY <2>3, <2>5 DEF Bytes
<1>11. Gaps(w, at) = {}
  BY <1>3, <1>10 DEF Gaps
<1> QED BY <1>1, <1>2, <1>9, <1>11

-----------------------------------------------------------------------------
(***************************************************************************)
(* Pieces one behind the other.                                            *)
(***************************************************************************)
IsPlaces(start, pieces, n, f) ==
    f = [k \in 1..(n + 1) |-> IF k = 1 THEN start
                              ELSE f[k - 1] + pieces[k - 1][f[k - 1]].bytes]

LEMMA PlacesExist ==
    ASSUME NEW start, NEW pieces, NEW n \in Nat
    PROVE  \E f : IsPlaces(start, pieces, n, f)
<1> DEFINE S == {m \in Nat : \E f : IsPlaces(start, pieces, m, f)}
<1>1. 0 \in S
  <2>1. IsPlaces(start, pieces, 0, [k \in 1..1 |-> start])
    BY DEF IsPlaces
  <2> QED BY <2>1
<1>2. ASSUME NEW m \in Nat, m \in S PROVE m + 1 \in S
  <2>1. PICK f : IsPlaces(start, pieces, m, f)
    BY <1>2
  <2>2. PICK last : last = f[m + 1] + pieces[m + 1][f[m + 1]].bytes
    OBVIOUS
  <2> DEFINE g == [k \in 1..(m + 2) |-> IF k = m + 2 THEN last ELSE f[k]]
  <2>3. ASSUME NEW k \in 1..(m + 2)
        PROVE  g[k] = IF k = 1 THEN start ELSE g[k - 1] + pieces[k - 1][g[k - 1]].bytes
    <3>1. CASE k = 1
      BY <3>1, <2>1 DEF IsPlaces
    <3>2. CASE k \in 2..(m + 1)
      <4>1. g[k] = f[k] /\ g[k - 1] = f[k - 1] /\ k \in 1..(m + 1) /\ k # 1
        BY <3>2
      <4>2. f[k] = f[k - 1] + pieces[k - 1][f[k - 1]].bytes
        BY <2>1, <4>1 DEF IsPlaces
      <4> QED BY <4>1, <4>2
    <3>3. CASE k = m + 2
      <4>1. g[k] = last /\ g[k - 1] = f[m + 1] /\ k # 1 /\ k - 1 = m + 1
        BY <3>3
      <4> QED BY <2>2, <4>1
    <3> QED BY <3>1, <3>2, <3>3
  <2>4. IsPlaces(start, pieces, m + 1, g)
    <3>1. DOMAIN g = 1..((m + 1) + 1)
      OBVIOUS
    <3> QED BY <2>3, <3>1 DEF IsPlaces
  <2> QED BY <2>4
<1>3. Nat \subseteq S
  BY <1>1, <1>2, Induction
<1> QED BY <1>3

LEMMA PlacesDef ==
    ASSUME NEW start, NEW pieces, Len(pieces) \in Nat
    PROVE  IsPlaces(start, pieces, Len(pieces), Places(start, pieces))
<1>1. Places(start, pieces) = CHOOSE f : IsPlaces(start, pieces, Len(pieces), f)
  BY DEF Places, IsPlaces
<1>2. \E f : IsPlaces(start, pieces, Len(pieces), f)
  BY PlacesExist
<1> QED BY <1>1, <1>2, Zenon

\* Pieces that fit wherever they are put.
AllFit(pieces, n) == \A k \in 1..n : \A at \in Nat : Fits(pieces[k][at], at)

\* The places rise from start, each by the bytes of what is put there.
Rising(start, pieces, n, p) ==
    /\ p \in [1..(n + 1) -> Nat] /\ p[1] = start
    /\ \A k \in 1..n : p[k + 1] = p[k] + pieces[k][p[k]].bytes
    /\ \A k, m \in 1..(n + 1) : k <= m => p[k] <= p[m]

LEMMA PlacesRise ==
    ASSUME NEW start \in Nat, NEW pieces, NEW n \in Nat, Len(pieces) = n, AllFit(pieces, n)
    PROVE  Rising(start, pieces, n, Places(start, pieces))
<1>1. PICK p : p = Places(start, pieces)
  OBVIOUS
<1>2. IsPlaces(start, pieces, n, p)
  BY <1>1, PlacesDef
<1>3. DOMAIN p = 1..(n + 1) /\ p[1] = start
  BY <1>2 DEF IsPlaces
<1>4. \A k \in 1..n : p[k + 1] = p[k] + pieces[k][p[k]].bytes
  <2>1. SUFFICES ASSUME NEW k \in 1..n PROVE p[k + 1] = p[k] + pieces[k][p[k]].bytes
    OBVIOUS
  <2>2. k + 1 \in 1..(n + 1) /\ k + 1 # 1 /\ (k + 1) - 1 = k
    OBVIOUS
  <2> QED BY <1>2, <2>2 DEF IsPlaces
<1>5. \A k \in 1..n : p[k] \in Nat => pieces[k][p[k]].bytes \in Nat
  BY DEF AllFit, Fits
<1> DEFINE S == {k \in Nat : k <= n => p[k + 1] \in Nat}
<1>6. 0 \in S
  BY <1>3
<1>7. ASSUME NEW k \in Nat, k \in S PROVE k + 1 \in S
  BY <1>4, <1>5, <1>7
<1>8. Nat \subseteq S
  BY <1>6, <1>7, Induction
<1>9. \A k \in 1..(n + 1) : p[k] \in Nat
  <2>1. SUFFICES ASSUME NEW k \in 1..(n + 1) PROVE p[k] \in Nat
    OBVIOUS
  <2>2. PICK j \in Nat : j + 1 = k /\ j <= n
    <3>1. k - 1 \in Nat /\ (k - 1) + 1 = k /\ k - 1 <= n
      OBVIOUS
    <3> QED BY <3>1
  <2>3. p[j + 1] \in Nat
    BY <1>8, <2>2
  <2> QED BY <2>2, <2>3
<1>10. \A k \in 1..n : p[k] \in Nat /\ p[k + 1] \in Nat /\ p[k] <= p[k + 1]
  <2>1. SUFFICES ASSUME NEW k \in 1..n
                 PROVE  p[k] \in Nat /\ p[k + 1] \in Nat /\ p[k] <= p[k + 1]
    OBVIOUS
  <2>2. k \in 1..(n + 1) /\ k + 1 \in 1..(n + 1)
    OBVIOUS
  <2>3. p[k] \in Nat /\ p[k + 1] \in Nat /\ pieces[k][p[k]].bytes \in Nat
    BY <1>5, <1>9, <2>2
  <2> QED BY <1>4, <2>3
<1>11. ASSUME NEW k \in 1..(n + 1) PROVE \A m \in 1..(n + 1) : k <= m => p[k] <= p[m]
  <2> DEFINE T == {m \in Nat : k <= m /\ m <= n + 1 => p[k] <= p[m]}
  <2>1. 0 \in T
    OBVIOUS
  <2>2. ASSUME NEW m \in Nat, m \in T PROVE m + 1 \in T
    <3>1. CASE k <= m /\ m + 1 <= n + 1
      <4>1. p[k] <= p[m] /\ p[m] <= p[m + 1] /\ p[m] \in Nat /\ p[m + 1] \in Nat /\ p[k] \in Nat
        BY <1>9, <1>10, <2>2, <3>1
      <4> QED BY <4>1
    <3>2. CASE k = m + 1 /\ m + 1 <= n + 1
      BY <1>9, <3>2
    <3> QED BY <3>1, <3>2
  <2>3. Nat \subseteq T
    BY <2>1, <2>2, Induction
  <2> QED BY <2>3
<1>12. p \in [1..(n + 1) -> Nat]
  <2>1. p = [k \in 1..(n + 1) |-> p[k]]
    BY <1>2 DEF IsPlaces
  <2> QED BY <1>9, <2>1
<1> QED BY <1>1, <1>3, <1>4, <1>11, <1>12 DEF Rising

\* What the pieces write together.
Row(start, pieces, n, p) ==
    Written(UNION {pieces[k][p[k]].fields : k \in 1..n}, p[n + 1] - start)

LEMMA RowFits ==
    ASSUME NEW start \in Nat, NEW pieces, NEW n \in Nat, AllFit(pieces, n),
           NEW p, Rising(start, pieces, n, p)
    PROVE  /\ Fits(Row(start, pieces, n, p), start)
           /\ Gaps(Row(start, pieces, n, p), start) =
                  UNION {Gaps(pieces[k][p[k]], p[k]) : k \in 1..n}
<1>1. PICK u : u = Row(start, pieces, n, p)
  OBVIOUS
<1>2. PICK last \in Nat : last = p[n + 1]
  BY DEF Rising
<1>3. /\ u.fields = UNION {pieces[k][p[k]].fields : k \in 1..n} /\ u.bytes = last - start
  BY <1>1, <1>2, WrittenIs DEF Row
<1>4. \A k \in 1..n : /\ p[k] \in Nat /\ p[k + 1] \in Nat
                      /\ start <= p[k] /\ p[k] <= p[k + 1] /\ p[k + 1] <= last
                      /\ pieces[k][p[k]].bytes = p[k + 1] - p[k]
  <2>1. SUFFICES ASSUME NEW k \in 1..n
                 PROVE  /\ p[k] \in Nat /\ p[k + 1] \in Nat
                        /\ start <= p[k] /\ p[k] <= p[k + 1] /\ p[k + 1] <= last
                        /\ pieces[k][p[k]].bytes = p[k + 1] - p[k]
    OBVIOUS
  <2>2. k \in 1..(n + 1) /\ k + 1 \in 1..(n + 1) /\ 1 \in 1..(n + 1) /\ n + 1 \in 1..(n + 1)
    OBVIOUS
  <2>3. p[k] \in Nat /\ p[k + 1] \in Nat /\ p[1] = start /\ pieces[k][p[k]].bytes \in Nat
    BY <2>2 DEF Rising, AllFit, Fits
  <2>4. p[1] <= p[k] /\ p[k] <= p[k + 1] /\ p[k + 1] <= p[n + 1]
    BY <2>2 DEF Rising
  <2>5. p[k + 1] = p[k] + pieces[k][p[k]].bytes
    BY DEF Rising
  <2> QED BY <1>2, <2>3, <2>4, <2>5
<1>5. start <= last
  <2>1. 1 \in 1..(n + 1) /\ n + 1 \in 1..(n + 1) /\ 1 <= n + 1
    OBVIOUS
  <2> QED BY <1>2, <2>1 DEF Rising
<1>6. \A k \in 1..n : \A f \in pieces[k][p[k]].fields :
         /\ At(f) \in Nat /\ Size(f) \in Nat \ {0}
         /\ p[k] <= At(f) /\ At(f) + Size(f) <= p[k + 1]
  <2>1. SUFFICES ASSUME NEW k \in 1..n, NEW f \in pieces[k][p[k]].fields
                 PROVE  /\ At(f) \in Nat /\ Size(f) \in Nat \ {0}
                        /\ p[k] <= At(f) /\ At(f) + Size(f) <= p[k + 1]
    OBVIOUS
  <2>2. PICK a \in Nat, b \in Nat : a = p[k] /\ b = p[k + 1] /\ pieces[k][a].bytes = b - a
    BY <1>4
  <2>3. Fits(pieces[k][a], a) /\ f \in pieces[k][a].fields
    BY <2>2 DEF AllFit
  <2>4. /\ At(f) \in Nat /\ Size(f) \in Nat \ {0}
        /\ a <= At(f) /\ At(f) + Size(f) <= a + (b - a)
    BY <2>2, <2>3 DEF Fits
  <2> QED BY <2>2, <2>4
<1>7. Fits(u, start)
  <2>1. u.bytes \in Nat
    BY <1>3, <1>5
  <2>2. \A f \in u.fields : /\ At(f) \in Nat /\ Size(f) \in Nat \ {0}
                            /\ start <= At(f) /\ At(f) + Size(f) <= start + u.bytes
    <3>1. SUFFICES ASSUME NEW f \in u.fields
                   PROVE  /\ At(f) \in Nat /\ Size(f) \in Nat \ {0}
                          /\ start <= At(f) /\ At(f) + Size(f) <= start + u.bytes
      OBVIOUS
    <3>2. PICK k \in 1..n : f \in pieces[k][p[k]].fields
      BY <1>3
    <3>3. PICK a \in Nat, b \in Nat : /\ a = p[k] /\ b = p[k + 1] /\ start <= a /\ b <= last
                                      /\ a <= At(f) /\ At(f) + Size(f) <= b
      BY <1>4, <1>6, <3>2
    <3>4. At(f) \in Nat /\ Size(f) \in Nat \ {0}
      BY <1>6, <3>2
    <3> QED BY <1>3, <3>3, <3>4
  <2>3. ASSUME NEW f \in u.fields, NEW g \in u.fields, f # g
        PROVE  Behind(f, g) \/ Behind(g, f)
    <3>1. PICK k \in 1..n : f \in pieces[k][p[k]].fields
      BY <1>3
    <3>2. PICK m \in 1..n : g \in pieces[m][p[m]].fields
      BY <1>3
    <3>3. CASE k = m
      <4>1. Fits(pieces[k][p[k]], p[k])
        BY <1>4 DEF AllFit
      <4> QED BY <2>3, <3>1, <3>2, <3>3, <4>1 DEF Fits
    <3>4. ASSUME NEW i1 \in 1..n, NEW i2 \in 1..n, i1 < i2,
                 NEW f1 \in pieces[i1][p[i1]].fields, NEW f2 \in pieces[i2][p[i2]].fields
          PROVE  Behind(f1, f2)
      <4>1. i1 + 1 \in 1..(n + 1) /\ i2 \in 1..(n + 1) /\ i1 + 1 <= i2
        BY <3>4
      <4>2. p[i1 + 1] <= p[i2] /\ p[i1 + 1] \in Nat /\ p[i2] \in Nat
        BY <4>1 DEF Rising
      <4>3. /\ At(f1) \in Nat /\ Size(f1) \in Nat /\ At(f1) + Size(f1) <= p[i1 + 1]
            /\ At(f2) \in Nat /\ p[i2] <= At(f2)
        BY <1>6, <3>4
      <4> QED BY <4>2, <4>3 DEF Behind
    <3>5. CASE k < m
      BY <3>1, <3>2, <3>4, <3>5
    <3>6. CASE m < k
      BY <3>1, <3>2, <3>4, <3>6
    <3> QED BY <3>3, <3>5, <3>6
  <2> QED BY <2>1, <2>2, <2>3 DEF Fits
<1>8. ASSUME NEW b \in start..(last - 1) PROVE \E k \in 1..n : b \in p[k]..(p[k + 1] - 1)
  <2> DEFINE T == {k \in 1..(n + 1) : b < p[k]}
  <2>1. n + 1 \in T
    BY <1>2, <1>8
  <2>2. PICK k \in T : \A m \in T : k <= m
    <3>1. T \subseteq Nat /\ T # {}
      BY <2>1
    <3> HIDE DEF T
    <3> QED BY <3>1, LeastElement
  <2>3. k # 1
    BY <1>8, <2>2 DEF Rising
  <2>4. k - 1 \in 1..n /\ k - 1 \notin T /\ (k - 1) + 1 = k
    BY <2>2, <2>3
  <2>5. ~(b < p[k - 1]) /\ p[k - 1] \in Nat /\ p[k] \in Nat /\ b < p[k]
    BY <1>4, <2>2, <2>4
  <2> QED BY <2>4, <2>5
<1>9. ASSUME NEW k \in 1..n, NEW b \in p[k]..(p[k + 1] - 1), NEW m \in 1..n, m # k,
             NEW f \in pieces[m][p[m]].fields
      PROVE  b \notin Bytes(f)
  <2>1. /\ At(f) \in Nat /\ Size(f) \in Nat \ {0} /\ p[m] \in Nat /\ p[m + 1] \in Nat
        /\ p[m] <= At(f) /\ At(f) + Size(f) <= p[m + 1] /\ p[k] \in Nat /\ p[k + 1] \in Nat
    BY <1>4, <1>6
  <2>2. CASE m < k
    <3>1. m + 1 \in 1..(n + 1) /\ k \in 1..(n + 1) /\ m + 1 <= k
      BY <2>2
    <3>2. p[m + 1] <= p[k]
      BY <3>1 DEF Rising
    <3> QED BY <2>1, <3>2 DEF Bytes
  <2>3. CASE k < m
    <3>1. k + 1 \in 1..(n + 1) /\ m \in 1..(n + 1) /\ k + 1 <= m
      BY <2>3
    <3>2. p[k + 1] <= p[m]
      BY <3>1 DEF Rising
    <3> QED BY <2>1, <3>2 DEF Bytes
  <2> QED BY <1>9, <2>2, <2>3
<1>10. Gaps(u, start) = UNION {Gaps(pieces[k][p[k]], p[k]) : k \in 1..n}
  <2>1. \A k \in 1..n : \A b : b \in Gaps(pieces[k][p[k]], p[k]) <=>
           b \in p[k]..(p[k + 1] - 1) /\ \A f \in pieces[k][p[k]].fields : b \notin Bytes(f)
    <3>1. SUFFICES ASSUME NEW k \in 1..n
                   PROVE  \A b : b \in Gaps(pieces[k][p[k]], p[k]) <=>
                             /\ b \in p[k]..(p[k + 1] - 1)
                             /\ \A f \in pieces[k][p[k]].fields : b \notin Bytes(f)
      OBVIOUS
    <3>2. p[k] + pieces[k][p[k]].bytes - 1 = p[k + 1] - 1
      BY <1>4
    <3> QED BY <3>2 DEF Gaps
  <2>2. \A b : b \in Gaps(u, start) <=>
           b \in start..(last - 1) /\ \A f \in u.fields : b \notin Bytes(f)
    <3>1. start + u.bytes - 1 = last - 1
      BY <1>3
    <3> QED BY <3>1 DEF Gaps
  <2>3. ASSUME NEW b \in Gaps(u, start)
        PROVE  b \in UNION {Gaps(pieces[k][p[k]], p[k]) : k \in 1..n}
    <3>1. PICK k \in 1..n : b \in p[k]..(p[k + 1] - 1)
      BY <1>8, <2>2
    <3>2. \A f \in pieces[k][p[k]].fields : b \notin Bytes(f)
      BY <1>3, <2>2
    <3>3. b \in Gaps(pieces[k][p[k]], p[k])
      BY <2>1, <3>1, <3>2
    <3> QED BY <3>3
  <2>4. ASSUME NEW b \in UNION {Gaps(pieces[k][p[k]], p[k]) : k \in 1..n}
        PROVE  b \in Gaps(u, start)
    <3>1. PICK k \in 1..n : b \in Gaps(pieces[k][p[k]], p[k])
      OBVIOUS
    <3>2. b \in p[k]..(p[k + 1] - 1) /\ \A f \in pieces[k][p[k]].fields : b \notin Bytes(f)
      BY <2>1, <3>1
    <3>3. b \in start..(last - 1)
      BY <1>4, <3>2
    <3>4. \A f \in u.fields : b \notin Bytes(f)
      BY <1>3, <1>9, <3>2
    <3> QED BY <2>2, <3>3, <3>4
  <2> QED BY <2>3, <2>4
<1> QED BY <1>1, <1>7, <1>10

-----------------------------------------------------------------------------
(***************************************************************************)
(* Buckets and tables.                                                     *)
(***************************************************************************)
ElementPos(at, bucket) == Places(at + Len(bucket) * ElementPositionRecord, bucket)

\* The gaps of w are those of the pieces.
GapsOf(w, at, pieces, n, p) ==
    \A x : x \in Gaps(w, at) <=> \E k \in 1..n : x \in Gaps(pieces[k][p[k]], p[k])

LEMMA BucketIs ==
    ASSUME NEW at \in Nat, NEW bucket, NEW n \in Nat, Len(bucket) = n, AllFit(bucket, n),
           NEW p, p = ElementPos(at, bucket)
    PROVE  /\ Rising(at + n * 4, bucket, n, p)
           /\ Fits(WriteHTBucket(at, bucket), at)
           /\ WriteHTBucket(at, bucket).bytes = p[n + 1] - at
           /\ \A k \in 1..n : /\ Field(at + (k - 1) * 4, 4, p[k]) \in WriteHTBucket(at, bucket).fields
                              /\ bucket[k][p[k]].fields \subseteq WriteHTBucket(at, bucket).fields
           /\ GapsOf(WriteHTBucket(at, bucket), at, bucket, n, p)
<1>1. PICK start \in Nat : start = at + n * 4
  OBVIOUS
<1>2. p = Places(start, bucket)
  BY <1>1 DEF ElementPos, ElementPositionRecord
<1>3. Rising(start, bucket, n, p)
  BY <1>2, PlacesRise
<1>4. PICK v : v = Written(Records(at, n, 4, p), n * 4)
  OBVIOUS
<1>5. PICK w : w = Row(start, bucket, n, p)
  OBVIOUS
<1>6. Fits(v, at) /\ Gaps(v, at) = {}
  BY <1>4, RecordsFit
<1>7. /\ Fits(w, start)
      /\ Gaps(w, start) = UNION {Gaps(bucket[k][p[k]], p[k]) : k \in 1..n}
  BY <1>3, <1>5, RowFits
<1>8. v.bytes = n * 4 /\ v.fields = Records(at, n, 4, p)
  BY <1>4, WrittenIs
<1>9. PICK last \in Nat : last = p[n + 1] /\ start <= last
  <2>1. 1 \in 1..(n + 1) /\ n + 1 \in 1..(n + 1) /\ 1 <= n + 1
    OBVIOUS
  <2> QED BY <1>3, <2>1 DEF Rising
<1>10. w.bytes = last - start /\ w.fields = UNION {bucket[k][p[k]].fields : k \in 1..n}
  BY <1>5, <1>9, WrittenIs DEF Row
<1>11. WriteHTBucket(at, bucket) = Both(v, w)
  <2>1. WriteHTBucket(at, bucket) = Written(v.fields \cup w.fields, last - at)
    BY <1>1, <1>2, <1>8, <1>9, <1>10 DEF WriteHTBucket, Records, ElementPositionRecord
  <2>2. v.bytes + w.bytes = last - at
    BY <1>1, <1>8, <1>9, <1>10
  <2> QED BY <2>1, <2>2 DEF Both
<1>12. PICK u : u = WriteHTBucket(at, bucket)
  OBVIOUS
<1>13. Fits(u, at) /\ Gaps(u, at) = Gaps(v, at) \cup Gaps(w, at + v.bytes)
  <2>1. Fits(w, at + v.bytes)
    BY <1>1, <1>7, <1>8
  <2>2. Fits(Both(v, w), at) /\ Gaps(Both(v, w), at) = Gaps(v, at) \cup Gaps(w, at + v.bytes)
    BY <1>6, <2>1, BothFit
  <2> QED BY <1>11, <1>12, <2>2
<1>14. u.fields = v.fields \cup w.fields /\ u.bytes = v.bytes + w.bytes
  BY <1>11, <1>12, WrittenIs DEF Both
<1>15. u.bytes = last - at
  BY <1>1, <1>8, <1>9, <1>10, <1>14
<1>16. \A k \in 1..n : Field(at + (k - 1) * 4, 4, p[k]) \in u.fields
  BY <1>8, <1>14 DEF Records
<1>17. \A k \in 1..n : bucket[k][p[k]].fields \subseteq u.fields
  BY <1>10, <1>14
<1>18. Gaps(u, at) = UNION {Gaps(bucket[k][p[k]], p[k]) : k \in 1..n}
  BY <1>1, <1>6, <1>7, <1>8, <1>13
<1>19. GapsOf(u, at, bucket, n, p)
  BY <1>18 DEF GapsOf
<1> QED BY <1>1, <1>3, <1>9, <1>12, <1>13, <1>15, <1>16, <1>17, <1>19

Ends(w, at, n, p) == w.bytes = p[n + 1] - at

LEMMA BucketEnds ==
    ASSUME NEW at \in Nat, NEW bucket, NEW n \in Nat, Len(bucket) = n, AllFit(bucket, n),
           NEW p, p = ElementPos(at, bucket)
    PROVE  Ends(WriteHTBucket(at, bucket), at, n, p)
BY BucketIs DEF Ends

\* Elements that fit wherever they are put.
GoodTable(table, n) ==
    Len(table) = n /\ \A b \in 1..n : Len(table[b]) \in Nat /\ AllFit(table[b], Len(table[b]))

BucketPieces(table, n) == [b \in 1..n |-> [at \in Nat |-> WriteHTBucket(at, table[b])]]
BucketPos(at, table, n) ==
    Places(at + BucketListHeader + n * BucketRecord, BucketPieces(table, n))
Record(table, bpos, b) == [chain_num_elements |-> Len(table[b]), position |-> bpos[b]]

LEMMA BucketsFit ==
    ASSUME NEW n \in Nat, NEW table, GoodTable(table, n)
    PROVE  /\ Len(BucketPieces(table, n)) = n /\ AllFit(BucketPieces(table, n), n)
           /\ \A b \in 1..n : \A at \in Nat :
                 BucketPieces(table, n)[b][at] = WriteHTBucket(at, table[b])
<1>1. PICK s : s = BucketPieces(table, n)
  OBVIOUS
<1>2. s = [b \in 1..n |-> [at \in Nat |-> WriteHTBucket(at, table[b])]]
  BY <1>1 DEF BucketPieces
<1>3. Len(s) = n
  <2>1. PICK R : R = {[at \in Nat |-> WriteHTBucket(at, table[b])] : b \in 1..n}
    OBVIOUS
  <2>2. s \in [1..n -> R]
    BY <1>2, <2>1
  <2>3. s \in Seq(R)
    BY <2>2, SeqDef
  <2> QED BY <1>2, <2>3, LenProperties
<1>4. \A b \in 1..n : \A at \in Nat : s[b][at] = WriteHTBucket(at, table[b])
  BY <1>2
<1>5. AllFit(s, n)
  <2>1. SUFFICES ASSUME NEW b \in 1..n, NEW at \in Nat PROVE Fits(s[b][at], at)
    BY DEF AllFit
  <2>2. PICK bucket : bucket = table[b]
    OBVIOUS
  <2>3. PICK m \in Nat : m = Len(bucket) /\ AllFit(bucket, m)
    BY <2>2 DEF GoodTable
  <2>4. Fits(WriteHTBucket(at, bucket), at)
    BY <2>3, BucketIs
  <2> QED BY <1>4, <2>2, <2>4
<1> QED BY <1>1, <1>3, <1>4, <1>5

TableWritten(at, n, table, p, w) ==
    /\ Rising(at + 4 + n * 8, BucketPieces(table, n), n, p)
    /\ Fits(w, at) /\ w.bytes = p[n + 1] - at
    /\ Field(at, 4, n) \in w.fields
    /\ \A b \in 1..n : /\ Field(at + 4 + (b - 1) * 8, 8, Record(table, p, b)) \in w.fields
                       /\ WriteHTBucket(p[b], table[b]).fields \subseteq w.fields
    /\ \A x : x \in Gaps(w, at) <=>
          \E b \in 1..n : x \in Gaps(WriteHTBucket(p[b], table[b]), p[b])

LEMMA TableIs ==
    ASSUME NEW at \in Nat, NEW n \in Nat, NEW table, GoodTable(table, n),
           NEW p, p = BucketPos(at, table, n), NEW w, w = WriteHashTable(at, table)
    PROVE  TableWritten(at, n, table, p, w)
<1>1. PICK s : s = BucketPieces(table, n)
  OBVIOUS
<1>2. /\ Len(s) = n /\ AllFit(s, n) 
      /\ \A b \in 1..n : \A a \in Nat : s[b][a] = WriteHTBucket(a, table[b])
  BY <1>1, BucketsFit
<1>3. PICK start \in Nat : start = at + 4 + n * 8
  OBVIOUS
<1>4. p = Places(start, s)
  BY <1>1, <1>3 DEF BucketPos, BucketListHeader, BucketRecord
<1>5. Rising(start, s, n, p)
  BY <1>2, <1>4, PlacesRise
<1>6. PICK val : val = [b \in 1..n |-> Record(table, p, b)]
  OBVIOUS
<1>7. PICK v1 : v1 = Written({Field(at, 4, n)}, 4)
  OBVIOUS
<1>8. PICK v2 : v2 = Written(Records(at + 4, n, 8, val), n * 8)
  OBVIOUS
<1>9. PICK v : v = Both(v1, v2)
  OBVIOUS
<1>10. PICK r : r = Row(start, s, n, p)
  OBVIOUS
<1>11. v1.fields = {Field(at, 4, n)} /\ v1.bytes = 4
  BY <1>7, WrittenIs
<1>12. v2.fields = Records(at + 4, n, 8, val) /\ v2.bytes = n * 8
  BY <1>8, WrittenIs
<1>13. v.fields = v1.fields \cup v2.fields /\ v.bytes = 4 + n * 8
  BY <1>9, <1>11, <1>12, WrittenIs DEF Both
<1>14. Fits(v1, at) /\ Gaps(v1, at) = {}
  BY <1>7, FieldFits
<1>15. Fits(v2, at + 4) /\ Gaps(v2, at + 4) = {}
  <2>1. at + 4 \in Nat
    OBVIOUS
  <2> QED BY <1>8, <2>1, RecordsFit
<1>16. Fits(v, at) /\ Gaps(v, at) = {}
  <2>1. Fits(v2, at + v1.bytes)
    BY <1>11, <1>15
  <2>2. Fits(v, at) /\ Gaps(v, at) = Gaps(v1, at) \cup Gaps(v2, at + v1.bytes)
    BY <1>9, <1>14, <2>1, BothFit
  <2> QED BY <1>11, <1>14, <1>15, <2>2
<1>17. Fits(r, start) /\ Gaps(r, start) = UNION {Gaps(s[b][p[b]], p[b]) : b \in 1..n}
  BY <1>2, <1>5, <1>10, RowFits
<1>18. PICK last \in Nat : last = p[n + 1]
  BY <1>5 DEF Rising
<1>19. r.bytes = last - start /\ r.fields = UNION {s[b][p[b]].fields : b \in 1..n}
  BY <1>10, <1>18, WrittenIs DEF Row
<1>20. w = Both(v, r)
  <2>1. Records(at + 4, n, 8, val) =
           {Field(at + 4 + (b - 1) * 8, 8, [chain_num_elements |-> Len(table[b]),
                                            position |-> p[b]]) : b \in 1..n}
    BY <1>6 DEF Records, Record
  <2>2. w = Written({Field(at, 4, n)} \cup Records(at + 4, n, 8, val)
                    \cup UNION {s[b][p[b]].fields : b \in 1..n}, last - at)
    <3>1. Len(table) = n
      BY DEF GoodTable
    <3>2. w = Written({Field(at, 4, n)}
                \cup {Field(at + 4 + (b - 1) * 8, 8, [chain_num_elements |-> Len(table[b]),
                                                      position |-> p[b]]) : b \in 1..n}
                \cup UNION {s[b][p[b]].fields : b \in 1..n}, last - at)
      BY <1>1, <1>3, <1>4, <1>18, <3>1
         DEF WriteHashTable, BucketPieces, BucketListHeader, BucketRecord
    <3> QED BY <2>1, <3>2
  <2>3. v.bytes + r.bytes = last - at
    BY <1>3, <1>13, <1>19
  <2>4. v.fields \cup r.fields = {Field(at, 4, n)} \cup Records(at + 4, n, 8, val)
                                 \cup UNION {s[b][p[b]].fields : b \in 1..n}
    BY <1>11, <1>12, <1>13, <1>19
  <2> QED BY <2>2, <2>3, <2>4 DEF Both
<1>21. Fits(w, at) /\ Gaps(w, at) = UNION {Gaps(s[b][p[b]], p[b]) : b \in 1..n}
  <2>1. at + v.bytes = start
    BY <1>3, <1>13
  <2>2. Fits(r, at + v.bytes)
    BY <1>17, <2>1
  <2>3. Fits(Both(v, r), at) /\ Gaps(Both(v, r), at) = Gaps(v, at) \cup Gaps(r, at + v.bytes)
    BY <1>16, <2>2, BothFit
  <2> QED BY <1>16, <1>17, <1>20, <2>1, <2>3
<1>22. w.fields = v.fields \cup r.fields /\ w.bytes = v.bytes + r.bytes
  BY <1>20, WrittenIs DEF Both
<1>23. w.bytes = p[n + 1] - at
  BY <1>3, <1>13, <1>18, <1>19, <1>22
<1>24. \A b \in 1..n : p[b] \in Nat
  BY <1>5 DEF Rising
<1>25. \A b \in 1..n : s[b][p[b]] = WriteHTBucket(p[b], table[b])
  BY <1>2, <1>24
<1>26. \A b \in 1..n : /\ Field(at + 4 + (b - 1) * 8, 8, Record(table, p, b)) \in w.fields
                       /\ WriteHTBucket(p[b], table[b]).fields \subseteq w.fields
  <2>1. \A b \in 1..n : Field(at + 4 + (b - 1) * 8, 8, val[b]) \in w.fields
    BY <1>12, <1>13, <1>22 DEF Records
  <2>2. \A b \in 1..n : val[b] = Record(table, p, b)
    BY <1>6
  <2>3. \A b \in 1..n : s[b][p[b]].fields \subseteq w.fields
    BY <1>19, <1>22
  <2> QED BY <1>25, <2>1, <2>2, <2>3
<1>27. Field(at, 4, n) \in w.fields
  BY <1>11, <1>13, <1>22
<1>28. \A x : x \in Gaps(w, at) <=>
          \E b \in 1..n : x \in Gaps(WriteHTBucket(p[b], table[b]), p[b])
  BY <1>21, <1>25
<1> QED BY <1>1, <1>3, <1>5, <1>21, <1>23, <1>26, <1>27, <1>28 DEF TableWritten

-----------------------------------------------------------------------------
(***************************************************************************)
(* Reading a file back.                                                    *)
(***************************************************************************)
LEMMA ReadIs ==
    ASSUME NEW file, Fits(file, 0), NEW at, NEW size, NEW val,
           Field(at, size, val) \in file.fields
    PROVE  Read(file, at) = val
<1>1. PICK f \in file.fields : f = Field(at, size, val)
  OBVIOUS
<1>2. At(f) = at /\ Size(f) = size /\ Val(f) = val
  BY <1>1, FieldIs
<1>3. at \in Nat /\ size > 0
  BY <1>2 DEF Fits
<1>4. ASSUME NEW g \in file.fields, At(g) = at, Size(g) > 0 PROVE g = f
  <2>1. SUFFICES ASSUME g # f PROVE FALSE
    OBVIOUS
  <2>2. Behind(f, g) \/ Behind(g, f)
    BY <2>1 DEF Fits
  <2>3. Size(f) \in Nat \ {0} /\ Size(g) \in Nat \ {0}
    BY DEF Fits
  <2> QED BY <1>2, <1>3, <1>4, <2>2, <2>3 DEF Behind
<1>5. f = CHOOSE g \in file.fields : At(g) = at /\ Size(g) > 0
  BY <1>2, <1>3, <1>4
<1> QED BY <1>2, <1>5 DEF Read

TableHeld(file, T, n, table, p) ==
    /\ Read(file, T) = n
    /\ \A b \in 1..n :
          /\ Read(file, T + 4 + 8 * (b - 1)) = Record(table, p, b)
          /\ BucketElements(file, T, b - 1) =
                [k \in 1..Len(table[b]) |-> ElementPos(p[b], table[b])[k]]
          /\ \A k \in 1..Len(table[b]) :
                table[b][k][ElementPos(p[b], table[b])[k]].fields \subseteq file.fields

LEMMA TableRead ==
    ASSUME NEW file, Fits(file, 0), NEW T \in Nat, NEW n \in Nat, NEW table, GoodTable(table, n),
           NEW p, p = BucketPos(T, table, n),
           WriteHashTable(T, table).fields \subseteq file.fields
    PROVE  TableHeld(file, T, n, table, p)
<1>1. PICK w : w = WriteHashTable(T, table)
  OBVIOUS
<1>2. /\ Rising(T + 4 + n * 8, BucketPieces(table, n), n, p)
      /\ Field(T, 4, n) \in w.fields
      /\ \A b \in 1..n : /\ Field(T + 4 + (b - 1) * 8, 8, Record(table, p, b)) \in w.fields
                         /\ WriteHTBucket(p[b], table[b]).fields \subseteq w.fields
  BY <1>1, TableIs DEF TableWritten
<1>3. Read(file, T) = n
  BY <1>1, <1>2, ReadIs
<1>4. ASSUME NEW b \in 1..n
      PROVE  /\ Read(file, T + 4 + 8 * (b - 1)) = Record(table, p, b)
             /\ BucketElements(file, T, b - 1) =
                   [k \in 1..Len(table[b]) |-> ElementPos(p[b], table[b])[k]]
             /\ \A k \in 1..Len(table[b]) :
                   table[b][k][ElementPos(p[b], table[b])[k]].fields \subseteq file.fields
  <2>1. PICK bucket : bucket = table[b]
    OBVIOUS
  <2>2. PICK m \in Nat : m = Len(bucket)
    BY <2>1 DEF GoodTable
  <2>3. AllFit(bucket, m)
    BY <2>1, <2>2 DEF GoodTable
  <2>4. PICK a \in Nat : a = p[b]
    BY <1>2 DEF Rising
  <2>5. PICK e : e = ElementPos(a, bucket)
    OBVIOUS
  <2>6. PICK r : r = Record(table, p, b)
    OBVIOUS
  <2>7. r.chain_num_elements = m /\ r.position = a
    BY <2>1, <2>2, <2>4, <2>6 DEF Record
  <2>8. PICK pos \in Nat : pos = T + 4 + (b - 1) * 8
    OBVIOUS
  <2>9. Read(file, pos) = r
    <3>1. Field(pos, 8, r) \in file.fields
      BY <1>1, <1>2, <2>6, <2>8
    <3> QED BY <3>1, ReadIs
  <2>10. pos = T + BucketListHeader + BucketRecord * (b - 1) /\ pos = T + 4 + 8 * (b - 1)
    BY <2>8 DEF BucketListHeader, BucketRecord
  <2>11. \A k \in 1..m : /\ Field(a + (k - 1) * 4, 4, e[k]) \in file.fields
                         /\ bucket[k][e[k]].fields \subseteq file.fields
    <3>1. WriteHTBucket(a, bucket).fields \subseteq file.fields
      BY <1>1, <1>2, <2>1, <2>4
    <3>2. \A k \in 1..m : /\ Field(a + (k - 1) * 4, 4, e[k]) \in WriteHTBucket(a, bucket).fields
                          /\ bucket[k][e[k]].fields \subseteq WriteHTBucket(a, bucket).fields
      BY <2>2, <2>3, <2>5, BucketIs
    <3> QED BY <3>1, <3>2
  <2>12. \A k \in 1..m : Read(file, a + (k - 1) * ElementPositionRecord) = e[k]
    <3>1. SUFFICES ASSUME NEW k \in 1..m PROVE Read(file, a + (k - 1) * 4) = e[k]
      BY DEF ElementPositionRecord
    <3>2. Field(a + (k - 1) * 4, 4, e[k]) \in file.fields
      BY <2>11
    <3> QED BY <3>2, ReadIs
  <2>13. BucketElements(file, T, b - 1) = [k \in 1..m |-> e[k]]
    <3>1. BucketElements(file, T, b - 1) =
            [k \in 1..r.chain_num_elements |->
                Read(file, r.position + (k - 1) * ElementPositionRecord)]
      BY <2>9, <2>10 DEF BucketElements
    <3>2. BucketElements(file, T, b - 1) =
            [k \in 1..m |-> Read(file, a + (k - 1) * ElementPositionRecord)]
      BY <2>7, <3>1
    <3> QED BY <2>12, <3>2
  <2> QED BY <2>1, <2>2, <2>4, <2>5, <2>6, <2>9, <2>10, <2>11, <2>13
<1> QED BY <1>3, <1>4 DEF TableHeld

-----------------------------------------------------------------------------
(***************************************************************************)
(* Tables by key.                                                          *)
(***************************************************************************)
Chain(keys, n, b) == Seqs!SetToSeq({k \in keys : k % n = b - 1})

Lists(s, S) ==
    /\ Len(s) \in Nat /\ s \in [1..Len(s) -> S]
    /\ \A x \in S : \E k \in 1..Len(s) : s[k] = x
    /\ \A k, m \in 1..Len(s) : s[k] = s[m] => k = m

LEMMA SetToSeqIs ==
    ASSUME NEW S, IsFiniteSet(S), NEW s, s = Seqs!SetToSeq(S)
    PROVE  Lists(s, S)
<1>1. PICK n \in Nat : n = Cardinality(S)
  BY FS_CardinalityType
<1>2. Seqs!Cardinality(S) = n
  BY <1>1 DEF Seqs!Cardinality, Cardinality, Seqs!IsFiniteSet, IsFiniteSet
<1>3. \E f \in [1..n -> S] : Seqs!IsInjective(f)
  <2>1. ExistsBijection(1..n, S)
    BY <1>1, FS_CardinalityType
  <2>2. PICK f : f \in Bijection(1..n, S)
    BY <2>1 DEF ExistsBijection
  <2>3. f \in [1..n -> S] /\ \A a, b \in 1..n : f[a] = f[b] => a = b
    BY <2>2, Fun_BijectionProperties
  <2> QED BY <2>3 DEF Seqs!IsInjective
<1>4. s \in [1..n -> S] /\ Seqs!IsInjective(s)
  <2>1. s = CHOOSE f \in [1..n -> S] : Seqs!IsInjective(f)
    BY <1>2 DEF Seqs!SetToSeq
  <2> QED BY <1>3, <2>1
<1>5. \A a, b \in 1..n : s[a] = s[b] => a = b
  BY <1>4 DEF Seqs!IsInjective
<1>6. Len(s) = n
  <2>1. s \in Seq(S)
    BY <1>4, SeqDef
  <2> QED BY <1>4, <2>1, LenProperties
<1>7. \A x \in S : \E k \in 1..n : s[k] = x
  <2>1. s \in Injection(1..n, S)
    BY <1>4, <1>5, Fun_IsInj
  <2>2. IsFiniteSet(1..n) /\ Cardinality(1..n) = n
    BY FS_Interval
  <2>3. s \in Surjection(1..n, S)
    BY <1>1, <2>1, <2>2, FS_Injection
  <2> QED BY <2>3 DEF Surjection
<1> QED BY <1>1, <1>4, <1>5, <1>6, <1>7 DEF Lists

KeySet(keys, n) == n \in Nat \ {0} /\ IsFiniteSet(keys) /\ keys \subseteq Nat

\* Every key of the bucket, once.
IsChain(s, keys, n, b) ==
    /\ Len(s) \in Nat /\ DOMAIN s = 1..Len(s)
    /\ \A c \in 1..Len(s) : s[c] \in keys /\ s[c] % n = b - 1
    /\ \A key \in keys : key % n = b - 1 => \E c \in 1..Len(s) : s[c] = key
    /\ \A c, d \in 1..Len(s) : s[c] = s[d] => c = d

LEMMA ChainIs ==
    ASSUME NEW keys, NEW n, KeySet(keys, n), NEW b \in 1..n
    PROVE  IsChain(Chain(keys, n, b), keys, n, b)
<1>1. PICK S : S = {k \in keys : k % n = b - 1}
  OBVIOUS
<1>2. IsFiniteSet(S)
  <2>1. S \in SUBSET keys
    BY <1>1
  <2> QED BY <2>1, FS_Subset DEF KeySet
<1>3. PICK s : s = Seqs!SetToSeq(S)
  OBVIOUS
<1>4. Lists(s, S)
  BY <1>2, <1>3, SetToSeqIs
<1>5. s = Chain(keys, n, b)
  BY <1>1, <1>3 DEF Chain
<1>6. IsChain(s, keys, n, b)
  <2>1. DOMAIN s = 1..Len(s) /\ \A c \in 1..Len(s) : s[c] \in S
    BY <1>4 DEF Lists
  <2>2. \A key \in S : \E c \in 1..Len(s) : s[c] = key
    BY <1>4 DEF Lists
  <2> QED BY <1>1, <1>4, <2>1, <2>2 DEF Lists, IsChain
<1> QED BY <1>5, <1>6

\* The table of the elements elem[key] in n buckets.
KeyedTable(keys, n, elem) ==
    [b \in 1..n |-> [c \in DOMAIN Chain(keys, n, b) |-> elem[Chain(keys, n, b)[c]]]]

KeysFit(keys, elem) == \A key \in keys : \A at \in Nat : Fits(elem[key][at], at)

LEMMA LenIs ==
    ASSUME NEW s, NEW n \in Nat, DOMAIN s = 1..n, s = [k \in 1..n |-> s[k]]
    PROVE  Len(s) = n
<1>1. PICK R : R = {s[k] : k \in 1..n}
  OBVIOUS
<1>2. s \in [1..n -> R]
  BY <1>1
<1>3. s \in Seq(R)
  BY <1>2, SeqDef
<1> QED BY <1>3, LenProperties

\* The elements of the keys of a chain.
Keyed(bucket, s, elem) == Len(bucket) = Len(s) /\ \A c \in 1..Len(s) : bucket[c] = elem[s[c]]

LEMMA KeyedGood ==
    ASSUME NEW keys, NEW n, KeySet(keys, n), NEW elem, KeysFit(keys, elem),
           NEW table, table = KeyedTable(keys, n, elem)
    PROVE  /\ GoodTable(table, n)
           /\ \A b \in 1..n : Keyed(table[b], Chain(keys, n, b), elem)
<1>0. n \in Nat \ {0}
  BY DEF KeySet
<1>1. table = [b \in 1..n |-> [c \in DOMAIN Chain(keys, n, b) |-> elem[Chain(keys, n, b)[c]]]]
  BY DEF KeyedTable
<1>2. Len(table) = n
  BY <1>0, <1>1, LenIs
<1>3. ASSUME NEW b \in 1..n
      PROVE  /\ Len(table[b]) \in Nat /\ AllFit(table[b], Len(table[b]))
             /\ Keyed(table[b], Chain(keys, n, b), elem)
  <2>1. PICK s : s = Chain(keys, n, b)
    OBVIOUS
  <2>2. /\ Len(s) \in Nat /\ DOMAIN s = 1..Len(s)
        /\ \A k \in 1..Len(s) : s[k] \in keys
    BY <2>1, ChainIs DEF IsChain
  <2>3. PICK m \in Nat : m = Len(s)
    BY <2>2
  <2>4. PICK t : t = table[b]
    OBVIOUS
  <2>5. t = [c \in 1..m |-> elem[s[c]]]
    BY <1>1, <2>1, <2>2, <2>3, <2>4
  <2>6. Len(t) = m
    BY <2>5, LenIs
  <2>7. AllFit(t, m)
    BY <2>2, <2>3, <2>5 DEF AllFit, KeysFit
  <2>8. Keyed(t, s, elem)
    BY <2>3, <2>5, <2>6 DEF Keyed
  <2> QED BY <2>1, <2>4, <2>6, <2>7, <2>8
<1> QED BY <1>2, <1>3 DEF GoodTable

\* A file has a table of these keys at T, and the elements at these places.
BucketHolds(es, n, keys, pos, b) ==
    /\ \E m \in Nat : DOMAIN es = 1..m
    /\ \A k \in DOMAIN es : \E key \in keys : key % n = b /\ es[k] = pos[key]
    /\ \A key \in keys : key % n = b => \E k \in DOMAIN es : es[k] = pos[key]

Stored(file, T, n, keys, pos) ==
    /\ pos \in [keys -> Nat]
    /\ Read(file, T) = n
    /\ \A b \in 0..(n - 1) : BucketHolds(BucketElements(file, T, b), n, keys, pos, b)

\* Where an element of the table comes to stand.
KeyPos(T, keys, n, elem, key) ==
    LET table == KeyedTable(keys, n, elem)
        b == (key % n) + 1
    IN  ElementPos(BucketPos(T, table, n)[b], table[b])
            [CHOOSE c \in 1..Len(Chain(keys, n, b)) : Chain(keys, n, b)[c] = key]

\* One bucket of it: the chain is s, the places of the elements are e.
KeyedBucketIs(T, keys, n, elem, table, p, b, s, e) ==
    /\ Len(s) \in Nat /\ Len(table[b]) = Len(s) /\ p[b] \in Nat /\ p[b + 1] \in Nat
    /\ T + 4 + 8 * n <= p[b] /\ p[b] + 4 * Len(s) <= p[b + 1]
    /\ p[b + 1] <= T + WriteHashTable(T, table).bytes
    /\ \A c \in 1..Len(s) :
          /\ s[c] \in keys /\ (s[c] % n) + 1 = b /\ e[c] = KeyPos(T, keys, n, elem, s[c])
          /\ e[c] \in Nat /\ elem[s[c]][e[c]].bytes \in Nat
          /\ T + 4 + 8 * n <= e[c] /\ e[c] + elem[s[c]][e[c]].bytes <= p[b + 1]
          /\ table[b][c] = elem[s[c]]
    /\ \A x : x \in Gaps(WriteHTBucket(p[b], table[b]), p[b]) <=>
          \E c \in 1..Len(s) : x \in Gaps(elem[s[c]][e[c]], e[c])

LEMMA KeyedBucket ==
    ASSUME NEW keys, NEW n, KeySet(keys, n), NEW elem, KeysFit(keys, elem), NEW T \in Nat,
           NEW table, table = KeyedTable(keys, n, elem),
           NEW p, p = BucketPos(T, table, n), NEW b \in 1..n,
           NEW s, s = Chain(keys, n, b), NEW e, e = ElementPos(p[b], table[b])
    PROVE  KeyedBucketIs(T, keys, n, elem, table, p, b, s, e)
<1>0. n \in Nat \ {0} /\ keys \subseteq Nat
  BY DEF KeySet
<1>1. GoodTable(table, n) /\ Keyed(table[b], s, elem) /\ IsChain(s, keys, n, b)
  BY KeyedGood, ChainIs
<1>2. PICK bucket : bucket = table[b]
  OBVIOUS
<1>3. PICK m \in Nat : m = Len(s) /\ m = Len(bucket)
  BY <1>1, <1>2 DEF GoodTable, Keyed
<1>4. AllFit(bucket, m)
  BY <1>1, <1>2, <1>3 DEF GoodTable
<1>5. PICK w : w = WriteHashTable(T, table)
  OBVIOUS
<1>6. PICK pieces : pieces = BucketPieces(table, n)
  OBVIOUS
<1>7. Rising(T + 4 + n * 8, pieces, n, p) /\ w.bytes = p[n + 1] - T
  BY <1>0, <1>1, <1>5, <1>6, TableIs DEF TableWritten
<1>8. \A a \in Nat : pieces[b][a] = WriteHTBucket(a, bucket)
  BY <1>0, <1>1, <1>2, <1>6, BucketsFit
<1>9. /\ b \in 1..(n + 1) /\ b + 1 \in 1..(n + 1) /\ 1 \in 1..(n + 1) /\ n + 1 \in 1..(n + 1)
      /\ 1 <= b /\ b + 1 <= n + 1
  BY <1>0
<1>10. PICK first \in Nat, last \in Nat : first = p[b] /\ last = p[b + 1]
  BY <1>7, <1>9 DEF Rising
<1>11. T + 4 + 8 * n <= first /\ last <= T + w.bytes
  <2>1. p[1] = T + 4 + n * 8 /\ p[1] <= p[b] /\ p[b + 1] <= p[n + 1] /\ p[n + 1] \in Nat
    BY <1>7, <1>9 DEF Rising
  <2> QED BY <1>0, <1>7, <1>10, <2>1
<1>12. e = ElementPos(first, bucket)
  BY <1>2, <1>10
<1>13. /\ Rising(first + m * 4, bucket, m, e)
       /\ WriteHTBucket(first, bucket).bytes = e[m + 1] - first
       /\ GapsOf(WriteHTBucket(first, bucket), first, bucket, m, e)
  <2>1. Len(bucket) = m
    BY <1>3
  <2>2. Rising(first + m * 4, bucket, m, e)
    BY <1>4, <1>12, <2>1, BucketIs
  <2>4. Ends(WriteHTBucket(first, bucket), first, m, e)
    BY <1>4, <1>12, <2>1, BucketEnds
  <2>3. GapsOf(WriteHTBucket(first, bucket), first, bucket, m, e)
    BY <1>4, <1>12, <2>1, BucketIs
  <2> QED BY <2>2, <2>3, <2>4 DEF Ends
<1>14. e[m + 1] = last /\ first + 4 * m <= last
  <2>1. last = first + WriteHTBucket(first, bucket).bytes
    BY <1>7, <1>8, <1>10 DEF Rising
  <2>2. e[m + 1] \in Nat /\ e[1] = first + m * 4 /\ e[1] <= e[m + 1]
    <3>1. 1 \in 1..(m + 1) /\ m + 1 \in 1..(m + 1) /\ 1 <= m + 1
      OBVIOUS
    <3> QED BY <1>13, <3>1 DEF Rising
  <2> QED BY <1>13, <2>1, <2>2
<1>15. /\ \A c \in 1..m : s[c] \in keys /\ s[c] % n = b - 1
       /\ \A c, d \in 1..m : s[c] = s[d] => c = d
  BY <1>1, <1>3 DEF IsChain
<1>16. \A c \in 1..m : bucket[c] = elem[s[c]]
  BY <1>1, <1>2, <1>3 DEF Keyed
<1>17. ASSUME NEW c \in 1..m
       PROVE  /\ s[c] \in keys /\ (s[c] % n) + 1 = b /\ e[c] = KeyPos(T, keys, n, elem, s[c])
              /\ e[c] \in Nat /\ elem[s[c]][e[c]].bytes \in Nat
              /\ T + 4 + 8 * n <= e[c] /\ e[c] + elem[s[c]][e[c]].bytes <= last
  <2>1. PICK key : key = s[c]
    OBVIOUS
  <2>2. key \in keys /\ (key % n) + 1 = b
    <3>1. PICK r \in Int : r = key % n
      BY <1>0, <1>15, <2>1
    <3> QED BY <1>15, <2>1, <3>1
  <2>3. c = CHOOSE d \in 1..m : s[d] = key
    BY <1>15, <2>1
  <2>4. e[c] = KeyPos(T, keys, n, elem, key)
    BY <1>2, <1>3, <2>2, <2>3 DEF KeyPos
  <2>5. c \in 1..(m + 1) /\ c + 1 \in 1..(m + 1) /\ 1 \in 1..(m + 1) /\ m + 1 \in 1..(m + 1)
    OBVIOUS
  <2>6. PICK a \in Nat : a = e[c]
    BY <1>13, <2>5 DEF Rising
  <2>7. e[1] = first + m * 4 /\ e[1] <= e[c] /\ e[c + 1] = a + bucket[c][a].bytes
    <3>1. e[1] = first + m * 4
      BY <1>13 DEF Rising
    <3>2. e[1] <= e[c]
      <4>1. \A k, l \in 1..(m + 1) : k <= l => e[k] <= e[l]
        BY <1>13 DEF Rising
      <4> QED BY <2>5, <4>1
    <3>3. e[c + 1] = e[c] + bucket[c][e[c]].bytes
      BY <1>13 DEF Rising
    <3> QED BY <2>6, <3>1, <3>2, <3>3
  <2>8. e[c + 1] <= e[m + 1]
    BY <1>13, <2>5 DEF Rising
  <2>9. bucket[c] = elem[key] /\ elem[key][a].bytes \in Nat
    BY <1>4, <1>16, <2>1, <2>6 DEF AllFit, Fits
  <2>10. T + 4 + 8 * n <= a /\ a + elem[key][a].bytes <= last
    BY <1>0, <1>11, <1>14, <2>6, <2>7, <2>8, <2>9
  <2> QED BY <2>1, <2>2, <2>4, <2>6, <2>9, <2>10
<1>18. \A x : x \in Gaps(WriteHTBucket(first, bucket), first) <=>
          \E c \in 1..m : x \in Gaps(elem[s[c]][e[c]], e[c])
  BY <1>13, <1>16 DEF GapsOf
<1> QED BY <1>2, <1>3, <1>5, <1>10, <1>11, <1>14, <1>16, <1>17, <1>18 DEF KeyedBucketIs


LEMMA Remainder ==
    ASSUME NEW k \in Nat, NEW n \in Nat \ {0}
    PROVE  k % n \in 0..(n - 1)
OBVIOUS

\* Every element in its place, within the table, and no gaps but those of elements.
Placed(T, n, keys, elem, w, pos) ==
    /\ Fits(w, T) /\ pos \in [keys -> Nat] /\ 4 + 8 * n <= w.bytes
    /\ \A key \in keys :
          /\ elem[key][pos[key]].fields \subseteq w.fields
          /\ elem[key][pos[key]].bytes \in Nat
          /\ T + 4 + 8 * n <= pos[key]
          /\ pos[key] + elem[key][pos[key]].bytes <= T + w.bytes
    /\ \A x : x \in Gaps(w, T) <=> \E key \in keys : x \in Gaps(elem[key][pos[key]], pos[key])

ElementsAt(T, keys, n, elem) == [key \in keys |-> KeyPos(T, keys, n, elem, key)]

LEMMA KeyedPlaced ==
    ASSUME NEW keys, NEW n, KeySet(keys, n), NEW elem, KeysFit(keys, elem), NEW T \in Nat,
           NEW w, w = WriteHashTable(T, KeyedTable(keys, n, elem)),
           NEW pos, pos = ElementsAt(T, keys, n, elem)
    PROVE  Placed(T, n, keys, elem, w, pos)
<1>0. n \in Nat \ {0} /\ keys \subseteq Nat
  BY DEF KeySet
<1>1. PICK table : table = KeyedTable(keys, n, elem)
  OBVIOUS
<1>2. PICK p : p = BucketPos(T, table, n)
  OBVIOUS
<1>3. GoodTable(table, n)
  BY <1>1, KeyedGood
<1>4. /\ Rising(T + 4 + n * 8, BucketPieces(table, n), n, p)
      /\ Fits(w, T) /\ w.bytes = p[n + 1] - T
      /\ \A b \in 1..n : WriteHTBucket(p[b], table[b]).fields \subseteq w.fields
      /\ \A x : x \in Gaps(w, T) <=>
            \E b \in 1..n : x \in Gaps(WriteHTBucket(p[b], table[b]), p[b])
  <2>1. TableWritten(T, n, table, p, w)
    BY <1>0, <1>1, <1>2, <1>3, TableIs
  <2> QED BY <2>1 DEF TableWritten
<1>5. ASSUME NEW b \in 1..n
      PROVE  /\ p[b] \in Nat
             /\ KeyedBucketIs(T, keys, n, elem, table, p, b, Chain(keys, n, b),
                              ElementPos(p[b], table[b]))
             /\ \A c \in 1..Len(table[b]) :
                   table[b][c][ElementPos(p[b], table[b])[c]].fields \subseteq w.fields
  <2>1. PICK s : s = Chain(keys, n, b)
    OBVIOUS
  <2>2. PICK a \in Nat : a = p[b]
    <3>1. b \in 1..(n + 1)
      BY <1>0
    <3> QED BY <1>4, <3>1 DEF Rising
  <2>3. PICK bucket : bucket = table[b]
    OBVIOUS
  <2>4. PICK e : e = ElementPos(a, bucket)
    OBVIOUS
  <2>5. KeyedBucketIs(T, keys, n, elem, table, p, b, s, e)
    BY <1>1, <1>2, <2>1, <2>2, <2>3, <2>4, KeyedBucket
  <2>6. PICK m \in Nat : m = Len(bucket)
    BY <1>3, <2>3 DEF GoodTable
  <2>7. AllFit(bucket, m)
    BY <1>3, <2>3, <2>6 DEF GoodTable
  <2>8. \A k \in 1..m : bucket[k][e[k]].fields \subseteq WriteHTBucket(a, bucket).fields
    BY <2>4, <2>6, <2>7, BucketIs
  <2>9. WriteHTBucket(a, bucket).fields \subseteq w.fields
    BY <1>4, <2>2, <2>3
  <2>10. \A k \in 1..m : bucket[k][e[k]].fields \subseteq w.fields
    BY <2>8, <2>9
  <2> QED BY <2>1, <2>2, <2>3, <2>4, <2>5, <2>6, <2>10
<1>6. ASSUME NEW key \in keys
      PROVE  /\ pos[key] \in Nat
             /\ elem[key][pos[key]].fields \subseteq w.fields
             /\ elem[key][pos[key]].bytes \in Nat
             /\ T + 4 + 8 * n <= pos[key]
             /\ pos[key] + elem[key][pos[key]].bytes <= T + w.bytes
             /\ \E b \in 1..n : \E c \in 1..Len(Chain(keys, n, b)) :
                   /\ Chain(keys, n, b)[c] = key
                   /\ ElementPos(p[b], table[b])[c] = pos[key]
  <2>1. PICK b \in 1..n : b = (key % n) + 1
    <3>1. key % n \in 0..(n - 1)
      BY <1>0, Remainder
    <3> QED BY <1>0, <3>1
  <2>2. key % n = b - 1
    <3>1. PICK r \in Int : r = key % n
      BY <1>0
    <3> QED BY <1>0, <2>1, <3>1
  <2>3. PICK s : s = Chain(keys, n, b)
    OBVIOUS
  <2>4. IsChain(s, keys, n, b)
    BY <2>3, ChainIs
  <2>5. PICK c \in 1..Len(s) : s[c] = key
    BY <2>2, <2>4 DEF IsChain
  <2>6. PICK e : e = ElementPos(p[b], table[b])
    OBVIOUS
  <2>7. KeyedBucketIs(T, keys, n, elem, table, p, b, s, e)
    BY <1>5, <2>3, <2>6
  <2>8. e[c] = pos[key]
    BY <2>5, <2>7 DEF KeyedBucketIs, ElementsAt
  <2>9. PICK a \in Nat : a = e[c]
    BY <2>7 DEF KeyedBucketIs
  <2>10. /\ elem[key][a].bytes \in Nat /\ T + 4 + 8 * n <= a
         /\ a + elem[key][a].bytes <= p[b + 1] /\ p[b + 1] \in Nat
         /\ p[b + 1] <= T + w.bytes /\ table[b][c] = elem[key] /\ Len(table[b]) = Len(s)
    BY <1>1, <2>5, <2>7, <2>9 DEF KeyedBucketIs
  <2>11. a + elem[key][a].bytes <= T + w.bytes
    <3>1. PICK total \in Nat : total = w.bytes
      BY <1>4 DEF Fits
    <3>2. PICK size \in Nat : size = elem[key][a].bytes
      BY <2>10
    <3>3. PICK end \in Nat : end = p[b + 1]
      BY <2>10
    <3>4. a + size <= end /\ end <= T + total
      BY <2>10, <3>1, <3>2, <3>3
    <3>5. a + size <= T + total
      BY <3>4
    <3> QED BY <3>1, <3>2, <3>5
  <2>12. elem[key][a].fields \subseteq w.fields
    <3>1. c \in 1..Len(table[b])
      BY <2>10
    <3>2. table[b][c][e[c]].fields \subseteq w.fields
      BY <1>5, <2>6, <3>1
    <3> QED BY <2>9, <2>10, <3>2
  <2> QED BY <2>3, <2>5, <2>6, <2>8, <2>9, <2>10, <2>11, <2>12
<1>7. \A x : x \in Gaps(w, T) <=> \E key \in keys : x \in Gaps(elem[key][pos[key]], pos[key])
  <2>1. ASSUME NEW x, x \in Gaps(w, T)
        PROVE  \E key \in keys : x \in Gaps(elem[key][pos[key]], pos[key])
    <3>1. PICK b \in 1..n : x \in Gaps(WriteHTBucket(p[b], table[b]), p[b])
      BY <1>4, <2>1
    <3>2. PICK s : s = Chain(keys, n, b)
      OBVIOUS
    <3>3. PICK e : e = ElementPos(p[b], table[b])
      OBVIOUS
    <3>4. KeyedBucketIs(T, keys, n, elem, table, p, b, s, e)
      BY <1>5, <3>2, <3>3
    <3>5. PICK c \in 1..Len(s) : x \in Gaps(elem[s[c]][e[c]], e[c])
      BY <3>1, <3>4 DEF KeyedBucketIs
    <3>6. s[c] \in keys /\ e[c] = KeyPos(T, keys, n, elem, s[c])
      BY <3>4 DEF KeyedBucketIs
    <3>7. pos[s[c]] = e[c]
      BY <3>6 DEF ElementsAt
    <3> QED BY <3>5, <3>6, <3>7
  <2>2. ASSUME NEW x, NEW key \in keys, x \in Gaps(elem[key][pos[key]], pos[key])
        PROVE  x \in Gaps(w, T)
    <3>1. PICK b \in 1..n : \E c \in 1..Len(Chain(keys, n, b)) :
             /\ Chain(keys, n, b)[c] = key
             /\ ElementPos(p[b], table[b])[c] = pos[key]
      BY <1>6
    <3>2. PICK s : s = Chain(keys, n, b)
      OBVIOUS
    <3>3. PICK e : e = ElementPos(p[b], table[b])
      OBVIOUS
    <3>4. KeyedBucketIs(T, keys, n, elem, table, p, b, s, e)
      BY <1>5, <3>2, <3>3
    <3>5. PICK c \in 1..Len(s) : s[c] = key /\ e[c] = pos[key]
      BY <3>1, <3>2, <3>3
    <3>6. x \in Gaps(elem[s[c]][e[c]], e[c])
      BY <2>2, <3>5
    <3>7. x \in Gaps(WriteHTBucket(p[b], table[b]), p[b])
      BY <3>4, <3>5, <3>6 DEF KeyedBucketIs
    <3> QED BY <1>4, <3>7
  <2> QED BY <2>1, <2>2
<1>8. 4 + 8 * n <= w.bytes
  <2>1. /\ 1 \in 1..(n + 1) /\ n + 1 \in 1..(n + 1) /\ 1 <= n + 1
    BY <1>0
  <2>2. p[1] = T + 4 + n * 8 /\ p[1] <= p[n + 1] /\ p[n + 1] \in Nat
    BY <1>4, <2>1 DEF Rising
  <2> QED BY <1>0, <1>4, <2>2
<1>9. pos \in [keys -> Nat]
  BY <1>6 DEF ElementsAt
<1> QED BY <1>4, <1>6, <1>7, <1>8, <1>9 DEF Placed

LEMMA KeyedStored ==
    ASSUME NEW keys, NEW n, KeySet(keys, n), NEW elem, KeysFit(keys, elem), NEW T \in Nat,
           NEW w, w = WriteHashTable(T, KeyedTable(keys, n, elem)),
           NEW file, Fits(file, 0), w.fields \subseteq file.fields,
           NEW pos, pos = ElementsAt(T, keys, n, elem)
    PROVE  Stored(file, T, n, keys, pos)
<1>0. n \in Nat \ {0} /\ keys \subseteq Nat
  BY DEF KeySet
<1>1. PICK table : table = KeyedTable(keys, n, elem)
  OBVIOUS
<1>2. PICK p : p = BucketPos(T, table, n)
  OBVIOUS
<1>3. GoodTable(table, n)
  BY <1>1, KeyedGood
<1>4. pos \in [keys -> Nat]
  BY KeyedPlaced DEF Placed
<1>5. /\ Read(file, T) = n
      /\ \A b \in 1..n : BucketElements(file, T, b - 1) =
            [k \in 1..Len(table[b]) |-> ElementPos(p[b], table[b])[k]]
  <2>1. w = WriteHashTable(T, table)
    BY <1>1
  <2>2. TableHeld(file, T, n, table, p)
    BY <1>0, <1>2, <1>3, <2>1, TableRead
  <2> QED BY <2>2 DEF TableHeld
<1>6. ASSUME NEW b \in 0..(n - 1)
      PROVE  BucketHolds(BucketElements(file, T, b), n, keys, pos, b)
  <2>1. PICK a \in 1..n : a = b + 1 /\ a - 1 = b
    BY <1>0
  <2>2. PICK s : s = Chain(keys, n, a)
    OBVIOUS
  <2>3. PICK e : e = ElementPos(p[a], table[a])
    OBVIOUS
  <2>4. KeyedBucketIs(T, keys, n, elem, table, p, a, s, e) /\ IsChain(s, keys, n, a)
    BY <1>1, <1>2, <2>2, <2>3, KeyedBucket, ChainIs
  <2>5. PICK m \in Nat : m = Len(s) /\ m = Len(table[a])
    BY <2>4 DEF KeyedBucketIs
  <2>6. PICK es : es = BucketElements(file, T, b)
    OBVIOUS
  <2>7. es = [k \in 1..m |-> e[k]]
    BY <1>5, <2>1, <2>3, <2>5, <2>6
  <2>8. \A k \in 1..m : s[k] \in keys /\ s[k] % n = b /\ e[k] = pos[s[k]]
    BY <2>1, <2>4, <2>5 DEF KeyedBucketIs, IsChain, ElementsAt
  <2>9. \A key \in keys : key % n = b => \E k \in 1..m : s[k] = key
    BY <2>1, <2>4, <2>5 DEF IsChain
  <2>10. BucketHolds(es, n, keys, pos, b)
    <3>1. DOMAIN es = 1..m /\ \A k \in 1..m : es[k] = pos[s[k]]
      BY <2>7, <2>8
    <3>2. \A k \in 1..m : \E key \in keys : key % n = b /\ es[k] = pos[key]
      BY <2>8, <3>1
    <3>3. \A key \in keys : key % n = b => \E k \in 1..m : es[k] = pos[key]
      BY <2>9, <3>1
    <3> QED BY <3>1, <3>2, <3>3 DEF BucketHolds
  <2> QED BY <2>6, <2>10
<1> QED BY <1>4, <1>5, <1>6 DEF Stored

\* The elements of a stored table are those of its keys.
LEMMA StoredElements ==
    ASSUME NEW file, NEW T, NEW n, NEW keys, NEW pos, KeySet(keys, n), Stored(file, T, n, keys, pos)
    PROVE  /\ \A e \in Elements(file, T) : \E key \in keys : e = pos[key]
           /\ \A key \in keys : pos[key] \in Elements(file, T)
<1>0. n \in Nat \ {0} /\ keys \subseteq Nat
  BY DEF KeySet
<1>1. \A e : e \in Elements(file, T) <=>
         \E b \in 0..(n - 1) : \E k \in DOMAIN BucketElements(file, T, b) :
            e = BucketElements(file, T, b)[k]
  BY DEF Elements, Stored
<1>2. ASSUME NEW e \in Elements(file, T) PROVE \E key \in keys : e = pos[key]
  <2>1. PICK b \in 0..(n - 1) : \E k \in DOMAIN BucketElements(file, T, b) :
            e = BucketElements(file, T, b)[k]
    BY <1>1
  <2> QED BY <2>1 DEF Stored, BucketHolds
<1>3. ASSUME NEW key \in keys PROVE pos[key] \in Elements(file, T)
  <2>1. PICK b \in 0..(n - 1) : b = key % n
    BY <1>0, Remainder
  <2>2. PICK es : es = BucketElements(file, T, b)
    OBVIOUS
  <2>3. BucketHolds(es, n, keys, pos, b)
    BY <2>2 DEF Stored
  <2>4. PICK k \in DOMAIN es : es[k] = pos[key]
    BY <2>1, <2>3 DEF BucketHolds
  <2> QED BY <1>1, <2>1, <2>2, <2>4
<1> QED BY <1>2, <1>3

\* What hw3fsck looks at in a table.
LEMMA KeyedBucketsCheck ==
    ASSUME NEW keys, NEW n, KeySet(keys, n), NEW elem, KeysFit(keys, elem), NEW T \in Nat,
           NEW w, w = WriteHashTable(T, KeyedTable(keys, n, elem)),
           NEW file, Fits(file, 0), w.fields \subseteq file.fields
    PROVE  CheckBuckets(file, T, w.bytes)
<1>0. n \in Nat \ {0} /\ keys \subseteq Nat
  BY DEF KeySet
<1>1. PICK table : table = KeyedTable(keys, n, elem)
  OBVIOUS
<1>2. PICK p : p = BucketPos(T, table, n)
  OBVIOUS
<1>3. GoodTable(table, n)
  BY <1>1, KeyedGood
<1>4. PICK pos : pos = ElementsAt(T, keys, n, elem)
  OBVIOUS
<1>5. Placed(T, n, keys, elem, w, pos) /\ Stored(file, T, n, keys, pos)
  BY <1>4, KeyedPlaced, KeyedStored
<1>6. PICK len \in Nat : len = w.bytes /\ 8 * n < len
  <2>1. w.bytes \in Nat /\ 4 + 8 * n <= w.bytes
    BY <1>5 DEF Placed, Fits
  <2>2. 8 * n < w.bytes
    BY <1>0, <2>1
  <2> QED BY <2>1, <2>2
<1>7. /\ Read(file, T) = n
      /\ \A b \in 1..n : Read(file, T + 4 + 8 * (b - 1)) = Record(table, p, b)
  <2>1. w = WriteHashTable(T, table)
    BY <1>1
  <2>2. TableHeld(file, T, n, table, p)
    BY <1>0, <1>2, <1>3, <2>1, TableRead
  <2> QED BY <2>2 DEF TableHeld
<1>8. \A b \in 0..(n - 1) :
         /\ Read(file, T + BucketListHeader + BucketRecord * b).position = p[b + 1]
         /\ Read(file, T + BucketListHeader + BucketRecord * b).chain_num_elements =
               Len(table[b + 1])
  <2>1. SUFFICES ASSUME NEW b \in 0..(n - 1)
                 PROVE  /\ Read(file, T + BucketListHeader + BucketRecord * b).position = p[b + 1]
                        /\ Read(file, T + BucketListHeader + BucketRecord * b).chain_num_elements =
                              Len(table[b + 1])
    OBVIOUS
  <2>2. PICK a \in 1..n : a = b + 1 /\ T + 4 + 8 * (a - 1) = T + 4 + 8 * b
    <3>1. b + 1 \in 1..n /\ T + 4 + 8 * ((b + 1) - 1) = T + 4 + 8 * b
      BY <1>0
    <3> QED BY <3>1
  <2>3. Read(file, T + 4 + 8 * b) = Record(table, p, a)
    BY <1>7, <2>2
  <2>4. Record(table, p, a).position = p[a] /\ Record(table, p, a).chain_num_elements = Len(table[a])
    BY DEF Record
  <2> QED BY <2>2, <2>3, <2>4 DEF BucketListHeader, BucketRecord
<1>9. ASSUME NEW b \in 1..n
      PROVE  /\ p[b] \in Nat /\ p[b + 1] \in Nat /\ Len(table[b]) \in Nat
             /\ p[b] + 4 * Len(table[b]) <= p[b + 1]
  <2>1. PICK s : s = Chain(keys, n, b)
    OBVIOUS
  <2>2. PICK e : e = ElementPos(p[b], table[b])
    OBVIOUS
  <2>3. KeyedBucketIs(T, keys, n, elem, table, p, b, s, e)
    BY <1>1, <1>2, <2>1, <2>2, KeyedBucket
  <2> QED BY <2>3 DEF KeyedBucketIs
<1>10. \A b, c \in 1..(n + 1) : b <= c => p[b] <= p[c]
  <2>1. Rising(T + 4 + n * 8, BucketPieces(table, n), n, p)
    BY <1>0, <1>1, <1>2, <1>3, TableIs DEF TableWritten
  <2> QED BY <2>1 DEF Rising
<1>11. p[1] = T + BucketListHeader + BucketRecord * n
  <2>1. Rising(T + 4 + n * 8, BucketPieces(table, n), n, p)
    BY <1>0, <1>1, <1>2, <1>3, TableIs DEF TableWritten
  <2>2. p[1] = T + 4 + n * 8
    BY <2>1 DEF Rising
  <2> QED BY <1>0, <2>2 DEF BucketListHeader, BucketRecord
<1> DEFINE Rec(b) == Read(file, T + BucketListHeader + BucketRecord * b)
           filled == {b \in 0..(n - 1) : Rec(b).chain_num_elements > 0}
           Position(b) == Rec(IF \A c \in filled : b <= c THEN 0 ELSE b).position
<1>12. Rec(0).position = T + BucketListHeader + BucketRecord * n
  <2>1. 0 \in 0..(n - 1) /\ 0 + 1 = 1
    BY <1>0
  <2> QED BY <1>8, <1>11, <2>1
<1>13. ASSUME NEW b \in filled, NEW c \in filled, b < c PROVE Position(b) < Position(c)
  <2>1. b \in 0..(n - 1) /\ c \in 0..(n - 1) /\ Len(table[b + 1]) > 0
    BY <1>8
  <2>2. PICK a \in 1..n, d \in 1..n : a = b + 1 /\ d = c + 1 /\ a < d
    BY <1>0, <1>13, <2>1
  <2>3. Position(c) = p[d]
    BY <1>8, <1>13, <2>1, <2>2
  <2>4. Position(b) = p[a] \/ Position(b) = p[1]
    <3>1. CASE \A x \in filled : b <= x
      <4>1. Position(b) = Rec(0).position
        BY <3>1
      <4> QED BY <1>11, <1>12, <4>1
    <3>2. CASE ~ \A x \in filled : b <= x
      <4>1. Position(b) = Rec(b).position
        BY <3>2
      <4> QED BY <1>8, <2>1, <2>2, <4>1
    <3> QED BY <3>1, <3>2
  <2>5. /\ p[a] \in Nat /\ p[a + 1] \in Nat /\ p[d] \in Nat /\ p[1] \in Nat
        /\ p[a] + 4 * Len(table[a]) <= p[a + 1] /\ Len(table[a]) \in Nat /\ Len(table[a]) > 0
    <3>1. 1 \in 1..n
      BY <1>0
    <3> QED BY <1>9, <2>1, <2>2, <3>1
  <2>6. p[1] <= p[a] /\ p[a + 1] <= p[d]
    <3>1. /\ 1 \in 1..(n + 1) /\ a \in 1..(n + 1) /\ a + 1 \in 1..(n + 1) /\ d \in 1..(n + 1)
          /\ 1 <= a /\ a + 1 <= d
      BY <1>0, <2>2
    <3> QED BY <1>10, <3>1
  <2>7. p[a] < p[d] /\ p[1] < p[d]
    <3>1. PICK first, here, next, other, more \in Nat :
             /\ first = p[1] /\ here = p[a] /\ next = p[a + 1] /\ other = p[d]
             /\ more = Len(table[a])
      BY <2>5
    <3>2. more > 0 /\ here + 4 * more <= next /\ first <= here /\ next <= other
      BY <2>5, <2>6, <3>1, Zenon
    <3>3. here < other /\ first < other
      BY <3>2
    <3> QED BY <3>1, <3>3, Zenon
  <2>8. PICK x, y : x = Position(b) /\ y = Position(c)
    OBVIOUS
  <2>9. (x = p[a] \/ x = p[1]) /\ y = p[d]
    BY <2>3, <2>4, <2>8
  <2>10. x < y
    BY <2>7, <2>9
  <2> QED BY <2>8, <2>10, Zenon
<1>14. \A e \in Elements(file, T) : e < T + len + 1
  <2>1. SUFFICES ASSUME NEW e \in Elements(file, T) PROVE e < T + len + 1
    OBVIOUS
  <2>2. PICK key \in keys : e = pos[key]
    BY <1>5, StoredElements
  <2>3. PICK a \in Nat : a = pos[key]
    BY <1>5 DEF Placed
  <2>4. PICK size \in Nat : size = elem[key][a].bytes
    BY <1>5, <2>3 DEF Placed
  <2>5. a + size <= T + len
    BY <1>5, <1>6, <2>3, <2>4 DEF Placed
  <2> QED BY <2>2, <2>3, <2>5
<1>15. n * BucketRecord < len
  BY <1>0, <1>6 DEF BucketRecord
<1>16. filled # {} => Rec(0).position = T + BucketListHeader + BucketRecord * n
  BY <1>12
<1>17. CheckBuckets(file, T, len)
  <2>1. Read(file, T) = n
    BY <1>7
  <2> HIDE <1>8
  <2> QED BY <2>1, <1>13, <1>14, <1>15, <1>16 DEF CheckBuckets
<1> QED BY <1>6, <1>17

-----------------------------------------------------------------------------
(***************************************************************************)
(* Looking up a key in a stored table.                                     *)
(***************************************************************************)
LEMMA FirstStored ==
    ASSUME NEW es, NEW n, NEW keys, NEW pos, NEW b, BucketHolds(es, n, keys, pos, b),
           NEW key \in keys, key % n = b,
           NEW M, M = {k \in DOMAIN es : es[k] = pos[key]}
    PROVE  First(es, M) = pos[key]
<1>1. PICK m \in Nat : DOMAIN es = 1..m
  BY DEF BucketHolds
<1>2. M # {} /\ M \subseteq Nat
  BY <1>1 DEF BucketHolds
<1>3. \E k \in M : \A l \in M : k <= l
  BY <1>2, LeastElement
<1>4. PICK k : k = CHOOSE j \in M : \A l \in M : j <= l
  OBVIOUS
<1>5. k \in M
  BY <1>3, <1>4, Zenon
<1>6. First(es, M) = es[k]
  BY <1>2, <1>4 DEF First
<1> QED BY <1>5, <1>6

\* The headers of the elements carry their keys.
ByDocID(file, keys, pos) == \A key \in keys : Read(file, pos[key]).doc_id = key

LEMMA LookupIs ==
    ASSUME NEW file, NEW T, NEW n, NEW keys, NEW pos, KeySet(keys, n), Stored(file, T, n, keys, pos),
           NEW d \in Nat
    PROVE  BucketHolds(LookupElementPositions(file, T, d), n, keys, pos, d % n)
<1>1. PICK b \in 0..(n - 1) : b = d % n
  BY Remainder DEF KeySet
<1>2. LookupElementPositions(file, T, d) = BucketElements(file, T, b)
  BY <1>1 DEF LookupElementPositions, Stored
<1> QED BY <1>1, <1>2 DEF Stored

LEMMA FindStored ==
    ASSUME NEW file, NEW T, NEW n, NEW keys, NEW pos, KeySet(keys, n), Stored(file, T, n, keys, pos),
           ByDocID(file, keys, pos), NEW d \in Nat
    PROVE  FindDocID(file, T, d) = IF d \in keys THEN pos[d] ELSE None
<1>1. PICK es : es = LookupElementPositions(file, T, d)
  OBVIOUS
<1>2. PICK M : M = {k \in DOMAIN es : Read(file, es[k]).doc_id = d}
  OBVIOUS
<1>3. FindDocID(file, T, d) = First(es, M)
  BY <1>1, <1>2 DEF FindDocID
<1>4. BucketHolds(es, n, keys, pos, d % n)
  BY <1>1, LookupIs
<1>5. \A k \in DOMAIN es : \E key \in keys : es[k] = pos[key] /\ Read(file, es[k]).doc_id = key
  BY <1>4 DEF BucketHolds, ByDocID
<1>6. CASE d \in keys
  <2>1. M = {k \in DOMAIN es : es[k] = pos[d]}
    BY <1>2, <1>5, <1>6 DEF ByDocID
  <2>2. First(es, M) = pos[d]
    BY <1>4, <1>6, <2>1, FirstStored
  <2> QED BY <1>3, <1>6, <2>2
<1>7. CASE d \notin keys
  <2>1. M = {}
    BY <1>2, <1>5, <1>7
  <2> QED BY <1>3, <1>7, <2>1 DEF First
<1> QED BY <1>6, <1>7

LEMMA DocIDsCheck ==
    ASSUME NEW file, NEW T, NEW n, NEW keys, NEW pos, KeySet(keys, n), Stored(file, T, n, keys, pos),
           ByDocID(file, keys, pos)
    PROVE  CheckDocIDs(file, T)
<1>1. SUFFICES ASSUME NEW b \in 0..(n - 1), NEW k \in DOMAIN BucketElements(file, T, b)
               PROVE  Read(file, BucketElements(file, T, b)[k]).doc_id % n = b
  BY DEF CheckDocIDs, Stored
<1>2. PICK es : es = BucketElements(file, T, b)
  OBVIOUS
<1>3. BucketHolds(es, n, keys, pos, b)
  BY <1>2 DEF Stored
<1>4. PICK key \in keys : key % n = b /\ es[k] = pos[key]
  BY <1>2, <1>3 DEF BucketHolds
<1> QED BY <1>2, <1>4 DEF ByDocID

-----------------------------------------------------------------------------
(***************************************************************************)
(* The elements.                                                           *)
(***************************************************************************)
\* A number that 16 bits hold is stored as it is.
LEMMA Int16Is ==
    ASSUME NEW n \in Nat
    PROVE  Int16(n) \in Int /\ (n < 32768 => Int16(n) = n)
BY DEF Int16

Hole(at, s) == (at + 10 + Length(Ascii(s)))..(at + 10 + Length(s) - 1)

\* A name that can be that of a document.
IsName(s) == Length(s) \in Nat /\ Length(s) < 4096 /\ Length(Ascii(s)) \in 1..Length(s)

LEMMA NameFits ==
    ASSUME NEW at \in Nat, NEW kv, IsName(kv.value), NEW w, w = WriteDocidToDocnameFn(at, kv)
    PROVE  /\ Fits(w, at) /\ Gaps(w, at) = Hole(at, kv.value)
           /\ Field(at, 10, [doc_id |-> kv.key, file_name_bytes |-> Length(kv.value)]) \in w.fields
           /\ Field(at + 10, Length(Ascii(kv.value)), Ascii(kv.value)) \in w.fields
<1>1. PICK len \in Nat, short \in Nat \ {0} :
         /\ len = Length(kv.value) /\ short = Length(Ascii(kv.value)) /\ short <= len
         /\ Int16(len) = len
  <2>1. PICK len \in Nat : len = Length(kv.value) /\ len < 4096
    BY DEF IsName
  <2>2. PICK short \in 1..len : short = Length(Ascii(kv.value))
    BY <2>1 DEF IsName
  <2>3. len \in Nat /\ len < 32768
    BY <2>1
  <2>4. Int16(len) = len
    BY <2>3, Int16Is
  <2> QED BY <2>1, <2>2, <2>3, <2>4
<1>2. PICK h : h = Field(at, 10, [doc_id |-> kv.key, file_name_bytes |-> len])
  OBVIOUS
<1>3. PICK f : f = Field(at + 10, short, Ascii(kv.value))
  OBVIOUS
<1>4. w.fields = {h, f} /\ w.bytes = 10 + len
  <2>1. w = Written({h, f}, 10 + len)
    BY <1>1, <1>2, <1>3 DEF WriteDocidToDocnameFn, DoctableElementHeader
  <2> QED BY <2>1, WrittenIs
<1>5. At(h) = at /\ Size(h) = 10 /\ At(f) = at + 10 /\ Size(f) = short
  BY <1>2, <1>3, FieldIs
<1>6. Fits(w, at)
  <2>1. \A g \in w.fields : /\ At(g) \in Nat /\ Size(g) \in Nat \ {0}
                            /\ at <= At(g) /\ At(g) + Size(g) <= at + w.bytes
    BY <1>1, <1>4, <1>5
  <2>2. Behind(h, f)
    BY <1>5 DEF Behind
  <2> QED BY <1>4, <2>1, <2>2 DEF Fits
<1>7. Gaps(w, at) = (at + 10 + short)..(at + 10 + len - 1)
  <2>1. \A b \in Int : b \in Bytes(h) <=> at <= b /\ b < at + 10
    BY <1>5 DEF Bytes
  <2>2. \A b \in Int : b \in Bytes(f) <=> at + 10 <= b /\ b < at + 10 + short
    BY <1>5 DEF Bytes
  <2>3. Gaps(w, at) = {b \in at..(at + (10 + len) - 1) : b \notin Bytes(h) /\ b \notin Bytes(f)}
    BY <1>4 DEF Gaps
  <2> QED BY <2>1, <2>2, <2>3
<1> QED BY <1>1, <1>2, <1>3, <1>4, <1>6, <1>7 DEF Hole

LEMMA DocIDFits ==
    ASSUME NEW at \in Nat, NEW kv, NEW n \in Nat, Len(kv.value) = n, DOMAIN kv.value = 1..n,
           NEW w, w = WriteDocIDToPositionListFn(at, kv)
    PROVE  /\ Fits(w, at) /\ Gaps(w, at) = {}
           /\ Field(at, 12, [doc_id |-> kv.key, num_positions |-> n]) \in w.fields
           /\ \A k \in 1..n : Field(at + 12 + (k - 1) * 4, 4, kv.value[k]) \in w.fields
<1>1. PICK h : h = Field(at, 12, [doc_id |-> kv.key, num_positions |-> n])
  OBVIOUS
<1>2. PICK v : v = Written({h}, 12)
  OBVIOUS
<1>3. PICK val : val = kv.value
  OBVIOUS
<1>4. PICK start \in Nat : start = at + 12
  OBVIOUS
<1>5. PICK r : r = Written(Records(start, n, 4, val), n * 4)
  OBVIOUS
<1>6. v.fields = {h} /\ v.bytes = 12 /\ r.fields = Records(start, n, 4, val) /\ r.bytes = n * 4
  BY <1>2, <1>5, WrittenIs
<1>7. Fits(v, at) /\ Gaps(v, at) = {}
  BY <1>1, <1>2, FieldFits
<1>8. Fits(r, start) /\ Gaps(r, start) = {}
  BY <1>5, RecordsFit
<1>9. w = Both(v, r)
  <2>1. w = Written({h} \cup {Field(start + (k - 1) * 4, 4, val[k]) : k \in 1..n}, 12 + 4 * n)
    BY <1>1, <1>3, <1>4 DEF WriteDocIDToPositionListFn, DocIDElementHeader, DocIDElementPosition
  <2>2. w = Written({h} \cup Records(start, n, 4, val), 12 + 4 * n)
    BY <2>1 DEF Records
  <2>3. 12 + 4 * n = v.bytes + r.bytes
    BY <1>6
  <2> QED BY <1>6, <2>2, <2>3 DEF Both
<1>10. Fits(w, at) /\ Gaps(w, at) = {}
  <2>1. start = at + v.bytes
    BY <1>4, <1>6
  <2>2. Fits(r, at + v.bytes)
    BY <1>8, <2>1
  <2>3. Fits(Both(v, r), at) /\ Gaps(Both(v, r), at) = Gaps(v, at) \cup Gaps(r, at + v.bytes)
    BY <1>7, <2>2, BothFit
  <2> QED BY <1>7, <1>8, <1>9, <2>1, <2>3
<1>11. w.fields = {h} \cup Records(start, n, 4, val)
  BY <1>6, <1>9, WrittenIs DEF Both
<1>12. \A k \in 1..n : Field(start + (k - 1) * 4, 4, val[k]) \in w.fields
  BY <1>11 DEF Records
<1> QED BY <1>1, <1>3, <1>4, <1>10, <1>11, <1>12

Adjacent(v, w, at) == Fits(v, at) /\ Fits(w, at + v.bytes)

LEMMA AdjacentFit ==
    ASSUME NEW v, NEW w, NEW at \in Nat, Adjacent(v, w, at), Gaps(v, at) = {},
           Gaps(w, at + v.bytes) = {}
    PROVE  Fits(Both(v, w), at) /\ Gaps(Both(v, w), at) = {}
BY BothFit DEF Adjacent

\* A word: its header, itself, and the table of its documents.
LEMMA WordFits ==
    ASSUME NEW at \in Nat, NEW kv, NEW len \in Nat \ {0}, Int16(Length(kv.value.word)) = len,
           NEW T, T = at + 6 + len,
           NEW t, t = WriteHashTable(T, DocIDElements(kv.value.postings)),
           Fits(t, T), Gaps(t, T) = {},
           NEW w, w = WriteWordToPostingsFn(at, kv)
    PROVE  /\ Fits(w, at) /\ Gaps(w, at) = {} /\ w.bytes = 6 + len + t.bytes
           /\ Field(at, 6, [word_bytes |-> len, postings_bytes |-> t.bytes]) \in w.fields
           /\ Field(at + 6, len, Cut(kv.value.word, len)) \in w.fields
           /\ t.fields \subseteq w.fields
<1>1. PICK h : h = Field(at, 6, [word_bytes |-> len, postings_bytes |-> t.bytes])
  OBVIOUS
<1>2. PICK f : f = Field(at + 6, len, Cut(kv.value.word, len))
  OBVIOUS
<1>3. PICK v : v = Written({h}, 6)
  OBVIOUS
<1>4. PICK r : r = Written({f}, len)
  OBVIOUS
<1>5. v.fields = {h} /\ v.bytes = 6 /\ r.fields = {f} /\ r.bytes = len
  BY <1>3, <1>4, WrittenIs
<1>6. Fits(v, at) /\ Gaps(v, at) = {}
  BY <1>1, <1>3, FieldFits
<1>7. Fits(r, at + 6) /\ Gaps(r, at + 6) = {}
  <2>1. PICK a \in Nat : a = at + 6
    OBVIOUS
  <2>2. f = Field(a, len, Cut(kv.value.word, len))
    BY <1>2, <2>1
  <2>3. Fits(r, a) /\ Gaps(r, a) = {}
    BY <1>4, <2>2, FieldFits
  <2> QED BY <2>1, <2>3
<1>8. PICK u : u = Both(v, r)
  OBVIOUS
<1>9. u.fields = {h, f} /\ u.bytes = 6 + len
  BY <1>5, <1>8, WrittenIs DEF Both
<1>10. Fits(u, at) /\ Gaps(u, at) = {}
  <2>1. Fits(r, at + v.bytes)
    BY <1>5, <1>7
  <2>2. Fits(Both(v, r), at) /\ Gaps(Both(v, r), at) = Gaps(v, at) \cup Gaps(r, at + v.bytes)
    BY <1>6, <2>1, BothFit
  <2> QED BY <1>5, <1>6, <1>7, <1>8, <2>2
<1>11. w = Written(t.fields \cup {h, f}, 6 + len + t.bytes)
  BY <1>1, <1>2 DEF WriteWordToPostingsFn, WordPostingsHeader
<1>12. w.fields = t.fields \cup {h, f} /\ w.bytes = 6 + len + t.bytes
  BY <1>11, WrittenIs
<1>13. w = Both(u, t)
  BY <1>9, <1>11 DEF Both
<1>14. Fits(w, at) /\ Gaps(w, at) = {}
  <2>1. at + u.bytes = T
    BY <1>9
  <2>2. Fits(t, at + u.bytes)
    BY <2>1
  <2>3. Adjacent(u, t, at)
    BY <1>10, <2>2 DEF Adjacent
  <2>4. Gaps(t, at + u.bytes) = {}
    BY <2>1
  <2>5. Fits(Both(u, t), at) /\ Gaps(Both(u, t), at) = {}
    BY <1>10, <2>3, <2>4, AdjacentFit
  <2> QED BY <1>13, <2>5
<1> QED BY <1>1, <1>2, <1>12, <1>14

-----------------------------------------------------------------------------
(***************************************************************************)
(* The tables of an index.                                                 *)
(***************************************************************************)
NameElem(x) ==
    [d \in DOMAIN x.names |->
        [at \in Nat |-> WriteDocidToDocnameFn(at, [key |-> d, value |-> x.names[d]])]]
PositionsElem(x, w) ==
    [d \in DOMAIN x.postings[w] |->
        [at \in Nat |-> WriteDocIDToPositionListFn(at, [key |-> d, value |-> x.postings[w][d]])]]

Hashes(x) == {Hash(w) : w \in DOMAIN x.postings}
WordOf(x, h) == CHOOSE w \in DOMAIN x.postings : Hash(w) = h
Posting(x, h) == [word |-> WordOf(x, h), postings |-> PostingsTable(x, WordOf(x, h))]
WordElem(x) ==
    [h \in Hashes(x) |->
        [at \in Nat |-> WriteWordToPostingsFn(at, [key |-> h, value |-> Posting(x, h)])]]

LEMMA NamesKeyed ==
    ASSUME NEW x, InMemory(x)
    PROVE  /\ KeySet(DOMAIN x.names, x.doc_buckets)
           /\ DocnameElements(IdToName(x)) =
                 KeyedTable(DOMAIN x.names, x.doc_buckets, NameElem(x))
           /\ KeysFit(DOMAIN x.names, NameElem(x))
<1>1. PICK keys : keys = DOMAIN x.names
  OBVIOUS
<1>2. PICK n \in Nat \ {0} : n = x.doc_buckets
  BY DEF InMemory
<1>3. KeySet(keys, n)
  BY <1>1, <1>2 DEF InMemory, KeySet
<1>4. PICK table : table = IdToName(x)
  OBVIOUS
<1>5. table = [b \in 1..n |-> [c \in DOMAIN Chain(keys, n, b) |->
                 [key |-> Chain(keys, n, b)[c], value |-> x.names[Chain(keys, n, b)[c]]]]]
  BY <1>1, <1>2, <1>4 DEF IdToName, Buckets, Chain
<1>6. PICK elem : elem = NameElem(x)
  OBVIOUS
<1>7. \A d \in keys : elem[d] =
         [at \in Nat |-> WriteDocidToDocnameFn(at, [key |-> d, value |-> x.names[d]])]
  BY <1>1, <1>6 DEF NameElem
<1>8. ASSUME NEW b \in 1..n
      PROVE  [c \in DOMAIN table[b] |-> [at \in Nat |-> WriteDocidToDocnameFn(at, table[b][c])]]
                = [c \in DOMAIN Chain(keys, n, b) |-> elem[Chain(keys, n, b)[c]]]
  <2>1. PICK s : s = Chain(keys, n, b)
    OBVIOUS
  <2>2. \A c \in DOMAIN s : s[c] \in keys
    BY <1>3, <2>1, ChainIs DEF IsChain
  <2>3. table[b] = [c \in DOMAIN s |-> [key |-> s[c], value |-> x.names[s[c]]]]
    BY <1>5, <2>1
  <2>4. \A c \in DOMAIN s :
           [at \in Nat |-> WriteDocidToDocnameFn(at, table[b][c])] = elem[s[c]]
    BY <1>7, <2>2, <2>3
  <2>5. DOMAIN table[b] = DOMAIN s
    BY <2>3
  <2> QED BY <2>1, <2>4, <2>5
<1>9. DocnameElements(table) = KeyedTable(keys, n, elem)
  <2>1. DOMAIN table = 1..n
    BY <1>5
  <2> QED BY <1>8, <2>1 DEF DocnameElements, KeyedTable
<1>10. KeysFit(keys, elem)
  <2>1. SUFFICES ASSUME NEW d \in keys, NEW at \in Nat PROVE Fits(elem[d][at], at)
    BY DEF KeysFit
  <2>2. PICK kv : kv = [key |-> d, value |-> x.names[d]]
    OBVIOUS
  <2>3. IsName(kv.value)
    BY <1>1, <2>2 DEF InMemory, IsName
  <2>4. Fits(WriteDocidToDocnameFn(at, kv), at)
    BY <2>3, NameFits
  <2> QED BY <1>7, <2>2, <2>4
<1> QED BY <1>1, <1>2, <1>3, <1>4, <1>6, <1>9, <1>10

LEMMA PlacesOf ==
    ASSUME NEW x, InMemory(x), NEW w \in DOMAIN x.postings, NEW d \in DOMAIN x.postings[w],
           NEW s, s = x.postings[w][d]
    PROVE  /\ Len(s) \in Nat \ {0} /\ DOMAIN s = 1..Len(s) /\ s = [k \in 1..Len(s) |-> s[k]]
           /\ \A k, l \in 1..Len(s) : k < l => s[k] < s[l]
<1>1. s \in Seq(Nat) /\ s # <<>> /\ \A k, l \in DOMAIN s : k < l => s[k] < s[l]
  BY DEF InMemory
<1>2. Len(s) \in Nat /\ DOMAIN s = 1..Len(s) /\ s = [k \in 1..Len(s) |-> s[k]]
  BY <1>1, LenProperties
<1>3. Len(s) # 0
  BY <1>1, EmptySeq
<1> QED BY <1>1, <1>2, <1>3

LEMMA PositionsKeyed ==
    ASSUME NEW x, InMemory(x), NEW w \in DOMAIN x.postings
    PROVE  /\ KeySet(DOMAIN x.postings[w], x.posting_buckets[w])
           /\ DocIDElements(PostingsTable(x, w)) =
                 KeyedTable(DOMAIN x.postings[w], x.posting_buckets[w], PositionsElem(x, w))
           /\ KeysFit(DOMAIN x.postings[w], PositionsElem(x, w))
           /\ \A d \in DOMAIN x.postings[w] : \A at \in Nat :
                 Gaps(PositionsElem(x, w)[d][at], at) = {}
<1>1. PICK keys : keys = DOMAIN x.postings[w]
  OBVIOUS
<1>2. PICK n \in Nat \ {0} : n = x.posting_buckets[w]
  <2>1. PICK count : count = x.posting_buckets
    OBVIOUS
  <2>2. \A v \in DOMAIN x.postings : count[v] \in Nat \ {0}
    BY <2>1, SMTT(30) DEF InMemory
  <2>3. count[w] \in Nat \ {0}
    BY <2>2
  <2> QED BY <2>1, <2>3
<1>3. KeySet(keys, n)
  <2>1. IsFiniteSet(DOMAIN x.names) /\ DOMAIN x.names \subseteq Nat /\ keys \subseteq DOMAIN x.names
    BY <1>1 DEF InMemory
  <2>2. keys \in SUBSET DOMAIN x.names
    BY <2>1
  <2>3. IsFiniteSet(keys)
    BY <2>1, <2>2, FS_Subset
  <2> QED BY <2>1, <2>3 DEF KeySet
<1>4. PICK table : table = PostingsTable(x, w)
  OBVIOUS
<1>5. table = [b \in 1..n |-> [c \in DOMAIN Chain(keys, n, b) |->
                 [key |-> Chain(keys, n, b)[c], value |-> x.postings[w][Chain(keys, n, b)[c]]]]]
  BY <1>1, <1>2, <1>4 DEF PostingsTable, Buckets, Chain
<1>6. PICK elem : elem = PositionsElem(x, w)
  OBVIOUS
<1>7. \A d \in keys : elem[d] =
         [at \in Nat |-> WriteDocIDToPositionListFn(at, [key |-> d, value |-> x.postings[w][d]])]
  BY <1>1, <1>6 DEF PositionsElem
<1>8. ASSUME NEW b \in 1..n
      PROVE  [c \in DOMAIN table[b] |->
                 [at \in Nat |-> WriteDocIDToPositionListFn(at, table[b][c])]]
                = [c \in DOMAIN Chain(keys, n, b) |-> elem[Chain(keys, n, b)[c]]]
  <2>1. PICK s : s = Chain(keys, n, b)
    OBVIOUS
  <2>2. \A c \in DOMAIN s : s[c] \in keys
    BY <1>3, <2>1, ChainIs DEF IsChain
  <2>3. table[b] = [c \in DOMAIN s |-> [key |-> s[c], value |-> x.postings[w][s[c]]]]
    BY <1>5, <2>1
  <2>4. \A c \in DOMAIN s :
           [at \in Nat |-> WriteDocIDToPositionListFn(at, table[b][c])] = elem[s[c]]
    BY <1>7, <2>2, <2>3
  <2>5. DOMAIN table[b] = DOMAIN s
    BY <2>3
  <2> QED BY <2>1, <2>4, <2>5
<1>9. DocIDElements(table) = KeyedTable(keys, n, elem)
  <2>1. DOMAIN table = 1..n
    BY <1>5
  <2> QED BY <1>8, <2>1 DEF DocIDElements, KeyedTable
<1>10. ASSUME NEW d \in keys, NEW at \in Nat
       PROVE  Fits(elem[d][at], at) /\ Gaps(elem[d][at], at) = {}
  <2>1. PICK kv : kv = [key |-> d, value |-> x.postings[w][d]]
    OBVIOUS
  <2>2. PICK s : s = kv.value
    OBVIOUS
  <2>3. Len(s) \in Nat /\ DOMAIN s = 1..Len(s)
    BY <1>1, <2>1, <2>2, PlacesOf
  <2>4. PICK m \in Nat : m = Len(kv.value) /\ DOMAIN kv.value = 1..m
    BY <2>2, <2>3
  <2>5. PICK u : u = WriteDocIDToPositionListFn(at, kv)
    OBVIOUS
  <2>6. Fits(u, at) /\ Gaps(u, at) = {}
    BY <2>4, <2>5, DocIDFits
  <2> QED BY <1>7, <2>1, <2>5, <2>6
<1>11. KeysFit(keys, elem)
  BY <1>10 DEF KeysFit
<1> QED BY <1>1, <1>2, <1>3, <1>4, <1>6, <1>9, <1>10, <1>11

LEMMA WordOfIs ==
    ASSUME NEW x, InMemory(x)
    PROVE  /\ \A h \in Hashes(x) : WordOf(x, h) \in DOMAIN x.postings /\ Hash(WordOf(x, h)) = h
           /\ \A w \in DOMAIN x.postings : Hash(w) \in Hashes(x) /\ WordOf(x, Hash(w)) = w
<1>1. \A v, w \in DOMAIN x.postings : Hash(v) = Hash(w) => v = w
  BY DEF InMemory
<1>2. ASSUME NEW h \in Hashes(x)
      PROVE  WordOf(x, h) \in DOMAIN x.postings /\ Hash(WordOf(x, h)) = h
  <2>1. \E w \in DOMAIN x.postings : Hash(w) = h
    BY DEF Hashes
  <2> QED BY <2>1 DEF WordOf
<1>3. ASSUME NEW w \in DOMAIN x.postings
      PROVE  Hash(w) \in Hashes(x) /\ WordOf(x, Hash(w)) = w
  <2>1. Hash(w) \in Hashes(x)
    BY DEF Hashes
  <2>2. PICK v : v = WordOf(x, Hash(w))
    OBVIOUS
  <2>3. v \in DOMAIN x.postings /\ Hash(v) = Hash(w)
    BY <1>2, <2>1, <2>2
  <2> QED BY <1>1, <2>1, <2>2, <2>3
<1> QED BY <1>2, <1>3

\* The table of a word's documents.
PositionsTable(x, w, T) == WriteHashTable(T, DocIDElements(PostingsTable(x, w)))

LEMMA PositionsFit ==
    ASSUME NEW x, InMemory(x), NEW w \in DOMAIN x.postings, NEW T \in Nat,
           NEW t, t = PositionsTable(x, w, T)
    PROVE  Fits(t, T) /\ Gaps(t, T) = {}
<1>1. PICK keys : keys = DOMAIN x.postings[w]
  OBVIOUS
<1>2. PICK n : n = x.posting_buckets[w]
  OBVIOUS
<1>3. PICK elem : elem = PositionsElem(x, w)
  OBVIOUS
<1>4. PICK pos : pos = ElementsAt(T, keys, n, elem)
  OBVIOUS
<1>5. /\ KeySet(keys, n) /\ DocIDElements(PostingsTable(x, w)) = KeyedTable(keys, n, elem)
      /\ KeysFit(keys, elem) /\ \A d \in keys : \A at \in Nat : Gaps(elem[d][at], at) = {}
  BY <1>1, <1>2, <1>3, PositionsKeyed
<1>6. t = WriteHashTable(T, KeyedTable(keys, n, elem))
  BY <1>5 DEF PositionsTable
<1>7. Placed(T, n, keys, elem, t, pos)
  BY <1>4, <1>5, <1>6, KeyedPlaced
<1>8. Gaps(t, T) = {}
  BY <1>5, <1>7 DEF Placed
<1> QED BY <1>7, <1>8 DEF Placed

\* How much of a word is written.
LEMMA WrittenLength ==
    ASSUME NEW x, InMemory(x), CanWrite(x), NEW w \in DOMAIN x.postings
    PROVE  Int16(Length(w)) \in Nat \ {0}
<1>1. Length(w) \in Nat /\ Int16(Length(w)) > 0
  BY DEF InMemory, CanWrite, WordIsWritten
<1> QED BY <1>1, Int16Is

LEMMA ShortLength ==
    ASSUME NEW x, InMemory(x), Short(x), NEW w \in DOMAIN x.postings
    PROVE  /\ Length(w) \in Nat \ {0} /\ Int16(Length(w)) = Length(w)
           /\ Cut(w, Int16(Length(w))) = w
<1>1. Length(w) \in Nat \ {0} /\ Cut(w, Length(w)) = w /\ Length(w) < 32768
  BY DEF InMemory, Short
<1> QED BY <1>1, Int16Is

\* What stands at the place of a word.
WordAt(x, h, at, e) ==
    LET w == WordOf(x, h)
        len == Int16(Length(w))
        t == PositionsTable(x, w, at + 6 + len)
    IN  /\ Fits(e, at) /\ Gaps(e, at) = {} /\ e.bytes = 6 + len + t.bytes
        /\ Field(at, 6, [word_bytes |-> len, postings_bytes |-> t.bytes]) \in e.fields
        /\ Field(at + 6, len, Cut(w, len)) \in e.fields
        /\ t.fields \subseteq e.fields

LEMMA WordsKeyed ==
    ASSUME NEW x, InMemory(x), CanWrite(x)
    PROVE  /\ KeySet(Hashes(x), x.word_buckets)
           /\ WordElements(MemIndex(x)) = KeyedTable(Hashes(x), x.word_buckets, WordElem(x))
           /\ KeysFit(Hashes(x), WordElem(x))
           /\ \A h \in Hashes(x) : \A at \in Nat : WordAt(x, h, at, WordElem(x)[h][at])
<1>1. PICK keys : keys = Hashes(x)
  OBVIOUS
<1>2. PICK n \in Nat \ {0} : n = x.word_buckets
  BY DEF InMemory
<1>3. KeySet(keys, n)
  <2>1. IsFiniteSet(DOMAIN x.postings) /\ \A w \in DOMAIN x.postings : Hash(w) \in Nat
    BY DEF InMemory
  <2>2. PICK f : f = [w \in DOMAIN x.postings |-> Hash(w)]
    OBVIOUS
  <2>3. \A h \in keys : \E w \in DOMAIN x.postings : f[w] = h
    BY <1>1, <2>2 DEF Hashes
  <2>4. \A w \in DOMAIN x.postings : f[w] \in keys
    BY <1>1, <2>2 DEF Hashes
  <2>5. f \in Surjection(DOMAIN x.postings, keys)
    <3>1. f \in [DOMAIN x.postings -> keys]
      BY <2>2, <2>4
    <3> QED BY <2>3, <3>1, Fun_IsSurj
  <2>6. IsFiniteSet(keys)
    BY <2>1, <2>5, FS_Surjection
  <2>7. keys \subseteq Nat
    BY <1>1, <2>1 DEF Hashes
  <2> QED BY <2>6, <2>7 DEF KeySet
<1>4. PICK table : table = MemIndex(x)
  OBVIOUS
<1>5. table = [b \in 1..n |-> [c \in DOMAIN Chain(keys, n, b) |->
                 [key |-> Chain(keys, n, b)[c], value |-> Posting(x, Chain(keys, n, b)[c])]]]
  <2>1. PICK map : map = [h \in Hashes(x) |-> Posting(x, h)]
    OBVIOUS
  <2>2. table = Buckets(map, n)
    BY <1>2, <1>4, <2>1 DEF MemIndex, Posting, WordOf, Hashes
  <2>3. DOMAIN map = keys /\ \A h \in keys : map[h] = Posting(x, h)
    BY <1>1, <2>1
  <2>4. table = [b \in 1..n |-> [c \in DOMAIN Chain(keys, n, b) |->
                   [key |-> Chain(keys, n, b)[c], value |-> map[Chain(keys, n, b)[c]]]]]
    BY <2>2, <2>3 DEF Buckets, Chain
  <2>5. ASSUME NEW b \in 1..n, NEW c \in DOMAIN Chain(keys, n, b)
        PROVE  map[Chain(keys, n, b)[c]] = Posting(x, Chain(keys, n, b)[c])
    <3>1. IsChain(Chain(keys, n, b), keys, n, b)
      BY <1>2, <1>3, ChainIs
    <3>2. Chain(keys, n, b)[c] \in keys
      BY <2>5, <3>1 DEF IsChain
    <3> QED BY <2>3, <3>2
  <2> QED BY <2>4, <2>5
<1>6. PICK elem : elem = WordElem(x)
  OBVIOUS
<1>7. \A h \in keys : elem[h] =
         [at \in Nat |-> WriteWordToPostingsFn(at, [key |-> h, value |-> Posting(x, h)])]
  BY <1>1, <1>6 DEF WordElem
<1>8. ASSUME NEW b \in 1..n
      PROVE  [c \in DOMAIN table[b] |->
                 [at \in Nat |-> WriteWordToPostingsFn(at, table[b][c])]]
                = [c \in DOMAIN Chain(keys, n, b) |-> elem[Chain(keys, n, b)[c]]]
  <2>1. PICK s : s = Chain(keys, n, b)
    OBVIOUS
  <2>2. \A c \in DOMAIN s : s[c] \in keys
    BY <1>3, <2>1, ChainIs DEF IsChain
  <2>3. table[b] = [c \in DOMAIN s |-> [key |-> s[c], value |-> Posting(x, s[c])]]
    BY <1>5, <2>1
  <2>4. \A c \in DOMAIN s :
           [at \in Nat |-> WriteWordToPostingsFn(at, table[b][c])] = elem[s[c]]
    BY <1>7, <2>2, <2>3
  <2>5. DOMAIN table[b] = DOMAIN s
    BY <2>3
  <2> QED BY <2>1, <2>4, <2>5
<1>9. WordElements(table) = KeyedTable(keys, n, elem)
  <2>1. DOMAIN table = 1..n
    BY <1>5
  <2> QED BY <1>8, <2>1 DEF WordElements, KeyedTable
<1>10. ASSUME NEW h \in keys, NEW at \in Nat PROVE WordAt(x, h, at, elem[h][at])
  <2>1. PICK kv : kv = [key |-> h, value |-> Posting(x, h)]
    OBVIOUS
  <2>2. PICK w \in DOMAIN x.postings : w = WordOf(x, h)
    BY <1>1, WordOfIs
  <2>3. kv.value.word = w /\ kv.value.postings = PostingsTable(x, w)
    BY <2>1, <2>2 DEF Posting
  <2>4. PICK len \in Nat \ {0} : len = Int16(Length(w))
    BY WrittenLength
  <2>5. PICK T \in Nat : T = at + 6 + len
    OBVIOUS
  <2>6. PICK t : t = PositionsTable(x, w, T)
    OBVIOUS
  <2>7. Fits(t, T) /\ Gaps(t, T) = {}
    BY <2>6, PositionsFit
  <2>8. t = WriteHashTable(T, DocIDElements(kv.value.postings))
    BY <2>3, <2>6 DEF PositionsTable
  <2>9. PICK e : e = WriteWordToPostingsFn(at, kv)
    OBVIOUS
  <2>10. Int16(Length(kv.value.word)) = len
    BY <2>3, <2>4
  <2>11. /\ Fits(e, at) /\ Gaps(e, at) = {} /\ e.bytes = 6 + len + t.bytes
         /\ Field(at, 6, [word_bytes |-> len, postings_bytes |-> t.bytes]) \in e.fields
         /\ Field(at + 6, len, Cut(kv.value.word, len)) \in e.fields
         /\ t.fields \subseteq e.fields
    BY <2>5, <2>7, <2>8, <2>9, <2>10, WordFits
  <2>12. WordAt(x, h, at, e)
    BY <2>2, <2>3, <2>4, <2>5, <2>6, <2>11 DEF WordAt
  <2> QED BY <1>7, <2>1, <2>9, <2>12
<1>11. KeysFit(keys, elem)
  BY <1>10 DEF KeysFit, WordAt
<1> QED BY <1>1, <1>2, <1>3, <1>4, <1>6, <1>9, <1>10, <1>11

-----------------------------------------------------------------------------
(***************************************************************************)
(* An index file.                                                          *)
(***************************************************************************)
FileOf(x) == WriteIndex(MemIndex(x), IdToName(x))

NameTable(x) == WriteHashTable(16, KeyedTable(DOMAIN x.names, x.doc_buckets, NameElem(x)))
NamePos(x) == ElementsAt(16, DOMAIN x.names, x.doc_buckets, NameElem(x))

WordStart(x) == 16 + NameTable(x).bytes
WordTable(x) == WriteHashTable(WordStart(x), KeyedTable(Hashes(x), x.word_buckets, WordElem(x)))
WordPos(x) == ElementsAt(WordStart(x), Hashes(x), x.word_buckets, WordElem(x))

LEMMA NamesPlaced ==
    ASSUME NEW x, InMemory(x)
    PROVE  Placed(16, x.doc_buckets, DOMAIN x.names, NameElem(x), NameTable(x), NamePos(x))
<1>1. PICK keys : keys = DOMAIN x.names
  OBVIOUS
<1>2. PICK n : n = x.doc_buckets
  OBVIOUS
<1>3. PICK elem : elem = NameElem(x)
  OBVIOUS
<1>4. KeySet(keys, n) /\ KeysFit(keys, elem)
  BY <1>1, <1>2, <1>3, NamesKeyed
<1>5. PICK w : w = WriteHashTable(16, KeyedTable(keys, n, elem))
  OBVIOUS
<1>6. PICK pos : pos = ElementsAt(16, keys, n, elem)
  OBVIOUS
<1>7. Placed(16, n, keys, elem, w, pos)
  BY <1>4, <1>5, <1>6, KeyedPlaced
<1> QED BY <1>1, <1>2, <1>3, <1>5, <1>6, <1>7 DEF NameTable, NamePos

LEMMA WordStartIs ==
    ASSUME NEW x, InMemory(x)
    PROVE  WordStart(x) \in Nat
<1>1. Fits(NameTable(x), 16)
  BY NamesPlaced DEF Placed
<1>2. NameTable(x).bytes \in Nat
  BY <1>1 DEF Fits
<1> QED BY <1>2 DEF WordStart

LEMMA WordsPlaced ==
    ASSUME NEW x, InMemory(x), CanWrite(x)
    PROVE  Placed(WordStart(x), x.word_buckets, Hashes(x), WordElem(x), WordTable(x), WordPos(x))
<1>1. PICK keys : keys = Hashes(x)
  OBVIOUS
<1>2. PICK n : n = x.word_buckets
  OBVIOUS
<1>3. PICK elem : elem = WordElem(x)
  OBVIOUS
<1>4. KeySet(keys, n) /\ KeysFit(keys, elem)
  BY <1>1, <1>2, <1>3, WordsKeyed
<1>5. PICK T \in Nat : T = WordStart(x)
  BY WordStartIs
<1>6. PICK w : w = WriteHashTable(T, KeyedTable(keys, n, elem))
  OBVIOUS
<1>7. PICK pos : pos = ElementsAt(T, keys, n, elem)
  OBVIOUS
<1>8. Placed(T, n, keys, elem, w, pos)
  BY <1>4, <1>6, <1>7, KeyedPlaced
<1> QED BY <1>1, <1>2, <1>3, <1>5, <1>6, <1>7, <1>8 DEF WordTable, WordPos

\* The header, the two tables, and no gaps but the holes behind names.
IndexHeld(x, file) ==
    /\ Fits(file, 0)
    /\ file.bytes = 16 + NameTable(x).bytes + WordTable(x).bytes
    /\ Read(file, 0) = [doctable_bytes |-> NameTable(x).bytes, index_bytes |-> WordTable(x).bytes]
    /\ NameTable(x).fields \subseteq file.fields
    /\ WordTable(x).fields \subseteq file.fields
    /\ \A b : b \in Gaps(file, 0) <=>
          \E d \in DOMAIN x.names : b \in Hole(NamePos(x)[d], x.names[d])

LEMMA IndexIs ==
    ASSUME NEW x, InMemory(x), CanWrite(x), NEW file, file = FileOf(x)
    PROVE  IndexHeld(x, file)
<1>1. PICK d : d = NameTable(x)
  OBVIOUS
<1>2. PICK m : m = WordTable(x)
  OBVIOUS
<1>3. PICK T \in Nat : T = WordStart(x) /\ T = 16 + d.bytes
  BY <1>1, WordStartIs DEF WordStart
<1>4. Fits(d, 16) /\ Fits(m, T)
  BY <1>1, <1>2, <1>3, NamesPlaced, WordsPlaced DEF Placed
<1>5. PICK h : h = Field(0, 16, [doctable_bytes |-> d.bytes, index_bytes |-> m.bytes])
  OBVIOUS
<1>6. file = Written(d.fields \cup m.fields \cup {h}, 16 + d.bytes + m.bytes)
  <2>1. d = WriteDocTable(16, IdToName(x))
    BY <1>1, NamesKeyed DEF WriteDocTable, NameTable
  <2>2. m = WriteMemIndex(T, MemIndex(x))
    BY <1>2, <1>3, WordsKeyed DEF WriteMemIndex, WordTable
  <2> QED BY <1>3, <1>5, <2>1, <2>2 DEF FileOf, WriteIndex, IndexFileHeader
<1>7. PICK v : v = Written({h}, 16)
  OBVIOUS
<1>8. v.fields = {h} /\ v.bytes = 16 /\ Fits(v, 0) /\ Gaps(v, 0) = {}
  <2>1. v.fields = {h} /\ v.bytes = 16
    BY <1>7, WrittenIs
  <2>2. PICK size \in Nat \ {0} : size = 16
    OBVIOUS
  <2>3. Fits(v, 0) /\ Gaps(v, 0) = {}
    BY <1>5, <1>7, <2>2, FieldFits
  <2> QED BY <2>1, <2>3
<1>9. PICK u : u = Both(v, d)
  OBVIOUS
<1>10. u.fields = d.fields \cup {h} /\ u.bytes = 16 + d.bytes
  BY <1>8, <1>9, WrittenIs DEF Both
<1>11. Fits(u, 0) /\ Gaps(u, 0) = Gaps(d, 16)
  <2>1. 0 \in Nat /\ 0 + v.bytes = 16
    BY <1>8
  <2>2. Fits(d, 0 + v.bytes)
    BY <1>4, <2>1
  <2>3. Fits(Both(v, d), 0) /\ Gaps(Both(v, d), 0) = Gaps(v, 0) \cup Gaps(d, 0 + v.bytes)
    BY <1>8, <2>1, <2>2, BothFit
  <2> QED BY <1>8, <1>9, <2>1, <2>3
<1>12. file = Both(u, m)
  BY <1>6, <1>10 DEF Both
<1>13. Fits(file, 0) /\ Gaps(file, 0) = Gaps(d, 16) \cup Gaps(m, T)
  <2>1. 0 \in Nat /\ 0 + u.bytes = T
    BY <1>3, <1>10
  <2>2. Fits(m, 0 + u.bytes)
    BY <1>4, <2>1
  <2>3. Fits(Both(u, m), 0) /\ Gaps(Both(u, m), 0) = Gaps(u, 0) \cup Gaps(m, 0 + u.bytes)
    BY <1>11, <2>1, <2>2, BothFit
  <2> QED BY <1>11, <1>12, <2>1, <2>3
<1>14. file.fields = d.fields \cup m.fields \cup {h} /\ file.bytes = 16 + d.bytes + m.bytes
  BY <1>6, WrittenIs
<1>15. Read(file, 0) = [doctable_bytes |-> d.bytes, index_bytes |-> m.bytes]
  <2>1. Field(0, 16, [doctable_bytes |-> d.bytes, index_bytes |-> m.bytes]) \in file.fields
    BY <1>5, <1>14
  <2> QED BY <1>13, <2>1, ReadIs
<1>16. Gaps(m, T) = {}
  <2>1. PICK elem : elem = WordElem(x)
    OBVIOUS
  <2>2. PICK pos : pos = WordPos(x)
    OBVIOUS
  <2>3. Placed(T, x.word_buckets, Hashes(x), elem, m, pos)
    BY <1>2, <1>3, <2>1, <2>2, WordsPlaced
  <2>4. \A key \in Hashes(x) : pos[key] \in Nat
    BY <2>3 DEF Placed
  <2>5. \A key \in Hashes(x) : Gaps(elem[key][pos[key]], pos[key]) = {}
    BY <2>1, <2>4, WordsKeyed DEF WordAt
  <2> QED BY <2>3, <2>5 DEF Placed
<1>17. \A b : b \in Gaps(d, 16) <=>
          \E k \in DOMAIN x.names : b \in Hole(NamePos(x)[k], x.names[k])
  <2>1. PICK elem : elem = NameElem(x)
    OBVIOUS
  <2>2. PICK pos : pos = NamePos(x)
    OBVIOUS
  <2>3. Placed(16, x.doc_buckets, DOMAIN x.names, elem, d, pos)
    BY <1>1, <2>1, <2>2, NamesPlaced
  <2>4. ASSUME NEW k \in DOMAIN x.names
        PROVE  Gaps(elem[k][pos[k]], pos[k]) = Hole(pos[k], x.names[k])
    <3>1. PICK at \in Nat : at = pos[k]
      BY <2>3 DEF Placed
    <3>2. PICK kv : kv = [key |-> k, value |-> x.names[k]]
      OBVIOUS
    <3>3. PICK e : e = WriteDocidToDocnameFn(at, kv)
      OBVIOUS
    <3>4. elem[k][at] = e
      BY <2>1, <3>2, <3>3 DEF NameElem
    <3>5. IsName(kv.value)
      BY <3>2 DEF InMemory, IsName
    <3>6. Gaps(e, at) = Hole(at, kv.value)
      BY <3>3, <3>5, NameFits
    <3> QED BY <3>1, <3>2, <3>4, <3>6
  <2>5. \A b : b \in Gaps(d, 16) <=>
           \E k \in DOMAIN x.names : b \in Gaps(elem[k][pos[k]], pos[k])
    BY <2>3 DEF Placed
  <2> QED BY <2>2, <2>4, <2>5
<1> QED BY <1>1, <1>2, <1>13, <1>14, <1>15, <1>16, <1>17 DEF IndexHeld

-----------------------------------------------------------------------------
(***************************************************************************)
(* What the readers see in it.                                             *)
(***************************************************************************)
NamesHeld(x, file, pos) ==
    /\ KeySet(DOMAIN x.names, x.doc_buckets)
    /\ Stored(file, 16, x.doc_buckets, DOMAIN x.names, pos)
    /\ ByDocID(file, DOMAIN x.names, pos)
    /\ CheckBuckets(file, 16, NameTable(x).bytes)
    /\ \A d \in DOMAIN x.names :
          /\ Read(file, pos[d]) = [doc_id |-> d, file_name_bytes |-> Length(x.names[d])]
          /\ Read(file, pos[d] + 10) = Ascii(x.names[d])

LEMMA NamesRead ==
    ASSUME NEW x, InMemory(x), NEW file, IndexHeld(x, file), NEW pos, pos = NamePos(x)
    PROVE  NamesHeld(x, file, pos)
<1>1. PICK keys : keys = DOMAIN x.names
  OBVIOUS
<1>2. PICK n : n = x.doc_buckets
  OBVIOUS
<1>3. PICK elem : elem = NameElem(x)
  OBVIOUS
<1>4. PICK w : w = NameTable(x)
  OBVIOUS
<1>5. KeySet(keys, n) /\ KeysFit(keys, elem)
  BY <1>1, <1>2, <1>3, NamesKeyed
<1>6. w = WriteHashTable(16, KeyedTable(keys, n, elem)) /\ pos = ElementsAt(16, keys, n, elem)
  BY <1>1, <1>2, <1>3, <1>4 DEF NameTable, NamePos
<1>7. Fits(file, 0) /\ w.fields \subseteq file.fields
  BY <1>4 DEF IndexHeld
<1>8. Stored(file, 16, n, keys, pos)
  BY <1>5, <1>6, <1>7, KeyedStored
<1>9. CheckBuckets(file, 16, w.bytes)
  BY <1>5, <1>6, <1>7, KeyedBucketsCheck
<1>10. Placed(16, n, keys, elem, w, pos)
  BY <1>5, <1>6, KeyedPlaced
<1>11. ASSUME NEW d \in keys
       PROVE  /\ Read(file, pos[d]) = [doc_id |-> d, file_name_bytes |-> Length(x.names[d])]
              /\ Read(file, pos[d] + 10) = Ascii(x.names[d])
  <2>1. PICK at \in Nat : at = pos[d]
    BY <1>10 DEF Placed
  <2>2. PICK kv : kv = [key |-> d, value |-> x.names[d]]
    OBVIOUS
  <2>3. PICK e : e = WriteDocidToDocnameFn(at, kv)
    OBVIOUS
  <2>4. elem[d][at] = e
    BY <1>1, <1>3, <2>2, <2>3 DEF NameElem
  <2>5. e.fields \subseteq file.fields
    BY <1>7, <1>10, <2>1, <2>4 DEF Placed
  <2>6. IsName(kv.value)
    BY <1>1, <2>2 DEF InMemory, IsName
  <2>7. PICK r : r = [doc_id |-> d, file_name_bytes |-> Length(x.names[d])]
    OBVIOUS
  <2>8. PICK name : name = Ascii(x.names[d])
    OBVIOUS
  <2>9. Field(at, 10, r) \in e.fields /\ Field(at + 10, Length(name), name) \in e.fields
    BY <2>2, <2>3, <2>6, <2>7, <2>8, NameFits
  <2>10. Read(file, at) = r
    BY <1>7, <2>5, <2>9, ReadIs
  <2>11. Read(file, at + 10) = name
    BY <1>7, <2>5, <2>9, ReadIs
  <2> QED BY <2>1, <2>7, <2>8, <2>10, <2>11
<1>12. ByDocID(file, keys, pos)
  <2>1. SUFFICES ASSUME NEW d \in keys PROVE Read(file, pos[d]).doc_id = d
    BY DEF ByDocID
  <2>2. PICK r : r = [doc_id |-> d, file_name_bytes |-> Length(x.names[d])]
    OBVIOUS
  <2>3. Read(file, pos[d]) = r
    BY <1>11, <2>2
  <2> QED BY <2>2, <2>3
<1> QED BY <1>1, <1>2, <1>4, <1>5, <1>8, <1>9, <1>11, <1>12 DEF NamesHeld

WordHeld(x, file, h, at, end) ==
    LET w == WordOf(x, h)
        len == Int16(Length(w))
        T == at + 6 + len
        t == PositionsTable(x, w, T)
    IN  /\ Read(file, at) = [word_bytes |-> len, postings_bytes |-> t.bytes]
        /\ Read(file, at + 6) = Cut(w, len)
        /\ T \in Nat /\ t.fields \subseteq file.fields
        /\ T < end

WordsHeld(x, file, pos) ==
    /\ KeySet(Hashes(x), x.word_buckets)
    /\ Stored(file, WordStart(x), x.word_buckets, Hashes(x), pos)
    /\ CheckBuckets(file, WordStart(x), WordTable(x).bytes)
    /\ \A h \in Hashes(x) : WordHeld(x, file, h, pos[h], WordStart(x) + WordTable(x).bytes)

LEMMA WordsRead ==
    ASSUME NEW x, InMemory(x), CanWrite(x), NEW file, IndexHeld(x, file), NEW pos, pos = WordPos(x)
    PROVE  WordsHeld(x, file, pos)
<1>1. PICK keys : keys = Hashes(x)
  OBVIOUS
<1>2. PICK n : n = x.word_buckets
  OBVIOUS
<1>3. PICK elem : elem = WordElem(x)
  OBVIOUS
<1>4. PICK m : m = WordTable(x)
  OBVIOUS
<1>5. PICK start \in Nat : start = WordStart(x)
  BY WordStartIs
<1>6. KeySet(keys, n) /\ KeysFit(keys, elem)
  BY <1>1, <1>2, <1>3, WordsKeyed
<1>7. m = WriteHashTable(start, KeyedTable(keys, n, elem)) /\ pos = ElementsAt(start, keys, n, elem)
  BY <1>1, <1>2, <1>3, <1>4, <1>5 DEF WordTable, WordPos
<1>8. Fits(file, 0) /\ m.fields \subseteq file.fields
  BY <1>4 DEF IndexHeld
<1>9. Stored(file, start, n, keys, pos)
  BY <1>6, <1>7, <1>8, KeyedStored
<1>10. CheckBuckets(file, start, m.bytes)
  BY <1>6, <1>7, <1>8, KeyedBucketsCheck
<1>11. Placed(start, n, keys, elem, m, pos)
  BY <1>6, <1>7, KeyedPlaced
<1>12. PICK end \in Nat : end = start + m.bytes
  <2>1. m.bytes \in Nat
    BY <1>11 DEF Placed, Fits
  <2> QED BY <2>1
<1>13. ASSUME NEW h \in keys PROVE WordHeld(x, file, h, pos[h], end)
  <2>1. PICK at \in Nat : at = pos[h]
    BY <1>11 DEF Placed
  <2>2. PICK e : e = elem[h][at]
    OBVIOUS
  <2>3. PICK w \in DOMAIN x.postings : w = WordOf(x, h)
    BY <1>1, WordOfIs
  <2>4. PICK len \in Nat \ {0} : len = Int16(Length(w))
    BY WrittenLength
  <2>5. PICK T \in Nat : T = at + 6 + len
    OBVIOUS
  <2>6. PICK t : t = PositionsTable(x, w, T)
    OBVIOUS
  <2>7. WordAt(x, h, at, e)
    BY <1>1, <1>3, <2>2, WordsKeyed
  <2>8. PICK r : r = [word_bytes |-> len, postings_bytes |-> t.bytes]
    OBVIOUS
  <2>9. /\ e.bytes = 6 + len + t.bytes /\ Field(at, 6, r) \in e.fields
        /\ Field(at + 6, len, Cut(w, len)) \in e.fields /\ t.fields \subseteq e.fields
    BY <2>3, <2>4, <2>5, <2>6, <2>7, <2>8 DEF WordAt
  <2>10. e.fields \subseteq file.fields
    BY <1>8, <1>11, <2>1, <2>2 DEF Placed
  <2>11. Read(file, at) = r
    BY <1>8, <2>9, <2>10, ReadIs
  <2>12. Read(file, at + 6) = Cut(w, len)
    BY <1>8, <2>9, <2>10, ReadIs
  <2>13. PICK size \in Nat : size = t.bytes /\ size > 0
    <3>0. PICK n1 : n1 = x.posting_buckets[w]
      OBVIOUS
    <3>1. PICK keys1 : keys1 = DOMAIN x.postings[w]
      OBVIOUS
    <3>2. PICK elem1 : elem1 = PositionsElem(x, w)
      OBVIOUS
    <3>3. PICK pos1 : pos1 = ElementsAt(T, keys1, n1, elem1)
      OBVIOUS
    <3>4. /\ KeySet(keys1, n1) /\ DocIDElements(PostingsTable(x, w)) = KeyedTable(keys1, n1, elem1)
          /\ KeysFit(keys1, elem1)
      BY <3>0, <3>1, <3>2, PositionsKeyed
    <3>5. t = WriteHashTable(T, KeyedTable(keys1, n1, elem1))
      BY <2>6, <3>4 DEF PositionsTable
    <3>6. Placed(T, n1, keys1, elem1, t, pos1)
      BY <3>3, <3>4, <3>5, KeyedPlaced
    <3>7. t.bytes \in Nat /\ 4 + 8 * n1 <= t.bytes /\ n1 \in Nat
      BY <3>4, <3>6 DEF Placed, Fits, KeySet
    <3>8. t.bytes > 0
      BY <3>7
    <3> QED BY <3>7, <3>8
  <2>14. at + e.bytes <= end
    BY <1>11, <1>12, <2>1, <2>2 DEF Placed
  <2>15. T < end
    BY <2>5, <2>9, <2>13, <2>14
  <2>16. t.fields \subseteq file.fields
    BY <2>9, <2>10
  <2> QED BY <2>1, <2>3, <2>4, <2>5, <2>6, <2>8, <2>11, <2>12, <2>15, <2>16 DEF WordHeld
<1> QED BY <1>1, <1>2, <1>4, <1>5, <1>6, <1>9, <1>10, <1>12, <1>13 DEF WordsHeld

PositionsHeld(x, file, w, T, t, pos) ==
    /\ KeySet(DOMAIN x.postings[w], x.posting_buckets[w])
    /\ Stored(file, T, x.posting_buckets[w], DOMAIN x.postings[w], pos)
    /\ ByDocID(file, DOMAIN x.postings[w], pos)
    /\ CheckBuckets(file, T, t.bytes)
    /\ \A d \in DOMAIN x.postings[w] :
          /\ Read(file, pos[d]) = [doc_id |-> d, num_positions |-> Len(x.postings[w][d])]
          /\ \A k \in 1..Len(x.postings[w][d]) :
                Read(file, pos[d] + 12 + (k - 1) * 4) = x.postings[w][d][k]

LEMMA PositionsRead ==
    ASSUME NEW x, InMemory(x), NEW file, Fits(file, 0), NEW w \in DOMAIN x.postings, NEW T \in Nat,
           NEW t, t = PositionsTable(x, w, T), t.fields \subseteq file.fields
    PROVE  \E pos : PositionsHeld(x, file, w, T, t, pos)
<1>1. PICK keys : keys = DOMAIN x.postings[w]
  OBVIOUS
<1>2. PICK n : n = x.posting_buckets[w]
  OBVIOUS
<1>3. PICK elem : elem = PositionsElem(x, w)
  OBVIOUS
<1>4. /\ KeySet(keys, n) /\ DocIDElements(PostingsTable(x, w)) = KeyedTable(keys, n, elem)
      /\ KeysFit(keys, elem)
  BY <1>1, <1>2, <1>3, PositionsKeyed
<1>5. t = WriteHashTable(T, KeyedTable(keys, n, elem))
  BY <1>4 DEF PositionsTable
<1>6. PICK pos : pos = ElementsAt(T, keys, n, elem)
  OBVIOUS
<1>7. Stored(file, T, n, keys, pos)
  BY <1>4, <1>5, <1>6, KeyedStored
<1>8. CheckBuckets(file, T, t.bytes)
  BY <1>4, <1>5, <1>6, KeyedBucketsCheck
<1>9. Placed(T, n, keys, elem, t, pos)
  BY <1>4, <1>5, <1>6, KeyedPlaced
<1>10. ASSUME NEW d \in keys
       PROVE  /\ Read(file, pos[d]) = [doc_id |-> d, num_positions |-> Len(x.postings[w][d])]
              /\ \A k \in 1..Len(x.postings[w][d]) :
                    Read(file, pos[d] + 12 + (k - 1) * 4) = x.postings[w][d][k]
  <2>1. PICK at \in Nat : at = pos[d]
    BY <1>9 DEF Placed
  <2>2. PICK s : s = x.postings[w][d]
    OBVIOUS
  <2>3. PICK m \in Nat : m = Len(s) /\ DOMAIN s = 1..m
    BY <1>1, <2>2, PlacesOf
  <2>4. PICK kv : kv = [key |-> d, value |-> s]
    OBVIOUS
  <2>5. PICK e : e = WriteDocIDToPositionListFn(at, kv)
    OBVIOUS
  <2>6. elem[d][at] = e
    BY <1>1, <1>3, <2>2, <2>4, <2>5 DEF PositionsElem
  <2>7. e.fields \subseteq file.fields
    BY <1>9, <2>1, <2>6 DEF Placed
  <2>8. Len(kv.value) = m /\ DOMAIN kv.value = 1..m /\ kv.value = s /\ kv.key = d
    BY <2>3, <2>4
  <2>9. PICK r : r = [doc_id |-> d, num_positions |-> m]
    OBVIOUS
  <2>10. /\ Field(at, 12, r) \in e.fields
         /\ \A k \in 1..m : Field(at + 12 + (k - 1) * 4, 4, s[k]) \in e.fields
    BY <2>5, <2>8, <2>9, DocIDFits
  <2>11. Read(file, at) = r
    BY <2>7, <2>10, ReadIs
  <2>12. ASSUME NEW k \in 1..m PROVE Read(file, at + 12 + (k - 1) * 4) = s[k]
    <3>1. Field(at + 12 + (k - 1) * 4, 4, s[k]) \in file.fields
      BY <2>7, <2>10
    <3> QED BY <3>1, ReadIs
  <2> QED BY <2>1, <2>2, <2>3, <2>9, <2>11, <2>12
<1>11. ByDocID(file, keys, pos)
  <2>1. SUFFICES ASSUME NEW d \in keys PROVE Read(file, pos[d]).doc_id = d
    BY DEF ByDocID
  <2>2. PICK r : r = [doc_id |-> d, num_positions |-> Len(x.postings[w][d])]
    OBVIOUS
  <2>3. Read(file, pos[d]) = r
    BY <1>10, <2>2
  <2> QED BY <2>2, <2>3
<1>12. PositionsHeld(x, file, w, T, t, pos)
  BY <1>1, <1>2, <1>4, <1>7, <1>8, <1>10, <1>11 DEF PositionsHeld
<1> QED BY <1>12

-----------------------------------------------------------------------------
(***************************************************************************)
(* The file of an index: tiled, as hw3fsck wants it, and read back.        *)
(***************************************************************************)
LEMMA HolesAre ==
    ASSUME NEW x, InMemory(x), NEW file, IndexHeld(x, file)
    PROVE  \A b : b \in Holes(file) <=> b \in Gaps(file, 0)
<1>1. PICK pos : pos = NamePos(x)
  OBVIOUS
<1>2. NamesHeld(x, file, pos)
  BY <1>1, NamesRead
<1>3. PICK keys : keys = DOMAIN x.names
  OBVIOUS
<1>4. KeySet(keys, x.doc_buckets) /\ Stored(file, 16, x.doc_buckets, keys, pos)
  BY <1>2, <1>3 DEF NamesHeld
<1>5. /\ \A e \in Elements(file, 16) : \E d \in keys : e = pos[d]
      /\ \A d \in keys : pos[d] \in Elements(file, 16)
  BY <1>4, StoredElements
<1>6. \A b : b \in Holes(file) <=> \E e \in Elements(file, 16) :
         b \in (e + 10 + Length(Read(file, e + 10)))..(e + 10 + Read(file, e).file_name_bytes - 1)
  BY DEF Holes, NewDocTableReader, IndexFileHeader, DoctableElementHeader
<1>7. ASSUME NEW d \in keys
      PROVE  /\ Length(Read(file, pos[d] + 10)) = Length(Ascii(x.names[d]))
             /\ Read(file, pos[d]).file_name_bytes = Length(x.names[d])
  <2>1. PICK r : r = [doc_id |-> d, file_name_bytes |-> Length(x.names[d])]
    OBVIOUS
  <2>2. Read(file, pos[d]) = r /\ Read(file, pos[d] + 10) = Ascii(x.names[d])
    BY <1>2, <1>3, <2>1 DEF NamesHeld
  <2>3. r.file_name_bytes = Length(x.names[d])
    BY <2>1
  <2> QED BY <2>2, <2>3
<1>8. \A b : b \in Holes(file) <=> \E d \in keys : b \in Hole(pos[d], x.names[d])
  BY <1>5, <1>6, <1>7 DEF Hole
<1> QED BY <1>1, <1>3, <1>8 DEF IndexHeld

LEMMA FileTiled ==
    ASSUME NEW x, InMemory(x), CanWrite(x), NEW file, file = FileOf(x)
    PROVE  Tiled(file, Holes(file))
<1>1. IndexHeld(x, file)
  BY IndexIs
<1>2. Fits(file, 0)
  BY <1>1 DEF IndexHeld
<1>3. PICK size \in Nat : size = file.bytes
  BY <1>2 DEF Fits
<1>4. \A f \in file.fields : At(f) \in Nat /\ Size(f) \in Nat \ {0} /\ At(f) + Size(f) <= size
  BY <1>2, <1>3 DEF Fits
<1>5. ASSUME NEW b \in 0..(size - 1)
      PROVE  b \in Holes(file) <=> \A f \in file.fields : b \notin Bytes(f)
  <2>1. b \in Holes(file) <=> b \in Gaps(file, 0)
    BY <1>1, HolesAre
  <2>2. b \in Gaps(file, 0) <=> \A f \in file.fields : b \notin Bytes(f)
    BY <1>3 DEF Gaps
  <2> QED BY <2>1, <2>2
<1>6. \A f \in file.fields : Bytes(f) \subseteq 0..(size - 1)
  BY <1>4 DEF Bytes
<1>7. ASSUME NEW f \in file.fields, NEW g \in file.fields, f # g
      PROVE  Bytes(f) \cap Bytes(g) = {}
  <2>1. Behind(f, g) \/ Behind(g, f)
    BY <1>2, <1>7 DEF Fits
  <2> QED BY <1>4, <2>1 DEF Behind, Bytes
<1> QED BY <1>3, <1>5, <1>6, <1>7 DEF Tiled

\* hw3fsck's own limits, which neither the parser nor the writer has.
InLimits(x) ==
    /\ \A w \in DOMAIN x.postings : Int16(Length(w)) < 8192
    /\ \A w \in DOMAIN x.postings : \A d \in DOMAIN x.postings[w] :
          Len(x.postings[w][d]) < 1000000

LEMMA PositionsCheck ==
    ASSUME NEW x, InMemory(x), InLimits(x), NEW file, Fits(file, 0), NEW w \in DOMAIN x.postings,
           NEW T \in Nat, NEW t, t = PositionsTable(x, w, T), t.fields \subseteq file.fields
    PROVE  CheckDocIDTable(file, T, t.bytes)
<1>1. PICK pos : PositionsHeld(x, file, w, T, t, pos)
  BY PositionsRead
<1>2. PICK keys : keys = DOMAIN x.postings[w]
  OBVIOUS
<1>3. PICK n : n = x.posting_buckets[w]
  OBVIOUS
<1>4. /\ KeySet(keys, n) /\ Stored(file, T, n, keys, pos) /\ ByDocID(file, keys, pos)
      /\ CheckBuckets(file, T, t.bytes)
  BY <1>1, <1>2, <1>3 DEF PositionsHeld
<1>5. CheckDocIDs(file, T)
  BY <1>4, DocIDsCheck
<1>6. ASSUME NEW e \in Elements(file, T)
      PROVE  /\ Read(file, e).num_positions < 1000000
             /\ \A k \in 2..Read(file, e).num_positions :
                   Read(file, e + 12 + ((k - 1) - 1) * 4) < Read(file, e + 12 + (k - 1) * 4)
  <2>1. PICK d \in keys : e = pos[d]
    BY <1>4, StoredElements
  <2>2. PICK s : s = x.postings[w][d]
    OBVIOUS
  <2>3. PICK m \in Nat : m = Len(s)
    BY <1>2, <2>2, PlacesOf
  <2>4. \A k, l \in 1..m : k < l => s[k] < s[l]
    BY <1>2, <2>2, <2>3, PlacesOf
  <2>5. PICK r : r = [doc_id |-> d, num_positions |-> m]
    OBVIOUS
  <2>6. Read(file, e) = r /\ \A k \in 1..m : Read(file, e + 12 + (k - 1) * 4) = s[k]
    BY <1>1, <1>2, <2>1, <2>2, <2>3, <2>5 DEF PositionsHeld
  <2>7. r.num_positions = m
    BY <2>5
  <2>8. m < 1000000
    BY <1>2, <2>2, <2>3 DEF InLimits
  <2>9. ASSUME NEW k \in 2..m
        PROVE  Read(file, e + 12 + ((k - 1) - 1) * 4) < Read(file, e + 12 + (k - 1) * 4)
    <3>1. PICK j \in 1..m : j = k - 1 /\ j < k /\ k \in 1..m
      OBVIOUS
    <3>2. Read(file, e + 12 + (j - 1) * 4) = s[j] /\ Read(file, e + 12 + (k - 1) * 4) = s[k]
      BY <2>6, <3>1
    <3> QED BY <2>4, <3>1, <3>2
  <2> QED BY <2>6, <2>7, <2>8, <2>9
<1>7. \A h \in Elements(file, T) :
          LET Pos(k) == Read(file, h + DocIDElementHeader + (k - 1) * DocIDElementPosition)
          IN  /\ Read(file, h).num_positions < 1000000
              /\ \A k \in 2..Read(file, h).num_positions : Pos(k - 1) < Pos(k)
  BY <1>6 DEF DocIDElementHeader, DocIDElementPosition
<1> QED BY <1>4, <1>5, <1>7 DEF CheckDocIDTable

LEMMA FileChecked ==
    ASSUME NEW x, InMemory(x), CanWrite(x), InLimits(x), NEW file, file = FileOf(x)
    PROVE  CheckFile(file)
<1>1. IndexHeld(x, file)
  BY IndexIs
<1>2. PICK d \in Nat : d = NameTable(x).bytes
  BY NamesPlaced DEF Placed, Fits
<1>3. PICK m \in Nat : m = WordTable(x).bytes
  BY WordsPlaced DEF Placed, Fits
<1>4. PICK r : r = [doctable_bytes |-> d, index_bytes |-> m]
  OBVIOUS
<1>5. r.doctable_bytes = d /\ r.index_bytes = m
  BY <1>4
<1>6. Read(file, 0) = r /\ file.bytes = 16 + d + m
  BY <1>1, <1>2, <1>3, <1>4 DEF IndexHeld
<1>7. CheckHeader(file)
  BY <1>5, <1>6 DEF CheckHeader, IndexFileHeader
<1>8. CheckDocTable(file, 16, d)
  <2>1. PICK pos : pos = NamePos(x)
    OBVIOUS
  <2>2. NamesHeld(x, file, pos)
    BY <1>1, <2>1, NamesRead
  <2>3. PICK keys : keys = DOMAIN x.names
    OBVIOUS
  <2>4. PICK n : n = x.doc_buckets
    OBVIOUS
  <2>5. /\ KeySet(keys, n) /\ Stored(file, 16, n, keys, pos) /\ ByDocID(file, keys, pos)
        /\ CheckBuckets(file, 16, d)
    BY <1>2, <2>2, <2>3, <2>4 DEF NamesHeld
  <2>6. CheckDocIDs(file, 16)
    BY <2>5, DocIDsCheck
  <2> QED BY <2>5, <2>6 DEF CheckDocTable
<1>9. CheckIndexTable(file, 16 + d, m)
  <2>1. PICK pos : pos = WordPos(x)
    OBVIOUS
  <2>2. WordsHeld(x, file, pos)
    BY <1>1, <2>1, WordsRead
  <2>3. PICK keys : keys = Hashes(x)
    OBVIOUS
  <2>4. PICK n : n = x.word_buckets
    OBVIOUS
  <2>5. PICK start \in Nat : start = WordStart(x) /\ start = 16 + d
    BY <1>2 DEF WordStart
  <2>6. /\ KeySet(keys, n) /\ Stored(file, start, n, keys, pos) /\ CheckBuckets(file, start, m)
        /\ \A h \in keys : WordHeld(x, file, h, pos[h], start + m)
    BY <1>3, <2>2, <2>3, <2>4, <2>5 DEF WordsHeld
  <2>7. ASSUME NEW e \in Elements(file, start)
        PROVE  /\ Read(file, e).word_bytes < 8192
               /\ e + 6 + Read(file, e).word_bytes < start + m
               /\ CheckDocIDTable(file, e + 6 + Read(file, e).word_bytes, Read(file, e).postings_bytes)
    <3>1. PICK h \in keys : e = pos[h]
      BY <2>6, StoredElements
    <3>2. PICK w \in DOMAIN x.postings : w = WordOf(x, h)
      BY <2>3, WordOfIs
    <3>3. PICK len \in Nat \ {0} : len = Int16(Length(w))
      BY WrittenLength
    <3>4. PICK T : T = e + 6 + len
      OBVIOUS
    <3>5. PICK t : t = PositionsTable(x, w, T)
      OBVIOUS
    <3>6. PICK hd : hd = [word_bytes |-> len, postings_bytes |-> t.bytes]
      OBVIOUS
    <3>7. hd.word_bytes = len /\ hd.postings_bytes = t.bytes
      BY <3>6
    <3>8. WordHeld(x, file, h, e, start + m)
      BY <2>6, <3>1
    <3>9. Read(file, e) = hd /\ T \in Nat /\ t.fields \subseteq file.fields /\ T < start + m
      BY <3>2, <3>3, <3>4, <3>5, <3>6, <3>8 DEF WordHeld
    <3>10. Fits(file, 0)
      BY <1>1 DEF IndexHeld
    <3>11. CheckDocIDTable(file, T, t.bytes)
      BY <3>5, <3>9, <3>10, PositionsCheck
    <3>12. len < 8192
      BY <3>3 DEF InLimits
    <3> QED BY <3>4, <3>7, <3>9, <3>11, <3>12
  <2>8. CheckIndexTable(file, start, m)
    BY <2>6, <2>7 DEF CheckIndexTable, WordPostingsHeader
  <2> QED BY <2>5, <2>8
<1> QED BY <1>5, <1>6, <1>7, <1>8, <1>9 DEF CheckFile, IndexFileHeader

\* The name under a document id.
LEMMA NameFound ==
    ASSUME NEW x, InMemory(x), CanWrite(x), NEW file, file = FileOf(x), NEW d \in Nat
    PROVE  DocTableLookupDocID(file, NewDocTableReader(file), d) =
              IF d \in DOMAIN x.names THEN StoredName(x.names[d]) ELSE None
<1>1. IndexHeld(x, file)
  BY IndexIs
<1>2. PICK pos : pos = NamePos(x)
  OBVIOUS
<1>3. NamesHeld(x, file, pos)
  BY <1>1, <1>2, NamesRead
<1>4. PICK keys : keys = DOMAIN x.names
  OBVIOUS
<1>5. /\ KeySet(keys, x.doc_buckets) /\ Stored(file, 16, x.doc_buckets, keys, pos)
      /\ ByDocID(file, keys, pos)
  BY <1>3, <1>4 DEF NamesHeld
<1>6. FindDocID(file, 16, d) = IF d \in keys THEN pos[d] ELSE None
  BY <1>5, FindStored
<1>7. PICK e : e = FindDocID(file, 16, d)
  OBVIOUS
<1>8. DocTableLookupDocID(file, NewDocTableReader(file), d) =
         IF e = None THEN None ELSE ReadName(file, e + 10, Read(file, e).file_name_bytes)
  BY <1>7 DEF DocTableLookupDocID, NewDocTableReader, IndexFileHeader, DoctableElementHeader
<1>9. CASE d \notin keys
  BY <1>4, <1>6, <1>7, <1>8, <1>9
<1>10. CASE d \in keys
  <2>1. PICK s : s = x.names[d]
    OBVIOUS
  <2>2. e = pos[d] /\ e \in Nat /\ e # None
    BY <1>5, <1>6, <1>7, <1>10, NoneAssumption DEF Stored
  <2>3. PICK r : r = [doc_id |-> d, file_name_bytes |-> Length(s)]
    OBVIOUS
  <2>4. Read(file, e) = r /\ r.file_name_bytes = Length(s) /\ Read(file, e + 10) = Ascii(s)
    BY <1>3, <1>4, <1>10, <2>1, <2>2, <2>3 DEF NamesHeld
  <2>5. ReadName(file, e + 10, Length(s)) =
           IF Length(Ascii(s)) = Length(s) THEN Ascii(s)
           ELSE Padded(Ascii(s), Length(s) - Length(Ascii(s)))
    BY <2>4 DEF ReadName
  <2>6. Length(Ascii(s)) = Length(s) <=> Ascii(s) = s
    BY <1>4, <1>10, <2>1 DEF InMemory
  <2>7. StoredName(s) = IF Ascii(s) = s THEN s ELSE Padded(Ascii(s), Length(s) - Length(Ascii(s)))
    BY DEF StoredName
  <2>8. ReadName(file, e + 10, Length(s)) = StoredName(s)
    <3>1. CASE Ascii(s) = s
      BY <2>5, <2>6, <2>7, <3>1
    <3>2. CASE Ascii(s) # s
      BY <2>5, <2>6, <2>7, <3>2
    <3> QED BY <3>1, <3>2
  <2>9. DocTableLookupDocID(file, NewDocTableReader(file), d) = StoredName(s)
    BY <1>8, <2>2, <2>4, <2>8
  <2> QED BY <1>4, <1>10, <2>1, <2>9
<1> QED BY <1>9, <1>10

\* A word and its table.
WordTableAt(x, file, w, T) ==
    /\ LookupWord(file, NewIndexTableReader(file), w) = T
    /\ T \in Nat /\ PositionsTable(x, w, T).fields \subseteq file.fields

LEMMA WordFound ==
    ASSUME NEW x, InMemory(x), CanWrite(x), Short(x), NEW file, file = FileOf(x), NEW w, Hash(w) \in Nat
    PROVE  /\ w \notin DOMAIN x.postings => LookupWord(file, NewIndexTableReader(file), w) = None
           /\ w \in DOMAIN x.postings => \E T : WordTableAt(x, file, w, T)
<1>1. IndexHeld(x, file)
  BY IndexIs
<1>2. PICK pos : pos = WordPos(x)
  OBVIOUS
<1>3. WordsHeld(x, file, pos)
  BY <1>1, <1>2, WordsRead
<1>4. PICK keys : keys = Hashes(x)
  OBVIOUS
<1>5. PICK n : n = x.word_buckets
  OBVIOUS
<1>6. PICK start : start = WordStart(x)
  OBVIOUS
<1>7. NewIndexTableReader(file) = start
  <2>1. PICK r : r = [doctable_bytes |-> NameTable(x).bytes, index_bytes |-> WordTable(x).bytes]
    OBVIOUS
  <2>2. Read(file, 0) = r /\ r.doctable_bytes = NameTable(x).bytes
    BY <1>1, <2>1 DEF IndexHeld
  <2> QED BY <1>6, <2>2 DEF NewIndexTableReader, WordStart, IndexFileHeader
<1>8. KeySet(keys, n) /\ Stored(file, start, n, keys, pos)
  BY <1>3, <1>4, <1>5, <1>6 DEF WordsHeld
<1>9. PICK h \in Nat : h = Hash(w)
  OBVIOUS
<1>10. PICK es : es = LookupElementPositions(file, start, h)
  OBVIOUS
<1>11. BucketHolds(es, n, keys, pos, h % n)
  BY <1>8, <1>10, LookupIs
<1>12. PICK M : M = {k \in DOMAIN es : /\ Read(file, es[k]).word_bytes = Length(w)
                                       /\ Read(file, es[k] + 6) = w}
  OBVIOUS
<1>13. LookupWord(file, start, w) =
          IF First(es, M) = None THEN None ELSE First(es, M) + 6 + Length(w)
  BY <1>9, <1>10, <1>12 DEF LookupWord, WordPostingsHeader
<1>14. ASSUME NEW key \in keys
       PROVE  /\ Read(file, pos[key]).word_bytes = Length(WordOf(x, key))
              /\ Read(file, pos[key] + 6) = WordOf(x, key)
              /\ PositionsTable(x, WordOf(x, key), pos[key] + 6 + Length(WordOf(x, key))).fields
                    \subseteq file.fields
  <2>1. PICK v : v = WordOf(x, key)
    OBVIOUS
  <2>2. PICK t : t = PositionsTable(x, v, pos[key] + 6 + Length(v))
    OBVIOUS
  <2>6. v \in DOMAIN x.postings
    BY <1>4, <2>1, WordOfIs
  <2>7. Int16(Length(v)) = Length(v) /\ Cut(v, Int16(Length(v))) = v
    BY <2>6, ShortLength
  <2>3. PICK r : r = [word_bytes |-> Length(v), postings_bytes |-> t.bytes]
    OBVIOUS
  <2>4. WordHeld(x, file, key, pos[key], WordStart(x) + WordTable(x).bytes)
    BY <1>3, <1>4 DEF WordsHeld
  <2>5. /\ Read(file, pos[key]) = r /\ r.word_bytes = Length(v) /\ Read(file, pos[key] + 6) = v
        /\ t.fields \subseteq file.fields
    BY <2>1, <2>2, <2>3, <2>4, <2>7 DEF WordHeld
  <2> QED BY <2>1, <2>2, <2>5
<1>15. \A k \in DOMAIN es : \E key \in keys : es[k] = pos[key]
  BY <1>11 DEF BucketHolds
<1>16. CASE w \notin DOMAIN x.postings
  <2>1. ASSUME NEW k \in M PROVE FALSE
    <3>1. PICK key \in keys : es[k] = pos[key]
      BY <1>12, <1>15
    <3>2. WordOf(x, key) = w
      BY <1>12, <1>14, <3>1
    <3> QED BY <1>4, <1>16, <3>2, WordOfIs
  <2>2. First(es, M) = None
    BY <2>1 DEF First
  <2> QED BY <1>7, <1>13, <1>16, <2>2
<1>17. CASE w \in DOMAIN x.postings
  <2>1. h \in keys /\ WordOf(x, h) = w
    BY <1>4, <1>9, <1>17, WordOfIs
  <2>2. ASSUME NEW k \in DOMAIN es PROVE k \in M <=> es[k] = pos[h]
    <3>1. PICK key \in keys : es[k] = pos[key]
      BY <1>15
    <3>2. k \in M => key = h
      <4>1. k \in M => WordOf(x, key) = w
        BY <1>12, <1>14, <3>1
      <4>2. WordOf(x, key) = w => key = h
        BY <1>4, <1>9, WordOfIs
      <4> QED BY <4>1, <4>2
    <3>3. es[k] = pos[h] => k \in M
      BY <1>12, <1>14, <2>1
    <3> QED BY <3>1, <3>2, <3>3
  <2>3. M = {k \in DOMAIN es : es[k] = pos[h]}
    BY <1>12, <2>2
  <2>4. First(es, M) = pos[h]
    BY <1>11, <2>1, <2>3, FirstStored
  <2>5. PICK at \in Nat : at = pos[h]
    BY <1>8, <2>1 DEF Stored
  <2>6. PICK len \in Nat : len = Length(w)
    BY <1>17 DEF InMemory
  <2>7. PICK T \in Nat : T = at + 6 + len
    OBVIOUS
  <2>8. LookupWord(file, start, w) = T
    BY <1>13, <2>4, <2>5, <2>6, <2>7, NoneAssumption
  <2>9. PositionsTable(x, w, T).fields \subseteq file.fields
    BY <1>14, <2>1, <2>5, <2>6, <2>7
  <2>10. WordTableAt(x, file, w, T)
    BY <1>7, <2>8, <2>9 DEF WordTableAt
  <2> QED BY <1>17, <2>10
<1> QED BY <1>16, <1>17

\* The documents in a word's table and their positions.
PositionsOf(x, file, w, T) ==
    /\ \A d \in Nat : DocIDTableLookupDocID(file, T, d) =
                         IF d \in DOMAIN x.postings[w] THEN x.postings[w][d] ELSE None
    /\ \A h : h \in GetDocIDList(file, T) <=> \E d \in DOMAIN x.postings[w] :
                 h = [doc_id |-> d, num_positions |-> Len(x.postings[w][d])]

LEMMA PositionsFound ==
    ASSUME NEW x, InMemory(x), CanWrite(x), NEW file, file = FileOf(x), NEW w \in DOMAIN x.postings,
           NEW T, WordTableAt(x, file, w, T)
    PROVE  PositionsOf(x, file, w, T)
<1>1. Fits(file, 0)
  BY IndexIs DEF IndexHeld
<1>2. PICK t : t = PositionsTable(x, w, T)
  OBVIOUS
<1>3. T \in Nat /\ t.fields \subseteq file.fields
  BY <1>2 DEF WordTableAt
<1>4. PICK pos : PositionsHeld(x, file, w, T, t, pos)
  BY <1>1, <1>2, <1>3, PositionsRead
<1>5. PICK keys : keys = DOMAIN x.postings[w]
  OBVIOUS
<1>6. PICK n : n = x.posting_buckets[w]
  OBVIOUS
<1>7. KeySet(keys, n) /\ Stored(file, T, n, keys, pos) /\ ByDocID(file, keys, pos)
  BY <1>4, <1>5, <1>6 DEF PositionsHeld
<1>8. ASSUME NEW d \in keys
      PROVE  Read(file, pos[d]) = [doc_id |-> d, num_positions |-> Len(x.postings[w][d])]
  BY <1>4, <1>5 DEF PositionsHeld
<1>9. ASSUME NEW d \in Nat
      PROVE  DocIDTableLookupDocID(file, T, d) =
                IF d \in keys THEN x.postings[w][d] ELSE None
  <2>1. PICK e : e = FindDocID(file, T, d)
    OBVIOUS
  <2>2. e = IF d \in keys THEN pos[d] ELSE None
    BY <1>7, <2>1, FindStored
  <2>3. DocIDTableLookupDocID(file, T, d) =
           IF e = None THEN None
           ELSE [k \in 1..Read(file, e).num_positions |-> Read(file, e + 12 + (k - 1) * 4)]
    BY <2>1 DEF DocIDTableLookupDocID, DocIDElementHeader, DocIDElementPosition
  <2>4. CASE d \notin keys
    BY <2>2, <2>3, <2>4
  <2>5. CASE d \in keys
    <3>1. e = pos[d] /\ e \in Nat /\ e # None
      BY <1>7, <2>2, <2>5, NoneAssumption DEF Stored
    <3>2. PICK s : s = x.postings[w][d]
      OBVIOUS
    <3>8. Len(s) \in Nat /\ s = [k \in 1..Len(s) |-> s[k]]
      BY <1>5, <2>5, <3>2, PlacesOf
    <3>3. PICK m \in Nat : m = Len(s) /\ s = [k \in 1..m |-> s[k]]
      BY <3>8
    <3>4. PICK r : r = [doc_id |-> d, num_positions |-> m]
      OBVIOUS
    <3>5. Read(file, e) = r /\ r.num_positions = m
      BY <1>8, <2>5, <3>1, <3>2, <3>3, <3>4
    <3>6. \A k \in 1..m : Read(file, e + 12 + (k - 1) * 4) = s[k]
      BY <1>4, <1>5, <2>5, <3>1, <3>2, <3>3 DEF PositionsHeld
    <3>7. [k \in 1..m |-> Read(file, e + 12 + (k - 1) * 4)] = s
      BY <3>3, <3>6
    <3> QED BY <2>3, <2>5, <3>1, <3>2, <3>5, <3>7
  <2> QED BY <2>4, <2>5
<1>10. ASSUME NEW h
       PROVE  h \in GetDocIDList(file, T) <=> \E d \in keys :
                 h = [doc_id |-> d, num_positions |-> Len(x.postings[w][d])]
  <2>1. h \in GetDocIDList(file, T) <=> \E e \in Elements(file, T) : h = Read(file, e)
    BY DEF GetDocIDList
  <2>2. /\ \A e \in Elements(file, T) : \E d \in keys : e = pos[d]
        /\ \A d \in keys : pos[d] \in Elements(file, T)
    BY <1>7, StoredElements
  <2>3. h \in GetDocIDList(file, T) <=> \E d \in keys : h = Read(file, pos[d])
    BY <2>1, <2>2
  <2> QED BY <1>8, <2>3
<1> QED BY <1>5, <1>9, <1>10 DEF PositionsOf

-----------------------------------------------------------------------------
(***************************************************************************)
(* The files that are there are those of the indices.                      *)
(***************************************************************************)
FilesInv ==
    /\ indices \in Corpora
    /\ files \in Seq({FileOf(indices[k]) : k \in DOMAIN indices})
    /\ Len(files) <= Len(indices)
    /\ \A k \in DOMAIN files : files[k] = FileOf(indices[k]) /\ CanWrite(indices[k])

LEMMA CorpusIs ==
    ASSUME NEW c \in Corpora
    PROVE  /\ Len(c) \in Nat \ {0} /\ DOMAIN c = 1..Len(c)
           /\ \A k \in DOMAIN c : InMemory(c[k])
<1>1. PICK S : S = {c[k] : k \in DOMAIN c}
  OBVIOUS
<1>2. c \in Seq(S) /\ c # <<>> /\ \A k \in DOMAIN c : InMemory(c[k])
  BY <1>1, CorporaAssumption
<1>3. Len(c) \in Nat /\ DOMAIN c = 1..Len(c)
  BY <1>2, LenProperties
<1>4. Len(c) # 0
  BY <1>2, EmptySeq
<1> QED BY <1>2, <1>3, <1>4

LEMMA FilesAre ==
    ASSUME FilesInv
    PROVE  /\ Len(files) \in Nat /\ DOMAIN files = 1..Len(files)
           /\ Len(indices) \in Nat /\ DOMAIN indices = 1..Len(indices)
           /\ \A k \in DOMAIN files : /\ k \in DOMAIN indices /\ InMemory(indices[k])
                                      /\ files[k] = FileOf(indices[k]) /\ CanWrite(indices[k])
<1>1. PICK S : S = {FileOf(indices[k]) : k \in DOMAIN indices}
  OBVIOUS
<1>2. files \in Seq(S)
  BY <1>1 DEF FilesInv
<1>3. Len(files) \in Nat /\ DOMAIN files = 1..Len(files)
  BY <1>2, LenProperties
<1>4. PICK c \in Corpora : c = indices
  BY DEF FilesInv
<1>5. Len(c) \in Nat /\ DOMAIN c = 1..Len(c) /\ \A k \in DOMAIN c : InMemory(c[k])
  BY CorpusIs
<1>6. Len(files) <= Len(c)
  BY <1>4 DEF FilesInv
<1>7. \A k \in DOMAIN files : k \in DOMAIN c
  BY <1>3, <1>5, <1>6
<1> QED BY <1>3, <1>4, <1>5, <1>7 DEF FilesInv

LEMMA FilesInit == Init => FilesInv
<1> SUFFICES ASSUME Init PROVE FilesInv
  OBVIOUS
<1>1. indices \in Corpora /\ files = <<>>
  BY DEF Init
<1>2. PICK c \in Corpora : c = indices
  BY <1>1
<1>3. Len(c) \in Nat
  BY CorpusIs
<1>4. Len(files) = 0 /\ DOMAIN files = {}
  BY <1>1
<1> QED BY <1>1, <1>2, <1>3, <1>4 DEF FilesInv

LEMMA FilesQuiet ==
    ASSUME FilesInv, UNCHANGED <<indices, files>>
    PROVE  FilesInv'
BY DEF FilesInv

LEMMA FilesBuild ==
    ASSUME FilesInv, Build
    PROVE  FilesInv'
<1>1. PICK n \in Nat, m \in Nat : n = Len(files) /\ m = Len(indices)
  BY FilesAre
<1>2. PICK S : S = {FileOf(indices[k]) : k \in DOMAIN indices}
  OBVIOUS
<1>3. DOMAIN files = 1..n /\ DOMAIN indices = 1..m /\ files \in Seq(S)
  BY <1>1, <1>2, FilesAre DEF FilesInv
<1>4. PICK new : new = FileOf(indices[n + 1])
  OBVIOUS
<1>5. /\ n < m /\ indices' = indices /\ files' = Append(files, new)
      /\ CanWrite(indices[n + 1])
  BY <1>1, <1>4 DEF Build, FileOf, NextToWrite
<1>6. n + 1 \in DOMAIN indices /\ new \in S
  <2>1. n + 1 \in DOMAIN indices
    BY <1>3, <1>5
  <2> QED BY <1>2, <1>4, <2>1
<1>7. /\ Append(files, new) \in Seq(S) /\ Len(Append(files, new)) = n + 1
      /\ DOMAIN Append(files, new) = 1..(n + 1)
      /\ \A k \in 1..(n + 1) : Append(files, new)[k] = IF k = n + 1 THEN new ELSE files[k]
  BY <1>1, <1>3, <1>6, AppendProperties
<1>8. \A k \in 1..(n + 1) :
         Append(files, new)[k] = FileOf(indices[k]) /\ CanWrite(indices[k])
  <2>1. SUFFICES ASSUME NEW k \in 1..(n + 1)
                 PROVE  Append(files, new)[k] = FileOf(indices[k]) /\ CanWrite(indices[k])
    OBVIOUS
  <2>2. CASE k = n + 1
    BY <1>4, <1>5, <1>7, <2>2
  <2>3. CASE k # n + 1
    <3>1. k \in DOMAIN files
      BY <1>3, <2>3
    <3> QED BY <1>7, <2>3, <3>1 DEF FilesInv
  <2> QED BY <2>2, <2>3
<1>9. n + 1 <= m
  BY <1>5
<1>10. PICK fs \in Seq(S), c \in Corpora : fs = files' /\ c = indices'
  BY <1>5, <1>7 DEF FilesInv
<1>11. /\ Len(fs) <= Len(c)
       /\ \A k \in DOMAIN fs : fs[k] = FileOf(c[k]) /\ CanWrite(c[k])
       /\ S = {FileOf(c[k]) : k \in DOMAIN c}
  BY <1>1, <1>2, <1>5, <1>7, <1>8, <1>9, <1>10
<1> QED BY <1>10, <1>11 DEF FilesInv

LEMMA FilesStep ==
    ASSUME FilesInv, [Next]_vars
    PROVE  FilesInv'
<1>1. CASE Build
  BY <1>1, FilesBuild
<1>2. CASE UNCHANGED <<indices, files>>
  BY <1>2, FilesQuiet
<1>3. CASE ~Build
  <2>1. UNCHANGED <<indices, files>>
    BY <1>3 DEF Next, vars, BuildFails, Failed, Open, QueryStep, NoSuchWord, FirstWord, NextWord, IndexDone, Answer,
                ProcessQuery
  <2> QED BY <1>2, <2>1
<1> QED BY <1>1, <1>3

LEMMA FilesHold == Spec => []FilesInv
<1>1. Init => FilesInv
  BY FilesInit
<1>2. FilesInv /\ [Next]_vars => FilesInv'
  BY FilesStep
<1> QED BY <1>1, <1>2, PTL DEF Spec

\* LayoutTiled, the layout of index files: what the writers put down by seeking to and fro
\* never overlaps, nested tables included, and only the holes behind names are left out.
THEOREM FilesTiled == Spec => []LayoutTiled
<1>1. FilesInv => LayoutTiled
  <2> SUFFICES ASSUME FilesInv, NEW k \in DOMAIN files PROVE Tiled(files[k], Holes(files[k]))
    BY DEF LayoutTiled
  <2>1. PICK x, file : x = indices[k] /\ file = files[k]
    OBVIOUS
  <2>2. InMemory(x) /\ CanWrite(x) /\ file = FileOf(x)
    BY <2>1, FilesAre
  <2> QED BY <2>1, <2>2, FileTiled
<1> QED BY <1>1, FilesHold, PTL

\* FsckAccepts: hw3fsck finds nothing wrong with what the writers leave, as long as no word
\* and no list of positions is longer than it allows.
THEOREM FilesAccepted ==
    ASSUME \A c \in Corpora : \A k \in DOMAIN c : InLimits(c[k])
    PROVE  Spec => []FsckAccepts
<1>1. FilesInv => FsckAccepts
  <2> SUFFICES ASSUME FilesInv, NEW k \in DOMAIN files PROVE CheckFile(files[k])
    BY DEF FsckAccepts
  <2>1. PICK x, file : x = indices[k] /\ file = files[k]
    OBVIOUS
  <2>2. InMemory(x) /\ CanWrite(x) /\ file = FileOf(x) /\ InLimits(x)
    BY <2>1, FilesAre DEF FilesInv
  <2> QED BY <2>1, <2>2, FileChecked
<1> QED BY <1>1, FilesHold, PTL

ReadsNames(x, file) ==
    \A d \in 0..(Cardinality(DOMAIN x.names) + 2) :
       DocTableLookupDocID(file, NewDocTableReader(file), d) =
          IF d \in DOMAIN x.names THEN StoredName(x.names[d]) ELSE None

ReadsNoMore(x, file) ==
    \A w \in QueryWords \ DOMAIN x.postings : LookupWord(file, NewIndexTableReader(file), w) = None

ReadsPositions(x, file) ==
    \A w \in DOMAIN x.postings, d \in DOMAIN x.names :
       DocIDTableLookupDocID(file, LookupWord(file, NewIndexTableReader(file), w), d) =
          IF d \in DOMAIN x.postings[w] THEN x.postings[w][d] ELSE None

LEMMA FileReadBack ==
    ASSUME NEW x, InMemory(x), CanWrite(x), Short(x), NEW file, file = FileOf(x)
    PROVE  ReadsNames(x, file) /\ ReadsNoMore(x, file) /\ ReadsPositions(x, file)
<1>1. ASSUME NEW d \in 0..(Cardinality(DOMAIN x.names) + 2)
      PROVE  DocTableLookupDocID(file, NewDocTableReader(file), d) =
                IF d \in DOMAIN x.names THEN StoredName(x.names[d]) ELSE None
  <2>1. d \in Nat
    OBVIOUS
  <2> QED BY <2>1, NameFound
<1>2. ReadsNames(x, file)
  BY <1>1, Zenon DEF ReadsNames
<1>3. ASSUME NEW w \in QueryWords \ DOMAIN x.postings
      PROVE  LookupWord(file, NewIndexTableReader(file), w) = None
  <2>1. Hash(w) \in Nat
    <3>1. PICK q \in Queries : \E n \in DOMAIN q : w = q[n]
      BY DEF QueryWords
    <3> QED BY <3>1, QueriesAssumption
  <2>2. w \notin DOMAIN x.postings
    OBVIOUS
  <2> QED BY <2>1, <2>2, WordFound
<1>4. ReadsNoMore(x, file)
  BY <1>3, Zenon DEF ReadsNoMore
<1>5. ASSUME NEW w \in DOMAIN x.postings, NEW d \in DOMAIN x.names
      PROVE  DocIDTableLookupDocID(file, LookupWord(file, NewIndexTableReader(file), w), d) =
                IF d \in DOMAIN x.postings[w] THEN x.postings[w][d] ELSE None
  <2>1. Hash(w) \in Nat /\ d \in Nat
    BY DEF InMemory
  <2>2. PICK T : WordTableAt(x, file, w, T)
    BY <2>1, WordFound
  <2>3. LookupWord(file, NewIndexTableReader(file), w) = T
    BY <2>2 DEF WordTableAt
  <2>4. PositionsOf(x, file, w, T)
    BY <2>2, PositionsFound
  <2> QED BY <2>1, <2>3, <2>4 DEF PositionsOf
<1>6. ReadsPositions(x, file)
  BY <1>5, Zenon DEF ReadsPositions
<1> QED BY <1>2, <1>4, <1>6

\* ReadersFind: the readers find in a file what was in memory, document names, words and
\* positions, and nothing else.
THEOREM FilesReadBack == Spec => []ReadersFind
<1>1. FilesInv => ReadersFind
  <2> SUFFICES ASSUME FilesInv
               PROVE  \A k \in {k \in DOMAIN files : Short(indices[k])} :
                         /\ ReadsNames(indices[k], files[k])
                         /\ ReadsNoMore(indices[k], files[k])
                         /\ ReadsPositions(indices[k], files[k])
    BY Zenon DEF ReadersFind, ReadsNames, ReadsNoMore, ReadsPositions
  <2>1. SUFFICES ASSUME NEW k \in DOMAIN files, Short(indices[k])
                 PROVE  /\ ReadsNames(indices[k], files[k])
                        /\ ReadsNoMore(indices[k], files[k])
                        /\ ReadsPositions(indices[k], files[k])
    OBVIOUS
  <2>2. PICK x, file : x = indices[k] /\ file = files[k]
    OBVIOUS
  <2>3. InMemory(x) /\ CanWrite(x) /\ file = FileOf(x)
    BY <2>1, <2>2, FilesAre
  <2>4. Short(x)
    BY <2>1, <2>2
  <2> QED BY <2>2, <2>3, <2>4, FileReadBack
<1> QED BY <1>1, FilesHold, PTL

-----------------------------------------------------------------------------
(***************************************************************************)
(* The documents of all indices, and how often they contain a word.        *)
(***************************************************************************)
Docs(k) == DOMAIN indices[k].names
Name(k, d) == StoredName(indices[k].names[d])
Doc(k, d) == <<k, Name(k, d)>>
Often(k, d, w) ==
    IF w \in DOMAIN indices[k].postings /\ d \in DOMAIN indices[k].postings[w]
    THEN Len(indices[k].postings[w][d]) ELSE 0

LEMMA NamesDiffer ==
    ASSUME FilesInv, NEW k \in DOMAIN indices, NEW d \in Docs(k), NEW e \in Docs(k),
           Name(k, d) = Name(k, e)
    PROVE  d = e
<1>1. PICK c \in Corpora : c = indices
  BY DEF FilesInv
<1>2. \A k1 \in DOMAIN c : \A d1, e1 \in DOMAIN c[k1].names :
         StoredName(c[k1].names[d1]) = StoredName(c[k1].names[e1]) => d1 = e1
  BY CorporaAssumption
<1> QED BY <1>1, <1>2 DEF Docs, Name

LEMMA NamesAre ==
    ASSUME FilesInv
    PROVE  /\ \A s : s \in Names <=> \E k \in DOMAIN indices : \E d \in Docs(k) : s = Doc(k, d)
           /\ \A k \in DOMAIN indices : \A d \in Docs(k) : Name(k, d) \in AllNames
           /\ DOMAIN Count = Names
<1>1. \A s : s \in Names <=> \E k \in DOMAIN indices : \E d \in Docs(k) : s = Doc(k, d)
  BY DEF Names, Docs, Doc, Name
<1>2. ASSUME NEW k \in DOMAIN indices, NEW d \in Docs(k) PROVE Name(k, d) \in AllNames
  <2>1. indices \in Corpora
    BY DEF FilesInv
  <2>2. Name(k, d) \in {StoredName(indices[k].names[e]) : e \in DOMAIN indices[k].names}
    BY DEF Name, Docs
  <2> QED BY <2>1, <2>2 DEF AllNames
<1>3. DOMAIN Count = Names
  BY DEF Count
<1> QED BY <1>1, <1>2, <1>3

LEMMA OftenIs ==
    ASSUME FilesInv, NEW k \in DOMAIN indices, NEW d, NEW w
    PROVE  /\ Often(k, d, w) \in Nat
           /\ Often(k, d, w) > 0 <=> w \in DOMAIN indices[k].postings
                                     /\ d \in DOMAIN indices[k].postings[w]
           /\ w \in DOMAIN indices[k].postings /\ d \in DOMAIN indices[k].postings[w] =>
                 Often(k, d, w) = Len(indices[k].postings[w][d])
<1>1. PICK x : x = indices[k]
  OBVIOUS
<1>2. InMemory(x)
  BY <1>1, CorpusIs DEF FilesInv
<1>3. CASE w \in DOMAIN x.postings /\ d \in DOMAIN x.postings[w]
  <2>1. PICK s : s = x.postings[w][d]
    OBVIOUS
  <2>2. Len(s) \in Nat \ {0}
    BY <1>2, <1>3, <2>1, PlacesOf
  <2>3. Often(k, d, w) = Len(s)
    BY <1>1, <1>3, <2>1 DEF Often
  <2> QED BY <1>1, <1>3, <2>1, <2>2, <2>3
<1>4. CASE ~(w \in DOMAIN x.postings /\ d \in DOMAIN x.postings[w])
  BY <1>1, <1>4 DEF Often
<1> QED BY <1>3, <1>4

LEMMA CountIs ==
    ASSUME FilesInv, NEW k \in DOMAIN indices, NEW d \in Docs(k), NEW w \in QueryWords
    PROVE  Count[Doc(k, d)][w] = Often(k, d, w)
<1>1. PICK s : s = Doc(k, d)
  OBVIOUS
<1>2. s \in Names
  BY <1>1, NamesAre
<1>3. PICK x : x = indices[k]
  OBVIOUS
<1>4. s[1] = k /\ s[2] = StoredName(x.names[d]) /\ d \in DOMAIN x.names
  BY <1>1, <1>3 DEF Doc, Name, Docs
<1>5. \A e \in DOMAIN x.names : StoredName(x.names[e]) = s[2] <=> e = d
  <2>1. SUFFICES ASSUME NEW e \in DOMAIN x.names
                 PROVE  StoredName(x.names[e]) = s[2] <=> e = d
    OBVIOUS
  <2>2. StoredName(x.names[e]) = Name(k, e) /\ e \in Docs(k)
    BY <1>3 DEF Name, Docs
  <2>3. s[2] = Name(k, d)
    BY <1>3, <1>4 DEF Name
  <2> QED BY <2>2, <2>3, NamesDiffer
<1>6. d = CHOOSE e \in DOMAIN x.names : StoredName(x.names[e]) = s[2]
  BY <1>4, <1>5
<1>7. indices[s[1]] = x
  BY <1>3, <1>4
<1>8. PICK e : e = CHOOSE c \in DOMAIN indices[s[1]].names :
                      StoredName(indices[s[1]].names[c]) = s[2]
  OBVIOUS
<1>9. e = d
  BY <1>6, <1>7, <1>8
<1>10. Count[s][w] = IF w \in DOMAIN indices[s[1]].postings /\ e \in DOMAIN indices[s[1]].postings[w]
                     THEN Len(indices[s[1]].postings[w][e]) ELSE 0
  BY <1>2, <1>8 DEF Count
<1>11. Count[s][w] = Often(k, d, w)
  BY <1>3, <1>7, <1>9, <1>10 DEF Often
<1> QED BY <1>1, <1>11

LEMMA QueryIs ==
    ASSUME NEW q \in Queries
    PROVE  /\ Len(q) \in Nat \ {0} /\ DOMAIN q = 1..Len(q) /\ q # <<>>
           /\ \A n \in 1..Len(q) : q[n] \in QueryWords /\ Hash(q[n]) \in Nat
<1>1. PICK S : S = {q[n] : n \in DOMAIN q}
  OBVIOUS
<1>2. q \in Seq(S) /\ q # <<>> /\ \A n \in DOMAIN q : Hash(q[n]) \in Nat
  BY <1>1, QueriesAssumption
<1>3. Len(q) \in Nat /\ DOMAIN q = 1..Len(q)
  BY <1>2, LenProperties
<1>4. Len(q) # 0
  BY <1>2, EmptySeq
<1>5. \A n \in DOMAIN q : q[n] \in QueryWords
  BY DEF QueryWords
<1> QED BY <1>2, <1>3, <1>4, <1>5

-----------------------------------------------------------------------------
(***************************************************************************)
(* The rank of a document, word by word.                                   *)
(***************************************************************************)
Adds(c, q, n, f) ==
    f = [k \in 0..n |-> IF k = 0 THEN 0 ELSE f[k - 1] + c[q[k]]]

LEMMA AddsExists ==
    ASSUME NEW c, NEW q, NEW n \in Nat
    PROVE  \E f : Adds(c, q, n, f)
<1> DEFINE S == {m \in Nat : \E f : Adds(c, q, m, f)}
<1>1. 0 \in S
  <2>1. Adds(c, q, 0, [k \in 0..0 |-> 0])
    BY DEF Adds
  <2> QED BY <2>1
<1>2. ASSUME NEW m \in Nat, m \in S PROVE m + 1 \in S
  <2>1. PICK f : Adds(c, q, m, f)
    BY <1>2
  <2> DEFINE g == [k \in 0..(m + 1) |-> IF k = m + 1 THEN f[m] + c[q[m + 1]] ELSE f[k]]
  <2>2. ASSUME NEW k \in 0..(m + 1)
        PROVE  g[k] = IF k = 0 THEN 0 ELSE g[k - 1] + c[q[k]]
    <3>1. CASE k = 0
      BY <3>1, <2>1 DEF Adds
    <3>2. CASE k \in 1..m
      <4>1. g[k] = f[k] /\ g[k - 1] = f[k - 1]
        BY <3>2
      <4>2. f[k] = f[k - 1] + c[q[k]]
        BY <2>1, <3>2 DEF Adds
      <4> QED BY <3>2, <4>1, <4>2
    <3>3. CASE k = m + 1
      <4>1. g[k] = f[m] + c[q[k]] /\ g[k - 1] = f[m] /\ k # 0
        BY <3>3
      <4> QED BY <4>1
    <3> QED BY <3>1, <3>2, <3>3
  <2>3. Adds(c, q, m + 1, g)
    <3>1. DOMAIN g = 0..(m + 1)
      OBVIOUS
    <3> QED BY <2>2, <3>1 DEF Adds
  <2> QED BY <2>3
<1>3. Nat \subseteq S
  BY <1>1, <1>2, Induction
<1> QED BY <1>3

Total(s, n) == Ranked!Sums(s, query)[n]

LEMMA TotalIs ==
    ASSUME FilesInv, query \in Queries, NEW k \in DOMAIN indices, NEW d \in Docs(k)
    PROVE  /\ Total(Doc(k, d), 0) = 0
           /\ \A n \in 1..Len(query) : Total(Doc(k, d), n) =
                 Total(Doc(k, d), n - 1) + Often(k, d, query[n])
           /\ \A n \in 0..Len(query) : Total(Doc(k, d), n) \in Nat
<1>1. PICK s : s = Doc(k, d)
  OBVIOUS
<1>2. PICK c : c = Count[s]
  OBVIOUS
<1>3. PICK l \in Nat : l = Len(query)
  BY QueryIs
<1>4. PICK f : f = Ranked!Sums(s, query)
  OBVIOUS
<1>5. f = CHOOSE g : Adds(c, query, l, g)
  BY <1>2, <1>3, <1>4 DEF Ranked!Sums, Adds
<1>6. Adds(c, query, l, f)
  BY <1>5, AddsExists, Zenon
<1>7. f[0] = 0 /\ \A n \in 1..l : f[n] = f[n - 1] + c[query[n]]
  BY <1>6 DEF Adds
<1>8. \A n \in 1..l : c[query[n]] = Often(k, d, query[n]) /\ Often(k, d, query[n]) \in Nat
  <2>1. SUFFICES ASSUME NEW n \in 1..l
                 PROVE  c[query[n]] = Often(k, d, query[n]) /\ Often(k, d, query[n]) \in Nat
    OBVIOUS
  <2>2. PICK w \in QueryWords : w = query[n]
    BY <1>3, QueryIs
  <2> QED BY <1>1, <1>2, <2>2, CountIs, OftenIs
<1> DEFINE S == {n \in Nat : n <= l => f[n] \in Nat}
<1>9. 0 \in S
  BY <1>7
<1>10. ASSUME NEW n \in Nat, n \in S PROVE n + 1 \in S
  <2> SUFFICES ASSUME n + 1 <= l PROVE f[n + 1] \in Nat
    OBVIOUS
  <2>1. n + 1 \in 1..l /\ (n + 1) - 1 = n /\ n <= l
    BY <1>3
  <2>2. f[n + 1] = f[n] + c[query[n + 1]] /\ c[query[n + 1]] \in Nat
    BY <1>7, <1>8, <2>1
  <2>3. f[n] \in Nat
    BY <1>10, <2>1
  <2> QED BY <2>2, <2>3
<1>11. Nat \subseteq S
  BY <1>9, <1>10, Induction
<1> QED BY <1>1, <1>3, <1>4, <1>7, <1>8, <1>11 DEF Total

-----------------------------------------------------------------------------
(***************************************************************************)
(* ProcessQuery: what has been found, word by word and index by index.     *)
(***************************************************************************)
Pair == [doc : Nat \X AllNames, rank : Nat]

\* Document d of index k has the first n words of the query.
Has(k, d, n) == \A j \in 1..n : Often(k, d, query[j]) > 0

\* The table of word w in index k, as a map.
WordFor(m, k, w) ==
    /\ \A s : s \in DOMAIN m <=> \E d \in Docs(k) : s = Name(k, d) /\ Often(k, d, w) > 0
    /\ \A d \in Docs(k) : Often(k, d, w) > 0 => m[Name(k, d)] = Often(k, d, w)

\* What index k has given for the first n words.
PartialFor(m, k, n) ==
    /\ \A s : s \in DOMAIN m <=> \E d \in Docs(k) : s = Name(k, d) /\ Has(k, d, n)
    /\ \A s \in DOMAIN m : m[s] = Total(<<k, s>>, n)

\* What the first k indices have given.
ResultsFor(r, k) ==
    /\ \A s : (\E j \in DOMAIN r : r[j].doc = s) <=>
          \E l \in 1..k : \E d \in Docs(l) : s = Doc(l, d) /\ Has(l, d, Len(query))
    /\ \A j, l \in DOMAIN r : j # l => r[j].doc # r[l].doc
    /\ \A j \in DOMAIN r : r[j].rank = Total(r[j].doc, Len(query))

Querying ==
    /\ query \in Queries
    /\ curr_index \in 1..(Len(files) + 1) /\ i \in 0..Len(query)
    /\ i > 0 => curr_index <= Len(files) /\ PartialFor(curr_index_result, curr_index, i)
    /\ ResultsFor(final_result, curr_index - 1)

QueryInv ==
    /\ phase \in {"build", "failed", "ready", "index", "answered"}
    /\ final_result \in Seq(Pair)
    /\ phase \in {"build", "failed", "ready"} => query = NoQuery
    /\ phase \notin {"build", "failed"} => Len(files) = Len(indices)
    /\ phase = "index" => Querying

LEMMA QueryQuiet ==
    ASSUME UNCHANGED <<indices, query>>
    PROVE  /\ Count' = Count /\ (AllShort' <=> AllShort)
           /\ \A k : Docs(k)' = Docs(k)
           /\ \A k, d : Name(k, d)' = Name(k, d) /\ Doc(k, d)' = Doc(k, d)
           /\ \A k, d, n : Has(k, d, n)' <=> Has(k, d, n)
           /\ \A s, n : Total(s, n)' = Total(s, n)
<1>1. Count' = Count /\ (AllShort' <=> AllShort)
  BY DEF Count, Names, AllShort
<1>2. \A k : Docs(k)' = Docs(k)
  BY DEF Docs
<1>3. \A k, d : Name(k, d)' = Name(k, d) /\ Doc(k, d)' = Doc(k, d)
  BY DEF Name, Doc
<1>4. \A k, d, n : Has(k, d, n)' <=> Has(k, d, n)
  <2>1. \A k, d, w : Often(k, d, w)' = Often(k, d, w)
    BY DEF Often
  <2> QED BY <2>1 DEF Has
<1>5. \A s, n : Total(s, n)' = Total(s, n)
  BY <1>1 DEF Total, Ranked!Sums
<1> QED BY <1>1, <1>2, <1>3, <1>4, <1>5

LEMMA PartialQuiet ==
    ASSUME UNCHANGED <<indices, query>>, NEW m, NEW k, NEW n, PartialFor(m, k, n)
    PROVE  PartialFor(m, k, n)'
BY QueryQuiet DEF PartialFor

LEMMA ResultsQuiet ==
    ASSUME UNCHANGED <<indices, query>>, NEW r, NEW k, ResultsFor(r, k)
    PROVE  ResultsFor(r, k)'
<1>1. query' = query
  OBVIOUS
<1>2. PICK n : n = Len(query)
  OBVIOUS
<1>3. Len(query') = n
  BY <1>1, <1>2
<1>4. ASSUME NEW s
      PROVE  (\E l \in 1..k : \E d \in Docs(l)' : s = Doc(l, d)' /\ Has(l, d, n)') <=>
                \E l \in 1..k : \E d \in Docs(l) : s = Doc(l, d) /\ Has(l, d, n)
  BY QueryQuiet
<1>5. \A s : (\E j \in DOMAIN r : r[j].doc = s) <=>
                \E l \in 1..k : \E d \in Docs(l)' : s = Doc(l, d)' /\ Has(l, d, n)'
  BY <1>2, <1>4 DEF ResultsFor
<1>6. \A j \in DOMAIN r : r[j].rank = Total(r[j].doc, n)'
  BY <1>2, QueryQuiet DEF ResultsFor
<1>7. \A j, l \in DOMAIN r : j # l => r[j].doc # r[l].doc
  BY DEF ResultsFor
<1> QED BY <1>3, <1>5, <1>6, <1>7 DEF ResultsFor

LEMMA WordResultIs ==
    ASSUME FilesInv, AllShort, NEW k \in DOMAIN files, k = curr_index, NEW w \in QueryWords,
           Hash(w) \in Nat, NEW T, T = Reader(w)
    PROVE  /\ T = None => \A d \in Docs(k) : Often(k, d, w) = 0
           /\ T # None => WordFor(WordResult(T), k, w)
<1>1. PICK x, file : x = indices[k] /\ file = files[k]
  OBVIOUS
<1>2. InMemory(x) /\ CanWrite(x) /\ Short(x) /\ file = FileOf(x) /\ k \in DOMAIN indices
  BY <1>1, FilesAre DEF AllShort
<1>3. T = LookupWord(file, NewIndexTableReader(file), w)
  BY <1>1 DEF Reader, File
<1>4. CASE w \notin DOMAIN x.postings
  <2>1. T = None
    BY <1>2, <1>3, <1>4, WordFound
  <2>2. \A d \in Docs(k) : Often(k, d, w) = 0
    BY <1>1, <1>4 DEF Often
  <2> QED BY <2>1, <2>2
<1>5. CASE w \in DOMAIN x.postings
  <2>1. PICK T2 : WordTableAt(x, file, w, T2)
    BY <1>2, <1>5, WordFound
  <2>2. T = T2 /\ T # None
    BY <1>3, <2>1, NoneAssumption DEF WordTableAt
  <2>3. PositionsOf(x, file, w, T)
    BY <1>2, <1>5, <2>1, <2>2, PositionsFound
  <2>4. PICK H : H = GetDocIDList(file, T)
    OBVIOUS
  <2> DEFINE F(h) == DocTableLookupDocID(file, NewDocTableReader(file), h.doc_id)
  <2>5. PICK m : m = [s \in {F(h) : h \in H} |-> (CHOOSE h \in H : F(h) = s).num_positions]
    OBVIOUS
  <2>6. WordResult(T) = m
    BY <1>1, <2>4, <2>5 DEF WordResult, File
  <2>7. \A d : d \in Docs(k) /\ Often(k, d, w) > 0 <=> d \in DOMAIN x.postings[w]
    <3>1. SUFFICES ASSUME NEW d
                   PROVE  d \in Docs(k) /\ Often(k, d, w) > 0 <=> d \in DOMAIN x.postings[w]
      OBVIOUS
    <3>2. Often(k, d, w) > 0 <=> d \in DOMAIN x.postings[w]
      BY <1>1, <1>2, <1>5, OftenIs
    <3>3. d \in DOMAIN x.postings[w] => d \in Docs(k)
      BY <1>1, <1>2, <1>5 DEF Docs, InMemory
    <3> QED BY <3>2, <3>3
  <2>8. ASSUME NEW d \in DOMAIN x.postings[w]
        PROVE  \E h \in H : h.doc_id = d /\ h.num_positions = Often(k, d, w)
    <3>1. PICK n : n = Len(x.postings[w][d])
      OBVIOUS
    <3>2. PICK h : h = [doc_id |-> d, num_positions |-> n]
      OBVIOUS
    <3>3. h \in H
      BY <2>3, <2>4, <2>8, <3>1, <3>2 DEF PositionsOf
    <3>4. Often(k, d, w) = n
      BY <1>1, <1>2, <1>5, <2>8, <3>1, OftenIs
    <3> QED BY <3>2, <3>3, <3>4
  <2>9. ASSUME NEW h \in H
        PROVE  /\ h.doc_id \in DOMAIN x.postings[w] /\ F(h) = Name(k, h.doc_id)
               /\ h.num_positions = Often(k, h.doc_id, w)
    <3>1. PICK d \in DOMAIN x.postings[w] :
             h = [doc_id |-> d, num_positions |-> Len(x.postings[w][d])]
      BY <2>3, <2>4, <2>9 DEF PositionsOf
    <3>2. h.doc_id = d /\ h.num_positions = Len(x.postings[w][d])
      BY <3>1
    <3>3. d \in DOMAIN x.names /\ d \in Nat
      BY <1>2, <1>5, <3>1 DEF InMemory
    <3>4. DocTableLookupDocID(file, NewDocTableReader(file), d) = StoredName(x.names[d])
      BY <1>2, <3>3, NameFound
    <3>5. Often(k, d, w) = Len(x.postings[w][d])
      BY <1>1, <1>2, <1>5, <3>1, OftenIs
    <3> QED BY <1>1, <3>1, <3>2, <3>4, <3>5 DEF Name
  <2>10. ASSUME NEW s
         PROVE  s \in DOMAIN m <=> \E d \in Docs(k) : s = Name(k, d) /\ Often(k, d, w) > 0
    <3>1. s \in DOMAIN m <=> \E h \in H : s = F(h)
      BY <2>5
    <3>2. s \in DOMAIN m <=> \E h \in H : s = Name(k, h.doc_id)
      BY <2>9, <3>1
    <3>3. s \in DOMAIN m <=> \E d \in DOMAIN x.postings[w] : s = Name(k, d)
      BY <2>8, <2>9, <3>2
    <3> QED BY <2>7, <3>3
  <2>11. ASSUME NEW d \in Docs(k), Often(k, d, w) > 0 PROVE m[Name(k, d)] = Often(k, d, w)
    <3>1. PICK s : s = Name(k, d)
      OBVIOUS
    <3>2. s \in DOMAIN m
      BY <2>10, <2>11, <3>1
    <3>3. PICK g : g = CHOOSE h \in H : F(h) = s
      OBVIOUS
    <3>4. \E h \in H : F(h) = s
      BY <2>5, <3>2
    <3>5. g \in H /\ F(g) = s
      BY <3>3, <3>4, Zenon
    <3>6. m[s] = g.num_positions
      BY <2>5, <3>2, <3>3
    <3>7. g.doc_id \in Docs(k) /\ Name(k, g.doc_id) = Name(k, d)
      BY <2>7, <2>9, <3>1, <3>5
    <3>8. g.doc_id = d
      BY <1>2, <3>7, NamesDiffer
    <3> QED BY <2>9, <3>1, <3>5, <3>6, <3>8
  <2>12. WordFor(m, k, w)
    BY <2>10, <2>11 DEF WordFor
  <2> QED BY <2>2, <2>6, <2>12
<1> QED BY <1>4, <1>5

\* A document that has a name is one of its index.
LEMMA NameIs ==
    ASSUME FilesInv, query \in Queries, NEW k \in DOMAIN indices, NEW d \in Docs(k),
           NEW n \in 0..Len(query)
    PROVE  Name(k, d) \in AllNames /\ Total(Doc(k, d), n) \in Nat
BY NamesAre, TotalIs

LEMMA PartialFirst ==
    ASSUME FilesInv, query \in Queries, NEW k \in DOMAIN indices,
           NEW m, WordFor(m, k, query[1])
    PROVE  PartialFor(m, k, 1)
<1>1. 1 \in 1..Len(query)
  BY QueryIs
<1>2. PICK w : w = query[1]
  OBVIOUS
<1>3. \A d : Has(k, d, 1) <=> Often(k, d, w) > 0
  <2>1. \A j \in 1..1 : j = 1
    OBVIOUS
  <2> QED BY <1>2, <2>1 DEF Has
<1>4. ASSUME NEW s \in DOMAIN m PROVE m[s] = Total(<<k, s>>, 1)
  <2>1. PICK d \in Docs(k) : s = Name(k, d) /\ Often(k, d, w) > 0
    BY <1>2, <1>4 DEF WordFor
  <2>2. m[s] = Often(k, d, w)
    BY <1>2, <2>1 DEF WordFor
  <2>5. PICK v : v = Doc(k, d) /\ v = <<k, s>>
    BY <2>1 DEF Doc
  <2>3. Total(v, 0) = 0 /\ Total(v, 1) = Total(v, 1 - 1) + Often(k, d, w)
    BY <1>1, <1>2, <2>5, TotalIs
  <2>4. Often(k, d, w) \in Nat
    BY OftenIs
  <2> QED BY <2>2, <2>3, <2>4, <2>5
<1>5. ASSUME NEW s
      PROVE  s \in DOMAIN m <=> \E d \in Docs(k) : s = Name(k, d) /\ Has(k, d, 1)
  BY <1>2, <1>3 DEF WordFor
<1> QED BY <1>4, <1>5 DEF PartialFor

\* IntersectMaps adds a word.
LEMMA PartialNext ==
    ASSUME FilesInv, query \in Queries, NEW k \in DOMAIN indices, NEW n \in 1..(Len(query) - 1),
           NEW r, PartialFor(r, k, n), NEW m, WordFor(m, k, query[n + 1])
    PROVE  PartialFor(IntersectMaps(r, m), k, n + 1)
<1>1. Len(query) \in Nat
  BY QueryIs
<1>2. PICK o \in Nat : o = n + 1
  BY <1>1
<1>3. o \in 1..Len(query) /\ o - 1 = n
  BY <1>1, <1>2
<1>4. PICK w : w = query[o]
  OBVIOUS
<1>5. WordFor(m, k, w)
  BY <1>2, <1>4
<1>6. PICK both : both = IntersectMaps(r, m)
  OBVIOUS
<1>7. /\ \A s : s \in DOMAIN both <=> s \in DOMAIN r /\ s \in DOMAIN m
      /\ \A s \in DOMAIN both : both[s] = r[s] + m[s]
  BY <1>6 DEF IntersectMaps
<1>8. ASSUME NEW d PROVE Has(k, d, o) <=> Has(k, d, n) /\ Often(k, d, w) > 0
  <2>1. \A j : j \in 1..o <=> j \in 1..n \/ j = o
    BY <1>1, <1>2
  <2> QED BY <1>4, <2>1 DEF Has
<1>9. ASSUME NEW s
      PROVE  s \in DOMAIN both <=> \E d \in Docs(k) : s = Name(k, d) /\ Has(k, d, o)
  <2>1. s \in DOMAIN r <=> \E d \in Docs(k) : s = Name(k, d) /\ Has(k, d, n)
    BY DEF PartialFor
  <2>2. s \in DOMAIN m <=> \E d \in Docs(k) : s = Name(k, d) /\ Often(k, d, w) > 0
    BY <1>5 DEF WordFor
  <2>3. \A d, e \in Docs(k) : Name(k, d) = Name(k, e) => d = e
    BY NamesDiffer
  <2> QED BY <1>7, <1>8, <2>1, <2>2, <2>3
<1>10. ASSUME NEW s \in DOMAIN both PROVE both[s] = Total(<<k, s>>, o)
  <2>1. PICK d \in Docs(k) : s = Name(k, d) /\ Has(k, d, o)
    BY <1>9
  <2>2. m[s] = Often(k, d, w)
    BY <1>5, <1>8, <2>1 DEF WordFor
  <2>3. PICK v : v = Doc(k, d) /\ v = <<k, s>>
    BY <2>1 DEF Doc
  <2>4. r[s] = Total(v, n)
    BY <1>7, <2>3 DEF PartialFor
  <2>5. Total(v, o) = Total(v, o - 1) + Often(k, d, w)
    BY <1>3, <1>4, <2>3, TotalIs
  <2> QED BY <1>3, <1>7, <2>2, <2>3, <2>4, <2>5
<1>11. PartialFor(both, k, o)
  BY <1>9, <1>10 DEF PartialFor
<1> QED BY <1>2, <1>6, <1>11

\* An index without results.
LEMMA ResultsSkip ==
    ASSUME NEW r, NEW k \in Nat \ {0}, ResultsFor(r, k - 1),
           \A d \in Docs(k) : ~Has(k, d, Len(query))
    PROVE  ResultsFor(r, k)
<1>1. \A l : l \in 1..k <=> l \in 1..(k - 1) \/ l = k
  OBVIOUS
<1>2. PICK n : n = Len(query)
  OBVIOUS
<1>3. ASSUME NEW s
      PROVE  (\E l \in 1..k : \E d \in Docs(l) : s = Doc(l, d) /\ Has(l, d, n)) <=>
                \E l \in 1..(k - 1) : \E d \in Docs(l) : s = Doc(l, d) /\ Has(l, d, n)
  BY <1>1, <1>2
<1> QED BY <1>2, <1>3 DEF ResultsFor

LEMMA PartialFinite ==
    ASSUME FilesInv, NEW k \in DOMAIN indices, NEW m, NEW n, PartialFor(m, k, n)
    PROVE  IsFiniteSet(DOMAIN m)
<1>1. PICK x : x = indices[k]
  OBVIOUS
<1>2. PICK D : D = DOMAIN x.names
  OBVIOUS
<1>3. IsFiniteSet(D) /\ D = Docs(k)
  BY <1>1, <1>2, CorpusIs DEF FilesInv, InMemory, Docs
<1>4. PICK M : M = DOMAIN m
  OBVIOUS
<1>5. PICK E : E = {d \in D : Has(k, d, n)}
  OBVIOUS
<1>6. E \in SUBSET D
  BY <1>5
<1>7. IsFiniteSet(E)
  BY <1>3, <1>6, FS_Subset
<1>8. PICK f : f = [d \in E |-> Name(k, d)]
  OBVIOUS
<1>9. \A s : s \in M <=> \E d \in E : f[d] = s
  BY <1>3, <1>4, <1>5, <1>8 DEF PartialFor
<1>10. f \in Surjection(E, M)
  BY <1>8, <1>9 DEF Surjection
<1>11. IsFiniteSet(M)
  BY <1>7, <1>10, FS_Surjection
<1> QED BY <1>4, <1>11

\* The results of one index.
LEMMA ResultsOf ==
    ASSUME FilesInv, query \in Queries, NEW k \in DOMAIN indices, k = curr_index,
           NEW m, PartialFor(m, k, Len(query)), NEW t, t = Results(m)
    PROVE  /\ t \in Seq(Pair)
           /\ \A s : (\E j \in DOMAIN t : t[j].doc = s) <=> \E v \in DOMAIN m : s = <<k, v>>
           /\ \A j, l \in DOMAIN t : j # l => t[j].doc # t[l].doc
           /\ \A j \in DOMAIN t : t[j].rank = Total(t[j].doc, Len(query))
<1>1. PICK n \in Nat : n = Len(query)
  BY QueryIs
<1>2. PICK M : M = DOMAIN m
  OBVIOUS
<1>3. IsFiniteSet(M)
  BY <1>2, PartialFinite
<1>4. PICK names : names = Seqs!SetToSeq(M)
  OBVIOUS
<1>5. /\ Len(names) \in Nat /\ names \in [1..Len(names) -> M]
      /\ \A s \in M : \E j \in 1..Len(names) : names[j] = s
      /\ \A j, l \in 1..Len(names) : names[j] = names[l] => j = l
  <2>1. Lists(names, M)
    BY <1>3, <1>4, SetToSeqIs
  <2> QED BY <2>1 DEF Lists
<1>6. PICK b \in Nat : b = Len(names)
  BY <1>5
<1>7. DOMAIN names = 1..b
  BY <1>5, <1>6
<1>8. t = [j \in 1..b |-> [doc |-> <<k, names[j]>>, rank |-> m[names[j]]]]
  BY <1>2, <1>4, <1>7 DEF Results
<1>9. ASSUME NEW s \in M
      PROVE  m[s] = Total(<<k, s>>, n) /\ s \in AllNames /\ m[s] \in Nat /\ k \in Nat
  <2>1. m[s] = Total(<<k, s>>, n)
    BY <1>1, <1>2 DEF PartialFor
  <2>2. PICK d \in Docs(k) : s = Name(k, d)
    BY <1>2 DEF PartialFor
  <2>3. n \in 0..Len(query)
    BY <1>1
  <2>4. k \in Nat
    BY FilesAre
  <2> QED BY <2>1, <2>2, <2>3, <2>4, NameIs DEF Doc
<1>10. ASSUME NEW j \in 1..b
       PROVE  /\ t[j].doc = <<k, names[j]>> /\ t[j].rank = Total(<<k, names[j]>>, n)
              /\ t[j] \in Pair
  <2>1. names[j] \in M
    BY <1>5, <1>6
  <2>2. t[j] = [doc |-> <<k, names[j]>>, rank |-> m[names[j]]]
    BY <1>8
  <2> QED BY <1>9, <2>1, <2>2 DEF Pair
<1>11. t \in Seq(Pair)
  <2>1. t \in [1..b -> Pair]
    BY <1>8, <1>10
  <2> QED BY <2>1, SeqDef
<1>12. DOMAIN t = 1..b
  BY <1>8
<1>13. ASSUME NEW s
       PROVE  (\E j \in DOMAIN t : t[j].doc = s) <=> \E v \in M : s = <<k, v>>
  <2>1. ASSUME NEW j \in DOMAIN t, t[j].doc = s PROVE \E v \in M : s = <<k, v>>
    <3>1. PICK v \in M : v = names[j]
      BY <1>5, <1>6, <1>12
    <3> QED BY <1>10, <1>12, <2>1, <3>1
  <2>2. ASSUME NEW v \in M, s = <<k, v>> PROVE \E j \in DOMAIN t : t[j].doc = s
    <3>1. PICK j \in 1..b : names[j] = v
      BY <1>5, <1>6
    <3>2. t[j].doc = <<k, names[j]>>
      BY <1>10
    <3> QED BY <1>12, <2>2, <3>1, <3>2
  <2> QED BY <2>1, <2>2
<1>14. ASSUME NEW j \in DOMAIN t, NEW l \in DOMAIN t, t[j].doc = t[l].doc
       PROVE  j = l
  <2>1. j \in 1..b /\ l \in 1..b
    BY <1>12
  <2>2. <<k, names[j]>> = <<k, names[l]>>
    BY <1>10, <1>14, <2>1
  <2>3. names[j] = names[l]
    BY <2>2
  <2> QED BY <1>5, <1>6, <2>1, <2>3
<1>15. \A j \in DOMAIN t : t[j].rank = Total(t[j].doc, n)
  BY <1>10, <1>12
<1>16. \A s : (\E j \in DOMAIN t : t[j].doc = s) <=> \E v \in DOMAIN m : s = <<k, v>>
  BY <1>2, <1>13
<1>17. \A j, l \in DOMAIN t : j # l => t[j].doc # t[l].doc
  BY <1>14
<1> QED BY <1>1, <1>11, <1>15, <1>16, <1>17

\* An index with results.
LEMMA ResultsAppend ==
    ASSUME FilesInv, query \in Queries, NEW k \in DOMAIN indices, k = curr_index,
           NEW r \in Seq(Pair), ResultsFor(r, k - 1), NEW m, PartialFor(m, k, Len(query))
    PROVE  r \o Results(m) \in Seq(Pair) /\ ResultsFor(r \o Results(m), k)
<1>1. PICK n : n = Len(query)
  OBVIOUS
<1>2. PICK t : t = Results(m)
  OBVIOUS
<1>3. /\ t \in Seq(Pair)
      /\ \A s : (\E j \in DOMAIN t : t[j].doc = s) <=> \E v \in DOMAIN m : s = <<k, v>>
      /\ \A j, l \in DOMAIN t : j # l => t[j].doc # t[l].doc
      /\ \A j \in DOMAIN t : t[j].rank = Total(t[j].doc, n)
  BY <1>1, <1>2, ResultsOf
<1>4. PICK a, b \in Nat : a = Len(r) /\ b = Len(t)
  BY <1>3, LenProperties
<1>5. DOMAIN r = 1..a /\ DOMAIN t = 1..b
  BY <1>3, <1>4, LenProperties
<1>6. PICK u : u = r \o t
  OBVIOUS
<1>7. /\ u \in Seq(Pair) /\ Len(u) = a + b
      /\ \A j \in 1..(a + b) : u[j] = IF j <= a THEN r[j] ELSE t[j - a]
  BY <1>3, <1>4, <1>6, ConcatProperties
<1>8. DOMAIN u = 1..(a + b)
  BY <1>7, LenProperties
<1>9. /\ \A j \in 1..a : j \in 1..(a + b) /\ u[j] = r[j]
      /\ \A j \in 1..b : j + a \in 1..(a + b) /\ u[j + a] = t[j]
      /\ \A j \in 1..(a + b) : j \in 1..a \/ \E l \in 1..b : j = l + a
  <2>1. ASSUME NEW j \in 1..a PROVE j \in 1..(a + b) /\ u[j] = r[j]
    BY <1>7
  <2>2. ASSUME NEW j \in 1..b PROVE j + a \in 1..(a + b) /\ u[j + a] = t[j]
    <3>1. j + a \in 1..(a + b) /\ ~(j + a <= a) /\ (j + a) - a = j
      OBVIOUS
    <3> QED BY <1>7, <3>1
  <2>3. ASSUME NEW j \in 1..(a + b), j \notin 1..a PROVE \E l \in 1..b : j = l + a
    <3>1. j - a \in 1..b /\ j = (j - a) + a
      BY <2>3
    <3> QED BY <3>1
  <2> QED BY <2>1, <2>2, <2>3
<1>10. PICK K \in Nat : k = K /\ K # 0 /\ \A l \in 1..K : l \in DOMAIN indices
  BY FilesAre
<1>11. ASSUME NEW s
       PROVE  (\E j \in DOMAIN u : u[j].doc = s) <=>
                 (\E j \in DOMAIN r : r[j].doc = s) \/ (\E j \in DOMAIN t : t[j].doc = s)
  <2>1. ASSUME NEW j \in DOMAIN r, r[j].doc = s PROVE \E l \in DOMAIN u : u[l].doc = s
    BY <1>5, <1>8, <1>9, <2>1
  <2>2. ASSUME NEW j \in DOMAIN t, t[j].doc = s PROVE \E l \in DOMAIN u : u[l].doc = s
    <3>1. j + a \in DOMAIN u /\ u[j + a] = t[j]
      BY <1>5, <1>8, <1>9
    <3> QED BY <2>2, <3>1
  <2>3. ASSUME NEW j \in DOMAIN u, u[j].doc = s, j \notin 1..a
        PROVE  \E l \in DOMAIN t : t[l].doc = s
    <3>1. PICK l \in 1..b : j = l + a
      BY <1>8, <1>9, <2>3
    <3>2. u[l + a] = t[l]
      BY <1>9
    <3> QED BY <1>5, <2>3, <3>1, <3>2
  <2>4. ASSUME NEW j \in DOMAIN u, u[j].doc = s, j \in 1..a
        PROVE  \E l \in DOMAIN r : r[l].doc = s
    BY <1>5, <1>9, <2>4
  <2> QED BY <2>1, <2>2, <2>3, <2>4
<1>12. ASSUME NEW s
       PROVE  (\E j \in DOMAIN u : u[j].doc = s) <=>
                 \E l \in 1..k : \E d \in Docs(l) : s = Doc(l, d) /\ Has(l, d, n)
  <2>1. (\E j \in DOMAIN r : r[j].doc = s) <=>
           \E l \in 1..(K - 1) : \E d \in Docs(l) : s = Doc(l, d) /\ Has(l, d, n)
    BY <1>1, <1>10 DEF ResultsFor
  <2>2. (\E j \in DOMAIN t : t[j].doc = s) <=>
           \E d \in Docs(K) : s = Doc(K, d) /\ Has(K, d, n)
    BY <1>1, <1>3, <1>10 DEF PartialFor, Doc
  <2>3. \A l : l \in 1..K <=> l \in 1..(K - 1) \/ l = K
    BY <1>10
  <2> QED BY <1>10, <1>11, <2>1, <2>2, <2>3
<1>13. ASSUME NEW j \in 1..a, NEW l \in 1..b PROVE r[j].doc # t[l].doc
  <2>1. PICK s : s = r[j].doc
    OBVIOUS
  <2>6. (\E q \in DOMAIN r : r[q].doc = s) <=>
           \E p \in 1..(K - 1) : \E d \in Docs(p) : s = Doc(p, d) /\ Has(p, d, n)
    BY <1>1, <1>10 DEF ResultsFor
  <2>7. \E q \in DOMAIN r : r[q].doc = s
    BY <1>5, <2>1
  <2>2. PICK p \in 1..(K - 1) : \E d \in Docs(p) : s = Doc(p, d)
    BY <2>6, <2>7
  <2>3. PICK v \in DOMAIN m : t[l].doc = <<K, v>>
    BY <1>3, <1>5, <1>10
  <2>4. PICK d \in Docs(p) : s = <<p, Name(p, d)>>
    BY <2>2 DEF Doc
  <2>5. p # K
    BY <1>10, <2>2
  <2> QED BY <2>1, <2>3, <2>4, <2>5
<1>14. ASSUME NEW j \in 1..(a + b), NEW l \in 1..(a + b), j # l PROVE u[j].doc # u[l].doc
  <2>1. CASE j \in 1..a /\ l \in 1..a
    BY <1>5, <1>9, <1>14, <2>1 DEF ResultsFor
  <2>2. CASE j \in 1..a /\ l \notin 1..a
    <3>1. PICK q \in 1..b : l = q + a
      BY <1>9, <2>2
    <3>2. u[q + a] = t[q] /\ u[j] = r[j]
      BY <1>9, <2>2
    <3> QED BY <1>13, <2>2, <3>1, <3>2
  <2>3. CASE j \notin 1..a /\ l \in 1..a
    <3>1. PICK p \in 1..b : j = p + a
      BY <1>9, <2>3
    <3>2. u[p + a] = t[p] /\ u[l] = r[l]
      BY <1>9, <2>3
    <3> QED BY <1>13, <2>3, <3>1, <3>2
  <2>4. CASE j \notin 1..a /\ l \notin 1..a
    <3>1. PICK p, q \in 1..b : j = p + a /\ l = q + a
      BY <1>9, <2>4
    <3>2. p # q
      BY <1>14, <3>1
    <3>3. t[p].doc # t[q].doc
      BY <1>3, <1>5, <3>2
    <3> QED BY <1>9, <3>1, <3>3
  <2> QED BY <2>1, <2>2, <2>3, <2>4
<1>15. ASSUME NEW j \in 1..(a + b) PROVE u[j].rank = Total(u[j].doc, n)
  <2>1. CASE j \in 1..a
    BY <1>1, <1>5, <1>9, <2>1 DEF ResultsFor
  <2>2. CASE j \notin 1..a
    <3>1. PICK p \in 1..b : j = p + a
      BY <1>9, <2>2
    <3>2. u[p + a] = t[p]
      BY <1>9
    <3>3. t[p].rank = Total(t[p].doc, n)
      BY <1>3, <1>5
    <3> QED BY <3>1, <3>2, <3>3
  <2> QED BY <2>1, <2>2
<1>16. ResultsFor(u, k)
  BY <1>1, <1>8, <1>12, <1>14, <1>15 DEF ResultsFor
<1> QED BY <1>2, <1>6, <1>7, <1>16

\* Whose results the query is to have.
LEMMA MatchesIs ==
    ASSUME FilesInv, query \in Queries, NEW s
    PROVE  s \in Ranked!Matches(query) <=>
              \E l \in DOMAIN indices : \E d \in Docs(l) : s = Doc(l, d) /\ Has(l, d, Len(query))
<1>1. PICK n \in Nat : n = Len(query)
  BY QueryIs
<1>2. DOMAIN query = 1..n /\ query # <<>> /\ \A j \in 1..n : query[j] \in QueryWords
  BY <1>1, QueryIs
<1>3. s \in Ranked!Matches(query) <=> s \in Names /\ \A j \in 1..n : Count[s][query[j]] > 0
  BY <1>2, NamesAre DEF Ranked!Matches
<1>4. ASSUME NEW l \in DOMAIN indices, NEW d \in Docs(l), s = Doc(l, d)
      PROVE  (\A j \in 1..n : Count[s][query[j]] > 0) <=> Has(l, d, n)
  <2>1. \A j \in 1..n : Count[s][query[j]] = Often(l, d, query[j])
    BY <1>2, <1>4, CountIs
  <2> QED BY <2>1 DEF Has
<1> QED BY <1>1, <1>3, <1>4, NamesAre

-----------------------------------------------------------------------------
(***************************************************************************)
(* QueryInv is inductive.                                                  *)
(***************************************************************************)
LEMMA QueryInit == Init => QueryInv
BY EmptySeq DEF Init, QueryInv

\* What ProcessQuery is at, in an index.
LEMMA AtIndex ==
    ASSUME FilesInv, QueryInv, Working
    PROVE  /\ query \in Queries /\ Len(query) \in Nat \ {0} /\ i \in 0..Len(query)
           /\ curr_index \in Nat \ {0} /\ curr_index \in DOMAIN files
           /\ curr_index \in DOMAIN indices /\ Len(files) = Len(indices) /\ Len(files) \in Nat
           /\ i > 0 => PartialFor(curr_index_result, curr_index, i)
           /\ ResultsFor(final_result, curr_index - 1)
<1>1. Querying /\ curr_index <= Len(files) /\ Len(files) = Len(indices)
  BY DEF Working, QueryInv
<1>2. query \in Queries
  BY <1>1 DEF Querying
<1>3. Len(query) \in Nat \ {0}
  BY <1>2, QueryIs
<1>4. /\ Len(files) \in Nat /\ DOMAIN files = 1..Len(files)
      /\ Len(indices) \in Nat /\ DOMAIN indices = 1..Len(indices)
  BY FilesAre
<1> QED BY <1>1, <1>2, <1>3, <1>4 DEF Querying

\* The next index: what this one has given is in the results.
LEMMA ToNextIndex ==
    ASSUME FilesInv, QueryInv, Working, NextIndex, UNCHANGED <<indices, files, phase, query>>,
           final_result' \in Seq(Pair), ResultsFor(final_result', curr_index)
    PROVE  QueryInv'
<1>1. PICK r, k : r = final_result' /\ k = curr_index
  OBVIOUS
<1>2. ResultsFor(r, k)'
  BY <1>1, ResultsQuiet
<1>3. /\ curr_index' = k + 1 /\ i' = 0 /\ query' = query /\ files' = files /\ phase' = phase
      /\ final_result' = r /\ indices' = indices
  BY <1>1 DEF NextIndex
<1>4. /\ query \in Queries /\ Len(query) \in Nat /\ k \in 1..Len(files) /\ Len(files) \in Nat
      /\ Len(files) = Len(indices) /\ phase = "index"
  BY <1>1, AtIndex, FilesAre DEF Working
<1>5. k + 1 \in 1..(Len(files) + 1) /\ (k + 1) - 1 = k /\ ~(0 > 0) /\ 0 \in 0..Len(query)
  BY <1>4
<1>6. ResultsFor(final_result, curr_index - 1)'
  BY <1>2, <1>3, <1>5
<1>7. Querying'
  BY <1>3, <1>4, <1>5, <1>6 DEF Querying
<1> QED BY <1>3, <1>4, <1>7 DEF QueryInv

\* The next word of this index.
LEMMA ToNextWord ==
    ASSUME FilesInv, QueryInv, Working,
           UNCHANGED <<indices, files, phase, query, curr_index, final_result>>,
           i' \in 1..Len(query), PartialFor(curr_index_result', curr_index, i')
    PROVE  QueryInv'
<1>1. PICK m, n, r, k : m = curr_index_result' /\ n = i' /\ r = final_result /\ k = curr_index
  OBVIOUS
<1>2. PartialFor(m, k, n)'
  BY <1>1, PartialQuiet
<1>3. ResultsFor(r, k - 1)'
  <2>1. PICK p : p = k - 1
    OBVIOUS
  <2>2. ResultsFor(r, p)
    BY <1>1, <2>1, AtIndex
  <2>3. ResultsFor(r, p)'
    BY <2>2, ResultsQuiet
  <2> QED BY <2>1, <2>3
<1>4. /\ curr_index' = k /\ i' = n /\ query' = query /\ files' = files /\ phase' = phase
      /\ final_result' = r /\ indices' = indices /\ curr_index_result' = m
  BY <1>1
<1>5. /\ query \in Queries /\ k \in 1..(Len(files) + 1) /\ k <= Len(files)
      /\ Len(files) = Len(indices) /\ phase = "index" /\ n \in 0..Len(query)
  BY <1>1, AtIndex, FilesAre DEF Working
<1>6. Querying'
  BY <1>2, <1>3, <1>4, <1>5 DEF Querying
<1> QED BY <1>4, <1>5, <1>6 DEF QueryInv

\* A word that no document of the index has.
LEMMA QueryNoSuchWord ==
    ASSUME FilesInv, AllShort, QueryInv, NoSuchWord
    PROVE  QueryInv'
<1>1. Working /\ i < Len(query) /\ Reader(query[i + 1]) = None /\ NextIndex
  BY DEF NoSuchWord
<1>2. UNCHANGED <<indices, files, phase, query, final_result>>
  BY DEF NoSuchWord
<1>3. PICK k : k = curr_index
  OBVIOUS
<1>4. PICK l \in Nat : l = Len(query)
  BY <1>1, AtIndex
<1>5. PICK o \in 1..l : o = i + 1
  BY <1>1, <1>4, AtIndex
<1>6. PICK w : w = query[o]
  OBVIOUS
<1>7. w \in QueryWords /\ Hash(w) \in Nat
  BY <1>1, <1>4, <1>6, AtIndex, QueryIs
<1>8. PICK T : T = Reader(w)
  OBVIOUS
<1>9. \A d \in Docs(k) : Often(k, d, w) = 0
  BY <1>1, <1>3, <1>5, <1>6, <1>7, <1>8, AtIndex, WordResultIs
<1>10. \A d \in Docs(k) : ~Has(k, d, Len(query))
  BY <1>4, <1>6, <1>9 DEF Has
<1>11. PICK r : r = final_result
  OBVIOUS
<1>12. k \in Nat \ {0} /\ ResultsFor(r, k - 1) /\ r \in Seq(Pair)
  BY <1>1, <1>3, <1>11, AtIndex DEF QueryInv
<1>13. ResultsFor(r, k)
  BY <1>10, <1>12, ResultsSkip
<1> QED BY <1>1, <1>2, <1>3, <1>11, <1>12, <1>13, ToNextIndex

LEMMA QueryFirstWord ==
    ASSUME FilesInv, AllShort, QueryInv, FirstWord
    PROVE  QueryInv'
<1>1. PICK k : k = curr_index
  OBVIOUS
<1>2. PICK w : w = query[1]
  OBVIOUS
<1>3. PICK T : T = Reader(w)
  OBVIOUS
<1>4. PICK m : m = WordResult(T)
  OBVIOUS
<1>5. /\ Working /\ T # None /\ curr_index_result' = m /\ i' = 1
      /\ UNCHANGED <<indices, files, phase, query, curr_index, final_result>>
  BY <1>2, <1>3, <1>4 DEF FirstWord
<1>6. 1 \in 1..Len(query) /\ k \in DOMAIN files /\ k \in DOMAIN indices /\ query \in Queries
  BY <1>1, <1>5, AtIndex
<1>7. w \in QueryWords /\ Hash(w) \in Nat
  BY <1>2, <1>6, QueryIs
<1>8. WordFor(m, k, w)
  BY <1>1, <1>3, <1>4, <1>5, <1>6, <1>7, WordResultIs
<1>9. PartialFor(m, k, 1)
  BY <1>2, <1>6, <1>8, PartialFirst
<1> QED BY <1>1, <1>5, <1>6, <1>9, ToNextWord

LEMMA QueryNextWord ==
    ASSUME FilesInv, AllShort, QueryInv, NextWord
    PROVE  QueryInv'
<1>1. PICK k, n : k = curr_index /\ n = i
  OBVIOUS
<1>2. PICK w : w = query[n + 1]
  OBVIOUS
<1>3. PICK T : T = Reader(w)
  OBVIOUS
<1>4. PICK m, r : m = WordResult(T) /\ r = curr_index_result
  OBVIOUS
<1>5. PICK both : both = IntersectMaps(r, m)
  OBVIOUS
<1>6. /\ Working /\ n \in 1..(Len(query) - 1) /\ T # None
      /\ UNCHANGED <<indices, files, phase, query, final_result>>
      /\ IF DOMAIN both = {} THEN NextIndex
         ELSE curr_index_result' = both /\ i' = n + 1 /\ UNCHANGED curr_index
  BY <1>1, <1>2, <1>3, <1>4, <1>5 DEF NextWord
<1>7. /\ k \in DOMAIN files /\ k \in DOMAIN indices /\ query \in Queries /\ k \in Nat \ {0}
      /\ Len(query) \in Nat /\ PartialFor(r, k, n)
  BY <1>1, <1>4, <1>6, AtIndex
<1>8. PICK l \in Nat, o \in Nat : l = Len(query) /\ o = n + 1 /\ o \in 1..l
  BY <1>6, <1>7
<1>9. w \in QueryWords /\ Hash(w) \in Nat
  BY <1>2, <1>7, <1>8, QueryIs
<1>10. WordFor(m, k, w)
  BY <1>1, <1>3, <1>4, <1>6, <1>7, <1>9, WordResultIs
<1>11. PartialFor(both, k, n + 1)
  BY <1>2, <1>5, <1>6, <1>7, <1>10, PartialNext
<1>12. PartialFor(both, k, o)
  BY <1>8, <1>11
<1>13. CASE DOMAIN both = {}
  <2>1. \A d \in Docs(k) : ~Has(k, d, o)
    BY <1>12, <1>13 DEF PartialFor
  <2>2. \A d \in Docs(k) : ~Has(k, d, Len(query))
    <3>1. \A j \in 1..o : j \in 1..l
      BY <1>8
    <3>2. \A d : Has(k, d, Len(query)) => Has(k, d, o)
      BY <1>8, <3>1 DEF Has
    <3> QED BY <2>1, <3>2
  <2>3. PICK f : f = final_result
    OBVIOUS
  <2>4. ResultsFor(f, k - 1) /\ f \in Seq(Pair)
    BY <1>1, <1>6, <2>3, AtIndex DEF QueryInv
  <2>5. ResultsFor(f, k)
    BY <1>7, <2>2, <2>4, ResultsSkip
  <2> QED BY <1>1, <1>6, <1>13, <2>3, <2>4, <2>5, ToNextIndex
<1>14. CASE DOMAIN both # {}
  <2>1. curr_index_result' = both /\ i' = o /\ curr_index' = k
    BY <1>1, <1>6, <1>8, <1>14
  <2> QED BY <1>1, <1>6, <1>8, <1>12, <2>1, ToNextWord
<1> QED BY <1>13, <1>14

LEMMA QueryIndexDone ==
    ASSUME FilesInv, QueryInv, IndexDone
    PROVE  QueryInv'
<1>1. PICK k, m, r : k = curr_index /\ m = curr_index_result /\ r = final_result
  OBVIOUS
<1>2. PICK u : u = r \o Results(m)
  OBVIOUS
<1>3. /\ Working /\ i = Len(query) /\ final_result' = u /\ NextIndex
      /\ UNCHANGED <<indices, files, phase, query>>
  BY <1>1, <1>2 DEF IndexDone
<1>4. /\ query \in Queries /\ k \in DOMAIN indices /\ ResultsFor(r, k - 1)
      /\ PartialFor(m, k, Len(query)) /\ r \in Seq(Pair)
  BY <1>1, <1>3, AtIndex DEF QueryInv
<1>5. u \in Seq(Pair) /\ ResultsFor(u, k)
  BY <1>1, <1>2, <1>4, ResultsAppend
<1> QED BY <1>1, <1>3, <1>5, ToNextIndex

\* The answer, after the sort.
LEMMA AnswerIs ==
    ASSUME FilesInv, AllShort, QueryInv, Answer
    PROVE  Ranked!Reply /\ QueryInv'
<1>1. /\ phase = "index" /\ curr_index > Len(files) /\ phase' = "answered"
      /\ UNCHANGED <<indices, files, query>>
  BY DEF Answer
<1>2. PICK r, a : r = final_result /\ a = final_result'
  OBVIOUS
<1>3. r \in Seq(Pair)
  BY <1>2 DEF QueryInv
<1>4. PICK n \in Nat : n = Len(r) /\ DOMAIN r = 1..n
  BY <1>3, LenProperties
<1>5. PICK f \in Bijection(1..n, 1..n) :
         /\ a = [k \in 1..n |-> r[f[k]]]
         /\ \A k, l \in 1..n : k < l => a[k].rank >= a[l].rank
  BY <1>2, <1>4 DEF Answer
<1>6. /\ f \in [1..n -> 1..n]
      /\ \A k, l \in 1..n : f[k] = f[l] => k = l
      /\ \A k \in 1..n : \E l \in 1..n : f[l] = k
  BY <1>5 DEF Bijection, Injection, Surjection, IsInjective
<1>7. DOMAIN a = 1..n /\ \A k \in 1..n : f[k] \in 1..n /\ a[k] = r[f[k]] /\ a[k] \in Pair
  <2>1. \A k \in 1..n : f[k] \in 1..n /\ r[f[k]] \in Pair
    BY <1>3, <1>4, <1>6
  <2> QED BY <1>5, <2>1
<1>8. a \in Seq(Pair)
  <2>1. a \in [1..n -> Pair]
    BY <1>5, <1>7
  <2> QED BY <2>1, SeqDef
<1>9. query \in Queries /\ Querying
  BY <1>1 DEF QueryInv, Querying
<1>10. PICK K \in Nat : K = Len(indices) /\ DOMAIN indices = 1..K /\ curr_index - 1 = K
  <2>1. /\ Len(files) = Len(indices) /\ Len(files) \in Nat /\ DOMAIN indices = 1..Len(indices)
    BY <1>1, FilesAre DEF QueryInv
  <2>2. curr_index \in 1..(Len(files) + 1)
    BY <1>9 DEF Querying
  <2> QED BY <1>1, <2>1, <2>2
<1>11. PICK w : w = Len(query)
  OBVIOUS
<1>12. ResultsFor(r, K)
  BY <1>2, <1>9, <1>10 DEF Querying
<1>13. ASSUME NEW s
       PROVE  (\E k \in 1..n : a[k].doc = s) <=> s \in Ranked!Matches(query)
  <2>1. s \in Ranked!Matches(query) <=>
           \E l \in 1..K : \E d \in Docs(l) : s = Doc(l, d) /\ Has(l, d, w)
    BY <1>9, <1>10, <1>11, MatchesIs
  <2>2. s \in Ranked!Matches(query) <=> \E k \in 1..n : r[k].doc = s
    BY <1>4, <1>11, <1>12, <2>1 DEF ResultsFor
  <2>3. ASSUME NEW k \in 1..n, r[k].doc = s PROVE \E l \in 1..n : a[l].doc = s
    <3>1. PICK l \in 1..n : f[l] = k
      BY <1>6
    <3> QED BY <1>7, <2>3, <3>1
  <2>4. ASSUME NEW k \in 1..n, a[k].doc = s PROVE \E l \in 1..n : r[l].doc = s
    BY <1>7, <2>4
  <2> QED BY <2>2, <2>3, <2>4
<1>14. {a[k].doc : k \in DOMAIN a} = Ranked!Matches(query)
  <2>1. PICK M : M = Ranked!Matches(query)
    OBVIOUS
  <2> QED BY <1>7, <1>13, <2>1
<1>15. ASSUME NEW k \in 1..n, NEW l \in 1..n, k # l PROVE a[k].doc # a[l].doc
  <2>1. PICK p, q \in 1..n : p = f[k] /\ q = f[l]
    BY <1>7
  <2>2. p # q
    BY <1>6, <1>15, <2>1
  <2>3. r[p].doc # r[q].doc
    BY <1>4, <1>12, <2>2 DEF ResultsFor
  <2> QED BY <1>7, <2>1, <2>3
<1>16. ASSUME NEW k \in 1..n PROVE a[k].rank = Ranked!Rank(a[k].doc, query)
  <2>1. PICK p \in 1..n : p = f[k]
    BY <1>7
  <2>2. r[p].rank = Total(r[p].doc, w)
    BY <1>4, <1>11, <1>12 DEF ResultsFor
  <2>3. a[k] = r[p]
    BY <1>7, <2>1
  <2> QED BY <1>11, <2>2, <2>3 DEF Total, Ranked!Rank
<1>17. Ranked!IsRanking(a, query)
  BY <1>5, <1>7, <1>14, <1>15, <1>16 DEF Ranked!IsRanking
<1>18. a # NoAnswer
  BY <1>8, QueriesAssumption DEF Pair
<1>19. Count' = Count /\ AllShort'
  BY <1>1, QueryQuiet
<1>20. query # NoQuery
  BY <1>9, QueriesAssumption
<1>21. Ranked!Reply
  BY <1>1, <1>2, <1>17, <1>18, <1>19, <1>20 DEF Ranked!Reply
<1>22. QueryInv'
  <2>1. Len(files') = Len(indices')
    BY <1>1 DEF QueryInv
  <2> QED BY <1>1, <1>2, <1>8, <2>1 DEF QueryInv
<1> QED BY <1>21, <1>22

LEMMA QueryStart ==
    ASSUME FilesInv, AllShort, QueryInv, NEW q \in Queries, ProcessQuery(q)
    PROVE  Ranked!Ask(q) /\ QueryInv'
<1>1. /\ phase \in {"ready", "answered"} /\ phase' = "index" /\ query' = q
      /\ curr_index' = 1 /\ i' = 0 /\ final_result' = <<>> /\ UNCHANGED <<indices, files>>
  BY DEF ProcessQuery
<1>2. Len(files) = Len(indices) /\ Len(files) \in Nat
  BY <1>1, FilesAre DEF QueryInv
<1>3. Len(q) \in Nat
  BY QueryIs
<1>4. ResultsFor(<<>>, 0)'
  <2>1. DOMAIN <<>> = {}
    OBVIOUS
  <2>2. 1..0 = {}
    OBVIOUS
  <2> QED BY <2>1, <2>2 DEF ResultsFor
<1>5. 1 \in 1..(Len(files) + 1) /\ 0 \in 0..Len(q) /\ ~(0 > 0) /\ 1 - 1 = 0
  BY <1>2, <1>3
<1>6. ResultsFor(final_result, curr_index - 1)'
  BY <1>1, <1>4, <1>5
<1>7. Querying'
  BY <1>1, <1>5, <1>6 DEF Querying
<1>8. QueryInv'
  BY <1>1, <1>2, <1>7, EmptySeq DEF QueryInv
<1>9. Count' = Count /\ AllShort'
  BY <1>1 DEF Count, Names, AllShort
<1>10. query = NoQuery \/ (phase = "answered" /\ final_result # NoAnswer)
  BY <1>1, QueriesAssumption DEF QueryInv, Pair
<1> QED BY <1>1, <1>8, <1>9, <1>10 DEF Ranked!Ask

\* While files are written, and when nothing happens.
LEMMA QueryIdle ==
    ASSUME QueryInv, Build \/ BuildFails \/ Open \/ UNCHANGED vars
    PROVE  QueryInv' /\ UNCHANGED Ranked!vars
<1>1. UNCHANGED <<indices, query, final_result>>
  BY DEF Build, BuildFails, Open, vars
<1>2. Count' = Count /\ (AllShort' <=> AllShort)
  BY <1>1 DEF Count, Names, AllShort
<1>3. CASE Build \/ BuildFails \/ Open
  <2>1. phase = "build" /\ phase' \in {"build", "failed", "ready"}
    BY <1>3 DEF Build, BuildFails, Open
  <2>2. phase' = "ready" => Len(files') = Len(indices')
    BY <1>3 DEF Build, BuildFails, Open
  <2>3. QueryInv'
    BY <1>1, <2>1, <2>2 DEF QueryInv
  <2> QED BY <1>1, <1>2, <2>1, <2>3 DEF Ranked!vars
<1>4. CASE UNCHANGED vars
  <2>1. UNCHANGED <<indices, files, phase, query, curr_index, i, curr_index_result, final_result>>
    BY <1>4 DEF vars
  <2>2. Querying => Querying'
    <3> SUFFICES ASSUME Querying PROVE Querying'
      OBVIOUS
    <3>1. PICK m, k, n, r, p : /\ m = curr_index_result /\ k = curr_index /\ n = i
                               /\ r = final_result /\ p = curr_index - 1
      OBVIOUS
    <3>2. (n > 0 => PartialFor(m, k, n)) /\ ResultsFor(r, p)
      BY <3>1 DEF Querying
    <3>3. (n > 0 => PartialFor(m, k, n)') /\ ResultsFor(r, p)'
      BY <2>1, <3>2, PartialQuiet, ResultsQuiet
    <3>4. /\ (i > 0 => PartialFor(curr_index_result, curr_index, i))'
          /\ ResultsFor(final_result, curr_index - 1)'
      BY <2>1, <3>1, <3>3
    <3> QED BY <2>1, <3>4 DEF Querying
  <2>3. QueryInv'
    BY <2>1, <2>2 DEF QueryInv
  <2> QED BY <1>2, <2>1, <2>3 DEF Ranked!vars
<1> QED BY <1>3, <1>4

\* Every step is one of RankedSearch, or none of its business.
LEMMA RankedStep ==
    ASSUME FilesInv, AllShort, QueryInv, [Next]_vars
    PROVE  QueryInv' /\ [Ranked!Next]_(Ranked!vars)
<1>1. CASE Build \/ BuildFails \/ Open \/ UNCHANGED vars
  BY <1>1, QueryIdle
<1>2. ASSUME NEW q \in Queries, ProcessQuery(q) PROVE QueryInv' /\ [Ranked!Next]_(Ranked!vars)
  BY <1>2, QueryStart DEF Ranked!Next
<1>3. CASE NoSuchWord \/ FirstWord \/ NextWord \/ IndexDone
  <2>1. QueryInv'
    BY <1>3, QueryNoSuchWord, QueryFirstWord, QueryNextWord, QueryIndexDone
  <2>2. UNCHANGED <<indices, query, phase>> /\ phase = "index"
    BY <1>3 DEF NoSuchWord, FirstWord, NextWord, IndexDone, Working
  <2>3. Count' = Count /\ (AllShort' <=> AllShort)
    BY <2>2, QueryQuiet
  <2> QED BY <2>1, <2>2, <2>3 DEF Ranked!vars
<1>4. CASE Answer
  BY <1>4, AnswerIs DEF Ranked!Next
<1>5. CASE Failed
  BY <1>5, QueryIdle DEF Failed
<1> QED BY <1>1, <1>2, <1>3, <1>4, <1>5 DEF Next, QueryStep

\* The indices stay what they are, and if words of theirs are cut off nothing is said.
LEMMA IndicesStay ==
    ASSUME [Next]_vars
    PROVE  Count' = Count /\ (AllShort' <=> AllShort)
<1>1. indices' = indices
  BY DEF Next, vars, Build, BuildFails, Failed, Open, QueryStep, NoSuchWord, FirstWord, NextWord,
         IndexDone, Answer, ProcessQuery
<1> QED BY <1>1 DEF Count, Names, AllShort

\* Whatever QueryProcessor answers, for any query and any indices, in tables of any size
\* each, whose words have less than 32768 letters: the documents of each of its index
\* files that contain every word, once for each index they are in, with the rank they
\* have there, best first.  That it answers is left to the runs.
THEOREM QueriesAreRankings == Spec => Ranked!Safety
<1> DEFINE I == AllShort => QueryInv
<1>1. Init => I /\ Ranked!Init
  <2>1. Init => Ranked!Init
    BY DEF Init, Ranked!Init
  <2> QED BY <2>1, QueryInit
<1>2. FilesInv /\ I /\ [Next]_vars => I' /\ [Ranked!Next]_(Ranked!vars)
  <2> SUFFICES ASSUME FilesInv, I, [Next]_vars PROVE I' /\ [Ranked!Next]_(Ranked!vars)
    OBVIOUS
  <2>1. Count' = Count /\ (AllShort' <=> AllShort)
    BY IndicesStay
  <2>2. CASE AllShort
    BY <2>2, RankedStep
  <2>3. CASE ~AllShort
    BY <2>1, <2>3 DEF Ranked!vars
  <2> QED BY <2>2, <2>3
<1> QED BY FilesHold, <1>1, <1>2, PTL DEF Spec, Ranked!Safety

-----------------------------------------------------------------------------
(***************************************************************************)
(* IndexFile: how the file gets on disk, for every number of pieces.       *)
(***************************************************************************)
\* The places after the tables were read back, short of a kill.
Summed == {"header", "sync", "close", "returned", "aborted"}

\* What the buffer may hold and how far the pieces have come.
BufferInv ==
    /\ buffer \subseteq (1..written) \cup {Header}
    /\ Header \in buffer => pc \in {"sync", "close"}
    /\ pc \in {"open", "tables"} => written < NumPieces
    /\ pc = "checksum" => written = NumPieces
    /\ pc \in {"open", "tables", "checksum"} /\ machine = "up" =>
          1..written \subseteq visible \cup buffer

\* The file: its name, the checksum and the tables are there before the header is.
FileInv ==
    /\ pc \in (WriterWorks \ {"open"}) \cup {"returned", "aborted"} => exists
    /\ pc = "open" => ~exists
    /\ pc = "failed" /\ machine = "up" => ~exists
    /\ pc \in Summed => crc = Pieces /\ written = NumPieces
    /\ pc \in Summed /\ machine = "up" => Pieces \subseteq visible

\* The disk: the header leaves the buffer after fsync has seen to the tables.
DiskInv ==
    /\ Header \in visible => pc \in {"returned", "aborted"}
    /\ pc \in {"close", "returned"} => Pieces \subseteq disk

WriterInv == TypeOK /\ BufferInv /\ FileInv /\ DiskInv

-----------------------------------------------------------------------------
\* Nothing is written at first.
LEMMA WriterInvInit == WriterInit => WriterInv
<1> SUFFICES ASSUME WriterInit PROVE WriterInv
  OBVIOUS
<1> USE IndexFileAssumption DEF WriterInit, WriterWorks, Summed
<1>1. TypeOK
  <2>1. 0 \in 0..NumPieces
    OBVIOUS
  <2> QED
    BY <2>1 DEF TypeOK, WriterPC
<1>2. BufferInv
  BY DEF BufferInv
<1>3. FileInv
  BY DEF FileInv
<1>4. DiskInv
  BY DEF DiskInv
<1> QED
  BY <1>1, <1>2, <1>3, <1>4 DEF WriterInv

\* Every step of WriteIndex, of the kernel and of the world keeps the invariant.
LEMMA WriterInvStep == WriterInv /\ [WriterNext]_writerVars => WriterInv'
<1> SUFFICES ASSUME WriterInv, [WriterNext]_writerVars PROVE WriterInv'
  OBVIOUS
<1> USE IndexFileAssumption
     DEF WriterInv, TypeOK, BufferInv, FileInv, DiskInv, WriterPC, WriterWorks, Summed, Pieces,
         Header, WriterAt
<1>1. CASE OpenFile
  <2>1. TypeOK'
    BY <1>1 DEF OpenFile
  <2>2. BufferInv'
    BY <1>1 DEF OpenFile
  <2>3. FileInv'
    BY <1>1 DEF OpenFile
  <2>4. DiskInv'
    BY <1>1 DEF OpenFile
  <2> QED
    BY <2>1, <2>2, <2>3, <2>4
<1>2. CASE WritePiece
  BY <1>2 DEF WritePiece, SeekAndWrite
<1>3. CASE ReadBack
  BY <1>3 DEF ReadBack
<1>4. CASE WriteHeader
  BY <1>4 DEF WriteHeader, SeekAndWrite
<1>5. CASE Fail
  BY <1>5 DEF Fail
<1>6. CASE Sync
  BY <1>6 DEF Sync
<1>7. CASE SyncFails
  BY <1>7 DEF SyncFails
<1>8. CASE Close
  BY <1>8 DEF Close
<1>9. CASE WriteBack
  BY <1>9 DEF WriteBack
<1>10. CASE Kill
  BY <1>10 DEF Kill
<1>11. CASE Stop
  BY <1>11 DEF Stop
<1>12. CASE Over
  BY <1>12 DEF Over, writerVars
<1>13. CASE UNCHANGED writerVars
  BY <1>13 DEF writerVars
<1> QED
  BY <1>1, <1>2, <1>3, <1>4, <1>5, <1>6, <1>7, <1>8, <1>9, <1>10, <1>11, <1>12, <1>13 DEF WriterNext

-----------------------------------------------------------------------------
\* The invariant holds throughout every execution.
THEOREM WriterInvariance == WriterSpec => []WriterInv
BY WriterInvInit, WriterInvStep, PTL DEF WriterSpec

\* Type correctness: the disk never holds what is not in the file.
THEOREM WriterTypes == WriterSpec => []TypeOK
<1>1. WriterInv => TypeOK
  BY IndexFileAssumption DEF WriterInv
<1> QED
  BY <1>1, WriterInvariance, PTL

\* As long as fsync succeeds, the tables are on disk before the magic number can be.
THEOREM HeaderComesLast == WriterSpec => []HeaderLast
<1>1. WriterInv => HeaderLast
  BY IndexFileAssumption DEF WriterInv, TypeOK, BufferInv, FileInv, DiskInv, Summed, Pieces, Header,
     HeaderLast, WriterWorks
<1> QED
  BY <1>1, WriterInvariance, PTL

\* A checksum that matches vouches for every piece, and WriteIndex writes one that matches.
THEOREM ChecksumVouches == WriterSpec => []CheckedIndexIsComplete
<1>1. ASSUME WriterInv, Header \in visible
      PROVE  /\ crc = Pieces /\ exists
             /\ pc = "returned" => visible \ {Header} = Pieces /\ EndPiece \in visible
  <2>1. pc \in {"returned", "aborted"} /\ crc = Pieces /\ exists
    BY <1>1 DEF WriterInv, DiskInv, FileInv, Summed
  <2>2. pc = "returned" => Pieces \subseteq visible
    BY <1>1 DEF WriterInv, DiskInv, TypeOK
  <2>3. visible \subseteq Pieces \cup {Header}
    BY <1>1, <2>1 DEF WriterInv, TypeOK, FileInv, Summed, Pieces
  <2>4. EndPiece \in Pieces /\ Header \notin Pieces
    BY IndexFileAssumption DEF Pieces, Header
  <2> QED
    BY <2>1, <2>2, <2>3, <2>4
<1>2. WriterInv => CheckedIndexIsComplete
  BY <1>1 DEF CheckedIndexIsComplete, Accepts
<1> QED
  BY <1>2, WriterInvariance, PTL

\* A WriteIndex that fails takes its file with it.
THEOREM FailureUnlinks == WriterSpec => []FailureLeavesNothing
<1>1. WriterInv => FailureLeavesNothing
  BY IndexFileAssumption DEF WriterInv, TypeOK, BufferInv, FileInv, DiskInv, Summed, Pieces, Header, FailureLeavesNothing
<1> QED
  BY <1>1, WriterInvariance, PTL
=============================================================================
