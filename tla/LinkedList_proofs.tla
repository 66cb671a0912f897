-------------------------- MODULE LinkedList_proofs --------------------------
(***************************************************************************)
(* The links of the list, for any number of nodes: insertion and removal   *)
(* keep them, and LinkedList_Free frees exactly the nodes of the list.     *)
(***************************************************************************)
EXTENDS LinkedList, SequenceTheorems, WellFoundedInduction, TLAPS

Elems(o) == {o[i] : i \in 1..Len(o)}

Links == Addrs \cup {NULL, Undefined}

\* The addresses of o are linked by nx and pv, from h to t; no other node is allocated.
Linked(o, h, t, nx, pv) ==
    /\ o \in Seq(Addrs)
    /\ \A i, j \in 1..Len(o) : o[i] = o[j] => i = j
    /\ h = IF Len(o) = 0 THEN NULL ELSE o[1]
    /\ t = IF Len(o) = 0 THEN NULL ELSE o[Len(o)]
    /\ nx \in [Addrs -> Links] /\ pv \in [Addrs -> Links]
    /\ \A i \in 1..Len(o) : nx[o[i]] = IF i = Len(o) THEN NULL ELSE o[i + 1]
    /\ \A i \in 1..Len(o) : pv[o[i]] = IF i = 1 THEN NULL ELSE o[i - 1]
    /\ \A a \in Addrs \ Elems(o) : nx[a] = Undefined /\ pv[a] = Undefined

USE ListAssumption

-----------------------------------------------------------------------------
\* What Push and Append do to place the node a at k: p is o with it, and the links of
\* the neighbours lead to a.
Inserts(o, h, t, nx, pv, a, k, p, h2, t2, nx2, pv2) ==
    /\ p \in Seq(Addrs) /\ Len(p) = Len(o) + 1
    /\ \A i \in 1..Len(o) : i < k => p[i] = o[i]
    /\ \A i \in 1..Len(o) : i >= k => p[i + 1] = o[i]
    /\ p[k] = a
    /\ nx2 \in [Addrs -> Links] /\ pv2 \in [Addrs -> Links]
    /\ nx2[a] = IF k = Len(o) + 1 THEN NULL ELSE o[k]
    /\ pv2[a] = IF k = 1 THEN NULL ELSE o[k - 1]
    /\ k > 1 => nx2[o[k - 1]] = a
    /\ k <= Len(o) => pv2[o[k]] = a
    /\ \A b \in Addrs : b # a /\ (k > 1 => b # o[k - 1]) => nx2[b] = nx[b]
    /\ \A b \in Addrs : b # a /\ (k <= Len(o) => b # o[k]) => pv2[b] = pv[b]
    /\ h2 = IF k = 1 THEN a ELSE h
    /\ t2 = IF k = Len(o) + 1 THEN a ELSE t

LEMMA InsertLinks ==
    ASSUME NEW o, NEW h, NEW t, NEW nx, NEW pv, Linked(o, h, t, nx, pv),
           NEW a \in Addrs \ Elems(o), NEW k \in 1..(Len(o) + 1),
           NEW p, NEW h2, NEW t2, NEW nx2, NEW pv2,
           Inserts(o, h, t, nx, pv, a, k, p, h2, t2, nx2, pv2)
    PROVE  Linked(p, h2, t2, nx2, pv2) /\ Elems(p) = Elems(o) \cup {a}
<1> USE DEF Inserts
<1>1. /\ o \in Seq(Addrs) /\ Len(o) \in Nat /\ k \in Nat /\ Len(p) \in Nat
      /\ \A i \in 1..Len(o) : o[i] \in Addrs /\ o[i] # a
  BY DEF Linked, Elems
<1>2. \A i \in 1..Len(p) : i < k => i \in 1..Len(o) /\ p[i] = o[i]
  BY <1>1
<1>3. ASSUME NEW i \in 1..Len(p), i > k PROVE i - 1 \in 1..Len(o) /\ p[i] = o[i - 1]
  <2>1. i - 1 \in 1..Len(o) /\ i - 1 >= k /\ (i - 1) + 1 = i
    BY <1>1, <1>3
  <2> QED BY <2>1
<1>4. \A i \in 1..Len(p) : i < k \/ i = k \/ i > k
  BY <1>1
<1>5. Elems(p) = Elems(o) \cup {a}
  <2>1. ASSUME NEW i \in 1..Len(p) PROVE p[i] \in Elems(o) \cup {a}
    BY <1>2, <1>3, <1>4 DEF Elems
  <2>2. ASSUME NEW i \in 1..Len(o) PROVE o[i] \in Elems(p)
    <3>1. i < k => i \in 1..Len(p) /\ p[i] = o[i]
      BY <1>1
    <3>2. i >= k => i + 1 \in 1..Len(p) /\ p[i + 1] = o[i]
      BY <1>1
    <3>3. i < k \/ i >= k
      BY <1>1
    <3> QED BY <3>1, <3>2, <3>3 DEF Elems
  <2>3. a \in Elems(p)
    <3>1. k \in 1..Len(p)
      OBVIOUS
    <3> QED BY <3>1 DEF Elems
  <2>4. Elems(p) \subseteq Elems(o) \cup {a}
    BY <2>1 DEF Elems
  <2>5. Elems(o) \subseteq Elems(p)
    BY <2>2 DEF Elems
  <2> QED BY <2>3, <2>4, <2>5
<1>6. ASSUME NEW i \in 1..Len(p), NEW j \in 1..Len(p), p[i] = p[j] PROVE i = j
  <2> DEFINE Was(x) == IF x < k THEN x ELSE x - 1
  <2>1. \A x \in 1..Len(p) : x # k => Was(x) \in 1..Len(o) /\ p[x] = o[Was(x)]
    BY <1>2, <1>3, <1>4
  <2>2. \A x, y \in 1..Len(p) : x # k /\ y # k /\ Was(x) = Was(y) => x = y
    BY <1>1
  <2> HIDE DEF Was
  <2>3. CASE i = k
    BY <1>1, <1>6, <2>1, <2>3
  <2>4. CASE j = k
    BY <1>1, <1>6, <2>1, <2>4
  <2>5. CASE i # k /\ j # k
    <3>1. /\ Was(i) \in 1..Len(o) /\ Was(j) \in 1..Len(o)
          /\ o[Was(i)] = o[Was(j)]
      BY <1>6, <2>1, <2>5
    <3>2. Was(i) = Was(j)
      BY <3>1 DEF Linked
    <3> QED BY <2>2, <2>5, <3>2
  <2> QED BY <2>3, <2>4, <2>5
<1>7. ASSUME NEW i \in 1..Len(p) PROVE nx2[p[i]] = IF i = Len(p) THEN NULL ELSE p[i + 1]
  <2>1. CASE i = k
    <3>1. k # Len(o) + 1 => k \in 1..Len(o) /\ k >= k /\ p[k + 1] = o[k]
      BY <1>1
    <3> QED BY <1>1, <2>1, <3>1
  <2>2. CASE i < k /\ i = k - 1
    <3>1. i # Len(p) /\ k > 1 /\ i + 1 = k /\ p[i] = o[k - 1]
      BY <1>1, <1>2, <2>2
    <3> QED BY <3>1
  <2>3. CASE i < k /\ i # k - 1
    <3>1. /\ i # Len(p) /\ i # Len(o) /\ i + 1 < k /\ i + 1 \in 1..Len(p) /\ i \in 1..Len(o)
          /\ k > 1 /\ k - 1 \in 1..Len(o)
      BY <1>1, <2>3
    <3>2. p[i] = o[i] /\ p[i + 1] = o[i + 1]
      BY <1>2, <2>3, <3>1
    <3>3. o[i] # a /\ o[i] # o[k - 1] /\ o[i] \in Addrs
      BY <1>1, <2>3, <3>1 DEF Linked
    <3>4. nx2[o[i]] = nx[o[i]] /\ nx[o[i]] = o[i + 1]
      BY <3>1, <3>3 DEF Linked
    <3> QED BY <3>1, <3>2, <3>4
  <2>4. CASE i > k
    <3>1. i - 1 \in 1..Len(o) /\ p[i] = o[i - 1] /\ o[i - 1] \in Addrs /\ o[i - 1] # a
      BY <1>1, <1>3, <2>4
    <3>2. k > 1 => o[i - 1] # o[k - 1]
      <4>1. k > 1 => k - 1 \in 1..Len(o) /\ k - 1 # i - 1
        BY <1>1, <2>4
      <4> QED BY <3>1, <4>1 DEF Linked
    <3>3. nx2[p[i]] = nx[o[i - 1]]
      BY <3>1, <3>2
    <3>4. nx[o[i - 1]] = IF i - 1 = Len(o) THEN NULL ELSE o[(i - 1) + 1]
      BY <3>1 DEF Linked
    <3>5. i # Len(p) => p[i + 1] = o[i]
      <4>1. Len(p) = Len(o) + 1 /\ Len(o) \in Nat /\ k \in Nat
        BY <1>1
      <4>2. i # Len(p) => i \in 1..Len(o) /\ i >= k
        <5> HIDE DEF Inserts
        <5> QED BY <2>4, <4>1
      <4> QED BY <4>2
    <3>6. (i = Len(p) <=> i - 1 = Len(o)) /\ (i - 1) + 1 = i
      <4>1. Len(p) = Len(o) + 1 /\ Len(o) \in Nat
        BY <1>1
      <4> HIDE DEF Inserts
      <4> QED BY <4>1
    <3> HIDE DEF Inserts
    <3> QED BY <3>3, <3>4, <3>5, <3>6
  <2> QED BY <1>4, <2>1, <2>2, <2>3, <2>4
<1>8. ASSUME NEW i \in 1..Len(p) PROVE pv2[p[i]] = IF i = 1 THEN NULL ELSE p[i - 1]
  <2>1. CASE i = k
    <3>1. k # 1 => k - 1 \in 1..Len(p) /\ k - 1 < k /\ p[k - 1] = o[k - 1]
      BY <1>1, <1>2
    <3> QED BY <2>1, <3>1
  <2>2. CASE i < k
    <3>1. i \in 1..Len(o) /\ p[i] = o[i] /\ o[i] \in Addrs /\ o[i] # a
      BY <1>1, <1>2, <2>2
    <3>2. k <= Len(o) => o[i] # o[k]
      <4>1. k <= Len(o) => k \in 1..Len(o) /\ k # i
        BY <1>1, <2>2
      <4> QED BY <3>1, <4>1 DEF Linked
    <3>3. pv2[p[i]] = pv[o[i]]
      BY <3>1, <3>2
    <3>4. pv[o[i]] = IF i = 1 THEN NULL ELSE o[i - 1]
      BY <3>1 DEF Linked
    <3>5. i # 1 => i - 1 \in 1..Len(p) /\ i - 1 < k /\ p[i - 1] = o[i - 1]
      <4>1. i # 1 => i - 1 \in 1..Len(p) /\ i - 1 < k
        BY <1>1, <2>2
      <4> QED BY <1>2, <4>1
    <3> QED BY <3>3, <3>4, <3>5
  <2>3. CASE i > k /\ i = k + 1
    <3>1. k \in 1..Len(o) /\ p[i] = o[k] /\ i # 1 /\ i - 1 = k /\ k <= Len(o)
      BY <1>1, <1>3, <2>3
    <3> QED BY <3>1
  <2>4. CASE i > k /\ i # k + 1
    <3>1. /\ i - 1 \in 1..Len(o) /\ i - 2 \in 1..Len(o) /\ i - 2 >= k /\ (i - 2) + 1 = i - 1
          /\ i # 1 /\ i - 1 # 1 /\ k \in 1..Len(o) /\ k # i - 1
      BY <1>1, <2>4
    <3>2. p[i] = o[i - 1] /\ p[i - 1] = o[i - 2]
      BY <1>3, <2>4, <3>1
    <3>3. o[i - 1] # a /\ o[i - 1] # o[k] /\ o[i - 1] \in Addrs
      BY <1>1, <3>1 DEF Linked
    <3>4. pv2[o[i - 1]] = pv[o[i - 1]]
      BY <3>3
    <3>5. pv[o[i - 1]] = o[(i - 1) - 1]
      BY <3>1 DEF Linked
    <3> QED BY <3>1, <3>2, <3>4, <3>5
  <2> QED BY <1>4, <2>1, <2>2, <2>3, <2>4
<1>9. ASSUME NEW b \in Addrs \ Elems(p) PROVE nx2[b] = Undefined /\ pv2[b] = Undefined
  <2>1. b \notin Elems(o) /\ b # a
    BY <1>5
  <2>2. \A i \in 1..Len(o) : b # o[i]
    BY <2>1 DEF Elems
  <2>3. (k > 1 => k - 1 \in 1..Len(o)) /\ (k <= Len(o) => k \in 1..Len(o))
    BY <1>1
  <2>4. nx2[b] = nx[b] /\ pv2[b] = pv[b]
    BY <2>1, <2>2, <2>3
  <2> QED BY <2>1, <2>4 DEF Linked
<1>10. h2 = p[1] /\ t2 = p[Len(p)] /\ Len(p) # 0
  <2>1. (k = 1 => h2 = p[1]) /\ (k = Len(o) + 1 => t2 = p[Len(p)])
    OBVIOUS
  <2>2. k # 1 => h2 = p[1]
    <3>1. k # 1 => 1 \in 1..Len(o) /\ 1 < k
      BY <1>1
    <3> QED BY <1>1, <3>1 DEF Linked
  <2>3. k # Len(o) + 1 => t2 = p[Len(p)]
    <3>1. k # Len(o) + 1 => Len(o) \in 1..Len(o) /\ Len(o) >= k
      BY <1>1
    <3> QED BY <1>1, <3>1 DEF Linked
  <2> QED BY <1>1, <2>1, <2>2, <2>3
<1> QED BY <1>5, <1>6, <1>7, <1>8, <1>9, <1>10 DEF Linked

\* What Pop, Slice and LLIterator_Remove do to the node at place k of o: p is o
\* without it, and the neighbours are linked to each other.
Unlinks(o, h, t, nx, pv, k, p, h2, t2, nx2, pv2) ==
    /\ p \in Seq(Addrs) /\ Len(p) = Len(o) - 1
    /\ \A i \in 1..Len(p) : i < k => p[i] = o[i]
    /\ \A i \in 1..Len(p) : i >= k => p[i] = o[i + 1]
    /\ nx2 \in [Addrs -> Links] /\ pv2 \in [Addrs -> Links]
    /\ nx2[o[k]] = Undefined /\ pv2[o[k]] = Undefined
    /\ k > 1 => nx2[o[k - 1]] = nx[o[k]]
    /\ k < Len(o) => pv2[o[k + 1]] = pv[o[k]]
    /\ \A b \in Addrs : b # o[k] /\ (k > 1 => b # o[k - 1]) => nx2[b] = nx[b]
    /\ \A b \in Addrs : b # o[k] /\ (k < Len(o) => b # o[k + 1]) => pv2[b] = pv[b]
    /\ h2 = IF k = 1 THEN nx[o[k]] ELSE h
    /\ t2 = IF k = Len(o) THEN pv[o[k]] ELSE t

LEMMA RemoveLinks ==
    ASSUME NEW o, NEW h, NEW t, NEW nx, NEW pv, Linked(o, h, t, nx, pv),
           NEW k \in 1..Len(o), NEW p, NEW h2, NEW t2, NEW nx2, NEW pv2,
           Unlinks(o, h, t, nx, pv, k, p, h2, t2, nx2, pv2)
    PROVE  Linked(p, h2, t2, nx2, pv2) /\ Elems(p) = Elems(o) \ {o[k]}
<1> USE DEF Unlinks
<1>1. /\ o \in Seq(Addrs) /\ Len(o) \in Nat /\ k \in Nat /\ Len(p) \in Nat
      /\ \A i \in 1..Len(o) : o[i] \in Addrs
      /\ \A i, j \in 1..Len(o) : o[i] = o[j] => i = j
  BY DEF Linked
<1> DEFINE Was(x) == IF x < k THEN x ELSE x + 1
<1>2. \A x \in 1..Len(p) : Was(x) \in 1..Len(o) /\ Was(x) # k /\ p[x] = o[Was(x)]
  <2> SUFFICES ASSUME NEW x \in 1..Len(p)
               PROVE  Was(x) \in 1..Len(o) /\ Was(x) # k /\ p[x] = o[Was(x)]
    OBVIOUS
  <2>1. CASE x < k
    BY <1>1, <2>1
  <2>2. CASE ~(x < k)
    <3>1. x >= k /\ Was(x) = x + 1
      BY <1>1, <2>2
    <3> QED BY <1>1, <3>1
  <2> QED BY <2>1, <2>2
<1>3. \A x, y \in 1..Len(p) : Was(x) = Was(y) => x = y
  BY <1>1
<1>4. \A y \in 1..Len(o) : y # k => \E x \in 1..Len(p) : Was(x) = y
  <2> SUFFICES ASSUME NEW y \in 1..Len(o), y # k PROVE \E x \in 1..Len(p) : Was(x) = y
    OBVIOUS
  <2>1. CASE y < k
    <3>1. y \in 1..Len(p) /\ Was(y) = y
      BY <1>1, <2>1
    <3> QED BY <3>1
  <2>2. CASE ~(y < k)
    <3>1. y - 1 \in 1..Len(p) /\ Was(y - 1) = y
      BY <1>1, <2>2
    <3> QED BY <3>1
  <2> QED BY <2>1, <2>2
<1>5. Elems(p) = Elems(o) \ {o[k]}
  <2> HIDE DEF Was
  <2>1. ASSUME NEW x \in 1..Len(p) PROVE p[x] \in Elems(o) \ {o[k]}
    BY <1>1, <1>2 DEF Elems
  <2>2. ASSUME NEW y \in 1..Len(o), o[y] # o[k] PROVE o[y] \in Elems(p)
    <3>1. PICK x \in 1..Len(p) : Was(x) = y
      BY <1>4, <2>2
    <3>2. p[x] = o[y]
      BY <1>2, <3>1
    <3> QED BY <3>2 DEF Elems
  <2>3. Elems(p) \subseteq Elems(o) \ {o[k]}
    BY <2>1 DEF Elems
  <2>4. Elems(o) \ {o[k]} \subseteq Elems(p)
    BY <2>2 DEF Elems
  <2> QED BY <2>3, <2>4
<1>6. ASSUME NEW i \in 1..Len(p), NEW j \in 1..Len(p), p[i] = p[j] PROVE i = j
  <2> HIDE DEF Was
  <2> QED BY <1>1, <1>2, <1>3, <1>6
<1> HIDE DEF Was
<1>7. ASSUME NEW i \in 1..Len(p) PROVE nx2[p[i]] = IF i = Len(p) THEN NULL ELSE p[i + 1]
  <2>1. CASE i = k - 1
    <3>1. k > 1 /\ i < k /\ p[i] = o[k - 1] /\ (i = Len(p) <=> k = Len(o))
      BY <1>1, <2>1
    <3>2. i # Len(p) => i + 1 \in 1..Len(p) /\ i + 1 >= k /\ i + 1 = k
      BY <1>1, <2>1
    <3>3. nx[o[k]] = IF k = Len(o) THEN NULL ELSE o[k + 1]
      BY DEF Linked
    <3> QED BY <3>1, <3>2, <3>3
  <2>2. CASE i < k - 1
    <3>1. /\ i \in 1..Len(o) /\ i + 1 \in 1..Len(p) /\ i < k /\ i + 1 < k /\ i # Len(p)
          /\ i # Len(o) /\ k - 1 \in 1..Len(o) /\ i # k /\ i # k - 1 /\ k > 1
      BY <1>1, <2>2
    <3>2. p[i] = o[i] /\ p[i + 1] = o[i + 1]
      BY <3>1
    <3>3. o[i] \in Addrs /\ o[i] # o[k] /\ o[i] # o[k - 1]
      BY <1>1, <3>1
    <3>4. nx2[o[i]] = nx[o[i]] /\ nx[o[i]] = o[i + 1]
      BY <3>1, <3>3 DEF Linked
    <3> QED BY <3>1, <3>2, <3>4
  <2>3. CASE i >= k
    <3>1. /\ i + 1 \in 1..Len(o) /\ i + 1 # k /\ i + 1 # k - 1
          /\ (i = Len(p) <=> i + 1 = Len(o)) /\ (k > 1 => k - 1 \in 1..Len(o))
      <4>1. Len(p) = Len(o) - 1 /\ Len(o) \in Nat /\ k \in 1..Len(o)
        BY <1>1
      <4> HIDE DEF Unlinks
      <4> QED BY <2>3, <4>1
    <3>2. p[i] = o[i + 1]
      BY <2>3
    <3>3. o[i + 1] \in Addrs /\ o[i + 1] # o[k] /\ (k > 1 => o[i + 1] # o[k - 1])
      BY <1>1, <3>1
    <3>4. nx2[o[i + 1]] = IF i + 1 = Len(o) THEN NULL ELSE o[(i + 1) + 1]
      BY <3>1, <3>3 DEF Linked
    <3>5. i # Len(p) => p[i + 1] = o[(i + 1) + 1]
      <4>1. i # Len(p) => i + 1 \in 1..Len(p) /\ i + 1 >= k
        BY <1>1, <2>3
      <4> QED BY <4>1
    <3> QED BY <3>1, <3>2, <3>4, <3>5
  <2>4. i = k - 1 \/ i < k - 1 \/ i >= k
    BY <1>1
  <2> QED BY <2>1, <2>2, <2>3, <2>4
<1>8. ASSUME NEW i \in 1..Len(p) PROVE pv2[p[i]] = IF i = 1 THEN NULL ELSE p[i - 1]
  <2>1. CASE i = k
    <3>1. k < Len(o) /\ p[i] = o[k + 1]
      BY <1>1, <2>1
    <3>2. pv[o[k]] = IF k = 1 THEN NULL ELSE o[k - 1]
      BY DEF Linked
    <3>3. k # 1 => p[k - 1] = o[k - 1]
      <4>1. k # 1 => k - 1 \in 1..Len(p) /\ k - 1 < k
        BY <1>1
      <4> QED BY <4>1
    <3> QED BY <2>1, <3>1, <3>2, <3>3
  <2>2. CASE i < k
    <3>1. /\ i \in 1..Len(o) /\ i # k /\ (k < Len(o) => k + 1 \in 1..Len(o) /\ i # k + 1)
          /\ (i # 1 => i - 1 \in 1..Len(p) /\ i - 1 < k)
      BY <1>1, <2>2
    <3>2. p[i] = o[i] /\ (i # 1 => p[i - 1] = o[i - 1])
      BY <2>2, <3>1
    <3>3. o[i] \in Addrs /\ o[i] # o[k] /\ (k < Len(o) => o[i] # o[k + 1])
      BY <1>1, <3>1
    <3>4. pv2[o[i]] = IF i = 1 THEN NULL ELSE o[i - 1]
      BY <3>1, <3>3 DEF Linked
    <3> QED BY <3>2, <3>4
  <2>3. CASE i > k
    <3>1. /\ i + 1 \in 1..Len(o) /\ i + 1 # k /\ i + 1 # k + 1 /\ i + 1 # 1 /\ i # 1
          /\ (k < Len(o) => k + 1 \in 1..Len(o))
          /\ i - 1 \in 1..Len(p) /\ i - 1 >= k /\ (i - 1) + 1 = i /\ (i + 1) - 1 = i
      BY <1>1, <2>3
    <3>2. p[i] = o[i + 1]
      BY <1>1, <2>3
    <3>3. p[i - 1] = o[i]
      BY <3>1
    <3>4. o[i + 1] \in Addrs /\ o[i + 1] # o[k] /\ (k < Len(o) => o[i + 1] # o[k + 1])
      BY <1>1, <3>1
    <3>5. pv2[o[i + 1]] = o[i]
      BY <3>1, <3>4 DEF Linked
    <3> QED BY <3>1, <3>2, <3>3, <3>5
  <2>4. i = k \/ i < k \/ i > k
    BY <1>1
  <2> QED BY <2>1, <2>2, <2>3, <2>4
<1>9. ASSUME NEW b \in Addrs \ Elems(p) PROVE nx2[b] = Undefined /\ pv2[b] = Undefined
  <2>1. CASE b = o[k]
    BY <2>1
  <2>2. CASE b # o[k]
    <3>1. b \notin Elems(o)
      BY <1>5, <2>2
    <3>2. \A i \in 1..Len(o) : b # o[i]
      BY <3>1 DEF Elems
    <3>3. (k > 1 => k - 1 \in 1..Len(o)) /\ (k < Len(o) => k + 1 \in 1..Len(o))
      BY <1>1
    <3>4. nx2[b] = nx[b] /\ pv2[b] = pv[b]
      BY <2>2, <3>2, <3>3
    <3> QED BY <3>1, <3>4 DEF Linked
  <2> QED BY <2>1, <2>2
<1>10. h2 = IF Len(p) = 0 THEN NULL ELSE p[1]
  <2>1. CASE k = 1
    <3>1. nx[o[k]] = IF k = Len(o) THEN NULL ELSE o[k + 1]
      BY DEF Linked
    <3>2. Len(p) # 0 => 1 \in 1..Len(p) /\ 1 >= k /\ k # Len(o)
      BY <1>1, <2>1
    <3>3. Len(p) = 0 => k = Len(o)
      BY <1>1, <2>1
    <3> QED BY <2>1, <3>1, <3>2, <3>3
  <2>2. CASE k # 1
    <3>1. Len(p) # 0 /\ 1 \in 1..Len(p) /\ 1 < k /\ Len(o) # 0
      BY <1>1, <2>2
    <3> QED BY <2>2, <3>1 DEF Linked
  <2> QED BY <2>1, <2>2
<1>11. t2 = IF Len(p) = 0 THEN NULL ELSE p[Len(p)]
  <2>1. CASE k = Len(o)
    <3>1. pv[o[k]] = IF k = 1 THEN NULL ELSE o[k - 1]
      BY DEF Linked
    <3>2. /\ Len(p) # 0 => Len(p) \in 1..Len(p) /\ Len(p) < k /\ k # 1
          /\ Len(p) = 0 => k = 1
          /\ Len(p) = k - 1
      BY <1>1, <2>1
    <3> QED BY <2>1, <3>1, <3>2
  <2>2. CASE k # Len(o)
    <3>1. /\ Len(p) # 0 /\ Len(p) \in 1..Len(p) /\ Len(p) >= k /\ Len(o) # 0
          /\ Len(p) + 1 = Len(o)
      BY <1>1, <2>2
    <3>2. p[Len(p)] = o[Len(o)]
      BY <3>1
    <3> QED BY <2>2, <3>1, <3>2 DEF Linked
  <2> QED BY <2>1, <2>2
<1> QED BY <1>5, <1>6, <1>7, <1>8, <1>9, <1>10, <1>11 DEF Linked

-----------------------------------------------------------------------------
\* A set of natural numbers has a least element: induction, for the provers at hand.
LEMMA LeastElement ==
    ASSUME NEW T, T \subseteq Nat, T # {}
    PROVE  \E x \in T : \A y \in T : x <= y
<1> DEFINE R == OpToRel(<, Nat)
<1>1. IsWellFoundedOn(R, Nat)
  BY NatLessThanWellFounded
<1>2. \A x, y \in Nat : y < x => <<y, x>> \in R
  BY DEF OpToRel
<1> HIDE DEF R
<1>3. PICK x \in T : \A y \in T : ~(<<y, x>> \in R)
  BY <1>1, WFMin
<1>4. ASSUME NEW y \in T PROVE x <= y
  <2>1. x \in Nat /\ y \in Nat
    OBVIOUS
  <2>2. ~(y < x)
    BY <1>2, <1>3, <2>1
  <2> QED BY <2>1, <2>2
<1> QED BY <1>4

\* Closed under next from head, as in Swept.
Closed(T) == /\ head \in T \cup {NULL}
             /\ \A a \in T : next[a] \in T \cup {NULL}

\* Following next from head one meets the nodes of the list and no others.
LEMMA SweptIsList ==
    ASSUME Linked(order, head, tail, next, prev)
    PROVE  Swept = Elems(order)
<1> DEFINE n == Len(order)
           Least(S) == Closed(S) /\ \A T \in SUBSET S : Closed(T) => T = S
<1>1. n \in Nat /\ \A i \in 1..n : order[i] \in Addrs
  BY DEF Linked
<1>2. Elems(order) \in SUBSET Addrs
  BY <1>1 DEF Elems
<1>3. Closed(Elems(order))
  <2>1. head \in Elems(order) \cup {NULL}
    <3>1. n # 0 => 1 \in 1..n
      BY <1>1
    <3> QED BY <3>1 DEF Linked, Elems
  <2>2. ASSUME NEW i \in 1..n PROVE next[order[i]] \in Elems(order) \cup {NULL}
    <3>1. i # n => i + 1 \in 1..n
      BY <1>1
    <3> QED BY <3>1 DEF Linked, Elems
  <2> QED BY <2>1, <2>2 DEF Closed, Elems
<1>4. ASSUME NEW T, Closed(T) PROVE Elems(order) \subseteq T
  <2> DEFINE B == {i \in 1..n : order[i] \notin T}
  <2>1. B = {}
    <3> SUFFICES ASSUME B # {} PROVE FALSE
      OBVIOUS
    <3>1. B \subseteq Nat
      BY <1>1
    <3>2. \E x \in B : \A y \in B : x <= y
      <4> HIDE DEF B
      <4> QED BY <3>1, LeastElement
    <3>3. PICK x \in B : \A y \in B : x <= y
      BY <3>2
    <3>4. x \in 1..n /\ order[x] \notin T /\ order[x] \in Addrs
      BY <1>1
    <3>5. CASE x = 1
      <4>1. n # 0
        BY <1>1, <3>4
      <4>2. head = order[x]
        BY <3>5, <4>1 DEF Linked
      <4> QED BY <1>4, <3>4, <4>2 DEF Closed
    <3>6. CASE x # 1
      <4>1. x - 1 \in 1..n /\ ~(x <= x - 1) /\ x - 1 # n /\ (x - 1) + 1 = x
        BY <1>1, <3>4, <3>6
      <4>2. order[x - 1] \in T
        BY <3>3, <4>1
      <4>3. next[order[x - 1]] = order[x]
        BY <4>1 DEF Linked
      <4> QED BY <1>4, <3>4, <4>2, <4>3 DEF Closed
    <3> QED BY <3>5, <3>6
  <2> QED BY <2>1 DEF Elems
<1>5. Least(Elems(order))
  BY <1>3, <1>4
<1>6. \A S \in SUBSET Addrs : Least(S) => S = Elems(order)
  BY <1>3, <1>4
<1>7. Swept = CHOOSE S \in SUBSET Addrs : Least(S)
  BY DEF Swept, Closed
<1> HIDE DEF Least
<1> QED BY <1>2, <1>5, <1>6, <1>7

-----------------------------------------------------------------------------
Fields ==
    /\ payload \in [Addrs -> Payloads \cup {Undefined}]
    /\ \A a \in Addrs : payload[a] = Undefined <=> a \notin Elems(order)

\* While a sort runs there is no iterator, so that nothing changes the list under it.
Cursors ==
    /\ node \in Elems(order) \cup {NULL, NoIter}
    /\ curnode \in Elems(order) \cup {NULL}
    /\ curnode # NULL => node = NoIter
    /\ swapped \in BOOLEAN /\ ascending \in BOOLEAN
    /\ unsorted \in Seq(Payloads)

Results == ret.ok \in BOOLEAN /\ ret.out \in Seq(Payloads)

LinksInv == Linked(order, head, tail, next, prev) /\ num_elements = Len(order)

Inv == LinksInv /\ Fields /\ Cursors /\ Results

LEMMA Basics ==
    ASSUME Inv
    PROVE  /\ Len(order) \in Nat /\ num_elements = Len(order)
           /\ \A i \in 1..Len(order) : order[i] \in Addrs /\ order[i] \in Elems(order)
           /\ \A i \in 1..Len(order) : payload[order[i]] \in Payloads
           /\ Elems(order) \subseteq Addrs
           /\ NULL \notin Elems(order) /\ NoIter \notin Elems(order) /\ NoIter # NULL
           /\ Elems(order) = Allocated
<1>1. /\ order \in Seq(Addrs) /\ Len(order) \in Nat /\ num_elements = Len(order)
      /\ DOMAIN order = 1..Len(order)
  BY DEF Inv, LinksInv, Linked
<1>2. \A i \in 1..Len(order) : order[i] \in Addrs /\ order[i] \in Elems(order)
  BY <1>1 DEF Elems
<1>3. Elems(order) \subseteq Addrs
  BY <1>2 DEF Elems
<1>4. \A i \in 1..Len(order) : payload[order[i]] \in Payloads
  BY <1>2, <1>3 DEF Inv, Fields
<1>5. Elems(order) = Allocated
  BY <1>1 DEF Elems, Allocated
<1> QED BY <1>1, <1>2, <1>3, <1>4, <1>5 DEF NoIter

LEMMA InitInv == Init => Inv
<1> SUFFICES ASSUME Init PROVE Inv
  OBVIOUS
<1>1. order = <<>> /\ Len(order) = 0 /\ Elems(order) = {} /\ order \in Seq(Addrs)
  BY DEF Init, Elems
<1>2. LinksInv
  BY <1>1 DEF Init, LinksInv, Linked, Links
<1>3. Fields
  BY <1>1 DEF Init, Fields
<1>4. Cursors
  <2>1. unsorted \in Seq(Payloads)
    BY DEF Init
  <2> QED BY <2>1 DEF Init, Cursors
<1>5. Results
  BY DEF Init, Results, Failure
<1> QED BY <1>2, <1>3, <1>4, <1>5 DEF Inv

-----------------------------------------------------------------------------
\* One lemma for each call that changes the nodes.

LEMMA PushInv ==
    ASSUME Inv, NEW ln \in Addrs, NEW p \in Payloads, Push(ln, p)
    PROVE  Inv'
<1> DEFINE o == <<ln>> \o order
<1>1. /\ order' = o /\ node = NoIter /\ curnode = NULL /\ node' = node /\ curnode' = curnode
      /\ ln \in Addrs \ Elems(order) /\ payload' = [payload EXCEPT ![ln] = p]
      /\ swapped' = swapped /\ ascending' = ascending /\ unsorted' = unsorted /\ ret' = ret
  BY Basics DEF Push, Idle, sort
<1>2. /\ o \in Seq(Addrs) /\ Len(o) = Len(order) + 1 /\ o[1] = ln
      /\ \A i \in 1..Len(order) : o[i + 1] = order[i]
  BY Basics DEF Inv, LinksInv, Linked
<1> HIDE DEF o
<1>3. /\ next' \in [Addrs -> Links] /\ prev' \in [Addrs -> Links]
      /\ next'[ln] = (IF Len(order) = 0 THEN NULL ELSE order[1]) /\ prev'[ln] = NULL
      /\ \A b \in Addrs : b # ln => next'[b] = next[b]
      /\ \A b \in Addrs : b # ln /\ (Len(order) # 0 => b # order[1]) => prev'[b] = prev[b]
      /\ Len(order) # 0 => prev'[order[1]] = ln
      /\ head' = ln /\ tail' = (IF Len(order) = 0 THEN ln ELSE tail)
      /\ num_elements' = Len(order) + 1
  <2>1. num_elements = Len(order) /\ head = IF Len(order) = 0 THEN NULL ELSE order[1]
    BY DEF Inv, LinksInv, Linked
  <2>2. next \in [Addrs -> Links] /\ prev \in [Addrs -> Links] /\ ln \in Links /\ NULL \in Links
    BY DEF Inv, LinksInv, Linked, Links
  <2>3. Len(order) # 0 => order[1] \in Addrs /\ order[1] # ln /\ order[1] \in Links
    <3>1. Len(order) # 0 => 1 \in 1..Len(order)
      BY Basics
    <3> QED BY <1>1, <3>1, Basics DEF Links
  <2>4. CASE Len(order) = 0
    BY <2>1, <2>2, <2>4 DEF Push
  <2>5. CASE Len(order) # 0
    BY <2>1, <2>2, <2>3, <2>5 DEF Push
  <2> QED BY <2>4, <2>5
<1>4. Linked(o, head', tail', next', prev') /\ Elems(o) = Elems(order) \cup {ln}
  <2> DEFINE k == 1
  <2>1. /\ k \in 1..(Len(order) + 1)
        /\ \A i \in 1..Len(order) : i < k => o[i] = order[i]
        /\ \A i \in 1..Len(order) : i >= k => o[i + 1] = order[i]
        /\ o[k] = ln /\ k = 1 /\ ~(k > 1) /\ (k = Len(order) + 1 <=> Len(order) = 0)
        /\ (k <= Len(order) <=> Len(order) # 0)
    BY <1>2, Basics
  <2> HIDE DEF k
  <2>2. Inserts(order, head, tail, next, prev, ln, k, o, head', tail', next', prev')
    BY <1>1, <1>2, <1>3, <2>1 DEF Inserts
  <2> QED BY <1>1, <2>1, <2>2, InsertLinks DEF Inv, LinksInv
<1>5. LinksInv'
  BY <1>1, <1>2, <1>3, <1>4 DEF LinksInv
<1>6. Fields'
  BY <1>1, <1>4 DEF Inv, Fields
<1>7. Cursors' /\ Results'
  BY <1>1 DEF Inv, Cursors, Results
<1> QED BY <1>5, <1>6, <1>7 DEF Inv

LEMMA AppendInv ==
    ASSUME Inv, NEW ln \in Addrs, NEW p \in Payloads, AppendNode(ln, p)
    PROVE  Inv'
<1> DEFINE o == Append(order, ln)
<1>1. /\ order' = o /\ node = NoIter /\ curnode = NULL /\ node' = node /\ curnode' = curnode
      /\ ln \in Addrs \ Elems(order) /\ payload' = [payload EXCEPT ![ln] = p]
      /\ swapped' = swapped /\ ascending' = ascending /\ unsorted' = unsorted /\ ret' = ret
  BY Basics DEF AppendNode, Idle, sort
<1>2. /\ o \in Seq(Addrs) /\ Len(o) = Len(order) + 1 /\ o[Len(order) + 1] = ln
      /\ \A i \in 1..Len(order) : o[i] = order[i]
  BY Basics DEF Inv, LinksInv, Linked
<1> HIDE DEF o
<1> DEFINE n == Len(order)
<1>3. /\ next' \in [Addrs -> Links] /\ prev' \in [Addrs -> Links]
      /\ next'[ln] = NULL /\ prev'[ln] = (IF n = 0 THEN NULL ELSE order[n])
      /\ \A b \in Addrs : b # ln => prev'[b] = prev[b]
      /\ \A b \in Addrs : b # ln /\ (n # 0 => b # order[n]) => next'[b] = next[b]
      /\ n # 0 => next'[order[n]] = ln
      /\ tail' = ln /\ head' = (IF n = 0 THEN ln ELSE head)
      /\ num_elements' = n + 1
  <2>1. num_elements = n /\ tail = IF n = 0 THEN NULL ELSE order[n]
    BY DEF Inv, LinksInv, Linked
  <2>2. next \in [Addrs -> Links] /\ prev \in [Addrs -> Links] /\ ln \in Links /\ NULL \in Links
    BY DEF Inv, LinksInv, Linked, Links
  <2>3. n # 0 => order[n] \in Addrs /\ order[n] # ln /\ order[n] \in Links
    <3>1. n # 0 => n \in 1..n
      BY Basics
    <3> QED BY <1>1, <3>1, Basics DEF Links
  <2>4. CASE n = 0
    BY <2>1, <2>2, <2>4 DEF AppendNode
  <2>5. CASE n # 0
    BY <2>1, <2>2, <2>3, <2>5 DEF AppendNode
  <2> QED BY <2>4, <2>5
<1>4. Linked(o, head', tail', next', prev') /\ Elems(o) = Elems(order) \cup {ln}
  <2> DEFINE k == n + 1
  <2>1. /\ k \in 1..(Len(order) + 1) /\ k - 1 = n
        /\ \A i \in 1..Len(order) : i < k => o[i] = order[i]
        /\ \A i \in 1..Len(order) : i >= k => o[i + 1] = order[i]
        /\ o[k] = ln /\ (k > 1 <=> n # 0) /\ k = Len(order) + 1
        /\ ~(k <= Len(order)) /\ (k = 1 <=> n = 0)
    BY <1>2, Basics
  <2> HIDE DEF k
  <2>2. Inserts(order, head, tail, next, prev, ln, k, o, head', tail', next', prev')
    BY <1>1, <1>2, <1>3, <2>1 DEF Inserts
  <2> QED BY <1>1, <2>1, <2>2, InsertLinks DEF Inv, LinksInv
<1>5. LinksInv'
  BY <1>1, <1>2, <1>3, <1>4 DEF LinksInv
<1>6. Fields'
  BY <1>1, <1>4 DEF Inv, Fields
<1>7. Cursors' /\ Results'
  BY <1>1 DEF Inv, Cursors, Results
<1> QED BY <1>5, <1>6, <1>7 DEF Inv

Unlinked(k) ==
    Unlinks(order, head, tail, next, prev, k, order', head', tail', next', prev')

LEMMA UnlinkInv ==
    ASSUME Inv, NEW k \in 1..Len(order), Unlinked(k),
           num_elements' = num_elements - 1, payload' = Freed(payload, order[k])
    PROVE  LinksInv' /\ Fields' /\ Elems(order') = Elems(order) \ {order[k]}
<1>1. Linked(order', head', tail', next', prev') /\ Elems(order') = Elems(order) \ {order[k]}
  <2>1. Linked(order, head, tail, next, prev)
    BY DEF Inv, LinksInv
  <2> QED BY <2>1, RemoveLinks DEF Unlinked
<1>2. LinksInv'
  BY <1>1, Basics DEF LinksInv, Unlinked, Unlinks
<1>3. Fields'
  <2>1. order[k] \in Addrs /\ Undefined \notin Payloads
    BY Basics
  <2> QED BY <1>1, <2>1 DEF Inv, Fields, Freed
<1> QED BY <1>1, <1>2, <1>3

LEMMA Places ==
    ASSUME Inv
    PROVE  /\ \A i, j \in 1..Len(order) : order[i] = order[j] => i = j
           /\ \A i \in 1..Len(order) : /\ next[order[i]] = IF i = Len(order) THEN NULL ELSE order[i + 1]
                                       /\ prev[order[i]] = IF i = 1 THEN NULL ELSE order[i - 1]
           /\ next \in [Addrs -> Links] /\ prev \in [Addrs -> Links]
           /\ Len(order) = 0 => head = NULL /\ tail = NULL
           /\ Len(order) # 0 => head = order[1] /\ tail = order[Len(order)]
           /\ Addrs \subseteq Links /\ NULL \in Links /\ Undefined \in Links
BY DEF Inv, LinksInv, Linked, Links

\* The three ways in which the code unlinks the node at place k.
Unlinking(k) ==
    LET a == order[k] IN
    /\ next' = IF prev[a] = NULL THEN Freed(next, a)
               ELSE Freed([next EXCEPT ![prev[a]] = next[a]], a)
    /\ prev' = IF next[a] = NULL THEN Freed(prev, a)
               ELSE Freed([prev EXCEPT ![next[a]] = prev[a]], a)
    /\ head' = IF prev[a] = NULL THEN next[a] ELSE head
    /\ tail' = IF next[a] = NULL THEN prev[a] ELSE tail

LEMMA UnlinkingLinks ==
    ASSUME Inv, NEW k \in 1..Len(order), Unlinking(k),
           order' \in Seq(Addrs), Len(order') = Len(order) - 1,
           \A i \in 1..Len(order') : i < k => order'[i] = order[i],
           \A i \in 1..Len(order') : i >= k => order'[i] = order[i + 1]
    PROVE  Unlinked(k)
<1> DEFINE n == Len(order)
           a == order[k]
           b == order[k - 1]
           c == order[k + 1]
<1>1. /\ k \in Nat /\ n \in Nat /\ a \in Addrs
      /\ k > 1 <=> k # 1
      /\ k < n <=> k # n
      /\ k > 1 => b \in Addrs /\ b # a /\ b # NULL /\ prev[a] = b
      /\ k = 1 => prev[a] = NULL
      /\ k < n => c \in Addrs /\ c # a /\ c # NULL /\ next[a] = c
      /\ k = n => next[a] = NULL
  <2>1. k \in Nat /\ n \in Nat /\ a \in Addrs /\ (k > 1 <=> k # 1) /\ (k < n <=> k # n)
    BY Basics
  <2>2. k > 1 => k - 1 \in 1..n /\ k - 1 # k
    BY <2>1
  <2>3. k > 1 => b \in Addrs /\ b # a /\ b # NULL
    BY <2>2, Basics, Places
  <2>4. k < n => k + 1 \in 1..n /\ k + 1 # k
    BY <2>1
  <2>5. k < n => c \in Addrs /\ c # a /\ c # NULL
    BY <2>4, Basics, Places
  <2>6. prev[a] = (IF k = 1 THEN NULL ELSE b) /\ next[a] = IF k = n THEN NULL ELSE c
    BY Places
  <2> QED BY <2>1, <2>3, <2>5, <2>6
<1>2. next \in [Addrs -> Links] /\ next[a] \in Links /\ Undefined \in Links
  BY <1>1, Places
<1>3. prev \in [Addrs -> Links] /\ prev[a] \in Links
  BY <1>1, Places
<1> HIDE DEF a, b, c, n
<1>4. /\ next' \in [Addrs -> Links] /\ next'[a] = Undefined
      /\ k > 1 => next'[b] = next[a]
      /\ \A x \in Addrs : x # a /\ (k > 1 => x # b) => next'[x] = next[x]
      /\ head' = IF k = 1 THEN next[a] ELSE head
  <2>1. CASE k = 1
    <3>1. next' = [next EXCEPT ![a] = Undefined] /\ head' = next[a]
      BY <1>1, <2>1 DEF Unlinking, Freed, a
    <3> QED BY <1>1, <1>2, <2>1, <3>1
  <2>2. CASE k # 1
    <3>1. next' = [next EXCEPT ![b] = next[a], ![a] = Undefined] /\ head' = head
      BY <1>1, <2>2 DEF Unlinking, Freed, a
    <3> QED BY <1>1, <1>2, <2>2, <3>1
  <2> QED BY <2>1, <2>2
<1>5. /\ prev' \in [Addrs -> Links] /\ prev'[a] = Undefined
      /\ k < n => prev'[c] = prev[a]
      /\ \A x \in Addrs : x # a /\ (k < n => x # c) => prev'[x] = prev[x]
      /\ tail' = IF k = n THEN prev[a] ELSE tail
  <2>1. CASE k = n
    <3>1. prev' = [prev EXCEPT ![a] = Undefined] /\ tail' = prev[a]
      BY <1>1, <2>1 DEF Unlinking, Freed, a
    <3> QED BY <1>1, <1>2, <1>3, <2>1, <3>1
  <2>2. CASE k # n
    <3>1. prev' = [prev EXCEPT ![c] = prev[a], ![a] = Undefined] /\ tail' = tail
      BY <1>1, <2>2 DEF Unlinking, Freed, a
    <3> QED BY <1>1, <1>2, <1>3, <2>2, <3>1
  <2> QED BY <2>1, <2>2
<1> QED BY <1>4, <1>5 DEF Unlinked, Unlinks, a, b, c, n

LEMMA PopInv ==
    ASSUME Inv, Pop
    PROVE  Inv'
<1>1. /\ Len(order) \in Nat /\ num_elements = Len(order) /\ Len(order) # 0 /\ 1 \in 1..Len(order)
      /\ order \in Seq(Addrs) /\ node = NoIter /\ curnode = NULL /\ node' = node
      /\ UNCHANGED sort /\ num_elements' = num_elements - 1
  BY Basics DEF Pop, Idle, Inv, LinksInv, Linked
<1>2. head = order[1] /\ tail = order[Len(order)]
  BY <1>1, Places
<1>3. Unlinking(1)
  <2>1. prev[head] = NULL
    BY <1>1, <1>2, Places
  <2>2. CASE Len(order) = 1
    <3>1. next[head] = NULL
      BY <1>1, <1>2, <2>2, Places
    <3> QED BY <1>1, <1>2, <2>1, <2>2, <3>1 DEF Pop, Unlinking
  <2>3. CASE Len(order) # 1
    <3>1. next[head] # NULL
      <4>1. 2 \in 1..Len(order) /\ 1 # Len(order) /\ 1 + 1 = 2
        BY <1>1, <2>3
      <4>2. next[order[1]] = order[2]
        BY <4>1, Places
      <4>3. order[2] # NULL
        BY <4>1, Basics
      <4> QED BY <1>2, <4>2, <4>3
    <3> QED BY <1>1, <1>2, <2>1, <2>3, <3>1 DEF Pop, Unlinking
  <2> QED BY <2>2, <2>3
<1>4. /\ order' \in Seq(Addrs) /\ Len(order') = Len(order) - 1
      /\ \A i \in 1..Len(order') : order'[i] = order[i + 1]
  <2>1. order' = Tail(order)
    BY DEF Pop
  <2> QED BY <1>1, <2>1
<1>5. Unlinked(1)
  <2>1. \A i \in 1..Len(order') : ~(i < 1)
    BY <1>1, <1>4
  <2> QED BY <1>1, <1>3, <1>4, <2>1, UnlinkingLinks
<1>6. LinksInv' /\ Fields'
  BY <1>1, <1>2, <1>5, UnlinkInv DEF Pop
<1>7. Cursors'
  BY <1>1 DEF Inv, Cursors, sort
<1>8. Results'
  <2>1. payload[head] \in Payloads
    BY <1>1, <1>2, Basics
  <2> QED BY <2>1 DEF Pop, Results, Success
<1> QED BY <1>6, <1>7, <1>8 DEF Inv

LEMMA SliceInv ==
    ASSUME Inv, Slice
    PROVE  Inv'
<1> DEFINE n == Len(order)
<1>1. /\ n \in Nat /\ num_elements = n /\ n # 0 /\ n \in 1..n /\ 1 \in 1..n
      /\ order \in Seq(Addrs) /\ node = NoIter /\ curnode = NULL /\ node' = node
      /\ UNCHANGED sort /\ num_elements' = num_elements - 1
  BY Basics DEF Slice, Idle, Inv, LinksInv, Linked
<1>2. head = order[1] /\ tail = order[n]
  BY <1>1, Places
<1>3. Unlinking(n)
  <2>1. next[tail] = NULL
    BY <1>1, <1>2, Places
  <2>2. CASE n = 1
    <3>1. prev[tail] = NULL
      BY <1>1, <1>2, <2>2, Places
    <3> QED BY <1>1, <1>2, <2>1, <2>2, <3>1 DEF Slice, Unlinking
  <2>3. CASE n # 1
    <3>1. prev[tail] # NULL
      <4>1. n - 1 \in 1..n
        BY <1>1, <2>3
      <4> QED BY <1>1, <1>2, <2>3, <4>1, Places, Basics
    <3> QED BY <1>1, <1>2, <2>1, <2>3, <3>1 DEF Slice, Unlinking
  <2> QED BY <2>2, <2>3
<1>4. /\ order' \in Seq(Addrs) /\ Len(order') = Len(order) - 1
      /\ \A i \in 1..Len(order') : order'[i] = order[i] /\ i < n
  <2>1. order' = SubSeq(order, 1, Len(order) - 1)
    BY DEF Slice
  <2> QED BY <1>1, <2>1
<1>5. Unlinked(n)
  <2>1. \A i \in 1..Len(order') : ~(i >= n)
    BY <1>1, <1>4
  <2> QED BY <1>1, <1>3, <1>4, <2>1, UnlinkingLinks
<1>6. LinksInv' /\ Fields'
  BY <1>1, <1>2, <1>5, UnlinkInv DEF Slice
<1>7. Cursors'
  BY <1>1 DEF Inv, Cursors, sort
<1>8. Results'
  <2>1. payload[tail] \in Payloads
    BY <1>1, <1>2, Basics
  <2> QED BY <2>1 DEF Slice, Results, Success
<1> QED BY <1>6, <1>7, <1>8 DEF Inv

LEMMA RemoveInv ==
    ASSUME Inv, Remove
    PROVE  Inv'
<1> DEFINE n == Len(order)
           k == IndexOf(node)
<1>1. /\ n \in Nat /\ num_elements = n /\ order \in Seq(Addrs) /\ DOMAIN order = 1..n
      /\ node \in Elems(order) /\ curnode = NULL
      /\ UNCHANGED sort /\ num_elements' = num_elements - 1
  BY Basics DEF Remove, Inv, LinksInv, Linked, Cursors
<1>2. k \in 1..n /\ order[k] = node
  <2>1. \E i \in DOMAIN order : order[i] = node
    BY <1>1 DEF Elems
  <2> QED BY <1>1, <2>1 DEF IndexOf
<1>3. order' = [i \in 1..(n - 1) |-> IF i < k THEN order[i] ELSE order[i + 1]]
  BY DEF Remove, OrderWithout
<1> HIDE DEF k
<1>4. /\ next[node] = IF k = n THEN NULL ELSE order[k + 1]
      /\ prev[node] = IF k = 1 THEN NULL ELSE order[k - 1]
      /\ head = order[1] /\ tail = order[n] /\ 1 \in 1..n /\ n \in 1..n /\ n # 0
      /\ k \in Nat
  BY <1>1, <1>2, Places
<1>5. /\ k # n => k + 1 \in 1..n /\ next[node] \in Elems(order) /\ next[node] # NULL
      /\ k # 1 => k - 1 \in 1..n /\ prev[node] \in Elems(order) /\ prev[node] # NULL
  <2>1. (k # n => k + 1 \in 1..n) /\ (k # 1 => k - 1 \in 1..n)
    BY <1>1, <1>2
  <2> QED BY <1>4, <2>1, Basics
<1>6. n = 1 <=> k = n /\ k = 1
  <2>1. n \in Nat /\ k \in 1..n
    BY <1>1, <1>2
  <2> HIDE DEF n
  <2> QED BY <2>1
<1>7. Unlinking(k) /\ node' \in (Elems(order) \ {node}) \cup {NULL}
  <2>1. next[node] # node /\ prev[node] # node
    <3>1. (k # n => order[k + 1] # order[k]) /\ (k # 1 => order[k - 1] # order[k])
      BY <1>2, <1>4, <1>5, Places
    <3> QED BY <1>1, <1>2, <1>4, <3>1, Basics
  <2>2. CASE RemoveOnly
    <3>1. prev[node] = NULL /\ next[node] = NULL
      BY <1>1, <1>4, <1>6, <2>2 DEF RemoveOnly
    <3> QED BY <1>2, <2>2, <3>1 DEF RemoveOnly, Unlinking
  <2>3. CASE RemoveHead
    <3>1. prev[node] = NULL /\ next[node] # NULL /\ next[node] \in Elems(order)
      BY <1>1, <1>4, <1>5, <1>6, <2>3 DEF RemoveHead
    <3> QED BY <1>2, <2>1, <2>3, <3>1 DEF RemoveHead, Unlinking
  <2>4. CASE RemoveTail
    <3>1. prev[node] # NULL /\ next[node] = NULL /\ prev[node] \in Elems(order)
      BY <1>4, <1>5, <2>4 DEF RemoveTail
    <3> QED BY <1>2, <2>1, <2>4, <3>1 DEF RemoveTail, Unlinking
  <2>5. CASE RemoveMiddle
    <3>1. prev[node] # NULL /\ next[node] # NULL /\ next[node] \in Elems(order)
      BY <1>4, <1>5, <2>5 DEF RemoveMiddle
    <3> QED BY <1>2, <2>1, <2>5, <3>1 DEF RemoveMiddle, Unlinking
  <2> QED BY <2>2, <2>3, <2>4, <2>5 DEF Remove
<1>8. /\ order' \in Seq(Addrs) /\ Len(order') = n - 1
      /\ \A i \in 1..Len(order') : i < k => order'[i] = order[i]
      /\ \A i \in 1..Len(order') : i >= k => order'[i] = order[i + 1]
  <2>1. \A i \in 1..(n - 1) : order[i] \in Addrs /\ order[i + 1] \in Addrs
    BY <1>1
  <2>2. n - 1 \in Nat
    BY <1>4
  <2>3. order' \in Seq(Addrs) /\ Len(order') = n - 1
    BY <1>3, <2>1, <2>2
  <2>4. \A i \in 1..(n - 1) : order'[i] = IF i < k THEN order[i] ELSE order[i + 1]
    BY <1>3
  <2>5. k \in Nat /\ n \in Nat
    BY <1>1, <1>4
  <2>6. \A i \in 1..(n - 1) : i < k => order'[i] = order[i]
    BY <2>4
  <2>7. \A i \in 1..(n - 1) : i >= k => order'[i] = order[i + 1]
    BY <2>4, <2>5
  <2> QED BY <2>3, <2>6, <2>7
<1>9. LinksInv' /\ Fields' /\ Elems(order') = Elems(order) \ {node}
  <2>1. Unlinked(k)
    BY <1>2, <1>7, <1>8, UnlinkingLinks
  <2> QED BY <1>1, <1>2, <2>1, UnlinkInv DEF Remove
<1>10. Cursors'
  BY <1>1, <1>7, <1>9 DEF Inv, Cursors, sort
<1>11. Results'
  BY DEF Remove, Results, Flag
<1> QED BY <1>9, <1>10, <1>11 DEF Inv

LEMMA FreeListInv ==
    ASSUME Inv, FreeList
    PROVE  Inv'
<1>1. Swept = Elems(order)
  BY SweptIsList DEF Inv, LinksInv
<1>2. order' = <<>> /\ Len(order') = 0 /\ Elems(order') = {} /\ order' \in Seq(Addrs)
  BY DEF FreeList, Elems
<1>3. /\ \A a \in Addrs : next'[a] = Undefined /\ prev'[a] = Undefined /\ payload'[a] = Undefined
      /\ next' \in [Addrs -> Links] /\ prev' \in [Addrs -> Links]
      /\ payload' \in [Addrs -> Payloads \cup {Undefined}]
  <2>1. \A a \in Addrs : a \notin Swept =>
            next[a] = Undefined /\ prev[a] = Undefined /\ payload[a] = Undefined
    BY <1>1 DEF Inv, LinksInv, Linked, Fields
  <2>2. Undefined \in Links
    BY DEF Links
  <2> QED BY <2>1, <2>2 DEF FreeList
<1>4. LinksInv'
  BY <1>2, <1>3 DEF FreeList, LinksInv, Linked
<1>5. Fields'
  BY <1>2, <1>3 DEF Fields
<1>6. Cursors' /\ Results'
  BY DEF FreeList, Idle, sort, Inv, Cursors, Results
<1> QED BY <1>4, <1>5, <1>6 DEF Inv

-----------------------------------------------------------------------------
\* The calls that leave the links alone.

LEMMA Follow ==
    ASSUME Inv
    PROVE  /\ head \in Elems(order) \cup {NULL}
           /\ num_elements # 0 => head # NULL
           /\ \A a \in Elems(order) : next[a] \in Elems(order) \cup {NULL}
           /\ \A a \in Elems(order) : a \in Addrs /\ payload[a] \in Payloads
<1>1. Len(order) \in Nat /\ num_elements = Len(order)
  BY Basics
<1>2. Len(order) # 0 => 1 \in 1..Len(order) /\ head \in Elems(order)
  BY <1>1, Basics, Places
<1>3. ASSUME NEW i \in 1..Len(order) PROVE next[order[i]] \in Elems(order) \cup {NULL}
  <2>1. i # Len(order) => i + 1 \in 1..Len(order)
    BY <1>1
  <2> QED BY <2>1, Basics, Places
<1>4. Len(order) = 0 => head = NULL
  BY Places
<1> QED BY <1>1, <1>2, <1>3, <1>4, Basics DEF Elems

LEMMA SameNodes ==
    ASSUME Inv, UNCHANGED <<list, next, prev, order>>
    PROVE  LinksInv' /\ Elems(order') = Elems(order)
<1>1. /\ head' = head /\ tail' = tail /\ num_elements' = num_elements
      /\ next' = next /\ prev' = prev /\ order' = order
  BY DEF list
<1> QED BY <1>1 DEF Inv, LinksInv

LEMMA QuietInv ==
    ASSUME Inv, UNCHANGED <<list, nodes, order>>, Cursors', Results'
    PROVE  Inv'
<1>1. payload' = payload /\ order' = order /\ UNCHANGED <<list, next, prev, order>>
  BY DEF nodes
<1> QED BY <1>1, SameNodes DEF Inv, Fields

LEMMA SortBeginInv ==
    ASSUME Inv, NEW asc \in BOOLEAN, SortBegin(asc)
    PROVE  Inv'
<1>1. Contents \in Seq(Payloads)
  <2>1. DOMAIN order = 1..Len(order)
    BY DEF Inv, LinksInv, Linked
  <2> QED BY <2>1, Basics DEF Contents
<1>2. /\ node = NoIter /\ node' = node /\ curnode' = head /\ swapped' = FALSE
      /\ ascending' = asc /\ unsorted' = Contents /\ order' = order
      /\ UNCHANGED <<list, nodes, order>> /\ ret' = ret
  BY DEF SortBegin, Idle
<1>3. Cursors'
  BY <1>1, <1>2, Follow DEF Cursors
<1>4. Results'
  BY <1>2 DEF Inv, Results
<1> QED BY <1>2, <1>3, <1>4, QuietInv

LEMMA SortCompareInv ==
    ASSUME Inv, SortCompare
    PROVE  Inv'
<1>1. /\ curnode \in Elems(order) /\ next[curnode] \in Elems(order) /\ node = NoIter
      /\ UNCHANGED <<list, next, prev, order, node, ascending, unsorted, ret>>
      /\ curnode' = next[curnode]
  BY Follow DEF SortCompare, Inv, Cursors
<1>2. LinksInv' /\ Elems(order') = Elems(order)
  BY <1>1, SameNodes
<1>3. Fields'
  <2>1. CASE payload' = payload
    BY <1>1, <1>2, <2>1 DEF Inv, Fields
  <2>2. CASE payload' = [payload EXCEPT ![curnode] = payload[next[curnode]],
                                        ![next[curnode]] = payload[curnode]]
    <3> DEFINE a == curnode
               b == next[curnode]
    <3>1. /\ a \in Addrs /\ b \in Addrs /\ a \in Elems(order) /\ b \in Elems(order)
          /\ payload[a] \in Payloads /\ payload[b] \in Payloads
      BY <1>1, Follow
    <3>2. payload' = [payload EXCEPT ![a] = payload[b], ![b] = payload[a]]
      BY <2>2
    <3> HIDE DEF a, b
    <3> QED BY <1>1, <1>2, <3>1, <3>2 DEF Inv, Fields
  <2> QED BY <2>1, <2>2 DEF SortCompare
<1>4. Cursors'
  <2>1. swapped' \in BOOLEAN
    BY DEF SortCompare, Inv, Cursors
  <2> QED BY <1>1, <1>2, <2>1 DEF Inv, Cursors
<1>5. Results'
  BY <1>1 DEF Inv, Results
<1> QED BY <1>2, <1>3, <1>4, <1>5 DEF Inv

LEMMA SortPassDoneInv ==
    ASSUME Inv, SortPassDone
    PROVE  Inv'
<1>1. /\ curnode # NULL /\ node = NoIter /\ node' = node /\ ret' = ret /\ order' = order
      /\ UNCHANGED <<list, nodes, order>>
  BY DEF SortPassDone, Inv, Cursors
<1>2. Cursors'
  <2>1. unsorted' \in Seq(Payloads)
    <3>1. unsorted' = unsorted \/ unsorted' = <<>>
      BY DEF SortPassDone
    <3>2. unsorted \in Seq(Payloads)
      BY DEF Inv, Cursors
    <3>3. <<>> \in Seq(Payloads)
      OBVIOUS
    <3> QED BY <3>1, <3>2, <3>3, Zenon
  <2>2. swapped' \in BOOLEAN /\ ascending' \in BOOLEAN
    BY DEF SortPassDone, Inv, Cursors
  <2>3. curnode' \in {head, NULL}
    BY DEF SortPassDone
  <2> QED BY <1>1, <2>1, <2>2, <2>3, Follow DEF Inv, Cursors
<1>3. Results'
  BY <1>1 DEF Inv, Results
<1> QED BY <1>1, <1>2, <1>3, QuietInv

LEMMA IteratorInv ==
    ASSUME Inv, Iterate \/ FreeIterator \/ Advance \/ Get \/ TakeFails
    PROVE  Inv'
<1>1. UNCHANGED <<list, nodes, order, sort>>
  BY DEF Iterate, FreeIterator, Advance, Get, TakeFails
<1>2. order' = order /\ UNCHANGED <<list, nodes, order>>
  BY <1>1
<1>3. /\ node' \in Elems(order) \cup {NULL, NoIter}
      /\ curnode # NULL => node' = NoIter
  BY Follow DEF Inv, Cursors, Iterate, FreeIterator, Advance, Get, TakeFails
<1>4. Cursors'
  BY <1>1, <1>3 DEF Inv, Cursors, sort
<1>5. Results'
  <2>1. CASE Iterate \/ FreeIterator
    BY <2>1 DEF Iterate, FreeIterator, Inv, Results
  <2>2. CASE Advance
    BY <2>2 DEF Advance, Flag, Results
  <2>3. CASE Get
    <3>1. payload[node] \in Payloads
      BY <2>3, Follow DEF Get, Inv, Cursors
    <3> QED BY <2>3, <3>1 DEF Get, Success, Results
  <2>4. CASE TakeFails
    BY <2>4 DEF TakeFails, Failure, Results
  <2> QED BY <2>1, <2>2, <2>3, <2>4
<1> QED BY <1>2, <1>4, <1>5, QuietInv

-----------------------------------------------------------------------------
LEMMA StepInv == Inv /\ [Next]_vars => Inv'
<1> SUFFICES ASSUME Inv, [Next]_vars PROVE Inv'
  OBVIOUS
<1>1. ASSUME NEW ln \in Addrs, NEW p \in Payloads, Push(ln, p) \/ AppendNode(ln, p) PROVE Inv'
  BY <1>1, PushInv, AppendInv
<1>2. CASE Pop \/ Slice \/ FreeList \/ Remove
  BY <1>2, PopInv, SliceInv, FreeListInv, RemoveInv
<1>3. ASSUME NEW asc \in BOOLEAN, SortBegin(asc) PROVE Inv'
  BY <1>3, SortBeginInv
<1>4. CASE SortCompare \/ SortPassDone
  BY <1>4, SortCompareInv, SortPassDoneInv
<1>5. CASE Iterate \/ FreeIterator \/ Advance \/ Get \/ TakeFails
  BY <1>5, IteratorInv
<1>6. CASE UNCHANGED vars
  <2>1. UNCHANGED <<list, nodes, order, sort, node, ret>> /\ order' = order
    BY <1>6 DEF vars
  <2>2. Cursors'
    BY <2>1 DEF Inv, Cursors, sort
  <2>3. Results'
    BY <2>1 DEF Inv, Results
  <2> QED BY <2>1, <2>2, <2>3, QuietInv
<1> QED BY <1>1, <1>2, <1>3, <1>4, <1>5, <1>6 DEF Next

\* The invariant Inv holds after every sequence of calls.
THEOREM Invariance == Spec => []Inv
<1>1. Init => Inv
  BY InitInv
<1>2. Inv /\ [Next]_vars => Inv'
  BY StepInv
<1> QED BY <1>1, <1>2, PTL DEF Spec

\* No pointer of the list, of its nodes, of the iterator or of the sort ever leads to
\* a node that was freed: all of LinkedList.c.
THEOREM TypeCorrect == Spec => []TypeOK
<1>1. Inv => TypeOK
  <2> SUFFICES ASSUME Inv PROVE TypeOK
    OBVIOUS
  <2>1. Elems(order) = Allocated /\ Elems(order) \subseteq Addrs /\ num_elements \in Nat
    BY Basics
  <2>2. order \in Seq(Addrs)
    BY DEF Inv, LinksInv, Linked
  <2>3. {head, tail} \subseteq Allocated \cup {NULL}
    <3>1. Len(order) # 0 => Len(order) \in 1..Len(order)
      BY Basics
    <3> QED BY <2>1, <3>1, Follow, Places, Basics
  <2>4. ASSUME NEW i \in 1..Len(order)
        PROVE  /\ next[order[i]] \in Allocated \cup {NULL}
               /\ prev[order[i]] \in Allocated \cup {NULL}
               /\ payload[order[i]] \in Payloads
    <3>1. (i # Len(order) => i + 1 \in 1..Len(order)) /\ (i # 1 => i - 1 \in 1..Len(order))
      BY Basics
    <3> QED BY <2>1, <3>1, Basics, Places
  <2>5. \A a \in Allocated : /\ next[a] \in Allocated \cup {NULL}
                             /\ prev[a] \in Allocated \cup {NULL}
                             /\ payload[a] \in Payloads
    BY <2>1, <2>4 DEF Elems
  <2>6. \A a \in Addrs \ Allocated :
            next[a] = Undefined /\ prev[a] = Undefined /\ payload[a] = Undefined
    BY <2>1 DEF Inv, LinksInv, Linked, Fields
  <2>7. /\ node \in Allocated \cup {NULL, NoIter} /\ curnode \in Allocated \cup {NULL}
        /\ swapped \in BOOLEAN /\ ascending \in BOOLEAN /\ unsorted \in Seq(Payloads)
    BY <2>1 DEF Inv, Cursors
  <2> QED BY <2>1, <2>2, <2>3, <2>5, <2>6, <2>7 DEF TypeOK, Inv, Results
<1> QED BY <1>1, Invariance, PTL

\* The next and the prev pointers, the two ends and num_elements always describe one
\* and the same list, each node once: the pointer work of LinkedList.c.
THEOREM LinksAgree == Spec => []WellLinked
<1>1. Inv => WellLinked
  <2> SUFFICES ASSUME Inv PROVE WellLinked
    OBVIOUS
  <2>1. order \in Seq(Addrs) /\ DOMAIN order = 1..Len(order) /\ Len(order) \in Nat
    BY DEF Inv, LinksInv, Linked
  <2>2. order = <<>> <=> Len(order) = 0
    BY <2>1
  <2> QED BY <2>1, <2>2 DEF WellLinked, Inv, LinksInv, Linked
<1> QED BY <1>1, Invariance, PTL

-----------------------------------------------------------------------------
\* The list as SeqList sees it: the payloads in order, and the place of the iterator.

InSequence ==
    /\ DOMAIN order = 1..Len(order) /\ Len(order) \in Nat
    /\ Contents \in Seq(Payloads) /\ Len(Contents) = Len(order)
    /\ \A i \in 1..Len(order) : Contents[i] = payload[order[i]] /\ IndexOf(order[i]) = i
    /\ \A i \in 1..Len(order) : order[i] # NULL /\ order[i] # NoIter

LEMMA Sequence == Inv => InSequence
<1> SUFFICES ASSUME Inv PROVE InSequence
  OBVIOUS
<1>1. DOMAIN order = 1..Len(order) /\ Len(order) \in Nat
  BY DEF Inv, LinksInv, Linked
<1>2. Contents \in Seq(Payloads) /\ Len(Contents) = Len(order)
  BY <1>1, Basics DEF Contents
<1>3. \A i \in 1..Len(order) : Contents[i] = payload[order[i]]
  BY <1>1 DEF Contents
<1>4. ASSUME NEW i \in 1..Len(order) PROVE IndexOf(order[i]) = i
  <2>1. \A j \in DOMAIN order : order[j] = order[i] => j = i
    BY <1>1, Places
  <2> QED BY <1>1, <2>1 DEF IndexOf
<1> QED BY <1>1, <1>2, <1>3, <1>4, Basics DEF InSequence

LEMMA NextSequence == Inv' => InSequence'
  BY Sequence, PTL

LEMMA SameSeq ==
    ASSUME NEW s \in Seq(Payloads), NEW t \in Seq(Payloads), Len(s) = Len(t),
           \A i \in 1..Len(s) : s[i] = t[i]
    PROVE  s = t
  OBVIOUS

LEMMA CutIs ==
    ASSUME NEW S, NEW s \in Seq(S), NEW m \in Nat \ {0}, NEW n \in 0..Len(s), m <= n + 1
    PROVE  /\ SubSeq(s, m, n) \in Seq(S) /\ Len(SubSeq(s, m, n)) = n - m + 1
           /\ \A i \in 1..(n - m + 1) : SubSeq(s, m, n)[i] = s[m + i - 1]
<1>1. m \in Int /\ n \in Int /\ \A i \in m..n : s[i] \in S
  OBVIOUS
<1>2. (IF m <= n THEN n - m + 1 ELSE 0) = n - m + 1
  OBVIOUS
<1> QED BY <1>1, <1>2, SubSeqProperties

LEMMA FrontIs ==
    ASSUME NEW S, NEW s \in Seq(S), NEW n \in 0..Len(s)
    PROVE  /\ SubSeq(s, 1, n) \in Seq(S) /\ Len(SubSeq(s, 1, n)) = n
           /\ \A i \in 1..n : SubSeq(s, 1, n)[i] = s[i]
<1>1. 1 \in Nat \ {0} /\ 1 <= n + 1 /\ n - 1 + 1 = n /\ \A i \in 1..n : 1 + i - 1 = i
  OBVIOUS
<1>2. /\ SubSeq(s, 1, n) \in Seq(S) /\ Len(SubSeq(s, 1, n)) = n - 1 + 1
      /\ \A i \in 1..(n - 1 + 1) : SubSeq(s, 1, n)[i] = s[1 + i - 1]
  BY <1>1, CutIs
<1> QED BY <1>1, <1>2

\* Between the calls, and while no sort runs, the sequence is that of the payloads.
LEMMA PushImplements ==
    ASSUME Inv, Inv', NEW ln \in Addrs, NEW p \in Payloads, Push(ln, p)
    PROVE  Abstract!PushFront(p)
<1>1. InSequence /\ InSequence'
  BY Sequence, NextSequence
<1>2. /\ order' = <<ln>> \o order /\ order \in Seq(Addrs) /\ payload' = [payload EXCEPT ![ln] = p]
      /\ node = NoIter /\ node' = NoIter /\ curnode = NULL /\ curnode' = NULL /\ ret' = ret
      /\ payload \in [Addrs -> Payloads \cup {Undefined}] /\ ln \notin Elems(order)
  <2>1. /\ order' = <<ln>> \o order /\ payload' = [payload EXCEPT ![ln] = p] /\ ret' = ret
        /\ node = NoIter /\ node' = node /\ curnode = NULL /\ curnode' = curnode
        /\ ln \notin Elems(order)
    BY Basics DEF Push, Idle, sort
  <2>2. order \in Seq(Addrs) /\ payload \in [Addrs -> Payloads \cup {Undefined}]
    BY DEF Inv, LinksInv, Linked, Fields
  <2> QED BY <2>1, <2>2
<1>3. /\ Len(order') = Len(order) + 1 /\ order'[1] = ln
      /\ \A i \in 2..Len(order') : order'[i] = order[i - 1] /\ i - 1 \in 1..Len(order)
  <2> DEFINE o == <<ln>> \o order
  <2>1. Len(o) = Len(order) + 1 /\ o[1] = ln /\ Len(order) \in Nat
    BY <1>2
  <2>2. ASSUME NEW i \in 2..Len(o) PROVE o[i] = order[i - 1] /\ i - 1 \in 1..Len(order)
    <3>1. i - 1 \in 1..Len(order)
      BY <2>1
    <3> QED BY <1>2, <3>1
  <2> HIDE DEF o
  <2>3. order' = o
    BY <1>2 DEF o
  <2> QED BY <2>1, <2>2, <2>3
<1>4. Contents' = <<p>> \o Contents
  <2> DEFINE s == Contents'
             t == <<p>> \o Contents
  <2>1. s \in Seq(Payloads) /\ t \in Seq(Payloads) /\ Len(s) = Len(t) /\ Len(s) = Len(order')
    BY <1>1, <1>3 DEF InSequence
  <2>2. s[1] = t[1]
    BY <1>1, <1>2, <1>3 DEF InSequence
  <2>3. ASSUME NEW i \in 2..Len(order') PROVE s[i] = t[i]
    <3>1. order[i - 1] # ln /\ order[i - 1] \in Addrs
      BY <1>2, <1>3, Basics
    <3>2. s[i] = payload[order[i - 1]]
      <4>1. i \in 1..Len(order') /\ order'[i] = order[i - 1]
        BY <1>3
      <4>2. s[i] = payload'[order[i - 1]]
        BY <1>1, <4>1 DEF InSequence
      <4> QED BY <1>2, <3>1, <4>2
    <3>3. t[i] = Contents[i - 1]
      <4>1. Contents \in Seq(Payloads) /\ i \in 2..(Len(Contents) + 1)
        BY <1>1, <1>3 DEF InSequence
      <4> QED BY <4>1
    <3>4. Contents[i - 1] = payload[order[i - 1]]
      BY <1>1, <1>3 DEF InSequence
    <3> QED BY <3>2, <3>3, <3>4
  <2>4. \A i \in 1..Len(s) : s[i] = t[i]
    <3>1. \A i \in 1..Len(s) : i = 1 \/ i \in 2..Len(order')
      BY <2>1
    <3> HIDE DEF s, t
    <3> QED BY <2>2, <2>3, <3>1
  <2> HIDE DEF s, t
  <2> QED BY <2>1, <2>4, SameSeq DEF s, t
<1>5. Shown = Contents /\ Shown' = Contents' /\ Place = -1 /\ Place' = -1
  BY <1>2 DEF Shown, Place
<1> QED BY <1>2, <1>4, <1>5 DEF Abstract!PushFront, Abstract!None

LEMMA AppendImplements ==
    ASSUME Inv, Inv', NEW ln \in Addrs, NEW p \in Payloads, AppendNode(ln, p)
    PROVE  Abstract!PushBack(p)
<1>1. InSequence /\ InSequence'
  BY Sequence, NextSequence
<1>2. /\ order' = Append(order, ln) /\ order \in Seq(Addrs) /\ payload' = [payload EXCEPT ![ln] = p]
      /\ node = NoIter /\ node' = NoIter /\ curnode = NULL /\ curnode' = NULL /\ ret' = ret
      /\ payload \in [Addrs -> Payloads \cup {Undefined}] /\ ln \notin Elems(order)
  BY Basics DEF AppendNode, Idle, sort, Inv, LinksInv, Linked, Fields
<1>3. /\ Len(order') = Len(order) + 1 /\ order'[Len(order')] = ln
      /\ \A i \in 1..Len(order) : order'[i] = order[i] /\ i \in 1..Len(order') /\ i # Len(order')
  BY <1>2
<1>4. Contents' = Append(Contents, p)
  <2> DEFINE s == Contents'
             t == Append(Contents, p)
  <2>1. s \in Seq(Payloads) /\ t \in Seq(Payloads) /\ Len(s) = Len(t) /\ Len(s) = Len(order')
    BY <1>1, <1>3 DEF InSequence
  <2>2. s[Len(order')] = t[Len(order')]
    BY <1>1, <1>2, <1>3 DEF InSequence
  <2>3. ASSUME NEW i \in 1..Len(order) PROVE s[i] = t[i]
    <3>1. order[i] # ln /\ order[i] \in Addrs
      BY <1>2, Basics
    <3>2. s[i] = payload[order[i]]
      <4>1. s[i] = payload'[order'[i]] /\ order'[i] = order[i]
        BY <1>1, <1>3 DEF InSequence
      <4> QED BY <1>2, <3>1, <4>1
    <3>3. t[i] = Contents[i]
      BY <1>1 DEF InSequence
    <3> QED BY <1>1, <3>2, <3>3 DEF InSequence
  <2>4. \A i \in 1..Len(s) : i \in 1..Len(order) \/ i = Len(order')
    BY <1>1, <1>3, <2>1 DEF InSequence
  <2> HIDE DEF s, t
  <2> QED BY <2>1, <2>2, <2>3, <2>4, SameSeq DEF s, t
<1>5. Shown = Contents /\ Shown' = Contents' /\ Place = -1 /\ Place' = -1
  BY <1>2 DEF Shown, Place
<1> QED BY <1>2, <1>4, <1>5 DEF Abstract!PushBack, Abstract!None

LEMMA TakeFailsImplements ==
    ASSUME Inv, TakeFails
    PROVE  Abstract!TakeFront
<1>1. InSequence /\ num_elements = Len(order)
  BY Sequence, Basics
<1>2. /\ num_elements = 0 /\ node = NoIter /\ curnode = NULL /\ ret' = Failure
      /\ order' = order /\ payload' = payload /\ node' = node /\ curnode' = curnode
  BY DEF TakeFails, Idle, nodes, sort
<1>3. Contents = <<>> /\ Contents' = Contents
  BY <1>1, <1>2 DEF InSequence, Contents
<1>4. Shown = Contents /\ Shown' = Contents' /\ Place = -1 /\ Place' = -1
  BY <1>2 DEF Shown, Place
<1> QED BY <1>2, <1>3, <1>4 DEF Abstract!TakeFront, Abstract!None, Abstract!Failure, Failure

\* The payloads that are left where a node k was unlinked.
LEMMA RestOfContents ==
    ASSUME Inv, Inv', NEW k \in 1..Len(order), payload' = Freed(payload, order[k]),
           Len(order') = Len(order) - 1,
           \A i \in 1..Len(order') : i < k => order'[i] = order[i],
           \A i \in 1..Len(order') : i >= k => order'[i] = order[i + 1]
    PROVE  /\ Len(Contents') = Len(Contents) - 1
           /\ \A i \in 1..Len(Contents') :
                 Contents'[i] = IF i < k THEN Contents[i] ELSE Contents[i + 1]
<1>1. InSequence /\ InSequence'
  BY Sequence, NextSequence
<1>2. ASSUME NEW j \in 1..Len(order), j # k PROVE payload'[order[j]] = Contents[j]
  <2>1. order[j] # order[k] /\ order[j] \in Addrs
    BY <1>2, Places, Basics
  <2>2. payload \in [Addrs -> Payloads \cup {Undefined}]
    BY DEF Inv, Fields
  <2> QED BY <1>1, <2>1, <2>2 DEF Freed, InSequence
<1>3. ASSUME NEW i \in 1..Len(order')
      PROVE  Contents'[i] = IF i < k THEN Contents[i] ELSE Contents[i + 1]
  <2>1. Contents'[i] = payload'[order'[i]]
    BY <1>1 DEF InSequence
  <2> DEFINE n == Len(order)
  <2>5. n \in Nat /\ k \in 1..n /\ i \in 1..(n - 1)
    BY <1>1 DEF InSequence
  <2>6. (i < k => i \in 1..n /\ i # k) /\ (~(i < k) => i + 1 \in 1..n /\ i + 1 # k /\ i >= k)
    <3> HIDE DEF n
    <3> QED BY <2>5
  <2>2. i < k => i \in 1..Len(order) /\ i # k /\ order'[i] = order[i]
    BY <2>6
  <2>3. ~(i < k) => i + 1 \in 1..Len(order) /\ i + 1 # k /\ i >= k
    BY <2>6
  <2>4. ~(i < k) => order'[i] = order[i + 1]
    BY <2>3
  <2> QED BY <1>2, <2>1, <2>2, <2>3, <2>4
<1> QED BY <1>1, <1>3 DEF InSequence

LEMMA PopImplements ==
    ASSUME Inv, Inv', Pop
    PROVE  Abstract!TakeFront
<1>1. InSequence /\ InSequence' /\ num_elements = Len(order)
  BY Sequence, NextSequence, Basics
<1>2. /\ num_elements # 0 /\ node = NoIter /\ curnode = NULL /\ ret' = Success(payload[head])
      /\ order' = Tail(order) /\ payload' = Freed(payload, head)
      /\ node' = node /\ curnode' = curnode
  BY DEF Pop, Idle, sort
<1>3. 1 \in 1..Len(order) /\ head = order[1] /\ order \in Seq(Addrs)
  BY <1>1, <1>2, Places DEF InSequence, Inv, LinksInv, Linked
<1>4. /\ Len(order') = Len(order) - 1 /\ Len(order') \in Nat
      /\ \A i \in 1..Len(order') : order'[i] = order[i + 1] /\ ~(i < 1)
  BY <1>2, <1>3
<1>5. /\ Len(Contents') = Len(Contents) - 1
      /\ \A i \in 1..Len(Contents') :
            Contents'[i] = IF i < 1 THEN Contents[i] ELSE Contents[i + 1]
  BY <1>2, <1>3, <1>4, RestOfContents
<1>6. Contents' = Tail(Contents) /\ Contents # <<>> /\ Head(Contents) = payload[head]
  <2>1. /\ Contents \in Seq(Payloads) /\ Contents' \in Seq(Payloads)
        /\ Len(Contents) # 0 /\ Len(Contents) \in Nat /\ Contents[1] = payload[head]
    BY <1>1, <1>2, <1>3 DEF InSequence
  <2>2. /\ Tail(Contents) \in Seq(Payloads) /\ Len(Tail(Contents)) = Len(Contents')
        /\ \A i \in 1..Len(Contents') : Tail(Contents)[i] = Contents[i + 1]
    BY <1>5, <2>1
  <2>3. \A i \in 1..Len(Contents') : Contents'[i] = Tail(Contents)[i]
    BY <1>5, <2>1, <2>2
  <2> DEFINE t == Tail(Contents)
  <2>4. Head(Contents) = Contents[1] /\ Contents # <<>>
    BY <2>1
  <2> HIDE DEF t
  <2>5. Contents' = t
    BY <2>1, <2>2, <2>3, SameSeq DEF t
  <2> QED BY <2>1, <2>4, <2>5 DEF t
<1>7. Shown = Contents /\ Shown' = Contents' /\ Place = -1 /\ Place' = -1
  BY <1>2 DEF Shown, Place
<1> QED BY <1>2, <1>6, <1>7 DEF Abstract!TakeFront, Abstract!None, Abstract!Success, Success

LEMMA SliceImplements ==
    ASSUME Inv, Inv', Slice
    PROVE  Abstract!TakeBack
<1> DEFINE n == Len(order)
<1>1. InSequence /\ InSequence' /\ num_elements = Len(order)
  BY Sequence, NextSequence, Basics
<1>2. /\ num_elements # 0 /\ node = NoIter /\ curnode = NULL /\ ret' = Success(payload[tail])
      /\ order' = SubSeq(order, 1, Len(order) - 1) /\ payload' = Freed(payload, tail)
      /\ node' = node /\ curnode' = curnode
  BY DEF Slice, Idle, sort
<1>3. n \in 1..n /\ tail = order[n] /\ order \in Seq(Addrs)
  BY <1>1, <1>2, Places DEF InSequence, Inv, LinksInv, Linked
<1>4. /\ Len(order') = Len(order) - 1 /\ Len(order') \in Nat
      /\ \A i \in 1..Len(order') : order'[i] = order[i] /\ ~(i >= n) /\ i < n
  <2>1. n \in Nat /\ n - 1 \in Nat /\ n - 1 <= n
    BY <1>3
  <2>2. /\ Len(SubSeq(order, 1, n - 1)) = n - 1
        /\ \A i \in 1..(n - 1) : SubSeq(order, 1, n - 1)[i] = order[i]
    <3> DEFINE m == n - 1
    <3>1. m \in 0..Len(order)
      BY <2>1
    <3> HIDE DEF m
    <3>2. /\ Len(SubSeq(order, 1, m)) = m
          /\ \A i \in 1..m : SubSeq(order, 1, m)[i] = order[i]
      BY <1>3, <3>1, FrontIs
    <3> QED BY <3>2 DEF m
  <2>3. \A i \in 1..(n - 1) : ~(i >= n) /\ i < n
    BY <2>1
  <2> QED BY <1>2, <2>1, <2>2, <2>3
<1>5. /\ Len(Contents') = Len(Contents) - 1
      /\ \A i \in 1..Len(Contents') :
            Contents'[i] = IF i < n THEN Contents[i] ELSE Contents[i + 1]
  BY <1>2, <1>3, <1>4, RestOfContents
<1>6. /\ Contents' = SubSeq(Contents, 1, Len(Contents) - 1) /\ Contents # <<>>
      /\ Contents[Len(Contents)] = payload[tail]
  <2>1. /\ Contents \in Seq(Payloads) /\ Contents' \in Seq(Payloads) /\ n = Len(Contents)
        /\ Len(Contents) # 0 /\ Len(Contents) \in Nat /\ Contents[n] = payload[tail]
    BY <1>1, <1>2, <1>3 DEF InSequence
  <2> DEFINE t == SubSeq(Contents, 1, Len(Contents) - 1)
  <2>2. /\ t \in Seq(Payloads) /\ Len(t) = Len(Contents')
        /\ \A i \in 1..Len(Contents') : t[i] = Contents[i] /\ i < n
    BY <1>5, <2>1
  <2>3. \A i \in 1..Len(Contents') : Contents'[i] = t[i]
    BY <1>5, <2>1, <2>2
  <2> HIDE DEF t
  <2>4. Contents' = t
    BY <2>1, <2>2, <2>3, SameSeq
  <2> QED BY <2>1, <2>4 DEF t
<1>7. Shown = Contents /\ Shown' = Contents' /\ Place = -1 /\ Place' = -1
  BY <1>2 DEF Shown, Place
<1> QED BY <1>2, <1>6, <1>7 DEF Abstract!TakeBack, Abstract!None, Abstract!Success, Success

LEMMA FreeListImplements ==
    ASSUME Inv, FreeList
    PROVE  Abstract!Clear
<1>1. /\ node = NoIter /\ curnode = NULL /\ node' = node /\ curnode' = curnode /\ ret' = ret
      /\ order' = <<>>
  BY DEF FreeList, Idle, sort
<1>2. Shown' = <<>> /\ Place = -1 /\ Place' = -1
  BY <1>1 DEF Shown, Place, Contents
<1> QED BY <1>1, <1>2 DEF Abstract!Clear, Abstract!None

-----------------------------------------------------------------------------
\* The iterator's calls.

\* Where the iterator is: nowhere, at the end, or at a place of the sequence.
LEMMA PlaceIs ==
    ASSUME Inv
    PROVE  /\ node = NoIter => Place = -1
           /\ node = NULL => Place = 0
           /\ \A i \in 1..Len(order) : node = order[i] => Place = i
           /\ node \notin {NULL, NoIter} =>
                 Place \in 1..Len(order) /\ order[Place] = node /\ Place > 0
<1>1. InSequence /\ node \in Elems(order) \cup {NULL, NoIter}
  BY Sequence DEF Inv, Cursors
<1>2. \A i \in 1..Len(order) : node = order[i] => Place = i
  BY <1>1 DEF InSequence, Place
<1>3. node \notin {NULL, NoIter} => \E i \in 1..Len(order) : node = order[i]
  BY <1>1 DEF Elems
<1>4. \A i \in 1..Len(order) : i > 0
  OBVIOUS
<1> QED BY <1>2, <1>3, <1>4, Basics DEF Place

PointsRight ==
    /\ node = NoIter => Place = -1
    /\ node = NULL => Place = 0
    /\ \A i \in 1..Len(order) : node = order[i] => Place = i

LEMMA NextPointsRight == Inv' => PointsRight'
<1>1. Inv => PointsRight
  BY PlaceIs DEF PointsRight
<1> QED BY <1>1, PTL

LEMMA NextPlaceIs ==
    ASSUME Inv'
    PROVE  /\ node' = NoIter => Place' = -1
           /\ node' = NULL => Place' = 0
           /\ \A i \in 1..Len(order') : node' = order'[i] => Place' = i
  BY NextPointsRight DEF PointsRight

LEMMA IterateImplements ==
    ASSUME Inv, Inv', Iterate
    PROVE  Abstract!Iterate
<1>1. InSequence /\ num_elements = Len(order)
  BY Sequence, Basics
<1>2. /\ curnode = NULL /\ curnode' = NULL /\ node' = head /\ ret' = ret
      /\ order' = order /\ payload' = payload
  BY DEF Iterate, nodes, sort
<1>3. Shown = Contents /\ Shown' = Contents
  BY <1>2 DEF Shown, Contents
<1>4. Contents = <<>> => Place' = 0
  <2>1. Contents = <<>> => Len(order) = 0
    BY <1>1 DEF InSequence
  <2> QED BY <1>2, <2>1, Places, NextPlaceIs
<1>5. Contents # <<>> => Place' = 1
  <2>1. Contents # <<>> => 1 \in 1..Len(order) /\ Len(order) # 0
    BY <1>1 DEF InSequence
  <2> QED BY <1>2, <2>1, Places, NextPlaceIs
<1> QED BY <1>2, <1>3, <1>4, <1>5 DEF Abstract!Iterate, Abstract!End

LEMMA FreeIteratorImplements ==
    ASSUME Inv, Inv', FreeIterator
    PROVE  Abstract!FreeIterator
<1>1. /\ node' = NoIter /\ ret' = ret /\ order' = order /\ payload' = payload
      /\ curnode' = curnode /\ unsorted' = unsorted
  BY DEF FreeIterator, nodes, sort
<1>2. Shown' = Shown
  BY <1>1 DEF Shown, Contents
<1> QED BY <1>1, <1>2, NextPlaceIs DEF Abstract!FreeIterator, Abstract!None

LEMMA AdvanceImplements ==
    ASSUME Inv, Inv', Advance
    PROVE  Abstract!Advance
<1>1. InSequence
  BY Sequence
<1>2. /\ node \notin {NULL, NoIter} /\ node' = next[node] /\ ret' = Flag(node' # NULL)
      /\ order' = order /\ payload' = payload /\ curnode' = curnode /\ unsorted' = unsorted
  BY DEF Advance, nodes, sort
<1>3. curnode = NULL
  BY <1>2 DEF Inv, Cursors
<1>4. Shown = Contents /\ Shown' = Contents
  BY <1>2, <1>3 DEF Shown, Contents
<1>5. Place \in 1..Len(order) /\ order[Place] = node /\ Place > 0
  BY <1>2, PlaceIs
<1>6. next[node] = IF Place = Len(order) THEN NULL ELSE order[Place + 1]
  BY <1>5, Places
<1>7. CASE Place = Len(order)
  <2>1. node' = NULL /\ Place' = 0 /\ ~(Place < Len(Contents))
    BY <1>1, <1>2, <1>6, <1>7, NextPlaceIs DEF InSequence
  <2> QED BY <1>2, <1>4, <1>5, <2>1 DEF Abstract!Advance, Abstract!End, Flag
<1>8. CASE Place # Len(order)
  <2>0. Len(order) \in Nat /\ Len(Contents) = Len(order)
    BY <1>1 DEF InSequence
  <2>1. Place + 1 \in 1..Len(order) /\ Place < Len(Contents)
    BY <1>5, <1>8, <2>0
  <2>2. node' = order[Place + 1] /\ node' # NULL
    BY <1>1, <1>2, <1>6, <1>8, <2>1 DEF InSequence
  <2>3. Place' = Place + 1
    BY <1>2, <2>1, <2>2, NextPlaceIs
  <2>4. Place' # 0
    BY <1>5, <2>3
  <2> QED BY <1>2, <1>4, <1>5, <2>1, <2>2, <2>3, <2>4 DEF Abstract!Advance, Abstract!End, Flag
<1> QED BY <1>7, <1>8

LEMMA GetImplements ==
    ASSUME Inv, Get
    PROVE  Abstract!Get
<1>1. InSequence
  BY Sequence
<1>2. /\ node \notin {NULL, NoIter} /\ node' = node /\ ret' = Success(payload[node])
      /\ order' = order /\ payload' = payload /\ curnode' = curnode /\ unsorted' = unsorted
  BY DEF Get, nodes, sort
<1>3. curnode = NULL
  BY <1>2 DEF Inv, Cursors
<1>4. Shown = Contents /\ Shown' = Contents /\ Place' = Place
  BY <1>2, <1>3 DEF Shown, Contents, Place, IndexOf
<1>5. Place \in 1..Len(order) /\ order[Place] = node /\ Place > 0
  BY <1>2, PlaceIs
<1>6. Contents[Place] = payload[node]
  BY <1>1, <1>5 DEF InSequence
<1> QED BY <1>2, <1>4, <1>5, <1>6 DEF Abstract!Get, Abstract!Success, Success

LEMMA RemoveImplements ==
    ASSUME Inv, Inv', Remove
    PROVE  Abstract!RemoveCurrent
<1> DEFINE n == Len(order)
           k == Place
           front == SubSeq(Contents, 1, k - 1)
           rest == SubSeq(Contents, k + 1, n)
<1>1. InSequence /\ InSequence' /\ num_elements = n
  BY Sequence, NextSequence, Basics
<1>2. /\ node \notin {NULL, NoIter} /\ payload' = Freed(payload, node)
      /\ order' = OrderWithout(node) /\ num_elements' = num_elements - 1
      /\ ret' = Flag(num_elements' # 0) /\ curnode' = curnode
  BY DEF Remove, sort
<1>3. curnode = NULL
  BY <1>2 DEF Inv, Cursors
<1>4. Shown = Contents /\ Shown' = Contents'
  BY <1>2, <1>3 DEF Shown
<1>5. k \in 1..n /\ order[k] = node /\ k > 0 /\ n \in Nat
  BY <1>1, <1>2, PlaceIs DEF InSequence
<1>6. IndexOf(node) = k
  BY <1>1, <1>5 DEF InSequence
<1> HIDE DEF k
<1>7. /\ Len(order') = n - 1 /\ num_elements' = n - 1
      /\ \A i \in 1..(n - 1) : i < k => order'[i] = order[i]
      /\ \A i \in 1..(n - 1) : i >= k => order'[i] = order[i + 1]
  <2>1. order' = [i \in 1..(n - 1) |-> IF i < k THEN order[i] ELSE order[i + 1]]
    BY <1>2, <1>6 DEF OrderWithout
  <2>2. DOMAIN order' = 1..Len(order') /\ Len(order') \in Nat /\ n - 1 \in Nat
    BY <1>1, <1>5 DEF InSequence
  <2>3. Len(order') = n - 1
    BY <1>1, <1>2, Basics, <2>1, <2>2 DEF Inv, LinksInv
  <2>4. \A i \in 1..(n - 1) : order'[i] = IF i < k THEN order[i] ELSE order[i + 1]
    BY <2>1
  <2>5. \A i \in 1..(n - 1) : i >= k => ~(i < k)
    BY <1>5
  <2> QED BY <1>1, <1>2, <2>3, <2>4, <2>5
<1>8. /\ Len(Contents') = n - 1
      /\ \A i \in 1..(n - 1) : Contents'[i] = IF i < k THEN Contents[i] ELSE Contents[i + 1]
  <2>1. Len(Contents) = n /\ payload' = Freed(payload, order[k])
    BY <1>1, <1>2, <1>5 DEF InSequence
  <2> QED BY <1>5, <1>7, <2>1, RestOfContents
<1>9. Contents' = front \o rest
  <2>1. Contents \in Seq(Payloads) /\ Contents' \in Seq(Payloads) /\ Len(Contents) = n
    BY <1>1 DEF InSequence
  <2>2. /\ front \in Seq(Payloads) /\ Len(front) = k - 1
        /\ \A i \in 1..(k - 1) : front[i] = Contents[i]
    <3> DEFINE m == k - 1
    <3>1. m \in 0..Len(Contents)
      BY <1>5, <2>1
    <3> HIDE DEF m
    <3>2. /\ SubSeq(Contents, 1, m) \in Seq(Payloads) /\ Len(SubSeq(Contents, 1, m)) = m
          /\ \A i \in 1..m : SubSeq(Contents, 1, m)[i] = Contents[i]
      BY <2>1, <3>1, FrontIs
    <3> QED BY <3>2 DEF m
  <2>3. /\ rest \in Seq(Payloads) /\ Len(rest) = n - k
        /\ \A i \in 1..(n - k) : rest[i] = Contents[k + i]
    <3> DEFINE m == k + 1
    <3>1. m \in Nat \ {0} /\ n \in 0..Len(Contents) /\ m <= n + 1
      BY <1>5, <2>1
    <3>2. n - m + 1 = n - k /\ \A i \in 1..(n - k) : m + i - 1 = k + i
      BY <1>5
    <3> HIDE DEF m, n
    <3>3. /\ SubSeq(Contents, m, n) \in Seq(Payloads) /\ Len(SubSeq(Contents, m, n)) = n - m + 1
          /\ \A i \in 1..(n - m + 1) : SubSeq(Contents, m, n)[i] = Contents[m + i - 1]
      BY <2>1, <3>1, CutIs
    <3> QED BY <3>2, <3>3 DEF m
  <2> DEFINE t == front \o rest
  <2> HIDE DEF front, rest, n
  <2>4. t \in Seq(Payloads) /\ Len(t) = n - 1
    <3>1. t \in Seq(Payloads) /\ Len(t) = Len(front) + Len(rest)
      BY <2>2, <2>3
    <3>2. (k - 1) + (n - k) = n - 1
      BY <1>5
    <3> HIDE DEF t
    <3> QED BY <2>2, <2>3, <3>1, <3>2
  <2>5. ASSUME NEW i \in 1..(n - 1) PROVE Contents'[i] = t[i]
    <3>1. CASE i < k
      <4>1. i \in 1..(k - 1) /\ i \in 1..Len(front)
        BY <1>5, <2>2, <3>1
      <4>2. t[i] = front[i]
        BY <2>2, <2>3, <4>1
      <4> QED BY <1>8, <2>2, <3>1, <4>1, <4>2
    <3>2. CASE ~(i < k)
      <4>1. i - (k - 1) \in 1..(n - k) /\ k + (i - (k - 1)) = i + 1
        BY <1>5, <3>2
      <4>2. t[i] = rest[i - (k - 1)]
        BY <1>5, <2>2, <2>3, <3>2, <4>1
      <4> QED BY <1>8, <2>3, <3>2, <4>1, <4>2
    <3> QED BY <3>1, <3>2
  <2> HIDE DEF t
  <2>6. Contents' = t
    BY <1>8, <2>1, <2>4, <2>5, SameSeq
  <2> QED BY <2>6 DEF t
<1>10. Place' = IF k < n THEN k ELSE k - 1
  <2>1. /\ next[node] = IF k = n THEN NULL ELSE order[k + 1]
        /\ prev[node] = IF k = 1 THEN NULL ELSE order[k - 1]
    BY <1>5, Places
  <2>2. /\ k # n => k + 1 \in 1..n /\ order[k + 1] # NULL /\ k \in 1..(n - 1) /\ k < n
        /\ k # 1 => k - 1 \in 1..n /\ order[k - 1] # NULL /\ k - 1 \in 1..(n - 1) /\ k - 1 < k
        /\ k = n => ~(k < n)
    <3>1. /\ k # n => k + 1 \in 1..n /\ k \in 1..(n - 1) /\ k < n
          /\ k # 1 => k - 1 \in 1..n /\ k - 1 \in 1..(n - 1) /\ k - 1 < k
          /\ k = n => ~(k < n)
      <4> HIDE DEF n
      <4> QED BY <1>5
    <3> QED BY <1>1, <3>1 DEF InSequence
  <2>3. CASE k # n
    <3>1. next[node] = order[k + 1] /\ next[node] # NULL /\ n # 1
      BY <1>5, <2>1, <2>2, <2>3
    <3>2. node' = next[node]
      BY <1>1, <3>1 DEF Remove, RemoveOnly, RemoveHead, RemoveTail, RemoveMiddle
    <3>3. node' = order'[k] /\ k \in 1..Len(order')
      <4>1. k >= k
        BY <1>5
      <4> QED BY <1>7, <2>2, <2>3, <3>1, <3>2, <4>1
    <3> QED BY <2>2, <2>3, <3>3, NextPlaceIs
  <2>4. CASE k = n /\ n # 1
    <3>1. next[node] = NULL /\ prev[node] = order[k - 1] /\ prev[node] # NULL
      BY <2>1, <2>2, <2>4
    <3>2. node' = prev[node]
      BY <1>1, <2>4, <3>1 DEF Remove, RemoveOnly, RemoveHead, RemoveTail, RemoveMiddle
    <3>3. node' = order'[k - 1] /\ k - 1 \in 1..Len(order')
      BY <1>7, <2>2, <2>4, <3>1, <3>2
    <3> QED BY <2>2, <2>4, <3>3, NextPlaceIs
  <2>5. CASE n = 1
    <3>1. k = 1 /\ k - 1 = 0 /\ ~(k < n)
      BY <1>5, <2>5
    <3>2. prev[node] = NULL /\ next[node] = NULL
      BY <2>1, <2>5, <3>1
    <3>3. node' = NULL
      BY <1>1, <2>5, <3>2 DEF Remove, RemoveOnly, RemoveHead, RemoveTail, RemoveMiddle
    <3> QED BY <3>1, <3>3, NextPlaceIs
  <2> QED BY <2>3, <2>4, <2>5
<1>11. (num_elements' # 0) = (Contents' # <<>>)
  <2>1. num_elements' = Len(Contents') /\ Contents' \in Seq(Payloads)
    BY <1>1, <1>7, <1>8 DEF InSequence
  <2>2. num_elements' # 0 <=> Contents' # <<>>
    BY <2>1
  <2> QED BY <2>2
<1>12. Len(Contents) = n
  BY <1>1 DEF InSequence
<1> QED BY <1>2, <1>4, <1>5, <1>9, <1>10, <1>11, <1>12 DEF Abstract!RemoveCurrent, Flag, k

-----------------------------------------------------------------------------
\* The bubble sort: one sorting step of the sequence.

\* The payload at each place came from the place f of the unsorted list, and those the
\* comparator takes as equal are still in the order they had.
Arranged(f) ==
    /\ f \in [1..Len(order) -> 1..Len(order)]
    /\ \A i, j \in 1..Len(order) : f[i] = f[j] => i = j
    /\ \A i \in 1..Len(order) : payload[order[i]] = unsorted[f[i]]
    /\ \A i, j \in 1..Len(order) :
          i < j /\ Rank(payload[order[i]]) = Rank(payload[order[j]]) => f[i] < f[j]

\* A pass that has swapped nothing has found the pairs behind it in order.
Sorting ==
    curnode # NULL =>
       /\ Len(unsorted) = Len(order)
       /\ \E f : Arranged(f)
       /\ ~swapped => \A i \in 1..(IndexOf(curnode) - 1) : ~OutOfOrder(order[i], order[i + 1])

LEMMA OutOfOrderIs ==
    ASSUME Inv, NEW i \in 1..Len(order), NEW j \in 1..Len(order)
    PROVE  LET p == Rank(payload[order[i]])
               q == Rank(payload[order[j]])
           IN  /\ p \in Int /\ q \in Int
               /\ OutOfOrder(order[i], order[j]) <=> IF ascending THEN p > q ELSE p < q
<1> DEFINE p == Rank(payload[order[i]])
           q == Rank(payload[order[j]])
<1>1. p \in Int /\ q \in Int
  BY Basics DEF ListAssumption
<1>2. Compare(payload[order[i]], payload[order[j]]) = IF p < q THEN -1 ELSE IF p = q THEN 0 ELSE 1
  BY DEF Compare
<1> DEFINE c == Compare(payload[order[i]], payload[order[j]])
<1>3. OutOfOrder(order[i], order[j]) <=> (IF ascending THEN -c ELSE c) < 0
  BY DEF OutOfOrder
<1> HIDE DEF p, q, c
<1>4. c \in Int /\ (-c < 0 <=> p > q) /\ (c < 0 <=> p < q)
  BY <1>1, <1>2 DEF c
<1>5. OutOfOrder(order[i], order[j]) <=> IF ascending THEN p > q ELSE p < q
  BY <1>3, <1>4
<1> QED BY <1>1, <1>5 DEF p, q

LEMMA SortBeginSorting ==
    ASSUME Inv, Inv', NEW asc \in BOOLEAN, SortBegin(asc)
    PROVE  Sorting' /\ UNCHANGED <<Shown, Place, ret>>
<1>1. InSequence /\ InSequence' /\ num_elements = Len(order)
  BY Sequence, NextSequence, Basics
<1>2. /\ node = NoIter /\ node' = NoIter /\ curnode = NULL /\ curnode' = head /\ num_elements >= 2
      /\ unsorted' = Contents /\ order' = order /\ payload' = payload /\ ret' = ret
  BY DEF SortBegin, Idle, nodes
<1>3. head = order[1] /\ 1 \in 1..Len(order) /\ head # NULL
  <2>1. Len(order) \in Nat /\ Len(order) >= 2
    BY <1>1, <1>2 DEF InSequence
  <2>2. Len(order) # 0 /\ 1 \in 1..Len(order)
    BY <2>1
  <2> QED BY <1>1, <2>2, Places DEF InSequence
<1>4. UNCHANGED <<Shown, Place, ret>>
  BY <1>2, <1>3 DEF Shown, Place
<1>5. IndexOf(curnode)' = 1
  BY <1>1, <1>2, <1>3 DEF InSequence
<1>6. \A i \in 1..(IndexOf(curnode)' - 1) : FALSE
  BY <1>5
<1>7. Arranged([i \in 1..Len(order) |-> i])'
  BY <1>1, <1>2 DEF Arranged, InSequence
<1>8. Len(unsorted') = Len(order')
  BY <1>1, <1>2 DEF InSequence
<1> QED BY <1>4, <1>6, <1>7, <1>8 DEF Sorting

\* Swapping two neighbours that the comparator tells apart.
LEMMA SwapArranged ==
    ASSUME Inv, NEW f, Arranged(f), NEW k \in 1..(Len(order) - 1),
           Rank(payload[order[k]]) # Rank(payload[order[k + 1]]),
           payload' = [payload EXCEPT ![order[k]] = payload[order[k + 1]],
                                      ![order[k + 1]] = payload[order[k]]],
           order' = order, unsorted' = unsorted
    PROVE  \E g : Arranged(g)'
<1> DEFINE n == Len(order)
           At(i) == IF i = k THEN k + 1 ELSE IF i = k + 1 THEN k ELSE i
<1>1. n \in Nat /\ k \in 1..n /\ k + 1 \in 1..n /\ k # k + 1
  BY Basics
<1>2. /\ \A i \in 1..n : At(i) \in 1..n
      /\ \A i, j \in 1..n : At(i) = At(j) => i = j
      /\ \A i, j \in 1..n : i < j /\ ~(i = k /\ j = k + 1) => At(i) < At(j)
  <2> HIDE DEF n
  <2> QED BY <1>1
<1>3. \A i \in 1..n : payload'[order'[i]] = payload[order[At(i)]]
  <2> SUFFICES ASSUME NEW i \in 1..n PROVE payload'[order[i]] = payload[order[At(i)]]
    OBVIOUS
  <2>1. /\ payload \in [Addrs -> Payloads \cup {Undefined}]
        /\ order[i] \in Addrs /\ order[k] \in Addrs /\ order[k + 1] \in Addrs
        /\ order[i] = order[k] => i = k
        /\ order[i] = order[k + 1] => i = k + 1
        /\ order[k] # order[k + 1]
    BY <1>1, Basics, Places DEF Inv, Fields
  <2> HIDE DEF n
  <2>2. CASE i = k
    BY <2>1, <2>2
  <2>3. CASE i = k + 1
    BY <1>1, <2>1, <2>3
  <2>4. CASE i # k /\ i # k + 1
    BY <2>1, <2>4
  <2> QED BY <2>2, <2>3, <2>4
<1> HIDE DEF At
<1>4. PICK g : g \in [1..n -> 1..n] /\ \A i \in 1..n : g[i] = f[At(i)]
  <2>1. f \in [1..n -> 1..n] /\ \A i \in 1..n : At(i) \in 1..n
    BY <1>2 DEF Arranged
  <2> DEFINE g == [i \in 1..n |-> f[At(i)]]
  <2> HIDE DEF n
  <2>2. g \in [1..n -> 1..n] /\ \A i \in 1..n : g[i] = f[At(i)]
    BY <2>1
  <2> QED BY <2>2
<1>5. \A i, j \in 1..n : g[i] = g[j] => i = j
  BY <1>2, <1>4 DEF Arranged
<1>6. ASSUME NEW i \in 1..n PROVE payload'[order'[i]] = unsorted'[g[i]]
  <2>1. At(i) \in 1..n /\ payload'[order'[i]] = payload[order[At(i)]] /\ g[i] = f[At(i)]
    BY <1>2, <1>3, <1>4
  <2> QED BY <2>1 DEF Arranged
<1>7. ASSUME NEW i \in 1..n, NEW j \in 1..n, i < j,
             Rank(payload'[order'[i]]) = Rank(payload'[order'[j]])
      PROVE  g[i] < g[j]
  <2>1. Rank(payload[order[At(i)]]) = Rank(payload[order[At(j)]])
    BY <1>3, <1>7
  <2>2. ~(i = k /\ j = k + 1)
    <3>1. At(k) = k + 1 /\ At(k + 1) = k
      BY <1>1 DEF At
    <3> QED BY <2>1, <3>1
  <2>3. At(i) < At(j) /\ At(i) \in 1..n /\ At(j) \in 1..n
    BY <1>2, <1>7, <2>2
  <2>4. f[At(i)] < f[At(j)]
    BY <2>1, <2>3 DEF Arranged
  <2> QED BY <1>4, <2>4
<1>8. Arranged(g)'
  <2>1. Len(order') = n
    OBVIOUS
  <2> HIDE DEF n
  <2>2. /\ g \in [1..n -> 1..n]
        /\ \A i, j \in 1..n : g[i] = g[j] => i = j
        /\ \A i \in 1..n : payload'[order'[i]] = unsorted'[g[i]]
        /\ \A i, j \in 1..n :
              i < j /\ Rank(payload'[order'[i]]) = Rank(payload'[order'[j]]) => g[i] < g[j]
    BY <1>4, <1>5, <1>6, <1>7
  <2> QED BY <2>1, <2>2 DEF Arranged
<1> QED BY <1>8

LEMMA SortCompareSorting ==
    ASSUME Inv, Inv', Sorting, SortCompare
    PROVE  Sorting' /\ UNCHANGED <<Shown, Place, ret>>
<1> DEFINE n == Len(order)
           k == IndexOf(curnode)
<1>1. InSequence /\ InSequence'
  BY Sequence, NextSequence
<1>2. /\ curnode # NULL /\ next[curnode] # NULL /\ curnode' = next[curnode] /\ node = NoIter
      /\ node' = node /\ order' = order /\ ascending' = ascending /\ unsorted' = unsorted
      /\ ret' = ret
  BY DEF SortCompare, Inv, Cursors
<1>3. k \in 1..n /\ order[k] = curnode
  <2>1. curnode \in Elems(order)
    BY <1>2 DEF Inv, Cursors
  <2>2. PICK i \in 1..n : order[i] = curnode
    BY <2>1 DEF Elems
  <2> QED BY <1>1, <2>2 DEF InSequence
<1>4. k + 1 \in 1..n /\ k \in 1..(n - 1) /\ next[curnode] = order[k + 1]
  <2>1. next[curnode] = IF k = n THEN NULL ELSE order[k + 1]
    BY <1>3, Places
  <2>2. n \in Nat /\ k # n
    BY <1>1, <1>2, <2>1 DEF InSequence
  <2> HIDE DEF n, k
  <2> QED BY <1>3, <2>1, <2>2
<1>5. UNCHANGED <<Shown, Place, ret>>
  BY <1>2 DEF Shown, Place
<1>6. IndexOf(curnode)' = k + 1
  <2>1. curnode' = order'[k + 1] /\ k + 1 \in 1..Len(order')
    BY <1>2, <1>4
  <2> QED BY <1>1, <2>1 DEF InSequence
<1>7. PICK f : Arranged(f)
  BY <1>2 DEF Sorting
<1>8. Len(unsorted') = Len(order')
  BY <1>2 DEF Sorting
<1>9. CASE OutOfOrder(curnode, next[curnode])
  <2>1. /\ payload' = [payload EXCEPT ![order[k]] = payload[order[k + 1]],
                                      ![order[k + 1]] = payload[order[k]]]
        /\ swapped' = TRUE
    BY <1>3, <1>4, <1>9 DEF SortCompare
  <2>2. Rank(payload[order[k]]) # Rank(payload[order[k + 1]])
    <3>1. OutOfOrder(order[k], order[k + 1])
      BY <1>3, <1>4, <1>9
    <3> HIDE DEF k, n
    <3> QED BY <1>3, <1>4, <3>1, OutOfOrderIs DEF n
  <2>3. \E g : Arranged(g)'
    <3> HIDE DEF k
    <3> QED BY <1>2, <1>4, <1>7, <2>1, <2>2, SwapArranged
  <2> QED BY <1>5, <1>8, <2>1, <2>3 DEF Sorting
<1>10. CASE ~OutOfOrder(curnode, next[curnode])
  <2>1. payload' = payload /\ swapped' = swapped
    BY <1>10 DEF SortCompare
  <2>2. Arranged(f)'
    BY <1>2, <1>7, <2>1 DEF Arranged
  <2>3. ASSUME ~swapped', NEW i \in 1..k PROVE ~OutOfOrder(order[i], order[i + 1])'
    <3>1. i \in 1..(k - 1) \/ i = k
      BY <1>3
    <3>2. ~OutOfOrder(order[i], order[i + 1])
      BY <1>2, <1>3, <1>4, <1>10, <2>1, <2>3, <3>1 DEF Sorting
    <3> QED BY <1>2, <2>1, <3>2 DEF OutOfOrder
  <2>4. ~swapped' => \A i \in 1..(IndexOf(curnode)' - 1) : ~OutOfOrder(order[i], order[i + 1])'
    <3>1. IndexOf(curnode)' - 1 = k
      <4> HIDE DEF k
      <4> QED BY <1>3, <1>6
    <3> QED BY <2>3, <3>1
  <2> QED BY <1>5, <1>8, <2>2, <2>4 DEF Sorting
<1> QED BY <1>9, <1>10

LEMMA Chain ==
    ASSUME NEW n \in Nat, NEW r \in [1..n -> Int],
           \A i \in 1..(n - 1) : r[i] <= r[i + 1]
    PROVE  \A i, j \in 1..n : i < j => r[i] <= r[j]
<1> SUFFICES ASSUME NEW i \in 1..n, NEW j \in 1..n, i < j, ~(r[i] <= r[j]) PROVE FALSE
  OBVIOUS
<1> DEFINE T == {m \in 1..n : i < m /\ ~(r[i] <= r[m])}
<1>1. T \subseteq Nat /\ T # {}
  <2>1. j \in T
    OBVIOUS
  <2>2. \A m \in 1..n : m \in Nat
    OBVIOUS
  <2> QED BY <2>1, <2>2
<1>2. PICK m \in T : \A y \in T : m <= y
  BY <1>1, LeastElement
<1>3. m - 1 \in 1..(n - 1) /\ (m - 1) + 1 = m /\ m - 1 \in 1..n /\ m \in 1..n /\ i < m
  OBVIOUS
<1>4. r[m - 1] <= r[m]
  BY <1>3
<1>5. r[i] <= r[m - 1]
  <2>1. CASE m - 1 = i
    BY <2>1
  <2>2. CASE m - 1 # i
    <3>1. i < m - 1 /\ ~(m <= m - 1)
      BY <1>3, <2>2
    <3>2. m - 1 \notin T
      BY <1>2, <3>1
    <3> QED BY <1>3, <3>1, <3>2
  <2> QED BY <2>1, <2>2
<1>6. r[i] \in Int /\ r[m - 1] \in Int /\ r[m] \in Int
  BY <1>3
<1> QED BY <1>2, <1>4, <1>5, <1>6

LEMMA SortPassDoneSorting ==
    ASSUME Inv, Inv', Sorting, SortPassDone
    PROVE  /\ Sorting'
           /\ \/ UNCHANGED <<Shown, Place, ret>>
              \/ \E f \in [DOMAIN Shown -> DOMAIN Shown], asc \in BOOLEAN : Abstract!SortBy(f, asc)
<1> DEFINE n == Len(order)
           k == IndexOf(curnode)
<1>1. InSequence /\ InSequence' /\ n \in Nat
  BY Sequence, NextSequence DEF InSequence
<1>2. /\ curnode # NULL /\ next[curnode] = NULL /\ node = NoIter /\ node' = node
      /\ order' = order /\ payload' = payload /\ ret' = ret
  BY DEF SortPassDone, Inv, Cursors, nodes
<1>3. k \in 1..n /\ order[k] = curnode
  <2>1. curnode \in Elems(order)
    BY <1>2 DEF Inv, Cursors
  <2>2. PICK i \in 1..n : order[i] = curnode
    BY <2>1 DEF Elems
  <2> QED BY <1>1, <2>2 DEF InSequence
<1>4. k = n
  <2>1. next[curnode] = IF k = n THEN NULL ELSE order[k + 1]
    BY <1>3, Places
  <2>2. k # n => k + 1 \in 1..n
    BY <1>1, <1>3
  <2> QED BY <1>1, <1>2, <2>1, <2>2 DEF InSequence
<1>5. PICK f : Arranged(f)
  BY <1>2 DEF Sorting
<1>6. CASE swapped
  <2>1. /\ curnode' = head /\ unsorted' = unsorted /\ ascending' = ascending
    BY <1>6 DEF SortPassDone
  <2>2. head = order[1] /\ 1 \in 1..n /\ head # NULL
    <3>1. 1 \in 1..n /\ n # 0
      BY <1>1, <1>3
    <3> QED BY <1>1, <3>1, Places DEF InSequence
  <2>3. IndexOf(curnode)' = 1
    BY <1>1, <1>2, <2>1, <2>2 DEF InSequence
  <2>4. \A i \in 1..(IndexOf(curnode)' - 1) : FALSE
    BY <2>3
  <2>5. Arranged(f)'
    BY <1>2, <1>5, <2>1 DEF Arranged
  <2>6. Len(unsorted') = Len(order')
    BY <1>2, <2>1 DEF Sorting
  <2>7. Sorting'
    BY <2>4, <2>5, <2>6 DEF Sorting
  <2>8. UNCHANGED <<Shown, Place, ret>>
    BY <1>2, <2>1, <2>2 DEF Shown, Place
  <2> QED BY <2>7, <2>8
<1>7. CASE ~swapped
  <2>1. curnode' = NULL
    BY <1>7 DEF SortPassDone
  <2>2. Shown = unsorted /\ Shown' = Contents /\ Place = -1 /\ Place' = -1
    BY <1>2, <2>1 DEF Shown, Place, Contents
  <2>3. /\ DOMAIN unsorted = 1..n /\ ascending \in BOOLEAN
        /\ f \in [1..n -> 1..n] /\ \A i, j \in 1..n : f[i] = f[j] => i = j
    BY <1>2, <1>5 DEF Sorting, Arranged, Inv, Cursors
  <2>4. Contents = [i \in 1..n |-> unsorted[f[i]]]
    <3>1. Contents = [i \in 1..n |-> payload[order[i]]]
      BY <1>1 DEF InSequence, Contents
    <3>2. \A i \in 1..n : payload[order[i]] = unsorted[f[i]]
      BY <1>5 DEF Arranged
    <3> HIDE DEF n
    <3> QED BY <3>1, <3>2
  <2> DEFINE R(i) == Rank(payload[order[i]])
             r == [i \in 1..n |-> IF ascending THEN R(i) ELSE -R(i)]
  <2>5. \A i \in 1..n : R(i) \in Int
    BY Basics DEF ListAssumption
  <2>6. ASSUME NEW i \in 1..(n - 1) PROVE r[i] <= r[i + 1]
    <3>1. i \in 1..n /\ i + 1 \in 1..n /\ i \in 1..(k - 1)
      BY <1>1, <1>4
    <3>2. ~OutOfOrder(order[i], order[i + 1])
      BY <1>2, <1>7, <3>1 DEF Sorting
    <3>3. ~(IF ascending THEN R(i) > R(i + 1) ELSE R(i) < R(i + 1))
      BY <3>1, <3>2, OutOfOrderIs
    <3>4. R(i) \in Int /\ R(i + 1) \in Int
      BY <2>5, <3>1
    <3>5. /\ r[i] = IF ascending THEN R(i) ELSE -R(i)
          /\ r[i + 1] = IF ascending THEN R(i + 1) ELSE -R(i + 1)
      BY <3>1
    <3> HIDE DEF R, r
    <3> QED BY <3>3, <3>4, <3>5
  <2>7. \A i, j \in 1..n : i < j => r[i] <= r[j]
    <3>1. r \in [1..n -> Int]
      <4> HIDE DEF R, n
      <4> QED BY <2>5
    <3> HIDE DEF r, n
    <3> QED BY <1>1, <2>6, <3>1, Chain
  <2>8. ASSUME NEW i \in 1..n, NEW j \in 1..n, i < j
        PROVE  \/ IF ascending THEN R(i) < R(j) ELSE R(i) > R(j)
               \/ R(i) = R(j) /\ f[i] < f[j]
    <3>1. /\ r[i] = IF ascending THEN R(i) ELSE -R(i)
          /\ r[j] = IF ascending THEN R(j) ELSE -R(j)
      OBVIOUS
    <3>2. r[i] <= r[j] /\ R(i) \in Int /\ R(j) \in Int
      BY <2>5, <2>7, <2>8
    <3>3. R(i) = R(j) => f[i] < f[j]
      BY <1>5, <2>8 DEF Arranged
    <3> HIDE DEF R, r
    <3> QED BY <3>1, <3>2, <3>3
  <2>9. \A i \in 1..n : Shown'[i] = payload[order[i]]
    BY <1>1, <2>2 DEF InSequence
  <2>10. Abstract!SortBy(f, ascending)
    <3>1. Abstract!Permutation(f, DOMAIN Shown)
      BY <2>2, <2>3 DEF Abstract!Permutation
    <3>2. Shown' = [i \in DOMAIN Shown |-> Shown[f[i]]]
      BY <2>2, <2>3, <2>4
    <3>3. \A i, j \in DOMAIN Shown : i < j =>
             \/ IF ascending THEN Rank(Shown'[i]) < Rank(Shown'[j])
                             ELSE Rank(Shown'[i]) > Rank(Shown'[j])
             \/ Rank(Shown'[i]) = Rank(Shown'[j]) /\ f[i] < f[j]
      BY <2>2, <2>3, <2>8, <2>9
    <3> QED BY <1>2, <2>2, <3>1, <3>2, <3>3 DEF Abstract!SortBy, Abstract!None
  <2>11. Sorting'
    BY <2>1 DEF Sorting
  <2> QED BY <2>2, <2>3, <2>10, <2>11
<1> QED BY <1>6, <1>7

-----------------------------------------------------------------------------
LEMMA StepImplements ==
    Inv /\ Inv' /\ Sorting /\ [Next]_vars => Sorting' /\ [Abstract!Next]_(Abstract!vars)
<1> SUFFICES ASSUME Inv, Inv', Sorting, [Next]_vars
             PROVE  Sorting' /\ [Abstract!Next]_(Abstract!vars)
  OBVIOUS
<1>1. curnode' = NULL => Sorting'
  BY DEF Sorting
<1>2. UNCHANGED <<Shown, Place, ret>> => [Abstract!Next]_(Abstract!vars)
  BY DEF Abstract!vars
<1>3. ASSUME NEW ln \in Addrs, NEW p \in Payloads, Push(ln, p) \/ AppendNode(ln, p)
      PROVE  Sorting' /\ Abstract!Next
  <2>1. curnode' = NULL
    BY <1>3 DEF Push, AppendNode, Idle, sort
  <2> QED BY <1>1, <1>3, <2>1, PushImplements, AppendImplements DEF Abstract!Next
<1>4. CASE TakeFails \/ Pop \/ Slice \/ FreeList
  <2>1. curnode' = NULL
    BY <1>4 DEF TakeFails, Pop, Slice, FreeList, Idle, sort
  <2> QED BY <1>1, <1>4, <2>1, TakeFailsImplements, PopImplements, SliceImplements,
             FreeListImplements DEF Abstract!Next
<1>5. ASSUME NEW asc \in BOOLEAN, SortBegin(asc) PROVE Sorting' /\ [Abstract!Next]_(Abstract!vars)
  BY <1>2, <1>5, SortBeginSorting
<1>6. CASE SortCompare
  BY <1>2, <1>6, SortCompareSorting
<1>7. CASE SortPassDone
  BY <1>2, <1>7, SortPassDoneSorting DEF Abstract!Next
<1>8. CASE Iterate \/ FreeIterator \/ Advance \/ Get \/ Remove
  <2>1. curnode' = NULL
    BY <1>8 DEF Iterate, FreeIterator, Advance, Get, Remove, sort, Inv, Cursors
  <2> QED BY <1>1, <1>8, <2>1, IterateImplements, FreeIteratorImplements, AdvanceImplements,
             GetImplements, RemoveImplements DEF Abstract!Next
<1>9. CASE UNCHANGED vars
  <2>1. /\ order' = order /\ payload' = payload /\ node' = node /\ ret' = ret
        /\ curnode' = curnode /\ swapped' = swapped /\ ascending' = ascending
        /\ unsorted' = unsorted
    BY <1>9 DEF vars, nodes, sort
  <2>2. UNCHANGED <<Shown, Place, ret>>
    BY <2>1 DEF Shown, Place, Contents, IndexOf
  <2>3. Sorting'
    <3>1. IndexOf(curnode)' = IndexOf(curnode)
      BY <2>1 DEF IndexOf
    <3>2. \A f : Arranged(f) => Arranged(f)'
      BY <2>1 DEF Arranged
    <3>3. \A a, b : OutOfOrder(a, b)' <=> OutOfOrder(a, b)
      BY <2>1 DEF OutOfOrder
    <3> QED BY <2>1, <3>1, <3>2, <3>3 DEF Sorting
  <2> QED BY <1>2, <2>2, <2>3
<1> QED BY <1>3, <1>4, <1>5, <1>6, <1>7, <1>8, <1>9 DEF Next

\* The heap of nodes is a sequence of payloads: the calls of LinkedList.c hand out what
\* the same calls on the sequence would, an iterator that removes as it goes included, and
\* the bubble sort is one step that sorts in either direction and moves no two payloads
\* past each other that the comparator takes as equal.
THEOREM ListImplementsSequence == Spec => ImplementsSeqList
<1>1. Init => Abstract!Init
  BY DEF Init, Abstract!Init, Abstract!None, Abstract!Failure, Failure, Shown, Place, Contents
<1>2. Init => Sorting
  BY DEF Init, Sorting
<1>3. Spec => [](Inv /\ Sorting)
  BY <1>2, InitInv, StepInv, StepImplements, PTL DEF Spec
<1> QED BY <1>1, <1>3, StepImplements, StepInv, PTL DEF Spec, ImplementsSeqList, Abstract!Spec
=============================================================================
