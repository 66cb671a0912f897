------------------------- MODULE HttpServer_proofs -------------------------
(***************************************************************************)
(* The safety of the server for any number of clients, threads and         *)
(* requests: types, descriptors, streams, and the order of the answers.    *)
(***************************************************************************)
EXTENDS HttpServer, FiniteSetTheorems, SequenceTheorems, TLAPS

Queued == {pending[i] : i \in DOMAIN pending}

PoolInv ==
    /\ pending \in Seq(Clients)
    /\ active \subseteq Clients /\ finished \subseteq Clients
    /\ Cardinality(active) <= kNumThreads
    /\ \A i, j \in DOMAIN pending : i # j => pending[i] # pending[j]
    /\ Queued \cap active = {}

\* Where Run is, and what the pool makes of it.
MainInv ==
    /\ main \in {"accept", "dispatch", "closing", "returned", "crashed"}
    /\ hst \in Clients \cup {NoClient}
    /\ main \in {"accept", "dispatch"} => phase = "open"
    /\ main = "closing" => phase = "closing"
    /\ main = "returned" => phase = "closed" /\ pending = <<>> /\ active = {}
    /\ main = "accept" => hst = NoClient
    /\ main = "dispatch" => hst # NoClient
    /\ phase \in {"open", "closing", "closed"}

\* Who has a descriptor; a connection has one owner at a time.
DescriptorInv ==
    /\ fd \in [Clients -> {"none", "open", "closed"}]
    /\ \A c \in Clients : fd[c] = "open" <=> c \in Queued \cup active \cup {hst}
    /\ \A c \in Clients : fd[c] = "closed" <=> c \in finished
    /\ hst \notin Queued \cup active

ClientInv ==
    /\ client \in [Clients -> {"idle", "up", "shut", "gone"}]
    /\ wantsClose \in [Clients -> SUBSET Nat]
    /\ sent \in [Clients -> Nat]
    /\ \A c \in Clients : sent[c] <= 2 * MaxRequests[c]
    /\ wire \in [Clients -> Seq(Nat)] /\ buffer_ \in [Clients -> Seq(Nat)]
    /\ step \in [Clients -> {"read", "write"}]
    /\ request \in [Clients -> Nat]
    /\ answers \in [Clients -> Seq(Nat)]

\* What the buffer b and the wire w hold after request r, of s fragments that were sent.
Stream(b, w, r, s) ==
    /\ Len(b) + Len(w) + 2 * r = s
    /\ \A i \in 1..Len(b) : b[i] = 2 * r + i
    /\ \A i \in 1..Len(w) : w[i] = 2 * r + Len(b) + i

StreamInv == \A c \in Clients : Stream(buffer_[c], wire[c], request[c], sent[c])

\* While a client is there and its handler has not left, it is answered as far as
\* requests have been read.
Answers(c) ==
    /\ Len(answers[c]) <= request[c]
    /\ \A i \in 1..Len(answers[c]) : answers[c][i] = i
    /\ c \notin finished /\ client[c] # "gone" =>
          request[c] = IF step[c] = "read" THEN Len(answers[c]) ELSE Len(answers[c]) + 1

AnswersInv == \A c \in Clients : Answers(c)

ServerInv == PoolInv /\ MainInv /\ DescriptorInv
Inv == ServerInv /\ ClientInv /\ StreamInv /\ AnswersInv

-----------------------------------------------------------------------------
USE HttpAssumption

LEMMA ClientsFinite == IsFiniteSet(Clients) /\ \A S \in SUBSET Clients : IsFiniteSet(S)
<1>1. IsFiniteSet(Clients)
  BY FS_Interval DEF Clients
<1> QED BY <1>1, FS_Subset

LEMMA InitInv == Init => Inv
<1> SUFFICES ASSUME Init PROVE Inv
  OBVIOUS
<1>1. Cardinality({}) = 0
  BY FS_EmptySet
<1>2. ServerInv
  BY <1>1 DEF Init, Pool!Init, ServerInv, PoolInv, MainInv, DescriptorInv, Queued, NoClient, Clients
<1>3. ClientInv /\ StreamInv /\ AnswersInv
  BY DEF Init, ClientInv, StreamInv, Stream, AnswersInv, Answers
<1> QED BY <1>2, <1>3 DEF Inv

-----------------------------------------------------------------------------
\* What the pool's operations do to PoolInv.

LEMMA SubmitPool ==
    ASSUME PoolInv, NEW c \in Clients, c \notin Queued \cup active, Pool!Submit(c)
    PROVE  PoolInv' /\ Queued' = Queued \cup {c} /\ active' = active /\ finished' = finished
<1>1. /\ pending' = Append(pending, c) /\ active' = active /\ finished' = finished
  BY DEF Pool!Submit
<1>2. /\ pending \in Seq(Clients) /\ Len(pending) \in Nat
      /\ DOMAIN pending = 1..Len(pending)
  BY DEF PoolInv
<1>3. /\ pending' \in Seq(Clients) /\ DOMAIN pending' = 1..(Len(pending) + 1)
      /\ \A i \in 1..Len(pending) : pending'[i] = pending[i]
      /\ pending'[Len(pending) + 1] = c
  BY <1>1, <1>2
<1>4. Queued' = Queued \cup {c}
  <2>1. Len(pending) + 1 \in DOMAIN pending' /\ DOMAIN pending \subseteq DOMAIN pending'
    BY <1>2, <1>3
  <2>2. \A i \in DOMAIN pending' : i \in DOMAIN pending \/ i = Len(pending) + 1
    BY <1>2, <1>3
  <2> QED BY <1>2, <1>3, <2>1, <2>2 DEF Queued
<1>5. \A i, j \in DOMAIN pending' : i # j => pending'[i] # pending'[j]
  BY <1>2, <1>3 DEF PoolInv, Queued
<1> QED BY <1>1, <1>3, <1>4, <1>5 DEF PoolInv

LEMMA BeginPool ==
    ASSUME PoolInv, Pool!Begin
    PROVE  /\ PoolInv' /\ Queued' \cup active' = Queued \cup active /\ active \subseteq active'
           /\ finished' = finished /\ phase' = phase /\ pending # <<>>
<1> DEFINE c == Head(pending)
<1>1. /\ pending # <<>> /\ pending' = Tail(pending) /\ active' = active \cup {c}
      /\ finished' = finished /\ phase' = phase
      /\ Cardinality(active) < kNumThreads \/ active = {}
  <2>1. IF phase = "open" THEN Cardinality(active) < kNumThreads ELSE active = {}
    <3>1. Pool!Cardinality(active) = Cardinality(active)
      BY DEF Pool!Cardinality, Cardinality
    <3> QED BY <3>1 DEF Pool!Begin
  <2> QED BY <2>1 DEF Pool!Begin
<1>2. /\ pending \in Seq(Clients) /\ Len(pending) \in Nat \ {0}
      /\ DOMAIN pending = 1..Len(pending)
  BY <1>1 DEF PoolInv
<1>3. /\ c = pending[1] /\ c \in Clients /\ pending' \in Seq(Clients)
      /\ DOMAIN pending' = 1..(Len(pending) - 1)
      /\ \A i \in 1..(Len(pending) - 1) : pending'[i] = pending[i + 1]
  BY <1>1, <1>2
<1>4. Queued = Queued' \cup {c}
  <2>1. Queued \subseteq Queued' \cup {c}
    <3> SUFFICES ASSUME NEW i \in 1..Len(pending), i # 1 PROVE pending[i] \in Queued'
      BY <1>2, <1>3 DEF Queued
    <3>1. i - 1 \in DOMAIN pending' /\ pending'[i - 1] = pending[i]
      BY <1>2, <1>3
    <3> QED BY <3>1 DEF Queued
  <2>2. c \in Queued
    <3>1. 1 \in DOMAIN pending /\ c = pending[1]
      BY <1>2, <1>3
    <3> QED BY <3>1 DEF Queued
  <2>3. ASSUME NEW i \in DOMAIN pending' PROVE pending'[i] \in Queued
    <3>1. i + 1 \in DOMAIN pending /\ pending'[i] = pending[i + 1]
      BY <1>2, <1>3
    <3> QED BY <3>1 DEF Queued
  <2>4. Queued' \subseteq Queued
    BY <2>3 DEF Queued
  <2> QED BY <2>1, <2>2, <2>4
<1>5. c \notin Queued'
  <2> SUFFICES ASSUME NEW i \in DOMAIN pending' PROVE pending'[i] # c
    BY DEF Queued
  <2>1. i + 1 \in DOMAIN pending /\ 1 \in DOMAIN pending /\ i + 1 # 1
    BY <1>2, <1>3
  <2>2. pending'[i] = pending[i + 1]
    BY <1>3
  <2> QED BY <1>3, <2>1, <2>2 DEF PoolInv
<1>6. \A i, j \in DOMAIN pending' : i # j => pending'[i] # pending'[j]
  <2> SUFFICES ASSUME NEW i \in DOMAIN pending', NEW j \in DOMAIN pending', i # j
               PROVE  pending'[i] # pending'[j]
    OBVIOUS
  <2>1. i \in 1..(Len(pending) - 1) /\ j \in 1..(Len(pending) - 1)
    BY <1>3
  <2>2. i + 1 \in DOMAIN pending /\ j + 1 \in DOMAIN pending /\ i + 1 # j + 1
    BY <1>2, <2>1
  <2>3. pending'[i] = pending[i + 1] /\ pending'[j] = pending[j + 1]
    BY <1>3, <2>1
  <2> QED BY <2>2, <2>3 DEF PoolInv
<1>7. Cardinality(active') <= kNumThreads
  <2>1. IsFiniteSet(active)
    BY ClientsFinite DEF PoolInv
  <2>2. Cardinality(active) \in Nat /\ Cardinality({}) = 0
    BY <2>1, FS_CardinalityType, FS_EmptySet
  <2> HIDE DEF c
  <2>3. IsFiniteSet(active') /\ Cardinality(active') \in {Cardinality(active), Cardinality(active) + 1}
    BY <1>1, <2>1, FS_AddElement
  <2>4. Cardinality(active') \in Nat /\ Cardinality(active') <= Cardinality(active) + 1
    BY <2>2, <2>3
  <2>5. CASE Cardinality(active) < kNumThreads
    BY <2>2, <2>4, <2>5
  <2>6. CASE active = {}
    BY <2>2, <2>4, <2>6
  <2> QED BY <1>1, <2>5, <2>6
<1>8. Queued' \cap active' = {}
  BY <1>1, <1>4, <1>5 DEF PoolInv
<1> QED BY <1>1, <1>3, <1>4, <1>6, <1>7, <1>8 DEF PoolInv

LEMMA FinishPool ==
    ASSUME PoolInv, NEW c \in Clients, Pool!Finish(c)
    PROVE  /\ PoolInv' /\ Queued' = Queued /\ c \in active /\ active' = active \ {c}
           /\ finished' = finished \cup {c} /\ pending' = pending /\ phase' = phase
<1>1. /\ c \in active /\ active' = active \ {c} /\ finished' = finished \cup {c}
      /\ pending' = pending /\ phase' = phase
  BY DEF Pool!Finish
<1>2. Cardinality(active') <= Cardinality(active)
  BY <1>1, ClientsFinite, FS_Subset DEF PoolInv
<1>3. Cardinality(active') \in Nat /\ Cardinality(active) \in Nat
  BY <1>1, ClientsFinite, FS_CardinalityType DEF PoolInv
<1>4. Queued' = Queued
  BY <1>1 DEF Queued
<1> QED BY <1>1, <1>2, <1>3, <1>4 DEF PoolInv

-----------------------------------------------------------------------------
\* The operations on a stream.

LEMMA StreamSums ==
    ASSUME NEW e \in Nat, NEW l \in Nat, NEW r \in Nat, NEW s \in Nat, e + l + 2 * r = s
    PROVE  /\ e + (l + 1) + 2 * r = s + 1
           /\ s + 1 = 2 * r + e + (l + 1)
           /\ e >= 2 => (e - 2) + l + 2 * (r + 1) = s
OBVIOUS

LEMMA StreamSend ==
    ASSUME NEW b \in Seq(Nat), NEW w \in Seq(Nat), NEW r \in Nat, NEW s \in Nat, Stream(b, w, r, s)
    PROVE  Append(w, s + 1) \in Seq(Nat) /\ Stream(b, Append(w, s + 1), r, s + 1)
<1> DEFINE v == Append(w, s + 1)
<1>1. Len(b) \in Nat /\ Len(w) \in Nat /\ v \in Seq(Nat) /\ Len(v) = Len(w) + 1
  OBVIOUS
<1>2. /\ \A i \in 1..Len(w) : v[i] = w[i]
      /\ v[Len(w) + 1] = s + 1
  OBVIOUS
<1> HIDE DEF v
<1>3. Len(b) + Len(w) + 2 * r = s
  BY DEF Stream
<1>4. ASSUME NEW i \in 1..Len(v) PROVE v[i] = 2 * r + Len(b) + i
  <2>1. CASE i \in 1..Len(w)
    BY <1>2, <2>1 DEF Stream
  <2>2. CASE i = Len(w) + 1
    <3>1. v[i] = s + 1
      BY <1>2, <2>2
    <3>2. s + 1 = 2 * r + Len(b) + (Len(w) + 1)
      BY <1>1, <1>3, StreamSums
    <3> QED BY <2>2, <3>1, <3>2
  <2> QED BY <1>1, <2>1, <2>2
<1>5. Len(b) + Len(v) + 2 * r = s + 1
  BY <1>1, <1>3, StreamSums
<1> QED BY <1>1, <1>4, <1>5 DEF Stream, v

LEMMA StreamRead ==
    ASSUME NEW b \in Seq(Nat), NEW w \in Seq(Nat), NEW r \in Nat, NEW s \in Nat, Stream(b, w, r, s),
           NEW n \in 1..Len(w)
    PROVE  /\ b \o SubSeq(w, 1, n) \in Seq(Nat) /\ SubSeq(w, n + 1, Len(w)) \in Seq(Nat)
           /\ Stream(b \o SubSeq(w, 1, n), SubSeq(w, n + 1, Len(w)), r, s)
<1> DEFINE u == SubSeq(w, 1, n)
           v == SubSeq(w, n + 1, Len(w))
           d == b \o u
<1>1. Len(b) \in Nat /\ Len(w) \in Nat /\ n \in Nat /\ n <= Len(w)
  OBVIOUS
<1>2. u \in Seq(Nat) /\ Len(u) = n /\ \A i \in 1..n : u[i] = w[i]
  BY <1>1
<1>3. v \in Seq(Nat) /\ Len(v) = Len(w) - n /\ \A i \in 1..(Len(w) - n) : v[i] = w[n + i]
  BY <1>1
<1> HIDE DEF u, v
<1>4. /\ d \in Seq(Nat) /\ Len(d) = Len(b) + n
      /\ \A i \in 1..Len(b) : d[i] = b[i]
      /\ \A i \in 1..n : d[Len(b) + i] = u[i]
  <2>1. d \in Seq(Nat) /\ Len(d) = Len(b) + n
    <3>1. d \in Seq(Nat) /\ Len(d) = Len(b) + Len(u)
      BY <1>2, ConcatProperties
    <3>2. Len(u) = n
      BY <1>2
    <3> HIDE DEF d
    <3> QED BY <3>1, <3>2
  <2>2. \A i \in 1..(Len(b) + Len(u)) : d[i] = IF i <= Len(b) THEN b[i] ELSE u[i - Len(b)]
    BY <1>2, ConcatProperties
  <2> HIDE DEF d
  <2>3. ASSUME NEW i \in 1..n PROVE d[Len(b) + i] = u[i]
    <3>1. /\ Len(b) + i \in 1..(Len(b) + Len(u)) /\ ~(Len(b) + i <= Len(b))
          /\ Len(b) + i - Len(b) = i
      BY <1>1, <1>2
    <3> QED BY <2>2, <3>1
  <2>4. ASSUME NEW i \in 1..Len(b) PROVE d[i] = b[i]
    <3>1. i \in 1..(Len(b) + Len(u)) /\ i <= Len(b)
      BY <1>1, <1>2
    <3> QED BY <2>2, <3>1
  <2> QED BY <2>1, <2>3, <2>4
<1> HIDE DEF d
<1>5. ASSUME NEW i \in 1..Len(d) PROVE d[i] = 2 * r + i
  <2>1. CASE i \in 1..Len(b)
    BY <1>4, <2>1 DEF Stream
  <2>2. CASE i \notin 1..Len(b)
    <3>1. i - Len(b) \in 1..n /\ i - Len(b) \in 1..Len(w) /\ Len(b) + (i - Len(b)) = i
      BY <1>1, <1>4, <2>2
    <3>2. d[i] = w[i - Len(b)] /\ w[i - Len(b)] = 2 * r + Len(b) + (i - Len(b))
      BY <1>2, <1>4, <3>1 DEF Stream
    <3> QED BY <1>1, <3>1, <3>2
  <2> QED BY <2>1, <2>2
<1>6. ASSUME NEW i \in 1..Len(v) PROVE v[i] = 2 * r + Len(d) + i
  <2>1. n + i \in 1..Len(w) /\ v[i] = w[n + i]
    BY <1>1, <1>3
  <2>2. w[n + i] = 2 * r + Len(b) + (n + i)
    BY <2>1 DEF Stream
  <2> QED BY <1>1, <1>4, <2>1, <2>2
<1>7. Len(d) + Len(v) + 2 * r = s
  <2>1. Len(b) + Len(w) + 2 * r = s
    BY DEF Stream
  <2>2. (Len(b) + n) + (Len(w) - n) + 2 * r = s
    <3>1. (Len(b) + n) + (Len(w) - n) = Len(b) + Len(w)
      BY <1>1
    <3> QED BY <2>1, <3>1
  <2>3. Len(d) = Len(b) + n /\ Len(v) = Len(w) - n
    BY <1>3, <1>4
  <2> QED BY <2>2, <2>3
<1>8. Stream(d, v, r, s)
  BY <1>5, <1>6, <1>7 DEF Stream
<1> QED BY <1>3, <1>4, <1>8 DEF d, u, v

LEMMA StreamNext ==
    ASSUME NEW b \in Seq(Nat), NEW w \in Seq(Nat), NEW r \in Nat, NEW s \in Nat, Stream(b, w, r, s),
           HasRequest(b)
    PROVE  /\ b[FirstEnd(b)] \div 2 = r + 1
           /\ Rest(b) \in Seq(Nat) /\ Stream(Rest(b), w, r + 1, s)
<1>1. Len(b) \in Nat /\ Len(w) \in Nat /\ DOMAIN b = 1..Len(b)
  OBVIOUS
<1>2. \A i \in 1..Len(b) : b[i] = 2 * r + i
  BY DEF Stream
<1>3. (2 * r + 1) % 2 = 1 /\ (2 * r + 2) % 2 = 0 /\ (2 * r + 2) \div 2 = r + 1
  OBVIOUS
<1>4. Len(b) >= 2
  <2>1. PICK i \in DOMAIN b : EndsRequest(b[i])
    BY DEF HasRequest
  <2>2. i # 1
    BY <1>1, <1>2, <1>3, <2>1 DEF EndsRequest
  <2> QED BY <1>1, <2>1, <2>2
<1>5. FirstEnd(b) = 2
  <2> DEFINE First(i) == EndsRequest(b[i]) /\ \A j \in 1..(i - 1) : ~EndsRequest(b[j])
  <2>1. EndsRequest(b[2]) /\ ~EndsRequest(b[1])
    BY <1>1, <1>2, <1>3, <1>4 DEF EndsRequest
  <2>2. 2 \in DOMAIN b /\ First(2)
    BY <1>1, <1>4, <2>1
  <2>3. \A i \in DOMAIN b : First(i) => i = 2
    <3> SUFFICES ASSUME NEW i \in DOMAIN b, First(i), i # 2 PROVE FALSE
      OBVIOUS
    <3>1. i = 1 \/ 2 \in 1..(i - 1)
      BY <1>1
    <3> QED BY <2>1, <3>1
  <2> HIDE DEF First
  <2>4. FirstEnd(b) = CHOOSE i \in DOMAIN b : First(i)
    BY DEF FirstEnd, First
  <2> QED BY <2>2, <2>3, <2>4
<1>6. b[FirstEnd(b)] \div 2 = r + 1
  BY <1>1, <1>2, <1>3, <1>4, <1>5
<1> DEFINE t == SubSeq(b, 3, Len(b))
<1>7. t \in Seq(Nat) /\ Len(t) = Len(b) - 2 /\ \A i \in 1..(Len(b) - 2) : t[i] = b[i + 2]
  BY <1>1, <1>4
<1>8. Rest(b) = t
  BY <1>5 DEF Rest
<1> HIDE DEF t
<1>9. \A i \in 1..Len(t) : t[i] = 2 * (r + 1) + i
  <2> SUFFICES ASSUME NEW i \in 1..Len(t) PROVE t[i] = 2 * (r + 1) + i
    OBVIOUS
  <2>1. i + 2 \in 1..Len(b) /\ t[i] = b[i + 2]
    BY <1>1, <1>7
  <2>2. t[i] = 2 * r + (i + 2)
    BY <1>2, <2>1
  <2> QED BY <2>2
<1>10. \A i \in 1..Len(w) : w[i] = 2 * (r + 1) + Len(t) + i
  BY <1>1, <1>4, <1>7 DEF Stream
<1>11. Len(t) + Len(w) + 2 * (r + 1) = s
  <2>1. Len(b) + Len(w) + 2 * r = s
    BY DEF Stream
  <2>2. (Len(b) - 2) + Len(w) + 2 * (r + 1) = s
    BY <1>1, <1>4, <2>1, StreamSums
  <2> QED BY <1>7, <2>2
<1> QED BY <1>6, <1>7, <1>8, <1>9, <1>10, <1>11 DEF Stream

-----------------------------------------------------------------------------
\* ServerInv: the actions of the main thread and of the pool.

LEMMA QueuedClients == PoolInv => Queued \subseteq Clients /\ NoClient \notin Clients
<1>1. NoClient \notin Clients
  BY DEF NoClient, Clients
<1>2. ASSUME PoolInv, NEW i \in DOMAIN pending PROVE pending[i] \in Clients
  BY <1>2 DEF PoolInv
<1> QED BY <1>1, <1>2 DEF Queued

LEMMA KeepServer ==
    ASSUME ServerInv, UNCHANGED <<pool, main, hst, fd>>
    PROVE  ServerInv'
<1>1. /\ pending' = pending /\ active' = active /\ finished' = finished /\ phase' = phase
      /\ main' = main /\ hst' = hst /\ fd' = fd
  BY DEF pool
<1>2. Queued' = Queued
  BY <1>1 DEF Queued
<1>3. PoolInv'
  BY <1>1, <1>2 DEF ServerInv, PoolInv
<1>4. MainInv'
  BY <1>1, <1>2 DEF ServerInv, MainInv
<1>5. DescriptorInv'
  BY <1>1, <1>2 DEF ServerInv, DescriptorInv
<1> QED BY <1>3, <1>4, <1>5 DEF ServerInv

LEMMA AcceptServer ==
    ASSUME ServerInv, NEW c \in Clients, Accept(c)
    PROVE  ServerInv'
<1>1. /\ pending' = pending /\ active' = active /\ finished' = finished /\ phase' = phase
      /\ main = "accept" /\ main' = "dispatch" /\ hst' = c
      /\ fd[c] = "none" /\ fd' = [fd EXCEPT ![c] = "open"]
  BY DEF Accept, pool
<1>2. Queued' = Queued
  BY <1>1 DEF Queued
<1>3. PoolInv'
  BY <1>1, <1>2 DEF ServerInv, PoolInv
<1>4. MainInv'
  BY <1>1, QueuedClients DEF ServerInv, MainInv
<1>5. DescriptorInv'
  BY <1>1, <1>2, QueuedClients DEF ServerInv, DescriptorInv, MainInv
<1> QED BY <1>3, <1>4, <1>5 DEF ServerInv

LEMMA DispatchServer ==
    ASSUME ServerInv, Dispatch
    PROVE  ServerInv'
<1>1. /\ main = "dispatch" /\ main' = "accept" /\ hst' = NoClient /\ fd' = fd
      /\ Pool!Submit(hst) /\ phase' = phase
  BY DEF Dispatch, conn, Pool!Submit
<1>2. hst \in Clients /\ hst \notin Queued \cup active
  BY <1>1 DEF ServerInv, MainInv, DescriptorInv
<1>3. PoolInv' /\ Queued' = Queued \cup {hst} /\ active' = active /\ finished' = finished
  BY <1>1, <1>2, SubmitPool DEF ServerInv
<1>4. MainInv'
  BY <1>1 DEF ServerInv, MainInv
<1>5. DescriptorInv'
  <2>1. NoClient \notin Queued \cup active \cup {hst} /\ hst' \notin Clients
    BY <1>1, <1>2, QueuedClients DEF ServerInv, PoolInv
  <2> QED BY <1>1, <1>2, <1>3, <2>1 DEF ServerInv, DescriptorInv
<1> QED BY <1>3, <1>4, <1>5 DEF ServerInv

LEMMA AcceptFailsServer ==
    ASSUME ServerInv, AcceptFails
    PROVE  ServerInv'
<1>1. /\ pending' = pending /\ active' = active /\ finished' = finished
      /\ main = "accept" /\ main' = "closing" /\ phase' = "closing"
  BY DEF AcceptFails, Pool!Close
<1>2. Queued' = Queued
  BY <1>1 DEF Queued
<1>3. PoolInv'
  BY <1>1, <1>2 DEF ServerInv, PoolInv
<1>4. hst' \in Clients \cup {NoClient} /\ DescriptorInv'
  <2>1. CASE hst' = hst /\ fd' = fd
    BY <1>1, <1>2, <2>1 DEF ServerInv, MainInv, DescriptorInv
  <2>2. CASE \E c \in Clients : fd[c] = "none" /\ hst' = c /\ fd' = [fd EXCEPT ![c] = "open"]
    <3>1. PICK c \in Clients : fd[c] = "none" /\ hst' = c /\ fd' = [fd EXCEPT ![c] = "open"]
      BY <2>2
    <3> QED BY <1>1, <1>2, <3>1, QueuedClients DEF ServerInv, MainInv, DescriptorInv
  <2> QED BY <2>1, <2>2 DEF AcceptFails
<1>5. MainInv'
  BY <1>1, <1>4 DEF MainInv
<1> QED BY <1>3, <1>4, <1>5 DEF ServerInv

LEMMA ReturnServer ==
    ASSUME ServerInv, Return
    PROVE  ServerInv'
<1>1. /\ pending' = pending /\ active' = active /\ finished' = finished
      /\ pending = <<>> /\ active = {} /\ phase' = "closed"
      /\ main' = "returned" /\ hst' = hst /\ fd' = fd
  BY DEF Return, Pool!Closed, conn
<1>2. Queued' = Queued
  BY <1>1 DEF Queued
<1>3. PoolInv'
  BY <1>1, <1>2 DEF ServerInv, PoolInv
<1>4. MainInv'
  BY <1>1 DEF ServerInv, MainInv
<1>5. DescriptorInv'
  BY <1>1, <1>2 DEF ServerInv, DescriptorInv
<1> QED BY <1>3, <1>4, <1>5 DEF ServerInv

LEMMA BeginServer ==
    ASSUME ServerInv, BeginTask
    PROVE  ServerInv'
<1>1. Pool!Begin /\ main' = main /\ hst' = hst /\ fd' = fd
  BY DEF BeginTask, conn
<1>2. /\ PoolInv' /\ Queued' \cup active' = Queued \cup active
      /\ finished' = finished /\ phase' = phase /\ pending # <<>>
  BY <1>1, BeginPool DEF ServerInv
<1>3. MainInv'
  BY <1>1, <1>2 DEF ServerInv, MainInv
<1>4. DescriptorInv'
  BY <1>1, <1>2 DEF ServerInv, DescriptorInv
<1> QED BY <1>2, <1>3, <1>4 DEF ServerInv

LEMMA HangupServer ==
    ASSUME ServerInv, NEW c \in Clients, Hangup(c), UNCHANGED <<main, hst>>
    PROVE  ServerInv' /\ finished' = finished \cup {c}
<1>1. fd' = [fd EXCEPT ![c] = "closed"] /\ Pool!Finish(c) /\ main' = main /\ hst' = hst
  BY DEF Hangup
<1>2. /\ PoolInv' /\ Queued' = Queued /\ c \in active /\ active' = active \ {c}
      /\ finished' = finished \cup {c} /\ pending' = pending /\ phase' = phase
  BY <1>1, FinishPool DEF ServerInv
<1>3. MainInv'
  BY <1>1, <1>2 DEF ServerInv, MainInv
<1>4. DescriptorInv'
  <2>1. c \notin Queued /\ c # hst
    BY <1>2 DEF ServerInv, PoolInv, DescriptorInv
  <2> QED BY <1>1, <1>2, <2>1 DEF ServerInv, DescriptorInv
<1> QED BY <1>2, <1>3, <1>4 DEF ServerInv

-----------------------------------------------------------------------------
\* The clients, the streams and the answers.

clients == <<client, wantsClose, sent, wire, buffer_, step, request, answers>>

Streams == ClientInv /\ StreamInv /\ AnswersInv

LEMMA KeepStreams ==
    ASSUME Streams, UNCHANGED clients, finished \subseteq finished'
    PROVE  Streams'
<1>1. /\ client' = client /\ wantsClose' = wantsClose /\ sent' = sent /\ wire' = wire
      /\ buffer_' = buffer_ /\ step' = step /\ request' = request /\ answers' = answers
  BY DEF clients
<1>2. ClientInv' /\ StreamInv'
  BY <1>1 DEF Streams, ClientInv, StreamInv
<1>3. AnswersInv'
  BY <1>1 DEF Streams, AnswersInv, Answers
<1> QED BY <1>2, <1>3 DEF Streams

\* Nothing but c's part changes.
OnlyAt(c) ==
    \A d \in Clients \ {c} :
        /\ client'[d] = client[d] /\ sent'[d] = sent[d] /\ wire'[d] = wire[d]
        /\ buffer_'[d] = buffer_[d] /\ step'[d] = step[d] /\ request'[d] = request[d]
        /\ answers'[d] = answers[d]

LEMMA OneClient ==
    ASSUME Streams, NEW c \in Clients, OnlyAt(c), finished \subseteq finished',
           ClientInv', Stream(buffer_[c], wire[c], request[c], sent[c])', Answers(c)'
    PROVE  Streams'
<1>1. ASSUME NEW d \in Clients, d # c
      PROVE  Stream(buffer_[d], wire[d], request[d], sent[d])' /\ Answers(d)'
  <2>1. Stream(buffer_[d], wire[d], request[d], sent[d]) /\ Answers(d)
    BY DEF Streams, StreamInv, AnswersInv
  <2>2. /\ client'[d] = client[d] /\ sent'[d] = sent[d] /\ wire'[d] = wire[d]
        /\ buffer_'[d] = buffer_[d] /\ step'[d] = step[d] /\ request'[d] = request[d]
        /\ answers'[d] = answers[d]
    BY <1>1 DEF OnlyAt
  <2> QED BY <2>1, <2>2 DEF Answers
<1> QED BY <1>1 DEF Streams, StreamInv, AnswersInv

LEMMA ConnectStreams ==
    ASSUME Streams, NEW c \in Clients, Connect(c) \/ Shut(c) \/ Vanish(c)
    PROVE  Streams' /\ UNCHANGED <<pool, main, hst, fd>>
<1>1. /\ finished' = finished /\ wantsClose' = wantsClose /\ sent' = sent /\ wire' = wire
      /\ buffer_' = buffer_ /\ step' = step /\ request' = request /\ answers' = answers
      /\ UNCHANGED <<pool, main, hst, fd>>
  BY DEF Connect, Shut, Vanish, pool
<1>2. PICK x \in {"up", "shut", "gone"} :
          client' = [client EXCEPT ![c] = x] /\ (x = "gone" \/ client[c] # "gone")
  BY DEF Connect, Shut, Vanish
<1>3. ClientInv' /\ OnlyAt(c)
  BY <1>1, <1>2 DEF Streams, ClientInv, OnlyAt
<1>4. client'[c] = x
  BY <1>2 DEF Streams, ClientInv
<1>5. Stream(buffer_[c], wire[c], request[c], sent[c])' /\ Answers(c)'
  BY <1>1, <1>2, <1>4 DEF Streams, StreamInv, AnswersInv, Answers
<1> QED BY <1>1, <1>3, <1>5, OneClient

LEMMA SendStreams ==
    ASSUME Streams, NEW c \in Clients, Send(c)
    PROVE  Streams' /\ UNCHANGED <<pool, main, hst, fd>>
<1>1. /\ finished' = finished /\ client' = client
      /\ buffer_' = buffer_ /\ step' = step /\ request' = request /\ answers' = answers
      /\ UNCHANGED <<pool, main, hst, fd>>
      /\ sent[c] < 2 * MaxRequests[c]
      /\ sent' = [sent EXCEPT ![c] = sent[c] + 1]
      /\ wire' = [wire EXCEPT ![c] = Append(wire[c], sent[c] + 1)]
  BY DEF Send, pool
<1>2. /\ buffer_[c] \in Seq(Nat) /\ wire[c] \in Seq(Nat) /\ request[c] \in Nat /\ sent[c] \in Nat
      /\ Stream(buffer_[c], wire[c], request[c], sent[c]) /\ Answers(c)
  BY DEF Streams, ClientInv, StreamInv, AnswersInv
<1>3. /\ Append(wire[c], sent[c] + 1) \in Seq(Nat)
      /\ Stream(buffer_[c], Append(wire[c], sent[c] + 1), request[c], sent[c] + 1)
  BY <1>2, StreamSend
<1>4. sent'[c] = sent[c] + 1 /\ wire'[c] = Append(wire[c], sent[c] + 1)
  BY <1>1 DEF Streams, ClientInv
<1>5. OnlyAt(c)
  BY <1>1 DEF Streams, ClientInv, OnlyAt
<1>6. wantsClose' \in [Clients -> SUBSET Nat]
  <2>1. CASE wantsClose' = wantsClose
    BY <2>1 DEF Streams, ClientInv
  <2>2. CASE wantsClose' = [wantsClose EXCEPT ![c] = @ \cup {sent'[c] \div 2}]
    <3>1. sent'[c] \div 2 \in Nat
      BY <1>2, <1>4
    <3> QED BY <2>2, <3>1 DEF Streams, ClientInv
  <2> QED BY <2>1, <2>2 DEF Send
<1>7. sent' \in [Clients -> Nat] /\ wire' \in [Clients -> Seq(Nat)]
  BY <1>1, <1>2, <1>3 DEF Streams, ClientInv
<1>8. \A d \in Clients : sent'[d] <= 2 * MaxRequests[d]
  <2>1. sent'[c] <= 2 * MaxRequests[c]
    BY <1>1, <1>2, <1>4
  <2> QED BY <1>5, <2>1 DEF OnlyAt, Streams, ClientInv
<1>9. ClientInv'
  BY <1>1, <1>6, <1>7, <1>8 DEF Streams, ClientInv
<1>10. Stream(buffer_[c], wire[c], request[c], sent[c])' /\ Answers(c)'
  BY <1>1, <1>2, <1>3, <1>4 DEF Answers
<1> QED BY <1>1, <1>5, <1>9, <1>10, OneClient

LEMMA ReadStreams ==
    ASSUME Streams, NEW c \in Clients, Read(c)
    PROVE  Streams' /\ UNCHANGED <<pool, main, hst, fd>>
<1>1. PICK n \in 1..Len(wire[c]) :
          /\ buffer_' = [buffer_ EXCEPT ![c] = buffer_[c] \o SubSeq(wire[c], 1, n)]
          /\ wire' = [wire EXCEPT ![c] = SubSeq(wire[c], n + 1, Len(wire[c]))]
  BY DEF Read
<1>2. /\ finished' = finished /\ client' = client /\ wantsClose' = wantsClose /\ sent' = sent
      /\ step' = step /\ request' = request /\ answers' = answers
      /\ UNCHANGED <<pool, main, hst, fd>>
  BY DEF Read, pool
<1>3. /\ buffer_[c] \in Seq(Nat) /\ wire[c] \in Seq(Nat) /\ request[c] \in Nat /\ sent[c] \in Nat
      /\ Stream(buffer_[c], wire[c], request[c], sent[c]) /\ Answers(c)
  BY DEF Streams, ClientInv, StreamInv, AnswersInv
<1> DEFINE b == buffer_[c] \o SubSeq(wire[c], 1, n)
           w == SubSeq(wire[c], n + 1, Len(wire[c]))
<1>4. b \in Seq(Nat) /\ w \in Seq(Nat) /\ Stream(b, w, request[c], sent[c])
  BY <1>3, StreamRead
<1>5. buffer_' = [buffer_ EXCEPT ![c] = b] /\ wire' = [wire EXCEPT ![c] = w]
  BY <1>1
<1> HIDE DEF b, w
<1>6. buffer_'[c] = b /\ wire'[c] = w /\ OnlyAt(c) /\ ClientInv'
  BY <1>2, <1>4, <1>5 DEF Streams, ClientInv, OnlyAt
<1>7. Stream(buffer_[c], wire[c], request[c], sent[c])' /\ Answers(c)'
  BY <1>2, <1>3, <1>4, <1>6 DEF Answers
<1> QED BY <1>2, <1>6, <1>7, OneClient

LEMMA HangupFinished ==
    ASSUME ServerInv, NEW c \in Clients, c \in active
    PROVE  c \notin finished
BY DEF ServerInv, DescriptorInv

LEMMA NextRequestStreams ==
    ASSUME ServerInv, Streams, NEW c \in Clients, NextRequest(c)
    PROVE  Streams' /\ ServerInv'
<1>1. /\ client' = client /\ wantsClose' = wantsClose /\ sent' = sent /\ wire' = wire
      /\ answers' = answers /\ main' = main /\ hst' = hst
      /\ c \in active /\ step[c] = "read" /\ HasRequest(buffer_[c])
      /\ buffer_' = [buffer_ EXCEPT ![c] = Rest(buffer_[c])]
      /\ request' = [request EXCEPT ![c] = buffer_[c][FirstEnd(buffer_[c])] \div 2]
  BY DEF NextRequest
<1>2. /\ buffer_[c] \in Seq(Nat) /\ wire[c] \in Seq(Nat) /\ request[c] \in Nat /\ sent[c] \in Nat
      /\ Stream(buffer_[c], wire[c], request[c], sent[c]) /\ Answers(c)
  BY DEF Streams, ClientInv, StreamInv, AnswersInv
<1>3. /\ buffer_[c][FirstEnd(buffer_[c])] \div 2 = request[c] + 1
      /\ Rest(buffer_[c]) \in Seq(Nat)
      /\ Stream(Rest(buffer_[c]), wire[c], request[c] + 1, sent[c])
  BY <1>1, <1>2, StreamNext
<1> DEFINE b == Rest(buffer_[c])
<1>4. buffer_' = [buffer_ EXCEPT ![c] = b] /\ request' = [request EXCEPT ![c] = request[c] + 1]
  BY <1>1, <1>3
<1>5. b \in Seq(Nat) /\ Stream(b, wire[c], request[c] + 1, sent[c])
  BY <1>3
<1> HIDE DEF b
<1>6. /\ buffer_'[c] = b /\ request'[c] = request[c] + 1
      /\ buffer_' \in [Clients -> Seq(Nat)] /\ request' \in [Clients -> Nat]
      /\ \A d \in Clients \ {c} : buffer_'[d] = buffer_[d] /\ request'[d] = request[d]
  <2>1. request[c] + 1 \in Nat
    BY <1>2
  <2> QED BY <1>4, <1>5, <2>1 DEF Streams, ClientInv
<1>7. Stream(buffer_[c], wire[c], request[c], sent[c])'
  BY <1>1, <1>5, <1>6
<1>8. CASE Hangup(c) /\ UNCHANGED step
  <2>1. ServerInv' /\ finished' = finished \cup {c}
    BY <1>1, <1>8, HangupServer
  <2>2. OnlyAt(c) /\ ClientInv'
    BY <1>1, <1>6, <1>8 DEF Streams, ClientInv, OnlyAt
  <2>3. Answers(c)'
    <3>1. Len(answers[c]) \in Nat
      BY DEF Streams, ClientInv
    <3> QED BY <1>1, <1>2, <1>6, <2>1, <3>1 DEF Answers
  <2> QED BY <1>7, <2>1, <2>2, <2>3, OneClient
<1>9. CASE step' = [step EXCEPT ![c] = "write"] /\ UNCHANGED <<pool, fd>>
  <2>1. ServerInv' /\ finished' = finished
    BY <1>1, <1>9, KeepServer DEF pool
  <2>2. OnlyAt(c) /\ ClientInv' /\ step'[c] = "write"
    BY <1>1, <1>6, <1>9 DEF Streams, ClientInv, OnlyAt
  <2>3. Answers(c)'
    <3>1. Len(answers[c]) \in Nat
      BY DEF Streams, ClientInv
    <3> QED BY <1>1, <1>2, <1>6, <2>1, <2>2, <3>1 DEF Answers
  <2> QED BY <1>7, <2>1, <2>2, <2>3, OneClient
<1> QED BY <1>8, <1>9 DEF NextRequest

LEMMA RespondStreams ==
    ASSUME ServerInv, Streams, NEW c \in Clients, Respond(c)
    PROVE  Streams' /\ UNCHANGED <<pool, main, hst, fd>>
<1>1. /\ finished' = finished /\ client' = client /\ wantsClose' = wantsClose /\ sent' = sent
      /\ wire' = wire /\ buffer_' = buffer_ /\ request' = request
      /\ UNCHANGED <<pool, main, hst, fd>>
      /\ c \in active /\ step[c] = "write" /\ client[c] # "gone"
      /\ answers' = [answers EXCEPT ![c] = Append(answers[c], request[c])]
      /\ step' = [step EXCEPT ![c] = "read"]
  BY DEF Respond, pool
<1>2. /\ answers[c] \in Seq(Nat) /\ Len(answers[c]) \in Nat /\ request[c] \in Nat
      /\ Stream(buffer_[c], wire[c], request[c], sent[c]) /\ Answers(c)
  BY DEF Streams, ClientInv, StreamInv, AnswersInv
<1>3. request[c] = Len(answers[c]) + 1
  BY <1>1, <1>2, HangupFinished DEF Answers
<1> DEFINE a == Append(answers[c], request[c])
<1>4. /\ a \in Seq(Nat) /\ Len(a) = Len(answers[c]) + 1
      /\ \A i \in 1..Len(answers[c]) : a[i] = answers[c][i]
      /\ a[Len(answers[c]) + 1] = request[c]
  BY <1>2
<1>5. answers' = [answers EXCEPT ![c] = a]
  BY <1>1
<1> HIDE DEF a
<1>6. /\ OnlyAt(c) /\ ClientInv' /\ step'[c] = "read" /\ answers'[c] = a
  BY <1>1, <1>4, <1>5 DEF Streams, ClientInv, OnlyAt
<1>7. ASSUME NEW i \in 1..Len(a) PROVE a[i] = i
  <2>1. CASE i \in 1..Len(answers[c])
    BY <1>2, <1>4, <2>1 DEF Answers
  <2>2. CASE i = Len(answers[c]) + 1
    BY <1>3, <1>4, <2>2
  <2> QED BY <1>2, <1>4, <2>1, <2>2
<1>8. Answers(c)'
  BY <1>1, <1>2, <1>3, <1>4, <1>6, <1>7 DEF Answers
<1>9. Stream(buffer_[c], wire[c], request[c], sent[c])'
  BY <1>1, <1>2
<1> QED BY <1>1, <1>6, <1>8, <1>9, OneClient

LEMMA RespondInVainStreams ==
    ASSUME ServerInv, Streams, NEW c \in Clients, RespondInVain(c)
    PROVE  Streams' /\ ServerInv'
<1>1. /\ client' = client /\ wantsClose' = wantsClose /\ sent' = sent /\ wire' = wire
      /\ buffer_' = buffer_ /\ request' = request /\ answers' = answers
      /\ main' = main /\ hst' = hst /\ client[c] = "gone"
  BY DEF RespondInVain
<1>2. ServerInv' /\ finished \subseteq finished'
  <2>1. CASE UNCHANGED <<pool, fd>>
    BY <1>1, <2>1, KeepServer DEF pool
  <2>2. CASE Hangup(c)
    BY <1>1, <2>2, HangupServer
  <2> QED BY <2>1, <2>2 DEF RespondInVain
<1>3. step' = step \/ step' = [step EXCEPT ![c] = "read"]
  BY DEF RespondInVain
<1>4. OnlyAt(c) /\ ClientInv'
  BY <1>1, <1>3 DEF Streams, ClientInv, OnlyAt
<1>5. Stream(buffer_[c], wire[c], request[c], sent[c]) /\ Answers(c)
  BY DEF Streams, StreamInv, AnswersInv
<1>6. Stream(buffer_[c], wire[c], request[c], sent[c])' /\ Answers(c)'
  BY <1>1, <1>5 DEF Answers
<1> QED BY <1>2, <1>4, <1>6, OneClient

LEMMA ReadFailsStreams ==
    ASSUME ServerInv, Streams, NEW c \in Clients, ReadFails(c)
    PROVE  Streams' /\ ServerInv'
<1>1. Hangup(c) /\ UNCHANGED <<main, hst>> /\ UNCHANGED clients
  BY DEF ReadFails, clients
<1>2. ServerInv' /\ finished' = finished \cup {c}
  BY <1>1, HangupServer
<1> QED BY <1>1, <1>2, KeepStreams

\* Nothing that the invariant is about changes with the end of the process.
LEMMA CrashServer ==
    ASSUME ServerInv, NEW c \in Clients, Crash(c)
    PROVE  ServerInv' /\ UNCHANGED clients /\ finished' = finished
<1>1. main' = "crashed" /\ hst' = hst /\ UNCHANGED <<pool, conn>>
  BY DEF Crash
<1>2. PoolInv'
  BY <1>1 DEF ServerInv, PoolInv, Queued, pool
<1>3. MainInv'
  BY <1>1 DEF ServerInv, MainInv, pool
<1>4. DescriptorInv'
  BY <1>1 DEF ServerInv, DescriptorInv, Queued, pool, conn
<1> QED BY <1>1, <1>2, <1>3, <1>4 DEF ServerInv, clients, pool, conn

-----------------------------------------------------------------------------
LEMMA StepInv == Inv /\ [Next]_vars => Inv'
<1> SUFFICES ASSUME ServerInv, Streams, [Next]_vars PROVE ServerInv' /\ Streams'
  BY DEF Inv, Streams
<1>1. ASSUME NEW c \in Clients, Connect(c) \/ Send(c) \/ Shut(c) \/ Vanish(c)
      PROVE  ServerInv' /\ Streams'
  BY <1>1, ConnectStreams, SendStreams, KeepServer
<1>2. ASSUME NEW c \in Clients, Accept(c) PROVE ServerInv' /\ Streams'
  <2>1. UNCHANGED clients /\ finished' = finished
    BY <1>2 DEF Accept, clients, pool
  <2> QED BY <1>2, <2>1, AcceptServer, KeepStreams
<1>3. ASSUME NEW c \in Clients, Handler(c) PROVE ServerInv' /\ Streams'
  <2>1. ASSUME Crash(c) PROVE ServerInv' /\ Streams'
    BY <2>1, CrashServer, KeepStreams
  <2> QED BY <1>3, <2>1, ReadStreams, ReadFailsStreams, NextRequestStreams, RespondStreams,
             RespondInVainStreams, KeepServer DEF Handler
<1>4. CASE Dispatch
  <2>1. UNCHANGED clients /\ finished' = finished
    BY <1>4 DEF Dispatch, clients, conn, Pool!Submit
  <2> QED BY <1>4, <2>1, DispatchServer, KeepStreams
<1>5. CASE AcceptFails
  <2>1. UNCHANGED clients /\ finished' = finished
    BY <1>5 DEF AcceptFails, clients, Pool!Close
  <2> QED BY <1>5, <2>1, AcceptFailsServer, KeepStreams
<1>6. CASE Return
  <2>1. UNCHANGED clients /\ finished' = finished
    BY <1>6 DEF Return, clients, conn, Pool!Closed
  <2> QED BY <1>6, <2>1, ReturnServer, KeepStreams
<1>7. CASE BeginTask
  <2>1. UNCHANGED clients /\ finished' = finished
    BY <1>7 DEF BeginTask, clients, conn, Pool!Begin
  <2> QED BY <1>7, <2>1, BeginServer, KeepStreams
<1>8. CASE UNCHANGED vars
  <2>1. UNCHANGED clients /\ finished' = finished /\ UNCHANGED <<pool, main, hst, fd>>
    BY <1>8 DEF vars, conn, pool, clients
  <2> QED BY <2>1, KeepServer, KeepStreams
<1> QED BY <1>1, <1>2, <1>3, <1>4, <1>5, <1>6, <1>7, <1>8 DEF Next, Quiet

\* The invariant Inv holds in every state of the server.
THEOREM Invariance == Spec => []Inv
<1>1. Init => Inv
  BY InitInv
<1>2. Inv /\ [Next]_vars => Inv'
  BY StepInv
<1> QED BY <1>1, <1>2, PTL DEF Spec

-----------------------------------------------------------------------------
\* The fragments of s that follow request r.
Unparsed(r, s) == [i \in 1..(s - 2 * r) |-> 2 * r + i]

LEMMA StreamElements ==
    ASSUME NEW b \in Seq(Nat), NEW w \in Seq(Nat), NEW r \in Nat, NEW s \in Nat, Stream(b, w, r, s)
    PROVE  /\ b \in Seq(1..s) /\ w \in Seq(1..s)
           /\ b \o w = Unparsed(r, s)
<1>1. Len(b) \in Nat /\ Len(w) \in Nat /\ 2 * r \in Nat
  OBVIOUS
<1>2. Len(b) + Len(w) + 2 * r = s
  BY DEF Stream
<1>3. \A i \in 1..Len(b) : b[i] = 2 * r + i
  BY DEF Stream
<1>4. \A i \in 1..Len(w) : w[i] = 2 * r + Len(b) + i
  BY DEF Stream
<1>5. b \in Seq(1..s)
  <2>1. ASSUME NEW i \in 1..Len(b) PROVE b[i] \in 1..s
    <3>1. 2 * r + i \in 1..s
      BY <1>1, <1>2
    <3> QED BY <1>3, <3>1
  <2>2. b \in [1..Len(b) -> 1..s]
    BY <2>1
  <2> DEFINE S == 1..s
  <2>3. Seq(S) = UNION {[1..n -> S] : n \in Nat}
    BY SeqDef
  <2> HIDE DEF S
  <2>4. b \in Seq(S)
    BY <1>1, <2>2, <2>3 DEF S
  <2> QED BY <2>4 DEF S
<1>6. w \in Seq(1..s)
  <2>1. ASSUME NEW i \in 1..Len(w) PROVE w[i] \in 1..s
    <3>1. 2 * r + Len(b) + i \in 1..s
      BY <1>1, <1>2
    <3> QED BY <1>4, <3>1
  <2>2. w \in [1..Len(w) -> 1..s]
    BY <2>1
  <2> DEFINE S == 1..s
  <2>3. Seq(S) = UNION {[1..n -> S] : n \in Nat}
    BY SeqDef
  <2> HIDE DEF S
  <2>4. w \in Seq(S)
    BY <1>1, <2>2, <2>3 DEF S
  <2> QED BY <2>4 DEF S
<1> DEFINE x == b \o w
           n == Len(b) + Len(w)
<1>7. /\ x \in Seq(Nat) /\ Len(x) = n
      /\ \A i \in 1..n : x[i] = IF i <= Len(b) THEN b[i] ELSE w[i - Len(b)]
  BY ConcatProperties
<1>8. n \in Nat /\ n = s - 2 * r
  BY <1>1, <1>2
<1> HIDE DEF x
<1>9. ASSUME NEW i \in 1..n PROVE x[i] = 2 * r + i
  <2>1. CASE i <= Len(b)
    <3>1. i \in 1..Len(b) /\ x[i] = b[i]
      BY <1>1, <1>7, <2>1
    <3> QED BY <1>3, <3>1
  <2>2. CASE ~(i <= Len(b))
    <3>1. i - Len(b) \in 1..Len(w) /\ Len(b) + (i - Len(b)) = i
      BY <1>1, <2>2
    <3>2. x[i] = w[i - Len(b)] /\ w[i - Len(b)] = 2 * r + Len(b) + (i - Len(b))
      BY <1>4, <1>7, <2>2, <3>1
    <3> QED BY <1>1, <3>1, <3>2
  <2> QED BY <2>1, <2>2
<1> HIDE DEF n
<1>10. x = [i \in 1..n |-> x[i]]
  BY <1>7
<1>11. x = [i \in 1..n |-> 2 * r + i]
  BY <1>9, <1>10
<1> QED BY <1>5, <1>6, <1>8, <1>11 DEF x, Unparsed

\* Every variable keeps its type and at most kNumThreads handlers run: the state of
\* HttpServer::Run, of the pool and of every HttpConnection.
THEOREM TypeCorrect == Spec => []TypeOK
<1>1. Inv => TypeOK
  <2> SUFFICES ASSUME Inv PROVE TypeOK
    OBVIOUS
  <2>1. ASSUME NEW c \in Clients
        PROVE  /\ sent[c] <= 2 * MaxRequests[c]
               /\ wire[c] \in Seq(1..sent[c]) /\ buffer_[c] \in Seq(1..sent[c])
    <3>1. /\ buffer_[c] \in Seq(Nat) /\ wire[c] \in Seq(Nat) /\ request[c] \in Nat /\ sent[c] \in Nat
          /\ Stream(buffer_[c], wire[c], request[c], sent[c]) /\ sent[c] <= 2 * MaxRequests[c]
      BY DEF Inv, ClientInv, StreamInv
    <3> QED BY <3>1, StreamElements
  <2>2. phase \in {"open", "closing", "closed"}
    BY DEF Inv, ServerInv, MainInv
  <2> QED BY <2>1, <2>2 DEF TypeOK, Inv, ServerInv, PoolInv, MainInv, DescriptorInv, ClientInv
<1> QED BY <1>1, Invariance, PTL

\* No descriptor is lost and none is closed under its owner: what HttpServer::Run, the
\* destructor of the pool and ~HttpConnection do together.
THEOREM DescriptorsKept == Spec => []NoDescriptorLeak
<1>1. Inv => NoDescriptorLeak
  <2> SUFFICES ASSUME Inv PROVE NoDescriptorLeak
    OBVIOUS
  <2>1. Owned = Queued \cup active \cup {hst}
    BY DEF Owned, Queued
  <2>2. main = "returned" => Queued = {} /\ active = {}
    BY DEF Queued, Inv, ServerInv, MainInv
  <2> QED BY <2>1, <2>2 DEF NoDescriptorLeak, Inv, ServerInv, DescriptorInv
<1> QED BY <1>1, Invariance, PTL

\* However reads and requests cut the stream, GetNextRequest loses, repeats and
\* reorders nothing.
THEOREM StreamsStayIntact == Spec => []StreamIntact
<1>1. Inv => StreamIntact
  <2> SUFFICES ASSUME Inv, NEW c \in Clients
               PROVE  buffer_[c] \o wire[c]
                        = [i \in 1..(sent[c] - 2 * request[c]) |-> 2 * request[c] + i]
    BY DEF StreamIntact
  <2>1. /\ buffer_[c] \in Seq(Nat) /\ wire[c] \in Seq(Nat) /\ request[c] \in Nat /\ sent[c] \in Nat
        /\ Stream(buffer_[c], wire[c], request[c], sent[c])
    BY DEF Inv, ClientInv, StreamInv
  <2> DEFINE b == buffer_[c]
             w == wire[c]
             r == request[c]
             s == sent[c]
  <2>2. b \in Seq(Nat) /\ w \in Seq(Nat) /\ r \in Nat /\ s \in Nat /\ Stream(b, w, r, s)
    BY <2>1
  <2> HIDE DEF b, w, r, s
  <2>3. b \o w = Unparsed(r, s)
    BY ONLY <2>2, StreamElements
  <2>4. buffer_[c] \o wire[c] = Unparsed(request[c], sent[c])
    BY <2>3 DEF b, w, r, s
  <2> QED BY <2>4 DEF Unparsed
<1> QED BY <1>1, Invariance, PTL

\* A client's responses are for its first requests, one each and in order, whatever
\* threads its neighbours take: HttpServer_ThrFn.
THEOREM AnswersComeInOrder == Spec => []AnswersInOrder
<1>1. Inv => AnswersInOrder
  <2> SUFFICES ASSUME Inv, NEW c \in Clients
               PROVE  /\ Len(answers[c]) <= request[c]
                      /\ \A i \in DOMAIN answers[c] : answers[c][i] = i
    BY DEF AnswersInOrder
  <2>1. answers[c] \in Seq(Nat) /\ Answers(c)
    BY DEF Inv, ClientInv, AnswersInv
  <2> QED BY <2>1 DEF Answers
<1> QED BY <1>1, Invariance, PTL

\* The server uses its pool as ThreadPool.h allows, no connection is dispatched twice
\* or after the pool began to close, and so all that TaskPool promises holds of it.
THEOREM UsesTaskPool == Spec => Pool!Spec
<1>1. Init => Pool!Init
  BY DEF Init
<1>2. Inv /\ [Next]_vars => [Pool!Next]_(Pool!vars)
  <2> SUFFICES ASSUME Inv, [Next]_vars PROVE Pool!Next \/ UNCHANGED Pool!vars
    OBVIOUS
  <2>1. UNCHANGED pool => UNCHANGED Pool!vars
    BY DEF pool, Pool!vars
  <2>2. ASSUME NEW c \in Clients, Pool!Finish(c) PROVE Pool!Next
    BY <2>2 DEF Pool!Next, Pool!Tasks, Clients
  <2>3. ASSUME NEW c \in Clients, Connect(c) \/ Send(c) \/ Shut(c) \/ Vanish(c) \/ Accept(c)
        PROVE  UNCHANGED pool
    BY <2>3 DEF Connect, Send, Shut, Vanish, Accept
  <2>4. ASSUME NEW c \in Clients, Handler(c) PROVE UNCHANGED pool \/ Pool!Finish(c)
    BY <2>4 DEF Handler, Read, ReadFails, NextRequest, Respond, RespondInVain, Crash, Hangup
  <2>5. CASE Dispatch
    <3>1. hst \in Clients /\ Pool!Submit(hst)
      BY <2>5 DEF Dispatch, Inv, ServerInv, MainInv
    <3> QED BY <3>1 DEF Pool!Next, Pool!Tasks, Clients
  <2>6. CASE AcceptFails \/ Return \/ BeginTask
    BY <2>6 DEF AcceptFails, Return, BeginTask, Pool!Next
  <2>7. CASE UNCHANGED vars
    <3>1. UNCHANGED pool
      BY <2>7 DEF vars
    <3> QED BY <2>1, <3>1
  <2>8. CASE \E c \in Clients : Accept(c) \/ Handler(c)
    BY <2>1, <2>2, <2>3, <2>4, <2>8
  <2>9. CASE \E c \in Clients : Connect(c) \/ Send(c) \/ Shut(c) \/ Vanish(c)
    BY <2>1, <2>3, <2>9
  <2> QED BY <2>1, <2>5, <2>6, <2>7, <2>8, <2>9 DEF Next, Quiet
<1> QED BY <1>1, <1>2, Invariance, PTL DEF Spec, Pool!Spec
=============================================================================
