------------------------- MODULE FileStreams_proofs -------------------------
(***************************************************************************)
(* A reader reads from where it has sought, for any number of streams,     *)
(* threads and buffer sizes, if no two threads have streams on one open    *)
(* file description.                                                       *)
(***************************************************************************)
EXTENDS FileStreams, TLAPS

\* What http333d does: it opens the indices anew for every request.
OwnDescriptions ==
    \A r, s \in Streams : Description[r] = Description[s] => Owner[r] = Owner[s]

\* A buffer holds what stands in the file before its end.
GoodBuffer(s, b) ==
    /\ b \in [data : Seq(Nat), end : Offsets, left : Nat]
    /\ Len(b.data) <= BufSize[s] /\ Len(b.data) <= b.end /\ b.left <= Len(b.data)
    /\ \A k \in 1..Len(b.data) : b.data[k] = b.end - Len(b.data) + k - 1

StreamsInv ==
    /\ opened \subseteq Streams /\ copied \subseteq Streams
    /\ offset \in [Descriptions -> Offsets]
    /\ DOMAIN buf = Streams
    /\ \A s \in Streams : GoodBuffer(s, buf[s])

\* The stream a thread reads from is its own, it is where the thread takes it to be,
\* and the file offset is where its buffer ends.
InUse(t) ==
    use[t] # None =>
        /\ use[t] \in [stream : opened, at : Offsets]
        /\ Owner[use[t].stream] = t
        /\ Position(buf[use[t].stream]) = use[t].at
        /\ offset[Description[use[t].stream]] = buf[use[t].stream].end

UseInv ==
    /\ DOMAIN use = Threads /\ DOMAIN last = Threads
    /\ \A t \in Threads : InUse(t)

Inv == StreamsInv /\ UseInv /\ ReadsWhereSought

-----------------------------------------------------------------------------
USE StreamsAssumption

LEMMA EmptyBuffer ==
    ASSUME NEW s \in Streams, NEW o \in Offsets
    PROVE  GoodBuffer(s, Empty(o)) /\ Empty(o).end = o /\ Position(Empty(o)) = o
  BY DEF Empty, Offsets, GoodBuffer, Position

\* A run of the file that ends at end, as a sequence.
LEMMA RunOfFile ==
    ASSUME NEW n \in Nat, NEW from \in Nat
    PROVE  LET d == [k \in 1..n |-> from + k - 1]
           IN  d \in Seq(Nat) /\ Len(d) = n /\ \A k \in 1..n : d[k] = from + k - 1
  OBVIOUS

LEMMA InitInv == Init => Inv
<1> SUFFICES ASSUME Init PROVE Inv
  OBVIOUS
<1>1. \A d \in Descriptions : First(d) \in Streams
  <2> SUFFICES ASSUME NEW d \in Descriptions PROVE First(d) \in Streams
    OBVIOUS
  <2>1. \E s \in Streams : Description[s] = d /\ BufSize[s] = 1
    BY DEF Descriptions
  <2> QED BY <2>1 DEF First
<1>2. opened \subseteq Streams /\ copied = {}
  BY <1>1 DEF Init
<1>3. offset \in [Descriptions -> Offsets]
  BY DEF Init, Offsets
<1>4. \A s \in Streams : GoodBuffer(s, buf[s])
  <2>1. 0 \in Offsets
    BY DEF Offsets
  <2> QED BY <2>1, EmptyBuffer DEF Init
<1> QED BY <1>2, <1>3, <1>4 DEF Init, Inv, StreamsInv, UseInv, InUse, ReadsWhereSought

\* What is left of a buffer, or after it, is where the stream is.
LEMMA PositionInFile ==
    ASSUME NEW s \in Streams, NEW b, GoodBuffer(s, b)
    PROVE  Position(b) \in Offsets
  BY DEF GoodBuffer, Position, Offsets

LEMMA BlockBuffer ==
    ASSUME NEW s \in Streams, NEW o \in 0..(FileSize - 1)
    PROVE  GoodBuffer(s, Block(s, o)) /\ Position(Block(s, o)) = o
<1> DEFINE B == BufSize[s]
           start == o - (o % B)
           end == IF start + B <= FileSize THEN start + B ELSE FileSize
           d == [k \in 1..(end - start) |-> start + k - 1]
<1>1. B \in Nat \ {0} /\ o \in Nat /\ FileSize \in Nat \ {0}
  OBVIOUS
<1>2. o % B \in 0..(B - 1) /\ o % B <= o
  <2> HIDE DEF B
  <2>1. o % B \in 0..(B - 1)
    BY <1>1
  <2>2. o = B * (o \div B) + (o % B) /\ o \div B \in Nat
    BY <1>1
  <2>3. B * (o \div B) \in Nat
    BY <1>1, <2>2
  <2> QED BY <1>1, <2>1, <2>2, <2>3
<1>3. start \in Nat /\ start <= o /\ o < start + B
  BY <1>1, <1>2
<1> HIDE DEF B, start
<1>4. end \in Offsets /\ o < end /\ end - start <= B /\ end - start \in Nat
  BY <1>1, <1>3 DEF Offsets
<1>5. d \in Seq(Nat) /\ Len(d) = end - start /\ \A k \in 1..(end - start) : d[k] = start + k - 1
  BY <1>3, <1>4, RunOfFile
<1>6. Block(s, o) = [data |-> d, end |-> end, left |-> end - o]
  BY DEF Block, B, start
<1> HIDE DEF end, d
<1>7. end \in Nat /\ end - o \in Nat /\ end - o <= end - start /\ end - start <= end
  BY <1>1, <1>3, <1>4 DEF Offsets
<1>8. \A k \in 1..Len(d) : d[k] = end - Len(d) + k - 1
  BY <1>3, <1>5, <1>7
<1>9. Block(s, o) \in [data : Seq(Nat), end : Offsets, left : Nat]
  BY <1>4, <1>5, <1>6, <1>7
<1>10. Len(d) <= BufSize[s] /\ Len(d) <= end /\ end - o <= Len(d) /\ end - (end - o) = o
  BY <1>1, <1>4, <1>5, <1>7 DEF B
<1> QED BY <1>6, <1>8, <1>9, <1>10 DEF GoodBuffer, Position

\* read(2) puts the file from the offset on in the buffer.
LEMMA FilledBuffer ==
    ASSUME NEW s \in Streams, StreamsInv, offset[Description[s]] = buf[s].end
    PROVE  LET c == Filled(s)
               at == offset[Description[s]]
           IN  /\ GoodBuffer(s, c) /\ c.left = Len(c.data) /\ c.end = at + c.left
               /\ at < FileSize => c.left > 0
<1> DEFINE B == BufSize[s]
           at == offset[Description[s]]
           n == IF at + B <= FileSize THEN B ELSE FileSize - at
           d == [k \in 1..n |-> at + k - 1]
<1>1. B \in Nat \ {0} /\ at \in Offsets /\ FileSize \in Nat \ {0}
  BY DEF StreamsInv, Descriptions
<1>2. n \in Nat /\ at + n \in Offsets /\ n <= B /\ (at < FileSize => n > 0)
  BY <1>1 DEF Offsets
<1> HIDE DEF n
<1>3. d \in Seq(Nat) /\ Len(d) = n /\ \A k \in 1..n : d[k] = at + k - 1
  <2>1. at \in Nat
    BY <1>1 DEF Offsets
  <2> HIDE DEF at
  <2> QED BY <1>2, <2>1, RunOfFile
<1>4. Filled(s) = [data |-> d, end |-> at + n, left |-> n]
  BY DEF Filled, n
<1> HIDE DEF B, at, d
<1> DEFINE c == Filled(s)
<1>5. c \in [data : Seq(Nat), end : Offsets, left : Nat]
  BY <1>2, <1>3, <1>4
<1>6. c.data = d /\ c.end = at + n /\ c.left = n
  BY <1>4
<1> HIDE DEF c
<1>7. at \in Nat
  BY <1>1 DEF Offsets
<1>8. n <= at + n /\ at + n - n = at
  BY <1>2, <1>7
<1>9. GoodBuffer(s, c)
  BY <1>2, <1>3, <1>5, <1>6, <1>8 DEF B, GoodBuffer
<1>10. c.left = Len(c.data) /\ c.end = at + c.left /\ (at < FileSize => c.left > 0)
  BY <1>2, <1>3, <1>6
<1> QED BY <1>9, <1>10 DEF at, c

LEMMA MovedInBuffer ==
    ASSUME NEW s \in Streams, NEW b, GoodBuffer(s, b), NEW n \in 0..Len(b.data)
    PROVE  LET c == [b EXCEPT !.left = n] IN
           GoodBuffer(s, c) /\ c.end = b.end /\ Position(c) = b.end - n
<1> DEFINE c == [b EXCEPT !.left = n]
<1>1. b \in [data : Seq(Nat), end : Offsets, left : Nat]
  BY DEF GoodBuffer
<1>2. n \in Nat /\ n <= Len(b.data)
  BY <1>1
<1>3. c \in [data : Seq(Nat), end : Offsets, left : Nat]
  BY <1>1, <1>2
<1>4. c.data = b.data /\ c.end = b.end /\ c.left = n
  BY <1>1
<1> HIDE DEF c
<1>5. GoodBuffer(s, c)
  BY <1>2, <1>3, <1>4 DEF GoodBuffer
<1> QED BY <1>4, <1>5 DEF Position, c

\* The unit that is next in a buffer is the one that stands where the stream is.
LEMMA NextUnit ==
    ASSUME NEW s \in Streams, NEW b, GoodBuffer(s, b), b.left > 0
    PROVE  /\ Unit(b) = Position(b)
           /\ GoodBuffer(s, [b EXCEPT !.left = @ - 1])
           /\ Position([b EXCEPT !.left = @ - 1]) = Position(b) + 1
<1>1. /\ b.left \in Nat /\ b.end \in Nat /\ Len(b.data) \in Nat /\ b.left <= Len(b.data)
      /\ Len(b.data) <= b.end
  BY DEF GoodBuffer, Offsets
<1>2. Unit(b) = Position(b)
  <2> DEFINE e == b.end
             n == Len(b.data)
             l == b.left
  <2>1. e \in Nat /\ n \in Nat /\ l \in Nat /\ l > 0 /\ l <= n
    BY <1>1
  <2>2. \A k \in 1..n : b.data[k] = e - n + k - 1
    BY DEF GoodBuffer
  <2>3. Unit(b) = b.data[n - l + 1] /\ Position(b) = e - l
    BY DEF Unit, Position
  <2> HIDE DEF e, n, l
  <2>4. n - l + 1 \in 1..n /\ e - n + (n - l + 1) - 1 = e - l
    BY <2>1
  <2> QED BY <2>2, <2>3, <2>4
<1>3. b.left - 1 \in 0..Len(b.data) /\ b.end - (b.left - 1) = b.end - b.left + 1
  BY <1>1
<1> QED BY <1>2, <1>3, MovedInBuffer DEF Position

\* The buffer of s becomes c, and the file offset under it o.
Becomes(s, c, o) ==
    /\ buf' = [buf EXCEPT ![s] = c]
    /\ offset' = [offset EXCEPT ![Description[s]] = o]

\* Wherever fseek leaves its buffer, the stream is at the offset and the file offset
\* at the end of the buffer.
LEMMA SeekBuffer ==
    ASSUME NEW s \in Streams, NEW o \in 0..(FileSize - 1), GoodBuffer(s, buf[s]), SeekTo(s, o)
    PROVE  \E c : GoodBuffer(s, c) /\ Position(c) = o /\ Becomes(s, c, c.end)
<1>1. CASE /\ buf[s].data # <<>>
           /\ o \in (buf[s].end - Len(buf[s].data))..buf[s].end
  <2> DEFINE c == [buf[s] EXCEPT !.left = buf[s].end - o]
  <2>1. GoodBuffer(s, c) /\ Position(c) = o /\ c.end = buf[s].end
    <3>1. buf[s].end \in Nat /\ Len(buf[s].data) \in Nat /\ o \in Nat
      BY DEF GoodBuffer, Offsets
    <3>2. buf[s].end - o \in 0..Len(buf[s].data) /\ buf[s].end - (buf[s].end - o) = o
      BY <1>1, <3>1
    <3> QED BY <3>2, MovedInBuffer
  <2>2. buf' = [buf EXCEPT ![s] = c] /\ offset' = [offset EXCEPT ![Description[s]] = buf[s].end]
    BY <1>1 DEF SeekTo
  <2> QED BY <2>1, <2>2 DEF Becomes
<1>2. CASE ~(/\ buf[s].data # <<>>
             /\ o \in (buf[s].end - Len(buf[s].data))..buf[s].end)
  <2>1. o \in Offsets
    BY DEF Offsets
  <2>2. CASE /\ buf' = [buf EXCEPT ![s] = Empty(o)]
             /\ offset' = [offset EXCEPT ![Description[s]] = o]
    BY <2>1, <2>2, EmptyBuffer DEF Becomes
  <2>3. CASE /\ buf' = [buf EXCEPT ![s] = Block(s, o)]
             /\ offset' = [offset EXCEPT ![Description[s]] = Block(s, o).end]
    BY <2>3, BlockBuffer DEF Becomes
  <2> QED BY <1>2, <2>2, <2>3 DEF SeekTo
<1> QED BY <1>1, <1>2

\* What a change of one stream does to the others: those of other threads have
\* offsets of their own.
LEMMA OneStream ==
    ASSUME OwnDescriptions, Inv, NEW s \in Streams, NEW c, GoodBuffer(s, c), NEW o \in Offsets,
           Becomes(s, c, o),
           opened' \subseteq Streams, copied' \subseteq Streams,
           opened \ {s} \subseteq opened'
    PROVE  /\ StreamsInv'
           /\ buf'[s] = c /\ offset'[Description[s]] = o
           /\ \A t \in Threads : t # Owner[s] /\ use'[t] = use[t] => InUse(t)'
<1>1. Description[s] \in Descriptions
  BY DEF Descriptions
<1>2. StreamsInv' /\ buf'[s] = c /\ offset'[Description[s]] = o
  BY <1>1 DEF Inv, StreamsInv, GoodBuffer, Becomes
<1>3. ASSUME NEW t \in Threads, t # Owner[s], use'[t] = use[t], use[t] # None
      PROVE  InUse(t)'
  <2> DEFINE r == use[t].stream
  <2>1. r \in opened /\ r \in Streams /\ Owner[r] = t
    BY <1>3 DEF Inv, UseInv, InUse, StreamsInv
  <2>2. r # s /\ Description[r] # Description[s] /\ Description[r] \in Descriptions
    BY <1>3, <2>1 DEF OwnDescriptions, Descriptions
  <2>3. buf'[r] = buf[r] /\ offset'[Description[r]] = offset[Description[r]] /\ r \in opened'
    BY <2>1, <2>2 DEF Inv, StreamsInv, Becomes
  <2> QED BY <1>3, <2>1, <2>3 DEF Inv, UseInv, InUse
<1> QED BY <1>2, <1>3 DEF InUse

LEMMA StepInv == OwnDescriptions /\ Inv /\ [Next]_vars => Inv'
<1> SUFFICES ASSUME OwnDescriptions, Inv, [Next]_vars PROVE Inv'
  OBVIOUS
<1> USE DEF Inv
<1>1. ASSUME NEW s \in Streams, FileDup(s) PROVE Inv'
  <2>1. offset[Description[s]] \in Offsets
    BY DEF StreamsInv, Descriptions
  <2>2. \A t \in Threads : InUse(t)'
    <3>1. SUFFICES ASSUME NEW t \in Threads, use[t] # None PROVE InUse(t)'
      BY <1>1 DEF FileDup, InUse
    <3>2. use[t].stream \in opened /\ use[t].stream # s /\ use[t].stream \in Streams
      BY <1>1, <3>1 DEF FileDup, UseInv, InUse, StreamsInv
    <3>3. buf'[use[t].stream] = buf[use[t].stream] /\ use[t].stream \in opened'
      BY <1>1, <3>2 DEF FileDup, StreamsInv
    <3> QED BY <1>1, <3>1, <3>2, <3>3 DEF FileDup, UseInv, InUse
  <2>3. StreamsInv'
    BY <1>1, <2>1, EmptyBuffer DEF FileDup, StreamsInv
  <2> QED BY <1>1, <2>2, <2>3 DEF FileDup, UseInv, ReadsWhereSought
<1>2. ASSUME NEW s \in Streams, Close(s) PROVE Inv'
  <2>1. offset[Description[s]] \in Offsets /\ Position(buf[s]) \in Offsets /\ 0 \in Offsets
    BY PositionInFile DEF StreamsInv, Descriptions, Offsets
  <2>2. PICK o \in Offsets : offset' = [offset EXCEPT ![Description[s]] = o]
    BY <1>2, <2>1 DEF Close, StreamsInv
  <2>3. Becomes(s, Empty(0), o) /\ GoodBuffer(s, Empty(0))
    BY <1>2, <2>1, <2>2, EmptyBuffer DEF Close, Becomes
  <2>4. StreamsInv' /\ \A t \in Threads : t # Owner[s] /\ use'[t] = use[t] => InUse(t)'
    <3>1. opened' \subseteq Streams /\ copied' \subseteq Streams /\ opened \ {s} \subseteq opened'
      BY <1>2 DEF Close, StreamsInv
    <3> HIDE DEF Inv
    <3> QED BY <2>3, <3>1, OneStream
  <2>5. \A t \in Threads : t # Owner[s] => use'[t] = use[t]
    BY <1>2 DEF Close, UseInv
  <2>6. use'[Owner[s]] = None
    BY <1>2 DEF Close, UseInv
  <2> QED BY <1>2, <2>4, <2>5, <2>6 DEF Close, UseInv, InUse, ReadsWhereSought
<1>3. ASSUME NEW s \in Streams, NEW o \in 0..(FileSize - 1), Seek(s, o) PROVE Inv'
  <2>1. PICK c : GoodBuffer(s, c) /\ Position(c) = o /\ Becomes(s, c, c.end)
    BY <1>3, SeekBuffer DEF Seek, StreamsInv
  <2>2. c.end \in Offsets /\ o \in Offsets
    BY <2>1 DEF GoodBuffer, Offsets
  <2>3. /\ StreamsInv' /\ buf'[s] = c /\ offset'[Description[s]] = c.end
        /\ \A t \in Threads : t # Owner[s] /\ use'[t] = use[t] => InUse(t)'
    <3>1. opened' \subseteq Streams /\ copied' \subseteq Streams /\ opened \ {s} \subseteq opened'
      BY <1>3 DEF Seek, StreamsInv
    <3> HIDE DEF Inv
    <3> QED BY <2>1, <2>2, <3>1, OneStream
  <2>4. \A t \in Threads : t # Owner[s] => use'[t] = use[t]
    BY <1>3 DEF Seek, UseInv
  <2>5. use'[Owner[s]] = [stream |-> s, at |-> o] /\ s \in opened'
    BY <1>3 DEF Seek, UseInv
  <2>6. InUse(Owner[s])'
    BY <2>1, <2>2, <2>3, <2>5 DEF InUse
  <2> QED BY <1>3, <2>3, <2>4, <2>6 DEF Seek, UseInv, ReadsWhereSought
<1>4. ASSUME NEW t \in Threads, Read(t) PROVE Inv'
  <2> DEFINE s == use[t].stream
             at == use[t].at
  <2>1. /\ s \in Streams /\ s \in opened /\ Owner[s] = t /\ at \in Offsets /\ at < FileSize
        /\ use[t] = [stream |-> s, at |-> at]
        /\ Position(buf[s]) = at /\ offset[Description[s]] = buf[s].end
        /\ GoodBuffer(s, buf[s])
    BY <1>4 DEF Read, UseInv, InUse, StreamsInv
  <2>2. \E b : /\ GoodBuffer(s, b) /\ b.left > 0 /\ Position(b) = at
               /\ Take(s, b) /\ offset' = [offset EXCEPT ![Description[s]] = b.end]
    <3>1. CASE buf[s].left > 0
      <4>1. Take(s, buf[s]) /\ offset' = offset
        BY <1>4, <3>1 DEF Read
      <4>2. offset' = [offset EXCEPT ![Description[s]] = buf[s].end]
        BY <2>1, <4>1 DEF StreamsInv
      <4> QED BY <2>1, <3>1, <4>1, <4>2
    <3>2. CASE ~(buf[s].left > 0)
      <4>1. /\ Take(s, Filled(s))
            /\ offset' = [offset EXCEPT ![Description[s]] = @ + Filled(s).left]
        BY <1>4, <3>2 DEF Read
      <4>2. buf[s].left = 0 /\ buf[s].end = at
        BY <2>1, <3>2 DEF GoodBuffer, Position, Offsets
      <4>3. /\ GoodBuffer(s, Filled(s)) /\ Filled(s).left > 0
            /\ Filled(s).end = offset[Description[s]] + Filled(s).left
        BY <2>1, <4>2, FilledBuffer
      <4>4. Position(Filled(s)) = at
        BY <2>1, <4>2, <4>3 DEF GoodBuffer, Position, Offsets
      <4> QED BY <2>1, <4>1, <4>3, <4>4 DEF StreamsInv
    <3> QED BY <3>1, <3>2
  <2>3. PICK b : /\ GoodBuffer(s, b) /\ b.left > 0 /\ Position(b) = at
                 /\ Take(s, b) /\ offset' = [offset EXCEPT ![Description[s]] = b.end]
    BY <2>2
  <2> DEFINE c == [b EXCEPT !.left = @ - 1]
  <2>4. GoodBuffer(s, c) /\ Position(c) = at + 1 /\ Unit(b) = at /\ c.end = b.end
    <3>1. b.left \in Nat /\ b.left - 1 \in 0..Len(b.data)
      BY <2>3 DEF GoodBuffer
    <3>2. c = [b EXCEPT !.left = b.left - 1] /\ c.end = b.end
      BY <2>3, <3>1, MovedInBuffer
    <3> QED BY <2>1, <2>3, <3>2, NextUnit
  <2>5. b.left \in Nat /\ b.left # 0 /\ b.end \in Offsets
    BY <2>3 DEF GoodBuffer
  <2>6. /\ buf' = [buf EXCEPT ![s] = c]
        /\ use' = [use EXCEPT ![t].at = at + 1]
        /\ last' = [last EXCEPT ![t] = [due |-> at, came |-> Unit(b)]]
    BY <2>1, <2>3, <2>5 DEF Take
  <2> HIDE DEF c
  <2>7. /\ StreamsInv' /\ buf'[s] = c /\ offset'[Description[s]] = b.end
        /\ \A u \in Threads : u # Owner[s] /\ use'[u] = use[u] => InUse(u)'
    <3>1. opened' \subseteq Streams /\ copied' \subseteq Streams /\ opened \ {s} \subseteq opened'
      BY <1>4 DEF Read, StreamsInv
    <3>2. Becomes(s, c, b.end)
      BY <2>3, <2>6 DEF Becomes
    <3> HIDE DEF Inv
    <3> QED BY <2>1, <2>4, <2>5, <3>1, <3>2, OneStream
  <2>8. use'[t] = [stream |-> s, at |-> at + 1] /\ at + 1 \in Offsets
    BY <2>1, <2>6 DEF UseInv, Offsets
  <2>9. InUse(t)'
    BY <1>4, <2>1, <2>4, <2>7, <2>8 DEF InUse, Read
  <2>10. \A u \in Threads : u # t => use'[u] = use[u]
    BY <2>6 DEF UseInv
  <2>11. ReadsWhereSought'
    BY <2>4, <2>6 DEF ReadsWhereSought, UseInv
  <2> QED BY <2>1, <2>6, <2>7, <2>9, <2>10, <2>11 DEF UseInv
<1>5. CASE UNCHANGED vars
  BY <1>5 DEF vars, StreamsInv, UseInv, InUse, ReadsWhereSought
<1> QED BY <1>1, <1>2, <1>3, <1>4, <1>5 DEF Next

-----------------------------------------------------------------------------
\* The inductive invariant of the streams.
THEOREM Invariance == ASSUME OwnDescriptions PROVE Spec => []Inv
<1>1. Init => Inv
  BY InitInv
<1>2. Inv /\ [Next]_vars => Inv'
  BY StepInv
<1> QED BY <1>1, <1>2, PTL DEF Spec

\* The variables keep their types.
THEOREM TypeCorrect == ASSUME OwnDescriptions PROVE Spec => []TypeOK
<1>1. Inv => TypeOK
  BY DEF Inv, StreamsInv, UseInv, InUse, GoodBuffer, TypeOK
<1> QED BY <1>1, Invariance, PTL

\* Whoever has the only streams on an open file description reads what stands at the
\* offset sought (HashTableReader.cc, Utils.cc), for any number of threads, streams
\* and copies, any sizes of the file and the buffers.
THEOREM ReadsComeFromWhereSought == ASSUME OwnDescriptions PROVE Spec => []ReadsWhereSought
<1>1. Inv => ReadsWhereSought
  BY DEF Inv
<1> QED BY <1>1, Invariance, PTL
=============================================================================
