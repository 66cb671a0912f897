---------------------------- MODULE FileStreams ----------------------------
(***************************************************************************)
(* The FILE*s through which hw3 reads an index file.  FileIndexReader      *)
(* opens one, every reader gets a copy of it from FileDup (hw3/Utils.cc):  *)
(* a stream with a buffer of its own on a descriptor that dup made, so     *)
(* that the copies have one file offset between them.  Every method of a   *)
(* reader is a number of fseeks, each with the freads that go on from      *)
(* there.  The file is a sequence of units; what is read at offset o is o. *)
(***************************************************************************)
EXTENDS Integers, Sequences, FiniteSets

CONSTANTS
    Threads,
    Streams,       \* bound: the FILE*s
    Owner,         \* Owner[s]: the thread that uses s
    Description,   \* Description[s]: the open file description under s
    BufSize,       \* BufSize[s]: the units s buffers, 1 after setbuf(f, NULL)
    FileSize,      \* bound: the units of the file
    None

ASSUME StreamsAssumption ==
    /\ Owner \in [Streams -> Threads]
    /\ BufSize \in [Streams -> Nat \ {0}]
    /\ FileSize \in Nat \ {0}
    /\ \A s \in Streams : \E r \in Streams : Description[r] = Description[s] /\ BufSize[r] = 1

VARIABLES
    opened,   \* the streams that are open
    copied,   \* the streams FileDup has made so far; the others are fopened at first
    offset,   \* the file offset of every open file description
    buf,      \* the buffer of every stream: what is in it, the offset at which the
              \* stream takes it to end, and how much of it is still to be read
    use,      \* for every thread the stream it reads from and the next offset
    last      \* for every thread the unit it read last: which was due, which came

vars == <<opened, copied, offset, buf, use, last>>

Descriptions == {Description[s] : s \in Streams}
Offsets == 0..FileSize
Empty(at) == [data |-> <<>>, end |-> at, left |-> 0]

\* One stream of each description is fopened; file_ of FileIndexReader.
First(d) == CHOOSE s \in Streams : Description[s] = d /\ BufSize[s] = 1

Init ==
    /\ opened = {First(d) : d \in Descriptions}
    /\ copied = {}
    /\ offset = [d \in Descriptions |-> 0]
    /\ buf = [s \in Streams |-> Empty(0)]
    /\ use = [t \in Threads |-> None]
    /\ last = [t \in Threads |-> None]

-----------------------------------------------------------------------------
\* stdio and the kernel.  Where the stream takes itself to be:
Position(b) == b.end - b.left

\* The block of the file that holds offset o, as a buffer to be read from o on.
Block(s, o) ==
    LET start == o - (o % BufSize[s])
        end   == IF start + BufSize[s] <= FileSize THEN start + BufSize[s] ELSE FileSize
    IN  [data |-> [k \in 1..(end - start) |-> start + k - 1], end |-> end, left |-> end - o]

\* fseek to an offset in the buffer keeps it, and puts the file offset back to
\* where the buffer ends.  Otherwise the buffer is given up, and may be filled at
\* once with the block around the offset.
SeekTo(s, o) ==
    LET b == buf[s]
        Becomes(c, at) == /\ buf' = [buf EXCEPT ![s] = c]
                          /\ offset' = [offset EXCEPT ![Description[s]] = at]
    IN  IF b.data # <<>> /\ o \in (b.end - Len(b.data))..b.end
        THEN Becomes([b EXCEPT !.left = b.end - o], b.end)
        ELSE \/ Becomes(Empty(o), o)
             \/ /\ BufSize[s] > 1
                /\ LET c == Block(s, o) IN Becomes(c, c.end)

\* The units that read(2) gives, from the file offset on.
Filled(s) ==
    LET at == offset[Description[s]]
        n  == IF at + BufSize[s] <= FileSize THEN BufSize[s] ELSE FileSize - at
    IN  [data |-> [k \in 1..n |-> at + k - 1], end |-> buf[s].end + n, left |-> n]

Unit(b) == b.data[Len(b.data) - b.left + 1]

\* fread of a unit out of the buffer b, which may be empty at the end of the file.
Take(s, b) ==
    LET t == Owner[s] IN
    /\ buf' = [buf EXCEPT ![s] = [b EXCEPT !.left = IF @ = 0 THEN 0 ELSE @ - 1]]
    /\ last' = [last EXCEPT ![t] = [due  |-> use[t].at,
                                    came |-> IF b.left = 0 THEN None ELSE Unit(b)]]
    /\ use' = [use EXCEPT ![t].at = @ + 1]

-----------------------------------------------------------------------------
\* FileDup: dup and fdopen.
FileDup(s) ==
    /\ s \notin opened \cup copied
    /\ \E r \in opened : Description[r] = Description[s]
    /\ opened' = opened \cup {s}
    /\ copied' = copied \cup {s}
    /\ buf' = [buf EXCEPT ![s] = Empty(offset[Description[s]])]
    /\ UNCHANGED <<offset, use, last>>

\* Deviation: no fseek if the stream is at the offset already.
SeekIfElsewhere(s, o) ==
    /\ s \in opened
    /\ IF Position(buf[s]) = o THEN UNCHANGED <<buf, offset>> ELSE SeekTo(s, o)
    /\ use' = [use EXCEPT ![Owner[s]] = [stream |-> s, at |-> o]]
    /\ UNCHANGED <<opened, copied, last>>

\* The beginning of a lookup, or its next element (and the one fread after fopen,
\* at offset 0).
Seek(s, o) ==
    /\ s \in opened
    /\ SeekTo(s, o)
    /\ use' = [use EXCEPT ![Owner[s]] = [stream |-> s, at |-> o]]
    /\ UNCHANGED <<opened, copied, last>>

\* The next unit of a lookup.
Read(t) ==
    /\ use[t] # None /\ use[t].at < FileSize
    /\ LET s == use[t].stream IN
       IF buf[s].left > 0
       THEN Take(s, buf[s]) /\ UNCHANGED offset
       ELSE /\ Take(s, Filled(s))
            /\ offset' = [offset EXCEPT ![Description[s]] = @ + Filled(s).left]
    /\ UNCHANGED <<opened, copied>>

\* A reader is destroyed, between two lookups of its thread: fclose may put the
\* file offset back to where the stream was.
Close(s) ==
    /\ s \in opened
    /\ opened' = opened \ {s}
    /\ \/ offset' = [offset EXCEPT ![Description[s]] = Position(buf[s])]
       \/ UNCHANGED offset
    /\ use' = [use EXCEPT ![Owner[s]] = None]
    /\ buf' = [buf EXCEPT ![s] = Empty(0)]
    /\ UNCHANGED <<copied, last>>

Next ==
    \/ \E s \in Streams : FileDup(s) \/ Close(s) \/ \E o \in 0..(FileSize - 1) : Seek(s, o)
    \/ \E t \in Threads : Read(t)

Spec == Init /\ [][Next]_vars

-----------------------------------------------------------------------------
\* The variables keep their types.
TypeOK ==
    /\ opened \subseteq Streams /\ copied \subseteq Streams
    /\ offset \in [Descriptions -> Offsets]
    /\ \A s \in Streams :
          /\ Len(buf[s].data) <= BufSize[s]
          /\ buf[s].left \in 0..Len(buf[s].data)
    /\ \A t \in Threads : use[t] # None => use[t].stream \in opened /\ use[t].at \in Offsets

\* A reader gets what stands at the offset it sought, through all the seeks, reads,
\* copies and destructions in between, though the copies of a stream share their
\* file offset (HashTableReader.cc, DocTableReader.cc, DocIDTableReader.cc).
ReadsWhereSought == \A t \in Threads : last[t] # None => last[t].came = last[t].due
=============================================================================
