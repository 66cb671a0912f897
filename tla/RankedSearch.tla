---------------------------- MODULE RankedSearch ----------------------------
(***************************************************************************)
(* What MemIndex_Search (hw2/MemIndex.h:88-103) and QueryProcessor's       *)
(* ProcessQuery (hw3/QueryProcessor.h) promise: to every query the         *)
(* documents that contain each of its words, the best first.               *)
(***************************************************************************)
EXTENDS Integers, Sequences

CONSTANTS Queries,            \* the queries that may be asked, sequences of words
          NoQuery, NoAnswer

VARIABLES count,    \* how often each document contains each word
          query,    \* the query being answered, the last one answered, or NoQuery
          answer    \* the sequence of results, or NoAnswer while there is none

vars == <<count, query, answer>>

\* How often document d contains the first so many words of q.
Sums(d, q) ==
    LET sum[k \in 0..Len(q)] == IF k = 0 THEN 0 ELSE sum[k - 1] + count[d][q[k]]
    IN  sum

Rank(d, q) == Sums(d, q)[Len(q)]

\* An empty query matches nothing.
Matches(q) == {d \in DOMAIN count : q # <<>> /\ \A i \in DOMAIN q : count[d][q[i]] > 0}

IsRanking(a, q) ==
    /\ {a[i].doc : i \in DOMAIN a} = Matches(q)
    /\ \A i, j \in DOMAIN a : i # j => a[i].doc # a[j].doc
    /\ \A i \in DOMAIN a : a[i].rank = Rank(a[i].doc, q)
    /\ \A i, j \in DOMAIN a : i < j => a[i].rank >= a[j].rank

Init == query = NoQuery /\ answer = NoAnswer

Ask(q) ==
    /\ query = NoQuery \/ answer # NoAnswer
    /\ query' = q /\ answer' = NoAnswer
    /\ UNCHANGED count

Reply ==
    /\ query # NoQuery /\ answer = NoAnswer
    /\ answer' # NoAnswer /\ IsRanking(answer', query)
    /\ UNCHANGED <<count, query>>

Next == Reply \/ \E q \in Queries : Ask(q)

Asked    == query # NoQuery /\ answer = NoAnswer
Answered == answer # NoAnswer

\* What may be answered, and that there is an answer to every query.
Safety == Init /\ [][Next]_vars
Spec   == Safety /\ (Asked ~> Answered)
=============================================================================
