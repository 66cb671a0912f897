------------------------------ MODULE SeqList ------------------------------
(***************************************************************************)
(* What hw1/LinkedList.h promises: a list is a finite sequence of payloads *)
(* with one iterator over it.  Nodes and pointers do not appear.           *)
(***************************************************************************)
EXTENDS Integers, Sequences

CONSTANTS Payloads, Rank(_)   \* the comparator orders payloads by rank

None == -1    \* no iterator is manufactured
End  == 0     \* the iterator is past the end

VARIABLES list,   \* the payloads from head to tail
          at,     \* the iterator: None, End, or the position it points at
          ret     \* what the last call returned

vars == <<list, at, ret>>

Failure == [ok |-> FALSE, out |-> <<>>]
Success(p) == [ok |-> TRUE, out |-> <<p>>]

Init == list = <<>> /\ at = None /\ ret = Failure

PushFront(p) == at = None /\ list' = <<p>> \o list /\ UNCHANGED <<at, ret>>
PushBack(p)  == at = None /\ list' = Append(list, p) /\ UNCHANGED <<at, ret>>

TakeFront ==
    /\ at = None /\ UNCHANGED at
    /\ IF list = <<>> THEN ret' = Failure /\ UNCHANGED list
       ELSE ret' = Success(Head(list)) /\ list' = Tail(list)

TakeBack ==
    /\ at = None /\ UNCHANGED at
    /\ IF list = <<>> THEN ret' = Failure /\ UNCHANGED list
       ELSE /\ ret' = Success(list[Len(list)])
            /\ list' = SubSeq(list, 1, Len(list) - 1)

\* f takes each place of a list to the place its payload came from.
Permutation(f, places) ==
    /\ f \in [places -> places]
    /\ \A i, j \in places : f[i] = f[j] => i = j

\* The payloads are permuted into the order of their ranks; those of one rank
\* keep the order they had.
SortBy(f, ascending) ==
    /\ at = None
    /\ Permutation(f, DOMAIN list)
    /\ list' = [i \in DOMAIN list |-> list[f[i]]]
    /\ \A i, j \in DOMAIN list : i < j =>
          \/ IF ascending THEN Rank(list'[i]) < Rank(list'[j])
                       ELSE Rank(list'[i]) > Rank(list'[j])
          \/ Rank(list'[i]) = Rank(list'[j]) /\ f[i] < f[j]
    /\ UNCHANGED <<at, ret>>

Clear == at = None /\ list' = <<>> /\ UNCHANGED <<at, ret>>

Iterate ==
    /\ at' = IF list = <<>> THEN End ELSE 1
    /\ UNCHANGED <<list, ret>>

FreeIterator == at' = None /\ UNCHANGED <<list, ret>>

Advance ==
    /\ at > 0
    /\ at' = IF at < Len(list) THEN at + 1 ELSE End
    /\ ret' = [ok |-> at' # End, out |-> <<>>]
    /\ UNCHANGED list

\* The iterator's payload is handed out.
Get == at > 0 /\ ret' = Success(list[at]) /\ UNCHANGED <<list, at>>

\* The element goes; the iterator points at its successor, at its predecessor
\* when it was the last, and nowhere when it was the only one.
RemoveCurrent ==
    /\ at > 0
    /\ list' = SubSeq(list, 1, at - 1) \o SubSeq(list, at + 1, Len(list))
    /\ at' = IF at < Len(list) THEN at ELSE at - 1
    /\ ret' = [ok |-> list' # <<>>, out |-> <<>>]

Next ==
    \/ \E p \in Payloads : PushFront(p) \/ PushBack(p)
    \/ TakeFront \/ TakeBack \/ Clear
    \/ Iterate \/ FreeIterator \/ Advance \/ Get \/ RemoveCurrent
    \/ \E f \in [DOMAIN list -> DOMAIN list], asc \in BOOLEAN : SortBy(f, asc)

Spec == Init /\ [][Next]_vars
=============================================================================
