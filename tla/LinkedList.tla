----------------------------- MODULE LinkedList -----------------------------
(***************************************************************************)
(* hw1/LinkedList.c: a doubly linked list of nodes on the heap, with one   *)
(* iterator.  Every call is an action, except that LinkedList_Sort runs    *)
(* comparison by comparison, so that its loops can be seen to end.         *)
(*                                                                         *)
(* A customer keeps to LinkedList.h: it calls no LinkedList function that  *)
(* changes the list between the manufacturing and the freeing of an        *)
(* iterator, and it reads, moves and removes with a valid iterator only.   *)
(***************************************************************************)
EXTENDS Integers, Sequences

CONSTANTS Addrs,          \* bound: the addresses malloc can return
          Payloads,
          Rank(_),        \* the order of the customer's comparator_function
          NULL, Undefined \* the contents of a node that is not allocated

ASSUME ListAssumption == /\ NULL \notin Addrs /\ Undefined \notin Addrs
                         /\ NULL # Undefined /\ Undefined \notin Payloads
                         /\ \A p \in Payloads : Rank(p) \in Int

NoIter == Undefined       \* no iterator is manufactured

VARIABLES
    head, tail, num_elements,   \* the LinkedList record
    next, prev, payload,        \* the fields of the nodes
    order,                      \* history: the addresses of the nodes in list order
    node,                       \* the iterator's node, NULL, or NoIter
    curnode, swapped, ascending,\* the locals of LinkedList_Sort; curnode is NULL outside
    unsorted,                   \* history: the payloads when the sort began
    ret                         \* what the last call returned: a flag and a payload

nodes == <<next, prev, payload>>
list  == <<head, tail, num_elements>>
sort  == <<curnode, swapped, ascending, unsorted>>
vars  == <<list, nodes, order, node, sort, ret>>

Allocated == {order[i] : i \in DOMAIN order}
Contents  == [i \in DOMAIN order |-> payload[order[i]]]

Failure    == [ok |-> FALSE, out |-> <<>>]
Success(p) == [ok |-> TRUE, out |-> <<p>>]
Flag(b)    == [ok |-> b, out |-> <<>>]

Init ==
    /\ head = NULL /\ tail = NULL /\ num_elements = 0
    /\ next = [a \in Addrs |-> Undefined]
    /\ prev = [a \in Addrs |-> Undefined]
    /\ payload = [a \in Addrs |-> Undefined]
    /\ order = <<>>
    /\ node = NoIter
    /\ curnode = NULL /\ swapped = FALSE /\ ascending = FALSE /\ unsorted = <<>>
    /\ ret = Failure

\* The customer may change the list: no iterator, and no sort is running.
Idle == node = NoIter /\ curnode = NULL

\* free(a): f is the field after the call's assignments.
Freed(f, a) == [f EXCEPT ![a] = Undefined]

-----------------------------------------------------------------------------
\* Deviation: the old head does not learn its new predecessor.
PushOneWay(ln, p) ==
    /\ Idle
    /\ ln \notin Allocated
    /\ payload' = [payload EXCEPT ![ln] = p]
    /\ next' = [next EXCEPT ![ln] = head]
    /\ prev' = [prev EXCEPT ![ln] = NULL]
    /\ head' = ln /\ tail' = (IF num_elements = 0 THEN ln ELSE tail)
    /\ num_elements' = num_elements + 1
    /\ order' = <<ln>> \o order
    /\ UNCHANGED <<node, sort, ret>>

Push(ln, p) ==
    /\ Idle
    /\ ln \notin Allocated
    /\ payload' = [payload EXCEPT ![ln] = p]
    /\ IF num_elements = 0
       THEN /\ next' = [next EXCEPT ![ln] = NULL]
            /\ prev' = [prev EXCEPT ![ln] = NULL]
            /\ head' = ln /\ tail' = ln /\ num_elements' = 1
       ELSE /\ prev' = [prev EXCEPT ![ln] = NULL, ![head] = ln]
            /\ next' = [next EXCEPT ![ln] = head]
            /\ head' = ln /\ tail' = tail /\ num_elements' = num_elements + 1
    /\ order' = <<ln>> \o order
    /\ UNCHANGED <<node, sort, ret>>

AppendNode(ln, p) ==
    /\ Idle
    /\ ln \notin Allocated
    /\ payload' = [payload EXCEPT ![ln] = p]
    /\ IF num_elements = 0
       THEN /\ next' = [next EXCEPT ![ln] = NULL]
            /\ prev' = [prev EXCEPT ![ln] = NULL]
            /\ head' = ln /\ tail' = ln /\ num_elements' = 1
       ELSE /\ next' = [next EXCEPT ![ln] = NULL, ![tail] = ln]
            /\ prev' = [prev EXCEPT ![ln] = tail]
            /\ head' = head /\ tail' = ln /\ num_elements' = num_elements + 1
    /\ order' = Append(order, ln)
    /\ UNCHANGED <<node, sort, ret>>

\* Pop and Slice of an empty list.
TakeFails ==
    /\ Idle /\ num_elements = 0
    /\ ret' = Failure
    /\ UNCHANGED <<list, nodes, order, node, sort>>

Pop ==
    /\ Idle /\ num_elements # 0
    /\ ret' = Success(payload[head])
    /\ IF num_elements = 1
       THEN head' = NULL /\ tail' = NULL /\ prev' = Freed(prev, head)
       ELSE /\ prev' = Freed([prev EXCEPT ![next[head]] = NULL], head)
            /\ head' = next[head] /\ tail' = tail
    /\ num_elements' = num_elements - 1
    /\ next' = Freed(next, head) /\ payload' = Freed(payload, head)
    /\ order' = Tail(order)
    /\ UNCHANGED <<node, sort>>

Slice ==
    /\ Idle /\ num_elements # 0
    /\ ret' = Success(payload[tail])
    /\ IF num_elements = 1
       THEN head' = NULL /\ tail' = NULL /\ next' = Freed(next, tail)
       ELSE /\ next' = Freed([next EXCEPT ![prev[tail]] = NULL], tail)
            /\ tail' = prev[tail] /\ head' = head
    /\ num_elements' = num_elements - 1
    /\ prev' = Freed(prev, tail) /\ payload' = Freed(payload, tail)
    /\ order' = SubSeq(order, 1, Len(order) - 1)
    /\ UNCHANGED <<node, sort>>

-----------------------------------------------------------------------------
\* LinkedList_Free frees the nodes it meets from head along next; a list that
\* LinkedList_Allocate returns takes the place of the freed one.

Swept ==
    CHOOSE S \in SUBSET Addrs :
       LET Closed(T) == /\ head \in T \cup {NULL}
                        /\ \A a \in T : next[a] \in T \cup {NULL}
       IN  Closed(S) /\ \A T \in SUBSET S : Closed(T) => T = S

FreeList ==
    /\ Idle
    /\ head' = NULL /\ tail' = NULL /\ num_elements' = 0
    /\ next' = [a \in Addrs |-> IF a \in Swept THEN Undefined ELSE next[a]]
    /\ prev' = [a \in Addrs |-> IF a \in Swept THEN Undefined ELSE prev[a]]
    /\ payload' = [a \in Addrs |-> IF a \in Swept THEN Undefined ELSE payload[a]]
    /\ order' = <<>>
    /\ UNCHANGED <<node, sort, ret>>

-----------------------------------------------------------------------------
\* LinkedList_Sort: bubble sort of the payloads.

SortBegin(asc) ==
    /\ Idle /\ num_elements >= 2
    /\ curnode' = head /\ swapped' = FALSE /\ ascending' = asc
    /\ unsorted' = Contents
    /\ UNCHANGED <<list, nodes, order, node, ret>>

\* comparator_function, with its sign turned for an ascending sort
Compare(p, q) == IF Rank(p) < Rank(q) THEN -1 ELSE IF Rank(p) = Rank(q) THEN 0 ELSE 1
\* Deviation: equal payloads are swapped as well.
NotInOrder(a, b) ==
    (IF ascending THEN -Compare(payload[a], payload[b])
                  ELSE Compare(payload[a], payload[b])) <= 0

OutOfOrder(a, b) ==
    (IF ascending THEN -Compare(payload[a], payload[b])
                  ELSE Compare(payload[a], payload[b])) < 0

\* One round of the inner loop.
SortCompare ==
    /\ curnode # NULL /\ next[curnode] # NULL
    /\ IF OutOfOrder(curnode, next[curnode])
       THEN /\ payload' = [payload EXCEPT ![curnode] = payload[next[curnode]],
                                          ![next[curnode]] = payload[curnode]]
            /\ swapped' = TRUE
       ELSE UNCHANGED <<payload, swapped>>
    /\ curnode' = next[curnode]
    /\ UNCHANGED <<list, next, prev, order, node, ascending, unsorted, ret>>

\* The inner loop is done: another pass, or the end of the sort.
SortPassDone ==
    /\ curnode # NULL /\ next[curnode] = NULL
    /\ IF swapped
       THEN curnode' = head /\ swapped' = FALSE /\ UNCHANGED <<ascending, unsorted>>
       ELSE curnode' = NULL /\ swapped' = FALSE /\ ascending' = FALSE /\ unsorted' = <<>>
    /\ UNCHANGED <<list, nodes, order, node, ret>>

-----------------------------------------------------------------------------
\* The iterator.  Manufacturing one and LLIterator_Rewind do the same to it.

Iterate ==
    /\ curnode = NULL
    /\ node' = head
    /\ UNCHANGED <<list, nodes, order, sort, ret>>

FreeIterator ==
    /\ node # NoIter
    /\ node' = NoIter
    /\ UNCHANGED <<list, nodes, order, sort, ret>>

Advance ==
    /\ node \notin {NULL, NoIter}
    /\ node' = next[node]
    /\ ret' = Flag(node' # NULL)
    /\ UNCHANGED <<list, nodes, order, sort>>

Get ==
    /\ node \notin {NULL, NoIter}
    /\ ret' = Success(payload[node])
    /\ UNCHANGED <<list, nodes, order, node, sort>>

IndexOf(a) == CHOOSE i \in DOMAIN order : order[i] = a
OrderWithout(a) == [i \in 1..(Len(order) - 1) |->
                       IF i < IndexOf(a) THEN order[i] ELSE order[i + 1]]

\* The four cases of LLIterator_Remove: what becomes of the links, of the two
\* ends and of the iterator.
RemoveOnly ==
    /\ num_elements = 1
    /\ head' = NULL /\ tail' = NULL /\ node' = NULL
    /\ next' = Freed(next, node) /\ prev' = Freed(prev, node)

RemoveHead ==
    /\ num_elements # 1 /\ prev[node] = NULL
    /\ head' = next[node] /\ tail' = tail /\ node' = next[node]
    /\ prev' = Freed([prev EXCEPT ![next[node]] = NULL], node)
    /\ next' = Freed(next, node)

\* Deviation: the iterator falls off the end with the last element.
RemoveTailEnds ==
    /\ num_elements # 1 /\ prev[node] # NULL /\ next[node] = NULL
    /\ tail' = prev[node] /\ head' = head /\ node' = NULL
    /\ next' = Freed([next EXCEPT ![prev[node]] = NULL], node)
    /\ prev' = Freed(prev, node)

RemoveTail ==
    /\ num_elements # 1 /\ prev[node] # NULL /\ next[node] = NULL
    /\ tail' = prev[node] /\ head' = head /\ node' = prev[node]
    /\ next' = Freed([next EXCEPT ![prev[node]] = NULL], node)
    /\ prev' = Freed(prev, node)

RemoveMiddle ==
    /\ num_elements # 1 /\ prev[node] # NULL /\ next[node] # NULL
    /\ next' = Freed([next EXCEPT ![prev[node]] = next[node]], node)
    /\ prev' = Freed([prev EXCEPT ![next[node]] = prev[node]], node)
    /\ head' = head /\ tail' = tail /\ node' = next[node]

Remove ==
    /\ node \notin {NULL, NoIter}
    /\ RemoveOnly \/ RemoveHead \/ RemoveTail \/ RemoveMiddle
    /\ num_elements' = num_elements - 1
    /\ payload' = Freed(payload, node)
    /\ order' = OrderWithout(node)
    /\ ret' = Flag(num_elements' # 0)
    /\ UNCHANGED sort

-----------------------------------------------------------------------------
Next ==
    \/ \E ln \in Addrs, p \in Payloads : Push(ln, p) \/ AppendNode(ln, p)
    \/ TakeFails \/ Pop \/ Slice \/ FreeList
    \/ \E asc \in BOOLEAN : SortBegin(asc)
    \/ SortCompare \/ SortPassDone
    \/ Iterate \/ FreeIterator \/ Advance \/ Get \/ Remove

Spec == Init /\ [][Next]_vars

\* A sort that has begun runs on.
FairSpec == Spec /\ WF_vars(SortCompare \/ SortPassDone)

-----------------------------------------------------------------------------
\* Every variable keeps its type: in particular no pointer ever leads to, and
\* no field is ever read from, a node that is not allocated.
TypeOK ==
    /\ order \in Seq(Addrs)
    /\ {head, tail} \subseteq Allocated \cup {NULL}
    /\ num_elements \in Nat
    /\ \A a \in Allocated : /\ next[a] \in Allocated \cup {NULL}
                            /\ prev[a] \in Allocated \cup {NULL}
                            /\ payload[a] \in Payloads
    /\ \A a \in Addrs \ Allocated :
          next[a] = Undefined /\ prev[a] = Undefined /\ payload[a] = Undefined
    /\ node \in Allocated \cup {NULL, NoIter}
    /\ curnode \in Allocated \cup {NULL}
    /\ swapped \in BOOLEAN /\ ascending \in BOOLEAN
    /\ unsorted \in Seq(Payloads)
    /\ ret.ok \in BOOLEAN /\ ret.out \in Seq(Payloads)

\* The pointers and the record tell the same story: forward along next and
\* backward along prev the list has the nodes of order, each once, and
\* num_elements of them, the ends marked by NULL.
WellLinked ==
    /\ num_elements = Len(order)
    /\ \A i, j \in DOMAIN order : order[i] = order[j] => i = j
    /\ head = IF order = <<>> THEN NULL ELSE order[1]
    /\ tail = IF order = <<>> THEN NULL ELSE order[Len(order)]
    /\ \A i \in DOMAIN order :
          /\ next[order[i]] = IF i = Len(order) THEN NULL ELSE order[i + 1]
          /\ prev[order[i]] = IF i = 1 THEN NULL ELSE order[i - 1]

\* The bubble sort ends.
SortTerminates == curnode # NULL ~> curnode = NULL

\* The nodes and pointers implement a sequence with an iterator; while a sort runs the
\* sequence is still the unsorted one.
Shown == IF curnode = NULL THEN Contents ELSE unsorted
Place == IF node = NoIter THEN -1 ELSE IF node = NULL THEN 0 ELSE IndexOf(node)

Abstract == INSTANCE SeqList WITH list <- Shown, at <- Place

\* Every call of the list is the same call on the sequence, with its results; a
\* sort is one step that sorts, and keeps the order of equal payloads.
ImplementsSeqList == Abstract!Spec
=============================================================================
