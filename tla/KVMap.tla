------------------------------- MODULE KVMap -------------------------------
(***************************************************************************)
(* What hw1/HashTable.h promises: a finite map from keys to values and an  *)
(* iterator that visits each key of the map exactly once, in any order.    *)
(***************************************************************************)
CONSTANTS Keys, Values, NoKey

VARIABLES map,    \* a function from the keys that are present to their values
          cur,    \* the key the iterator points at, or NoKey
          todo,   \* the keys the iterator has still to visit, cur among them
          live,   \* an iterator is manufactured
          ret     \* what the last call returned: a flag and (key, value)s

vars == <<map, cur, todo, live, ret>>

Failure == [ok |-> FALSE, out |-> <<>>]
Found(k) == [ok |-> TRUE, out |-> <<[key |-> k, value |-> map[k]]>>]
Lookup(k) == IF k \in DOMAIN map THEN Found(k) ELSE Failure

Without(k) == [j \in DOMAIN map \ {k} |-> map[j]]

Init == /\ map = [k \in {} |-> k]
        /\ cur = NoKey /\ todo = {} /\ live = FALSE
        /\ ret = Failure

Insert(k, v) ==
    /\ ~live
    /\ ret' = Lookup(k)
    /\ map' = [j \in DOMAIN map \cup {k} |-> IF j = k THEN v ELSE map[j]]
    /\ UNCHANGED <<cur, todo, live>>

Find(k) == ret' = Lookup(k) /\ UNCHANGED <<map, cur, todo, live>>

Remove(k) ==
    /\ ~live
    /\ ret' = Lookup(k)
    /\ map' = Without(k)
    /\ UNCHANGED <<cur, todo, live>>

Clear ==
    /\ ~live
    /\ map' = [k \in {} |-> k]
    /\ UNCHANGED <<cur, todo, live, ret>>

\* The iterator goes to some key of S, the keys that are left.
MoveWithin(S) ==
    /\ todo' = S
    /\ IF S = {} THEN cur' = NoKey ELSE cur' \in S

Iterate == ~live /\ live' = TRUE /\ MoveWithin(DOMAIN map) /\ UNCHANGED <<map, ret>>

FreeIterator ==
    /\ live' = FALSE /\ cur' = NoKey /\ todo' = {}
    /\ UNCHANGED <<map, ret>>

Advance ==
    /\ live
    /\ MoveWithin(todo \ {cur})
    /\ ret' = [ok |-> cur' # NoKey, out |-> <<>>]
    /\ UNCHANGED <<map, live>>

Get ==
    /\ live
    /\ ret' = IF cur = NoKey THEN Failure ELSE Found(cur)
    /\ UNCHANGED <<map, cur, todo, live>>

\* The pair the iterator points at is removed and handed out.
RemoveCurrent ==
    /\ live
    /\ IF cur = NoKey
       THEN ret' = Failure /\ UNCHANGED <<map, cur, todo>>
       ELSE ret' = Found(cur) /\ map' = Without(cur) /\ MoveWithin(todo \ {cur})
    /\ UNCHANGED live

Next ==
    \/ \E k \in Keys : Find(k) \/ Remove(k) \/ \E v \in Values : Insert(k, v)
    \/ Clear \/ Iterate \/ FreeIterator \/ Advance \/ Get \/ RemoveCurrent

Spec == Init /\ [][Next]_vars
=============================================================================
