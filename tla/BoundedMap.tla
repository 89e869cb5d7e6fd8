----------------------------- MODULE BoundedMap -----------------------------
(***************************************************************************)
(* What lib/core/src/ihash.h promises: a map from keys to values.  A put   *)
(* of a new key may be refused, but only when the table holds at least     *)
(* Refuse entries, and the map is then as it was.  A key put without a     *)
(* value gets whatever value its memory holds.                             *)
(***************************************************************************)
EXTENDS Integers, FiniteSets

CONSTANTS Keys, Vals,
          Refuse      \* the least number of entries that can refuse a new key

VARIABLE map          \* a function from the keys present to their values

Init == map = [k \in {} |-> k]

Clear == map' = [k \in {} |-> k]

Put(k, v) == map' = [j \in DOMAIN map \cup {k} |-> IF j = k THEN v ELSE map[j]]

PutKey(k) == IF k \in DOMAIN map THEN UNCHANGED map ELSE \E v \in Vals : Put(k, v)

Refused(k) == /\ k \notin DOMAIN map /\ Cardinality(DOMAIN map) >= Refuse
              /\ UNCHANGED map

Erase(k) == map' = [j \in DOMAIN map \ {k} |-> map[j]]

Next == \/ Clear
        \/ \E k \in Keys : PutKey(k) \/ Refused(k) \/ Erase(k)
        \/ \E k \in Keys, v \in Vals : Put(k, v)

Spec == Init /\ [][Next]_map
=============================================================================
