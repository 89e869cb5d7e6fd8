------------------------------- MODULE LruCache -------------------------------
(***************************************************************************)
(* What lib/core/src/icache.h promises: at most Capacity entries in order  *)
(* of recency.  A put of a key that is present makes it the most recent.   *)
(* A put of a new key adds it as the most recent; once the cache holds     *)
(* Full entries it may first evict the least recent one, and no other.     *)
(* Lose is the exception the code has: the least recent entry is evicted   *)
(* and the new one refused all the same.                                   *)
(***************************************************************************)
EXTENDS Integers, Sequences

CONSTANTS Keys, Vals, Capacity, Full

VARIABLE entries      \* sequence of [key, val], most recent first

Present(k) == \E i \in DOMAIN entries : entries[i].key = k
PlaceOf(k) == CHOOSE i \in DOMAIN entries : entries[i].key = k
Others(k) == SubSeq(entries, 1, PlaceOf(k) - 1)
               \o SubSeq(entries, PlaceOf(k) + 1, Len(entries))
ValOf(k) == entries[PlaceOf(k)].val
AllButLast == SubSeq(entries, 1, Len(entries) - 1)
Entry(k, v) == <<[key |-> k, val |-> v]>>

Init == entries = <<>>
Clear == entries' = <<>>

Renew(k, v) == Present(k) /\ entries' = Entry(k, v) \o Others(k)

Add(k, v) == /\ ~Present(k) /\ Len(entries) < Capacity
             /\ entries' = Entry(k, v) \o entries

Replace(k, v) == /\ ~Present(k) /\ Len(entries) >= Full
                 /\ entries' = Entry(k, v) \o AllButLast

Lose(k) == /\ ~Present(k) /\ Len(entries) >= Full
           /\ entries' = AllButLast

Put(k, v) == Renew(k, v) \/ Add(k, v) \/ Replace(k, v) \/ Lose(k)
Touch(k) == \/ Present(k) /\ Renew(k, ValOf(k))
            \/ ~Present(k) /\ \E v \in Vals : Put(k, v)

Next == Clear \/ \E k \in Keys : Touch(k) \/ \E v \in Vals : Put(k, v)

Spec == Init /\ [][Next]_entries
=============================================================================
