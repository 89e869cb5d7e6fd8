------------------------------- MODULE Buckets -------------------------------
(***************************************************************************)
(* What of a hash table of ihash.c decides whether it can take one more    *)
(* key: how its keys S fall on the buckets, b[k] being the bucket of k.    *)
(* Every bucket in use holds one key itself and its other keys in nodes of *)
(* the overflow pool of c nodes.  MCIHash checks this reading against the  *)
(* table itself; the caches above are modelled with it.                    *)
(***************************************************************************)
EXTENDS Integers, FiniteSets, Sequences

\* Overflow nodes in use.
Overflow(S, b) == Cardinality(S) - Cardinality({b[k] : k \in S})

RoomFor(S, k, b, c) ==
  b[k] \notin {b[j] : j \in S} \/ Overflow(S, b) < c

-----------------------------------------------------------------------------
(* An LRU cache as the sequence of its keys, the most recent first.        *)

KeySet(s) == {s[i] : i \in DOMAIN s}
Lru(s) == s[Len(s)]
ButLru(s) == SubSeq(s, 1, Len(s) - 1)

\* Where k is in s; s without what is at place i; s with k moved to the front.
Place(s, k) == CHOOSE i \in DOMAIN s : s[i] = k
Without(s, i) == [j \in 1 .. Len(s) - 1 |-> IF j < i THEN s[j] ELSE s[j + 1]]
Renewed(s, k) == <<k>> \o Without(s, Place(s, k))
=============================================================================
