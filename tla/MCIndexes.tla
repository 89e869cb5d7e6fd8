------------------------------- MODULE MCIndexes -------------------------------
(* The list with a pool of four nodes, or the hash table with two buckets,  *)
(* two overflow nodes and four keys.  What a behaviour is about is chosen   *)
(* at its start; the other structure stays as it was made.  The default     *)
(* hash function spreads the keys over the buckets, a constant one sends    *)
(* them all to one.                                                         *)
EXTENDS MCIList2, MCIHash

VARIABLE which

Default == [k \in Keys |-> k]
OneBucket == [k \in Keys |-> 1]
MCHashFns == {Default, OneBucket}

allvars == <<which, list, held, hash, iter, seen>>

NewList == ilist2_init(ListSz, [i \in Idx(ListSz) |-> CHOOSE d \in Data : TRUE])
NewHash == ihash_init(BucketSz, ChainSz, Default,
                      [e \in Slots |-> CHOOSE v \in Vals : TRUE])

MCInit ==
  \/ which = "list" /\ Init /\ hash = NewHash /\ iter = ihash_begin(NewHash) /\ seen = {}
  \/ which = "hash" /\ HashInit /\ list = NewList /\ held = {}

MCNext == \/ which = "list" /\ Next /\ UNCHANGED <<which, hash, iter, seen>>
          \/ which = "hash" /\ HashNext /\ UNCHANGED <<which, list, held>>

MCSpec == MCInit /\ [][MCNext]_allvars
===============================================================================
