-------------------------------- MODULE IHash --------------------------------
(***************************************************************************)
(* The hash table of lib/core/src/ihash.c as a component: one action per   *)
(* function of its interface that changes the table, and an iteration by   *)
(* which a caller visits the entries between its changes.                  *)
(***************************************************************************)
EXTENDS IHashOps

CONSTANTS BucketSz,   \* number of primary slots
          ChainSz,    \* number of overflow nodes
          Keys,       \* the keys callers use
          Vals,       \* the values they store
          HashFns     \* the hash functions they pass

\* What is assumed of them.
ASSUME SizeAssumption == BucketSz \in Nat \ {0} /\ ChainSz \in Nat
ASSUME KeyAssumption == UNDEF \notin Keys /\ HashFns \subseteq [Keys -> Nat]

VARIABLES hash,       \* the table in memory
          iter,       \* the iterator of a caller's loop
          seen        \* the entries the loop has visited

hashvars == <<hash, iter, seen>>

Slots == 0 .. BucketSz + ChainSz - 1

HashInit == /\ \E f \in HashFns, v \in Vals :
                 hash = ihash_init(BucketSz, ChainSz, f, [e \in Slots |-> v])
            /\ iter = ihash_begin(hash)
            /\ seen = {}

\* A change of the table by its owner, who starts its next loop anew.
Becomes(h) == hash' = h /\ iter' = ihash_begin(h) /\ seen' = {}

ClearHash(f) == Becomes(ihash_clear(hash, f))
Put(k, v) == Becomes(ihash_put(hash, k, v))
PutKey(k) == Becomes(ihash_touch(hash, k))
Erase(k) == Becomes(ihash_erase(hash, k))

\* One turn of an ihash_foreach loop.
Visit == /\ ihash_is_valid(hash, iter)
         /\ seen' = seen \cup {iter.datum}
         /\ iter' = ihash_next(hash, iter)
         /\ UNCHANGED hash

HashNext ==
  \/ \E f \in HashFns : ClearHash(f)
  \/ \E k \in Keys : Erase(k) \/ PutKey(k) \/ \E v \in Vals : Put(k, v)
  \/ Visit

HashSpec == HashInit /\ [][HashNext]_hashvars

-----------------------------------------------------------------------------

\* Header, entries and the iterator hold values of their types.
HashTypeOK ==
  /\ hash \in HashType(BucketSz, ChainSz, Keys, Vals, HashFns)
  /\ iter.bucket_idx \in 0 .. BucketSz /\ iter.datum \in Slots \cup {UNDEF}
  /\ seen \subseteq Slots

\* After any calls: every chain and the free list end, they share the pool
\* without losing or sharing a node, every entry is on the chain its key
\* hashes to, and no key is stored twice (an erase that moves a chain's first
\* node into the bucket, and the reuse of freed nodes, included).
HashWellFormed == LinksSound(hash) /\ KeysSound(hash)

HashSound == HashTypeOK /\ HashWellFormed

\* A loop never comes back to an entry it has visited, and once it is finished it
\* has visited every entry in use and nothing else.
IterationComplete ==
  IF ihash_is_valid(hash, iter) THEN iter.datum \notin seen
  ELSE seen = {e \in Slots : hash.key[e] # UNDEF}
=============================================================================
