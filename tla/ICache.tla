-------------------------------- MODULE ICache --------------------------------
(***************************************************************************)
(* The LRU cache of lib/core/src/icache.c as a component: one action per   *)
(* function of its interface.  Its table and its list change in the same   *)
(* call, and each holds what the other needs to find the entry.            *)
(***************************************************************************)
EXTENDS ICacheOps

CONSTANTS BucketSz, ChainSz, Keys, Vals,
          KeyHashFns  \* the hash functions callers pass

\* What is assumed of them; the memory of a new cache holds some key and value.
ASSUME CacheAssumption ==
  /\ BucketSz \in Nat \ {0} /\ ChainSz \in Nat
  /\ UNDEF \notin Keys /\ Keys # {} /\ Vals # {}
  /\ KeyHashFns \subseteq [Keys -> Nat]

VARIABLE cache

CacheInit == \E f \in KeyHashFns :
               cache = icache_init(BucketSz, ChainSz, f, CHOOSE v \in Vals : TRUE,
                                   CHOOSE k \in Keys : TRUE)

ClearCache(f) == cache' = icache_clear(cache, f)
PutUser(k, v) == cache' = icache_put(cache, k, v)
TouchKey(k) == cache' = icache_touch(cache, k)

CacheNext == \/ \E f \in KeyHashFns : ClearCache(f)
             \/ \E k \in Keys : TouchKey(k) \/ \E v \in Vals : PutUser(k, v)

CacheSpec == CacheInit /\ [][CacheNext]_cache

-----------------------------------------------------------------------------

\* Table and list hold values of their types.
CacheTypeOK == cache \in CacheType(BucketSz, ChainSz, Keys, Vals, KeyHashFns)

\* After any calls, refused ones included, table and list describe the same
\* entries, so that the asserts of icache_touch_fn hold whenever it evicts:
\* the least recent node exists and its key is in the table.
LruSound == CacheTypeOK /\ CacheSound(cache)
=============================================================================
