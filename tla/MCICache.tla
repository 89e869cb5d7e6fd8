------------------------------- MODULE MCICache -------------------------------
(* The LRU cache, and the map with a recency order it is meant to be.       *)
EXTENDS ICache

\* The entries, the most recent first, as a reader of the cache finds them.
Kept(c) == [i \in DOMAIN Recency(c) |->
              [key |-> Recency(c)[i], val |-> User(c, Recency(c)[i])]]

C == INSTANCE LruCache WITH
       Capacity <- BucketSz + ChainSz,
       Full <- ChainSz + 1,
       entries <- Kept(cache)

\* A put is refused only when the entry it evicted was alone in its bucket:
\* evicting it has freed no overflow node for the new key.
RefusedOnlyIf(k) ==
  icache_get(cache', k) = UNDEF =>
    /\ cache.hash.chain_head = UNDEF
    /\ icache_get(cache, LruKey(cache)) \in Buckets(cache.hash)
    /\ cache.hash.next[icache_get(cache, LruKey(cache))] = UNDEF

CacheCallsMatch ==
  /\ \A f \in KeyHashFns : ClearCache(f) => C!Clear
  /\ \A k \in Keys :
       /\ TouchKey(k) => C!Touch(k) /\ RefusedOnlyIf(k)
       /\ \A v \in Vals : PutUser(k, v) => C!Put(k, v) /\ RefusedOnlyIf(k)

\* icache.h: hits and new keys become the most recent entry, evictions take
\* the least recent one and only when the pool is used up, values stay with
\* their keys.  CacheCallsMatch speaks of every disjunct of CacheNext, so that
\* every step is a step of LruCache!Next or leaves the entries alone.
ImplementsLru == C!Init /\ [][cache' # cache => CacheCallsMatch]_cache
=============================================================================
