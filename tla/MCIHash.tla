------------------------------- MODULE MCIHash -------------------------------
(* The hash table, and the bounded map it is meant to be.                   *)
EXTENDS IHash, Buckets

\* The map as a reader finds it, by ihash_get.
MapOf(h) == [k \in {j \in Keys : ihash_get(h, j) # UNDEF} |-> h.val[ihash_get(h, k)]]

M == INSTANCE BoundedMap WITH Refuse <- ChainSz + 1, map <- MapOf(hash)

\* A touch of a new key returns NULL exactly when the count of the table's keys,
\* bucket by bucket, says that no bucket and no overflow node is left for it.
RefusalCounted ==
  \A k \in Keys : ihash_get(hash, k) = UNDEF =>
    (Touched(hash, k) = UNDEF
       <=> ~RoomFor(KeysOf(hash), k, [j \in Keys |-> Bucket(hash, j)], ChainSz))

\* Each call is the operation of its name, a touch that returns NULL none.
HashCallsMatch ==
  /\ \A f \in HashFns : ClearHash(f) => M!Clear
  /\ \A k \in Keys :
       /\ Erase(k) => M!Erase(k)
       /\ IF Touched(hash, k) = UNDEF
          THEN /\ PutKey(k) => M!Refused(k)
               /\ \A v \in Vals : Put(k, v) => M!Refused(k)
          ELSE /\ PutKey(k) => M!PutKey(k)
               /\ \A v \in Vals : Put(k, v) => M!Put(k, v)

\* ihash.h: get returns what was last put for the key until it is erased or
\* the table cleared, whatever happened to other keys of its chain; a put is
\* refused only when the overflow pool is used up.
ImplementsMap == M!Spec /\ [][hash' # hash => HashCallsMatch]_hash
=============================================================================
