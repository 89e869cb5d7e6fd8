------------------------------ MODULE ICacheOps ------------------------------
(***************************************************************************)
(* The LRU cache of lib/core/src/icache.c, as operators on cache values: a *)
(* hash table and a list in one block of memory.  An entry of the table    *)
(* holds the user's value and the index of its node in the list, a node of *)
(* the list holds the key; the list is in order of recency.  The caches of *)
(* descriptors and of pages are built from the same parts.                 *)
(***************************************************************************)
EXTENDS IHashOps, IList2Ops

\* A cache with b + c entries over keys K and user values V.
CacheType(b, c, K, V, F) ==
  [hash : HashType(b, c, K, [user : V, idx : IdxOrUndef(b + c)], F),
   list : ListType(b + c, K)]

\* icache_init_fn; the memory held user values u and keys k.
icache_init(b, c, hash_fn, u, k) ==
  [hash |-> ihash_init(b, c, hash_fn,
                         [e \in 0 .. b + c - 1 |-> [user |-> u, idx |-> UNDEF]]),
   list |-> ilist2_init(b + c, [i \in Idx(b + c) |-> k])]

icache_clear(c, hash_fn) ==
  [hash |-> ihash_clear(c.hash, hash_fn), list |-> ilist2_clear(c.list)]

\* icache_get: the entry, or UNDEF for NULL.  It does not make the entry recent.
icache_get(c, key) == ihash_get(c.hash, key)
User(c, key) == c.hash.val[icache_get(c, key)].user

-----------------------------------------------------------------------------
(* The steps icache_touch_fn, fdcache_touch_fn and pagecache_touch_fn are  *)
(* made of.                                                                *)

\* Mutant: a hit leaves the order of the list alone.
MakeRecent_not(c, key) == c

\* The entry is there: make it the most recent.
MakeRecent(c, key) ==
  [c EXCEPT !.list =
     ilist2_move_front_by_idx(c.list, c.hash.val[icache_get(c, key)].idx)]

\* Mutant: the index is taken from the list after the put.
Enlist_late(c, key) ==
  [hash |-> [c.hash EXCEPT !.val[icache_get(c, key)].idx =
               ilist2_put_front(c.list, key).freelist_head],
   list |-> ilist2_put_front(c.list, key)]

\* ihash_touch_fn returned an entry for the key: list it as the most recent.
Enlist(c, key) ==
  [hash |-> [c.hash EXCEPT !.val[icache_get(c, key)].idx = c.list.freelist_head],
   list |-> ilist2_put_front(c.list, key)]

HashTouch(c, key) == [c EXCEPT !.hash = ihash_touch(c.hash, key)]

\* What ilist2_pop_back returns.
LruKey(c) == ilist2_get_back(c.list)

\* The cache without that key.
DropLru(c) == [hash |-> ihash_erase(c.hash, LruKey(c)),
               list |-> ilist2_pop_back(c.list)]

\* A new key has an entry at once, has one once the least recent key is gone,
\* or has none even then.
HasRoom(c, key) == Touched(c.hash, key) # UNDEF
HasRoomAfterDrop(c, key) == HasRoom(DropLru(c), key)

-----------------------------------------------------------------------------

\* icache_touch_fn.  It returned an entry iff the key is in the cache it leaves.
icache_touch(c, key) ==
  IF icache_get(c, key) # UNDEF THEN MakeRecent(c, key)
  ELSE IF HasRoom(c, key) THEN Enlist(HashTouch(c, key), key)
  ELSE IF HasRoomAfterDrop(c, key) THEN Enlist(HashTouch(DropLru(c), key), key)
  ELSE HashTouch(DropLru(c), key)

\* Store a user value in the entry of a key.
SetUser(c, key, v) ==
  [c EXCEPT !.hash.val[icache_get(c, key)].user = v]

\* icache_put and icache_put_struct.
icache_put(c, key, v) ==
  LET t == icache_touch(c, key)
  IN  IF icache_get(t, key) = UNDEF THEN t ELSE SetUser(t, key, v)

\* Keys by recency, the most recent first.
Recency(c) ==
  LET o == OrderOf(c.list)
  IN  [i \in DOMAIN o |-> c.list.user[o[i]]]

\* Table and list are sound and agree: a node for every entry, holding its key,
\* and no other node.
CacheSound(c) ==
  LET used == {e \in Entries(c.hash) : c.hash.key[e] # UNDEF}
  IN  /\ LinksSound(c.hash) /\ KeysSound(c.hash)
      /\ IsList(c.list, c.list.listsz, {c.hash.val[e].idx : e \in used})
      /\ \A e \in used : c.list.user[c.hash.val[e].idx] = c.hash.key[e]
=============================================================================
