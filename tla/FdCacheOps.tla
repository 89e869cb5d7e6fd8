------------------------------ MODULE FdCacheOps ------------------------------
(***************************************************************************)
(* The descriptor cache of lib/core/src/fdcache.c, as operators on records *)
(*                                                                         *)
(*   cache     an LRU cache whose user values are descriptors              *)
(*   opened    the descriptors the process has open: a function from them  *)
(*             to the keys (file ids) whose files they are open on         *)
(*                                                                         *)
(* open(2) gives the lowest descriptor not in use, or fails; close(2)      *)
(* makes a descriptor available again, so that the number of a closed      *)
(* descriptor soon stands for another file.                                *)
(***************************************************************************)
EXTENDS ICacheOps, FiniteSets

NoFd == -1

Fds(fc) == DOMAIN fc.opened

LowestFd(fc) ==
  CHOOSE n \in 0 .. Cardinality(Fds(fc)) :
    n \notin Fds(fc) /\ \A m \in 0 .. n - 1 : m \in Fds(fc)

\* fdcache_open, when open succeeds, and close.
OpenFd(fc, key) ==
  [fc EXCEPT !.opened = [n \in Fds(fc) \cup {LowestFd(fc)} |->
                           IF n \in Fds(fc) THEN fc.opened[n] ELSE key]]

fdcache_close(fc, fd) ==
  [fc EXCEPT !.opened = [n \in Fds(fc) \ {fd} |-> fc.opened[n]]]

fdcache_init(b, c, hash_fn, k) ==
  [cache |-> icache_init(b, c, hash_fn, NoFd, k), opened |-> [n \in {} |-> k]]

fdcache_get(fc, key) == icache_get(fc.cache, key)
FdOf(fc, key) == User(fc.cache, key)

\* The rest of a miss, once the table has an entry for the key.
Record(fc, key, fd) ==
  [fc EXCEPT !.cache = SetUser(Enlist(HashTouch(fc.cache, key), key), key, fd)]

\* Mutant: the evicted entry's file stays open.
EvictLru_leak(fc) == [fc EXCEPT !.cache = DropLru(fc.cache)]

\* Make room for the key: the least recent entry goes and its file is closed.
EvictLru(fc) ==
  [fdcache_close(fc, FdOf(fc, LruKey(fc.cache))) EXCEPT !.cache = DropLru(fc.cache)]

\* fdcache_touch_fn; can says whether open succeeds.  NULL was returned iff the
\* key is not in the cache it leaves.
fdcache_touch(fc, key, can) ==
  LET new == OpenFd(fc, key)
      fd == LowestFd(fc)
  IN  IF fdcache_get(fc, key) # UNDEF
      THEN [fc EXCEPT !.cache = MakeRecent(fc.cache, key)]
      ELSE IF ~can THEN fc
      ELSE IF HasRoom(fc.cache, key) THEN Record(new, key, fd)
      ELSE IF HasRoomAfterDrop(fc.cache, key) THEN Record(EvictLru(new), key, fd)
      ELSE fdcache_close(EvictLru(new), fd)

\* The loop of fdcache_clear and fdcache_free, over all entries in use.
CloseAll(fc) ==
  LET held == {fc.cache.hash.val[e].user :
                 e \in {x \in Entries(fc.cache.hash) : fc.cache.hash.key[x] # UNDEF}}
  IN  [fc EXCEPT !.opened = [n \in Fds(fc) \ held |-> fc.opened[n]]]

fdcache_clear(fc, hash_fn) ==
  [CloseAll(fc) EXCEPT !.cache = icache_clear(fc.cache, hash_fn)]

\* Every open descriptor is in exactly one entry, that of its file, and every
\* entry has one.
FdsSound(fc) ==
  LET used == {e \in Entries(fc.cache.hash) : fc.cache.hash.key[e] # UNDEF}
      fd(e) == fc.cache.hash.val[e].user
  IN  /\ Fds(fc) = {fd(e) : e \in used}
      /\ \A e \in used : fd(e) \in Fds(fc) /\ fc.opened[fd(e)] = fc.cache.hash.key[e]
      /\ \A e, f \in used : fd(e) = fd(f) => e = f
=============================================================================
