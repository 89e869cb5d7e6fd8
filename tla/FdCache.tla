------------------------------- MODULE FdCache -------------------------------
(***************************************************************************)
(* The descriptor cache of lib/core/src/fdcache.c as a component, with the *)
(* descriptors of its process.                                             *)
(***************************************************************************)
EXTENDS FdCacheOps

CONSTANTS FdBuckets, FdChains,  \* the sizes fdcache_create is called with
          Files,                \* the ids of the files
          FileHashFns           \* the hash functions callers pass

\* What is assumed of them; the memory of a new cache holds some id.
ASSUME FdAssumption ==
  /\ FdBuckets \in Nat \ {0} /\ FdChains \in Nat
  /\ UNDEF \notin Files /\ Files # {}
  /\ FileHashFns \subseteq [Files -> Nat]

VARIABLE fds          \* the cache and the open descriptors

FdInit == \E f \in FileHashFns :
            fds = fdcache_init(FdBuckets, FdChains, f, CHOOSE k \in Files : TRUE)

TouchFd(k, can) == fds' = fdcache_touch(fds, k, can)
ClearFds(f) == fds' = fdcache_clear(fds, f)

\* fdcache_free, and the fdcache_create that makes the next cache.
RecreateFds(f) ==
  fds' = [CloseAll(fds) EXCEPT
            !.cache = fdcache_init(FdBuckets, FdChains, f, CHOOSE k \in Files : TRUE).cache]

FdNext == \/ \E k \in Files, can \in BOOLEAN : TouchFd(k, can)
          \/ \E f \in FileHashFns : ClearFds(f) \/ RecreateFds(f)

FdSpec == FdInit /\ [][FdNext]_fds

-----------------------------------------------------------------------------

Capacity == FdBuckets + FdChains

\* The cache has its type, and descriptors are numbers up to its capacity: one
\* is opened before the least recent is closed, but none stays as an extra one.
FdTypeOK ==
  /\ fds.cache \in CacheType(FdBuckets, FdChains, Files, NoFd .. Capacity, FileHashFns)
  /\ Fds(fds) \subseteq 0 .. Capacity
  /\ \A n \in Fds(fds) : fds.opened[n] \in Files

\* Whatever opens fail and whatever is evicted or refused, no descriptor leaks
\* and none is used for a file it is not open on, although the new file is
\* opened before the old one is closed and descriptor numbers are reused; and
\* the cache under them stays sound, after refusals that follow an eviction too.
Descriptors == FdTypeOK /\ FdsSound(fds) /\ CacheSound(fds.cache)
=============================================================================
