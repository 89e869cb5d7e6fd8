------------------------------- MODULE MCCaches -------------------------------
(* A cache of two buckets and one overflow node with four keys, of which    *)
(* three share a bucket; or one of five files, three of them in a bucket;   *)
(* or a sequence of 3 bit integers.  What a behaviour is about is chosen at *)
(* its start, the rest stays as it was made.                                *)
EXTENDS MCSequence, MCICache, FdCache

VARIABLE which

MCKeyHashFns == {[k \in Keys |-> k]}
MCFileHashFns == {[f \in Files |-> f]}

allvars == <<which, vars, cache, fds>>

\* A sequence that counts up from 0.
IdleRow == [min |-> 0, max |-> IntMax, last |-> 0, inc |-> 1,
            cycle |-> FALSE, called |-> FALSE]

MCInit == /\ which \in {"lru", "fd", "sequence"}
          /\ CacheInit /\ FdInit
          /\ Init
          /\ which # "sequence" => row = IdleRow

MCNext == \/ which = "lru" /\ CacheNext /\ UNCHANGED <<which, fds, vars>>
          \/ which = "fd" /\ FdNext /\ UNCHANGED <<which, cache, vars>>
          \/ which = "sequence" /\ Next /\ UNCHANGED <<which, cache, fds>>

MCSpec == MCInit /\ [][MCNext]_allvars
=============================================================================
