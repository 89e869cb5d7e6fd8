------------------------------- MODULE MCStorage -------------------------------
(* A page cache of two frames in one bucket and three pages of two files;   *)
(* or the memory contexts of a process.  What a behaviour is about is       *)
(* chosen at its start, the other stays as it was made.                     *)
EXTENDS PageCache, Memory

VARIABLE which

allvars == <<which, vars, memoryvars>>

MCInit == /\ which \in {"pages", "memory"}
          /\ Init /\ MemoryInit
          /\ which # "memory" => private

MCNext == \/ which = "pages" /\ Next /\ UNCHANGED <<which, memoryvars>>
          \/ which = "memory" /\ MemoryNext /\ UNCHANGED <<which, vars>>

MCSpec == MCInit /\ [][MCNext]_allvars
=============================================================================
