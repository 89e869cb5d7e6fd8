-------------------------------- MODULE Chains --------------------------------
(***************************************************************************)
(* The lists, free lists and overflow chains of ilist2.c and ihash.c are   *)
(* nodes of an array linked by index.  A chain is what such links spell:   *)
(* a function s from 1 .. m to nodes, no node occurring twice.             *)
(***************************************************************************)
EXTENDS Integers

\* ILIST2_UNDEF and IHASH_UNDEF, the NULL of indices.
UNDEF == -1

Chain(s, m, S) ==
  /\ m \in Nat
  /\ s \in [1 .. m -> S]
  /\ \A i, j \in 1 .. m : s[i] = s[j] => i = j

Nodes(s, m) == {s[i] : i \in 1 .. m}

\* x before s, and after s; s without its first, and without its last node.
Cons(x, s, m) == [i \in 1 .. m + 1 |-> IF i = 1 THEN x ELSE s[i - 1]]
Snoc(s, m, x) == [i \in 1 .. m + 1 |-> IF i = m + 1 THEN x ELSE s[i]]
Rest(s, m) == [i \in 1 .. m - 1 |-> s[i + 1]]
Most(s, m) == [i \in 1 .. m - 1 |-> s[i]]

\* s with the node at position p moved to the front, and to the back.
ToFront(s, m, p) ==
  [i \in 1 .. m |-> IF i = 1 THEN s[p] ELSE IF i <= p THEN s[i - 1] ELSE s[i]]
ToBack(s, m, p) ==
  [i \in 1 .. m |-> IF i = m THEN s[p] ELSE IF i < p THEN s[i] ELSE s[i + 1]]
=============================================================================
