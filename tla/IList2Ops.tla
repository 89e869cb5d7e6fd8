------------------------------ MODULE IList2Ops ------------------------------
(***************************************************************************)
(* The index based doubly linked list of lib/core/src/ilist2.c, as         *)
(* operators on list values.  A list value is a record with the fields of  *)
(* the C header and one function per field of the nodes of its pool:       *)
(*                                                                         *)
(*   listsz                      number of nodes in the pool               *)
(*   freelist_head               first node of the free list, or UNDEF     *)
(*   front_idx, back_idx         ends of the list, or UNDEF                *)
(*   next, prev                  links of every node, free ones included   *)
(*   user                        the datum the caller keeps in a node      *)
(*                                                                         *)
(* Every operator is one C function: it maps the list before the call to   *)
(* the list after it.  Caches keep lists of this kind inside their own     *)
(* state, which is why the operators come without variables; IList2 is     *)
(* the list as a component of its own.                                     *)
(***************************************************************************)
EXTENDS Chains

\* The nodes of a pool of n, and what an index field may hold.
Idx(n) == 0 .. n - 1
IdxOrUndef(n) == UNDEF .. n - 1

ListType(n, D) ==
  [listsz : {n}, freelist_head : IdxOrUndef(n),
   front_idx : IdxOrUndef(n), back_idx : IdxOrUndef(n),
   next : [Idx(n) -> IdxOrUndef(n)], prev : [Idx(n) -> IdxOrUndef(n)],
   user : [Idx(n) -> D]]

-----------------------------------------------------------------------------
(* Construction and observation.                                           *)

\* Mutant: the mark that ends the free list is forgotten.
ilist2_clear_unmarked(l) ==
  [l EXCEPT !.front_idx = UNDEF,
            !.back_idx = UNDEF,
            !.prev = [i \in Idx(l.listsz) |-> UNDEF],
            !.next = [i \in Idx(l.listsz) |-> i + 1],
            !.freelist_head = IF l.listsz > 0 THEN 0 ELSE UNDEF]

\* ilist2_clear: every node goes to the free list, in index order.  The data
\* of the nodes is not touched.
ilist2_clear(l) ==
  [l EXCEPT !.front_idx = UNDEF,
            !.back_idx = UNDEF,
            !.prev = [i \in Idx(l.listsz) |-> UNDEF],
            !.next = [i \in Idx(l.listsz) |->
                        IF i = l.listsz - 1 THEN UNDEF ELSE i + 1],
            !.freelist_head = IF l.listsz > 0 THEN 0 ELSE UNDEF]

\* ilist2_init: set the sizes and clear; u is what the memory held before.
ilist2_init(n, u) ==
  ilist2_clear([listsz |-> n, freelist_head |-> UNDEF,
                front_idx |-> UNDEF, back_idx |-> UNDEF,
                next |-> [i \in Idx(n) |-> UNDEF],
                prev |-> [i \in Idx(n) |-> UNDEF],
                user |-> u])

ilist2_empty(l) == l.front_idx = UNDEF

\* Both read the node an end points to and are defined for nonempty lists only.
ilist2_get_back(l) == l.user[l.back_idx]
ilist2_get_front(l) == l.user[l.front_idx]

-----------------------------------------------------------------------------
(* Removal.  The caller makes sure the list is not empty.  The node keeps  *)
(* its datum and its prev link; its next link now belongs to the free list.*)

\* Mutant: front_idx is not reset with the last node.
ilist2_pop_back_stale(l) ==
  LET prev_idx == l.prev[l.back_idx]
      freed == [l EXCEPT !.next[l.back_idx] = l.freelist_head,
                         !.freelist_head = l.back_idx]
  IN  IF prev_idx # UNDEF
      THEN [freed EXCEPT !.next[prev_idx] = UNDEF, !.back_idx = prev_idx]
      ELSE [freed EXCEPT !.back_idx = UNDEF]

ilist2_pop_back(l) ==
  LET prev_idx == l.prev[l.back_idx]
      freed == [l EXCEPT !.next[l.back_idx] = l.freelist_head,
                         !.freelist_head = l.back_idx]
  IN  IF prev_idx # UNDEF
      THEN [freed EXCEPT !.next[prev_idx] = UNDEF, !.back_idx = prev_idx]
      ELSE [freed EXCEPT !.front_idx = UNDEF, !.back_idx = UNDEF]

ilist2_pop_front(l) ==
  LET next_idx == l.next[l.front_idx]
      freed == [l EXCEPT !.next[l.front_idx] = l.freelist_head,
                         !.freelist_head = l.front_idx]
  IN  IF next_idx # UNDEF
      THEN [freed EXCEPT !.prev[next_idx] = UNDEF, !.front_idx = next_idx]
      ELSE [freed EXCEPT !.back_idx = UNDEF, !.front_idx = UNDEF]

-----------------------------------------------------------------------------
(* Insertion.  The node taken is freelist_head, which is also the index    *)
(* the C functions return; without a free node they return NULL and leave  *)
(* the list alone.                                                         *)

ilist2_touch_new(l) ==
  LET new_idx == l.freelist_head
  IN  [l EXCEPT !.freelist_head = l.next[new_idx],
                !.prev[new_idx] = UNDEF,
                !.next[new_idx] = UNDEF,
                !.back_idx = new_idx,
                !.front_idx = new_idx]

ilist2_touch_back(l) ==
  LET new_idx == l.freelist_head
  IN  IF new_idx = UNDEF THEN l
      ELSE IF ilist2_empty(l) THEN ilist2_touch_new(l)
      ELSE [l EXCEPT !.freelist_head = l.next[new_idx],
                     !.next[l.back_idx] = new_idx,
                     !.prev[new_idx] = l.back_idx,
                     !.next[new_idx] = UNDEF,
                     !.back_idx = new_idx]

ilist2_touch_front(l) ==
  LET new_idx == l.freelist_head
  IN  IF new_idx = UNDEF THEN l
      ELSE IF ilist2_empty(l) THEN ilist2_touch_new(l)
      ELSE [l EXCEPT !.freelist_head = l.next[new_idx],
                     !.prev[l.front_idx] = new_idx,
                     !.prev[new_idx] = UNDEF,
                     !.next[new_idx] = l.front_idx,
                     !.front_idx = new_idx]

\* The put macros touch a node and store the datum in it.
ilist2_put_back(l, d) ==
  IF l.freelist_head = UNDEF THEN l
  ELSE [ilist2_touch_back(l) EXCEPT !.user[l.freelist_head] = d]

\* Mutant: the node is put at the other end.
ilist2_put_front_back(l, d) == ilist2_put_back(l, d)

ilist2_put_front(l, d) ==
  IF l.freelist_head = UNDEF THEN l
  ELSE [ilist2_touch_front(l) EXCEPT !.user[l.freelist_head] = d]

-----------------------------------------------------------------------------
(* Moving a listed node to an end, by its index.                           *)

ilist2_move_back_by_idx(l, idx) ==
  LET prev_idx == l.prev[idx]
      next_idx == l.next[idx]
      unlinked == IF prev_idx # UNDEF
                  THEN [l EXCEPT !.prev[next_idx] = prev_idx,
                                 !.next[prev_idx] = next_idx]
                  ELSE [l EXCEPT !.prev[next_idx] = prev_idx,
                                 !.front_idx = next_idx]
  IN  IF next_idx = UNDEF THEN l
      ELSE [unlinked EXCEPT !.next[l.back_idx] = idx,
                            !.prev[idx] = l.back_idx,
                            !.next[idx] = UNDEF,
                            !.back_idx = idx]

ilist2_move_front_by_idx(l, idx) ==
  LET prev_idx == l.prev[idx]
      next_idx == l.next[idx]
      unlinked == IF next_idx # UNDEF
                  THEN [l EXCEPT !.next[prev_idx] = next_idx,
                                 !.prev[next_idx] = prev_idx]
                  ELSE [l EXCEPT !.next[prev_idx] = next_idx,
                                 !.back_idx = prev_idx]
  IN  IF prev_idx = UNDEF THEN l
      ELSE [unlinked EXCEPT !.prev[l.front_idx] = idx,
                            !.prev[idx] = UNDEF,
                            !.next[idx] = l.front_idx,
                            !.front_idx = idx]

-----------------------------------------------------------------------------
(* What a list value stands for.                                           *)

\* The chain o is what a walk from front_idx to back_idx meets, in both
\* directions.
IsOrder(l, o, m) ==
  /\ l.front_idx = IF m = 0 THEN UNDEF ELSE o[1]
  /\ l.back_idx = IF m = 0 THEN UNDEF ELSE o[m]
  /\ \A i \in 1 .. m :
       /\ l.next[o[i]] = IF i = m THEN UNDEF ELSE o[i + 1]
       /\ l.prev[o[i]] = IF i = 1 THEN UNDEF ELSE o[i - 1]

\* The chain f is the free list, from freelist_head on.
IsFree(l, f, k) ==
  /\ l.freelist_head = IF k = 0 THEN UNDEF ELSE f[1]
  /\ \A i \in 1 .. k : l.next[f[i]] = IF i = k THEN UNDEF ELSE f[i + 1]

\* Every one of the n nodes is on exactly one of the two chains.
Splits(n, o, m, f, k) ==
  /\ m + k = n
  /\ Nodes(o, m) \cap Nodes(f, k) = {}
  /\ Nodes(o, m) \cup Nodes(f, k) = Idx(n)

\* l is a proper list of the nodes in S: some order of S and some free list
\* account for the whole pool.
IsList(l, n, S) ==
  \E m \in 0 .. n : \E o \in [1 .. m -> Idx(n)] :
    /\ Chain(o, m, Idx(n)) /\ IsOrder(l, o, m)
    /\ S = Nodes(o, m)
    /\ \E k \in 0 .. n : \E f \in [1 .. k -> Idx(n)] :
         Chain(f, k, Idx(n)) /\ IsFree(l, f, k) /\ Splits(n, o, m, f, k)

\* The walk itself, as dump_list does it: the first i nodes met from front_idx.
WalkFrom(l, start) ==
  LET at[i \in 0 .. l.listsz] ==
        IF i = 0 THEN start
        ELSE IF at[i - 1] = UNDEF THEN UNDEF ELSE l.next[at[i - 1]]
  IN  at

\* The nodes of the list, front to back, and how many they are.
WalkLen(l, start) ==
  LET at == WalkFrom(l, start)
  IN  CHOOSE i \in 0 .. l.listsz :
        /\ at[i] = UNDEF \/ i = l.listsz
        /\ \A j \in 0 .. i - 1 : at[j] # UNDEF

OrderOf(l) ==
  LET at == WalkFrom(l, l.front_idx)
  IN  [i \in 1 .. WalkLen(l, l.front_idx) |-> at[i - 1]]
=============================================================================
