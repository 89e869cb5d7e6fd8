-------------------------------- MODULE IList2 --------------------------------
(***************************************************************************)
(* The list of lib/core/src/ilist2.c as a component: one action per        *)
(* function of its interface.  The callers keep the documented             *)
(* preconditions: they pop only from a nonempty list and move only nodes   *)
(* whose index a put returned to them and that were not popped since.      *)
(***************************************************************************)
EXTENDS IList2Ops

CONSTANTS ListSz,   \* number of nodes in the pool
          Data      \* the values a node can hold

ASSUME ListSzAssumption == ListSz \in Nat

VARIABLES list,     \* the list in memory
          held      \* the indices its callers hold, returned by the puts

vars == <<list, held>>

Init == /\ \E u \in [Idx(ListSz) -> Data] : list = ilist2_init(ListSz, u)
        /\ held = {}

Clear == list' = ilist2_clear(list) /\ held' = {}

\* What a put hands to its caller: the index of the node, unless it is UNDEF.
Returned == {list.freelist_head} \ {UNDEF}

PutBack(d) == list' = ilist2_put_back(list, d) /\ held' = held \cup Returned
PutFront(d) == list' = ilist2_put_front(list, d) /\ held' = held \cup Returned

PopBack == /\ ~ilist2_empty(list)
           /\ list' = ilist2_pop_back(list)
           /\ held' = held \ {list.back_idx}

PopFront == /\ ~ilist2_empty(list)
            /\ list' = ilist2_pop_front(list)
            /\ held' = held \ {list.front_idx}

MoveBack(idx) == list' = ilist2_move_back_by_idx(list, idx) /\ UNCHANGED held
MoveFront(idx) == list' = ilist2_move_front_by_idx(list, idx) /\ UNCHANGED held

Next ==
  \/ Clear
  \/ \E d \in Data : PutBack(d) \/ PutFront(d)
  \/ PopBack
  \/ PopFront
  \/ \E idx \in held : MoveBack(idx) \/ MoveFront(idx)

Spec == Init /\ [][Next]_vars

-----------------------------------------------------------------------------

\* The header and every node hold values of their types.
TypeOK == list \in ListType(ListSz, Data) /\ held \in SUBSET Idx(ListSz)

\* Whatever the sequence of calls: the links of the list agree in both
\* directions and with both ends, the free list ends, and every node of the
\* pool is in exactly one of the two, the list having exactly the nodes whose
\* indices the callers hold (no node is lost, shared or listed twice).
WellFormed == IsList(list, ListSz, held)
=============================================================================
