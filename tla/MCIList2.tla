------------------------------- MODULE MCIList2 -------------------------------
(* The list with a pool of four nodes, and the queue it is meant to be.     *)
EXTENDS IList2

\* What a walk front to back shows of a list.
Shows(l) == [i \in 1 .. WalkLen(l, l.front_idx) |->
                 [handle |-> OrderOf(l)[i], datum |-> l.user[OrderOf(l)[i]]]]

Q == INSTANCE Deque WITH Capacity <- ListSz, entries <- Shows(list)

Full == list.freelist_head = UNDEF

\* Each call is the operation of its name, a put on an exhausted pool none.
CallsMatch ==
  /\ Clear => Q!Clear
  /\ \A d \in Data : PutBack(d) /\ ~Full => Q!Put(list.freelist_head, d, TRUE)
  /\ \A d \in Data : PutFront(d) /\ ~Full => Q!Put(list.freelist_head, d, FALSE)
  /\ PopBack => Q!PopBack
  /\ PopFront => Q!PopFront
  /\ \A idx \in held : \A i \in DOMAIN OrderOf(list) :
       OrderOf(list)[i] = idx =>
         /\ MoveBack(idx) => Q!Move(i, TRUE)
         /\ MoveFront(idx) => Q!Move(i, FALSE)

\* ilist2.h: the list is a double ended queue with movable entries.  The walk
\* of the links, front to back, behaves as the queue does, call by call: data
\* come out in the order the puts and moves gave them, and handles stay valid.
ImplementsDeque == Q!Spec /\ [][vars' # vars => CallsMatch]_vars
=============================================================================
