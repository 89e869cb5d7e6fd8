-------------------------------- MODULE Deque --------------------------------
(***************************************************************************)
(* What lib/core/src/ilist2.h promises its callers: a double ended queue   *)
(* of at most Capacity entries.  An entry has a handle, chosen by the put  *)
(* that created it, which stays valid until the entry is popped, and a     *)
(* datum.  An entry can be moved to either end by its handle.              *)
(***************************************************************************)
EXTENDS Integers, Sequences

CONSTANTS Capacity, Data

VARIABLE entries    \* sequence of [handle, datum], front to back

Handles == 0 .. Capacity - 1
Used == {entries[i].handle : i \in DOMAIN entries}

Init == entries = <<>>

Clear == entries' = <<>>

Put(h, d, back) ==
  entries' = IF back THEN Append(entries, [handle |-> h, datum |-> d])
                     ELSE <<[handle |-> h, datum |-> d]>> \o entries

PopFront == entries # <<>> /\ entries' = Tail(entries)
PopBack == entries # <<>> /\ entries' = SubSeq(entries, 1, Len(entries) - 1)

Without(i) == SubSeq(entries, 1, i - 1) \o SubSeq(entries, i + 1, Len(entries))

Move(i, back) ==
  entries' = IF back THEN Append(Without(i), entries[i])
                     ELSE <<entries[i]>> \o Without(i)

Next ==
  \/ Clear
  \/ \E h \in Handles \ Used, d \in Data, back \in BOOLEAN : Put(h, d, back)
  \/ PopFront
  \/ PopBack
  \/ \E i \in DOMAIN entries, back \in BOOLEAN : Move(i, back)

Spec == Init /\ [][Next]_entries
=============================================================================
