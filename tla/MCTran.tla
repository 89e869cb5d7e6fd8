-------------------------------- MODULE MCTran --------------------------------
(* Two workers, each in one of two catalogs.  A behaviour starts with new   *)
(* tables and has two transactions, or with a row that a first transaction  *)
(* has inserted, committed and flushed, and has two more.                   *)
EXTENDS Tran, TLC

CONSTANTS s1, s2, c1, c2

\* Nothing tells the workers apart, nor the catalogs.
Symmetry == Permutations({s1, s2}) \cup Permutations({c1, c2})

\* What there is after catalog c's first transaction.
Populated(c) ==
  LET row == [NewRow EXCEPT !.tmin = 1, !.by = 1]
      page == [NewPage EXCEPT !.occupied = 1, !.rows[1] = row]
  IN  /\ sess \in [Sessions -> {NewSession(d) : d \in Catalogs}]
      /\ seq = [d \in Catalogs |-> IF d = c THEN 1 ELSE 0]
      /\ flags = {1}
      /\ table = [d \in Catalogs |-> IF d = c THEN page ELSE NewPage]
      /\ disk = [seq |-> seq, flags |-> flags, table |-> table]
      /\ history = <<[tid |-> 1, catalog |-> c, fate |-> "committed", saved |-> TRUE,
                      crossed |-> FALSE]>>
      /\ acked = {[catalog |-> c, row |-> 1, tran_no |-> 1, kind |-> "insert"]}
      /\ raced = {} /\ restarts = 0

\* How many transactions a behaviour has.
VARIABLE most

MCInit == \/ Init /\ most = MaxTrans - 1
          \/ (\E c \in Catalogs : Populated(c)) /\ most = MaxTrans

MCNext == Next /\ Drawing' + Len(history') <= most /\ UNCHANGED most

MCSpec == MCInit /\ [][MCNext]_<<vars, most>>
=============================================================================
