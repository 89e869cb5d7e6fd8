------------------------------- MODULE Sequence -------------------------------
(***************************************************************************)
(* The sequence of lib/core/src/sequence.c: the one row of a page, from    *)
(* which gids and transaction ids are numbered.  The columns are 64 bit    *)
(* integers; here they are the integers from IntMin to IntMax, and a sum   *)
(* that does not fit wraps around, which is what the compiled addition     *)
(* does where the C standard leaves it undefined.                          *)
(***************************************************************************)
EXTENDS Integers

CONSTANTS IntMax,     \* INT64_MAX
          Increments  \* the increments callers set

IntMin == -IntMax - 1
Int64 == IntMin .. IntMax

ASSUME IntAssumption == IntMax \in Nat /\ Increments \subseteq Int64 \ {0}

VARIABLES row,        \* min_val, max_val, last_val, increment, cycle, is_called
          out,        \* the value nextval last gave
          ret,        \* what the last call returned: 0, or 1 for a refusal
          issued,     \* the values nextval gave since the counting was last
                      \* restarted: by setval, a new increment, or a cycle
          wrapped     \* whether an addition has wrapped around

vars == <<row, out, ret, issued, wrapped>>

Wrap(x) == IF x > IntMax THEN x - (2 * IntMax + 2)
           ELSE IF x < IntMin THEN x + (2 * IntMax + 2)
           ELSE x

RowType == [min : Int64, max : Int64, last : Int64, inc : Increments,
            cycle : BOOLEAN, called : BOOLEAN]

\* sequence_init: the arguments it accepts.
Init == /\ row \in [min : Int64, max : Int64, last : Int64, inc : Increments,
                    cycle : BOOLEAN, called : {FALSE}]
        /\ row.min < row.max /\ row.min <= row.last /\ row.last <= row.max
        /\ out = row.last /\ ret = 0 /\ issued = {} /\ wrapped = FALSE

\* A setter refuses, or changes the row and returns 0.
Refuse == ret' = 1 /\ UNCHANGED <<row, out, issued, wrapped>>

-----------------------------------------------------------------------------
(* sequence_nextval.                                                       *)

Sum == row.last + row.inc
NewVal == Wrap(Sum)

\* Mutant: the value after the bound does not count as beyond it.
Beyond_late == IF row.inc > 0 THEN NewVal > row.max + 1 ELSE NewVal < row.min - 1

\* The new value is past the bound the sequence runs towards.
Beyond == IF row.inc > 0 THEN NewVal > row.max ELSE NewVal < row.min

\* Mutant: the value is given out before it is marked as given.
First_unmarked == /\ ~row.called
                  /\ out' = row.last /\ ret' = 0
                  /\ issued' = issued \cup {row.last}
                  /\ UNCHANGED <<row, wrapped>>

\* The first call gives the start value.
First == /\ ~row.called
         /\ row' = [row EXCEPT !.called = TRUE]
         /\ out' = row.last /\ ret' = 0
         /\ issued' = issued \cup {row.last}
         /\ UNCHANGED wrapped

Give(v, before) == /\ row' = [row EXCEPT !.last = v]
                   /\ out' = v /\ ret' = 0
                   /\ issued' = before \cup {v}

Advance == /\ row.called /\ ~Beyond
           /\ Give(NewVal, issued)
           /\ wrapped' = (wrapped \/ NewVal # Sum)

Cycle == /\ row.called /\ Beyond /\ row.cycle
         /\ Give(IF row.inc > 0 THEN row.min ELSE row.max, {})
         /\ wrapped' = (wrapped \/ NewVal # Sum)

Exhausted == /\ row.called /\ Beyond /\ ~row.cycle
             /\ ret' = 1 /\ UNCHANGED <<row, out, issued>>
             /\ wrapped' = (wrapped \/ NewVal # Sum)

NextVal == First \/ Advance \/ Cycle \/ Exhausted

-----------------------------------------------------------------------------
(* The setters.                                                            *)

SetVal(v, is_called) ==
  IF v > row.max \/ v < row.min THEN Refuse
  ELSE /\ row' = [row EXCEPT !.last = v, !.called = is_called]
       /\ ret' = 0 /\ issued' = {}
       /\ UNCHANGED <<out, wrapped>>

SetMinVal(v) ==
  IF v >= row.max \/ row.last < v THEN Refuse
  ELSE /\ row' = [row EXCEPT !.min = v]
       /\ ret' = 0 /\ UNCHANGED <<out, issued, wrapped>>

SetMaxVal(v) ==
  IF v <= row.min \/ row.last > v THEN Refuse
  ELSE /\ row' = [row EXCEPT !.max = v]
       /\ ret' = 0 /\ UNCHANGED <<out, issued, wrapped>>

\* Mutant: an increment of zero is accepted.
SetIncrement_zero(v) ==
  /\ row' = [row EXCEPT !.inc = v]
  /\ issued' = issued \cap {row.last}
  /\ ret' = 0 /\ UNCHANGED <<out, wrapped>>

SetIncrement(v) ==
  IF v = 0 THEN Refuse
  ELSE /\ row' = [row EXCEPT !.inc = v]
       /\ issued' = issued \cap {row.last}
       /\ ret' = 0 /\ UNCHANGED <<out, wrapped>>

SetCycle(c) == /\ row' = [row EXCEPT !.cycle = c]
               /\ ret' = 0 /\ UNCHANGED <<out, issued, wrapped>>

Next ==
  \/ NextVal
  \/ \E v \in Int64 : \/ SetMinVal(v) \/ SetMaxVal(v)
                      \/ \E c \in BOOLEAN : SetVal(v, c)
  \/ \E v \in Increments \cup {0} : SetIncrement(v)
  \/ \E c \in BOOLEAN : SetCycle(c)

Spec == Init /\ [][Next]_vars

-----------------------------------------------------------------------------

TypeOK == /\ row \in RowType
          /\ out \in Int64 /\ ret \in {0, 1}
          /\ issued \subseteq Int64 /\ wrapped \in BOOLEAN

\* sequence.c: whatever the setters are called with, and whichever way the
\* sequence runs, the current value stays within the bounds in force; only an
\* addition that overflows can take it out.
InBounds == ~wrapped => row.min < row.max /\ row.last \in row.min .. row.max

\* While the counting is not restarted nextval gives no value twice: ids drawn
\* from a sequence are fresh, changes of the bounds and of the cycle flag and
\* refused calls in between included.
Fresh == [][NextVal /\ ret' = 0 /\ ~wrapped' /\ ~Cycle => out' \notin issued]_vars
=============================================================================
