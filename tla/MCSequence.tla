------------------------------ MODULE MCSequence ------------------------------
(* Sequences of 3 bit integers, running both ways by one and by two.        *)
EXTENDS Sequence

MCIncrements == {-2, -1, 1, 2}
=============================================================================
