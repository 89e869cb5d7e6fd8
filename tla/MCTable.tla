------------------------------- MODULE MCTable -------------------------------
(* The system tables with their files; or a table of two pages with two     *)
(* rows each, changed while it is read; or the values in its columns:       *)
(* strings of up to four characters in a CHAR(3), integers of 2 bits        *)
(* compared in 3.  What a behaviour is about is chosen at its start, the    *)
(* rest stays as it was made.                                               *)
EXTENDS Ddl, Table

CONSTANTS Space, Percent, Underscore, Strings, Patterns, Numbers, Width,
          ColumnMax, BigMax, Sizes, MaxColumns

VARIABLES which, value

V == INSTANCE Values

ASSUME ValuesAssumption == V!ValueAssumption

UpTo(n, S) == UNION {[1 .. k -> S] : k \in 0 .. n}
MCStrings == UpTo(4, {Space, 4, 5})
MCPatterns == UpTo(3, {Space, Percent, Underscore, 4}) \cup UpTo(4, {Percent, 4, 5})
MCNumbers == -BigMax - 1 .. BigMax

allvars == <<which, vars, tablevars, value>>

MCInit == /\ which \in {"ddl", "table", "values"}
          /\ Init /\ TableInit
          /\ which # "table" => committed = {}
          /\ IF which = "values" THEN V!Init ELSE value = [pc |-> "none"]

MCNext == \/ which = "ddl" /\ Next /\ UNCHANGED <<which, tablevars, value>>
          \/ which = "table" /\ TableNext /\ UNCHANGED <<which, vars, value>>
          \/ which = "values" /\ V!Next /\ UNCHANGED <<which, vars, tablevars>>

MCSpec == MCInit /\ [][MCNext]_allvars

\* What Values states, as a property of these behaviours: columns lie apart, and
\* conditions are right about what the columns hold.
ValuesRight == which = "values" => V!ColumnsApart /\ V!ConditionRight
=============================================================================
