-------------------------------- MODULE Values --------------------------------
(***************************************************************************)
(* Values in a table: where its columns lie in a row (hgrid_add_column in  *)
(* grid.c), what an INSERT leaves in a column (grid_put_datum, put_char),  *)
(* and what a WHERE makes of that against a literal (type.c).  A string is *)
(* the sequence of its characters' codes, an integer type its maximum.     *)
(***************************************************************************)
EXTENDS Integers, Sequences

CONSTANTS Space, Percent, Underscore,  \* codes of characters
          Strings, Patterns, Numbers,  \* the literals of statements
          Width,                       \* of the CHAR column
          ColumnMax, BigMax,           \* INT32_MAX, INT64_MAX
          Sizes,                       \* sizes of columns
          MaxColumns                   \* rows of the header page

\* What is assumed of them.
ValueAssumption ==
  /\ Strings \cup Patterns \subseteq Seq(Nat \ {0}) /\ {Space, Percent, Underscore} \subseteq Nat
  /\ {Width, ColumnMax, MaxColumns} \cup Sizes \subseteq Nat
  /\ BigMax \in Nat /\ ColumnMax < BigMax /\ Numbers \subseteq -BigMax - 1 .. BigMax

\* The header of a table that gets its columns; or a literal on its way into a
\* column and through a condition.
VARIABLE value

LOCAL INSTANCE Bitwise

-----------------------------------------------------------------------------
(* Columns.                                                                *)

\* (sz + align - 1) & ~(align - 1), where ~(-1) is 0.
align_up(sz, align) ==
  LET top == sz + align - 1
  IN  IF align = 0 THEN 0 ELSE top - (top & (align - 1))

NewHeader == [pc |-> "create", columns |-> <<>>, datasz |-> 0]

hgrid_add_column(h, size) ==
  LET offs == align_up(h.datasz, size)
  IN  [h EXCEPT !.columns = Append(@, [offs |-> offs, size |-> size]), !.datasz = offs + size]

RowSize(h) == align_up(h.datasz, 4)

AddColumn(size) == /\ value.pc = "create" /\ Len(value.columns) < MaxColumns
                   /\ value' = hgrid_add_column(value, size)

-----------------------------------------------------------------------------
(* Columns' values.                                                        *)

\* Two's complement, as assigned and as subtracted.
Wrap(n, max) == ((n + max + 1) % (2 * (max + 1))) - max - 1

\* The string is cut or padded.
put_char(s) == [i \in 1 .. Width |-> IF i <= Len(s) THEN s[i] ELSE Space]

\* Without the spaces at the end.
char2varchar(s) ==
  SubSeq(s, 1, CHOOSE n \in 0 .. Len(s) : /\ n = 0 \/ s[n] # Space
                                          /\ \A i \in n + 1 .. Len(s) : s[i] = Space)

cmp_integer(x, y) == Wrap(x - y, BigMax)

\* memcmp, and the sizes if that tells no difference.
cmp_character(s, t) ==
  LET a == char2varchar(s)
      b == char2varchar(t)
      common == 1 .. IF Len(a) < Len(b) THEN Len(a) ELSE Len(b)
      differ == {i \in common : a[i] # b[i]}
      first == CHOOSE i \in differ : \A j \in differ : i <= j
  IN  IF differ # {} THEN a[first] - b[first] ELSE Len(a) - Len(b)

\* eq_data, ne_data, lt_data, le_data, gt_data, ge_data.
Comparisons == {"=", "<>", "<", "<=", ">", ">="}
Holds(op, cmp) == CASE op = "=" -> cmp = 0 [] op = "<>" -> cmp # 0
                    [] op = "<" -> cmp < 0 [] op = "<=" -> cmp <= 0
                    [] op = ">" -> cmp > 0 [] op = ">=" -> cmp >= 0

Literals(kind) == IF kind = "char" THEN Strings ELSE Numbers

Init == \/ value = NewHeader
        \/ \E kind \in {"char", "integer"} : \E literal \in Literals(kind) :
             value = [pc |-> "insert", kind |-> kind, given |-> literal, rounds |-> 0]

Insert == /\ value.pc = "insert"
          /\ value' = [pc |-> "where", kind |-> value.kind, given |-> value.given, rounds |-> 0,
                       cell |-> IF value.kind = "char" THEN put_char(value.given)
                                ELSE Wrap(value.given, ColumnMax)]
    
Answer(v, op, arg, holds) == [pc |-> "answered", kind |-> v.kind, given |-> v.given, op |-> op,
                              arg |-> arg, rounds |-> v.rounds, holds |-> holds]

Compare(op, arg) ==
  /\ value.pc = "where"
  /\ value' = Answer(value, op, arg,
                Holds(op, IF value.kind = "char" THEN cmp_character(value.cell, arg)
                                                 ELSE cmp_integer(value.cell, arg)))

-----------------------------------------------------------------------------
(* LIKE: the loop of like().  Positions are counted from 0 as in C, and    *)
(* star is -1 while no % has been met.                                     *)

Like(arg) ==
  /\ value.pc = "where" /\ value.kind = "char"
  /\ value' = [pc |-> "like", kind |-> "char", given |-> value.given, arg |-> arg, rounds |-> 0,
               src |-> char2varchar(value.cell), pattern |-> char2varchar(arg),
               si |-> 0, pi |-> 0, star |-> -1, ss |-> 0]

\* Whether the rest of the pattern holds for nothing.
OnlyPercents(v) == \A i \in v.pi + 1 .. Len(v.pattern) : v.pattern[i] = Percent

\* Mutant: the star takes no further character.
Backtrack_stuck(v) == [v EXCEPT !.pi = v.star + 1, !.si = v.ss + 1]

\* The last % takes one character more.
Backtrack(v) == [v EXCEPT !.pi = v.star + 1, !.ss = @ + 1, !.si = v.ss + 1]

LikeRound ==
  LET v == [value EXCEPT !.rounds = @ + 1]
      more == v.pi < Len(v.pattern)
      p == v.pattern[v.pi + 1]
  IN  /\ value.pc = "like"
      /\ value' =
           IF v.si = Len(v.src) THEN Answer(v, "like", v.arg, OnlyPercents(v))
           ELSE IF more /\ p = Percent THEN [v EXCEPT !.star = v.pi, !.pi = @ + 1, !.ss = v.si]
           ELSE IF more /\ p \in {Underscore, v.src[v.si + 1]}
                THEN [v EXCEPT !.si = @ + 1, !.pi = @ + 1]
           ELSE IF v.star # -1 THEN Backtrack(v)
           ELSE Answer(v, "like", v.arg, FALSE)

Next == \/ \E size \in Sizes : AddColumn(size)
        \/ Insert
        \/ /\ value.pc = "where"
           /\ \E op \in Comparisons, arg \in Literals(value.kind) : Compare(op, arg)
        \/ \E arg \in Patterns : Like(arg)
        \/ LikeRound

Spec == Init /\ [][Next]_value

-----------------------------------------------------------------------------

\* Where a string comes in the dictionary: nothing before any character.
Before(s, t) ==
  LET at(u, i) == IF i <= Len(u) THEN u[i] ELSE 0
  IN  \E k \in 1 .. Len(t) : /\ at(s, k) < at(t, k)
                             /\ \A i \in 1 .. k - 1 : at(s, i) = at(t, i)

\* What LIKE means: % stands for any characters, _ for one.
Matches(s, p) ==
  LET m[i \in 0 .. Len(s), j \in 0 .. Len(p)] ==   \* the first i of s, j of p
        IF j = 0 THEN i = 0
        ELSE IF p[j] = Percent THEN \E k \in 0 .. i : m[k, j - 1]
        ELSE i > 0 /\ p[j] \in {Underscore, s[i]} /\ m[i - 1, j - 1]
  IN  m[Len(s), Len(p)]

Less(x, y) == IF value.kind = "integer" THEN x < y ELSE Before(char2varchar(x), char2varchar(y))

Truth(op, x, y) ==
  CASE op = "like" -> Matches(char2varchar(x), char2varchar(y))
    [] op = "=" -> ~Less(x, y) /\ ~Less(y, x)
    [] op = "<>" -> Less(x, y) \/ Less(y, x)
    [] op = "<" -> Less(x, y)
    [] op = "<=" -> ~Less(y, x)
    [] op = ">" -> Less(y, x)
    [] op = ">=" -> ~Less(x, y)

\* The column can hold the value, and 64 bits the difference.
Fits == IF value.kind = "char" THEN Len(char2varchar(value.given)) <= Width
        ELSE /\ value.given \in -ColumnMax - 1 .. ColumnMax
             /\ value.given - value.arg \in -BigMax - 1 .. BigMax

\* type.c, grid.c, cell.c: a condition decides about a value that was stored as
\* about the literal that was inserted, spaces at the end aside, and LIKE has
\* decided after (n + 1)(m + 1) rounds, for n characters and a pattern of m.
ConditionRight ==
  /\ value.pc = "answered" /\ Fits => value.holds = Truth(value.op, value.given, value.arg)
  /\ value.pc = "like" =>
       value.rounds <= (Len(value.src) + 1) * (Len(value.pattern) + 1)

\* grid.c: no two columns share a byte, a row has room for all, and it is not
\* empty; but for tables with a column of no bytes, CHAR(0), which align_up sends
\* back to the beginning of the row.
ColumnsApart == value.pc = "create" =>
  LET c == value.columns
  IN  (c # <<>> /\ \A i \in DOMAIN c : c[i].size > 0) =>
        /\ \A i, j \in DOMAIN c : i < j => c[i].offs + c[i].size <= c[j].offs
        /\ c[Len(c)].offs + c[Len(c)].size <= RowSize(value)
        /\ \A i \in DOMAIN c : c[i].size \in {2, 4, 8} => c[i].offs % c[i].size = 0
=============================================================================
