----------------------------- MODULE TableProofs -----------------------------
(***************************************************************************)
(* A table with rows on two pages of any size, and any transactions that   *)
(* change it while it is read: rows answered OK are found, the first page  *)
(* has one, and a SELECT or DELETE comes to each row once, in order, with  *)
(* both its iterators in step, and to the right rows.                      *)
(***************************************************************************)
EXTENDS Table, IndexLemmas

Rows == [id : 1 .. MaxRows, hit : BOOLEAN, tmin : Trans \cup {OLD},
         tmax : Trans \cup {TRAN_INVALID_ID, OLD}]
Grids == [rows : Seq(Rows), next : {1, NoPage}]
Iters == [page : Pages \cup {NoPage}, row : 1 .. RowsPerPage + 1]
Steps == {"idle", "rows", "loop", "eval", "end", "apply", "ok", "failed", "died"}
Stmts == [pc : Steps, kind : {"none", "select", "delete"}, where : BOOLEAN, cmd : Iters,
          bc : Iters, more : BOOLEAN, hit : BOOLEAN, done : Seq(1 .. MaxRows),
          parted : BOOLEAN]
Watches == [ever : SUBSET Nat, always : SUBSET Nat, quiet : BOOLEAN, displaced : BOOLEAN]

\* Page p, and the row at i on it.
Size(p) == Len(grids[p].rows)
Row(p, i) == grids[p].rows[i]
Id(p, i) == Row(p, i).id
Hit(p, i) == Row(p, i).hit
Seen(p, i) == tran_row_is_visible(Me, Row(p, i))
OnTheWay(p) == p = 0 \/ grids[0].next = 1

-----------------------------------------------------------------------------
(* The inductive invariant.                                                *)

TableTypes ==
  /\ rel \in [data : {0, NoPage}, tail : {0, NoPage}] /\ rel.tail = rel.data
  /\ grids \in [Pages -> Grids] /\ saved \in [Pages -> Grids]
  /\ inserting \subseteq Trans /\ IsFiniteSet(inserting)
  /\ number \in Nat /\ crashes \in Nat
  /\ number + Cardinality(inserting) + crashes <= MaxRows
  /\ hollow \in BOOLEAN

\* No row is on the second page unless the first is full, the second has one at
\* most, and both are on disk as they are, but for their links.
Shape ==
  /\ rel.data = NoPage => /\ inserting = {} /\ number = 0
                          /\ grids = [p \in Pages |-> EmptyGrid] /\ saved = grids
  /\ \A p \in Pages : Size(p) <= RowsPerPage /\ saved[p].rows = grids[p].rows
  /\ Size(1) <= 1 /\ (Size(0) < RowsPerPage => Size(1) = 0)
  /\ grids[1].next = NoPage /\ saved[1].next = NoPage

\* Rows lie in the order of their INSERTs.
Ordered ==
  /\ \A p \in Pages : \A i \in 1 .. Size(p) : Id(p, i) <= number
  /\ \A p, q \in Pages : \A i \in 1 .. Size(p), j \in 1 .. Size(q) :
       p < q \/ (p = q /\ i < j) => Id(p, i) < Id(q, j)

Kept == (1 .. number) \ (wiped \cup cut) \subseteq Reachable(grids)

StmtTypes ==
  /\ stmt \in Stmts /\ watch \in Watches
  /\ stmt.pc = "idle" => stmt = Idle
  /\ stmt.pc = "rows" => ~stmt.where
  /\ stmt.pc \in {"loop", "eval", "end", "apply"} => stmt.where
  /\ stmt.cmd.page = 1 => grids[0].next = 1
  /\ Running => watch.always \subseteq watch.ever

\* The rows done with are in order, and before the row the iterator is on.
DoneBehind ==
  /\ OnceInOrder
  /\ \A d \in DOMAIN stmt.done :
       /\ stmt.done[d] <= number
       /\ \A q \in Pages : \A j \in 1 .. Size(q) :
            stmt.cmd.page < q \/ (stmt.cmd.page = q /\ stmt.cmd.row <= j)
               => stmt.done[d] < Id(q, j)

Together ==
  /\ InStep
  /\ stmt.pc = "loop" => stmt.cmd = stmt.bc /\ stmt.done = <<>> /\ ~stmt.parted
  /\ watch.quiet => /\ stmt.pc \in {"loop", "eval", "end"} => stmt.cmd = stmt.bc
                    /\ stmt.pc = "apply" => stmt.bc = titor_next(stmt.cmd)

\* The row at i on page p is one the statement is about.
Fits(p, i) == Seen(p, i) /\ (Hit(p, i) \/ ~stmt.where) /\ OnTheWay(p)

\* It is on the way of an iterator.
Ahead(it, p, i) == \/ p = it.page /\ i >= it.row
                   \/ mitor_is_valid(it) /\ p = grids[it.page].next

\* What was seen all the time is done or ahead, what is done was seen at some time.
ToDo == \A x \in watch.always \ Done :
          \E p \in Pages : \E i \in 1 .. Size(p) :
             Id(p, i) = x /\ Fits(p, i) /\ Ahead(stmt.cmd, p, i)

OnTrack ==
  /\ mitor_is_valid(stmt.cmd) /\ (RowAt(stmt.cmd).hit \/ ~stmt.where)
       => RowAt(stmt.cmd).id \in watch.ever
  /\ stmt.pc \in {"eval", "end", "apply"} => mitor_is_valid(stmt.cmd)
  /\ stmt.pc \in {"end", "apply"} => stmt.hit = RowAt(stmt.cmd).hit
  /\ stmt.pc = "apply" => stmt.more = mitor_is_valid(stmt.bc)
  /\ ToDo

Watched ==
  /\ Running => Wanted \subseteq watch.ever
  /\ Running /\ ~Astray => OnTrack
  /\ StatementRight

TableInv == /\ TableTypes /\ Shape /\ Ordered /\ Kept /\ FirstRowThere
            /\ StmtTypes /\ DoneBehind /\ Together /\ Watched

-----------------------------------------------------------------------------
(* Iterators.                                                              *)

LEMMA PagesAre ==
  /\ Pages = {0, 1} /\ NoPage = -1 /\ RowsPerPage \in Nat \ {0} /\ MaxRows \in Nat
  /\ Me \in Nat \ {0} /\ Me \in Trans
BY TableAssumption DEF Pages, NoPage, Trans

LEMMA GridFacts ==
  ASSUME TableTypes, Shape
  PROVE  /\ \A p \in Pages : Size(p) \in Nat /\ Size(p) <= RowsPerPage
         /\ \A p \in Pages : \A i \in 1 .. Size(p) : Row(p, i) \in Rows
         /\ grids[0].next \in {1, NoPage} /\ grids[1].next = NoPage
<1>1. \A p \in Pages : grids[p].rows \in Seq(Rows) /\ grids[p].next \in {1, NoPage}
  BY DEF TableTypes, Grids
<1> QED BY <1>1, PagesAre DEF Shape, Size, Row

LEMMA ValidIs ==
  ASSUME TableTypes, Shape, NEW it \in Iters
  PROVE  /\ mitor_is_valid(it) <=> it.page \in Pages /\ it.row \in 1 .. Size(it.page)
         /\ RowAt(it) = Row(it.page, it.row)
         /\ Sees(it) <=> mitor_is_valid(it) /\ Seen(it.page, it.row)
<1>1. it.page \in Pages \cup {NoPage} /\ it.row \in 1 .. RowsPerPage + 1
  BY DEF Iters
<1>2. \A p \in Pages : Size(p) \in Nat
  BY GridFacts
<1> QED BY <1>1, <1>2, PagesAre DEF mitor_is_valid, RowAt, Sees, Size, Row, Seen

\* Behind the row that `it` is on, in the order of mitor_next.
Behind(it, p, i) == \/ p = it.page /\ i > it.row
                    \/ p = grids[it.page].next

\* What titor_next makes of an iterator on a row.
NextRow(it, to) ==
  /\ to \in Iters /\ to.page \in Pages
  /\ to.page = it.page \/ to.page = grids[it.page].next
  /\ to.page > it.page \/ (to.page = it.page /\ to.row > it.row)
  /\ mitor_is_valid(to) => Sees(to)
  /\ \A p \in Pages : \A i \in 1 .. Size(p) :
       Seen(p, i) /\ Behind(it, p, i) => Ahead(to, p, i)

\* A row that comes first.
LEMMA FirstIs ==
  ASSUME NEW S, S \subseteq Positions, S # {}
  PROVE  \E at \in S : \A other \in S : Comes(at, other)
<1>1. \A s \in S : s.page \in {0, 1} /\ s.row \in Nat
  BY PagesAre DEF Positions
<1>2. CASE \E s \in S : s.page = 0
  <2> DEFINE R == {s.row : s \in {t \in S : t.page = 0}}
  <2>1. R \subseteq Nat /\ R # {}
    BY <1>1, <1>2
  <2>2. PICK r \in R : \A q \in R : r <= q
    BY <2>1, Least
  <2>3. PICK s \in S : s.page = 0 /\ s.row = r
    OBVIOUS
  <2>4. \A t \in S : t.page = 0 => r <= t.row
    BY <2>2
  <2> QED BY <1>1, <2>3, <2>4 DEF Comes
<1>3. CASE \A s \in S : s.page = 1
  <2> DEFINE R == {s.row : s \in S}
  <2>1. R \subseteq Nat /\ R # {}
    BY <1>1
  <2>2. PICK r \in R : \A q \in R : r <= q
    BY <2>1, Least
  <2>3. PICK s \in S : s.row = r
    OBVIOUS
  <2> QED BY <1>3, <2>2, <2>3 DEF Comes
<1> QED BY <1>1, <1>2, <1>3

LEMMA FirstSeenIs ==
  ASSUME TableTypes, Shape, NEW it \in Iters, mitor_is_valid(it)
  PROVE  NextRow(it, FirstSeen(it))
<1> DEFINE seen == {at \in Onward(it) : Sees(at)}
           next == grids[it.page].next
           r == FirstSeen(it)
<1>1. /\ it.page \in Pages /\ it.row \in 1 .. Size(it.page)
      /\ next \in {1, NoPage} /\ (it.page = 1 => next = NoPage)
  BY ValidIs, GridFacts, PagesAre
<1>2. \A at \in Positions : at \in Iters /\ at.page \in Pages
  BY PagesAre DEF Positions, Iters
<1>3. \A p \in Pages : \A i \in 1 .. Size(p) :
        Seen(p, i) /\ Behind(it, p, i) => [page |-> p, row |-> i] \in seen
  <2> SUFFICES ASSUME NEW p \in Pages, NEW i \in 1 .. Size(p), Seen(p, i), Behind(it, p, i)
               PROVE  [page |-> p, row |-> i] \in seen
    OBVIOUS
  <2> DEFINE at == [page |-> p, row |-> i]
  <2>1. at \in Positions
    BY GridFacts, PagesAre DEF Positions
  <2>2. at \in Onward(it)
    BY <2>1 DEF Onward, Behind
  <2>3. mitor_is_valid(at)
    BY <2>1, <1>2, ValidIs
  <2> QED BY <2>1, <2>2, <2>3, <1>2, ValidIs
<1>4. CASE seen = {}
  <2>1. r = Halt(it)
    BY <1>4 DEF FirstSeen
  <2>4. \A p \in Pages : \A i \in 1 .. Size(p) : ~(Seen(p, i) /\ Behind(it, p, i))
    BY <1>3, <1>4
  <2> HIDE DEF r, seen
  <2>2. CASE next = NoPage
    <3>1. r = [page |-> it.page, row |-> Size(it.page) + 1]
      BY <2>1, <2>2 DEF Halt, Size
    <3>2. r \in Iters
      BY <3>1, <1>1, GridFacts, PagesAre DEF Iters
    <3>3. ~mitor_is_valid(r)
      BY <3>1, <3>2, <1>1, ValidIs, GridFacts
    <3>4. r.page = it.page /\ r.row > it.row
      BY <3>1, <1>1, GridFacts
    <3> QED BY <1>1, <2>4, <3>2, <3>3, <3>4 DEF NextRow, r
  <2>3. CASE next = 1
    <3>1. r = [page |-> 1, row |-> Size(1) + 1] /\ it.page = 0
      BY <2>1, <2>3, <1>1, PagesAre DEF Halt, Size
    <3>2. r \in Iters
      BY <3>1, GridFacts, PagesAre DEF Iters
    <3>3. ~mitor_is_valid(r)
      BY <3>1, <3>2, ValidIs, GridFacts, PagesAre
    <3>4. r.page = next /\ r.page > it.page /\ r.page \in Pages
      BY <3>1, <2>3, PagesAre
    <3> QED BY <2>4, <3>2, <3>3, <3>4 DEF NextRow, r
  <2> QED BY <1>1, <2>2, <2>3
<1>5. CASE seen # {}
  <2>1. seen \subseteq Positions
    BY DEF Onward
  <2>2. r \in seen /\ \A other \in seen : Comes(r, other)
    BY <1>5, <2>1, FirstIs DEF FirstSeen
  <2>3. /\ r \in Iters /\ r.page \in Pages /\ Sees(r) /\ mitor_is_valid(r)
        /\ (r.page = it.page /\ r.row > it.row) \/ r.page = next
    BY <2>1, <2>2, <1>2, ValidIs DEF Onward
  <2>4. r.row \in Nat /\ it.row \in Nat
    BY <2>3, PagesAre DEF Iters
  <2>5. r.page > it.page \/ (r.page = it.page /\ r.row > it.row)
    BY <2>3, <1>1, PagesAre
  <2>6. ASSUME NEW p \in Pages, NEW i \in 1 .. Size(p), Seen(p, i), Behind(it, p, i)
        PROVE  Ahead(r, p, i)
    <3>1. Comes(r, [page |-> p, row |-> i])
      BY <1>3, <2>2, <2>6
    <3>2. CASE r.page = p
      BY <3>1, <3>2, <2>4, PagesAre DEF Comes, Ahead
    <3>3. CASE r.page < p
      <4>1. r.page = 0 /\ p = 1 /\ it.page = 0
        BY <3>3, <2>3, <1>1, PagesAre
      <4>2. p = next
        BY <4>1, <2>6 DEF Behind
      <4> QED BY <4>1, <4>2, <2>3 DEF Ahead
    <3> QED BY <3>1, <3>2, <3>3 DEF Comes
  <2> QED BY <2>3, <2>5, <2>6 DEF NextRow
<1> QED BY <1>4, <1>5

LEMMA NextIs ==
  ASSUME TableTypes, Shape, NEW it \in Iters
  PROVE  IF mitor_is_valid(it) THEN NextRow(it, titor_next(it)) ELSE titor_next(it) = it
<1> DEFINE n == mitor_next(it)
           next == grids[it.page].next
<1>1. CASE ~mitor_is_valid(it)
  BY <1>1 DEF titor_next, mitor_next
<1>2. CASE mitor_is_valid(it)
  <2>1. /\ it.page \in Pages /\ it.row \in 1 .. Size(it.page)
        /\ next \in {1, NoPage} /\ (it.page = 1 => next = NoPage)
    BY <1>2, ValidIs, GridFacts, PagesAre
  <2>2. /\ n \in Iters /\ n.page \in Pages
        /\ n.page > it.page \/ (n.page = it.page /\ n.row > it.row)
        /\ IF it.row < Size(it.page) \/ next = NoPage
           THEN n.page = it.page /\ n.row = it.row + 1
           ELSE n.page = next /\ n.row = 1
    <3>1. CASE it.row < Size(it.page) \/ next = NoPage
      <4>1. n = [it EXCEPT !.row = @ + 1]
        BY <1>2, <3>1 DEF mitor_next, Size
      <4> QED BY <4>1, <3>1, <2>1, GridFacts, PagesAre DEF Iters
    <3>2. CASE ~(it.row < Size(it.page) \/ next = NoPage)
      <4>1. n = [page |-> next, row |-> 1]
        BY <1>2, <3>2 DEF mitor_next, Size
      <4> QED BY <4>1, <3>2, <2>1, PagesAre DEF Iters
    <3> QED BY <3>1, <3>2
  <2>3. \A p \in Pages : \A i \in 1 .. Size(p) : Behind(it, p, i) => Ahead(n, p, i)
    <3> SUFFICES ASSUME NEW p \in Pages, NEW i \in 1 .. Size(p), Behind(it, p, i)
                 PROVE  Ahead(n, p, i)
      OBVIOUS
    <3>1. CASE it.row < Size(it.page)
      <4>1. mitor_is_valid(n)
        BY <3>1, <2>1, <2>2, ValidIs, GridFacts
      <4> QED BY <3>1, <2>1, <2>2, <4>1, GridFacts DEF Behind, Ahead
    <3>2. CASE it.row >= Size(it.page) /\ next = NoPage
      BY <3>2, <2>1, GridFacts, PagesAre DEF Behind
    <3>3. CASE it.row >= Size(it.page) /\ next # NoPage
      BY <3>3, <2>1, <2>2, GridFacts, PagesAre DEF Behind, Ahead
    <3> QED BY <3>1, <3>2, <3>3, <2>1, GridFacts
  <2>4. CASE ~(mitor_is_valid(n) /\ ~Sees(n))
    <3>1. titor_next(it) = n
      BY <2>4 DEF titor_next
    <3> QED BY <1>2, <3>1, <2>1, <2>2, <2>3, <2>4 DEF NextRow
  <2>5. CASE mitor_is_valid(n) /\ ~Sees(n)
    <3> DEFINE r == FirstSeen(n)
    <3>1. titor_next(it) = r
      BY <2>5 DEF titor_next
    <3>2. NextRow(n, r)
      BY <2>2, <2>5, FirstSeenIs
    <3>3. \A p \in Pages : \A i \in 1 .. Size(p) :
            Ahead(n, p, i) /\ Seen(p, i) => Behind(n, p, i)
      BY <2>2, <2>5, ValidIs, PagesAre DEF Ahead, Behind, Iters
    <3>4. r.page = it.page \/ r.page = next
      BY <3>2, <2>1, <2>2, PagesAre DEF NextRow
    <3>5. r.page > it.page \/ (r.page = it.page /\ r.row > it.row)
      BY <3>2, <2>1, <2>2, PagesAre DEF NextRow, Iters
    <3> QED BY <1>2, <2>3, <3>1, <3>2, <3>3, <3>4, <3>5 DEF NextRow
  <2> QED BY <2>4, <2>5
<1> QED BY <1>1, <1>2

-----------------------------------------------------------------------------
(* What the steps of the workers do to the pages.                          *)

Base == TableTypes /\ Shape /\ Ordered /\ Kept /\ FirstRowThere

LEMMA ReachIs ==
  ASSUME NEW g \in [Pages -> Grids], NEW x
  PROVE  x \in Reachable(g) <=> \E p \in Pages : \E i \in 1 .. Len(g[p].rows) :
                                   g[p].rows[i].id = x /\ (p = 0 \/ g[0].next = 1)
<1>1. \A p \in Pages : g[p].rows \in Seq(Rows) /\ g[p].next \in {1, NoPage}
  BY DEF Grids
<1>2. \A p \in Pages : Ids(g[p]) = {g[p].rows[i].id : i \in 1 .. Len(g[p].rows)}
  BY <1>1 DEF Ids
<1>3. Reachable(g) = Ids(g[0]) \cup (IF g[0].next = 1 THEN Ids(g[1]) ELSE {})
  BY <1>1, PagesAre DEF Reachable
<1> QED BY <1>2, <1>3, PagesAre

\* The same rows, but for the transactions that deleted them.
Alike ==
  \A p \in Pages : /\ Size(p)' = Size(p) /\ grids'[p].next = grids[p].next
                   /\ \A i \in 1 .. Size(p) : Id(p, i)' = Id(p, i) /\ Hit(p, i)' = Hit(p, i)

LEMMA AlikeReach ==
  ASSUME grids \in [Pages -> Grids], grids' \in [Pages -> Grids], Alike
  PROVE  Reachable(grids') = Reachable(grids)
<1>1. \A x : x \in Reachable(grids') <=> x \in Reachable(grids)
  <2> TAKE x
  <2>1. x \in Reachable(grids) <=> \E p \in Pages : \E i \in 1 .. Size(p) :
                                     Id(p, i) = x /\ OnTheWay(p)
    BY ReachIs DEF Size, Id, Row, OnTheWay
  <2>2. x \in Reachable(grids') <=> \E p \in Pages : \E i \in 1 .. Size(p)' :
                                     Id(p, i)' = x /\ OnTheWay(p)'
    BY ReachIs DEF Size, Id, Row, OnTheWay
  <2>3. \A p \in Pages : OnTheWay(p)' <=> OnTheWay(p)
    BY PagesAre DEF Alike, OnTheWay
  <2>4. \A p \in Pages : \A i \in 1 .. Size(p) : Id(p, i)' = Id(p, i)
    BY DEF Alike
  <2>5. \A p \in Pages : Size(p)' = Size(p)
    BY DEF Alike
  <2> QED BY <2>1, <2>2, <2>3, <2>4, <2>5
<1> QED BY <1>1

LEMMA AlikeKeeps ==
  ASSUME Base, Alike, rel.data # NoPage,
         grids' \in [Pages -> Grids], saved' \in [Pages -> Grids],
         \A p \in Pages : saved'[p].rows = grids'[p].rows,
         saved'[1].next = saved[1].next,
         UNCHANGED <<rel, inserting, number, wiped, cut, hollow, crashes>>
  PROVE  Base'
<1>1. TableTypes'
  BY DEF Base, TableTypes
<1>2. \A p \in Pages : Size(p)' = Size(p) /\ grids'[p].next = grids[p].next
  BY DEF Alike
<1>3. Shape'
  <2>1. \A p \in Pages : Size(p)' <= RowsPerPage /\ saved'[p].rows = grids'[p].rows
    BY <1>2 DEF Base, Shape
  <2>2. rel'.data # NoPage
    OBVIOUS
  <2>3. Size(1)' <= 1 /\ (Size(0)' < RowsPerPage => Size(1)' = 0)
    BY <1>2, PagesAre DEF Base, Shape
  <2>4. grids'[1].next = NoPage /\ saved'[1].next = NoPage
    BY <1>2, PagesAre DEF Base, Shape
  <2> QED BY <2>1, <2>2, <2>3, <2>4 DEF Shape
<1>4. Ordered'
  <2>1. \A p \in Pages : Size(p)' = Size(p) /\ \A i \in 1 .. Size(p) : Id(p, i)' = Id(p, i)
    BY DEF Alike
  <2>2. Ordered
    BY DEF Base
  <2> QED BY <2>1, <2>2 DEF Ordered
<1>5. Kept'
  <2>1. Reachable(grids') = Reachable(grids)
    BY AlikeReach DEF Base, TableTypes
  <2> QED BY <2>1 DEF Kept, Base
<1>6. FirstRowThere'
  <2>1. rel.data = 0
    BY DEF Base, TableTypes
  <2>2. grids'[0].rows = <<>> => grids[0].rows = <<>>
    <3>1. grids[0].rows \in Seq(Rows) /\ Len(grids'[0].rows) = Len(grids[0].rows)
      BY <1>2, PagesAre DEF Base, TableTypes, Grids, Size
    <3> QED BY <3>1
  <2> QED BY <2>1, <2>2 DEF FirstRowThere, Base
<1> QED BY <1>1, <1>3, <1>4, <1>5, <1>6 DEF Base

\* One row has been deleted by t.
DeletedBy(t, p, i) ==
  /\ \A q \in Pages : \A j \in 1 .. Size(q) : (q # p \/ j # i) => Row(q, j)' = Row(q, j)
  /\ Row(p, i)' = [Row(p, i) EXCEPT !.tmax = t]

LEMMA DeleteIs ==
  ASSUME Base, NEW t \in Trans, NEW it \in Iters, mitor_is_valid(it), DeleteAt(t, it),
         UNCHANGED <<rel, inserting, number, wiped, cut, hollow, crashes>>
  PROVE  Base' /\ Alike /\ DeletedBy(t, it.page, it.row)
<1> DEFINE p == it.page
           i == it.row
<1>1. p \in Pages /\ i \in 1 .. Size(p) /\ Size(p) \in Nat
  BY ValidIs, GridFacts DEF Base
<1>2. /\ grids \in [Pages -> Grids] /\ saved \in [Pages -> Grids]
      /\ \A q \in Pages : grids[q].rows \in Seq(Rows) /\ grids[q].next \in {1, NoPage}
  BY DEF Base, TableTypes, Grids
<1> DEFINE new == [grids[p].rows EXCEPT ![i].tmax = t]
<1>3. new \in Seq(Rows) /\ Len(new) = Size(p)
  <2>1. Row(p, i) \in Rows
    BY <1>1, GridFacts DEF Base
  <2>2. [Row(p, i) EXCEPT !.tmax = t] \in Rows
    BY <2>1 DEF Rows
  <2>3. new = [grids[p].rows EXCEPT ![i] = [Row(p, i) EXCEPT !.tmax = t]]
    BY DEF Row
  <2>4. grids[p].rows \in Seq(Rows) /\ i \in 1 .. Len(grids[p].rows) /\ Len(grids[p].rows) = Size(p)
    BY <1>1, <1>2 DEF Size
  <2> DEFINE r == [Row(p, i) EXCEPT !.tmax = t]
             w == grids[p].rows
  <2> HIDE DEF r, w, new
  <2>5. new = [w EXCEPT ![i] = r] /\ r \in Rows /\ w \in Seq(Rows) /\ i \in 1 .. Len(w) /\ Len(w) = Size(p)
    BY <2>2, <2>3, <2>4 DEF r, w
  <2> QED BY ONLY <2>5, ExceptSeq
<1>4. /\ grids' = [grids EXCEPT ![p] = [grids[p] EXCEPT !.rows = new]]
      /\ saved' = [saved EXCEPT ![p] = grids'[p]]
  BY DEF DeleteAt
<1> HIDE DEF new
<1>5. [grids[p] EXCEPT !.rows = new] \in Grids
  BY <1>1, <1>2, <1>3 DEF Grids
<1>6. /\ grids' \in [Pages -> Grids] /\ saved' \in [Pages -> Grids]
      /\ grids'[p].rows = new /\ grids'[p].next = grids[p].next
      /\ \A q \in Pages \ {p} : grids'[q] = grids[q] /\ saved'[q] = saved[q]
      /\ saved'[p] = grids'[p]
  BY <1>1, <1>2, <1>4, <1>5 DEF Grids
<1>7. DeletedBy(t, p, i)
  <2>1. \A j \in 1 .. Size(p) : j # i => new[j] = grids[p].rows[j]
    BY <1>1, <1>2 DEF new, Size
  <2>2. new[i] = [Row(p, i) EXCEPT !.tmax = t]
    BY <1>1, <1>2 DEF new, Size, Row
  <2> QED BY <1>6, <2>1, <2>2 DEF DeletedBy, Row
<1>8. Alike
  <2>1. \A q \in Pages : Size(q)' = Size(q) /\ grids'[q].next = grids[q].next
    BY <1>3, <1>6 DEF Size
  <2>2. ASSUME NEW q \in Pages, NEW j \in 1 .. Size(q)
        PROVE  Id(q, j)' = Id(q, j) /\ Hit(q, j)' = Hit(q, j)
    <3>1. CASE q = p /\ j = i
      <4>1. Row(p, i) \in Rows
        BY <1>1, GridFacts DEF Base
      <4> QED BY <3>1, <4>1, <1>7 DEF DeletedBy, Id, Hit, Rows
    <3>2. CASE q # p \/ j # i
      BY <3>2, <1>7 DEF DeletedBy, Id, Hit
    <3> QED BY <3>1, <3>2
  <2> QED BY <2>1, <2>2 DEF Alike
<1>9. rel.data # NoPage
  <2> SUFFICES ASSUME rel.data = NoPage PROVE FALSE
    OBVIOUS
  <2>1. grids[p] = EmptyGrid
    BY <1>1 DEF Base, Shape
  <2> QED BY <2>1, <1>1 DEF EmptyGrid, Size
<1>10. \A q \in Pages : saved'[q].rows = grids'[q].rows
  BY <1>6 DEF Base, Shape
<1>11. saved'[1].next = saved[1].next
  BY <1>6, PagesAre DEF Base, Shape
<1>12. Base'
  BY <1>6, <1>8, <1>9, <1>10, <1>11, AlikeKeeps
<1> QED BY <1>7, <1>8, <1>12

\* The same rows, and perhaps a new one, for which another may be gone.
Grown ==
  /\ number <= number'
  /\ \A p \in Pages : /\ Size(p) <= Size(p)'
                      /\ grids[p].next = NoPage \/ grids'[p].next = grids[p].next
                      /\ \A i \in 1 .. Size(p)' :
                           \/ Id(p, i)' = number + 1 /\ number' = number + 1
                           \/ i \in 1 .. Size(p) /\ Row(p, i)' = Row(p, i)

LEMMA Counted ==
  ASSUME TableTypes, NEW t \in inserting
  PROVE  /\ number + 1 + Cardinality(inserting \ {t}) + crashes <= MaxRows
         /\ IsFiniteSet(inserting \ {t}) /\ number + 1 \in 1 .. MaxRows
         /\ number + Cardinality(inserting \ {t}) + crashes <= MaxRows
<1>1. IsFiniteSet(inserting \ {t}) /\ Cardinality(inserting \ {t}) = Cardinality(inserting) - 1
  BY FS_RemoveElement DEF TableTypes
<1>2. Cardinality(inserting) \in Nat /\ Cardinality(inserting \ {t}) \in Nat
  BY <1>1, FS_CardinalityType DEF TableTypes
<1> QED BY <1>1, <1>2, PagesAre DEF TableTypes

LEMMA NewRowIs ==
  ASSUME Base, NEW t \in inserting, NEW hit \in BOOLEAN
  PROVE  NewRow(t, hit) \in Rows /\ NewRow(t, hit).id = number + 1
BY Counted, PagesAre DEF Base, TableTypes, NewRow, Rows

\* What InsertRow leaves of the pages.
Inserted(p, r) ==
  LET rows == IF p = 0 THEN Append(grids[0].rows, r) ELSE <<r>>
  IN  /\ grids' \in [Pages -> Grids] /\ saved' \in [Pages -> Grids]
      /\ grids'[p].rows = rows /\ saved'[p].rows = rows
      /\ \A q \in Pages \ {p} : grids'[q].rows = grids[q].rows /\ saved'[q] = saved[q]
      /\ grids'[0].next = IF p = 0 THEN grids[0].next ELSE 1
      /\ grids'[1].next = NoPage /\ saved'[1].next = NoPage

LEMMA InsertPages ==
  ASSUME Base, NEW t \in Trans, NEW hit \in BOOLEAN, InsertRow(t, hit)
  PROVE  /\ rel.data = 0 /\ t \in inserting
         /\ IF Size(0) = RowsPerPage
            THEN /\ Inserted(1, NewRow(t, hit))
                 /\ wiped' = wiped \cup (Ids(grids[1]) \ Ids(grids'[1]))
            ELSE Inserted(0, NewRow(t, hit)) /\ wiped \subseteq wiped'
<1> DEFINE r == NewRow(t, hit)
           new == mesh_alloc_row(r)
<1>1. t \in inserting
  BY DEF InsertRow
<1>2. rel.data = 0 /\ rel.tail = 0
  BY <1>1, PagesAre DEF Base, TableTypes, Shape
<1>3. r \in Rows
  BY <1>1, NewRowIs
<1>4. /\ grids \in [Pages -> Grids] /\ saved \in [Pages -> Grids]
      /\ \A q \in Pages : grids[q].rows \in Seq(Rows) /\ grids[q].next \in {1, NoPage}
      /\ grids[1].next = NoPage /\ saved[1].next = NoPage
  BY DEF Base, TableTypes, Grids, Shape
<1>5. /\ grids' = new.grids /\ saved' = [saved EXCEPT ![new.page] = grids'[new.page]]
      /\ wiped' = wiped \cup (Ids(grids[new.page]) \ Ids(grids'[new.page]))
  BY DEF InsertRow
<1> HIDE DEF r
<1>6. CASE Size(0) # RowsPerPage
  <2> DEFINE g == [grids[0] EXCEPT !.rows = Append(grids[0].rows, r)]
  <2>1. new = [page |-> 0, grids |-> [grids EXCEPT ![0] = g]]
    BY <1>2, <1>6 DEF mesh_alloc_row, Full, Size
  <2>2. grids' = [grids EXCEPT ![0] = g] /\ saved' = [saved EXCEPT ![0] = grids'[0]]
    BY <2>1, <1>5
  <2>3. g \in Grids /\ g.rows = Append(grids[0].rows, r) /\ g.next = grids[0].next
    <3>1. Append(grids[0].rows, r) \in Seq(Rows)
      BY <1>3, <1>4, PagesAre
    <3> QED BY <3>1, <1>4, PagesAre DEF Grids
  <2> HIDE DEF g
  <2>4. Inserted(0, r)
    BY <2>2, <2>3, <1>4, PagesAre DEF Inserted
  <2> QED BY <2>4, <1>1, <1>2, <1>5, <1>6 DEF r
<1>7. CASE Size(0) = RowsPerPage
  <2> DEFINE g == [EmptyGrid EXCEPT !.rows = <<r>>]
             l == [grids[0] EXCEPT !.next = 1]
  <2>1. new = [page |-> 1, grids |-> [grids EXCEPT ![1] = g,
                 ![0] = [[grids EXCEPT ![1] = g][0] EXCEPT !.next = 1]]]
    BY <1>2, <1>7 DEF mesh_alloc_row, Full, Size
  <2>2. [grids EXCEPT ![1] = g][0] = grids[0]
    BY <1>4, PagesAre
  <2>3. grids' = [grids EXCEPT ![1] = g, ![0] = l] /\ saved' = [saved EXCEPT ![1] = grids'[1]]
    BY <2>1, <2>2, <1>5
  <2>4. g \in Grids /\ g.rows = <<r>> /\ g.next = NoPage
    <3>1. g = [rows |-> <<r>>, next |-> NoPage]
      BY DEF EmptyGrid
    <3>2. <<r>> \in Seq(Rows)
      BY <1>3
    <3> QED BY <3>1, <3>2 DEF Grids
  <2>5. l \in Grids /\ l.rows = grids[0].rows /\ l.next = 1
    BY <1>4, PagesAre DEF Grids
  <2>6. wiped' = wiped \cup (Ids(grids[1]) \ Ids(grids'[1]))
    BY <2>1, <1>5
  <2> HIDE DEF g, l
  <2>7. Inserted(1, r)
    BY <2>3, <2>4, <2>5, <1>4, PagesAre DEF Inserted
  <2> QED BY <2>6, <2>7, <1>1, <1>2, <1>7 DEF r
<1> QED BY <1>6, <1>7

LEMMA AppendIs ==
  ASSUME NEW S, NEW s \in Seq(S), NEW x \in S
  PROVE  /\ Len(Append(s, x)) = Len(s) + 1 /\ Append(s, x)[Len(s) + 1] = x
         /\ \A i \in 1 .. Len(s) : Append(s, x)[i] = s[i]
BY AppendProperties

LEMMA InsertGrows ==
  ASSUME Base, NEW t \in Trans, NEW hit \in BOOLEAN, InsertRow(t, hit)
  PROVE  Grown /\ Shape' /\ Ordered'
<1> DEFINE r == NewRow(t, hit)
<1>1. number' = number + 1 /\ number \in Nat /\ number + 1 \in Nat
  BY DEF InsertRow, Base, TableTypes
<1>2. r.id = number + 1 /\ rel'.data # NoPage
  <2>1. rel' = rel /\ rel.data = 0 /\ t \in inserting
    BY InsertPages DEF InsertRow
  <2> QED BY <2>1, NewRowIs, PagesAre
<1>3. \A q \in Pages : grids[q].rows \in Seq(Rows)
  BY DEF Base, TableTypes, Grids
<1>4. \A q \in Pages : Size(q) \in Nat /\ Size(q) <= RowsPerPage
  BY GridFacts DEF Base
<1>7. /\ \A i, j \in 1 .. Size(0) : i < j => Id(0, i) < Id(0, j)
      /\ \A i \in 1 .. Size(0) : Id(0, i) \in Nat /\ Id(0, i) <= number
  <2>1. \A i \in 1 .. Size(0) : Row(0, i) \in Rows
    BY GridFacts, PagesAre DEF Base
  <2> QED BY <2>1, PagesAre DEF Rows, Id, Base, Ordered
<1> HIDE DEF r
<1>5. CASE Size(0) # RowsPerPage
  <2>7. PICK n : n = Size(0)
    OBVIOUS
  <2>1. Inserted(0, r)
    BY <1>5, InsertPages DEF r
  <2>2. /\ Size(0)' = Size(0) + 1 /\ Row(0, n + 1)' = r
        /\ \A i \in 1 .. Size(0) : Row(0, i)' = Row(0, i)
    <3>1. grids'[0].rows = Append(grids[0].rows, r) /\ grids[0].rows \in Seq(Rows)
      BY <2>1, <1>3, PagesAre DEF Inserted
    <3>2. r \in Rows
      BY InsertPages, NewRowIs DEF r
    <3> QED BY <2>7, <3>1, <3>2, AppendIs DEF Size, Row
  <2>3. /\ Size(1)' = Size(1) /\ Size(1) = 0
        /\ grids'[0].next = grids[0].next /\ grids'[1].next = NoPage /\ grids[1].next = NoPage
        /\ saved'[1].next = NoPage
    BY <2>1, <1>4, <1>5, PagesAre DEF Inserted, Size, Base, Shape
  <2>8. \A i \in 1 .. Size(0)' : i = n + 1 \/ i \in 1 .. Size(0)
    BY <2>2, <2>7, <1>4, PagesAre
  <2>9. Id(0, n + 1)' = number + 1
    BY <2>2, <1>2 DEF Id
  <2>4. Grown
    <3> SUFFICES ASSUME NEW p \in Pages
                 PROVE  /\ Size(p) <= Size(p)'
                        /\ grids[p].next = NoPage \/ grids'[p].next = grids[p].next
                        /\ \A i \in 1 .. Size(p)' :
                             \/ Id(p, i)' = number + 1 /\ number' = number + 1
                             \/ i \in 1 .. Size(p) /\ Row(p, i)' = Row(p, i)
      BY <1>1 DEF Grown
    <3>1. CASE p = 0
      <4>1. \A i \in 1 .. Size(0)' : \/ Id(0, i)' = number + 1 /\ number' = number + 1
                                     \/ i \in 1 .. Size(0) /\ Row(0, i)' = Row(0, i)
        BY <2>8, <2>9, <1>1, <2>2
      <4> QED BY <3>1, <4>1, <1>4, <2>2, <2>3, PagesAre
    <3>2. CASE p = 1
      BY <3>2, <2>3, PagesAre
    <3> QED BY <3>1, <3>2, PagesAre
  <2>5. Shape'
    <3>1. \A p \in Pages : saved'[p].rows = grids'[p].rows
      <4>1. \A p \in Pages : saved[p].rows = grids[p].rows
        BY DEF Base, Shape
      <4> QED BY <2>1, <4>1, PagesAre DEF Inserted
    <3>2. \A p \in Pages : Size(p)' <= RowsPerPage
      BY <2>2, <2>3, <1>4, <1>5, PagesAre
    <3> QED BY <1>2, <2>2, <2>3, <3>1, <3>2, PagesAre DEF Shape
  <2>6. Ordered'
    <3>1. \A i \in 1 .. Size(0) : Id(0, i)' = Id(0, i)
      BY <2>2 DEF Id
    <3>2. \A i \in 1 .. Size(0)' : Id(0, i)' <= number'
      BY <3>1, <2>8, <2>9, <1>1, <1>7
    <3>3. \A i, j \in 1 .. Size(0)' : i < j => Id(0, i)' < Id(0, j)'
      <4> SUFFICES ASSUME NEW i \in 1 .. Size(0)', NEW j \in 1 .. Size(0)', i < j
                   PROVE  Id(0, i)' < Id(0, j)'
        OBVIOUS
      <4>1. i \in 1 .. Size(0)
        BY <2>2, <2>7, <1>4, PagesAre
      <4>2. CASE j = n + 1
        BY <4>1, <4>2, <3>1, <2>9, <1>1, <1>7
      <4>3. CASE j # n + 1
        BY <4>1, <4>3, <3>1, <2>8, <1>7
      <4> QED BY <4>2, <4>3
    <3>4. \A p \in Pages : \A i \in 1 .. Size(p)' : Id(p, i)' <= number'
      BY <3>2, <2>3, PagesAre
    <3>5. \A p, q \in Pages : \A i \in 1 .. Size(p)', j \in 1 .. Size(q)' :
            p < q \/ (p = q /\ i < j) => Id(p, i)' < Id(q, j)'
      BY <3>3, <2>3, PagesAre
    <3> QED BY <3>4, <3>5 DEF Ordered
  <2> QED BY <2>4, <2>5, <2>6
<1>6. CASE Size(0) = RowsPerPage
  <2>1. Inserted(1, r)
    BY <1>6, InsertPages DEF r
  <2>2. /\ Size(1)' = 1 /\ Row(1, 1)' = r
        /\ Size(0)' = Size(0) /\ \A i \in 1 .. Size(0) : Row(0, i)' = Row(0, i)
        /\ grids'[0].next = 1 /\ grids'[1].next = NoPage /\ saved'[1].next = NoPage
    BY <2>1, PagesAre DEF Inserted, Size, Row
  <2>3. Size(1) <= 1 /\ grids[1].next = NoPage /\ grids[0].next \in {1, NoPage}
    BY GridFacts DEF Base, Shape
  <2>4. Grown
    <3> SUFFICES ASSUME NEW p \in Pages
                 PROVE  /\ Size(p) <= Size(p)'
                        /\ grids[p].next = NoPage \/ grids'[p].next = grids[p].next
                        /\ \A i \in 1 .. Size(p)' :
                             \/ Id(p, i)' = number + 1 /\ number' = number + 1
                             \/ i \in 1 .. Size(p) /\ Row(p, i)' = Row(p, i)
      BY <1>1 DEF Grown
    <3>1. CASE p = 0
      BY <3>1, <1>4, <2>2, <2>3, PagesAre
    <3>2. CASE p = 1
      BY <3>2, <1>1, <1>2, <2>2, <2>3, PagesAre DEF Id
    <3> QED BY <3>1, <3>2, PagesAre
  <2>5. Shape'
    <3>1. \A p \in Pages : saved'[p].rows = grids'[p].rows
      BY <2>1, PagesAre DEF Inserted, Base, Shape
    <3> QED BY <1>2, <1>4, <1>6, <2>2, <3>1, PagesAre DEF Shape
  <2>6. Ordered'
    <3>1. \A i \in 1 .. Size(0) : Id(0, i)' = Id(0, i)
      BY <2>2 DEF Id
    <3>2. Id(1, 1)' = number + 1
      BY <2>2, <1>2 DEF Id
    <3>3. \A p \in Pages : \A i \in 1 .. Size(p)' : Id(p, i)' <= number'
      BY <3>1, <3>2, <2>2, <1>1, <1>4, <1>7, PagesAre
    <3>4. \A p, q \in Pages : \A i \in 1 .. Size(p)', j \in 1 .. Size(q)' :
            p < q \/ (p = q /\ i < j) => Id(p, i)' < Id(q, j)'
      BY <3>1, <3>2, <2>2, <1>1, <1>4, <1>7, PagesAre
    <3> QED BY <3>3, <3>4 DEF Ordered
  <2> QED BY <2>4, <2>5, <2>6
<1> QED BY <1>5, <1>6

LEMMA InsertKeeps ==
  ASSUME Base, NEW t \in Trans, NEW hit \in BOOLEAN, InsertRow(t, hit)
  PROVE  Base'
<1> DEFINE r == NewRow(t, hit)
<1>1. /\ number' = number + 1 /\ inserting' = inserting \ {t} /\ t \in inserting
      /\ UNCHANGED <<rel, cut, hollow, crashes>>
  BY DEF InsertRow
<1>2. grids' \in [Pages -> Grids] /\ saved' \in [Pages -> Grids]
  BY InsertPages DEF Inserted
<1>3. TableTypes'
  BY <1>1, <1>2, Counted DEF Base, TableTypes
<1>4. Shape' /\ Ordered' /\ Grown
  BY InsertGrows
<1>5. \A q \in Pages : Size(q) \in Nat /\ Size(q)' \in Nat
  <2>1. \A q \in Pages : grids[q].rows \in Seq(Rows) /\ grids'[q].rows \in Seq(Rows)
    BY <1>2 DEF Base, TableTypes, Grids
  <2> QED BY <2>1 DEF Size
<1>6. rel.data = 0 /\ Size(0)' > 0
  <2>1. CASE Size(0) = RowsPerPage
    BY <2>1, <1>4, <1>5, InsertPages, PagesAre DEF Grown
  <2>2. CASE Size(0) # RowsPerPage
    <3>1. grids[0].rows \in Seq(Rows)
      BY PagesAre DEF Base, TableTypes, Grids
    <3> QED BY <2>2, <3>1, <1>5, InsertPages, PagesAre DEF Inserted, Size
  <2> QED BY <2>1, <2>2
<1>7. FirstRowThere'
  BY <1>1, <1>6, PagesAre DEF FirstRowThere, Size
<1>8. Kept'
  <2> SUFFICES ASSUME NEW x \in 1 .. number + 1, x \notin wiped', x \notin cut
               PROVE  x \in Reachable(grids')
    BY <1>1 DEF Kept
  <2>1. x \in Reachable(grids') <=> \E p \in Pages : \E i \in 1 .. Size(p)' :
                                      Id(p, i)' = x /\ OnTheWay(p)'
    BY <1>2, ReachIs DEF Size, Id, Row, OnTheWay
  <2>2. x \in Reachable(grids) <=> \E p \in Pages : \E i \in 1 .. Size(p) :
                                     Id(p, i) = x /\ OnTheWay(p)
    BY ReachIs DEF Base, TableTypes, Size, Id, Row, OnTheWay
  <2>3. r.id = number + 1 /\ number \in Nat
    BY <1>1, NewRowIs DEF Base, TableTypes
  <2>4. x # number + 1 => x \in Reachable(grids)
    <3>1. wiped \subseteq wiped'
      BY InsertPages
    <3> QED BY <2>3, <3>1 DEF Base, Kept
  <2> HIDE DEF r
  <2>5. CASE Size(0) # RowsPerPage
    <3>5. PICK n : n = Size(0)
      OBVIOUS
    <3>1. Inserted(0, r)
      BY <2>5, InsertPages DEF r
    <3>2. /\ Size(0)' = Size(0) + 1 /\ Row(0, n + 1)' = r
          /\ \A i \in 1 .. Size(0) : Row(0, i)' = Row(0, i)
          /\ Size(1) = 0
      <4>1. grids[0].rows \in Seq(Rows)
        BY PagesAre DEF Base, TableTypes, Grids
      <4>2. grids'[0].rows = Append(grids[0].rows, r) /\ grids[0].rows \in Seq(Rows)
        BY <3>1, <4>1, PagesAre DEF Inserted
      <4>3. r \in Rows
        BY <1>1, NewRowIs DEF r
      <4>4. Size(1) = 0
        BY <1>5, <2>5, PagesAre DEF Base, Shape
      <4> QED BY <3>5, <4>2, <4>3, <4>4, AppendIs DEF Size, Row
    <3>3. CASE x = number + 1
      <4>1. Id(0, n + 1)' = x /\ OnTheWay(0)' /\ n + 1 \in 1 .. Size(0)'
        BY <3>2, <3>3, <3>5, <2>3, <1>5, PagesAre DEF Id, OnTheWay
      <4> QED BY <4>1, <2>1, PagesAre
    <3>4. CASE x # number + 1
      BY <3>2, <3>4, <2>1, <2>2, <2>4, <1>5, PagesAre DEF Id, OnTheWay
    <3> QED BY <3>3, <3>4
  <2>6. CASE Size(0) = RowsPerPage
    <3>1. Inserted(1, r) /\ wiped' = wiped \cup (Ids(grids[1]) \ Ids(grids'[1]))
      BY <2>6, InsertPages DEF r
    <3>2. /\ Size(1)' = 1 /\ Row(1, 1)' = r /\ OnTheWay(1)'
          /\ Size(0)' = Size(0) /\ \A i \in 1 .. Size(0) : Row(0, i)' = Row(0, i)
      BY <3>1, PagesAre DEF Inserted, Size, Row, OnTheWay
    <3>3. CASE x = number + 1
      BY <3>2, <3>3, <2>1, <2>3, PagesAre DEF Id
    <3>4. CASE x # number + 1
      <4>1. x \notin Ids(grids[1])
        <5>1. Ids(grids'[1]) = {number + 1}
          BY <3>2, <2>3, PagesAre, <3>1 DEF Inserted, Ids
        <5> QED BY <5>1, <3>1, <3>4
      <4>2. PICK p \in Pages : \E i \in 1 .. Size(p) : Id(p, i) = x
        BY <2>2, <2>4, <3>4
      <4>3. p = 0
        <5>1. grids[1].rows \in Seq(Rows)
          BY PagesAre DEF Base, TableTypes, Grids
        <5>2. \A i \in 1 .. Size(1) : Id(1, i) \in Ids(grids[1])
          BY <5>1, PagesAre DEF Ids, Id, Row, Size
        <5> QED BY <4>1, <4>2, <5>2, PagesAre
      <4> QED BY <4>2, <4>3, <3>2, <2>1, PagesAre DEF Id, OnTheWay
    <3> QED BY <3>3, <3>4
  <2> QED BY <2>5, <2>6
<1> QED BY <1>3, <1>4, <1>7, <1>8 DEF Base

\* What a statement finds after any step of another worker: the rows that were
\* there, and perhaps a new one.
Steady ==
  /\ number <= number'
  /\ \A p \in Pages : /\ Size(p) <= Size(p)'
                      /\ grids[p].next = NoPage \/ grids'[p].next = grids[p].next
                      /\ \A i \in 1 .. Size(p)' :
                           \/ Id(p, i)' = number + 1 /\ number' = number + 1
                           \/ /\ i \in 1 .. Size(p)
                              /\ Id(p, i)' = Id(p, i) /\ Hit(p, i)' = Hit(p, i)

LEMMA GrownSteady == Grown => Steady
BY DEF Grown, Steady, Id, Hit

LEMMA AlikeSteady ==
  ASSUME Base, Alike, number' = number
  PROVE  Steady
<1>1. \A p \in Pages : Size(p) \in Nat
  BY GridFacts DEF Base
<1> QED BY <1>1 DEF Alike, Steady, Base, TableTypes

LEMMA SameSteady ==
  ASSUME Base, grids' = grids, number' = number
  PROVE  Steady
<1>1. \A p \in Pages : Size(p) \in Nat
  BY GridFacts DEF Base
<1> QED BY <1>1 DEF Steady, Base, TableTypes, Size, Id, Hit, Row

LEMMA SameKeeps ==
  ASSUME Base, UNCHANGED <<rel, grids, saved, inserting, number, wiped, cut, hollow, crashes>>
  PROVE  Base'
BY DEF Base, TableTypes, Shape, Ordered, Kept, FirstRowThere, Size, Id, Row

LEMMA BeginsKeeps ==
  ASSUME Base, NEW t \in Trans, InsertBegins(t)
  PROVE  Base' /\ grids' = grids
<1>1. /\ t \notin inserting /\ number + Cardinality(inserting) + crashes < MaxRows
      /\ inserting' = inserting \cup {t}
      /\ UNCHANGED <<number, wiped, cut, hollow, crashes>>
  BY DEF InsertBegins
<1>2. /\ IsFiniteSet(inserting') /\ Cardinality(inserting') = Cardinality(inserting) + 1
      /\ Cardinality(inserting) \in Nat
  BY <1>1, FS_AddElement, FS_CardinalityType DEF Base, TableTypes
<1>3. /\ rel' \in [data : {0, NoPage}, tail : {0, NoPage}] /\ rel'.tail = rel'.data
      /\ rel'.data = 0
      /\ grids' = grids /\ saved' \in [Pages -> Grids]
      /\ \A p \in Pages : saved'[p].rows = grids'[p].rows
      /\ saved'[1].next = saved[1].next
  <2>1. CASE rel.data = NoPage
    <3>1. /\ rel' = [data |-> 0, tail |-> 0]
          /\ grids' = [grids EXCEPT ![0] = EmptyGrid] /\ saved' = [saved EXCEPT ![0] = EmptyGrid]
      BY <2>1 DEF InsertBegins
    <3>2. grids = [p \in Pages |-> EmptyGrid]
      BY <2>1 DEF Base, Shape
    <3>3. grids' = grids
      BY <3>1, <3>2, PagesAre
    <3>4. EmptyGrid \in Grids
      BY DEF EmptyGrid, Grids
    <3>5. saved' \in [Pages -> Grids] /\ saved'[0] = EmptyGrid /\ saved'[1] = saved[1]
      BY <3>1, <3>4, PagesAre DEF Base, TableTypes
    <3>6. \A p \in Pages : saved'[p].rows = grids'[p].rows
      BY <3>2, <3>3, <3>5, PagesAre DEF Base, Shape
    <3> QED BY <3>1, <3>3, <3>5, <3>6, PagesAre
  <2>2. CASE rel.data # NoPage
    BY <2>2 DEF InsertBegins, Base, TableTypes, Shape
  <2> QED BY <2>1, <2>2
<1>4. TableTypes'
  <2>1. number' + Cardinality(inserting') + crashes' <= MaxRows
    BY <1>1, <1>2, PagesAre DEF Base, TableTypes
  <2> QED BY <1>1, <1>2, <1>3, <2>1 DEF Base, TableTypes
<1>5. Shape'
  BY <1>1, <1>3, PagesAre DEF Base, Shape, Size
<1>6. Ordered' /\ Kept'
  BY <1>1, <1>3 DEF Base, Ordered, Kept, Size, Id, Row
<1>7. FirstRowThere'
  BY <1>1 DEF FirstRowThere
<1> QED BY <1>3, <1>4, <1>5, <1>6, <1>7 DEF Base

LEMMA RefusedKeeps ==
  ASSUME Base, NEW t \in Trans, InsertRefused(t)
  PROVE  Base' /\ grids' = grids /\ number' = number
<1>1. /\ t \in inserting /\ inserting' = inserting \ {t}
      /\ hollow' = (hollow \/ grids[rel.data].rows = <<>>)
      /\ UNCHANGED <<rel, grids, saved, number, wiped, cut, crashes>>
  BY DEF InsertRefused
<1>2. TableTypes'
  BY <1>1, Counted DEF Base, TableTypes
<1>3. Shape' /\ Ordered' /\ Kept'
  BY <1>1 DEF Base, Shape, Ordered, Kept, Size, Id, Row
<1>4. FirstRowThere'
  BY <1>1 DEF FirstRowThere
<1> QED BY <1>1, <1>2, <1>3, <1>4 DEF Base

LEMMA InitBase == TableInit => Base
<1> SUFFICES ASSUME TableInit PROVE Base
  OBVIOUS
<1>1. /\ rel = [data |-> NoPage, tail |-> NoPage]
      /\ grids = [p \in Pages |-> EmptyGrid] /\ saved = grids
      /\ inserting = {} /\ number = 0 /\ crashes = 0 /\ hollow = FALSE
  BY DEF TableInit
<1>2. EmptyGrid \in Grids /\ EmptyGrid.rows = <<>> /\ EmptyGrid.next = NoPage
  BY DEF EmptyGrid, Grids
<1>3. IsFiniteSet({}) /\ Cardinality({}) = 0
  BY FS_EmptySet
<1>4. TableTypes
  <2>1. grids \in [Pages -> Grids] /\ saved \in [Pages -> Grids]
    BY <1>1, <1>2
  <2>2. IsFiniteSet(inserting) /\ number + Cardinality(inserting) + crashes <= MaxRows
    BY <1>1, <1>3, PagesAre
  <2> QED BY <1>1, <2>1, <2>2 DEF TableTypes
<1>5. \A p \in Pages : Size(p) = 0 /\ saved[p].rows = grids[p].rows
  BY <1>1, <1>2 DEF Size
<1>6. Shape
  BY <1>1, <1>2, <1>5, PagesAre DEF Shape
<1>7. Ordered
  BY <1>5 DEF Ordered
<1>8. Kept /\ FirstRowThere
  BY <1>1, PagesAre DEF Kept, FirstRowThere
<1> QED BY <1>4, <1>6, <1>7, <1>8 DEF Base

LEMMA CrashKeeps ==
  ASSUME Base, Crash
  PROVE  Base'
<1>1. PICK evicted \in SUBSET Pages :
        saved' = [p \in Pages |->
                    LET grid == IF p \in evicted THEN grids[p] ELSE saved[p]
                    IN  [grid EXCEPT !.rows = [i \in DOMAIN @ |-> PastRow(@[i])]]]
  BY DEF Crash
<1>2. /\ grids' = saved' /\ inserting' = {} /\ crashes' = crashes + 1
      /\ cut' = cut \cup (Reachable(grids) \ Reachable(saved'))
      /\ hollow' = (hollow \/ (rel.data # NoPage /\ saved[rel.data].rows = <<>>))
      /\ number + Cardinality(inserting) + crashes < MaxRows
      /\ UNCHANGED <<rel, number, wiped>>
  BY DEF Crash
<1>3. \A r \in Rows : PastRow(r) \in Rows /\ PastRow(r).id = r.id
  BY DEF PastRow, Past, Rows
<1>4. ASSUME NEW p \in Pages
      PROVE  /\ saved'[p] \in Grids /\ Size(p)' = Size(p)
             /\ \A i \in 1 .. Size(p) : Id(p, i)' = Id(p, i)
             /\ p = 1 => saved'[p].next = NoPage
             /\ grids[p].rows # <<>> => saved'[p].rows # <<>>
             /\ grids[p] = EmptyGrid /\ saved[p].next = NoPage => saved'[p] = EmptyGrid
  <2> DEFINE grid == IF p \in evicted THEN grids[p] ELSE saved[p]
             rows == [i \in 1 .. Len(grids[p].rows) |-> PastRow(grids[p].rows[i])]
  <2>1. /\ grid \in Grids /\ grid.rows = grids[p].rows /\ (p = 1 => grid.next = NoPage)
        /\ grids[p].rows \in Seq(Rows)
    BY DEF Base, TableTypes, Shape, Grids
  <2>2. DOMAIN grids[p].rows = 1 .. Len(grids[p].rows) /\ Len(grids[p].rows) \in Nat
    BY <2>1
  <2>3. saved'[p] = [grid EXCEPT !.rows = rows]
    BY <1>1, <2>1, <2>2
  <2>4. rows \in Seq(Rows) /\ Len(rows) = Len(grids[p].rows)
    BY <1>3, <2>1, <2>2
  <2>5. saved'[p].rows = rows /\ saved'[p].next = grid.next /\ saved'[p] \in Grids
    BY <2>1, <2>3, <2>4 DEF Grids
  <2>6. \A i \in 1 .. Size(p) : Id(p, i)' = Id(p, i)
    BY <1>2, <1>3, <2>1, <2>5 DEF Id, Row, Size
  <2>7. grids[p].rows # <<>> => rows # <<>>
    BY <2>1, <2>4
  <2>8. grids[p] = EmptyGrid /\ saved[p].next = NoPage => saved'[p] = EmptyGrid
    <3> SUFFICES ASSUME grids[p] = EmptyGrid, saved[p].next = NoPage
                 PROVE  saved'[p] = EmptyGrid
      OBVIOUS
    <3>1. grids[p].rows = <<>> /\ grids[p].next = NoPage
      BY DEF EmptyGrid
    <3>2. rows = <<>> /\ grid.next = NoPage
      BY <3>1, <2>4
    <3> QED BY <3>2, <2>5 DEF Grids, EmptyGrid
  <2> QED BY <1>2, <2>1, <2>4, <2>5, <2>6, <2>7, <2>8 DEF Size
<1>5. saved' \in [Pages -> Grids]
  BY <1>1, <1>4
<1>6. TableTypes'
  <2>1. IsFiniteSet({}) /\ Cardinality({}) = 0 /\ Cardinality(inserting) \in Nat
    BY FS_EmptySet, FS_CardinalityType DEF Base, TableTypes
  <2>2. /\ number' \in Nat /\ crashes' \in Nat
        /\ number' + Cardinality(inserting') + crashes' <= MaxRows
    BY <1>2, <2>1, PagesAre DEF Base, TableTypes
  <2> QED BY <1>2, <1>5, <2>1, <2>2 DEF Base, TableTypes
<1>7. Shape'
  <2>1. \A p \in Pages : Size(p)' = Size(p)
    BY <1>4
  <2>2. Size(1)' = Size(1) /\ Size(0)' = Size(0) /\ saved'[1].next = NoPage
    BY <1>4, PagesAre
  <2>3. rel.data = NoPage => grids' = [p \in Pages |-> EmptyGrid]
    <3> SUFFICES ASSUME rel.data = NoPage PROVE saved' = [p \in Pages |-> EmptyGrid]
      BY <1>2
    <3>1. \A p \in Pages : grids[p] = EmptyGrid /\ saved[p] = EmptyGrid
      BY DEF Base, Shape
    <3>2. \A p \in Pages : saved'[p] = EmptyGrid
      BY <1>4, <3>1 DEF EmptyGrid
    <3> QED BY <1>5, <3>2
  <2> QED BY <1>2, <2>1, <2>2, <2>3 DEF Base, Shape
<1>8. Ordered'
  <2>1. \A p \in Pages : Size(p)' = Size(p) /\ \A i \in 1 .. Size(p) : Id(p, i)' = Id(p, i)
    BY <1>4
  <2>2. Ordered /\ number' = number
    BY <1>2 DEF Base
  <2> QED BY <2>1, <2>2 DEF Ordered
<1>9. Kept'
  BY <1>2 DEF Base, Kept
<1>10. FirstRowThere'
  <2> SUFFICES ASSUME rel.data # NoPage, grids'[rel.data].rows = <<>>
               PROVE  hollow'
    BY <1>2 DEF FirstRowThere
  <2>1. rel.data \in Pages /\ saved[rel.data].rows = grids[rel.data].rows
    BY PagesAre DEF Base, TableTypes, Shape
  <2>2. grids[rel.data].rows = <<>>
    BY <1>2, <1>4, <2>1
  <2> QED BY <1>2, <2>1, <2>2
<1> QED BY <1>6, <1>7, <1>8, <1>9, <1>10 DEF Base

-----------------------------------------------------------------------------
(* What the statement goes by.                                             *)

StmtInv == StmtTypes /\ DoneBehind /\ Together /\ Watched

\* What is used of Base, before and after a step.
Facts ==
  /\ \A p \in Pages : Size(p) \in Nat /\ Size(p) <= RowsPerPage
  /\ \A p \in Pages : \A i \in 1 .. Size(p) :
       Row(p, i) \in Rows /\ Id(p, i) \in Nat /\ Id(p, i) <= number /\ Hit(p, i) \in BOOLEAN
  /\ \A p, q \in Pages : \A i \in 1 .. Size(p), j \in 1 .. Size(q) :
       p < q \/ (p = q /\ i < j) => Id(p, i) < Id(q, j)
  /\ number \in 0 .. MaxRows
  /\ grids[0].next \in {1, NoPage} /\ grids[1].next = NoPage
  /\ \A it \in Iters :
       /\ mitor_is_valid(it) <=> it.page \in Pages /\ it.row \in 1 .. Size(it.page)
       /\ RowAt(it) = Row(it.page, it.row)
       /\ Sees(it) <=> mitor_is_valid(it) /\ Seen(it.page, it.row)
  /\ \A x : x \in Wanted <=> \E p \in Pages : \E i \in 1 .. Size(p) : Id(p, i) = x /\ Fits(p, i)

LEMMA WantedIs ==
  ASSUME TableTypes, Shape, Ordered, NEW x
  PROVE  x \in Wanted <=> \E p \in Pages : \E i \in 1 .. Size(p) : Id(p, i) = x /\ Fits(p, i)
<1>1. \A p \in Pages : Size(p) \in Nat /\ Size(p) <= RowsPerPage
  BY GridFacts
<1>2. \A at \in Positions : /\ at \in Iters /\ at.page \in Pages
                            /\ at = [page |-> at.page, row |-> at.row]
  BY PagesAre DEF Positions, Iters
<1>3. \A y : y \in Reachable(grids) <=> \E p \in Pages : \E i \in 1 .. Size(p) :
                                           Id(p, i) = y /\ OnTheWay(p)
  BY ReachIs DEF TableTypes, Size, Id, Row, OnTheWay
<1>4. \A p, q \in Pages : \A i \in 1 .. Size(p), j \in 1 .. Size(q) :
        Id(p, i) = Id(q, j) => p = q /\ i = j
  <2>1. \A p \in Pages : \A i \in 1 .. Size(p) : Id(p, i) \in Nat
    BY GridFacts, PagesAre DEF Rows, Id
  <2> QED BY <2>1, <1>1, PagesAre DEF Ordered
<1>5. ASSUME x \in Wanted
      PROVE  \E p \in Pages : \E i \in 1 .. Size(p) : Id(p, i) = x /\ Fits(p, i)
  <2>1. PICK at \in Positions : /\ Sees(at) /\ RowAt(at).id \in Reachable(grids)
                                /\ RowAt(at).hit \/ ~stmt.where
                                /\ RowAt(at).id = x
    BY <1>5 DEF Wanted
  <2>2. /\ at.page \in Pages /\ at.row \in 1 .. Size(at.page) /\ Seen(at.page, at.row)
        /\ RowAt(at) = Row(at.page, at.row)
    BY <1>2, <2>1, ValidIs
  <2>3. OnTheWay(at.page)
    BY <1>3, <1>4, <2>1, <2>2 DEF Id
  <2> QED BY <2>1, <2>2, <2>3 DEF Fits, Id, Hit
<1>6. ASSUME NEW p \in Pages, NEW i \in 1 .. Size(p), Id(p, i) = x, Fits(p, i)
      PROVE  x \in Wanted
  <2> DEFINE at == [page |-> p, row |-> i]
  <2>1. at \in Positions /\ at.page = p /\ at.row = i
    BY <1>1, PagesAre DEF Positions
  <2> HIDE DEF at
  <2>2. Sees(at) /\ RowAt(at) = Row(p, i)
    BY <1>2, <1>6, <2>1, ValidIs DEF Fits
  <2>3. RowAt(at).id \in Reachable(grids) /\ RowAt(at).id = x
    BY <1>3, <1>6, <2>2 DEF Fits, Id
  <2>4. RowAt(at).hit \/ ~stmt.where
    BY <1>6, <2>2 DEF Fits, Hit
  <2> QED BY <2>1, <2>2, <2>3, <2>4 DEF Wanted
<1> QED BY <1>5, <1>6

LEMMA FactsHold == Base => Facts
<1> SUFFICES ASSUME Base PROVE Facts
  OBVIOUS
<1>1. TableTypes /\ Shape /\ Ordered
  BY DEF Base
<1>2. \A p \in Pages : \A i \in 1 .. Size(p) :
        Row(p, i) \in Rows /\ Id(p, i) \in Nat /\ Id(p, i) <= number /\ Hit(p, i) \in BOOLEAN
  BY <1>1, GridFacts, PagesAre DEF Ordered, Rows, Id, Hit
<1>3. number \in 0 .. MaxRows
  <2>1. Cardinality(inserting) \in Nat
    BY <1>1, FS_CardinalityType DEF TableTypes
  <2> QED BY <1>1, <2>1, PagesAre DEF TableTypes
<1>4. \A it \in Iters :
        /\ mitor_is_valid(it) <=> it.page \in Pages /\ it.row \in 1 .. Size(it.page)
        /\ RowAt(it) = Row(it.page, it.row)
        /\ Sees(it) <=> mitor_is_valid(it) /\ Seen(it.page, it.row)
  BY <1>1, ValidIs
<1>5. \A x : x \in Wanted <=> \E p \in Pages : \E i \in 1 .. Size(p) : Id(p, i) = x /\ Fits(p, i)
  BY <1>1, WantedIs
<1>6. /\ \A p \in Pages : Size(p) \in Nat /\ Size(p) <= RowsPerPage
      /\ grids[0].next \in {1, NoPage} /\ grids[1].next = NoPage
  BY <1>1, GridFacts
<1>7. \A p, q \in Pages : \A i \in 1 .. Size(p), j \in 1 .. Size(q) :
        p < q \/ (p = q /\ i < j) => Id(p, i) < Id(q, j)
  BY <1>1 DEF Ordered
<1> QED BY <1>2, <1>3, <1>4, <1>5, <1>6, <1>7 DEF Facts

LEMMA FactsNext == Base' => Facts'
BY FactsHold, PTL

\* The statement's own step on the row that it is at.
OwnRows(c) ==
  /\ Alike /\ number' = number /\ committed' = committed
  /\ \A q \in Pages : \A j \in 1 .. Size(q) :
       \/ Row(q, j)' = Row(q, j)
       \/ q = c.page /\ j = c.row /\ ~Seen(q, j)'

LEMMA SameRows ==
  ASSUME NEW c, UNCHANGED <<grids, number, committed>>
  PROVE  OwnRows(c)
BY DEF OwnRows, Alike, Size, Id, Hit, Row

LEMMA DoIs ==
  ASSUME Base, NEW c \in Iters, mitor_is_valid(c), Do(c), DoOnly
  PROVE  Base' /\ OwnRows(c)
<1>1. CASE stmt.kind = "delete"
  <2>1. DeleteAt(Me, c)
    BY <1>1 DEF Do
  <2>2. Base' /\ Alike /\ DeletedBy(Me, c.page, c.row)
    BY <2>1, DeleteIs, PagesAre DEF DoOnly
  <2>3. c.page \in Pages /\ c.row \in 1 .. Size(c.page)
    BY FactsHold DEF Facts
  <2>4. ~Seen(c.page, c.row)'
    <3> DEFINE p == c.page
               i == c.row
    <3>1. Row(p, i) \in Rows
      BY <2>3, FactsHold DEF Facts
    <3>2. Row(p, i)' = [Row(p, i) EXCEPT !.tmax = Me]
      BY <2>2 DEF DeletedBy
    <3>3. Row(p, i)'.tmax = Me
      BY <3>1, <3>2 DEF Rows
    <3> QED BY <3>3 DEF Seen, tran_row_is_visible
  <2> QED BY <2>2, <2>4 DEF OwnRows, DeletedBy, DoOnly
<1>2. CASE stmt.kind # "delete"
  <2>1. UNCHANGED <<grids, saved>>
    BY <1>2 DEF Do
  <2> QED BY <2>1, SameRows, SameKeeps DEF DoOnly
<1> QED BY <1>1, <1>2

LEMMA OwnSeen ==
  ASSUME NEW c, OwnRows(c), NEW q \in Pages, NEW j \in 1 .. Size(q)
  PROVE  /\ Seen(q, j)' => Seen(q, j)
         /\ Seen(q, j) /\ (q # c.page \/ j # c.row) => Seen(q, j)'
BY DEF OwnRows, Seen, tran_row_is_visible

LEMMA OwnWanted ==
  ASSUME Base, Base', NEW c, OwnRows(c), stmt'.where = stmt.where
  PROVE  Wanted' \subseteq Wanted
<1> SUFFICES ASSUME NEW x \in Wanted' PROVE x \in Wanted
  OBVIOUS
<1>1. PICK p \in Pages : \E i \in 1 .. Size(p)' : Id(p, i)' = x /\ Fits(p, i)'
  BY FactsNext DEF Facts
<1>2. PICK i \in 1 .. Size(p)' : Id(p, i)' = x /\ Fits(p, i)'
  BY <1>1
<1>3. i \in 1 .. Size(p) /\ Id(p, i) = x /\ Hit(p, i)' = Hit(p, i) /\ OnTheWay(p)' = OnTheWay(p)
  BY <1>2, PagesAre DEF OwnRows, Alike, OnTheWay
<1>4. Seen(p, i)
  BY <1>2, <1>3, OwnSeen DEF Fits
<1>5. Fits(p, i)
  BY <1>2, <1>3, <1>4 DEF Fits
<1> QED BY <1>3, <1>5, FactsHold DEF Facts

StmtIdle == stmt = Idle /\ watch = NoWatch

LEMMA IdleInv == StmtIdle => StmtInv
<1> SUFFICES ASSUME stmt = Idle, watch = NoWatch PROVE StmtInv
  BY DEF StmtIdle
<1>1. Invalid \in Iters /\ Invalid.page = -1
  BY PagesAre DEF Invalid, Iters
<1>2. StmtTypes
  <2>1. Idle \in Stmts /\ Idle.pc = "idle" /\ Idle.cmd.page # 1
    BY <1>1 DEF Idle, Stmts, Steps
  <2>2. NoWatch \in Watches
    BY DEF NoWatch, Watches
  <2> QED BY <2>1, <2>2 DEF StmtTypes, Running
<1>3. DoneBehind /\ Together /\ Watched
  BY DEF Idle, NoWatch, DoneBehind, OnceInOrder, Together, InStep, Watched, StatementRight,
     OnlyWanted, NothingMissed, FailsOverNothing, Running, Done
<1> QED BY <1>2, <1>3 DEF StmtInv

LEMMA IdleNext == StmtIdle' => StmtInv'
BY IdleInv, PTL

-----------------------------------------------------------------------------
(* The steps of the other workers.                                         *)

LEMMA AroundIs ==
  ASSUME Base, Around
  PROVE  Base' /\ (stmt' = Idle \/ (stmt' = stmt /\ Steady))
<1>1. ASSUME NEW t \in Trans, InsertBegins(t)
      PROVE  Base' /\ stmt' = stmt /\ Steady
  <2>1. Base' /\ grids' = grids
    BY <1>1, BeginsKeeps
  <2>2. stmt' = stmt /\ number' = number
    BY <1>1 DEF InsertBegins
  <2> QED BY <2>1, <2>2, SameSteady
<1>2. ASSUME NEW t \in Trans, InsertRefused(t)
      PROVE  Base' /\ stmt' = stmt /\ Steady
  <2>1. Base' /\ grids' = grids /\ number' = number
    BY <1>2, RefusedKeeps
  <2>2. stmt' = stmt
    BY <1>2 DEF InsertRefused
  <2> QED BY <2>1, <2>2, SameSteady
<1>3. ASSUME NEW t \in Trans, NEW hit \in BOOLEAN, InsertRow(t, hit)
      PROVE  Base' /\ stmt' = stmt /\ Steady
  <2>1. Base' /\ Grown
    BY <1>3, InsertKeeps, InsertGrows
  <2>2. stmt' = stmt
    BY <1>3 DEF InsertRow
  <2> QED BY <2>1, <2>2, GrownSteady
<1>4. ASSUME NEW t \in Others, OtherDeletes(t)
      PROVE  Base' /\ stmt' = stmt /\ Steady
  <2>1. PICK it \in Positions : mitor_is_valid(it) /\ DeleteAt(t, it)
    BY <1>4 DEF OtherDeletes
  <2>2. UNCHANGED <<rel, committed, inserting, stmt, number, wiped, cut, hollow, crashes>>
    BY <1>4 DEF OtherDeletes
  <2>3. it \in Iters /\ t \in Trans
    BY PagesAre DEF Positions, Iters, Trans
  <2>4. Base' /\ Alike
    BY <2>1, <2>2, <2>3, DeleteIs
  <2> QED BY <2>2, <2>4, AlikeSteady
<1>5. ASSUME NEW t \in Others, Commit(t)
      PROVE  Base' /\ stmt' = stmt /\ Steady
  BY <1>5, SameKeeps, SameSteady DEF Commit
<1>6. ASSUME Crash
      PROVE  Base' /\ stmt' = Idle
  <2>1. stmt' = Idle
    BY <1>6 DEF Crash
  <2> QED BY <1>6, <2>1, CrashKeeps
<1> QED BY <1>1, <1>2, <1>3, <1>4, <1>5, <1>6 DEF Around

\* Watch, of a step of another worker while a statement runs.
Watching ==
  watch' = [ever |-> watch.ever \cup Wanted', always |-> watch.always \cap (Wanted' \cup Done),
            quiet |-> watch.quiet /\ grids' = grids /\ committed' = committed,
            displaced |-> watch.displaced \/ Displaced(stmt.cmd) \/ Displaced(stmt.bc)]

LEMMA WatchTypes ==
  ASSUME Base, Base', watch \in Watches, Watching
  PROVE  /\ watch' \in Watches
         /\ watch'.ever = watch.ever \cup Wanted'
         /\ watch'.always = watch.always \cap (Wanted' \cup Done)
         /\ watch'.quiet <=> watch.quiet /\ grids' = grids /\ committed' = committed
         /\ watch'.displaced <=> watch.displaced \/ Displaced(stmt.cmd) \/ Displaced(stmt.bc)
<1>1. Wanted' \subseteq Nat
  BY FactsNext DEF Facts
<1>2. Displaced(stmt.cmd) \in BOOLEAN /\ Displaced(stmt.bc) \in BOOLEAN
  BY DEF Displaced
<1>3. watch = [ever |-> watch.ever, always |-> watch.always, quiet |-> watch.quiet,
               displaced |-> watch.displaced]
      /\ watch.ever \in SUBSET Nat /\ watch.always \in SUBSET Nat
      /\ watch.quiet \in BOOLEAN /\ watch.displaced \in BOOLEAN
  BY DEF Watches
<1>4. watch'.ever = watch.ever \cup Wanted' /\ watch'.always = watch.always \cap (Wanted' \cup Done)
  BY DEF Watching
<1>5. /\ watch'.quiet = (watch.quiet /\ grids' = grids /\ committed' = committed)
      /\ watch'.displaced = (watch.displaced \/ Displaced(stmt.cmd) \/ Displaced(stmt.bc))
  BY DEF Watching
<1>6. watch' \in Watches
  BY <1>1, <1>3 DEF Watching, Watches
<1> QED BY <1>4, <1>5, <1>6

LEMMA AroundTypes ==
  ASSUME Base, Base', StmtInv, Steady, stmt' = stmt, Watching
  PROVE  StmtTypes'
<1>1. /\ watch' \in Watches
      /\ watch'.ever = watch.ever \cup Wanted'
      /\ watch'.always = watch.always \cap (Wanted' \cup Done)
  BY WatchTypes DEF StmtInv, StmtTypes
<1>2. grids[0].next = 1 => grids'[0].next = 1
  BY PagesAre DEF Steady
<1> QED BY <1>1, <1>2 DEF StmtInv, StmtTypes, Running

LEMMA AroundDone ==
  ASSUME Base, Base', StmtInv, Steady, stmt' = stmt
  PROVE  DoneBehind'
<1>1. OnceInOrder'
  BY DEF StmtInv, DoneBehind, OnceInOrder
<1>2. SUFFICES ASSUME NEW d \in DOMAIN stmt.done
               PROVE  /\ stmt.done[d] <= number'
                      /\ \A q \in Pages : \A j \in 1 .. Size(q)' :
                           stmt.cmd.page < q \/ (stmt.cmd.page = q /\ stmt.cmd.row <= j)
                              => stmt.done[d] < Id(q, j)'
  BY <1>1 DEF DoneBehind
<1>3. /\ stmt.done[d] \in Nat /\ stmt.done[d] <= number
      /\ number \in Nat /\ number' \in Nat /\ number <= number'
  <2>1. stmt.done \in Seq(1 .. MaxRows)
    BY DEF StmtInv, StmtTypes, Stmts
  <2> QED BY <2>1, PagesAre DEF StmtInv, DoneBehind, Steady, Base, TableTypes
<1>4. ASSUME NEW q \in Pages, NEW j \in 1 .. Size(q)',
             stmt.cmd.page < q \/ (stmt.cmd.page = q /\ stmt.cmd.row <= j)
      PROVE  stmt.done[d] < Id(q, j)'
  <2>1. \/ Id(q, j)' = number + 1
        \/ j \in 1 .. Size(q) /\ Id(q, j)' = Id(q, j)
    BY DEF Steady
  <2>2. CASE Id(q, j)' = number + 1
    BY <1>3, <2>2
  <2>3. CASE j \in 1 .. Size(q) /\ Id(q, j)' = Id(q, j)
    BY <1>4, <2>3 DEF StmtInv, DoneBehind
  <2> QED BY <2>1, <2>2, <2>3
<1> QED BY <1>3, <1>4

LEMMA SameNext ==
  ASSUME UNCHANGED <<grids, committed>>, stmt'.cmd = stmt.cmd
  PROVE  titor_next(stmt.cmd)' = titor_next(stmt.cmd)
BY DEF titor_next, mitor_next, mitor_is_valid, Sees, FirstSeen, Onward, Halt, RowAt,
       tran_row_is_visible, Comes

LEMMA AroundTogether ==
  ASSUME Base, Base', StmtInv, stmt' = stmt, Watching
  PROVE  Together'
<1>1. watch'.quiet <=> watch.quiet /\ grids' = grids /\ committed' = committed
  BY WatchTypes DEF StmtInv, StmtTypes
<1>2. CASE watch'.quiet
  <2>1. UNCHANGED <<grids, committed>> /\ watch.quiet
    BY <1>1, <1>2
  <2>2. titor_next(stmt.cmd)' = titor_next(stmt.cmd)
    BY <2>1, SameNext
  <2> QED BY <2>1, <2>2 DEF StmtInv, Together, InStep
<1>3. CASE ~watch'.quiet
  BY <1>3 DEF StmtInv, Together, InStep
<1> QED BY <1>2, <1>3

\* An iterator that is not displaced is on the row it was on, or on none as before.
LEMMA Undisplaced ==
  ASSUME Base, Base', Steady, NEW it \in Iters, ~Displaced(it)
  PROVE  /\ mitor_is_valid(it)' <=> mitor_is_valid(it)
         /\ mitor_is_valid(it) => /\ RowAt(it)'.id = RowAt(it).id
                                  /\ RowAt(it)'.hit = RowAt(it).hit
<1>1. /\ mitor_is_valid(it) <=> it.page \in Pages /\ it.row \in 1 .. Size(it.page)
      /\ RowAt(it) = Row(it.page, it.row)
  BY FactsHold DEF Facts
<1>2. /\ mitor_is_valid(it)' <=> it.page \in Pages /\ it.row \in 1 .. Size(it.page)'
      /\ RowAt(it)' = Row(it.page, it.row)'
  BY FactsNext DEF Facts
<1>3. mitor_is_valid(it) => mitor_is_valid(it)'
  <2>1. \A p \in Pages : Size(p) \in Nat /\ Size(p)' \in Nat /\ Size(p) <= Size(p)'
    BY FactsHold, FactsNext DEF Facts, Steady
  <2> QED BY <1>1, <1>2, <2>1
<1>4. mitor_is_valid(it)' => mitor_is_valid(it) /\ RowAt(it)'.id = RowAt(it).id
  BY DEF Displaced
<1>5. ASSUME mitor_is_valid(it)
      PROVE  RowAt(it)'.hit = RowAt(it).hit
  <2> DEFINE p == it.page
             i == it.row
  <2>1. p \in Pages /\ i \in 1 .. Size(p) /\ i \in 1 .. Size(p)' /\ Id(p, i)' = Id(p, i)
    BY <1>1, <1>2, <1>3, <1>4, <1>5 DEF Id
  <2>2. Id(p, i) # number + 1
    BY <2>1, FactsHold DEF Facts
  <2>3. Hit(p, i)' = Hit(p, i)
    BY <2>1, <2>2 DEF Steady
  <2> QED BY <1>1, <1>2, <2>3 DEF Hit
<1> QED BY <1>3, <1>4, <1>5

LEMMA AroundToDo ==
  ASSUME Base, Base', StmtInv, Steady, stmt' = stmt, Watching, ToDo,
         mitor_is_valid(stmt.cmd) => mitor_is_valid(stmt.cmd)'
  PROVE  ToDo'
<1>1. watch'.always = watch.always \cap (Wanted' \cup Done) /\ Done' = Done
  BY WatchTypes DEF StmtInv, StmtTypes, Done
<1>2. SUFFICES ASSUME NEW x \in watch.always, x \in Wanted', x \notin Done
               PROVE  \E p \in Pages : \E i \in 1 .. Size(p)' :
                        Id(p, i)' = x /\ Fits(p, i)' /\ Ahead(stmt.cmd, p, i)'
  BY <1>1 DEF ToDo
<1>3. PICK p \in Pages : \E i \in 1 .. Size(p)' : Id(p, i)' = x /\ Fits(p, i)'
  BY <1>2, FactsNext DEF Facts
<1>4. PICK i \in 1 .. Size(p)' : Id(p, i)' = x /\ Fits(p, i)'
  BY <1>3
<1>5. PICK q \in Pages : \E j \in 1 .. Size(q) :
        Id(q, j) = x /\ Fits(q, j) /\ Ahead(stmt.cmd, q, j)
  BY <1>2 DEF ToDo
<1>6. PICK j \in 1 .. Size(q) : Id(q, j) = x /\ Fits(q, j) /\ Ahead(stmt.cmd, q, j)
  BY <1>5
<1>7. x \in Nat /\ x <= number /\ number \in Nat
  BY <1>6, FactsHold DEF Facts
<1>8. i \in 1 .. Size(p) /\ Id(p, i) = x
  BY <1>4, <1>7 DEF Steady
<1>9. p = q /\ i = j
  <2>1. \A r \in Pages : Size(r) \in Nat
    BY FactsHold DEF Facts
  <2> QED BY <1>6, <1>7, <1>8, <2>1, PagesAre, FactsHold DEF Facts
<1>10. Ahead(stmt.cmd, p, i)'
  <2>1. stmt.cmd \in Iters
    BY DEF StmtInv, StmtTypes, Stmts
  <2>2. CASE mitor_is_valid(stmt.cmd) /\ p = grids[stmt.cmd.page].next
    <3>1. stmt.cmd.page \in Pages
      BY <2>1, <2>2, FactsHold DEF Facts
    <3>2. grids'[stmt.cmd.page].next = p
      BY <2>2, <3>1, PagesAre DEF Steady
    <3> QED BY <2>2, <3>2 DEF Ahead
  <2>3. CASE p = stmt.cmd.page /\ i >= stmt.cmd.row
    BY <2>3 DEF Ahead
  <2> QED BY <1>6, <1>9, <2>2, <2>3 DEF Ahead
<1> QED BY <1>4, <1>10

LEMMA AroundOnTrack ==
  ASSUME Base, Base', StmtInv, Steady, stmt' = stmt, Watching, Running, ~Astray'
  PROVE  OnTrack'
<1>1. /\ watch'.displaced <=> watch.displaced \/ Displaced(stmt.cmd) \/ Displaced(stmt.bc)
      /\ watch'.ever = watch.ever \cup Wanted'
  BY WatchTypes DEF StmtInv, StmtTypes
<1>2. ~Astray /\ ~Displaced(stmt.cmd) /\ ~Displaced(stmt.bc)
  BY <1>1 DEF Astray
<1>3. OnTrack
  BY <1>2 DEF StmtInv, Watched
<1>4. PICK c \in Iters : c = stmt.cmd /\ c = stmt'.cmd
  BY DEF StmtInv, StmtTypes, Stmts
<1>5. PICK b \in Iters : b = stmt.bc /\ b = stmt'.bc
  BY DEF StmtInv, StmtTypes, Stmts
<1>6. ~Displaced(c) /\ ~Displaced(b)
  BY <1>2, <1>4, <1>5 DEF Displaced, mitor_is_valid, RowAt
<1>7. /\ mitor_is_valid(stmt.cmd)' <=> mitor_is_valid(stmt.cmd)
      /\ mitor_is_valid(stmt.cmd) => /\ RowAt(stmt.cmd)'.id = RowAt(stmt.cmd).id
                                     /\ RowAt(stmt.cmd)'.hit = RowAt(stmt.cmd).hit
  BY <1>4, <1>6, Undisplaced DEF mitor_is_valid, RowAt
<1>8. mitor_is_valid(stmt.bc)' <=> mitor_is_valid(stmt.bc)
  BY <1>5, <1>6, Undisplaced DEF mitor_is_valid
<1>9. ToDo'
  BY <1>3, <1>7, AroundToDo DEF OnTrack
<1>10. mitor_is_valid(stmt.cmd)' /\ (RowAt(stmt.cmd)'.hit \/ ~stmt'.where)
         => RowAt(stmt.cmd)'.id \in watch'.ever
  BY <1>1, <1>3, <1>7 DEF OnTrack
<1>11. /\ stmt'.pc \in {"eval", "end", "apply"} => mitor_is_valid(stmt.cmd)'
       /\ stmt'.pc \in {"end", "apply"} => stmt'.hit = RowAt(stmt.cmd)'.hit
  BY <1>3, <1>7 DEF OnTrack
<1>12. stmt'.pc = "apply" => stmt'.more = mitor_is_valid(stmt.bc)'
  <2>1. mitor_is_valid(stmt.bc)' = mitor_is_valid(stmt.bc)
    BY <1>8 DEF mitor_is_valid
  <2> QED BY <2>1, <1>3 DEF OnTrack
<1> QED BY <1>9, <1>10, <1>11, <1>12 DEF OnTrack

LEMMA AroundWatched ==
  ASSUME Base, Base', StmtInv, Steady, stmt' = stmt, Watching, Running
  PROVE  Watched'
<1>1. /\ watch'.ever = watch.ever \cup Wanted'
      /\ watch.displaced => watch'.displaced
  BY WatchTypes DEF StmtInv, StmtTypes
<1>2. Running' /\ ~Astray' => OnTrack'
  BY AroundOnTrack
<1>3. StatementRight'
  <2>1. OnlyWanted'
    <3>1. ~Astray' => ~Astray
      BY <1>1 DEF Astray
    <3>2. Done' = Done
      BY DEF Done
    <3> QED BY <1>1, <3>1, <3>2 DEF StmtInv, Watched, StatementRight, OnlyWanted
  <2>2. stmt'.pc # "ok" /\ stmt'.pc # "failed"
    BY DEF Running
  <2> QED BY <2>1, <2>2 DEF StatementRight, NothingMissed, FailsOverNothing
<1> QED BY <1>1, <1>2, <1>3 DEF Watched

-----------------------------------------------------------------------------
(* The statement's own steps.                                              *)

\* Its iterator goes from c, on a row, to d.
Moves(c, d) ==
  /\ stmt.cmd = c /\ stmt'.cmd = d /\ stmt'.where = stmt.where /\ watch' = watch
  /\ OwnRows(c)
  /\ stmt'.done \in {stmt.done, Append(stmt.done, Id(c.page, c.row))}

LEMMA NextWanted ==
  ASSUME Base, StmtInv, NEW c, NEW d, stmt.cmd = c, mitor_is_valid(c), d = titor_next(c)
  PROVE  /\ NextRow(c, d) /\ (d.page = 1 => grids[0].next = 1)
         /\ mitor_is_valid(d) /\ (RowAt(d).hit \/ ~stmt.where) => RowAt(d).id \in Wanted
<1>1. c \in Iters /\ c.page \in Pages /\ (c.page = 1 => grids[0].next = 1)
  BY FactsHold DEF Facts, StmtInv, StmtTypes, Stmts
<1>2. NextRow(c, d)
  BY <1>1, NextIs DEF Base
<1>3. d \in Iters /\ (d.page = 1 => grids[0].next = 1)
  BY <1>1, <1>2, PagesAre DEF NextRow
<1>4. ASSUME mitor_is_valid(d), RowAt(d).hit \/ ~stmt.where
      PROVE  RowAt(d).id \in Wanted
  <2>1. /\ d.page \in Pages /\ d.row \in 1 .. Size(d.page) /\ RowAt(d) = Row(d.page, d.row)
        /\ Seen(d.page, d.row)
    BY <1>2, <1>3, <1>4, FactsHold DEF Facts, NextRow
  <2>2. OnTheWay(d.page)
    BY <1>3, <2>1, PagesAre DEF OnTheWay
  <2>3. Fits(d.page, d.row) /\ Id(d.page, d.row) = RowAt(d).id
    BY <1>4, <2>1, <2>2 DEF Fits, Hit, Id
  <2> QED BY <2>1, <2>3, FactsHold DEF Facts
<1> QED BY <1>2, <1>3, <1>4

LEMMA MovesDone ==
  ASSUME Base, Base', StmtInv, NEW c \in Iters, NEW d \in Iters, Moves(c, d),
         mitor_is_valid(c), NextRow(c, d)
  PROVE  DoneBehind'
<1> DEFINE s == stmt.done
           n == Len(stmt.done)
           x == Id(c.page, c.row)
<1>1. /\ s \in Seq(1 .. MaxRows) /\ n \in Nat /\ DOMAIN s = 1 .. n
      /\ \A e \in 1 .. n : s[e] \in Nat
  BY PagesAre DEF StmtInv, StmtTypes, Stmts
<1>2. c.page \in Pages /\ c.row \in 1 .. Size(c.page) /\ x \in Nat /\ x <= number
  BY FactsHold DEF Facts
<1>3. \A e \in 1 .. n : s[e] < x
  <2>1. stmt.cmd = c /\ c.row \in Nat
    BY PagesAre DEF Moves, Iters
  <2> QED BY <1>1, <1>2, <2>1 DEF StmtInv, DoneBehind
<1>4. /\ DOMAIN stmt'.done = 1 .. n \/ DOMAIN stmt'.done = 1 .. n + 1
      /\ \A e \in DOMAIN stmt'.done : \/ e \in 1 .. n /\ stmt'.done[e] = s[e]
                                      \/ e = n + 1 /\ stmt'.done[e] = x
  BY <1>1, <1>2 DEF Moves
<1>5. \A e, f \in DOMAIN stmt'.done : e < f => stmt'.done[e] < stmt'.done[f]
  <2>1. \A e, f \in 1 .. n : e < f => s[e] < s[f]
    BY <1>1 DEF StmtInv, DoneBehind, OnceInOrder
  <2> QED BY <1>1, <1>3, <1>4, <2>1, SMTT(30)
<1>6. \A q \in Pages : Size(q)' = Size(q) /\ \A j \in 1 .. Size(q) : Id(q, j)' = Id(q, j)
  BY DEF Moves, OwnRows, Alike
<1>7. /\ number' = number /\ number \in Nat /\ stmt'.cmd = d /\ stmt.cmd = c
      /\ c.row \in Nat /\ d.row \in Nat
  BY PagesAre DEF Moves, OwnRows, Base, TableTypes, Iters
<1>8. ASSUME NEW e \in DOMAIN stmt'.done
      PROVE  stmt'.done[e] <= number'
  <2>1. \A f \in 1 .. n : s[f] <= number
    BY <1>1 DEF StmtInv, DoneBehind
  <2> QED BY <1>2, <1>4, <1>7, <2>1
<1>9. ASSUME NEW e \in DOMAIN stmt'.done, NEW q \in Pages, NEW j \in 1 .. Size(q)',
             d.page < q \/ (d.page = q /\ d.row <= j)
      PROVE  stmt'.done[e] < Id(q, j)'
  <2>1. j \in 1 .. Size(q) /\ Id(q, j)' = Id(q, j) /\ Id(q, j) \in Nat
    BY <1>6, FactsHold DEF Facts
  <2>2. c.page < q \/ (c.page = q /\ c.row < j)
    BY <1>2, <1>7, <1>9, <2>1, PagesAre DEF NextRow
  <2>3. x < Id(q, j)
    BY <1>2, <2>1, <2>2, FactsHold DEF Facts
  <2>4. stmt'.done[e] \in Nat /\ stmt'.done[e] <= x
    <3>1. CASE e \in 1 .. n /\ stmt'.done[e] = s[e]
      BY <1>1, <1>2, <1>3, <3>1
    <3>2. CASE stmt'.done[e] = x
      BY <1>2, <3>2
    <3> QED BY <1>4, <3>1, <3>2
  <2> QED BY <1>2, <2>1, <2>3, <2>4
<1> QED BY <1>5, <1>7, <1>8, <1>9 DEF DoneBehind, OnceInOrder

LEMMA MovesToDo ==
  ASSUME Base, Base', StmtInv, NEW c \in Iters, NEW d \in Iters, Moves(c, d),
         mitor_is_valid(c), NextRow(c, d), ToDo,
         RowAt(c).hit \/ ~stmt.where => stmt'.done = Append(stmt.done, Id(c.page, c.row))
  PROVE  ToDo'
<1>1. stmt.done \in Seq(1 .. MaxRows) /\ Len(stmt.done) \in Nat
  BY DEF StmtInv, StmtTypes, Stmts
<1>2. /\ c.page \in Pages /\ c.row \in 1 .. Size(c.page) /\ RowAt(c) = Row(c.page, c.row)
      /\ c.row \in Nat
  BY FactsHold DEF Facts
<1>3. /\ Done \subseteq Done'
      /\ RowAt(c).hit \/ ~stmt.where => Id(c.page, c.row) \in Done'
  <2> DEFINE x == Id(c.page, c.row)
  <2>1. CASE stmt'.done = stmt.done /\ ~(RowAt(c).hit \/ ~stmt.where)
    BY <2>1 DEF Done
  <2>2. CASE stmt'.done = Append(stmt.done, x)
    <3>1. /\ \A e \in DOMAIN stmt.done : e \in DOMAIN stmt'.done /\ stmt'.done[e] = stmt.done[e]
          /\ Len(stmt.done) + 1 \in DOMAIN stmt'.done /\ stmt'.done[Len(stmt.done) + 1] = x
      BY <1>1, <2>2
    <3> QED BY <3>1 DEF Done
  <2> QED BY <2>1, <2>2 DEF Moves
<1>4. SUFFICES ASSUME NEW x \in watch.always, x \notin Done'
               PROVE  \E p \in Pages : \E i \in 1 .. Size(p)' :
                        Id(p, i)' = x /\ Fits(p, i)' /\ Ahead(stmt.cmd, p, i)'
  BY DEF ToDo, Moves
<1>5. PICK p \in Pages : \E i \in 1 .. Size(p) :
        Id(p, i) = x /\ Fits(p, i) /\ Ahead(c, p, i)
  BY <1>3, <1>4 DEF ToDo, Moves
<1>6. PICK i \in 1 .. Size(p) : Id(p, i) = x /\ Fits(p, i) /\ Ahead(c, p, i)
  BY <1>5
<1>7. p # c.page \/ i # c.row
  BY <1>2, <1>3, <1>4, <1>6 DEF Fits, Hit
<1>8. Ahead(d, p, i)
  <2>1. Behind(c, p, i)
    BY <1>2, <1>6, <1>7 DEF Ahead, Behind
  <2> QED BY <1>6, <2>1 DEF NextRow, Fits
<1>9. /\ i \in 1 .. Size(p)' /\ Id(p, i)' = Id(p, i) /\ Hit(p, i)' = Hit(p, i)
      /\ OnTheWay(p)' = OnTheWay(p)
      /\ \A q \in Pages : grids'[q].next = grids[q].next /\ Size(q)' = Size(q)
  BY PagesAre DEF Moves, OwnRows, Alike, OnTheWay
<1>10. Fits(p, i)'
  <2>1. Seen(p, i)'
    BY <1>6, <1>7, OwnSeen DEF Fits, Moves
  <2> QED BY <1>6, <1>9, <2>1 DEF Fits, Moves
<1>11. Ahead(d, p, i)'
  <2>1. CASE p = d.page /\ i >= d.row
    BY <2>1 DEF Ahead
  <2>2. CASE mitor_is_valid(d) /\ p = grids[d.page].next
    <3>1. d.page \in Pages /\ d.row \in 1 .. Size(d.page)
      BY <2>2, FactsHold DEF Facts
    <3>2. mitor_is_valid(d)'
      BY <1>9, <3>1, FactsNext DEF Facts
    <3> QED BY <1>9, <2>2, <3>1, <3>2 DEF Ahead
  <2> QED BY <1>8, <2>1, <2>2 DEF Ahead
<1>12. Ahead(stmt.cmd, p, i)'
  BY <1>11 DEF Moves, Ahead, mitor_is_valid
<1> QED BY <1>6, <1>9, <1>10, <1>12

\* Behind an iterator that is on no row, nothing is left.
LEMMA Finished ==
  ASSUME Base, stmt.cmd \in Iters, ToDo, ~mitor_is_valid(stmt.cmd)
  PROVE  watch.always \subseteq Done
<1> SUFFICES ASSUME NEW x \in watch.always, x \notin Done PROVE FALSE
  OBVIOUS
<1>1. PICK p \in Pages : \E i \in 1 .. Size(p) :
        Id(p, i) = x /\ Fits(p, i) /\ Ahead(stmt.cmd, p, i)
  BY DEF ToDo
<1>2. PICK i \in 1 .. Size(p) : p = stmt.cmd.page /\ i >= stmt.cmd.row
  BY <1>1 DEF Ahead
<1>3. stmt.cmd.row \in Nat \ {0} /\ Size(p) \in Nat
  BY FactsHold, PagesAre DEF Iters, Facts
<1> QED BY <1>2, <1>3, FactsHold DEF Facts

LEMMA OwnWatch ==
  ASSUME Watch, StmtTypes, Running, stmt' # stmt, stmt'.pc # "idle"
  PROVE  watch' = watch
<1>1. stmt # Idle /\ stmt' # Idle
  BY DEF Idle, Running
<1> QED BY <1>1 DEF Watch

\* The steps that leave table and rows done with as they are.
Stays ==
  /\ StmtOnly /\ watch' = watch /\ stmt' \in Stmts
  /\ stmt'.cmd = stmt.cmd /\ stmt'.done = stmt.done /\ stmt'.where = stmt.where
Pauses == Stays /\ stmt'.parted = stmt.parted

LEMMA StayKeeps ==
  ASSUME Base, StmtInv, Stays
  PROVE  /\ Base' /\ DoneBehind' /\ (ToDo => ToDo') /\ Wanted' = Wanted /\ Done' = Done
         /\ mitor_is_valid(stmt.cmd)' = mitor_is_valid(stmt.cmd)
         /\ RowAt(stmt.cmd)' = RowAt(stmt.cmd)
         /\ titor_next(stmt.cmd)' = titor_next(stmt.cmd)
<1>1. /\ UNCHANGED <<rel, grids, saved, committed, inserting, number, wiped, cut, hollow, crashes>>
      /\ watch' = watch /\ stmt'.cmd = stmt.cmd /\ stmt'.done = stmt.done
      /\ stmt'.where = stmt.where
  BY DEF Stays, StmtOnly
<1>2. Base'
  BY <1>1, SameKeeps
<1>3. DoneBehind'
  BY <1>1 DEF StmtInv, DoneBehind, OnceInOrder, Size, Id, Row
<1>4. /\ mitor_is_valid(stmt.cmd)' = mitor_is_valid(stmt.cmd)
      /\ RowAt(stmt.cmd)' = RowAt(stmt.cmd)
  BY <1>1 DEF mitor_is_valid, RowAt
<1>5. Done' = Done
  BY <1>1 DEF Done
<1>6. \A p \in Pages : /\ Size(p)' = Size(p)
                       /\ \A i \in 1 .. Size(p) : /\ Id(p, i)' = Id(p, i)
                                                  /\ Fits(p, i)' = Fits(p, i)
                                                  /\ Ahead(stmt.cmd, p, i)' = Ahead(stmt.cmd, p, i)
  BY <1>1, <1>4 DEF Size, Id, Row, Fits, Seen, Hit, OnTheWay, tran_row_is_visible, Ahead
<1>7. ToDo => ToDo'
  BY <1>1, <1>5, <1>6 DEF ToDo
<1>8. Wanted' = Wanted
  <2>1. \A x : x \in Wanted' <=> x \in Wanted
    BY <1>2, <1>6, FactsHold, FactsNext DEF Facts
  <2> QED BY <2>1
<1> QED BY <1>1, <1>2, <1>3, <1>4, <1>5, <1>7, <1>8, SameNext

LEMMA PauseKeeps ==
  ASSUME Base, StmtInv, Pauses
  PROVE  /\ Base' /\ DoneBehind' /\ (ToDo => ToDo') /\ Wanted' = Wanted /\ Done' = Done
         /\ Astray' = Astray /\ InStep'
         /\ mitor_is_valid(stmt.cmd)' = mitor_is_valid(stmt.cmd)
         /\ RowAt(stmt.cmd)' = RowAt(stmt.cmd)
         /\ titor_next(stmt.cmd)' = titor_next(stmt.cmd)
<1>1. Stays /\ stmt'.parted = stmt.parted /\ watch' = watch
  BY DEF Pauses, Stays
<1>2. Astray' = Astray /\ InStep'
  BY <1>1 DEF Astray, StmtInv, Together, InStep
<1> QED BY <1>1, <1>2, StayKeeps

LEMMA LoopBeginInv ==
  ASSUME Base, StmtInv, LoopBegin, Watch
  PROVE  Base' /\ StmtInv'
<1> DEFINE v == mitor_is_valid(stmt.bc)
<1>1. /\ stmt.pc = "loop" /\ stmt.cmd = stmt.bc /\ stmt.done = <<>> /\ ~stmt.parted
      /\ stmt' = [stmt EXCEPT !.pc = IF v THEN "eval" ELSE "failed"]
      /\ StmtOnly /\ stmt \in Stmts /\ watch \in Watches
  BY DEF LoopBegin, StmtInv, Together, StmtTypes
<1>2. /\ stmt'.pc = IF v THEN "eval" ELSE "failed"
      /\ stmt'.cmd = stmt.cmd /\ stmt'.bc = stmt.bc /\ stmt'.done = stmt.done
      /\ stmt'.where = stmt.where /\ stmt'.parted = stmt.parted /\ stmt' \in Stmts
      /\ stmt'.more = stmt.more /\ stmt'.hit = stmt.hit
  BY <1>1 DEF Stmts, Steps
<1> HIDE DEF v
<1>3. watch' = watch /\ Pauses
  <2>1. watch' = watch
    <3>1. stmt'.pc \in {"eval", "failed"} /\ StmtTypes /\ Running
      BY <1>1, <1>2 DEF StmtInv, Running
    <3> QED BY <1>1, <3>1, OwnWatch
  <2> QED BY <2>1, <1>1, <1>2 DEF Pauses, Stays
<1>4. StmtTypes'
  BY <1>1, <1>2, <1>3 DEF StmtInv, StmtTypes, Running, StmtOnly
<1>5. Together'
  BY <1>1, <1>2, <1>3, PauseKeeps DEF Together
<1>6. Watched'
  <2>1. Running' => Wanted' \subseteq watch'.ever
    BY <1>1, <1>3, PauseKeeps DEF StmtInv, Watched, Running
  <2>2. Running' /\ ~Astray' => OnTrack'
    BY <1>1, <1>2, <1>3, PauseKeeps DEF StmtInv, Watched, Running, OnTrack, v
  <2>3. StatementRight'
    <3>1. OnlyWanted'
      BY <1>3, PauseKeeps DEF StmtInv, Watched, StatementRight, OnlyWanted
    <3>2. NothingMissed'
      BY <1>2 DEF NothingMissed
    <3>3. FailsOverNothing'
      <4>1. SUFFICES ASSUME ~v, ~Astray' PROVE watch'.always = {}
        BY <1>1, <1>2 DEF FailsOverNothing
      <4>2. ToDo /\ stmt.cmd \in Iters
        BY <4>1, <1>1, <1>3, PauseKeeps DEF StmtInv, Watched, OnTrack, Running, Stmts
      <4>3. Done = {}
        BY <1>1 DEF Done
      <4> QED BY <4>1, <4>2, <4>3, <1>1, <1>3, Finished DEF v
    <3> QED BY <3>1, <3>2, <3>3 DEF StatementRight
  <2> QED BY <2>1, <2>2, <2>3 DEF Watched
<1> QED BY <1>3, <1>4, <1>5, <1>6, PauseKeeps DEF StmtInv

LEMMA EvaluateInv ==
  ASSUME Base, StmtInv, Evaluate, Watch
  PROVE  Base' /\ StmtInv'
<1> DEFINE v == mitor_is_valid(stmt.cmd)
<1>1. /\ stmt.pc = "eval" /\ StmtOnly /\ stmt \in Stmts /\ watch \in Watches
      /\ \/ v /\ stmt' = [stmt EXCEPT !.pc = "end", !.hit = RowAt(stmt.cmd).hit]
         \/ ~v /\ stmt' = [stmt EXCEPT !.pc = "failed"]
         \/ ~v /\ stmt' = [stmt EXCEPT !.pc = "end"]
  BY DEF Evaluate, StmtInv, StmtTypes
<1>2. v => RowAt(stmt.cmd).hit \in BOOLEAN
  BY <1>1, FactsHold DEF Facts, Stmts, Hit
<1>3. /\ stmt'.pc \in {"end", "failed"} /\ (v => stmt'.pc = "end")
      /\ v => stmt'.hit = RowAt(stmt.cmd).hit
      /\ stmt'.cmd = stmt.cmd /\ stmt'.bc = stmt.bc /\ stmt'.done = stmt.done
      /\ stmt'.where = stmt.where /\ stmt'.parted = stmt.parted /\ stmt' \in Stmts
  BY <1>1, <1>2 DEF Stmts, Steps
<1> HIDE DEF v
<1>4. watch' = watch /\ Pauses
  <2>1. watch' = watch
    BY <1>1, <1>3, OwnWatch DEF StmtInv, Running
  <2> QED BY <2>1, <1>1, <1>3 DEF Pauses, Stays
<1>5. StmtTypes'
  BY <1>1, <1>3, <1>4 DEF StmtInv, StmtTypes, Running, StmtOnly
<1>6. Together'
  BY <1>1, <1>3, <1>4, PauseKeeps DEF StmtInv, Together
<1>7. ~Astray => OnTrack /\ v
  BY <1>1 DEF StmtInv, Watched, Running, OnTrack, v
<1>8. Watched'
  <2>1. Running' => Wanted' \subseteq watch'.ever
    BY <1>1, <1>4, PauseKeeps DEF StmtInv, Watched, Running
  <2>2. Running' /\ ~Astray' => OnTrack'
    BY <1>1, <1>3, <1>4, <1>7, PauseKeeps DEF OnTrack, v
  <2>3. StatementRight'
    BY <1>3, <1>4, <1>7, PauseKeeps
       DEF StmtInv, Watched, StatementRight, OnlyWanted, NothingMissed, FailsOverNothing
  <2> QED BY <2>1, <2>2, <2>3 DEF Watched
<1> QED BY <1>4, <1>5, <1>6, <1>8, PauseKeeps DEF StmtInv

LEMMA LoopEndInv ==
  ASSUME Base, StmtInv, LoopEnd, Watch
  PROVE  Base' /\ StmtInv'
<1> DEFINE n == titor_next(stmt.bc)
           v == mitor_is_valid(n)
<1>1. /\ stmt.pc = "end" /\ StmtOnly /\ stmt \in Stmts /\ watch \in Watches
      /\ stmt' = [stmt EXCEPT !.pc = "apply", !.bc = n, !.more = v]
  BY DEF LoopEnd, StmtInv, StmtTypes
<1>2. n \in Iters /\ v \in BOOLEAN
  <2>1. stmt.bc \in Iters
    BY <1>1 DEF Stmts
  <2> QED BY <2>1, NextIs DEF Base, NextRow, mitor_is_valid
<1> HIDE DEF n
<1>3. v = mitor_is_valid(n)
  OBVIOUS
<1> HIDE DEF v
<1>4. /\ stmt'.pc = "apply" /\ stmt'.bc = n /\ stmt'.more = v /\ stmt'.hit = stmt.hit
      /\ stmt'.cmd = stmt.cmd /\ stmt'.done = stmt.done
      /\ stmt'.where = stmt.where /\ stmt'.parted = stmt.parted /\ stmt' \in Stmts
  BY <1>1, <1>2 DEF Stmts, Steps
<1>5. watch' = watch /\ Pauses
  <2>1. watch' = watch
    BY <1>1, <1>4, OwnWatch DEF StmtInv, Running
  <2> QED BY <2>1, <1>1, <1>4 DEF Pauses, Stays
<1>6. StmtTypes'
  BY <1>1, <1>4, <1>5 DEF StmtInv, StmtTypes, Running, StmtOnly
<1>7. Together'
  BY <1>1, <1>4, <1>5, PauseKeeps DEF StmtInv, Together, n
<1>8. Watched'
  <2>1. Running' => Wanted' \subseteq watch'.ever
    BY <1>1, <1>5, PauseKeeps DEF StmtInv, Watched, Running
  <2>2. Running' /\ ~Astray' => OnTrack'
    <3>1. SUFFICES ASSUME ~Astray PROVE OnTrack'
      BY <1>5, PauseKeeps
    <3>2. OnTrack
      BY <3>1, <1>1 DEF StmtInv, Watched, Running
    <3>3. mitor_is_valid(stmt.bc)' = v
      BY <1>1, <1>3, <1>4 DEF mitor_is_valid, StmtOnly
    <3> QED BY <1>1, <1>4, <1>5, <3>2, <3>3, PauseKeeps DEF OnTrack
  <2>3. StatementRight'
    BY <1>4, <1>5, PauseKeeps
       DEF StmtInv, Watched, StatementRight, OnlyWanted, NothingMissed, FailsOverNothing
  <2> QED BY <2>1, <2>2, <2>3 DEF Watched
<1> QED BY <1>5, <1>6, <1>7, <1>8, PauseKeeps DEF StmtInv

LEMMA MoveKeeps ==
  ASSUME Base, Base', StmtInv, Running, NEW c \in Iters, NEW d, Moves(c, d),
         mitor_is_valid(c), d = titor_next(c)
  PROVE  /\ d \in Iters /\ NextRow(c, d) /\ (d.page = 1 => grids'[0].next = 1)
         /\ DoneBehind' /\ stmt'.done \in Seq(1 .. MaxRows)
         /\ Wanted' \subseteq watch'.ever
         /\ mitor_is_valid(stmt.cmd)' /\ (RowAt(stmt.cmd)'.hit \/ ~stmt'.where)
              => RowAt(stmt.cmd)'.id \in watch'.ever
         /\ mitor_is_valid(stmt.cmd)' <=> mitor_is_valid(d)
<1>1. /\ stmt.cmd = c /\ stmt'.cmd = d /\ stmt'.where = stmt.where /\ watch' = watch
      /\ Alike /\ OwnRows(c)
  BY DEF Moves, OwnRows
<1>2. /\ NextRow(c, d) /\ (d.page = 1 => grids[0].next = 1)
      /\ mitor_is_valid(d) /\ (RowAt(d).hit \/ ~stmt.where) => RowAt(d).id \in Wanted
  BY <1>1, NextWanted
<1>3. d \in Iters /\ (d.page = 1 => grids'[0].next = 1)
  BY <1>1, <1>2, PagesAre DEF NextRow, Alike
<1>4. DoneBehind'
  BY <1>2, <1>3, MovesDone
<1>5. stmt'.done \in Seq(1 .. MaxRows)
  <2>1. c.page \in Pages /\ c.row \in 1 .. Size(c.page)
    BY FactsHold DEF Facts
  <2>2. Id(c.page, c.row) \in 1 .. MaxRows
    BY <2>1, FactsHold DEF Facts, Id, Rows
  <2>3. stmt.done \in Seq(1 .. MaxRows)
    BY DEF StmtInv, StmtTypes, Stmts
  <2>4. Append(stmt.done, Id(c.page, c.row)) \in Seq(1 .. MaxRows)
    BY <2>2, <2>3, AppendProperties
  <2> QED BY <2>3, <2>4 DEF Moves
<1>6. Wanted' \subseteq Wanted /\ Wanted \subseteq watch.ever
  BY <1>1, OwnWanted DEF StmtInv, Watched
<1>7. /\ mitor_is_valid(d) <=> d.page \in Pages /\ d.row \in 1 .. Size(d.page)
      /\ RowAt(d) = Row(d.page, d.row)
  BY <1>3, FactsHold DEF Facts
<1>8. /\ mitor_is_valid(stmt.cmd)' <=> d.page \in Pages /\ d.row \in 1 .. Size(d.page)'
      /\ RowAt(stmt.cmd)' = Row(d.page, d.row)'
  BY <1>1, <1>3, FactsNext DEF Facts
<1>9. mitor_is_valid(stmt.cmd)' <=> mitor_is_valid(d)
  BY <1>1, <1>7, <1>8 DEF Alike
<1>10. mitor_is_valid(d) => /\ RowAt(stmt.cmd)'.id = RowAt(d).id
                            /\ RowAt(stmt.cmd)'.hit = RowAt(d).hit
  BY <1>1, <1>7, <1>8 DEF Alike, Id, Hit
<1> QED BY <1>1, <1>2, <1>3, <1>4, <1>5, <1>6, <1>9, <1>10

LEMMA MoveWanted ==
  ASSUME StmtInv, NEW c, NEW d, Moves(c, d), Done \subseteq watch.ever,
         stmt'.done # stmt.done => Id(c.page, c.row) \in watch.ever
  PROVE  Done' \subseteq watch'.ever
<1>1. stmt.done \in Seq(1 .. MaxRows)
  BY DEF StmtInv, StmtTypes, Stmts
<1>2. CASE stmt'.done = stmt.done
  BY <1>2 DEF Moves, Done
<1>3. CASE stmt'.done # stmt.done
  <2> DEFINE x == Id(c.page, c.row)
  <2>1. stmt'.done = Append(stmt.done, x) /\ x \in watch.ever
    BY <1>3 DEF Moves
  <2>2. \A e \in DOMAIN stmt'.done : \/ stmt'.done[e] = x
                                     \/ e \in DOMAIN stmt.done /\ stmt'.done[e] = stmt.done[e]
    BY <1>1, <2>1
  <2> QED BY <2>1, <2>2 DEF Moves, Done
<1> QED BY <1>2, <1>3

LEMMA FinishedNext ==
  Base' /\ stmt'.cmd \in Iters /\ ToDo' /\ ~mitor_is_valid(stmt.cmd)'
    => watch'.always \subseteq Done'
<1> DEFINE P == stmt.cmd \in Iters
           V == mitor_is_valid(stmt.cmd)
           F == watch.always \subseteq Done
<1>1. Base /\ P /\ ToDo /\ ~V => F
  BY Finished
<1> HIDE DEF P, V, F
<1>2. Base' /\ P' /\ ToDo' /\ ~V' => F'
  BY <1>1, PTL
<1> QED BY <1>2 DEF P, V, F

LEMMA EveryRowInv ==
  ASSUME Base, StmtInv, EveryRow, Watch
  PROVE  Base' /\ StmtInv'
<1>1. /\ stmt.pc = "rows" /\ ~stmt.where /\ stmt \in Stmts /\ watch \in Watches
      /\ stmt.cmd \in Iters /\ Running /\ DoOnly
  BY DEF EveryRow, StmtInv, StmtTypes, Stmts, Running
<1>2. CASE ~mitor_is_valid(stmt.cmd)
  <2>1. /\ UNCHANGED <<grids, saved>> /\ stmt' = [stmt EXCEPT !.pc = "ok"]
    BY <1>2 DEF EveryRow
  <2>2. /\ stmt'.pc = "ok" /\ stmt'.cmd = stmt.cmd /\ stmt'.done = stmt.done
        /\ stmt'.where = stmt.where /\ stmt'.parted = stmt.parted /\ stmt' \in Stmts
    BY <1>1, <2>1 DEF Stmts, Steps
  <2>3. watch' = watch
    BY <1>1, <2>2, OwnWatch DEF StmtInv
  <2>4. Pauses
    BY <1>1, <2>1, <2>2, <2>3 DEF Pauses, Stays, StmtOnly, DoOnly
  <2>5. StmtTypes'
    BY <1>1, <2>1, <2>2, <2>3 DEF StmtInv, StmtTypes, Running
  <2>6. Together'
    BY <2>2, <2>4, PauseKeeps DEF Together
  <2>7. Watched'
    <3>1. ~Running'
      BY <2>2 DEF Running
    <3>2. OnlyWanted'
      BY <2>3, <2>4, PauseKeeps DEF StmtInv, Watched, StatementRight, OnlyWanted
    <3>3. ~Astray => watch.always \subseteq Done
      BY <1>1, <1>2, Finished DEF StmtInv, Watched, OnTrack
    <3>4. NothingMissed' /\ FailsOverNothing'
      BY <2>2, <2>3, <2>4, <3>3, PauseKeeps DEF NothingMissed, FailsOverNothing
    <3> QED BY <3>1, <3>2, <3>4 DEF Watched, StatementRight
  <2> QED BY <2>4, <2>5, <2>6, <2>7, PauseKeeps DEF StmtInv
<1>3. CASE mitor_is_valid(stmt.cmd)
  <2>1. PICK c \in Iters : c = stmt.cmd
    BY <1>1
  <2>2. PICK d : d = titor_next(c)
    OBVIOUS
  <2>3. /\ Do(c) /\ mitor_is_valid(c) /\ RowAt(c) = Row(c.page, c.row)
        /\ stmt' = [stmt EXCEPT !.done = Append(@, Id(c.page, c.row)), !.cmd = d]
    BY <1>1, <1>3, <2>1, <2>2, FactsHold DEF EveryRow, DoneWith, Id, Facts
  <2>4. Base' /\ OwnRows(c)
    BY <1>1, <2>3, DoIs
  <2>5. /\ stmt'.pc = "rows" /\ stmt'.cmd = d /\ stmt'.done = Append(stmt.done, Id(c.page, c.row))
        /\ stmt'.where = stmt.where /\ stmt'.parted = stmt.parted /\ stmt'.kind = stmt.kind
        /\ stmt'.bc = stmt.bc /\ stmt'.more = stmt.more /\ stmt'.hit = stmt.hit
    BY <1>1, <2>3 DEF Stmts
  <2>6. watch' = watch
    <3>1. stmt' # stmt
      <4>1. stmt.done \in Seq(1 .. MaxRows)
        BY <1>1 DEF Stmts
      <4>2. Len(stmt'.done) # Len(stmt.done)
        BY <2>5, <4>1
      <4> QED BY <4>2
    <3> QED BY <1>1, <2>5, <3>1, OwnWatch DEF StmtInv
  <2>7. Moves(c, d)
    BY <2>1, <2>4, <2>5, <2>6 DEF Moves
  <2>8. /\ d \in Iters /\ NextRow(c, d) /\ (d.page = 1 => grids'[0].next = 1)
        /\ DoneBehind' /\ stmt'.done \in Seq(1 .. MaxRows)
        /\ Wanted' \subseteq watch'.ever
        /\ mitor_is_valid(stmt.cmd)' /\ (RowAt(stmt.cmd)'.hit \/ ~stmt'.where)
             => RowAt(stmt.cmd)'.id \in watch'.ever
    BY <1>1, <2>2, <2>3, <2>4, <2>7, MoveKeeps
  <2>9. StmtTypes'
    <3>1. stmt' \in Stmts
      BY <1>1, <2>3, <2>5, <2>8 DEF Stmts
    <3> QED BY <1>1, <2>5, <2>6, <2>8, <3>1 DEF StmtInv, StmtTypes, Running
  <2>10. Together'
    BY <2>5, <2>6 DEF StmtInv, Together, InStep
  <2>11. Watched'
    <3>1. ~Astray' => OnTrack
      BY <1>1, <2>5, <2>6 DEF StmtInv, Watched, Astray
    <3>2. ~Astray' => OnTrack'
      <4>1. ToDo => ToDo'
        BY <2>3, <2>4, <2>5, <2>7, <2>8, MovesToDo
      <4> QED BY <2>5, <2>8, <3>1, <4>1 DEF OnTrack
    <3>3. OnlyWanted'
      <4>1. SUFFICES ASSUME ~Astray' PROVE Done' \subseteq watch'.ever
        BY DEF OnlyWanted
      <4>2. Done \subseteq watch.ever
        BY <4>1, <2>5, <2>6 DEF StmtInv, Watched, StatementRight, OnlyWanted, Astray
      <4>3. Id(c.page, c.row) \in watch.ever
        BY <4>1, <3>1, <1>1, <1>3, <2>1, <2>3 DEF OnTrack, Id
      <4> QED BY <2>7, <4>2, <4>3, MoveWanted
    <3>4. NothingMissed' /\ FailsOverNothing'
      BY <2>5 DEF NothingMissed, FailsOverNothing
    <3> QED BY <2>8, <3>2, <3>3, <3>4 DEF Watched, StatementRight
  <2> QED BY <2>4, <2>8, <2>9, <2>10, <2>11 DEF StmtInv
<1> QED BY <1>2, <1>3

\* What Apply makes of the statement, but for the row it may be done with.
Applied(d) ==
  /\ stmt'.pc = (IF stmt.more THEN "eval" ELSE "ok") /\ stmt'.cmd = d
  /\ stmt'.parted <=> stmt.parted \/ d # stmt.bc
  /\ stmt'.kind = stmt.kind /\ stmt'.where = stmt.where /\ stmt'.bc = stmt.bc
  /\ stmt'.more = stmt.more /\ stmt'.hit = stmt.hit

LEMMA ApplyIs ==
  ASSUME Base, StmtInv, Apply, Watch, NEW c \in Iters, c = stmt.cmd, NEW d, d = titor_next(c)
  PROVE  /\ stmt.pc = "apply" /\ Running /\ stmt.where /\ DoOnly /\ watch' = watch
         /\ Applied(d) /\ stmt'.parted \in BOOLEAN
         /\ IF mitor_is_valid(c) /\ stmt.hit
            THEN Do(c) /\ stmt'.done = Append(stmt.done, Id(c.page, c.row))
            ELSE UNCHANGED <<grids, saved>> /\ stmt'.done = stmt.done
         /\ stmt' = [pc |-> stmt'.pc, kind |-> stmt'.kind, where |-> stmt'.where, cmd |-> stmt'.cmd,
                     bc |-> stmt'.bc, more |-> stmt'.more, hit |-> stmt'.hit,
                     done |-> stmt'.done, parted |-> stmt'.parted]
<1> DEFINE rest == [stmt EXCEPT !.pc = IF stmt.more THEN "eval" ELSE "ok", !.cmd = d,
                                !.parted = @ \/ d # stmt.bc]
<1>1. /\ stmt.pc = "apply" /\ Running /\ stmt.where /\ DoOnly /\ stmt \in Stmts
  BY DEF Apply, Running, StmtInv, StmtTypes
<1>2. IF mitor_is_valid(c) /\ stmt.hit
      THEN Do(c) /\ stmt' = [rest EXCEPT !.done = DoneWith(c)]
      ELSE UNCHANGED <<grids, saved>> /\ stmt' = rest
  BY DEF Apply
<1>3. mitor_is_valid(c) => DoneWith(c) = Append(stmt.done, Id(c.page, c.row))
  BY FactsHold DEF Facts, DoneWith, Id
<1>4. /\ rest.pc = (IF stmt.more THEN "eval" ELSE "ok") /\ rest.cmd = d
      /\ rest.parted = (stmt.parted \/ d # stmt.bc) /\ rest.done = stmt.done
      /\ rest.kind = stmt.kind /\ rest.where = stmt.where /\ rest.bc = stmt.bc
      /\ rest.more = stmt.more /\ rest.hit = stmt.hit
      /\ rest = [pc |-> rest.pc, kind |-> rest.kind, where |-> rest.where, cmd |-> rest.cmd,
                 bc |-> rest.bc, more |-> rest.more, hit |-> rest.hit, done |-> rest.done,
                 parted |-> rest.parted]
  <2>1. rest = [pc |-> IF stmt.more THEN "eval" ELSE "ok", kind |-> stmt.kind,
                where |-> stmt.where, cmd |-> d, bc |-> stmt.bc, more |-> stmt.more,
                hit |-> stmt.hit, done |-> stmt.done, parted |-> stmt.parted \/ d # stmt.bc]
    <3> DEFINE go == IF stmt.more THEN "eval" ELSE "ok"
               split == stmt.parted \/ d # stmt.bc
    <3>1. stmt = [pc |-> stmt.pc, kind |-> stmt.kind, where |-> stmt.where, cmd |-> stmt.cmd,
                  bc |-> stmt.bc, more |-> stmt.more, hit |-> stmt.hit, done |-> stmt.done,
                  parted |-> stmt.parted]
      BY <1>1 DEF Stmts
    <3>2. rest = [stmt EXCEPT !.pc = go, !.cmd = d, !.parted = split]
      OBVIOUS
    <3> HIDE DEF rest, go, split
    <3>3. rest = [pc |-> go, kind |-> stmt.kind, where |-> stmt.where, cmd |-> d, bc |-> stmt.bc,
                  more |-> stmt.more, hit |-> stmt.hit, done |-> stmt.done, parted |-> split]
      BY <3>1, <3>2
    <3> QED BY <3>3 DEF go, split
  <2> HIDE DEF rest
  <2> QED BY <2>1
<1> HIDE DEF rest
<1>5. CASE mitor_is_valid(c) /\ stmt.hit
  <2> DEFINE s == Append(stmt.done, Id(c.page, c.row))
  <2>1. stmt' = [rest EXCEPT !.done = s] /\ Do(c)
    BY <1>2, <1>3, <1>5
  <2> HIDE DEF s
  <2>2. stmt' = [pc |-> rest.pc, kind |-> rest.kind, where |-> rest.where, cmd |-> rest.cmd,
                 bc |-> rest.bc, more |-> rest.more, hit |-> rest.hit, done |-> s,
                 parted |-> rest.parted]
    BY <2>1, <1>4
  <2>3. stmt' # stmt /\ stmt'.pc # "idle"
    BY <2>2, <1>1, <1>4
  <2>4. watch' = watch
    BY <1>1, <2>3, OwnWatch DEF StmtInv
  <2>5. Applied(d) /\ stmt'.parted \in BOOLEAN
    BY <1>4, <2>2 DEF Applied
  <2> QED BY <1>1, <1>5, <2>1, <2>2, <2>4, <2>5 DEF s
<1>6. CASE ~(mitor_is_valid(c) /\ stmt.hit)
  <2>1. stmt' = rest /\ UNCHANGED <<grids, saved>>
    BY <1>2, <1>6
  <2>3. stmt' # stmt /\ stmt'.pc # "idle"
    BY <2>1, <1>1, <1>4
  <2>4. watch' = watch
    BY <1>1, <2>3, OwnWatch DEF StmtInv
  <2>5. Applied(d) /\ stmt'.parted \in BOOLEAN
    BY <1>4, <2>1 DEF Applied
  <2> QED BY <1>1, <1>4, <1>6, <2>1, <2>4, <2>5
<1> QED BY <1>5, <1>6

LEMMA ApplyTypes ==
  ASSUME Base, StmtInv, NEW d \in Iters, Applied(d), watch' = watch, stmt.pc = "apply",
         stmt'.done \in Seq(1 .. MaxRows), stmt'.parted \in BOOLEAN,
         stmt' = [pc |-> stmt'.pc, kind |-> stmt'.kind, where |-> stmt'.where, cmd |-> stmt'.cmd,
                  bc |-> stmt'.bc, more |-> stmt'.more, hit |-> stmt'.hit,
                  done |-> stmt'.done, parted |-> stmt'.parted],
         d.page = 1 => grids'[0].next = 1
  PROVE  StmtTypes'
<1>1. /\ stmt.kind \in {"none", "select", "delete"} /\ stmt.where \in BOOLEAN /\ stmt.where
      /\ stmt.bc \in Iters /\ stmt.more \in BOOLEAN /\ stmt.hit \in BOOLEAN
      /\ watch \in Watches /\ watch.always \subseteq watch.ever
  BY DEF StmtInv, StmtTypes, Stmts, Running
<1>2. stmt'.pc \in {"eval", "ok"}
  BY DEF Applied
<1>3. stmt' \in Stmts
  BY <1>1, <1>2 DEF Applied, Stmts, Steps
<1> QED BY <1>1, <1>2, <1>3 DEF Applied, StmtTypes

LEMMA ApplyTogether ==
  ASSUME StmtInv, NEW d, d = titor_next(stmt.cmd), Applied(d), watch' = watch, stmt.pc = "apply"
  PROVE  Together'
<1>1. stmt'.pc \in {"eval", "ok"}
  BY DEF Applied
<1>2. watch.quiet => ~stmt.parted /\ d = stmt.bc
  BY DEF StmtInv, Together, InStep
<1>3. InStep'
  BY <1>2 DEF Applied, InStep
<1> QED BY <1>1, <1>2, <1>3 DEF Applied, Together

LEMMA ApplyWatched ==
  ASSUME Base, Base', StmtInv, NEW c \in Iters, NEW d \in Iters, Moves(c, d), Applied(d),
         mitor_is_valid(c), NextRow(c, d), stmt.pc = "apply",
         IF stmt.hit THEN stmt'.done = Append(stmt.done, Id(c.page, c.row))
                     ELSE stmt'.done = stmt.done,
         Wanted' \subseteq watch'.ever,
         mitor_is_valid(stmt.cmd)' /\ (RowAt(stmt.cmd)'.hit \/ ~stmt'.where)
           => RowAt(stmt.cmd)'.id \in watch'.ever,
         mitor_is_valid(stmt.cmd)' <=> mitor_is_valid(d)
  PROVE  Watched'
<1>1. /\ stmt.cmd = c /\ watch' = watch /\ stmt.where
      /\ stmt'.pc = IF stmt.more THEN "eval" ELSE "ok"
      /\ stmt'.cmd = d
  BY DEF Moves, Applied, StmtInv, StmtTypes
<1>2. ASSUME ~Astray'
      PROVE  /\ OnTrack /\ ~Astray /\ d = stmt.bc
  BY <1>1, <1>2 DEF Applied, Astray, StmtInv, Watched, Running
<1>3. ASSUME ~Astray'
      PROVE  /\ stmt.hit = RowAt(c).hit /\ stmt.more = mitor_is_valid(d)
  BY <1>1, <1>2, <1>3 DEF OnTrack
<1>4. ASSUME ~Astray'
      PROVE  ToDo'
  <2>1. RowAt(c).hit \/ ~stmt.where => stmt'.done = Append(stmt.done, Id(c.page, c.row))
    BY <1>1, <1>3, <1>4
  <2>2. ToDo
    BY <1>2, <1>4 DEF OnTrack
  <2> QED BY <2>1, <2>2, MovesToDo
<1>5. Running' /\ ~Astray' => OnTrack'
  <2> SUFFICES ASSUME Running', ~Astray' PROVE OnTrack'
    OBVIOUS
  <2>1. stmt'.pc = "eval" /\ stmt.more
    BY <1>1 DEF Running
  <2> QED BY <2>1, <1>3, <1>4 DEF OnTrack
<1>6. OnlyWanted'
  <2> SUFFICES ASSUME ~Astray' PROVE Done' \subseteq watch'.ever
    BY DEF OnlyWanted
  <2>1. Done \subseteq watch.ever
    BY <1>2 DEF StmtInv, Watched, StatementRight, OnlyWanted
  <2>2. stmt'.done # stmt.done => Id(c.page, c.row) \in watch.ever
    <3>1. RowAt(c) = Row(c.page, c.row)
      BY FactsHold DEF Facts
    <3> QED BY <1>1, <1>2, <1>3, <3>1 DEF OnTrack, Id
  <2> QED BY <2>1, <2>2, MoveWanted
<1>7. NothingMissed'
  <2> SUFFICES ASSUME stmt'.pc = "ok", ~Astray' PROVE watch'.always \subseteq Done'
    BY DEF NothingMissed
  <2>1. ~stmt.more
    BY <1>1
  <2>2. ~mitor_is_valid(stmt.cmd)'
    BY <1>3, <2>1
  <2> QED BY <1>1, <1>4, <2>2, FinishedNext
<1>8. FailsOverNothing'
  BY <1>1 DEF FailsOverNothing
<1> QED BY <1>5, <1>6, <1>7, <1>8 DEF Watched, StatementRight

LEMMA ApplyInv ==
  ASSUME Base, StmtInv, Apply, Watch
  PROVE  Base' /\ StmtInv'
<1>1. PICK c \in Iters : c = stmt.cmd
  BY DEF StmtInv, StmtTypes, Stmts
<1>2. PICK d : d = titor_next(c)
  OBVIOUS
<1>3. /\ stmt.pc = "apply" /\ Running /\ stmt.where /\ DoOnly /\ watch' = watch
      /\ Applied(d) /\ stmt'.parted \in BOOLEAN
      /\ IF mitor_is_valid(c) /\ stmt.hit
         THEN Do(c) /\ stmt'.done = Append(stmt.done, Id(c.page, c.row))
         ELSE UNCHANGED <<grids, saved>> /\ stmt'.done = stmt.done
      /\ stmt' = [pc |-> stmt'.pc, kind |-> stmt'.kind, where |-> stmt'.where, cmd |-> stmt'.cmd,
                  bc |-> stmt'.bc, more |-> stmt'.more, hit |-> stmt'.hit,
                  done |-> stmt'.done, parted |-> stmt'.parted]
  BY <1>1, <1>2, ApplyIs
<1>4. Together'
  BY <1>1, <1>2, <1>3, ApplyTogether
<1>5. CASE mitor_is_valid(c)
  <2>1. Base' /\ OwnRows(c)
    <3>1. CASE stmt.hit
      BY <1>3, <1>5, <3>1, DoIs
    <3>2. CASE ~stmt.hit
      BY <1>3, <3>2, SameRows, SameKeeps DEF DoOnly
    <3> QED BY <3>1, <3>2
  <2>2. Moves(c, d)
    BY <1>1, <1>3, <2>1 DEF Moves, Applied
  <2>3. /\ d \in Iters /\ NextRow(c, d) /\ (d.page = 1 => grids'[0].next = 1)
        /\ DoneBehind' /\ stmt'.done \in Seq(1 .. MaxRows)
        /\ Wanted' \subseteq watch'.ever
        /\ mitor_is_valid(stmt.cmd)' /\ (RowAt(stmt.cmd)'.hit \/ ~stmt'.where)
             => RowAt(stmt.cmd)'.id \in watch'.ever
        /\ mitor_is_valid(stmt.cmd)' <=> mitor_is_valid(d)
    BY <1>2, <1>3, <1>5, <2>1, <2>2, MoveKeeps
  <2>4. StmtTypes'
    BY <1>3, <2>3, ApplyTypes
  <2>5. Watched'
    BY <1>3, <1>5, <2>1, <2>2, <2>3, ApplyWatched
  <2> QED BY <1>4, <2>1, <2>3, <2>4, <2>5 DEF StmtInv
<1>6. CASE ~mitor_is_valid(c)
  <2>1. d = c
    BY <1>2, <1>6, NextIs DEF Base
  <2>2. StmtOnly /\ stmt'.done = stmt.done
    BY <1>3, <1>6 DEF DoOnly, StmtOnly
  <2>3. StmtTypes'
    <3>1. c.page = 1 => grids'[0].next = 1
      BY <1>1, <2>2 DEF StmtInv, StmtTypes, StmtOnly
    <3>2. stmt'.done \in Seq(1 .. MaxRows)
      BY <2>2 DEF StmtInv, StmtTypes, Stmts
    <3> QED BY <1>3, <2>1, <3>1, <3>2, ApplyTypes
  <2>4. Stays
    BY <1>1, <1>3, <2>1, <2>2, <2>3 DEF Stays, StmtTypes, Applied
  <2>5. Astray'
    <3>1. Astray
      BY <1>1, <1>3, <1>6 DEF StmtInv, Watched, OnTrack
    <3> QED BY <1>3, <3>1 DEF Astray, Applied
  <2>6. Watched'
    <3>1. Wanted' \subseteq watch'.ever
      BY <1>3, <2>4, StayKeeps DEF StmtInv, Watched
    <3> QED BY <2>5, <3>1 DEF Watched, StatementRight, OnlyWanted, NothingMissed, FailsOverNothing
  <2> QED BY <1>4, <2>3, <2>4, <2>6, StayKeeps DEF StmtInv
<1> QED BY <1>5, <1>6

LEMMA AnsweredInv ==
  ASSUME Base, StmtInv, Answered, Watch
  PROVE  Base' /\ StmtInv'
<1>1. Base'
  BY SameKeeps DEF Answered, StmtOnly
<1>2. StmtIdle'
  BY DEF Answered, Watch, StmtIdle
<1> QED BY <1>1, <1>2, IdleNext

\* Where a statement may begin: all the rows it sees are ahead.
Ready(it) ==
  /\ it \in Iters /\ (it.page = 1 => grids[0].next = 1)
  /\ mitor_is_valid(it) => Sees(it)
  /\ \A p \in Pages : \A i \in 1 .. Size(p) : Seen(p, i) /\ OnTheWay(p) => Ahead(it, p, i)

LEMMA InitReady ==
  ASSUME Base, Size(0) > 0
  PROVE  Ready(titor_init(0))
<1> DEFINE first == [page |-> 0, row |-> 1]
<1>1. first \in Iters /\ mitor_is_valid(first)
  <2>1. first \in Iters
    BY PagesAre DEF Iters
  <2>2. Size(0) \in Nat
    BY FactsHold, PagesAre DEF Facts
  <2> QED BY <2>1, <2>2, FactsHold, PagesAre DEF Facts
<1>2. \A p \in Pages : \A i \in 1 .. Size(p) :
        OnTheWay(p) => (p = 0 /\ i >= 1) \/ p = grids[0].next
  BY PagesAre DEF OnTheWay
<1>3. CASE Sees(first)
  <2>1. titor_init(0) = first
    BY <1>3 DEF titor_init
  <2>2. \A p \in Pages : \A i \in 1 .. Size(p) : OnTheWay(p) => Ahead(first, p, i)
    BY <1>1, <1>2 DEF Ahead
  <2> QED BY <1>1, <1>3, <2>1, <2>2, PagesAre DEF Ready
<1>4. CASE ~Sees(first)
  <2>1. PICK d : d = titor_next(first)
    OBVIOUS
  <2>2. titor_init(0) = d
    BY <1>4, <2>1 DEF titor_init
  <2>3. NextRow(first, d)
    BY <1>1, <2>1, NextIs DEF Base
  <2>4. ~Seen(0, 1)
    BY <1>1, <1>4, FactsHold DEF Facts
  <2>5. \A p \in Pages : \A i \in 1 .. Size(p) :
          Seen(p, i) /\ OnTheWay(p) => Behind(first, p, i)
    BY <1>2, <2>4 DEF Behind
  <2>6. d.page = 1 => grids[0].next = 1
    BY <2>3, PagesAre DEF NextRow
  <2> QED BY <2>2, <2>3, <2>5, <2>6 DEF Ready, NextRow
<1> QED BY <1>3, <1>4

LEMMA EmptyReady ==
  ASSUME Base, \A p \in Pages : Size(p) = 0, NEW it \in Iters, it.page # 1
  PROVE  Ready(it)
BY FactsHold DEF Facts, Ready

Started(kind, where, it) ==
  [pc |-> IF where THEN "loop" ELSE "rows", kind |-> kind, where |-> where, cmd |-> it,
   bc |-> it, more |-> FALSE, hit |-> FALSE, done |-> <<>>, parted |-> FALSE]

LEMMA StartedTypes ==
  ASSUME Base, StmtOnly, Watch, stmt = Idle, NEW it, Ready(it),
         NEW kind \in {"select", "delete"}, NEW where \in BOOLEAN,
         stmt' = Started(kind, where, it)
  PROVE  /\ StmtTypes' /\ Base' /\ Running'
         /\ watch' = [ever |-> Wanted', always |-> Wanted', quiet |-> TRUE, displaced |-> FALSE]
<1>1. Base'
  BY SameKeeps DEF StmtOnly
<1>2. /\ stmt'.pc = (IF where THEN "loop" ELSE "rows") /\ stmt'.kind = kind
      /\ stmt'.where = where /\ stmt'.cmd = it
  BY DEF Started
<1>3. stmt' # Idle
  BY <1>2 DEF Idle
<1>4. watch' = [ever |-> Wanted', always |-> Wanted', quiet |-> TRUE, displaced |-> FALSE]
  BY <1>3 DEF Watch, NoWatch
<1>5. Wanted' \subseteq Nat
  BY <1>1, FactsNext DEF Facts
<1>6. watch' \in Watches
  BY <1>4, <1>5 DEF Watches
<1>7. stmt' \in Stmts
  <2>1. <<>> \in Seq(1 .. MaxRows)
    OBVIOUS
  <2> QED BY <2>1 DEF Started, Stmts, Steps, Ready
<1>8. stmt'.cmd.page = 1 => grids'[0].next = 1
  BY <1>2 DEF Ready, StmtOnly
<1> QED BY <1>1, <1>2, <1>4, <1>6, <1>7, <1>8 DEF StmtTypes, Running

LEMMA StartedInv ==
  ASSUME Base, StmtOnly, Watch, stmt = Idle, NEW it, Ready(it),
         NEW kind \in {"select", "delete"}, NEW where \in BOOLEAN,
         stmt' = Started(kind, where, it)
  PROVE  StmtInv'
<1>1. /\ StmtTypes' /\ Base' /\ Running'
      /\ watch' = [ever |-> Wanted', always |-> Wanted', quiet |-> TRUE, displaced |-> FALSE]
  BY StartedTypes
<1>2. /\ stmt'.pc \in {"loop", "rows"} /\ stmt'.where = where /\ stmt'.cmd = it /\ stmt'.bc = it
      /\ stmt'.done = <<>> /\ stmt'.parted = FALSE
  BY DEF Started
<1>3. Done' = {}
  BY <1>2 DEF Done
<1>4. DoneBehind'
  BY <1>2 DEF DoneBehind, OnceInOrder
<1>5. Together'
  BY <1>2 DEF Together, InStep
<1>6. /\ \A p \in Pages : Size(p)' = Size(p)
      /\ \A p \in Pages : \A i \in 1 .. Size(p) : /\ Seen(p, i)' = Seen(p, i)
                                                  /\ OnTheWay(p)' = OnTheWay(p)
                                                  /\ Ahead(stmt.cmd, p, i)' = Ahead(it, p, i)
  BY <1>2 DEF StmtOnly, Size, Row, Seen, OnTheWay, tran_row_is_visible, Ahead, mitor_is_valid
<1>7. ToDo'
  <2> SUFFICES ASSUME NEW x \in Wanted'
               PROVE  \E p \in Pages : \E i \in 1 .. Size(p)' :
                        Id(p, i)' = x /\ Fits(p, i)' /\ Ahead(stmt.cmd, p, i)'
    BY <1>1 DEF ToDo
  <2>1. PICK p \in Pages : \E i \in 1 .. Size(p)' : Id(p, i)' = x /\ Fits(p, i)'
    BY <1>1, FactsNext DEF Facts
  <2>2. PICK i \in 1 .. Size(p)' : Id(p, i)' = x /\ Fits(p, i)'
    BY <2>1
  <2>3. i \in 1 .. Size(p) /\ Seen(p, i) /\ OnTheWay(p)
    BY <1>6, <2>2 DEF Fits
  <2>4. Ahead(it, p, i)
    BY <2>3 DEF Ready
  <2> QED BY <1>6, <2>2, <2>3, <2>4
<1>8. mitor_is_valid(stmt.cmd)' /\ (RowAt(stmt.cmd)'.hit \/ ~stmt'.where)
        => RowAt(stmt.cmd)'.id \in watch'.ever
  <2> SUFFICES ASSUME mitor_is_valid(stmt.cmd)', RowAt(stmt.cmd)'.hit \/ ~stmt'.where
               PROVE  RowAt(stmt.cmd)'.id \in Wanted'
    BY <1>1
  <2>1. it \in Iters /\ mitor_is_valid(it)
    BY <1>2 DEF mitor_is_valid, Ready, StmtOnly
  <2>2. it.page \in Pages /\ it.row \in 1 .. Size(it.page) /\ Seen(it.page, it.row)
    BY <2>1, FactsHold DEF Ready, Facts
  <2>3. OnTheWay(it.page)
    BY <2>2, PagesAre DEF Ready, OnTheWay
  <2>4. RowAt(stmt.cmd)' = Row(it.page, it.row)'
    BY <1>1, <1>2, <2>1, FactsNext DEF Facts
  <2>5. /\ Id(it.page, it.row)' = RowAt(stmt.cmd)'.id /\ Hit(it.page, it.row)' = RowAt(stmt.cmd)'.hit
        /\ it.row \in 1 .. Size(it.page)' /\ Seen(it.page, it.row)' /\ OnTheWay(it.page)'
    BY <1>6, <2>2, <2>3, <2>4 DEF Id, Hit
  <2>6. Fits(it.page, it.row)'
    BY <2>5 DEF Fits
  <2> QED BY <1>1, <2>2, <2>5, <2>6, FactsNext DEF Facts
<1>9. Watched'
  <2>1. OnTrack'
    BY <1>2, <1>7, <1>8 DEF OnTrack
  <2>2. StatementRight'
    BY <1>2, <1>3 DEF StatementRight, OnlyWanted, NothingMissed, FailsOverNothing
  <2> QED BY <1>1, <2>1, <2>2 DEF Watched
<1> QED BY <1>1, <1>4, <1>5, <1>9 DEF StmtInv

LEMMA DiedInv ==
  ASSUME Base, StmtOnly, Watch, stmt = Idle, stmt' = [Idle EXCEPT !.pc = "died"]
  PROVE  StmtInv'
<1>1. Base'
  BY SameKeeps DEF StmtOnly
<1>2. /\ stmt'.pc = "died" /\ stmt'.where = FALSE /\ stmt'.cmd = Invalid
      /\ stmt'.done = <<>> /\ stmt'.parted = FALSE
  BY DEF Idle
<1>3. stmt' # Idle
  BY <1>2 DEF Idle
<1>4. watch' = [ever |-> Wanted', always |-> Wanted', quiet |-> TRUE, displaced |-> FALSE]
  BY <1>3 DEF Watch, NoWatch
<1>5. Wanted' \subseteq Nat
  BY <1>1, FactsNext DEF Facts
<1>6. watch' \in Watches
  BY <1>4, <1>5 DEF Watches
<1>7. stmt' \in Stmts
  <2>1. <<>> \in Seq(1 .. MaxRows) /\ Invalid \in Iters
    BY PagesAre DEF Invalid, Iters
  <2> QED BY <2>1 DEF Idle, Stmts, Steps
<1>8. StmtTypes'
  BY <1>2, <1>6, <1>7, PagesAre DEF StmtTypes, Running, Invalid
<1>9. DoneBehind' /\ Together'
  BY <1>2 DEF DoneBehind, OnceInOrder, Together, InStep
<1>10. Watched'
  BY <1>2 DEF Watched, Running, StatementRight, OnlyWanted, NothingMissed, FailsOverNothing, Done
<1> QED BY <1>8, <1>9, <1>10 DEF StmtInv

LEMMA BeginsInv ==
  ASSUME Base, StmtInv, NEW kind \in {"select", "delete"}, NEW where \in BOOLEAN,
         Begins(kind, where), Watch
  PROVE  Base' /\ StmtInv'
<1>1. stmt = Idle /\ StmtOnly
  BY DEF Begins, StmtInv, StmtTypes
<1>2. Base'
  BY <1>1, SameKeeps DEF StmtOnly
<1>3. \A it : Start(kind, where, it) = Started(kind, where, it)
  <2> TAKE it
  <2> DEFINE go == IF where THEN "loop" ELSE "rows"
  <2>1. Start(kind, where, it) = [Idle EXCEPT !.pc = go, !.kind = kind, !.where = where,
                                              !.cmd = it, !.bc = it]
    BY DEF Start
  <2>2. Started(kind, where, it) =
          [pc |-> go, kind |-> kind, where |-> where, cmd |-> it, bc |-> it, more |-> FALSE,
           hit |-> FALSE, done |-> <<>>, parted |-> FALSE]
    BY DEF Started
  <2> HIDE DEF go
  <2> QED BY <2>1, <2>2 DEF Idle
<1>4. ASSUME NEW it, Ready(it), stmt' = Started(kind, where, it)
      PROVE  StmtInv'
  BY <1>1, <1>4, StartedInv
<1>5. Size(0) \in Nat /\ Size(1) \in Nat /\ rel.data \in {0, NoPage}
  BY FactsHold, PagesAre DEF Facts, Base, TableTypes
<1>6. CASE rel.data = NoPage
  <2>1. stmt' = Started(kind, where, Invalid)
    BY <1>3, <1>6 DEF Begins
  <2>2. Invalid \in Iters /\ Invalid.page # 1
    BY PagesAre DEF Invalid, Iters
  <2>3. \A p \in Pages : Size(p) = 0
    BY <1>6 DEF Base, Shape, EmptyGrid, Size
  <2> QED BY <1>2, <1>4, <2>1, <2>2, <2>3, EmptyReady
<1>7. CASE rel.data = 0 /\ grids[0].rows # <<>>
  <2>1. stmt' = Started(kind, where, titor_init(0))
    BY <1>3, <1>7, PagesAre DEF Begins
  <2>2. Size(0) > 0
    <3>1. grids[0].rows \in Seq(Rows)
      BY PagesAre DEF Base, TableTypes, Grids
    <3> QED BY <3>1, <1>7 DEF Size
  <2> QED BY <1>2, <1>4, <2>1, <2>2, InitReady
<1>8. CASE rel.data = 0 /\ grids[0].rows = <<>>
  <2>1. \/ stmt' = Started(kind, where, [page |-> 0, row |-> 1])
        \/ stmt' = [Idle EXCEPT !.pc = "died"]
    BY <1>3, <1>8, PagesAre DEF Begins
  <2>2. CASE stmt' = Started(kind, where, [page |-> 0, row |-> 1])
    <3>1. [page |-> 0, row |-> 1] \in Iters
      BY PagesAre DEF Iters
    <3>2. \A p \in Pages : Size(p) = 0
      <4>1. Size(0) = 0
        BY <1>8 DEF Size
      <4> QED BY <4>1, <1>5, PagesAre DEF Base, Shape
    <3> QED BY <1>2, <1>4, <2>2, <3>1, <3>2, EmptyReady
  <2>3. CASE stmt' = [Idle EXCEPT !.pc = "died"]
    BY <1>1, <1>2, <2>3, DiedInv
  <2> QED BY <2>1, <2>2, <2>3
<1> QED BY <1>5, <1>6, <1>7, <1>8

-----------------------------------------------------------------------------
(* The theorems.                                                           *)

LEMMA TableInvIs == TableInv <=> Base /\ StmtInv
BY DEF TableInv, Base, StmtInv

LEMMA TableInvNext == TableInv' <=> Base' /\ StmtInv'
BY TableInvIs, PTL

LEMMA TableStart == TableInit => TableInv
<1>1. TableInit => StmtIdle
  BY DEF TableInit, StmtIdle
<1> QED BY <1>1, InitBase, IdleInv, TableInvIs

LEMMA AroundInv ==
  ASSUME Base, StmtInv, ~Ended, Around, Watch
  PROVE  Base' /\ StmtInv'
<1>1. Base' /\ (stmt' = Idle \/ (stmt' = stmt /\ Steady))
  BY AroundIs
<1>2. CASE stmt' = Idle
  <2>1. StmtIdle'
    BY <1>2 DEF Watch, StmtIdle
  <2> QED BY <1>1, <2>1, IdleNext
<1>3. CASE stmt' # Idle /\ stmt' = stmt
  <2>1. Watching
    BY <1>3 DEF Watch, Watching
  <2>2. Running
    <3>1. stmt.pc \in Steps /\ stmt.pc # "idle"
      BY <1>3 DEF StmtInv, StmtTypes, Stmts
    <3> QED BY <3>1 DEF Steps, Ended, Running
  <2>3. StmtTypes' /\ DoneBehind' /\ Together' /\ Watched'
    BY <1>1, <1>3, <2>1, <2>2, AroundTypes, AroundDone, AroundTogether, AroundWatched
  <2> QED BY <1>1, <2>3 DEF StmtInv
<1> QED BY <1>1, <1>2, <1>3

LEMMA TableStep ==
  ASSUME TableInv, [TableNext]_tablevars
  PROVE  TableInv'
<1>1. Base /\ StmtInv
  BY TableInvIs
<1>2. CASE TableNext
  <2>1. Watch
    BY <1>2 DEF TableNext
  <2>2. ASSUME NEW kind \in {"select", "delete"}, NEW where \in BOOLEAN, Begins(kind, where)
        PROVE  TableInv'
    BY <1>1, <2>1, <2>2, BeginsInv, TableInvNext
  <2>3. CASE EveryRow
    BY <1>1, <2>1, <2>3, EveryRowInv, TableInvNext
  <2>4. CASE LoopBegin
    BY <1>1, <2>1, <2>4, LoopBeginInv, TableInvNext
  <2>5. CASE Evaluate
    BY <1>1, <2>1, <2>5, EvaluateInv, TableInvNext
  <2>6. CASE LoopEnd
    BY <1>1, <2>1, <2>6, LoopEndInv, TableInvNext
  <2>7. CASE Apply
    BY <1>1, <2>1, <2>7, ApplyInv, TableInvNext
  <2>8. CASE Answered
    BY <1>1, <2>1, <2>8, AnsweredInv, TableInvNext
  <2>9. CASE ~Ended /\ Around
    BY <1>1, <2>1, <2>9, AroundInv, TableInvNext
  <2> QED BY <1>2, <2>2, <2>3, <2>4, <2>5, <2>6, <2>7, <2>8, <2>9 DEF TableNext, Statement
<1>3. CASE UNCHANGED tablevars
  <2>1. /\ UNCHANGED <<rel, grids, saved, committed, inserting, number, wiped, cut, hollow, crashes>>
        /\ stmt' = stmt /\ watch' = watch
    BY <1>3 DEF tablevars
  <2>2. TableTypes' /\ Shape' /\ Ordered' /\ Kept' /\ FirstRowThere'
    BY <2>1, <1>1, SameKeeps DEF Base
  <2>3. StmtTypes' /\ DoneBehind'
    BY <2>1 DEF TableInv, StmtTypes, DoneBehind, OnceInOrder, Size, Id, Row, Running
  <2>4. titor_next(stmt.cmd)' = titor_next(stmt.cmd)
    BY <2>1, SameNext
  <2>5. Together'
    BY <2>1, <2>4 DEF TableInv, Together, InStep
  <2>6. Wanted' = Wanted /\ Done' = Done
    BY <2>1 DEF Wanted, Done, Sees, mitor_is_valid, RowAt, tran_row_is_visible
  <2>7. OnTrack => OnTrack'
    <3>1. \A p, i : Fits(p, i)' = Fits(p, i) /\ Id(p, i)' = Id(p, i) /\ Size(p)' = Size(p)
      BY <2>1 DEF Fits, Seen, Hit, OnTheWay, Row, Id, Size, tran_row_is_visible
    <3>2. \A p, i : Ahead(stmt.cmd, p, i)' = Ahead(stmt.cmd, p, i)
      BY <2>1 DEF Ahead, mitor_is_valid
    <3>3. ToDo => ToDo'
      <4> SUFFICES ASSUME ToDo, NEW x \in watch'.always \ Done'
                   PROVE  \E p \in Pages : \E i \in 1 .. Size(p)' :
                            Id(p, i)' = x /\ Fits(p, i)' /\ Ahead(stmt.cmd, p, i)'
        BY DEF ToDo
      <4>1. PICK p \in Pages : \E i \in 1 .. Size(p) :
                                Id(p, i) = x /\ Fits(p, i) /\ Ahead(stmt.cmd, p, i)
        BY <2>1, <2>6 DEF ToDo
      <4>2. PICK i \in 1 .. Size(p) : Id(p, i) = x /\ Fits(p, i) /\ Ahead(stmt.cmd, p, i)
        BY <4>1
      <4> QED BY <3>1, <3>2, <4>2
    <3>4. /\ mitor_is_valid(stmt.cmd)' = mitor_is_valid(stmt.cmd)
          /\ mitor_is_valid(stmt.bc)' = mitor_is_valid(stmt.bc)
          /\ RowAt(stmt.cmd)' = RowAt(stmt.cmd)
      BY <2>1 DEF mitor_is_valid, RowAt
    <3> QED BY <2>1, <3>3, <3>4 DEF OnTrack
  <2>8. Watched'
    BY <2>1, <2>6, <2>7 DEF TableInv, Watched, StatementRight, OnlyWanted, NothingMissed,
       FailsOverNothing, Astray, Running
  <2> QED BY <2>2, <2>3, <2>5, <2>8 DEF TableInv
<1> QED BY <1>2, <1>3

LEMMA TableAlways == TableSpec => []TableInv
<1>1. TableInit => TableInv
  BY TableStart
<1>2. TableInv /\ [TableNext]_tablevars => TableInv'
  BY TableStep
<1> QED BY <1>1, <1>2, PTL DEF TableSpec

LEMMA InvTypes == TableInv => TableTypeOK
<1> SUFFICES ASSUME TableInv PROVE TableTypeOK
  OBVIOUS
<1>1. Base /\ StmtInv
  BY TableInvIs
<1>2. /\ rel \in [data : {0, NoPage}, tail : {0, NoPage}]
      /\ inserting \subseteq Trans /\ number \in 0 .. MaxRows
  BY <1>1, FactsHold DEF Base, TableTypes, Facts
<1>3. {stmt.cmd, stmt.bc} \subseteq Iters
  BY <1>1 DEF StmtInv, StmtTypes, Stmts
<1>4. Running => watch.always \subseteq watch.ever
  BY <1>1 DEF StmtInv, StmtTypes
<1>5. ASSUME NEW m \in {grids, saved}, NEW p \in Pages
      PROVE  m[p].rows \in Seq(Rows) /\ Len(m[p].rows) <= RowsPerPage /\ m[p].next \in {1, NoPage}
  <2>1. grids[p] \in Grids /\ saved[p] \in Grids
    BY <1>1 DEF Base, TableTypes
  <2>2. saved[p].rows = grids[p].rows /\ Len(grids[p].rows) <= RowsPerPage
    BY <1>1 DEF Base, Shape, Size
  <2> QED BY <2>1, <2>2 DEF Grids
<1> QED BY <1>2, <1>3, <1>4, <1>5 DEF TableTypeOK, Rows, Iters

\* mesh.c, dml.c: a row whose INSERT was answered OK is found from the first page
\* on, but for a page that a later INSERT has initialised once more and for one
\* that a crash has cut off.
THEOREM TableRowsKept == TableSpec => []RowsKept
<1>1. TableInv => RowsKept
  BY InvTypes DEF TableInv, Kept, RowsKept
<1> QED BY <1>1, TableAlways, PTL

\* find_relation, insert: a table that has a data page has a row on it, unless the
\* INSERT that made the page is under way or was cut short.
THEOREM TableFirstRowThere == TableSpec => []FirstRowThere
<1>1. TableInv => FirstRowThere
  BY DEF TableInv
<1> QED BY <1>1, TableAlways, PTL

\* titor_next: no row is sent or deleted twice or out of order, whatever others do.
THEOREM TableOnceInOrder == TableSpec => []OnceInOrder
<1>1. TableInv => OnceInOrder
  BY DEF TableInv, DoneBehind
<1> QED BY <1>1, TableAlways, PTL

\* y2lex, delete_where_line, select_where_line: the two iterators of a WHERE stay
\* in step while no other worker changes the table or commits.
THEOREM TableInStep == TableSpec => []InStep
<1>1. TableInv => InStep
  BY DEF TableInv, Together
<1> QED BY <1>1, TableAlways, PTL

\* dml_select, dml_delete, y2lex: a statement comes to the rows it is about and, in
\* the end, to all of them, and fails over no row only, as long as its iterators are
\* in step and on the rows they were led to.
THEOREM TableStatementRight == TableSpec => []StatementRight
<1>1. TableInv => StatementRight
  BY DEF TableInv, Watched
<1> QED BY <1>1, TableAlways, PTL
=============================================================================
