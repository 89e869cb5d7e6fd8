-------------------------------- MODULE Table --------------------------------
(***************************************************************************)
(* A table: grids of rows (grid.c) linked into a mesh (mesh.c), read       *)
(* through iterators that pass over the rows a transaction does not see    *)
(* (table.c), and the statements that do so: INSERT, and SELECT and DELETE *)
(* with and without WHERE (dml.c, execute.y).  The loop of a WHERE is made *)
(* by y2lex (bc.c), which counts the rounds on an iterator of its own.     *)
(*                                                                         *)
(* One worker, in transaction Me, runs SELECT and DELETE row by row; the   *)
(* workers of the other transactions change the table between its steps.   *)
(* Pages are what PageCache shows of them: a content in memory, shared by  *)
(* all workers, and one on disk.  What Tran follows step by step, the ids  *)
(* and flags of transactions and the filling of a row, is one step here.   *)
(*                                                                         *)
(* An iterator keeps pointers into frames, here the number of a page: the  *)
(* page it is on is taken to stay in its frame between two steps.          *)
(* PageCache tells for how many further puts it does.                      *)
(*                                                                         *)
(* insert starts at the tail the relation table names, and nothing changes *)
(* that after the first page was made: Pages are the first page and the    *)
(* one after it.  The build is one without assertions.                     *)
(***************************************************************************)
EXTENDS Integers, Sequences, FiniteSets

CONSTANTS RowsPerPage,   \* rown of the grids
          Me, Others,    \* transaction ids
          MaxRows,       \* bound: rows inserted and restarts in a run
          MaxCrashes     \* bound: restarts of the server

ASSUME TableAssumption ==
  /\ RowsPerPage \in Nat \ {0} /\ MaxRows \in Nat /\ MaxCrashes \in Nat
  /\ Others \subseteq Nat \ {0} /\ Me \in (Nat \ {0}) \ Others

Pages == {0, 1}
NoPage == -1                \* GID_UNDEF, as a page
TRAN_INVALID_ID == 0
OLD == -1                   \* the transactions that a crash has ended, all in one
Trans == Others \cup {Me}

VARIABLES
  rel,         \* the table's row in the relation table: data_gid, tail_gid
  grids, saved,   \* for every page its rows and its next page
  committed,   \* the transactions whose flag is TF_COMMITED
  inserting,   \* the transactions inside an INSERT, past find_relation
  stmt,        \* the SELECT or DELETE of Me's worker
  number,      \* INSERTs answered OK so far: the id of a row is its number
  wiped,       \* the rows on a page that was initialised once more
  cut,         \* the rows on a page whose link a crash has undone
  hollow,      \* an INSERT failed, or a crash came, between making the first page
               \* and filling its first row
  watch,       \* of the running statement, see Watch
  crashes

tablevars == <<rel, grids, saved, committed, inserting, stmt, number, wiped, cut,
          hollow, watch, crashes>>

EmptyGrid == [rows |-> <<>>, next |-> NoPage]
Ids(grid) == {grid.rows[i].id : i \in DOMAIN grid.rows}
Invalid == [page |-> NoPage, row |-> 1]

Idle == [pc |-> "idle", kind |-> "none", where |-> FALSE, cmd |-> Invalid,
         bc |-> Invalid, more |-> FALSE, hit |-> FALSE, done |-> <<>>,
         parted |-> FALSE]

Running == stmt.pc \in {"rows", "loop", "eval", "end", "apply"}
Ended == stmt.pc \in {"ok", "failed", "died"}
NoWatch == [ever |-> {}, always |-> {}, quiet |-> TRUE, displaced |-> FALSE]

TableInit ==
  /\ rel = [data |-> NoPage, tail |-> NoPage]
  /\ grids = [p \in Pages |-> EmptyGrid] /\ saved = grids
  /\ committed \in {{}, {Me}}     \* an autocommitting transaction, or not
  /\ inserting = {} /\ stmt = Idle
  /\ number = 0 /\ wiped = {} /\ cut = {}
  /\ hollow = FALSE /\ crashes = 0
  /\ watch = NoWatch

-----------------------------------------------------------------------------
(* Iterators.  The rows of a page are numbered from 1.                     *)

mitor_is_valid(it) == it.page # NoPage /\ it.row <= Len(grids[it.page].rows)
RowAt(it) == grids[it.page].rows[it.row]

tran_row_is_visible(t, r) ==
  IF t = r.tmin THEN t # r.tmax
  ELSE IF t = r.tmax THEN FALSE
  ELSE r.tmin \in committed /\ r.tmax \notin committed

\* At the end of the last page an iterator stays behind the last row, where the
\* next row that is inserted makes it valid again.
mitor_next(it) ==
  IF ~mitor_is_valid(it) THEN it
  ELSE IF it.row < Len(grids[it.page].rows) \/ grids[it.page].next = NoPage
       THEN [it EXCEPT !.row = @ + 1]
  ELSE [page |-> grids[it.page].next, row |-> 1]

Positions == {[page |-> p, row |-> i] : p \in Pages, i \in 1 .. RowsPerPage}
Sees(it) == mitor_is_valid(it) /\ tran_row_is_visible(Me, RowAt(it))

\* The positions that mitor_next leads to from `it`, first on its page and then on
\* the next, and where it comes to a halt.
Onward(it) == {at \in Positions : \/ at.page = it.page /\ at.row > it.row
                                  \/ at.page = grids[it.page].next}
Comes(at, to) == at.page < to.page \/ (at.page = to.page /\ at.row <= to.row)
Halt(it) == LET next == grids[it.page].next
                last == IF next = NoPage THEN it.page ELSE next
            IN  [page |-> last, row |-> Len(grids[last].rows) + 1]

\* The loop of titor_next ends at the first row that is seen, or at the halt.
FirstSeen(it) ==
  LET seen == {at \in Onward(it) : Sees(at)}
  IN  IF seen = {} THEN Halt(it)
      ELSE CHOOSE at \in seen : \A other \in seen : Comes(at, other)

titor_next(it) ==
  LET n == mitor_next(it)
  IN  IF mitor_is_valid(n) /\ ~Sees(n) THEN FirstSeen(n) ELSE n

\* Mutant: the first row is not asked for.
titor_init_blind(page) == [page |-> page, row |-> 1]

\* titor_init, on a page that has a row.
titor_init(page) ==
  LET first == [page |-> page, row |-> 1]
  IN  IF Sees(first) THEN first ELSE titor_next(first)

-----------------------------------------------------------------------------
(* INSERT.                                                                 *)

Reachable(pages) ==
  Ids(pages[0]) \cup (IF pages[0].next = NoPage THEN {} ELSE Ids(pages[pages[0].next]))

\* find_relation with create_if_data_undef.
InsertBegins(t) ==
  /\ t \notin inserting /\ number + Cardinality(inserting) + crashes < MaxRows
  /\ t = Me => stmt.pc = "idle"
  /\ t \in Others => t \notin committed
  /\ inserting' = inserting \cup {t}
  /\ IF rel.data = NoPage
     THEN /\ rel' = [data |-> 0, tail |-> 0]
          /\ grids' = [grids EXCEPT ![0] = EmptyGrid]
          /\ saved' = [saved EXCEPT ![0] = EmptyGrid]
     ELSE UNCHANGED <<rel, grids, saved>>
  /\ UNCHANGED <<committed, stmt, number, wiped, cut, hollow, crashes>>

\* insert returns early: unknown column, no transaction id, no memory.
InsertRefused(t) ==
  /\ t \in inserting
  /\ inserting' = inserting \ {t}
  /\ hollow' = (hollow \/ grids[rel.data].rows = <<>>)
  /\ UNCHANGED <<rel, grids, saved, committed, stmt, number, wiped, cut, crashes>>

Full(page) == Len(grids[page].rows) = RowsPerPage
NewRow(t, hit) == [id |-> number + 1, hit |-> hit, tmin |-> t, tmax |-> TRAN_INVALID_ID]

\* Mutant: the new page is not linked to the one before.
mesh_alloc_row_apart(r) ==
  IF ~Full(rel.tail)
  THEN [page |-> rel.tail, grids |-> [grids EXCEPT ![rel.tail].rows = Append(@, r)]]
  ELSE [page |-> rel.tail + 1,
        grids |-> [grids EXCEPT ![rel.tail + 1] = [EmptyGrid EXCEPT !.rows = <<r>>]]]

\* mesh_alloc_row and the row that insert puts there.  A full tail is followed by
\* the page with the next number, which is initialised whatever it holds.  The
\* assertion that the tail has no next page is TailIsTail.
mesh_alloc_row(r) ==
  IF ~Full(rel.tail)
  THEN [page |-> rel.tail, grids |-> [grids EXCEPT ![rel.tail].rows = Append(@, r)]]
  ELSE [page |-> rel.tail + 1,
        grids |-> [grids EXCEPT ![rel.tail + 1] = [EmptyGrid EXCEPT !.rows = <<r>>],
                            ![rel.tail].next = rel.tail + 1]]

\* The page of the new row is flushed, not the one that links to it.
InsertRow(t, hit) ==
  LET new == mesh_alloc_row(NewRow(t, hit))
  IN  /\ t \in inserting
      /\ inserting' = inserting \ {t}
      /\ grids' = new.grids
      /\ saved' = [saved EXCEPT ![new.page] = grids'[new.page]]
      /\ number' = number + 1
      /\ wiped' = wiped \cup (Ids(grids[new.page]) \ Ids(grids'[new.page]))
      /\ UNCHANGED <<rel, committed, stmt, cut, hollow, crashes>>

-----------------------------------------------------------------------------
(* The other workers.                                                      *)

\* Mutant: the row is taken out of the grid, as from one without transactions.
DeleteAt_pure(t, it) ==
  /\ grids' = [grids EXCEPT ![it.page].rows =
                  SubSeq(@, 1, it.row - 1) \o SubSeq(@, it.row + 1, Len(@))]
  /\ saved' = [saved EXCEPT ![it.page] = grids'[it.page]]

\* dml_delete_row: *tmax is set and the page flushed.
DeleteAt(t, it) == /\ grids' = [grids EXCEPT ![it.page].rows[it.row].tmax = t]
                   /\ saved' = [saved EXCEPT ![it.page] = grids'[it.page]]

OtherDeletes(t) ==
  /\ t \notin committed
  /\ \E it \in Positions : /\ mitor_is_valid(it) /\ tran_row_is_visible(t, RowAt(it))
                           /\ RowAt(it).id \in Reachable(grids)
                           /\ DeleteAt(t, it)
  /\ UNCHANGED <<rel, committed, inserting, stmt, number, wiped, cut, hollow, crashes>>

Commit(t) ==
  /\ t \notin committed \cup inserting
  /\ committed' = committed \cup {t}
  /\ UNCHANGED <<rel, grids, saved, inserting, stmt, number, wiped, cut, hollow, crashes>>

\* What a crash leaves of a transaction: its flag.  The ids of Me and Others are
\* those of new transactions from then on.
Past(t) == IF t \in committed \cup {TRAN_INVALID_ID} THEN t ELSE OLD
PastRow(r) == [r EXCEPT !.tmin = Past(@), !.tmax = Past(@)]

\* The server is killed and started again.  On disk are also the pages that the
\* cache has evicted since they were last changed.
Crash ==
  /\ crashes < MaxCrashes /\ crashes' = crashes + 1
  /\ number + Cardinality(inserting) + crashes < MaxRows
  /\ \E evicted \in SUBSET Pages :
       saved' = [p \in Pages |->
                  LET grid == IF p \in evicted THEN grids[p] ELSE saved[p]
                  IN  [grid EXCEPT !.rows = [i \in DOMAIN @ |-> PastRow(@[i])]]]
  /\ grids' = saved'
  /\ cut' = cut \cup (Reachable(grids) \ Reachable(saved'))
  /\ hollow' = (hollow \/ (rel.data # NoPage /\ saved[rel.data].rows = <<>>))
  /\ inserting' = {} /\ stmt' = Idle
  /\ UNCHANGED <<rel, committed, number, wiped>>

-----------------------------------------------------------------------------
(* SELECT and DELETE.                                                      *)

StmtOnly == UNCHANGED <<rel, grids, saved, committed, inserting, number, wiped, cut,
                        hollow, crashes>>

Start(kind, where, it) ==
  [Idle EXCEPT !.pc = IF where THEN "loop" ELSE "rows", !.kind = kind, !.where = where,
               !.cmd = it, !.bc = it]

\* dml_select, dml_delete: both iterators stand on the first visible row.  On a
\* page without rows titor_init reads through a null pointer, or not, as the
\* compiler has ordered it.
Begins(kind, where) ==
  /\ stmt.pc = "idle" /\ Me \notin inserting
  /\ IF rel.data = NoPage THEN stmt' = Start(kind, where, Invalid)
     ELSE IF grids[rel.data].rows # <<>> THEN stmt' = Start(kind, where, titor_init(rel.data))
     ELSE stmt' \in {Start(kind, where, [page |-> rel.data, row |-> 1]),
                     [Idle EXCEPT !.pc = "died"]}
  /\ StmtOnly

\* What the statement does to a row: it is sent, or its *tmax set.
Do(it) == IF stmt.kind = "delete" THEN DeleteAt(Me, it) ELSE UNCHANGED <<grids, saved>>
DoneWith(it) == Append(stmt.done, RowAt(it).id)
DoOnly == UNCHANGED <<rel, committed, inserting, number, wiped, cut, hollow, crashes>>

\* delete_mb_where and select_mb_where without WHERE, one round of the loop.
EveryRow ==
  /\ stmt.pc = "rows"
  /\ IF mitor_is_valid(stmt.cmd)
     THEN /\ Do(stmt.cmd)
          /\ stmt' = [stmt EXCEPT !.done = DoneWith(stmt.cmd), !.cmd = titor_next(@)]
     ELSE UNCHANGED <<grids, saved>> /\ stmt' = [stmt EXCEPT !.pc = "ok"]
  /\ DoOnly

\* y2lex at LOOP_BEGIN.  Behind the loop is the end of the bytecode, where the
\* grammar still wants an expression.
LoopBegin == /\ stmt.pc = "loop"
             /\ stmt' = [stmt EXCEPT !.pc = IF mitor_is_valid(stmt.bc) THEN "eval"
                                          ELSE "failed"]
             /\ StmtOnly

\* value: the columns of the row cmd->titor is on.  Without a row a name stays a
\* name, which compares with nothing; a condition that names no column holds or
\* not as before.
Evaluate == /\ stmt.pc = "eval"
            /\ \/ stmt' = IF mitor_is_valid(stmt.cmd)
                          THEN [stmt EXCEPT !.pc = "end", !.hit = RowAt(stmt.cmd).hit]
                          ELSE [stmt EXCEPT !.pc = "failed"]
               \/ ~mitor_is_valid(stmt.cmd) /\ stmt' = [stmt EXCEPT !.pc = "end"]
            /\ StmtOnly

\* Mutant: the iterator of the loop goes by rows that are not visible.
LoopEnd_raw ==
  /\ stmt.pc = "end"
  /\ LET next == mitor_next(stmt.bc)
     IN  stmt' = [stmt EXCEPT !.pc = "apply", !.bc = next, !.more = mitor_is_valid(next)]
  /\ StmtOnly

\* y2lex at LOOP_END, which the parser asks for to see that the expression is
\* over, before it reduces the expression.
LoopEnd == /\ stmt.pc = "end"
           /\ LET next == titor_next(stmt.bc)
              IN  stmt' = [stmt EXCEPT !.pc = "apply", !.bc = next, !.more = mitor_is_valid(next)]
           /\ StmtOnly

\* Mutant: cmd->titor is not moved on.
Apply_again ==
  /\ stmt.pc = "apply"
  /\ LET rest == [stmt EXCEPT !.pc = IF stmt.more THEN "eval" ELSE "ok",
                              !.parted = @ \/ titor_next(stmt.cmd) # stmt.bc]
     IN IF mitor_is_valid(stmt.cmd) /\ stmt.hit
        THEN Do(stmt.cmd) /\ stmt' = [rest EXCEPT !.done = DoneWith(stmt.cmd)]
        ELSE UNCHANGED <<grids, saved>> /\ stmt' = rest
  /\ DoOnly

\* delete_where_line and select_where_line.
Apply ==
  /\ stmt.pc = "apply"
  /\ LET next == titor_next(stmt.cmd)
         rest == [stmt EXCEPT !.pc = IF stmt.more THEN "eval" ELSE "ok", !.cmd = next,
                              !.parted = @ \/ next # stmt.bc]
     IN IF mitor_is_valid(stmt.cmd) /\ stmt.hit
        THEN Do(stmt.cmd) /\ stmt' = [rest EXCEPT !.done = DoneWith(stmt.cmd)]
        ELSE UNCHANGED <<grids, saved>> /\ stmt' = rest
  /\ DoOnly

\* The worker is done with the statement.  Nobody else's step can tell whether it
\* came before this one.
Answered == Ended /\ stmt' = Idle /\ StmtOnly

Statement == \/ \E kind \in {"select", "delete"}, where \in BOOLEAN : Begins(kind, where)
             \/ EveryRow \/ LoopBegin \/ Evaluate \/ LoopEnd \/ Apply
             \/ Answered

Around == \/ \E t \in Trans : \/ InsertBegins(t) \/ InsertRefused(t)
                            \/ \E hit \in BOOLEAN : InsertRow(t, hit)
          \/ \E t \in Others : OtherDeletes(t) \/ Commit(t)
          \/ Crash

\* The rows that the statement is about, as the table is now.
Wanted ==
  {RowAt(it).id : it \in {at \in Positions :
     Sees(at) /\ RowAt(at).id \in Reachable(grids) /\ (RowAt(at).hit \/ ~stmt.where)}}

Done == {stmt.done[i] : i \in DOMAIN stmt.done}

\* An iterator at its end becomes valid again as a row is inserted behind it, or
\* the page it is on is initialised once more: it was not led to the row it is at.
Displaced(it) == /\ (mitor_is_valid(it))'
                 /\ mitor_is_valid(it) => RowAt(it).id # (RowAt(it).id)'

\* For the properties, of the statement that runs: the rows that were wanted at
\* some time and all the time, whether others have left the table alone, and
\* whether an iterator was displaced.
Watch ==
  watch' =
    IF stmt' = Idle THEN NoWatch
    ELSE IF stmt = Idle THEN [NoWatch EXCEPT !.ever = Wanted', !.always = Wanted']
    ELSE IF stmt' # stmt THEN watch
    ELSE [ever |-> watch.ever \cup Wanted', always |-> watch.always \cap (Wanted' \cup Done),
          quiet |-> watch.quiet /\ grids' = grids /\ committed' = committed,
          displaced |-> watch.displaced \/ Displaced(stmt.cmd) \/ Displaced(stmt.bc)]

TableNext == (Statement \/ (~Ended /\ Around)) /\ Watch

TableSpec == TableInit /\ [][TableNext]_tablevars

-----------------------------------------------------------------------------

TableTypeOK ==
  LET row == [id : 1 .. MaxRows, hit : BOOLEAN, tmin : Trans \cup {OLD},
              tmax : Trans \cup {TRAN_INVALID_ID, OLD}]
      it == [page : Pages \cup {NoPage}, row : 1 .. RowsPerPage + 1]
  IN  /\ rel \in [data : {0, NoPage}, tail : {0, NoPage}]
      /\ \A m \in {grids, saved}, p \in Pages :
           m[p].rows \in Seq(row) /\ Len(m[p].rows) <= RowsPerPage /\ m[p].next \in {1, NoPage}
      /\ inserting \subseteq Trans /\ number \in 0 .. MaxRows
      /\ {stmt.cmd, stmt.bc} \subseteq it
      /\ Running => watch.always \subseteq watch.ever

\* mesh.c, dml.c: a row whose INSERT was answered OK is found from the first page
\* on.  Lost are only the rows of a page that a later INSERT initialises once
\* more, and those a crash cuts off because their page was flushed and the link
\* to it was not.
RowsKept == TableTypeOK /\ (1 .. number) \ (wiped \cup cut) \subseteq Reachable(grids)

\* mesh.c:20, assert(data->next.full == GID_UNDEF).
TailIsTail == inserting # {} => grids[rel.tail].next = NoPage

\* A table that has a data page has a row in it, which titor_init reads, unless
\* the INSERT that made the page is still under way or was cut short.
FirstRowThere ==
  rel.data # NoPage /\ grids[rel.data].rows = <<>> => hollow \/ inserting # {}

\* No row is sent or deleted twice or out of order, whatever others do to the
\* table during the statement.
OnceInOrder == \A i, j \in DOMAIN stmt.done : i < j => stmt.done[i] < stmt.done[j]

\* bc.c, execute.y: the iterator of the loop and that of the row stay in step
\* while no other worker changes the table or commits.
InStep == stmt.parted => ~watch.quiet

Astray == stmt.parted \/ watch.displaced

\* table.c: while the iterators are in step and none is displaced, only rows are
\* sent or deleted that fulfil the condition and that the transaction saw at some
\* time during the statement,
OnlyWanted == ~Astray => Done \subseteq watch.ever
\* and in the end all that it saw all the time.
NothingMissed == stmt.pc = "ok" /\ ~Astray => watch.always \subseteq Done

\* bc.c, "Move forward past LOOP_END": a WHERE fails as a syntax error only over
\* no row at all, or once its iterators have gone astray.
FailsOverNothing == stmt.pc = "failed" /\ ~Astray => watch.always = {} /\ stmt.done = <<>>

\* dml.c, execute.y: what a SELECT or DELETE does to a table that others change.
StatementRight == OnlyWanted /\ NothingMissed /\ FailsOverNothing
=============================================================================
