--------------------------------- MODULE Tran ---------------------------------
(***************************************************************************)
(* Transactions: tran.c, tcl.c, sequence_nextval on a catalog's sequence,  *)
(* and insert, dml_delete, dml_delete_row, dml_select of dml.c with the    *)
(* row loops of table.c and execute.y.                                     *)
(*                                                                         *)
(* Every session is a worker process of its own.  The workers share the    *)
(* page cache and nothing locks it, so that their steps interleave: here   *)
(* a step reads or writes one page, and what is changed by reading and     *)
(* writing it (a sequence, a byte of flags, the number of rows) takes two. *)
(* Every catalog numbers its own transactions; the page of flags that      *)
(* tells the committed ones is one for all catalogs.  A catalog has one    *)
(* table, of one page of rows.  Assertions are those of a build with       *)
(* NDEBUG: they do nothing, and are stated as properties instead.          *)
(***************************************************************************)
EXTENDS Integers, Sequences, FiniteSets

CONSTANTS Sessions,
          Catalogs,
          MaxTid,         \* the last value of a catalog's sequence
          MaxRows,        \* the rows of a page
          MaxTrans,       \* bound: how many transactions there are in all
          MaxRestarts     \* bound: how often the server crashes and restarts

ASSUME TranAssumption ==
  MaxTid \in Nat /\ MaxRows \in Nat /\ MaxTrans \in Nat /\ MaxRestarts \in Nat

\* TRAN_INVALID_ID, also a session without a transaction.
TRAN_INVALID_ID == 0

VARIABLES
  sess,       \* the sessions: where they are in a statement, their transaction
  seq,        \* for every catalog the last transaction id given, in memory
  flags,      \* the ids whose flag is TF_COMMITED, in memory
  table,      \* for every catalog its page of rows, in memory
  disk,       \* the same three on disk
  history,    \* the transactions there were, in the order of their ids' drawing
  acked,      \* the row changes whose statements are past their flush
  raced,      \* what was written over by a worker that had read an older value
  restarts

vars == <<sess, seq, flags, table, disk, history, acked, raced, restarts>>

-----------------------------------------------------------------------------

\* A new worker, for a client of catalog c.  tran_no is the place of the session's
\* transaction in the history; next is what it has made of the sequence or the
\* number of rows it has read, copy the byte of flags it is changing.
NewSession(c) == [pc |-> "idle", kind |-> "none", catalog |-> c,
                  tran |-> TRAN_INVALID_ID, autocommit |-> FALSE, tran_no |-> 0,
                  row |-> 0, next |-> 0, copy |-> {}]

\* A session between two statements, with the transaction it has, and without it.
Rest(x) == [NewSession(x.catalog) EXCEPT !.tran = x.tran, !.autocommit = x.autocommit,
                                         !.tran_no = x.tran_no]
Ended(x) == NewSession(x.catalog)

\* A row: its *tmin and *tmax, and, for the properties, the transactions that
\* inserted it, deleted it last, and deleted it before.
NewRow == [tmin |-> TRAN_INVALID_ID, tmax |-> TRAN_INVALID_ID, by |-> 0, del |-> 0,
           over |-> {}]

NewPage == [occupied |-> 0, rows |-> [i \in 1 .. MaxRows |-> NewRow]]

Init == /\ sess \in [Sessions -> {NewSession(c) : c \in Catalogs}]
        /\ seq = [c \in Catalogs |-> 0]
        /\ flags = {}
        /\ table = [c \in Catalogs |-> NewPage]
        /\ disk = [seq |-> seq, flags |-> flags, table |-> table]
        /\ history = <<>> /\ acked = {} /\ raced = {} /\ restarts = 0

Page(s) == table[sess[s].catalog]
Row(s, i) == Page(s).rows[i]

\* A session goes on at pc p, with an operation of that kind.
Goto(s, p, kind) == sess' = [sess EXCEPT ![s].pc = p, ![s].kind = kind]

-----------------------------------------------------------------------------
(* tran_put, the part before the statement proper.                         *)

\* What a statement does once the session has its transaction.  SELECT is the row
\* loop that deletes nothing: the properties say which rows it finds, whenever it
\* looks.
Proceed(s, x) ==
  sess' = [sess EXCEPT ![s] =
    CASE x.kind = "insert" -> [x EXCEPT !.pc = "insert", !.kind = "none"]
      [] x.kind = "loop"   -> [x EXCEPT !.pc = "scan", !.kind = "none", !.row = 1]
      [] OTHER             -> Rest(x)]

\* Mutant: the value the sequence had is the one given out.
NextTid_stale(s) == IF seq[sess[s].catalog] = 0 THEN 1 ELSE seq[sess[s].catalog]

NextTid(s) == seq[sess[s].catalog] + 1

Overflow(s) == NextTid(s) > MaxTid

\* A statement of a session that has the transaction it needs.
Continue(s, kind) ==
  /\ sess[s].pc = "idle" /\ sess[s].tran # TRAN_INVALID_ID /\ kind # "start"
  /\ Proceed(s, [sess[s] EXCEPT !.kind = kind])
  /\ UNCHANGED <<seq, flags, table, disk, history, acked, raced, restarts>>

\* How many transactions are about to get their ids.
Drawing == Cardinality({s \in Sessions : sess[s].pc = "nextval"})

\* A statement of a session that needs a transaction: START TRANSACTION, which
\* drops an autocommitting one and refuses to replace another, or a statement
\* of a session without one, which autocommits.  tran_put reads the sequence, and
\* gives up if it has come to its end.  (Its other way out, a full g_tran, is not
\* taken: a worker has a g_tran of its own, with one transaction at most.)
Begin(s, autocommit) ==
  LET x == sess[s]
  IN  /\ x.pc = "idle"
      /\ x.tran = TRAN_INVALID_ID \/ (~autocommit /\ x.autocommit)
      /\ \/ Overflow(s) /\ sess' = [sess EXCEPT ![s] = Ended(x)]
         \/ /\ ~Overflow(s) /\ Drawing + Len(history) < MaxTrans
            /\ sess' = [sess EXCEPT ![s] =
                 [Ended(x) EXCEPT !.pc = "nextval", !.next = NextTid(s),
                                  !.autocommit = autocommit]]
      /\ UNCHANGED <<seq, flags, table, disk, history, acked, raced, restarts>>

\* sequence_nextval writes the new value, which is the transaction's id, whatever
\* the sequence has become meanwhile.
NextVal(s) ==
  LET x == sess[s]
  IN  /\ x.pc = "nextval"
      /\ seq' = [seq EXCEPT ![x.catalog] = x.next]
      /\ history' = Append(history, [tid |-> x.next, catalog |-> x.catalog,
                                     fate |-> "running", saved |-> FALSE, crossed |-> FALSE])
      /\ raced' = IF NextTid(s) = x.next THEN raced ELSE raced \cup {<<"ids", x.catalog>>}
      /\ sess' = [sess EXCEPT
           ![s] = [x EXCEPT !.pc = IF x.autocommit THEN "put_flag" ELSE "save_seq",
                            !.tran = x.next, !.tran_no = Len(history'), !.next = 0]]
      /\ UNCHANGED <<flags, table, disk, acked, restarts>>

\* The last step of tran_put: the sequence is flushed, and the statement goes on:
\* START TRANSACTION is over, which one autocommits shows now.
SaveSeq(s, kind) ==
  LET x == sess[s]
  IN  /\ x.pc = "save_seq" /\ (kind = "start" <=> ~x.autocommit)
      /\ disk' = [disk EXCEPT !.seq[x.catalog] = seq[x.catalog]]
      /\ Proceed(s, [x EXCEPT !.kind = kind])
      /\ UNCHANGED <<seq, flags, table, history, acked, raced, restarts>>

-----------------------------------------------------------------------------
(* tran_flag_put, by tran_put, tcl_commit and tcl_rollback.                *)

\* tcl_commit and tcl_rollback refuse a session without a transaction of its own.
End(s, kind) ==
  /\ sess[s].pc = "idle" /\ sess[s].tran # TRAN_INVALID_ID /\ ~sess[s].autocommit
  /\ Goto(s, "put_flag", kind)
  /\ UNCHANGED <<seq, flags, table, disk, history, acked, raced, restarts>>

\* The flags of eight transactions, of whatever catalogs, are in one byte.  There is
\* one page of them: ids up to MaxTid have theirs in it, for tran.c does not ask
\* whether an id lies beyond its end.
SameByte(t, u) == t \div 8 = u \div 8

ReadFlags(s) ==
  /\ sess[s].pc = "put_flag"
  /\ sess' = [sess EXCEPT ![s].pc = "flag",
                          ![s].copy = {t \in flags : SameByte(t, sess[s].tran)}]
  /\ UNCHANGED <<seq, flags, table, disk, history, acked, raced, restarts>>

\* Mutant: a rollback sets the flag, too.
FlagsPut_both(x) == x.copy \cup {x.tran}

FlagsPut(x) == IF x.kind = "rollback" THEN x.copy \ {x.tran} ELSE x.copy \cup {x.tran}

\* The fate of s's transaction.  A flag may be taken back (crossed) by a worker that
\* has read the byte and not written it yet, or by the rollback of a namesake.
Decided(s) ==
  LET x == sess[s]
      Crossing == {t \in Sessions \ {s} : sess[t].pc = "flag" /\ SameByte(sess[t].tran, x.tran)}
  IN  [n \in DOMAIN history |->
         IF n = x.tran_no
         THEN [history[n] EXCEPT !.fate = IF x.kind = "rollback" THEN "aborted" ELSE "committed",
                                 !.crossed = Crossing # {}]
         ELSE IF x.kind = "rollback" /\ history[n].tid = x.tran
         THEN [history[n] EXCEPT !.crossed = TRUE]
         ELSE history[n]]

\* The byte is written as it was read, but for the flag.
PutFlag(s) ==
  LET x == sess[s]
  IN  /\ x.pc = "flag"
      /\ flags' = {t \in flags : ~SameByte(t, x.tran)} \cup FlagsPut(x)
      /\ history' = Decided(s)
      /\ sess' = [sess EXCEPT ![s].pc = "save_flags", ![s].copy = {}]
      /\ UNCHANGED <<seq, table, disk, acked, raced, restarts>>

\* The page of flags is flushed.  After COMMIT and ROLLBACK the session has no
\* transaction; in tran_put the sequence is flushed next.
SaveFlags(s) ==
  LET x == sess[s]
  IN  /\ x.pc = "save_flags"
      /\ disk' = [disk EXCEPT !.flags = flags]
      /\ history' = [history EXCEPT ![x.tran_no].saved = TRUE]
      /\ sess' = [sess EXCEPT ![s] = IF x.kind \in {"commit", "rollback"} THEN Ended(x)
                                     ELSE [x EXCEPT !.pc = "save_seq"]]
      /\ UNCHANGED <<seq, flags, table, acked, raced, restarts>>

-----------------------------------------------------------------------------
(* insert.                                                                 *)

\* grid_alloc_row reads how many rows are in use, if there is one more.
ReadRows(s) ==
  /\ sess[s].pc = "insert" /\ Page(s).occupied < MaxRows
  /\ sess' = [sess EXCEPT ![s].pc = "alloc", ![s].next = Page(s).occupied + 1]
  /\ UNCHANGED <<seq, flags, table, disk, history, acked, raced, restarts>>

\* It writes the new number: the row is there, with what its place held before,
\* which in a page not yet used so far is no *tmin.
AllocRow(s) ==
  LET x == sess[s]
  IN  /\ x.pc = "alloc"
      /\ table' = [table EXCEPT ![x.catalog].occupied = x.next]
      /\ raced' = IF Page(s).occupied + 1 = x.next THEN raced
                  ELSE raced \cup {<<"rows", x.catalog>>}
      /\ sess' = [sess EXCEPT ![s] = [x EXCEPT !.pc = "fill", !.row = x.next, !.next = 0]]
      /\ UNCHANGED <<seq, flags, disk, history, acked, restarts>>

\* The row loop of insert: the queried columns, then *tmin and *tmax.
FillRow(s) ==
  LET x == sess[s]
  IN  /\ x.pc = "fill"
      /\ table' = [table EXCEPT ![x.catalog].rows[x.row] =
                     [NewRow EXCEPT !.tmin = x.tran, !.by = x.tran_no]]
      /\ Goto(s, "save", "insert")
      /\ UNCHANGED <<seq, flags, disk, history, acked, raced, restarts>>

\* insert returns early: a queried column is unknown or no row can be had, or,
\* the row being there already, a column does not have the type of its value.
RefuseInsert(s) ==
  /\ sess[s].pc \in {"insert", "fill"}
  /\ sess' = [sess EXCEPT ![s] = Rest(sess[s])]
  /\ UNCHANGED <<seq, flags, table, disk, history, acked, raced, restarts>>

-----------------------------------------------------------------------------
(* The row loop of DELETE.                                                 *)

\* Mutants of tran_row_is_visible: rows of transactions still running are
\* visible; a deletion hides a row before it is committed.
Visible_dirty(s, r) ==
  LET tid == sess[s].tran
  IN  IF tid = r.tmin THEN tid # r.tmax
      ELSE IF tid = r.tmax THEN FALSE
      ELSE r.tmin # TRAN_INVALID_ID /\ r.tmax \notin flags

Visible_early(s, r) ==
  LET tid == sess[s].tran
  IN  IF tid = r.tmin THEN tid # r.tmax
      ELSE IF tid = r.tmax THEN FALSE
      ELSE r.tmin \in flags /\ r.tmax = TRAN_INVALID_ID

\* tran_row_is_visible.
Visible(s, r) ==
  LET tid == sess[s].tran
  IN  IF tid = r.tmin THEN tid # r.tmax
      ELSE IF tid = r.tmax THEN FALSE
      ELSE r.tmin \in flags /\ r.tmax \notin flags

\* titor_init and titor_next: the loop comes to a visible row that the WHERE of
\* the statement selects.
Find(s) ==
  /\ sess[s].pc = "scan"
  /\ \E i \in sess[s].row .. Page(s).occupied :
       /\ Visible(s, Row(s, i))
       /\ sess' = [sess EXCEPT ![s].pc = "delete", ![s].row = i]
  /\ UNCHANGED <<seq, flags, table, disk, history, acked, raced, restarts>>

\* It comes to none any more.
EndScan(s) ==
  /\ sess[s].pc = "scan"
  /\ sess' = [sess EXCEPT ![s] = Rest(sess[s])]
  /\ UNCHANGED <<seq, flags, table, disk, history, acked, raced, restarts>>

\* dml_delete_row, some time after the row was found visible: whatever *tmax has
\* become meanwhile is overwritten.
DeleteRow(s) ==
  LET x == sess[s]
      r == Row(s, x.row)
  IN  /\ x.pc = "delete"
      /\ table' = [table EXCEPT ![x.catalog].rows[x.row] =
                     [r EXCEPT !.tmax = x.tran, !.del = x.tran_no,
                               !.over = @ \cup ({r.del} \ {0})]]
      /\ Goto(s, "save", "delete")
      /\ UNCHANGED <<seq, flags, disk, history, acked, raced, restarts>>

\* Mutant: the page is not flushed.
Flushed_not(s) == disk

Flushed(s) == [disk EXCEPT !.table[sess[s].catalog] = Page(s)]

\* pagecache_flush of the page of rows, the end of both.
Save(s) ==
  LET x == sess[s]
  IN  /\ x.pc = "save"
      /\ disk' = Flushed(s)
      /\ acked' = acked \cup {[catalog |-> x.catalog, row |-> x.row,
                               tran_no |-> x.tran_no, kind |-> x.kind]}
      /\ sess' = [sess EXCEPT ![s] = IF x.kind = "insert" THEN Rest(x)
                                     ELSE [x EXCEPT !.pc = "scan", !.kind = "none", !.row = @ + 1]]
      /\ UNCHANGED <<seq, flags, table, history, raced, restarts>>

-----------------------------------------------------------------------------
(* The environment.                                                        *)

\* An eviction writes a page that was not flushed.
WriteBack(c) ==
  /\ \/ disk' = [disk EXCEPT !.seq[c] = seq[c]]
     \/ disk' = [disk EXCEPT !.table[c] = table[c]]
     \/ disk' = [disk EXCEPT !.flags = flags]
  /\ UNCHANGED <<sess, seq, flags, table, history, acked, raced, restarts>>

\* The history once the transactions in T have come to nothing.
Abandon(T) ==
  history' = [n \in DOMAIN history |->
                IF n \in T THEN [history[n] EXCEPT !.fate = "aborted"] ELSE history[n]]

Running(n) == n \in DOMAIN history /\ history[n].fate = "running"
Committed(n) == n \in DOMAIN history /\ history[n].fate = "committed"

\* A client disconnects or a worker dies, wherever it is, and another takes
\* its place, in the same catalog.
Disconnect(s) ==
  /\ sess[s] # Ended(sess[s])
  /\ sess' = [sess EXCEPT ![s] = Ended(sess[s])]
  /\ Abandon({n \in {sess[s].tran_no} : Running(n)})
  /\ UNCHANGED <<seq, flags, table, disk, acked, raced, restarts>>

\* The server goes down with all its workers and starts from the disk.  A commit
\* whose flush was not over has come to nothing, unless its flag is there.
Restart ==
  /\ restarts < MaxRestarts /\ restarts' = restarts + 1
  /\ sess' = [s \in Sessions |-> Ended(sess[s])]
  /\ seq' = disk.seq /\ flags' = disk.flags /\ table' = disk.table
  /\ Abandon({n \in DOMAIN history :
                \/ Running(n)
                \/ ~history[n].saved /\ history[n].tid \notin disk.flags})
  /\ UNCHANGED <<disk, acked, raced>>

Next ==
  \/ \E s \in Sessions :
       \/ \E autocommit \in BOOLEAN : Begin(s, autocommit)
       \/ NextVal(s)
       \/ \E kind \in {"start", "insert", "loop"} : Continue(s, kind) \/ SaveSeq(s, kind)
       \/ \E kind \in {"commit", "rollback"} : End(s, kind)
       \/ ReadFlags(s) \/ PutFlag(s) \/ SaveFlags(s)
       \/ ReadRows(s) \/ AllocRow(s) \/ FillRow(s) \/ RefuseInsert(s)
       \/ Find(s) \/ EndScan(s) \/ DeleteRow(s) \/ Save(s)
       \/ Disconnect(s)
  \/ \E c \in Catalogs : WriteBack(c)
  \/ Restart

Spec == Init /\ [][Next]_vars

-----------------------------------------------------------------------------

Tids == 0 .. MaxTid
Trans == 0 .. Len(history)

RowType == [tmin : Tids, tmax : Tids, by : Trans, del : Trans, over : SUBSET Trans]
PageType == [occupied : 0 .. MaxRows, rows : [1 .. MaxRows -> RowType]]

TypeOK ==
  /\ \A s \in Sessions :
       /\ sess[s].pc \in {"idle", "nextval", "put_flag", "flag", "save_flags", "save_seq",
                          "insert", "alloc", "fill", "scan", "delete", "save"}
       /\ sess[s].catalog \in Catalogs /\ sess[s].tran \in Tids
       /\ sess[s].tran_no \in Trans /\ sess[s].copy \subseteq Tids
       /\ sess[s].row \in 0 .. MaxRows + 1
  /\ seq \in [Catalogs -> Tids] /\ flags \subseteq Tids
  /\ table \in [Catalogs -> PageType]
  /\ disk \in [seq : [Catalogs -> Tids], flags : SUBSET Tids, table : [Catalogs -> PageType]]
  /\ \A n \in DOMAIN history :
       history[n] \in [tid : Tids, catalog : Catalogs, fate : {"running", "committed", "aborted"},
                       saved : BOOLEAN, crossed : BOOLEAN]

Own(s, n) == n # 0 /\ n = sess[s].tran_no

\* Another transaction with n's id that lets s find n's rows, or hides them from s:
\* of another catalog, or of two workers' racing for an id, or one that committed
\* just before a crash and whose id the sequence has given out again.
Namesake(s, n) ==
  n # 0 /\ \E m \in DOMAIN history \ {n} :
             history[m].tid = history[n].tid /\ (Own(s, m) \/ Committed(m))

\* The sessions that may look at rows, now or with their next statement, and the rows.
Readers == {s \in Sessions : /\ sess[s].tran # TRAN_INVALID_ID
                             /\ sess[s].pc \in {"idle", "scan"}}
RowsIn(s) == {Row(s, i) : i \in 1 .. Page(s).occupied}

\* tran.c: whatever other workers are in the middle of, a statement finds a
\* row only if its own transaction or a committed one inserted it: nothing of
\* a transaction that is running, rolled back, or cut off by the end of its
\* worker or of the server.  Except that an id does not tell its transaction
\* from a namesake.
NoDirtyRead ==
  \A s \in Readers : \A r \in RowsIn(s) :
    Visible(s, r) => Own(s, r.by) \/ Committed(r.by) \/ Namesake(s, r.by)

\* tran.c: a statement finds the rows of committed transactions and its own,
\* unless the last that deleted them is committed or its own: a delete that is
\* running or was rolled back hides nothing.  Except a commit whose flag another
\* worker may have taken back, and what a namesake of the deleter hides.
IntactFound ==
  \A s \in Readers : \A r \in RowsIn(s) :
    /\ Own(s, r.by) \/ (Committed(r.by) /\ ~history[r.by].crossed)
    /\ ~Own(s, r.del) /\ ~Committed(r.del) /\ ~Namesake(s, r.del)
    => Visible(s, r)

\* tran_flag_put: however its workers interleave and wherever they or the server
\* stop, a flag is set only for an id that has been committed, in memory and on
\* disk; and every commit has its flag, unless another worker was between the read
\* and the write of the same byte, or a namesake was rolled back after it.
FlagsTellFate ==
  /\ TypeOK
  /\ \A t \in flags \cup disk.flags : \E n \in DOMAIN history : history[n].tid = t /\ Committed(n)
  /\ \A n \in DOMAIN history : Committed(n) /\ ~history[n].crossed => history[n].tid \in flags

\* The transactions that have left a row or a deletion, in memory or on disk.
Wrote(m) ==
  \E c \in Catalogs : \E i \in 1 .. MaxRows : \E r \in {table[c].rows[i], disk.table[c].rows[i]} :
    m = r.by \/ m = r.del \/ m \in r.over

\* dml.c, tran_put: a catalog gives an id a second time only if a restart has cut
\* off the transaction that had it first before it changed a row; unless two
\* workers were in its sequence at once.
IdsFresh ==
  \A n \in DOMAIN history : \A m \in 1 .. n - 1 :
    /\ history[m].tid = history[n].tid /\ history[m].catalog = history[n].catalog
    /\ <<"ids", history[n].catalog>> \notin raced
    => ~Running(m) /\ ~Wrote(m)

\* An acknowledged change is in page p: an inserted row is the transaction's; of a
\* deleted one *tmax is its id, or a later DELETE has overwritten it, which this
\* code lets happen while the first deletion is running or even committed.
InForce(a, p) ==
  LET r == p.rows[a.row]
  IN  /\ a.row <= p.occupied
      /\ IF a.kind = "insert" THEN r.by = a.tran_no /\ r.tmin = history[a.tran_no].tid
         ELSE /\ a.tran_no = r.del \/ a.tran_no \in r.over
              /\ r.tmax = history[r.del].tid

\* dml.c: what an INSERT or DELETE has flushed, and every commit, is on disk from
\* then on: no later flush, eviction or restart takes it back.  Except changes in
\* a page of which two workers have taken the same row, and commits whose flag
\* another worker may have taken back.
Durable ==
  /\ \A a \in acked : <<"rows", a.catalog>> \notin raced => InForce(a, disk.table[a.catalog])
  /\ \A n \in DOMAIN history :
       Committed(n) /\ history[n].saved /\ ~history[n].crossed => history[n].tid \in disk.flags

\* tran.c:17, assert(tid == tmax || tmax == TRAN_INVALID_ID), of rows the
\* session's own transaction inserted.
TmaxAssertion ==
  \A s \in Readers : \A r \in RowsIn(s) :
    r.tmin = sess[s].tran => r.tmax \in {sess[s].tran, TRAN_INVALID_ID}

\* tcl.c:47, "transaction is aborted by default": as long as it has not been
\* committed the flag of a transaction is not set.
AbortedByDefault ==
  \A s \in Sessions : sess[s].tran # TRAN_INVALID_ID /\ Running(sess[s].tran_no)
    => sess[s].tran \notin flags
=============================================================================
