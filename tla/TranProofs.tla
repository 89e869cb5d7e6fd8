----------------------------- MODULE TranProofs -----------------------------
(***************************************************************************)
(* Proofs about transactions: what a reader finds and does not find, what  *)
(* the page of flags says, which ids are given out again and what is on    *)
(* disk, for any number of workers, catalogs, ids, rows and restarts.      *)
(***************************************************************************)
EXTENDS Tran, SequenceTheorems, TLAPS

-----------------------------------------------------------------------------
(* The inductive invariant.  Its parts are about a session x, values h of  *)
(* history, S of sess, F of a set of flags, T of table or disk.table.      *)

Pcs == {"idle", "nextval", "put_flag", "flag", "save_flags", "save_seq", "insert", "alloc",
        "fill", "scan", "delete", "save"}
Kinds == {"none", "start", "insert", "loop", "delete", "commit", "rollback"}
SessionTypes == [pc : Pcs, kind : Kinds, catalog : Catalogs, tran : Tids, autocommit : BOOLEAN,
                 tran_no : Nat, row : 0 .. MaxRows + 1, next : Nat, copy : SUBSET Tids]
RowTypes == [tmin : Tids, tmax : Tids, by : Nat, del : Nat, over : SUBSET Nat]
PageTypes == [occupied : 0 .. MaxRows, rows : [1 .. MaxRows -> RowTypes]]
Seqs == [Catalogs -> Tids]
Tables == [Catalogs -> PageTypes]
Disks == [seq : Seqs, flags : SUBSET Tids, table : Tables]
Fates == {"running", "committed", "aborted"}
Transactions == [tid : 1 .. MaxTid, catalog : Catalogs, fate : Fates, saved : BOOLEAN,
                 crossed : BOOLEAN]
Histories == Seq(Transactions)
Acks == [catalog : Catalogs, row : 1 .. MaxRows, tran_no : Nat, kind : {"insert", "delete"}]

Types ==
  /\ sess \in [Sessions -> SessionTypes]
  /\ seq \in Seqs /\ flags \subseteq Tids /\ table \in Tables /\ disk \in Disks
  /\ history \in Histories /\ acked \subseteq Acks

\* A session's transaction is running until its flag is put: at once, if it
\* autocommits, and else by COMMIT or ROLLBACK.
Undecided(x) == x.pc # "save_flags" /\ (x.autocommit => x.pc \in {"put_flag", "flag"})

TranRight(x, h) ==
  /\ x.tran_no = 0 <=> x.tran = TRAN_INVALID_ID
  /\ x.tran_no # 0 =>
       /\ x.tran_no \in DOMAIN h
       /\ h[x.tran_no].tid = x.tran /\ h[x.tran_no].catalog = x.catalog
       /\ h[x.tran_no].fate = "running" <=> Undecided(x)

StepRight(x) ==
  /\ x.pc = "nextval" => x.tran_no = 0 /\ x.kind = "none" /\ x.next \in 1 .. MaxTid
  /\ x.pc \notin {"idle", "nextval"} => x.tran_no # 0
  /\ x.pc \in {"put_flag", "flag", "save_flags"} =>
       (x.autocommit <=> x.kind \notin {"commit", "rollback"})
  /\ x.pc = "scan" => x.row # 0
  /\ x.pc = "alloc" => x.next \in 1 .. MaxRows
  /\ x.pc \in {"fill", "delete", "save"} => x.row \in 1 .. MaxRows
  /\ x.pc = "save" => x.kind \in {"insert", "delete"}

\* No two sessions have the same transaction.
Distinct(S) == \A s, t \in Sessions : s # t => S[s].tran_no = 0 \/ S[s].tran_no # S[t].tran_no

Held(m, S) == \E s \in Sessions : S[s].tran_no = m

RunningHeld(h, S) == \A m \in DOMAIN h : h[m].fate = "running" => Held(m, S) /\ ~h[m].saved

SessInv ==
  /\ \A s \in Sessions : TranRight(sess[s], history) /\ StepRight(sess[s])
  /\ Distinct(sess) /\ RunningHeld(history, sess)

\* The ids in a row are those of the transactions that changed it.
RowRight(r, h) ==
  /\ r.by = 0 => r.tmin = TRAN_INVALID_ID /\ r.del = 0
  /\ r.by # 0 => r.by \in DOMAIN h /\ r.tmin = h[r.by].tid
  /\ r.del = 0 => r.tmax = TRAN_INVALID_ID /\ r.over = {}
  /\ r.del # 0 => r.del \in DOMAIN h /\ r.tmax = h[r.del].tid
  /\ r.over \subseteq DOMAIN h

RowsRight(T, h) == \A c \in Catalogs : \A i \in 1 .. MaxRows : RowRight(T[c].rows[i], h)

\* A row that was found has been filled.
FoundRight(S, T) ==
  \A s \in Sessions : S[s].pc = "delete" => T[S[s].catalog].rows[S[s].row].by # 0

RowInv == /\ RowsRight(table, history) /\ RowsRight(disk.table, history)
          /\ FoundRight(sess, table)

\* Flags are those of committed transactions, also in the bytes read and not yet
\* written; and the flag of a commit that none of these can take back is set.
OfCommitted(F, h) == \A t \in F : \E n \in DOMAIN h : h[n].tid = t /\ h[n].fate = "committed"

Sure(n, h) == h[n].fate = "committed" /\ ~h[n].crossed

Copied(t, x) == x.pc = "flag" /\ SameByte(t, x.tran) => t \in x.copy

FlagInv ==
  /\ OfCommitted(flags, history) /\ OfCommitted(disk.flags, history)
  /\ \A s \in Sessions : sess[s].pc = "flag" => OfCommitted(sess[s].copy, history)
  /\ \A n \in DOMAIN history : Sure(n, history) =>
       /\ history[n].tid \in flags
       /\ history[n].saved => history[n].tid \in disk.flags
       /\ \A s \in Sessions : Copied(history[n].tid, sess[s])

WrittenBy(r, m) == m = r.by \/ m = r.del \/ m \in r.over
WroteIn(T, m) == \E c \in Catalogs : \E i \in 1 .. MaxRows : WrittenBy(T[c].rows[i], m)
WroteAny(m) == WroteIn(table, m) \/ WroteIn(disk.table, m)

\* From SaveSeq on a transaction may change rows.
Writing(x) == x.tran_no # 0 /\ x.pc \in {"idle", "insert", "alloc", "fill", "scan", "delete", "save"}

\* In a sequence in which no two workers were at once a transaction that may still
\* change rows is not the namesake of a later one, and one that may have changed some
\* has an id that is not given out again after a restart.
IdsOf(c) ==
  /\ disk.seq[c] <= seq[c]
  /\ \A s \in Sessions : sess[s].catalog = c =>
       sess[s].tran <= seq[c] /\ (Writing(sess[s]) => sess[s].tran <= disk.seq[c])
  /\ \A m \in DOMAIN history : history[m].catalog = c =>
       /\ WroteAny(m) => history[m].tid <= disk.seq[c]
       /\ \A n \in DOMAIN history :
            m < n /\ history[n].catalog = c /\ history[m].tid = history[n].tid
            => ~Held(m, sess) /\ ~WroteAny(m)

IdInv == \A c \in Catalogs : <<"ids", c>> \notin raced => IdsOf(c)

\* What a session at Save acknowledges next.
Ack(x) == [catalog |-> x.catalog, row |-> x.row, tran_no |-> x.tran_no, kind |-> x.kind]

\* An acknowledged change is in a page; the ids are told by RowRight.
Placed(a, p) ==
  LET r == p.rows[a.row]
  IN  /\ a.row <= p.occupied
      /\ IF a.kind = "insert" THEN r.by = a.tran_no ELSE a.tran_no = r.del \/ a.tran_no \in r.over

Clean(p) == \A i \in 1 .. MaxRows : i > p.occupied => p.rows[i].by = 0

\* A row that is being filled is nobody else's.
FillRight(s, S, p) ==
  S[s].pc = "fill" =>
    /\ S[s].row <= p.occupied /\ p.rows[S[s].row].by = 0
    /\ \A t \in Sessions \ {s} :
         S[t].pc = "fill" /\ S[t].catalog = S[s].catalog => S[t].row # S[s].row

\* In a page of which no two workers took the same row what was acknowledged is there,
\* in memory and on disk, and in memory also what is about to be.
KeptOf(c) ==
  /\ Clean(table[c]) /\ Clean(disk.table[c])
  /\ \A s \in Sessions : sess[s].catalog = c =>
       /\ FillRight(s, sess, table[c])
       /\ sess[s].pc = "delete" => sess[s].row <= table[c].occupied
       /\ sess[s].pc = "save" => Placed(Ack(sess[s]), table[c])
  /\ \A a \in acked : a.catalog = c => Placed(a, table[c]) /\ Placed(a, disk.table[c])

KeptInv ==
  /\ \A a \in acked : a.tran_no \in DOMAIN history
  /\ \A c \in Catalogs : <<"rows", c>> \notin raced => KeptOf(c)

TranInv == Types /\ SessInv /\ RowInv /\ FlagInv /\ IdInv /\ KeptInv

-----------------------------------------------------------------------------
(* What follows from it.                                                   *)

LEMMA HistoryTypes ==
  ASSUME NEW h \in Histories
  PROVE  /\ Len(h) \in Nat /\ DOMAIN h = 1 .. Len(h)
         /\ \A n \in DOMAIN h : /\ h[n] \in Transactions
                                /\ h[n].tid \in 1 .. MaxTid /\ h[n].tid \in Tids /\ h[n].tid # 0
                                /\ h[n].catalog \in Catalogs /\ h[n].fate \in Fates
                                /\ n # 0 /\ n \in Nat
<1>1. Len(h) \in Nat /\ DOMAIN h = 1 .. Len(h)
  BY LenProperties DEF Histories
<1>2. \A n \in DOMAIN h : h[n] \in Transactions
  BY <1>1, ElementOfSeq DEF Histories
<1> QED BY <1>1, <1>2, TranAssumption DEF Transactions, Tids

LEMMA RowTyped ==
  ASSUME NEW T \in Tables, NEW c \in Catalogs
  PROVE  /\ T[c].occupied \in 0 .. MaxRows /\ T[c].occupied \in Nat
         /\ \A i \in 1 .. MaxRows :
              /\ T[c].rows[i] \in RowTypes
              /\ T[c].rows[i].by \in Nat /\ T[c].rows[i].del \in Nat
              /\ T[c].rows[i].tmin \in Tids /\ T[c].rows[i].tmax \in Tids
BY TranAssumption DEF Tables, PageTypes, RowTypes

LEMMA Sessioned ==
  ASSUME Types, NEW s \in Sessions
  PROVE  /\ sess[s] \in SessionTypes /\ sess[s].catalog \in Catalogs
         /\ sess[s].pc \in Pcs /\ sess[s].kind \in Kinds /\ sess[s].tran \in Tids
         /\ sess[s].tran_no \in Nat /\ sess[s].copy \subseteq Tids /\ sess[s].next \in Nat
         /\ sess[s].row \in 0 .. MaxRows + 1 /\ sess[s].autocommit \in BOOLEAN
BY DEF Types, SessionTypes

\* A row a reader looks at.
LEMMA RowRead ==
  ASSUME Types, RowInv, NEW s \in Readers, NEW r \in RowsIn(s)
  PROVE  /\ s \in Sessions /\ sess[s].tran # TRAN_INVALID_ID
         /\ r \in RowTypes /\ RowRight(r, history)
<1>1. s \in Sessions /\ sess[s].tran # TRAN_INVALID_ID
  BY DEF Readers
<1>2. sess[s].catalog \in Catalogs /\ table \in Tables
  BY <1>1, Sessioned DEF Types
<1>3. PICK i \in 1 .. Page(s).occupied : r = Row(s, i)
  BY DEF RowsIn
<1>4. i \in 1 .. MaxRows
  BY <1>2, <1>3, RowTyped, TranAssumption DEF Page
<1> QED BY <1>1, <1>2, <1>3, <1>4, RowTyped DEF Row, Page, RowInv, RowsRight

LEMMA NoFlagZero ==
  ASSUME Types, FlagInv PROVE TRAN_INVALID_ID \notin flags
BY HistoryTypes DEF Types, FlagInv, OfCommitted, TRAN_INVALID_ID

\* A flag, or the own id, is that of n or of a namesake of n.
LEMMA Told ==
  ASSUME Types, SessInv, FlagInv, NEW s \in Sessions, sess[s].tran # TRAN_INVALID_ID,
         NEW n \in DOMAIN history, history[n].tid = sess[s].tran \/ history[n].tid \in flags
  PROVE  Own(s, n) \/ Committed(n) \/ Namesake(s, n)
<1>1. n # 0
  BY HistoryTypes DEF Types
<1>2. CASE history[n].tid = sess[s].tran
  <2>1. sess[s].tran_no # 0 /\ sess[s].tran_no \in DOMAIN history /\ history[sess[s].tran_no].tid = sess[s].tran
    BY DEF SessInv, TranRight
  <2> QED BY <1>1, <1>2, <2>1 DEF Own, Namesake
<1>3. CASE history[n].tid \in flags
  <2>1. PICK m \in DOMAIN history : history[m].tid = history[n].tid /\ history[m].fate = "committed"
    BY <1>3 DEF FlagInv, OfCommitted
  <2> QED BY <1>1, <2>1 DEF Committed, Namesake
<1> QED BY <1>2, <1>3

LEMMA DirtyReadsNot == TranInv => NoDirtyRead
<1> SUFFICES ASSUME TranInv, NEW s \in Readers, NEW r \in RowsIn(s), Visible(s, r)
             PROVE  Own(s, r.by) \/ Committed(r.by) \/ Namesake(s, r.by)
  BY DEF NoDirtyRead
<1>1. s \in Sessions /\ sess[s].tran # TRAN_INVALID_ID /\ r \in RowTypes /\ RowRight(r, history)
  BY RowRead DEF TranInv
<1>2. r.by # 0 /\ (sess[s].tran = r.tmin \/ r.tmin \in flags)
  BY <1>1, NoFlagZero DEF Visible, RowRight, TranInv
<1>3. r.by \in DOMAIN history /\ r.tmin = history[r.by].tid
  BY <1>1, <1>2 DEF RowRight
<1> QED BY <1>1, <1>2, <1>3, Told DEF TranInv

LEMMA IntactRowsFound == TranInv => IntactFound
<1> SUFFICES ASSUME TranInv, NEW s \in Readers, NEW r \in RowsIn(s),
                    Own(s, r.by) \/ (Committed(r.by) /\ ~history[r.by].crossed),
                    ~Own(s, r.del), ~Committed(r.del), ~Namesake(s, r.del)
             PROVE  Visible(s, r)
  BY DEF IntactFound
<1>1. s \in Sessions /\ sess[s].tran # TRAN_INVALID_ID /\ r \in RowTypes /\ RowRight(r, history)
  BY RowRead DEF TranInv
<1>2. r.by # 0
  BY HistoryTypes DEF Own, Committed, TranInv, Types
<1>3. r.by \in DOMAIN history /\ r.tmin = history[r.by].tid
  BY <1>1, <1>2 DEF RowRight
<1>4. sess[s].tran = r.tmin \/ r.tmin \in flags
  BY <1>1, <1>3 DEF Own, Committed, TranInv, SessInv, TranRight, FlagInv, Sure
<1>5. r.tmax # sess[s].tran /\ r.tmax \notin flags
  <2>1. CASE r.del = 0
    BY <1>1, <2>1, NoFlagZero DEF RowRight, TranInv
  <2>2. CASE r.del # 0
    <3>1. r.del \in DOMAIN history /\ r.tmax = history[r.del].tid
      BY <1>1, <2>2 DEF RowRight
    <3> QED BY <1>1, <3>1, Told DEF TranInv
  <2> QED BY <2>1, <2>2
<1> QED BY <1>4, <1>5 DEF Visible

LEMMA IdsAreFresh == TranInv => IdsFresh
<1> SUFFICES ASSUME TranInv, NEW n \in DOMAIN history, NEW m \in 1 .. n - 1,
                    history[m].tid = history[n].tid, history[m].catalog = history[n].catalog,
                    <<"ids", history[n].catalog>> \notin raced
             PROVE  ~Running(m) /\ ~Wrote(m)
  BY DEF IdsFresh
<1>1. m \in DOMAIN history /\ m < n /\ history[n].catalog \in Catalogs
  BY HistoryTypes DEF TranInv, Types
<1>2. ~Held(m, sess) /\ ~WroteAny(m)
  BY <1>1 DEF TranInv, IdInv, IdsOf
<1>3. ~Running(m)
  BY <1>1, <1>2 DEF TranInv, SessInv, RunningHeld, Running
<1>4. ~Wrote(m)
  BY <1>2 DEF Wrote, WroteAny, WroteIn, WrittenBy
<1> QED BY <1>3, <1>4

LEMMA ChangesDurable == TranInv => Durable
<1> SUFFICES ASSUME TranInv PROVE Durable
  OBVIOUS
<1>1. ASSUME NEW a \in acked, <<"rows", a.catalog>> \notin raced
      PROVE  InForce(a, disk.table[a.catalog])
  <2>1. a.catalog \in Catalogs /\ a.row \in 1 .. MaxRows
    BY DEF TranInv, Types, Acks
  <2>2. Placed(a, disk.table[a.catalog]) /\ a.tran_no \in DOMAIN history
    BY <1>1, <2>1 DEF TranInv, KeptInv, KeptOf
  <2>3. PICK r : r = disk.table[a.catalog].rows[a.row]
    OBVIOUS
  <2>4. RowRight(r, history) /\ a.tran_no # 0
    BY <2>1, <2>2, <2>3, HistoryTypes DEF TranInv, RowInv, RowsRight, Types
  <2> QED BY <2>2, <2>3, <2>4 DEF Placed, InForce, RowRight
<1>2. ASSUME NEW n \in DOMAIN history, Committed(n), history[n].saved, ~history[n].crossed
      PROVE  history[n].tid \in disk.flags
  BY <1>2 DEF TranInv, FlagInv, Sure, Committed
<1> QED BY <1>1, <1>2 DEF Durable

LEMMA TypesOK == TranInv => TypeOK
<1> SUFFICES ASSUME TranInv PROVE TypeOK
  OBVIOUS
<1>0. Types /\ history \in Histories
  BY DEF TranInv, Types
<1>1. 0 \in Trans /\ DOMAIN history \subseteq Trans
  BY <1>0, HistoryTypes DEF Trans
<1>2. ASSUME NEW T \in Tables, RowsRight(T, history) PROVE T \in [Catalogs -> PageType]
  <2>1. ASSUME NEW c \in Catalogs, NEW i \in 1 .. MaxRows PROVE T[c].rows[i] \in RowType
    <3>1. T[c].rows[i] \in RowTypes /\ RowRight(T[c].rows[i], history)
      BY <1>2, <2>1, RowTyped DEF RowsRight
    <3> QED BY <1>1, <3>1 DEF RowTypes, RowType, RowRight
  <2>2. ASSUME NEW c \in Catalogs PROVE T[c] \in PageType
    <3>1. T[c] \in PageTypes
      BY DEF Tables
    <3>2. T[c].rows \in [1 .. MaxRows -> RowType]
      BY <2>1, <3>1 DEF PageTypes
    <3> QED BY <3>1, <3>2 DEF PageTypes, PageType
  <2> QED BY <2>2 DEF Tables
<1>3. /\ table \in [Catalogs -> PageType]
      /\ disk \in [seq : [Catalogs -> Tids], flags : SUBSET Tids, table : [Catalogs -> PageType]]
  <2>1. table \in Tables /\ disk \in Disks /\ disk.table \in Tables
    BY <1>0 DEF Types, Disks
  <2>2. table \in [Catalogs -> PageType] /\ disk.table \in [Catalogs -> PageType]
    BY <1>2, <2>1 DEF TranInv, RowInv
  <2> QED BY <2>1, <2>2 DEF Disks, Seqs
<1>4. ASSUME NEW s \in Sessions
      PROVE  /\ sess[s].pc \in Pcs /\ sess[s].catalog \in Catalogs /\ sess[s].tran \in Tids
             /\ sess[s].tran_no \in Trans /\ sess[s].copy \subseteq Tids
             /\ sess[s].row \in 0 .. MaxRows + 1
  BY <1>0, <1>1, Sessioned DEF TranInv, SessInv, TranRight
<1>5. ASSUME NEW n \in DOMAIN history
      PROVE  history[n] \in [tid : Tids, catalog : Catalogs, fate : Fates,
                             saved : BOOLEAN, crossed : BOOLEAN]
  BY <1>0, HistoryTypes, TranAssumption DEF Transactions, Tids
<1>6. seq \in [Catalogs -> Tids] /\ flags \subseteq Tids
  BY <1>0 DEF Types, Seqs
<1> QED BY <1>3, <1>4, <1>5, <1>6 DEF TypeOK, Pcs, Fates

LEMMA FlagsTell == TranInv => FlagsTellFate
<1> SUFFICES ASSUME TranInv PROVE FlagsTellFate
  OBVIOUS
<1>1. ASSUME NEW t \in flags \cup disk.flags
      PROVE  \E n \in DOMAIN history : history[n].tid = t /\ Committed(n)
  BY DEF TranInv, FlagInv, OfCommitted, Committed
<1>2. ASSUME NEW n \in DOMAIN history, Committed(n), ~history[n].crossed
      PROVE  history[n].tid \in flags
  BY <1>2 DEF TranInv, FlagInv, Sure, Committed
<1> QED BY <1>1, <1>2, TypesOK DEF FlagsTellFate

-----------------------------------------------------------------------------
(* What a step makes of the session that takes it: y.                      *)

Moved(s, y) == /\ y \in SessionTypes /\ sess' = [sess EXCEPT ![s] = y]
               /\ y.catalog = sess[s].catalog /\ StepRight(y)

\* It has the transaction it had, or gives it up.
SameTran(s, y) == /\ y.tran_no = sess[s].tran_no /\ y.tran = sess[s].tran
                  /\ y.autocommit = sess[s].autocommit
NoTran(y) == y.tran_no = 0 /\ y.tran = TRAN_INVALID_ID

LEMMA Moves ==
  ASSUME Types, NEW s \in Sessions, NEW y, Moved(s, y)
  PROVE  /\ sess' \in [Sessions -> SessionTypes]
         /\ sess'[s] = y /\ \A t \in Sessions \ {s} : sess'[t] = sess[t]
BY DEF Types, Moved

LEMMA SessionsMade ==
  ASSUME NEW x \in SessionTypes
  PROVE  /\ Rest(x) \in SessionTypes /\ Ended(x) \in SessionTypes
         /\ Rest(x).catalog = x.catalog /\ Rest(x).tran = x.tran /\ Rest(x).tran_no = x.tran_no
         /\ Rest(x).autocommit = x.autocommit /\ Rest(x).pc = "idle"
         /\ Ended(x).catalog = x.catalog /\ NoTran(Ended(x)) /\ Ended(x).pc = "idle"
         /\ StepRight(Rest(x)) /\ StepRight(Ended(x))
         /\ Ended(x).kind = "none" /\ ~Ended(x).autocommit
<1>1. /\ NewSession(x.catalog) \in SessionTypes /\ NewSession(x.catalog).pc = "idle"
      /\ NoTran(NewSession(x.catalog)) /\ NewSession(x.catalog).catalog = x.catalog
      /\ NewSession(x.catalog).kind = "none" /\ ~NewSession(x.catalog).autocommit
  BY TranAssumption DEF NewSession, SessionTypes, Pcs, Kinds, Tids, NoTran, TRAN_INVALID_ID
<1>2. /\ Rest(x) \in SessionTypes /\ Rest(x).catalog = x.catalog /\ Rest(x).tran = x.tran
      /\ Rest(x).tran_no = x.tran_no /\ Rest(x).autocommit = x.autocommit /\ Rest(x).pc = "idle"
  BY <1>1 DEF Rest, SessionTypes
<1> QED BY <1>1, <1>2 DEF Ended, StepRight

\* The steps that change nothing else.
Alone(s) == \/ \E autocommit \in BOOLEAN : Begin(s, autocommit)
            \/ \E kind \in {"start", "insert", "loop"} : Continue(s, kind)
            \/ \E kind \in {"commit", "rollback"} : End(s, kind)
            \/ ReadFlags(s) \/ ReadRows(s) \/ RefuseInsert(s) \/ Find(s) \/ EndScan(s)

\* The rest of such a step: a transaction given up is not running, no step is skipped
\* that changes or reads a shared page, and a row found is a row of the page.
AloneMakes(s, y) ==
  /\ Moved(s, y)
  /\ \/ NoTran(y) /\ (sess[s].tran_no # 0 => ~Undecided(sess[s]))
     \/ SameTran(s, y) /\ (Undecided(y) <=> Undecided(sess[s]))
  /\ y.pc = "flag" => y.copy = {t \in flags : SameByte(t, sess[s].tran)}
  /\ Writing(y) => Writing(sess[s])
  /\ y.pc \notin {"fill", "save"}
  /\ y.pc = "delete" => y.row <= Page(s).occupied /\ Visible(s, Row(s, y.row))

LEMMA AloneMoves ==
  ASSUME Types, SessInv, NEW s \in Sessions, Alone(s)
  PROVE  /\ \E y : AloneMakes(s, y)
         /\ UNCHANGED <<seq, flags, table, disk, history, acked, raced>>
<1> PICK x \in SessionTypes : x = sess[s]
  BY Sessioned
<1>0. TranRight(x, history) /\ StepRight(x) /\ x.row \in 0 .. MaxRows + 1 /\ x.next \in Nat
  BY Sessioned DEF SessInv
<1>1. ASSUME NEW autocommit \in BOOLEAN, Begin(s, autocommit) PROVE \E y : AloneMakes(s, y)
  <2>1. x.pc = "idle" /\ (x.tran_no # 0 => ~Undecided(x))
    BY <1>0, <1>1 DEF Begin, TranRight, Undecided
  <2>2. CASE sess' = [sess EXCEPT ![s] = Ended(x)]
    BY <2>1, <2>2, SessionsMade DEF AloneMakes, Moved, Writing, NoTran
  <2>3. CASE /\ ~Overflow(s)
             /\ sess' = [sess EXCEPT ![s] = [Ended(x) EXCEPT !.pc = "nextval", !.next = NextTid(s),
                                                             !.autocommit = autocommit]]
    <3>1. NextTid(s) \in Nat /\ NextTid(s) \in 1 .. MaxTid
      <4>1. x.catalog \in Catalogs /\ seq[x.catalog] \in Tids
        BY Sessioned DEF Types, Seqs
      <4> QED BY <2>3, <4>1, TranAssumption DEF NextTid, Overflow, Tids
    <3>a. PICK e \in SessionTypes : e = Ended(x)
      BY SessionsMade
    <3>2. PICK y : y = [e EXCEPT !.pc = "nextval", !.next = NextTid(s), !.autocommit = autocommit]
      OBVIOUS
    <3>3. /\ y \in SessionTypes /\ y.pc = "nextval" /\ y.next = NextTid(s) /\ y.kind = "none"
          /\ y.tran_no = 0 /\ y.tran = TRAN_INVALID_ID /\ y.catalog = x.catalog
      <4>1. /\ e.kind = "none" /\ e.tran_no = 0 /\ e.tran = TRAN_INVALID_ID
            /\ e.catalog = x.catalog
        BY <3>a, SessionsMade DEF NoTran
      <4> QED BY <3>1, <3>2, <4>1 DEF SessionTypes, Pcs
    <3>4. StepRight(y)
      BY <3>1, <3>3 DEF StepRight
    <3> QED BY <2>1, <2>3, <3>a, <3>2, <3>3, <3>4 DEF AloneMakes, Moved, Writing, NoTran
  <2> QED BY <1>1, <2>2, <2>3 DEF Begin
<1>2. ASSUME NEW kind \in {"start", "insert", "loop"}, Continue(s, kind) PROVE \E y : AloneMakes(s, y)
  <2>1. x.pc = "idle" /\ x.tran_no # 0 /\ kind # "start"
    BY <1>0, <1>2 DEF Continue, TranRight
  <2>2. PICK y : y = IF kind = "insert" THEN [x EXCEPT !.kind = "none", !.pc = "insert"]
                     ELSE [x EXCEPT !.kind = "none", !.pc = "scan", !.row = 1]
    OBVIOUS
  <2>3. /\ y \in SessionTypes /\ y.pc = (IF kind = "insert" THEN "insert" ELSE "scan")
        /\ y.catalog = x.catalog /\ SameTran(s, y) /\ (kind = "loop" => y.row = 1)
    <3>1. CASE kind = "insert"
      BY <2>2, <3>1 DEF SessionTypes, Pcs, Kinds, SameTran
    <3>2. CASE kind = "loop"
      <4>1. 1 \in 0 .. MaxRows + 1
        BY TranAssumption
      <4> QED BY <2>2, <3>2, <4>1 DEF SessionTypes, Pcs, Kinds, SameTran
    <3> QED BY <2>1, <3>1, <3>2
  <2>4. sess' = [sess EXCEPT ![s] = y]
    BY <1>2, <2>1, <2>2 DEF Continue, Proceed, SessionTypes
  <2>5. StepRight(y)
    BY <2>1, <2>3 DEF StepRight, SameTran
  <2> QED BY <2>1, <2>3, <2>4, <2>5 DEF AloneMakes, Moved, Writing, SameTran, Undecided
<1>3. ASSUME NEW kind \in {"commit", "rollback"}, End(s, kind) PROVE \E y : AloneMakes(s, y)
  <2>1. x.pc = "idle" /\ x.tran_no # 0 /\ ~x.autocommit
    BY <1>0, <1>3 DEF End, TranRight
  <2>2. PICK y : y = [x EXCEPT !.pc = "put_flag", !.kind = kind]
    OBVIOUS
  <2>3. /\ y \in SessionTypes /\ y.pc = "put_flag" /\ y.kind = kind
        /\ y.catalog = x.catalog /\ SameTran(s, y)
    BY <2>2 DEF SessionTypes, Pcs, Kinds, SameTran
  <2>4. sess' = [sess EXCEPT ![s] = y]
    BY <1>3, <2>2 DEF End, Goto, Types
  <2>5. StepRight(y)
    BY <2>1, <2>3 DEF StepRight, SameTran
  <2> QED BY <2>1, <2>3, <2>4, <2>5 DEF AloneMakes, Moved, Writing, SameTran, Undecided
<1>4. ASSUME ReadFlags(s) PROVE \E y : AloneMakes(s, y)
  <2>1. x.pc = "put_flag" /\ {t \in flags : SameByte(t, x.tran)} \subseteq Tids
    BY <1>4 DEF ReadFlags, Types
  <2>2. PICK y : y = [x EXCEPT !.pc = "flag", !.copy = {t \in flags : SameByte(t, x.tran)}]
    OBVIOUS
  <2>3. /\ y \in SessionTypes /\ y.pc = "flag" /\ y.kind = x.kind
        /\ y.catalog = x.catalog /\ SameTran(s, y) /\ y.copy = {t \in flags : SameByte(t, x.tran)}
    BY <2>1, <2>2 DEF SessionTypes, Pcs, SameTran
  <2>4. sess' = [sess EXCEPT ![s] = y]
    BY <1>4, <2>2 DEF ReadFlags, Types
  <2>5. StepRight(y)
    BY <1>0, <2>1, <2>3 DEF StepRight, SameTran
  <2> QED BY <2>1, <2>3, <2>4, <2>5 DEF AloneMakes, Moved, Writing, SameTran, Undecided
<1>5. ASSUME ReadRows(s) PROVE \E y : AloneMakes(s, y)
  <2>1. x.pc = "insert" /\ Page(s).occupied + 1 \in 1 .. MaxRows
    <3>1. x.catalog \in Catalogs
      BY Sessioned
    <3> QED BY <1>5, <3>1, RowTyped, TranAssumption DEF ReadRows, Types, Page
  <2>a. PICK i \in Nat : i = Page(s).occupied + 1
    BY <2>1, TranAssumption
  <2>2. PICK y : y = [x EXCEPT !.pc = "alloc", !.next = i]
    OBVIOUS
  <2>3. /\ y \in SessionTypes /\ y.pc = "alloc" /\ y.next = Page(s).occupied + 1
        /\ y.catalog = x.catalog /\ SameTran(s, y)
    BY <2>a, <2>2 DEF SessionTypes, Pcs, SameTran
  <2>4. sess' = [sess EXCEPT ![s] = y]
    BY <1>5, <2>a, <2>2 DEF ReadRows, Types
  <2>5. StepRight(y)
    BY <1>0, <2>1, <2>3 DEF StepRight, SameTran
  <2> QED BY <1>0, <2>1, <2>3, <2>4, <2>5 DEF AloneMakes, Moved, Writing, SameTran, Undecided, StepRight
<1>6. ASSUME RefuseInsert(s) \/ EndScan(s) PROVE \E y : AloneMakes(s, y)
  <2>1. x.pc \in {"insert", "fill", "scan"} /\ sess' = [sess EXCEPT ![s] = Rest(x)]
    BY <1>6 DEF RefuseInsert, EndScan
  <2>2. PICK y \in SessionTypes : y = Rest(x)
    BY SessionsMade
  <2>3. Moved(s, y) /\ SameTran(s, y) /\ y.pc = "idle"
    BY <2>1, <2>2, SessionsMade DEF Moved, SameTran
  <2> QED BY <2>1, <2>3 DEF AloneMakes, Writing, SameTran, Undecided
<1>7. ASSUME Find(s) PROVE \E y : AloneMakes(s, y)
  <2>1. x.pc = "scan" /\ x.row # 0
    BY <1>0, <1>7 DEF Find, StepRight
  <2>2. PICK i \in x.row .. Page(s).occupied :
          Visible(s, Row(s, i)) /\ sess' = [sess EXCEPT ![s].pc = "delete", ![s].row = i]
    BY <1>7 DEF Find
  <2>3. i \in 1 .. MaxRows /\ i \in 0 .. MaxRows + 1 /\ i <= Page(s).occupied
    <3>1. x.catalog \in Catalogs
      BY Sessioned
    <3> QED BY <1>0, <2>1, <2>2, <3>1, RowTyped, TranAssumption DEF Types, Page
  <2>4. PICK y : y = [x EXCEPT !.pc = "delete", !.row = i]
    OBVIOUS
  <2>5. /\ y \in SessionTypes /\ y.pc = "delete" /\ y.row = i
        /\ y.catalog = x.catalog /\ SameTran(s, y)
    BY <2>3, <2>4 DEF SessionTypes, Pcs, SameTran
  <2>6. sess' = [sess EXCEPT ![s] = y]
    BY <2>2, <2>4 DEF Types
  <2>7. StepRight(y)
    BY <1>0, <2>1, <2>3, <2>5 DEF StepRight, SameTran
  <2> QED BY <1>0, <2>1, <2>2, <2>3, <2>5, <2>6, <2>7
          DEF AloneMakes, Moved, Writing, SameTran, Undecided, StepRight
<1> QED BY <1>1, <1>2, <1>3, <1>4, <1>5, <1>6, <1>7
        DEF Alone, Begin, Continue, End, ReadFlags, ReadRows, RefuseInsert, Find, EndScan

\* What is kept when the other steps are taken.
Kept(s, y) == Moved(s, y) /\ SameTran(s, y) /\ (Undecided(y) <=> Undecided(sess[s]))

LEMMA NextValMoves ==
  ASSUME Types, SessInv, NEW s \in Sessions, NextVal(s)
  PROVE  \E y : /\ Moved(s, y) /\ sess[s].pc = "nextval" /\ sess[s].tran_no = 0
                /\ y.tran_no = Len(history) + 1 /\ y.tran = sess[s].next /\ y.tran \in 1 .. MaxTid
                /\ y.pc \in {"put_flag", "save_seq"} /\ Undecided(y)
<1> PICK x \in SessionTypes : x = sess[s]
  BY Sessioned
<1>0. StepRight(x) /\ x.pc = "nextval" /\ x.next \in 1 .. MaxTid /\ x.kind = "none" /\ x.tran_no = 0
  BY DEF SessInv, StepRight, NextVal
<1>1. Len(history) + 1 \in Nat /\ Len(history') = Len(history) + 1
  <2>1. history \in Seq(Transactions) /\ history' = Append(history, [tid |-> x.next, catalog |-> x.catalog,
                               fate |-> "running", saved |-> FALSE, crossed |-> FALSE])
    BY DEF NextVal, Types, Histories
  <2>2. [tid |-> x.next, catalog |-> x.catalog, fate |-> "running", saved |-> FALSE, crossed |-> FALSE]
           \in Transactions
    BY <1>0 DEF Transactions, Fates, SessionTypes
  <2> QED BY <2>1, <2>2, AppendProperties, LenProperties
<1>2. PICK p \in {"put_flag", "save_seq"} : p = IF x.autocommit THEN "put_flag" ELSE "save_seq"
  OBVIOUS
<1>a. PICK l \in Nat : l = Len(history') /\ l = Len(history) + 1
  BY <1>1
<1>3. PICK y : y = [x EXCEPT !.pc = p, !.tran = x.next, !.tran_no = l, !.next = 0]
  OBVIOUS
<1>4. /\ y \in SessionTypes /\ y.pc = p /\ y.tran = x.next /\ y.tran_no = l
      /\ y.kind = "none" /\ y.autocommit = x.autocommit /\ y.catalog = x.catalog
  <2>1. x.next \in Tids /\ 0 \in Nat
    BY <1>0, TranAssumption DEF Tids
  <2>2. PICK z \in SessionTypes : z = [x EXCEPT !.pc = p, !.tran = x.next]
    BY <2>1 DEF SessionTypes, Pcs
  <2>3. y = [z EXCEPT !.tran_no = l, !.next = 0]
    BY <1>3, <2>2 DEF SessionTypes
  <2>4. /\ z.pc = p /\ z.tran = x.next /\ z.kind = "none" /\ z.autocommit = x.autocommit
        /\ z.catalog = x.catalog
    BY <1>0, <2>2 DEF SessionTypes
  <2> QED BY <2>1, <2>3, <2>4 DEF SessionTypes
<1>5. sess' = [sess EXCEPT ![s] = y]
  BY <1>2, <1>a, <1>3 DEF NextVal
<1>6. StepRight(y)
  BY <1>a, <1>2, <1>4 DEF StepRight
<1> QED BY <1>0, <1>a, <1>2, <1>4, <1>5, <1>6 DEF Moved, Undecided

LEMMA SaveSeqMoves ==
  ASSUME Types, SessInv, NEW s \in Sessions, NEW kind \in {"start", "insert", "loop"},
         SaveSeq(s, kind)
  PROVE  \E y : Kept(s, y) /\ y.pc \in {"insert", "scan", "idle"}
<1> PICK x \in SessionTypes : x = sess[s]
  BY Sessioned
<1>0. StepRight(x) /\ x.pc = "save_seq" /\ x.tran_no # 0
  BY DEF SessInv, StepRight, SaveSeq
<1>1. PICK z \in SessionTypes : z = [x EXCEPT !.kind = kind]
  BY DEF SessionTypes, Kinds
<1>2. /\ z.kind = kind /\ z.pc = x.pc /\ z.catalog = x.catalog /\ z.tran = x.tran
      /\ z.tran_no = x.tran_no /\ z.autocommit = x.autocommit
  BY <1>1 DEF SessionTypes
<1>3. CASE kind = "start"
  <2>1. PICK y \in SessionTypes : y = Rest(z)
    BY SessionsMade
  <2>2. Moved(s, y) /\ SameTran(s, y) /\ y.pc = "idle"
    BY <1>1, <1>2, <1>3, <2>1, SessionsMade DEF Moved, SameTran, SaveSeq, Proceed
  <2> QED BY <1>0, <2>2 DEF Kept, SameTran, Undecided
<1>4. CASE kind = "insert"
  <2>1. PICK y : y = [z EXCEPT !.pc = "insert", !.kind = "none"]
    OBVIOUS
  <2>2. /\ y \in SessionTypes /\ y.pc = "insert" /\ SameTran(s, y) /\ y.catalog = x.catalog
    BY <1>2, <2>1 DEF SessionTypes, Pcs, Kinds, SameTran
  <2>3. sess' = [sess EXCEPT ![s] = y]
    BY <1>1, <1>2, <1>4, <2>1 DEF SaveSeq, Proceed
  <2> QED BY <1>0, <2>2, <2>3 DEF Kept, Moved, SameTran, Undecided, StepRight
<1>5. CASE kind = "loop"
  <2>1. PICK y : y = [z EXCEPT !.pc = "scan", !.kind = "none", !.row = 1]
    OBVIOUS
  <2>2. /\ y \in SessionTypes /\ y.pc = "scan" /\ SameTran(s, y) /\ y.catalog = x.catalog /\ y.row = 1
    <3>1. 1 \in 0 .. MaxRows + 1
      BY TranAssumption
    <3> QED BY <1>2, <2>1, <3>1 DEF SessionTypes, Pcs, Kinds, SameTran
  <2>3. sess' = [sess EXCEPT ![s] = y]
    BY <1>1, <1>2, <1>5, <2>1 DEF SaveSeq, Proceed
  <2>4. StepRight(y)
    BY <1>0, <2>2 DEF SameTran, StepRight
  <2> QED BY <1>0, <2>2, <2>3, <2>4 DEF Kept, Moved, SameTran, Undecided
<1> QED BY <1>3, <1>4, <1>5

LEMMA PutFlagMoves ==
  ASSUME Types, SessInv, NEW s \in Sessions, PutFlag(s)
  PROVE  \E y : /\ Moved(s, y) /\ SameTran(s, y) /\ y.pc = "save_flags"
                /\ sess[s].pc = "flag" /\ sess[s].tran_no # 0 /\ Undecided(sess[s])
<1> PICK x \in SessionTypes : x = sess[s]
  BY Sessioned
<1>0. StepRight(x) /\ x.pc = "flag" /\ x.tran_no # 0
  BY DEF SessInv, StepRight, PutFlag
<1>1. PICK y : y = [x EXCEPT !.pc = "save_flags", !.copy = {}]
  OBVIOUS
<1>2. /\ y \in SessionTypes /\ y.pc = "save_flags" /\ SameTran(s, y) /\ y.catalog = x.catalog
      /\ y.kind = x.kind
  BY <1>1 DEF SessionTypes, Pcs, SameTran
<1>3. sess' = [sess EXCEPT ![s] = y]
  BY <1>1 DEF PutFlag, Types
<1>4. StepRight(y)
  BY <1>0, <1>2 DEF StepRight, SameTran
<1> QED BY <1>0, <1>2, <1>3, <1>4 DEF Moved, Undecided

LEMMA SaveFlagsMoves ==
  ASSUME Types, SessInv, NEW s \in Sessions, SaveFlags(s)
  PROVE  \E y : /\ Moved(s, y) /\ y.pc \in {"idle", "save_seq"}
                /\ sess[s].pc = "save_flags" /\ sess[s].tran_no # 0 /\ ~Undecided(sess[s])
                /\ NoTran(y) \/ (SameTran(s, y) /\ ~Undecided(y))
                /\ ~Writing(y)
<1> PICK x \in SessionTypes : x = sess[s]
  BY Sessioned
<1>0. StepRight(x) /\ x.pc = "save_flags" /\ x.tran_no # 0
  BY DEF SessInv, StepRight, SaveFlags
<1>1. CASE x.kind \in {"commit", "rollback"}
  <2>1. PICK y \in SessionTypes : y = Ended(x)
    BY SessionsMade
  <2>2. sess' = [sess EXCEPT ![s] = y]
    BY <1>1, <2>1 DEF SaveFlags
  <2> QED BY <1>0, <2>1, <2>2, SessionsMade DEF Moved, Undecided, NoTran, Writing
<1>2. CASE x.kind \notin {"commit", "rollback"}
  <2>1. PICK y : y = [x EXCEPT !.pc = "save_seq"]
    OBVIOUS
  <2>2. /\ y \in SessionTypes /\ y.pc = "save_seq" /\ SameTran(s, y) /\ y.catalog = x.catalog
    BY <2>1 DEF SessionTypes, Pcs, SameTran
  <2>3. sess' = [sess EXCEPT ![s] = y]
    BY <1>2, <2>1 DEF SaveFlags
  <2>4. StepRight(y) /\ x.autocommit
    BY <1>0, <1>2, <2>2 DEF StepRight, SameTran
  <2> QED BY <1>0, <2>2, <2>3, <2>4 DEF Moved, Undecided, SameTran, Writing
<1> QED BY <1>1, <1>2

LEMMA AllocRowMoves ==
  ASSUME Types, SessInv, NEW s \in Sessions, AllocRow(s)
  PROVE  \E y : /\ Kept(s, y) /\ y.pc = "fill" /\ y.row = sess[s].next
                /\ sess[s].pc = "alloc" /\ sess[s].next \in 1 .. MaxRows /\ Writing(sess[s])
<1> PICK x \in SessionTypes : x = sess[s]
  BY Sessioned
<1>0. StepRight(x) /\ x.pc = "alloc" /\ x.tran_no # 0 /\ x.next \in 1 .. MaxRows
  BY DEF SessInv, StepRight, AllocRow
<1>1. PICK y : y = [x EXCEPT !.pc = "fill", !.row = x.next, !.next = 0]
  OBVIOUS
<1>2. /\ y \in SessionTypes /\ y.pc = "fill" /\ SameTran(s, y) /\ y.catalog = x.catalog /\ y.row = x.next
  <2>1. x.next \in 0 .. MaxRows + 1
    BY <1>0, TranAssumption
  <2> QED BY <1>1, <2>1 DEF SessionTypes, Pcs, SameTran
<1>3. sess' = [sess EXCEPT ![s] = y]
  BY <1>1 DEF AllocRow
<1>4. StepRight(y)
  BY <1>0, <1>2 DEF StepRight, SameTran
<1> QED BY <1>0, <1>2, <1>3, <1>4 DEF Kept, Moved, Undecided, SameTran, Writing

LEMMA FillRowMoves ==
  ASSUME Types, SessInv, NEW s \in Sessions, FillRow(s)
  PROVE  \E y : /\ Kept(s, y) /\ y.pc = "save" /\ y.kind = "insert" /\ y.row = sess[s].row
                /\ sess[s].pc = "fill" /\ sess[s].row \in 1 .. MaxRows /\ Writing(sess[s])
<1> PICK x \in SessionTypes : x = sess[s]
  BY Sessioned
<1>0. StepRight(x) /\ x.pc = "fill" /\ x.tran_no # 0 /\ x.row \in 1 .. MaxRows
  BY DEF SessInv, StepRight, FillRow
<1>1. PICK y : y = [x EXCEPT !.pc = "save", !.kind = "insert"]
  OBVIOUS
<1>2. /\ y \in SessionTypes /\ y.pc = "save" /\ SameTran(s, y) /\ y.catalog = x.catalog
      /\ y.kind = "insert" /\ y.row = x.row
  BY <1>1 DEF SessionTypes, Pcs, Kinds, SameTran
<1>3. sess' = [sess EXCEPT ![s] = y]
  BY <1>1 DEF FillRow, Goto, Types
<1>4. StepRight(y)
  BY <1>0, <1>2 DEF StepRight, SameTran
<1> QED BY <1>0, <1>2, <1>3, <1>4 DEF Kept, Moved, Undecided, SameTran, Writing

LEMMA DeleteRowMoves ==
  ASSUME Types, SessInv, NEW s \in Sessions, DeleteRow(s)
  PROVE  \E y : /\ Kept(s, y) /\ y.pc = "save" /\ y.kind = "delete" /\ y.row = sess[s].row
                /\ sess[s].pc = "delete" /\ sess[s].row \in 1 .. MaxRows /\ Writing(sess[s])
<1> PICK x \in SessionTypes : x = sess[s]
  BY Sessioned
<1>0. StepRight(x) /\ x.pc = "delete" /\ x.tran_no # 0 /\ x.row \in 1 .. MaxRows
  BY DEF SessInv, StepRight, DeleteRow
<1>1. PICK y : y = [x EXCEPT !.pc = "save", !.kind = "delete"]
  OBVIOUS
<1>2. /\ y \in SessionTypes /\ y.pc = "save" /\ SameTran(s, y) /\ y.catalog = x.catalog
      /\ y.kind = "delete" /\ y.row = x.row
  BY <1>1 DEF SessionTypes, Pcs, Kinds, SameTran
<1>3. sess' = [sess EXCEPT ![s] = y]
  BY <1>1 DEF DeleteRow, Goto, Types
<1>4. StepRight(y)
  BY <1>0, <1>2 DEF StepRight, SameTran
<1> QED BY <1>0, <1>2, <1>3, <1>4 DEF Kept, Moved, Undecided, SameTran, Writing

LEMMA SaveMoves ==
  ASSUME Types, SessInv, NEW s \in Sessions, Save(s)
  PROVE  \E y : /\ Kept(s, y) /\ y.pc \in {"idle", "scan"}
                /\ sess[s].pc = "save" /\ sess[s].row \in 1 .. MaxRows /\ Writing(sess[s])
                /\ sess[s].kind \in {"insert", "delete"}
<1> PICK x \in SessionTypes : x = sess[s]
  BY Sessioned
<1>0. /\ StepRight(x) /\ x.pc = "save" /\ x.tran_no # 0 /\ x.row \in 1 .. MaxRows
      /\ x.kind \in {"insert", "delete"}
  BY DEF SessInv, StepRight, Save
<1>1. CASE x.kind = "insert"
  <2>1. PICK y \in SessionTypes : y = Rest(x)
    BY SessionsMade
  <2>2. Moved(s, y) /\ SameTran(s, y) /\ y.pc = "idle"
    BY <1>1, <2>1, SessionsMade DEF Moved, SameTran, Save
  <2> QED BY <1>0, <2>2 DEF Kept, SameTran, Undecided, Writing
<1>2. CASE x.kind = "delete"
  <2>a. PICK i \in 0 .. MaxRows + 1 : i = x.row + 1 /\ i # 0
    BY <1>0, TranAssumption
  <2>1. PICK y : y = [x EXCEPT !.pc = "scan", !.kind = "none", !.row = i]
    OBVIOUS
  <2>2. /\ y \in SessionTypes /\ y.pc = "scan" /\ SameTran(s, y) /\ y.catalog = x.catalog /\ y.row = i
    BY <2>1 DEF SessionTypes, Pcs, Kinds, SameTran
  <2>3. sess' = [sess EXCEPT ![s] = y]
    BY <1>2, <2>a, <2>1 DEF Save
  <2>4. StepRight(y)
    BY <1>0, <2>a, <2>2 DEF StepRight, SameTran
  <2> QED BY <1>0, <2>2, <2>3, <2>4 DEF Kept, Moved, Undecided, SameTran, Writing
<1> QED BY <1>0, <1>1, <1>2

LEMMA DisconnectMoves ==
  ASSUME Types, SessInv, NEW s \in Sessions, Disconnect(s)
  PROVE  \E y : Moved(s, y) /\ NoTran(y) /\ y.pc = "idle"
<1> PICK x \in SessionTypes : x = sess[s]
  BY Sessioned
<1>1. PICK y \in SessionTypes : y = Ended(x)
  BY SessionsMade
<1>2. NoTran(y) /\ y.pc = "idle" /\ y.catalog = x.catalog /\ StepRight(y)
  BY <1>1, SessionsMade
<1>3. sess' = [sess EXCEPT ![s] = y]
  BY <1>1 DEF Disconnect
<1> QED BY <1>2, <1>3 DEF Moved

-----------------------------------------------------------------------------
(* What a step makes of the history.                                       *)

\* Transactions keep their ids and catalogs.
Extends(h, k) == /\ DOMAIN h \subseteq DOMAIN k
                 /\ \A n \in DOMAIN h : k[n].tid = h[n].tid /\ k[n].catalog = h[n].catalog

LEMMA ChangedHistory ==
  ASSUME NEW h \in Histories, NEW k \in [DOMAIN h -> Transactions]
  PROVE  k \in Histories /\ DOMAIN k = DOMAIN h
BY HistoryTypes, SeqDef DEF Histories

LEMMA NextValHistory ==
  ASSUME Types, SessInv, NEW s \in Sessions, NextVal(s)
  PROVE  /\ history' \in Histories /\ DOMAIN history' = DOMAIN history \cup {Len(history) + 1}
         /\ Len(history) + 1 \notin DOMAIN history
         /\ \A n \in DOMAIN history : history'[n] = history[n]
         /\ history'[Len(history) + 1] =
              [tid |-> sess[s].next, catalog |-> sess[s].catalog, fate |-> "running",
               saved |-> FALSE, crossed |-> FALSE]
<1>1. PICK e \in Transactions :
        e = [tid |-> sess[s].next, catalog |-> sess[s].catalog, fate |-> "running",
             saved |-> FALSE, crossed |-> FALSE]
  <2>1. sess[s].next \in 1 .. MaxTid /\ sess[s].catalog \in Catalogs
    BY Sessioned DEF SessInv, StepRight, NextVal
  <2> QED BY <2>1 DEF Transactions, Fates
<1>2. history \in Seq(Transactions) /\ history' = Append(history, e)
  BY <1>1 DEF NextVal, Types, Histories
<1>3. /\ history' \in Seq(Transactions) /\ Len(history') = Len(history) + 1
      /\ history'[Len(history) + 1] = e
      /\ \A n \in 1 .. Len(history) : history'[n] = history[n]
  BY <1>2, AppendProperties
<1>4. /\ DOMAIN history = 1 .. Len(history) /\ DOMAIN history' = 1 .. Len(history')
      /\ Len(history) \in Nat
  BY <1>2, <1>3, LenProperties
<1> QED BY <1>1, <1>3, <1>4 DEF Histories

\* The fate of s's transaction is decided; another may be crossed.
DecidedBy(s, h, k) ==
  /\ k \in Histories /\ DOMAIN k = DOMAIN h /\ Extends(h, k)
  /\ \A n \in DOMAIN h :
       /\ k[n].saved = h[n].saved
       /\ n # sess[s].tran_no => k[n].fate = h[n].fate /\ (h[n].crossed => k[n].crossed)
       /\ n # sess[s].tran_no /\ sess[s].kind = "rollback" /\ h[n].tid = sess[s].tran => k[n].crossed
       /\ n = sess[s].tran_no =>
            /\ k[n].fate = IF sess[s].kind = "rollback" THEN "aborted" ELSE "committed"
            /\ ~k[n].crossed => \A t \in Sessions \ {s} :
                 ~(sess[t].pc = "flag" /\ SameByte(sess[t].tran, sess[s].tran))

LEMMA PutFlagHistory ==
  ASSUME Types, SessInv, NEW s \in Sessions, PutFlag(s)
  PROVE  DecidedBy(s, history, history')
<1> PICK x \in SessionTypes : x = sess[s]
  BY Sessioned
<1> PICK h \in Histories : h = history
  BY DEF Types
<1> PICK b \in BOOLEAN : b = ({t \in Sessions \ {s} : sess[t].pc = "flag" /\ SameByte(sess[t].tran, x.tran)} # {})
  OBVIOUS
<1> PICK f \in Fates : f = IF x.kind = "rollback" THEN "aborted" ELSE "committed"
  BY DEF Fates
<1>1. history' = [n \in DOMAIN h |->
         IF n = x.tran_no THEN [h[n] EXCEPT !.fate = f, !.crossed = b]
         ELSE IF x.kind = "rollback" /\ h[n].tid = x.tran THEN [h[n] EXCEPT !.crossed = TRUE]
         ELSE h[n]]
  BY DEF PutFlag, Decided
<1>2. ASSUME NEW n \in DOMAIN h
      PROVE  /\ history'[n] \in Transactions
             /\ history'[n].tid = h[n].tid /\ history'[n].catalog = h[n].catalog
             /\ history'[n].saved = h[n].saved
             /\ n # x.tran_no => history'[n].fate = h[n].fate /\ (h[n].crossed => history'[n].crossed)
             /\ n # x.tran_no /\ x.kind = "rollback" /\ h[n].tid = x.tran => history'[n].crossed
             /\ n = x.tran_no => history'[n].fate = f /\ history'[n].crossed = b
  <2>1. h[n] \in Transactions
    BY HistoryTypes
  <2>2. CASE n = x.tran_no
    <3>1. history'[n] = [h[n] EXCEPT !.fate = f, !.crossed = b]
      BY <1>1, <2>2
    <3> QED BY <2>1, <2>2, <3>1 DEF Transactions
  <2>3. CASE n # x.tran_no /\ x.kind = "rollback" /\ h[n].tid = x.tran
    <3>1. history'[n] = [h[n] EXCEPT !.crossed = TRUE]
      BY <1>1, <2>3
    <3> QED BY <2>1, <2>3, <3>1 DEF Transactions
  <2>4. CASE n # x.tran_no /\ ~(x.kind = "rollback" /\ h[n].tid = x.tran)
    BY <1>1, <2>1, <2>4
  <2> QED BY <2>2, <2>3, <2>4
<1>3. history' \in [DOMAIN h -> Transactions]
  BY <1>1, <1>2
<1>4. history' \in Histories /\ DOMAIN history' = DOMAIN h
  BY <1>3, ChangedHistory
<1>5. Extends(h, history')
  BY <1>2, <1>4 DEF Extends
<1>6. ~b => \A t \in Sessions \ {s} : ~(sess[t].pc = "flag" /\ SameByte(sess[t].tran, x.tran))
  OBVIOUS
<1> HIDE DEF SameByte
<1>7. ASSUME NEW n \in DOMAIN history
      PROVE  /\ history'[n].saved = history[n].saved
             /\ n # sess[s].tran_no => history'[n].fate = history[n].fate
                                       /\ (history[n].crossed => history'[n].crossed)
             /\ n # sess[s].tran_no /\ sess[s].kind = "rollback" /\ history[n].tid = sess[s].tran
                  => history'[n].crossed
             /\ n = sess[s].tran_no =>
                  /\ history'[n].fate = IF sess[s].kind = "rollback" THEN "aborted" ELSE "committed"
                  /\ history'[n].crossed = b
  BY <1>2
<1> QED BY <1>4, <1>5, <1>6, <1>7 DEF DecidedBy

LEMMA SaveFlagsHistory ==
  ASSUME Types, SessInv, NEW s \in Sessions, SaveFlags(s)
  PROVE  /\ history' \in Histories /\ DOMAIN history' = DOMAIN history /\ Extends(history, history')
         /\ \A n \in DOMAIN history :
              /\ history'[n].fate = history[n].fate /\ history'[n].crossed = history[n].crossed
              /\ n # sess[s].tran_no => history'[n].saved = history[n].saved
<1> PICK h \in Histories : h = history
  BY DEF Types
<1>1. history' = [h EXCEPT ![sess[s].tran_no].saved = TRUE]
  BY DEF SaveFlags
<1>2. ASSUME NEW n \in DOMAIN h
      PROVE  /\ history'[n] \in Transactions
             /\ history'[n].tid = h[n].tid /\ history'[n].catalog = h[n].catalog
             /\ history'[n].fate = h[n].fate /\ history'[n].crossed = h[n].crossed
             /\ n # sess[s].tran_no => history'[n].saved = h[n].saved
  <2>1. h[n] \in Transactions
    BY HistoryTypes
  <2> QED BY <1>1, <2>1 DEF Transactions
<1>3. DOMAIN history' = DOMAIN h /\ history' \in [DOMAIN h -> Transactions]
  BY <1>1, <1>2
<1>4. history' \in Histories
  BY <1>3, ChangedHistory
<1> QED BY <1>2, <1>3, <1>4 DEF Extends

LEMMA AbandonHistory ==
  ASSUME Types, NEW T, Abandon(T)
  PROVE  /\ history' \in Histories /\ DOMAIN history' = DOMAIN history /\ Extends(history, history')
         /\ \A n \in DOMAIN history :
              /\ history'[n].crossed = history[n].crossed /\ history'[n].saved = history[n].saved
              /\ n \in T => history'[n].fate = "aborted"
              /\ n \notin T => history'[n].fate = history[n].fate
<1> PICK h \in Histories : h = history
  BY DEF Types
<1>1. history' = [n \in DOMAIN h |-> IF n \in T THEN [h[n] EXCEPT !.fate = "aborted"] ELSE h[n]]
  BY DEF Abandon
<1>2. ASSUME NEW n \in DOMAIN h
      PROVE  /\ history'[n] \in Transactions
             /\ history'[n].tid = h[n].tid /\ history'[n].catalog = h[n].catalog
             /\ history'[n].crossed = h[n].crossed /\ history'[n].saved = h[n].saved
             /\ n \in T => history'[n].fate = "aborted"
             /\ n \notin T => history'[n].fate = h[n].fate
  <2>1. h[n] \in Transactions
    BY HistoryTypes
  <2>2. CASE n \in T
    <3>1. history'[n] = [h[n] EXCEPT !.fate = "aborted"]
      BY <1>1, <2>2
    <3> QED BY <2>1, <2>2, <3>1 DEF Transactions, Fates
  <2>3. CASE n \notin T
    BY <1>1, <2>1, <2>3
  <2> QED BY <2>2, <2>3
<1>3. history' \in [DOMAIN h -> Transactions]
  BY <1>1, <1>2
<1>4. history' \in Histories /\ DOMAIN history' = DOMAIN h
  BY <1>3, ChangedHistory
<1> QED BY <1>2, <1>4 DEF Extends

-----------------------------------------------------------------------------
(* Sessions.                                                               *)

\* The other sessions' transactions run on, and so do only s's besides.
LEMMA SessKept ==
  ASSUME Types, SessInv, NEW s \in Sessions, NEW y, Moved(s, y),
         TranRight(y, history'), Extends(history, history'),
         y.tran_no = 0 \/ y.tran_no = sess[s].tran_no \/ y.tran_no \notin DOMAIN history,
         \A n \in DOMAIN history : n # sess[s].tran_no =>
           (history'[n].fate = "running" <=> history[n].fate = "running"),
         \A n \in DOMAIN history' : history'[n].fate = "running" =>
           /\ ~history'[n].saved
           /\ n = y.tran_no \/ (n \in DOMAIN history /\ n # sess[s].tran_no)
  PROVE  SessInv'
<1>1. sess'[s] = y /\ \A t \in Sessions \ {s} : sess'[t] = sess[t]
  BY Moves
<1>2. ASSUME NEW t \in Sessions PROVE TranRight(sess'[t], history') /\ StepRight(sess'[t])
  <2>1. CASE t = s
    BY <1>1, <2>1 DEF Moved
  <2>2. CASE t # s
    <3>1. TranRight(sess[t], history) /\ StepRight(sess[t]) /\ sess'[t] = sess[t]
      BY <1>1, <2>2 DEF SessInv
    <3>2. sess[t].tran_no # 0 => sess[t].tran_no # sess[s].tran_no
      BY <2>2 DEF SessInv, Distinct
    <3> QED BY <3>1, <3>2 DEF TranRight, Extends
  <2> QED BY <2>1, <2>2
<1>3. Distinct(sess')
  <2> SUFFICES ASSUME NEW a \in Sessions, NEW b \in Sessions, a # b, sess'[a].tran_no # 0
               PROVE  sess'[a].tran_no # sess'[b].tran_no
    BY DEF Distinct
  <2>1. \A t \in Sessions \ {s} : sess[t].tran_no # 0 =>
          sess[t].tran_no \in DOMAIN history /\ sess[t].tran_no # sess[s].tran_no
    BY DEF SessInv, TranRight, Distinct
  <2> QED BY <1>1, <2>1 DEF SessInv, Distinct
<1>4. RunningHeld(history', sess')
  <2> SUFFICES ASSUME NEW m \in DOMAIN history', history'[m].fate = "running"
               PROVE  Held(m, sess')
    BY DEF RunningHeld
  <2>1. CASE m = y.tran_no
    BY <1>1, <2>1 DEF Held
  <2>2. CASE m \in DOMAIN history /\ m # sess[s].tran_no
    <3>1. PICK t \in Sessions : sess[t].tran_no = m
      BY <2>2 DEF SessInv, RunningHeld, Held
    <3> QED BY <1>1, <2>2, <3>1 DEF Held
  <2> QED BY <2>1, <2>2
<1> QED BY <1>2, <1>3, <1>4 DEF SessInv

\* A session's transaction is what it was.
LEMMA SessKeptAlone ==
  ASSUME Types, SessInv, NEW s \in Sessions, NEW y, Moved(s, y), history' = history,
         \/ NoTran(y) /\ (sess[s].tran_no # 0 => ~Undecided(sess[s]))
         \/ SameTran(s, y) /\ (Undecided(y) <=> Undecided(sess[s]))
  PROVE  SessInv'
<1>1. TranRight(sess[s], history) /\ TranRight(y, history)
  BY DEF SessInv, TranRight, NoTran, SameTran, Moved
<1>2. ASSUME NEW n \in DOMAIN history, history[n].fate = "running"
      PROVE  ~history[n].saved /\ (n = y.tran_no \/ n # sess[s].tran_no)
  <2>1. n # 0
    BY HistoryTypes DEF Types
  <2> QED BY <1>1, <1>2, <2>1 DEF SessInv, RunningHeld, TranRight, NoTran, SameTran
<1> QED BY <1>1, <1>2, SessKept DEF Extends, NoTran, SameTran

LEMMA Cases ==
  ASSUME Next
  PROVE  \/ \E s \in Sessions :
              \/ Alone(s) \/ NextVal(s) \/ (\E kind \in {"start", "insert", "loop"} : SaveSeq(s, kind))
              \/ PutFlag(s) \/ SaveFlags(s) \/ AllocRow(s) \/ FillRow(s) \/ DeleteRow(s) \/ Save(s)
              \/ Disconnect(s)
         \/ \E c \in Catalogs : WriteBack(c)
         \/ Restart
BY DEF Next, Alone

LEMMA NextValSess ==
  ASSUME Types, SessInv, NEW s \in Sessions, NextVal(s)
  PROVE  SessInv'
<1> PICK y : /\ Moved(s, y) /\ sess[s].tran_no = 0
             /\ y.tran_no = Len(history) + 1 /\ y.tran = sess[s].next /\ y.tran \in 1 .. MaxTid
             /\ Undecided(y)
  BY NextValMoves
<1>1. y.tran_no \in DOMAIN history' /\ y.tran_no \notin DOMAIN history /\ y.tran_no # 0
  <2>1. history' \in Histories
    BY NextValHistory
  <2> QED BY <2>1, NextValHistory, HistoryTypes
<1>a. PICK e : /\ e = [tid |-> sess[s].next, catalog |-> sess[s].catalog, fate |-> "running",
                       saved |-> FALSE, crossed |-> FALSE]
               /\ history'[y.tran_no] = e
  BY NextValHistory, Zenon
<1>b. e.tid = y.tran /\ e.catalog = y.catalog /\ e.fate = "running" /\ ~e.saved
  BY <1>a DEF Moved
<1>2. TranRight(y, history')
  <2>1. /\ history'[y.tran_no].tid = y.tran /\ history'[y.tran_no].catalog = y.catalog
        /\ history'[y.tran_no].fate = "running" /\ ~history'[y.tran_no].saved
    BY <1>a, <1>b
  <2>2. y.tran # TRAN_INVALID_ID
    BY TranAssumption DEF TRAN_INVALID_ID
  <2> QED BY <1>1, <2>1, <2>2 DEF TranRight
<1>3. Extends(history, history') /\ \A n \in DOMAIN history : history'[n] = history[n]
  BY NextValHistory DEF Extends
<1>4. ASSUME NEW n \in DOMAIN history', history'[n].fate = "running"
      PROVE  ~history'[n].saved /\ (n = y.tran_no \/ (n \in DOMAIN history /\ n # sess[s].tran_no))
  <2>1. CASE n = y.tran_no
    BY <1>a, <1>b, <2>1
  <2>2. CASE n # y.tran_no
    <3>1. n \in DOMAIN history /\ n # 0
      BY <2>2, NextValHistory, HistoryTypes DEF Types
    <3> QED BY <1>3, <1>4, <3>1 DEF SessInv, RunningHeld
  <2> QED BY <2>1, <2>2
<1> QED BY <1>1, <1>2, <1>3, <1>4, SessKept

LEMMA PutFlagSess ==
  ASSUME Types, SessInv, NEW s \in Sessions, PutFlag(s)
  PROVE  SessInv'
<1> PICK y : /\ Moved(s, y) /\ SameTran(s, y) /\ y.pc = "save_flags"
             /\ sess[s].tran_no # 0
  BY PutFlagMoves
<1>1. DecidedBy(s, history, history')
  BY PutFlagHistory
<1>2. TranRight(sess[s], history)
  BY DEF SessInv
<1>3. TranRight(y, history')
  BY <1>1, <1>2 DEF TranRight, SameTran, DecidedBy, Extends, Undecided, Moved
<1>4. ASSUME NEW n \in DOMAIN history', history'[n].fate = "running"
      PROVE  ~history'[n].saved /\ n \in DOMAIN history /\ n # sess[s].tran_no
  BY <1>1, <1>4 DEF DecidedBy, SessInv, RunningHeld
<1> QED BY <1>1, <1>3, <1>4, SessKept DEF SameTran, DecidedBy

LEMMA SaveFlagsSess ==
  ASSUME Types, SessInv, NEW s \in Sessions, SaveFlags(s)
  PROVE  SessInv'
<1> PICK y : /\ Moved(s, y)
             /\ sess[s].tran_no # 0 /\ ~Undecided(sess[s])
             /\ NoTran(y) \/ (SameTran(s, y) /\ ~Undecided(y))
  BY SaveFlagsMoves
<1>1. /\ history' \in Histories /\ DOMAIN history' = DOMAIN history /\ Extends(history, history')
      /\ \A n \in DOMAIN history :
           /\ history'[n].fate = history[n].fate
           /\ n # sess[s].tran_no => history'[n].saved = history[n].saved
  BY SaveFlagsHistory
<1>2. TranRight(sess[s], history)
  BY DEF SessInv
<1>3. TranRight(y, history')
  BY <1>1, <1>2 DEF TranRight, SameTran, NoTran, Extends, Moved
<1>4. ASSUME NEW n \in DOMAIN history', history'[n].fate = "running"
      PROVE  ~history'[n].saved /\ n \in DOMAIN history /\ n # sess[s].tran_no
  BY <1>1, <1>2, <1>4 DEF TranRight, SessInv, RunningHeld
<1> QED BY <1>1, <1>3, <1>4, SessKept DEF SameTran, NoTran

LEMMA DisconnectSess ==
  ASSUME Types, SessInv, NEW s \in Sessions, Disconnect(s)
  PROVE  SessInv'
<1> DEFINE T == {n \in {sess[s].tran_no} : Running(n)}
<1> PICK y : Moved(s, y) /\ NoTran(y)
  BY DisconnectMoves
<1>1. Abandon(T)
  BY DEF Disconnect
<1> HIDE DEF T
<1>2. /\ history' \in Histories /\ DOMAIN history' = DOMAIN history /\ Extends(history, history')
      /\ \A n \in DOMAIN history :
           /\ history'[n].saved = history[n].saved
           /\ n \in T => history'[n].fate = "aborted"
           /\ n \notin T => history'[n].fate = history[n].fate
  BY <1>1, AbandonHistory
<1>3. TranRight(y, history')
  BY DEF TranRight, NoTran
<1>4. ASSUME NEW n \in DOMAIN history', history'[n].fate = "running"
      PROVE  ~history'[n].saved /\ n \in DOMAIN history /\ n # sess[s].tran_no
  BY <1>2, <1>4 DEF T, Running, SessInv, RunningHeld
<1>5. ASSUME NEW n \in DOMAIN history, n # sess[s].tran_no
      PROVE  history'[n].fate = "running" <=> history[n].fate = "running"
  BY <1>2, <1>5 DEF T
<1> QED BY <1>2, <1>3, <1>4, <1>5, SessKept DEF NoTran

\* After a restart nobody has a transaction and none is running.
LEMMA RestartHistory ==
  ASSUME Types, Restart
  PROVE  /\ history' \in Histories /\ DOMAIN history' = DOMAIN history /\ Extends(history, history')
         /\ \A n \in DOMAIN history :
              /\ history'[n].crossed = history[n].crossed /\ history'[n].saved = history[n].saved
              /\ history'[n].fate # "running"
              /\ history[n].fate = "committed" /\ history[n].tid \in disk.flags =>
                   history'[n].fate = "committed"
              /\ history'[n].fate = "committed" =>
                   /\ history[n].fate = "committed"
                   /\ history[n].saved \/ history[n].tid \in disk.flags
<1> DEFINE T == {n \in DOMAIN history :
                   \/ Running(n)
                   \/ ~history[n].saved /\ history[n].tid \notin disk.flags}
<1>1. Abandon(T)
  BY DEF Restart
<1>2. \A n \in DOMAIN history :
        /\ n \in T <=> \/ history[n].fate = "running"
                       \/ ~history[n].saved /\ history[n].tid \notin disk.flags
  BY DEF Running
<1> HIDE DEF T
<1> QED BY <1>1, <1>2, AbandonHistory

LEMMA RestartSess ==
  ASSUME Types, SessInv, Restart
  PROVE  /\ sess' \in [Sessions -> SessionTypes] /\ SessInv'
         /\ \A s \in Sessions : NoTran(sess'[s]) /\ sess'[s].pc = "idle"
<1>1. \A s \in Sessions : sess[s] \in SessionTypes /\ sess'[s] = Ended(sess[s])
  BY Sessioned DEF Restart
<1>2. sess' \in [Sessions -> SessionTypes]
  BY <1>1, SessionsMade DEF Restart
<1>3. \A s \in Sessions : NoTran(sess'[s]) /\ sess'[s].pc = "idle" /\ StepRight(sess'[s])
  BY <1>1, SessionsMade DEF NoTran
<1>4. \A s \in Sessions : TranRight(sess'[s], history')
  BY <1>3 DEF TranRight, NoTran
<1>5. Distinct(sess') /\ RunningHeld(history', sess')
  BY <1>3, RestartHistory DEF Distinct, NoTran, RunningHeld
<1> QED BY <1>2, <1>3, <1>4, <1>5 DEF SessInv

LEMMA SessNext ==
  ASSUME Types, SessInv, Next PROVE SessInv'
<1>1. ASSUME NEW s \in Sessions, Alone(s) PROVE SessInv'
  BY <1>1, AloneMoves, SessKeptAlone DEF AloneMakes
<1>2. ASSUME NEW s \in Sessions, NEW y, Kept(s, y), history' = history PROVE SessInv'
  BY <1>2, SessKeptAlone DEF Kept
<1>3. ASSUME NEW s \in Sessions, NEW kind \in {"start", "insert", "loop"}, SaveSeq(s, kind) PROVE SessInv'
  BY <1>2, <1>3, SaveSeqMoves DEF SaveSeq
<1>4. ASSUME NEW s \in Sessions, AllocRow(s) PROVE SessInv'
  BY <1>2, <1>4, AllocRowMoves DEF AllocRow
<1>5. ASSUME NEW s \in Sessions, FillRow(s) PROVE SessInv'
  BY <1>2, <1>5, FillRowMoves DEF FillRow
<1>6. ASSUME NEW s \in Sessions, DeleteRow(s) PROVE SessInv'
  BY <1>2, <1>6, DeleteRowMoves DEF DeleteRow
<1>7. ASSUME NEW s \in Sessions, Save(s) PROVE SessInv'
  BY <1>2, <1>7, SaveMoves DEF Save
<1>8. ASSUME NEW c \in Catalogs, WriteBack(c) PROVE SessInv'
  BY <1>8 DEF WriteBack, SessInv
<1> QED BY <1>1, <1>3, <1>4, <1>5, <1>6, <1>7, <1>8, Cases, NextValSess, PutFlagSess, SaveFlagsSess,
           DisconnectSess, RestartSess

-----------------------------------------------------------------------------
(* Pages.                                                                  *)

\* In catalog c row i becomes r, and nothing else changes.
RowSet(T, U, c, i, r) ==
  /\ U \in Tables /\ r \in RowTypes /\ i \in 1 .. MaxRows /\ c \in Catalogs
  /\ \A d \in Catalogs : U[d].occupied = T[d].occupied
  /\ \A d \in Catalogs : \A j \in 1 .. MaxRows :
       U[d].rows[j] = IF d = c /\ j = i THEN r ELSE T[d].rows[j]

LEMMA RowSetTable ==
  ASSUME NEW T \in Tables, NEW c \in Catalogs, NEW i \in 1 .. MaxRows, NEW r \in RowTypes,
         NEW U, U = [T EXCEPT ![c].rows[i] = r]
  PROVE  RowSet(T, U, c, i, r)
<1>1. PICK p \in PageTypes : p = T[c]
  BY DEF Tables
<1>2. PICK q \in PageTypes : q = [p EXCEPT !.rows[i] = r]
  BY DEF PageTypes
<1>3. /\ q.occupied = p.occupied
      /\ \A j \in 1 .. MaxRows : q.rows[j] = IF j = i THEN r ELSE p.rows[j]
  BY <1>2 DEF PageTypes
<1>4. U = [T EXCEPT ![c] = q]
  BY <1>1, <1>2
<1>5. U \in Tables /\ U[c] = q /\ \A d \in Catalogs \ {c} : U[d] = T[d]
  BY <1>4 DEF Tables
<1>6. ASSUME NEW d \in Catalogs
      PROVE  /\ U[d].occupied = T[d].occupied
             /\ \A j \in 1 .. MaxRows :
                  U[d].rows[j] = IF d = c /\ j = i THEN r ELSE T[d].rows[j]
  <2>1. CASE d = c
    BY <1>1, <1>3, <1>5, <2>1
  <2>2. CASE d # c
    BY <1>5, <2>2
  <2> QED BY <2>1, <2>2
<1> QED BY <1>5, <1>6 DEF RowSet

LEMMA FillRowTable ==
  ASSUME Types, SessInv, NEW s \in Sessions, FillRow(s)
  PROVE  \E r : /\ RowSet(table, table', sess[s].catalog, sess[s].row, r)
                /\ r.tmin = sess[s].tran /\ r.by = sess[s].tran_no
                /\ r.tmax = TRAN_INVALID_ID /\ r.del = 0 /\ r.over = {}
<1> PICK x \in SessionTypes : x = sess[s]
  BY Sessioned
<1>1. x.row \in 1 .. MaxRows /\ x.catalog \in Catalogs /\ x.tran \in Tids /\ x.tran_no \in Nat
  BY FillRowMoves, Sessioned
<1>2. PICK r : r = [NewRow EXCEPT !.tmin = x.tran, !.by = x.tran_no]
  OBVIOUS
<1>3. /\ r \in RowTypes /\ r.tmin = x.tran /\ r.by = x.tran_no
      /\ r.tmax = TRAN_INVALID_ID /\ r.del = 0 /\ r.over = {}
  <2>1. r = [tmin |-> x.tran, tmax |-> TRAN_INVALID_ID, by |-> x.tran_no, del |-> 0, over |-> {}]
    BY <1>2 DEF NewRow
  <2>2. TRAN_INVALID_ID \in Tids
    BY TranAssumption DEF Tids, TRAN_INVALID_ID
  <2> QED BY <1>1, <2>1, <2>2 DEF RowTypes
<1>4. table' = [table EXCEPT ![x.catalog].rows[x.row] = r]
  BY <1>2 DEF FillRow
<1>5. RowSet(table, table', x.catalog, x.row, r)
  <2>1. table \in Tables
    BY DEF Types
  <2> QED BY <1>1, <1>3, <1>4, <2>1, RowSetTable
<1> QED BY <1>3, <1>5

LEMMA DeleteRowTable ==
  ASSUME Types, SessInv, NEW s \in Sessions, DeleteRow(s)
  PROVE  \E r : LET o == table[sess[s].catalog].rows[sess[s].row]
                IN  /\ RowSet(table, table', sess[s].catalog, sess[s].row, r)
                    /\ r.tmin = o.tmin /\ r.by = o.by
                    /\ r.tmax = sess[s].tran /\ r.del = sess[s].tran_no
                    /\ r.over = o.over \cup ({o.del} \ {0})
<1> PICK x \in SessionTypes : x = sess[s]
  BY Sessioned
<1>1. x.row \in 1 .. MaxRows /\ x.catalog \in Catalogs /\ x.tran \in Tids /\ x.tran_no \in Nat
  BY DeleteRowMoves, Sessioned
<1>2. PICK o \in RowTypes : o = table[x.catalog].rows[x.row]
  BY <1>1, RowTyped DEF Types
<1>3. PICK r : r = [o EXCEPT !.tmax = x.tran, !.del = x.tran_no, !.over = o.over \cup ({o.del} \ {0})]
  OBVIOUS
<1>4. /\ r \in RowTypes /\ r.tmin = o.tmin /\ r.by = o.by
      /\ r.tmax = x.tran /\ r.del = x.tran_no /\ r.over = o.over \cup ({o.del} \ {0})
  BY <1>1, <1>2, <1>3 DEF RowTypes
<1>5. table' = [table EXCEPT ![x.catalog].rows[x.row] = r]
  <2>1. Row(s, x.row) = o
    BY <1>2 DEF Row, Page
  <2>2. table' = [table EXCEPT ![x.catalog].rows[x.row] =
                    [o EXCEPT !.tmax = x.tran, !.del = x.tran_no, !.over = @ \cup ({o.del} \ {0})]]
    BY <2>1 DEF DeleteRow
  <2> QED BY <1>3, <2>2
<1>6. RowSet(table, table', x.catalog, x.row, r)
  <2>1. table \in Tables
    BY DEF Types
  <2> QED BY <1>1, <1>4, <1>5, <2>1, RowSetTable
<1> QED BY <1>2, <1>4, <1>6

LEMMA AllocRowTable ==
  ASSUME Types, SessInv, NEW s \in Sessions, AllocRow(s)
  PROVE  /\ table' \in Tables
         /\ \A c \in Catalogs : /\ table'[c].rows = table[c].rows
                                /\ c # sess[s].catalog => table'[c].occupied = table[c].occupied
         /\ table'[sess[s].catalog].occupied = sess[s].next
<1> PICK x \in SessionTypes : x = sess[s]
  BY Sessioned
<1>1. x.next \in 0 .. MaxRows /\ x.catalog \in Catalogs
  BY AllocRowMoves, Sessioned
<1>2. table' = [table EXCEPT ![x.catalog].occupied = x.next]
  BY DEF AllocRow
<1>3. PICK p \in PageTypes : p = table[x.catalog]
  BY <1>1 DEF Types, Tables
<1>4. PICK q \in PageTypes : q = [p EXCEPT !.occupied = x.next]
  BY <1>1 DEF PageTypes
<1>5. q.rows = p.rows /\ q.occupied = x.next
  BY <1>4 DEF PageTypes
<1>6. table' = [table EXCEPT ![x.catalog] = q]
  BY <1>2, <1>3, <1>4
<1>7. table' \in Tables /\ table'[x.catalog] = q /\ \A d \in Catalogs \ {x.catalog} : table'[d] = table[d]
  BY <1>1, <1>6 DEF Tables, Types
<1> QED BY <1>3, <1>5, <1>7

\* What a flush or an eviction changes on disk.
LEMMA SeqSaved ==
  ASSUME Types, NEW c \in Catalogs, disk' = [disk EXCEPT !.seq[c] = seq[c]]
  PROVE  /\ disk' \in Disks /\ disk'.flags = disk.flags /\ disk'.table = disk.table
         /\ disk'.seq[c] = seq[c] /\ \A d \in Catalogs \ {c} : disk'.seq[d] = disk.seq[d]
<1>1. PICK q \in Seqs : q = [disk.seq EXCEPT ![c] = seq[c]]
  BY DEF Types, Disks, Seqs
<1>2. disk' = [disk EXCEPT !.seq = q]
  BY <1>1
<1>3. q[c] = seq[c] /\ \A d \in Catalogs \ {c} : q[d] = disk.seq[d]
  BY <1>1 DEF Types, Disks, Seqs
<1> QED BY <1>2, <1>3 DEF Types, Disks

LEMMA FlagsSaved ==
  ASSUME Types, disk' = [disk EXCEPT !.flags = flags]
  PROVE  disk' \in Disks /\ disk'.flags = flags /\ disk'.table = disk.table /\ disk'.seq = disk.seq
BY DEF Types, Disks

LEMMA PageSaved ==
  ASSUME Types, NEW c \in Catalogs, disk' = [disk EXCEPT !.table[c] = table[c]]
  PROVE  /\ disk' \in Disks /\ disk'.flags = disk.flags /\ disk'.seq = disk.seq
         /\ disk'.table \in Tables
         /\ disk'.table[c] = table[c] /\ \A d \in Catalogs \ {c} : disk'.table[d] = disk.table[d]
<1>1. PICK q \in Tables : q = [disk.table EXCEPT ![c] = table[c]]
  BY DEF Types, Disks, Tables
<1>2. disk' = [disk EXCEPT !.table = q]
  BY <1>1
<1>3. q[c] = table[c] /\ \A d \in Catalogs \ {c} : q[d] = disk.table[d]
  BY <1>1 DEF Types, Disks, Tables
<1> QED BY <1>2, <1>3 DEF Types, Disks

LEMMA TypesNext ==
  ASSUME Types, SessInv, Next PROVE Types'
<1>1. ASSUME NEW s \in Sessions, Alone(s) PROVE Types'
  <2>1. PICK y : Moved(s, y)
    BY <1>1, AloneMoves DEF AloneMakes
  <2>2. acked' = acked /\ UNCHANGED <<seq, flags, table, disk, history>>
    BY <1>1, AloneMoves DEF Alone, Begin, Continue, End, ReadFlags, ReadRows, RefuseInsert, Find, EndScan
  <2> QED BY <2>1, <2>2, Moves DEF Types
<1>2. ASSUME NEW s \in Sessions, NextVal(s) PROVE Types'
  <2>1. PICK y : Moved(s, y) /\ y.tran = sess[s].next
    BY <1>2, NextValMoves
  <2>2. history' \in Histories
    BY <1>2, NextValHistory
  <2>3. seq' \in Seqs
    <3>1. seq' = [seq EXCEPT ![sess[s].catalog] = y.tran] /\ y.tran \in Tids
      BY <1>2, <2>1 DEF NextVal, Moved, SessionTypes
    <3> QED BY <3>1 DEF Types, Seqs
  <2> QED BY <1>2, <2>1, <2>2, <2>3, Moves DEF Types, NextVal
<1>3. ASSUME NEW s \in Sessions, NEW kind \in {"start", "insert", "loop"}, SaveSeq(s, kind) PROVE Types'
  <2>1. PICK y : Moved(s, y)
    BY <1>3, SaveSeqMoves DEF Kept
  <2>2. disk' \in Disks
    BY <1>3, SeqSaved, Sessioned DEF SaveSeq
  <2> QED BY <1>3, <2>1, <2>2, Moves DEF Types, SaveSeq
<1>4. ASSUME NEW s \in Sessions, PutFlag(s) PROVE Types'
  <2>1. PICK y : Moved(s, y)
    BY <1>4, PutFlagMoves
  <2>2. history' \in Histories
    BY <1>4, PutFlagHistory DEF DecidedBy
  <2>3. flags' \subseteq Tids
    BY <1>4, Sessioned DEF PutFlag, FlagsPut, Types
  <2> QED BY <1>4, <2>1, <2>2, <2>3, Moves DEF Types, PutFlag
<1>5. ASSUME NEW s \in Sessions, SaveFlags(s) PROVE Types'
  <2>1. PICK y : Moved(s, y)
    BY <1>5, SaveFlagsMoves
  <2>2. history' \in Histories /\ disk' \in Disks
    BY <1>5, SaveFlagsHistory, FlagsSaved DEF SaveFlags
  <2> QED BY <1>5, <2>1, <2>2, Moves DEF Types, SaveFlags
<1>6. ASSUME NEW s \in Sessions, AllocRow(s) PROVE Types'
  <2>1. PICK y : Moved(s, y)
    BY <1>6, AllocRowMoves DEF Kept
  <2> QED BY <1>6, <2>1, AllocRowTable, Moves DEF Types, AllocRow
<1>7. ASSUME NEW s \in Sessions, FillRow(s) PROVE Types'
  <2>1. PICK y : Moved(s, y)
    BY <1>7, FillRowMoves DEF Kept
  <2>2. table' \in Tables
    BY <1>7, FillRowTable DEF RowSet
  <2> QED BY <1>7, <2>1, <2>2, Moves DEF Types, FillRow
<1>8. ASSUME NEW s \in Sessions, DeleteRow(s) PROVE Types'
  <2>1. PICK y : Moved(s, y)
    BY <1>8, DeleteRowMoves DEF Kept
  <2>2. table' \in Tables
    BY <1>8, DeleteRowTable DEF RowSet
  <2> QED BY <1>8, <2>1, <2>2, Moves DEF Types, DeleteRow
<1>9. ASSUME NEW s \in Sessions, Save(s) PROVE Types'
  <2>1. /\ (\E y : Moved(s, y)) /\ sess[s].row \in 1 .. MaxRows
        /\ sess[s].kind \in {"insert", "delete"}
    BY <1>9, SaveMoves DEF Kept
  <2>2. disk' \in Disks
    BY <1>9, PageSaved, Sessioned DEF Save, Flushed, Page
  <2>3. acked' \subseteq Acks
    <3>1. [catalog |-> sess[s].catalog, row |-> sess[s].row,
           tran_no |-> sess[s].tran_no, kind |-> sess[s].kind] \in Acks
      BY <2>1, Sessioned DEF Acks
    <3> QED BY <1>9, <3>1 DEF Save, Types
  <2> QED BY <1>9, <2>1, <2>2, <2>3, Moves DEF Types, Save
<1>10. ASSUME NEW s \in Sessions, Disconnect(s) PROVE Types'
  <2>1. PICK y : Moved(s, y)
    BY <1>10, DisconnectMoves
  <2>2. history' \in Histories
    BY <1>10, AbandonHistory DEF Disconnect
  <2> QED BY <1>10, <2>1, <2>2, Moves DEF Types, Disconnect
<1>11. ASSUME NEW c \in Catalogs, WriteBack(c) PROVE Types'
  <2>1. disk' \in Disks
    BY <1>11, SeqSaved, FlagsSaved, PageSaved DEF WriteBack
  <2> QED BY <1>11, <2>1 DEF WriteBack, Types
<1>12. ASSUME Restart PROVE Types'
  BY <1>12, RestartSess, RestartHistory DEF Restart, Types, Disks
<1> QED BY <1>1, <1>2, <1>3, <1>4, <1>5, <1>6, <1>7, <1>8, <1>9, <1>10, <1>11, <1>12, Cases

-----------------------------------------------------------------------------
(* Rows.                                                                   *)

LEMMA RowsExtend ==
  ASSUME NEW T, NEW h, NEW k, Extends(h, k), RowsRight(T, h)
  PROVE  RowsRight(T, k)
<1>1. ASSUME NEW r, RowRight(r, h) PROVE RowRight(r, k)
  BY <1>1 DEF RowRight, Extends
<1> QED BY <1>1 DEF RowsRight

LEMMA FoundKept ==
  ASSUME Types, SessInv, NEW s \in Sessions, NEW y, Moved(s, y), NEW T, NEW U,
         FoundRight(sess, T),
         \A c \in Catalogs : \A i \in 1 .. MaxRows : T[c].rows[i].by # 0 => U[c].rows[i].by # 0,
         y.pc = "delete" => U[y.catalog].rows[y.row].by # 0
  PROVE  FoundRight(sess', U)
<1> SUFFICES ASSUME NEW t \in Sessions, sess'[t].pc = "delete"
             PROVE  U[sess'[t].catalog].rows[sess'[t].row].by # 0
  BY DEF FoundRight
<1>1. CASE t = s
  BY <1>1, Moves
<1>2. CASE t # s
  <2>1. sess'[t] = sess[t]
    BY <1>2, Moves
  <2>2. sess[t].row \in 1 .. MaxRows /\ sess[t].catalog \in Catalogs
    BY <2>1, Sessioned DEF SessInv, StepRight
  <2> QED BY <2>1, <2>2 DEF FoundRight
<1> QED BY <1>1, <1>2

\* A step that changes no rows, or only what is on disk.
LEMMA RowKept ==
  ASSUME Types, SessInv, RowInv, NEW s \in Sessions, NEW y, Moved(s, y), y.pc # "delete",
         Extends(history, history'),
         \A c \in Catalogs : table'[c].rows = table[c].rows,
         RowsRight(disk'.table, history)
  PROVE  RowInv'
<1>1. RowsRight(table', history)
  BY DEF RowInv, RowsRight
<1>2. RowsRight(table', history') /\ RowsRight(disk'.table, history')
  BY <1>1, RowsExtend
<1>3. FoundRight(sess', table')
  BY FoundKept DEF RowInv
<1> QED BY <1>2, <1>3 DEF RowInv

\* A step that changes one row.
LEMMA RowChanged ==
  ASSUME Types, SessInv, RowInv, NEW s \in Sessions, NEW y, Moved(s, y), y.pc # "delete",
         NEW c \in Catalogs, NEW i, NEW r, RowSet(table, table', c, i, r),
         RowRight(r, history), r.by # 0, history' = history, disk' = disk
  PROVE  RowInv'
<1>1. RowsRight(table', history)
  BY DEF RowInv, RowsRight, RowSet
<1>2. FoundRight(sess', table')
  <2>1. \A d \in Catalogs : \A j \in 1 .. MaxRows :
          table[d].rows[j].by # 0 => table'[d].rows[j].by # 0
    BY DEF RowSet
  <2> QED BY <2>1, FoundKept DEF RowInv
<1> QED BY <1>1, <1>2 DEF RowInv

LEMMA AloneRow ==
  ASSUME Types, SessInv, RowInv, FlagInv, NEW s \in Sessions, Alone(s)
  PROVE  RowInv'
<1> PICK y : AloneMakes(s, y)
  BY AloneMoves
<1>1. UNCHANGED <<table, disk, history>>
  BY AloneMoves
<1>2. y.pc = "delete" => table'[y.catalog].rows[y.row].by # 0
  <2> SUFFICES ASSUME y.pc = "delete" PROVE table[y.catalog].rows[y.row].by # 0
    BY <1>1
  <2>1. Writing(y) => sess[s].tran_no # 0
    BY DEF AloneMakes, Writing
  <2>2. y.tran_no # 0 /\ y.row \in 1 .. MaxRows /\ y.catalog = sess[s].catalog
    BY DEF AloneMakes, Moved, StepRight
  <2>3. sess[s].tran # TRAN_INVALID_ID /\ sess[s].catalog \in Catalogs
    BY <2>1, <2>2, Sessioned DEF Writing, SessInv, TranRight
  <2>4. PICK r : r = table[y.catalog].rows[y.row]
    OBVIOUS
  <2>5. Visible(s, r) /\ RowRight(r, history)
    BY <2>2, <2>3, <2>4 DEF AloneMakes, Row, Page, RowInv, RowsRight
  <2> QED BY <2>3, <2>4, <2>5, NoFlagZero DEF Visible, RowRight
<1>3. FoundRight(sess', table')
  BY <1>1, <1>2, FoundKept DEF AloneMakes, RowInv
<1> QED BY <1>1, <1>3 DEF RowInv

LEMMA FillRowRow ==
  ASSUME Types, SessInv, RowInv, NEW s \in Sessions, FillRow(s)
  PROVE  RowInv'
<1>1. PICK y : Moved(s, y) /\ y.pc = "save" /\ Writing(sess[s])
  BY FillRowMoves DEF Kept
<1>2. PICK r : /\ RowSet(table, table', sess[s].catalog, sess[s].row, r)
               /\ r.tmin = sess[s].tran /\ r.by = sess[s].tran_no
               /\ r.tmax = TRAN_INVALID_ID /\ r.del = 0 /\ r.over = {}
  BY FillRowTable
<1>3. RowRight(r, history) /\ r.by # 0
  BY <1>1, <1>2 DEF RowRight, SessInv, TranRight, Writing
<1>4. history' = history /\ disk' = disk
  BY DEF FillRow
<1> QED BY <1>1, <1>2, <1>3, <1>4, RowChanged, Sessioned

LEMMA DeleteRowRow ==
  ASSUME Types, SessInv, RowInv, NEW s \in Sessions, DeleteRow(s)
  PROVE  RowInv'
<1>1. PICK y : Moved(s, y) /\ y.pc = "save" /\ Writing(sess[s]) /\ sess[s].pc = "delete"
               /\ sess[s].row \in 1 .. MaxRows
  BY DeleteRowMoves DEF Kept
<1> PICK o : o = table[sess[s].catalog].rows[sess[s].row]
  OBVIOUS
<1>2. PICK r : /\ RowSet(table, table', sess[s].catalog, sess[s].row, r)
               /\ r.tmin = o.tmin /\ r.by = o.by
               /\ r.tmax = sess[s].tran /\ r.del = sess[s].tran_no
               /\ r.over = o.over \cup ({o.del} \ {0})
  BY DeleteRowTable
<1>3. RowRight(o, history) /\ o.by # 0
  BY <1>1, Sessioned DEF RowInv, RowsRight, FoundRight
<1>4. RowRight(r, history) /\ r.by # 0
  BY <1>1, <1>2, <1>3 DEF RowRight, SessInv, TranRight, Writing
<1>5. history' = history /\ disk' = disk
  BY DEF DeleteRow
<1> QED BY <1>1, <1>2, <1>4, <1>5, RowChanged, Sessioned

LEMMA RowNext ==
  ASSUME Types, SessInv, RowInv, FlagInv, Next PROVE RowInv'
<1>1. Extends(history, history)
  BY DEF Extends
<1>2. ASSUME NEW s \in Sessions, NextVal(s) PROVE RowInv'
  <2>1. (\E y : Moved(s, y) /\ y.pc # "delete") /\ Extends(history, history')
    BY <1>2, NextValMoves, NextValHistory DEF Extends
  <2>2. table' = table /\ disk' = disk
    BY <1>2 DEF NextVal
  <2> QED BY <2>1, <2>2, RowKept DEF RowInv
<1>3. ASSUME NEW s \in Sessions, NEW kind \in {"start", "insert", "loop"}, SaveSeq(s, kind) PROVE RowInv'
  <2>1. \E y : Moved(s, y) /\ y.pc # "delete"
    BY <1>3, SaveSeqMoves DEF Kept
  <2>2. table' = table /\ disk'.table = disk.table /\ history' = history
    BY <1>3, SeqSaved, Sessioned DEF SaveSeq
  <2> QED BY <1>1, <2>1, <2>2, RowKept DEF RowInv
<1>4. ASSUME NEW s \in Sessions, PutFlag(s) PROVE RowInv'
  <2>1. (\E y : Moved(s, y) /\ y.pc # "delete") /\ Extends(history, history')
    BY <1>4, PutFlagMoves, PutFlagHistory DEF DecidedBy
  <2>2. table' = table /\ disk' = disk
    BY <1>4 DEF PutFlag
  <2> QED BY <2>1, <2>2, RowKept DEF RowInv
<1>5. ASSUME NEW s \in Sessions, SaveFlags(s) PROVE RowInv'
  <2>1. (\E y : Moved(s, y) /\ y.pc # "delete") /\ Extends(history, history')
    BY <1>5, SaveFlagsMoves, SaveFlagsHistory
  <2>2. table' = table /\ disk'.table = disk.table
    BY <1>5, FlagsSaved DEF SaveFlags
  <2> QED BY <2>1, <2>2, RowKept DEF RowInv
<1>6. ASSUME NEW s \in Sessions, AllocRow(s) PROVE RowInv'
  <2>1. \E y : Moved(s, y) /\ y.pc # "delete"
    BY <1>6, AllocRowMoves DEF Kept
  <2>2. disk' = disk /\ history' = history
    BY <1>6 DEF AllocRow
  <2> QED BY <1>1, <1>6, <2>1, <2>2, AllocRowTable, RowKept DEF RowInv
<1>7. ASSUME NEW s \in Sessions, Save(s) PROVE RowInv'
  <2>1. \E y : Moved(s, y) /\ y.pc # "delete"
    BY <1>7, SaveMoves DEF Kept
  <2>2. table' = table /\ history' = history
    BY <1>7 DEF Save
  <2>3. RowsRight(disk'.table, history)
    BY <1>7, PageSaved, Sessioned DEF Save, Flushed, Page, RowInv, RowsRight
  <2> QED BY <1>1, <2>1, <2>2, <2>3, RowKept
<1>8. ASSUME NEW s \in Sessions, Disconnect(s) PROVE RowInv'
  <2>1. (\E y : Moved(s, y) /\ y.pc # "delete") /\ Extends(history, history')
    BY <1>8, DisconnectMoves, AbandonHistory DEF Disconnect
  <2>2. table' = table /\ disk' = disk
    BY <1>8 DEF Disconnect
  <2> QED BY <2>1, <2>2, RowKept DEF RowInv
<1>9. ASSUME NEW c \in Catalogs, WriteBack(c) PROVE RowInv'
  <2>1. RowsRight(disk'.table, history)
    BY <1>9, SeqSaved, FlagsSaved, PageSaved DEF WriteBack, RowInv, RowsRight
  <2> QED BY <1>9, <2>1 DEF WriteBack, RowInv
<1>10. ASSUME Restart PROVE RowInv'
  <2>1. RowsRight(table', history') /\ RowsRight(disk'.table, history')
    BY <1>10, RestartHistory, RowsExtend DEF Restart, RowInv
  <2>2. FoundRight(sess', table')
    BY <1>10, RestartSess DEF FoundRight
  <2> QED BY <2>1, <2>2 DEF RowInv
<1> QED BY <1>2, <1>3, <1>4, <1>5, <1>6, <1>7, <1>8, <1>9, <1>10, Cases, AloneRow, FillRowRow, DeleteRowRow

-----------------------------------------------------------------------------
(* Flags.                                                                  *)

\* Nothing committed is undone, and nothing is committed.
SameCommits(h, k) ==
  /\ \A n \in DOMAIN h : /\ n \in DOMAIN k /\ k[n].tid = h[n].tid
                         /\ h[n].fate = "committed" => k[n].fate = "committed"
  /\ \A n \in DOMAIN k : Sure(n, k) => n \in DOMAIN h /\ Sure(n, h)

LEMMA OfCommittedStays ==
  ASSUME NEW h, NEW k, SameCommits(h, k), NEW F, OfCommitted(F, h)
  PROVE  OfCommitted(F, k)
BY DEF SameCommits, OfCommitted

\* A step of one session that puts no flag.
LEMMA FlagKept ==
  ASSUME Types, SessInv, FlagInv, NEW s \in Sessions, NEW y, Moved(s, y),
         y.pc = "flag" => y.copy = {t \in flags : SameByte(t, y.tran)},
         flags' = flags, disk'.flags = disk.flags \/ disk'.flags = flags,
         SameCommits(history, history'),
         \A n \in DOMAIN history :
           history'[n].saved => history[n].saved \/ disk'.flags = flags
  PROVE  FlagInv'
<1>0. sess'[s] = y /\ \A t \in Sessions \ {s} : sess'[t] = sess[t]
  BY Moves
<1>1. OfCommitted(flags', history') /\ OfCommitted(disk'.flags, history')
  BY OfCommittedStays DEF FlagInv
<1>2. ASSUME NEW t \in Sessions, sess'[t].pc = "flag" PROVE OfCommitted(sess'[t].copy, history')
  <2>1. OfCommitted(sess'[t].copy, history)
    <3>1. CASE t = s
      BY <1>0, <1>2, <3>1 DEF FlagInv, OfCommitted
    <3>2. CASE t # s
      BY <1>0, <1>2, <3>2 DEF FlagInv
    <3> QED BY <3>1, <3>2
  <2> QED BY <2>1, OfCommittedStays
<1>3. ASSUME NEW n \in DOMAIN history', Sure(n, history')
      PROVE  /\ history'[n].tid \in flags'
             /\ history'[n].saved => history'[n].tid \in disk'.flags
             /\ \A t \in Sessions : Copied(history'[n].tid, sess'[t])
  <2>1. n \in DOMAIN history /\ Sure(n, history) /\ history'[n].tid = history[n].tid
    BY <1>3 DEF SameCommits
  <2>2. history[n].tid \in flags /\ (history[n].saved => history[n].tid \in disk.flags)
    BY <2>1 DEF FlagInv
  <2>3. ASSUME NEW t \in Sessions PROVE Copied(history[n].tid, sess'[t])
    <3>1. CASE t = s
      BY <1>0, <2>2, <3>1 DEF Copied
    <3>2. CASE t # s
      BY <1>0, <2>1, <3>2 DEF FlagInv
    <3> QED BY <3>1, <3>2
  <2> QED BY <2>1, <2>2, <2>3
<1> QED BY <1>1, <1>2, <1>3 DEF FlagInv

LEMMA PutFlagFlag ==
  ASSUME Types, SessInv, FlagInv, NEW s \in Sessions, PutFlag(s)
  PROVE  FlagInv'
<1> PICK x \in SessionTypes : x = sess[s]
  BY Sessioned
<1> PICK y : Moved(s, y) /\ y.pc = "save_flags" /\ x.pc = "flag" /\ x.tran_no # 0 /\ Undecided(x)
  BY PutFlagMoves
<1>0. sess'[s] = y /\ \A t \in Sessions \ {s} : sess'[t] = sess[t]
  BY Moves
<1>1. /\ flags' = {t \in flags : ~SameByte(t, x.tran)} \cup FlagsPut(x)
      /\ disk' = disk
  BY DEF PutFlag
<1>2. DecidedBy(s, history, history')
  BY PutFlagHistory
<1>3. /\ x.tran_no \in DOMAIN history /\ history[x.tran_no].tid = x.tran
      /\ history[x.tran_no].fate = "running" /\ ~history[x.tran_no].saved
  BY DEF SessInv, TranRight, RunningHeld
<1>4. ASSUME NEW F, OfCommitted(F, history) PROVE OfCommitted(F, history')
  BY <1>2, <1>3, <1>4 DEF OfCommitted, DecidedBy, Extends
<1>5. OfCommitted(flags', history') /\ OfCommitted(disk'.flags, history')
  <2>1. ASSUME NEW t \in flags' PROVE \E n \in DOMAIN history' : history'[n].tid = t /\ history'[n].fate = "committed"
    <3>1. CASE t \in flags \/ t \in x.copy
      BY <1>4, <3>1 DEF FlagInv, OfCommitted
    <3>2. CASE t = x.tran /\ x.kind # "rollback"
      BY <1>2, <1>3, <3>2 DEF DecidedBy, Extends
    <3> QED BY <1>1, <2>1, <3>1, <3>2 DEF FlagsPut
  <2> QED BY <1>1, <1>4, <2>1 DEF OfCommitted, FlagInv
<1>6. ASSUME NEW t \in Sessions, sess'[t].pc = "flag" PROVE OfCommitted(sess'[t].copy, history')
  BY <1>0, <1>4, <1>6 DEF FlagInv
<1>7. ASSUME NEW n \in DOMAIN history', Sure(n, history')
      PROVE  /\ history'[n].tid \in flags'
             /\ history'[n].saved => history'[n].tid \in disk'.flags
             /\ \A t \in Sessions : Copied(history'[n].tid, sess'[t])
  <2>0. n \in DOMAIN history /\ history'[n].tid = history[n].tid /\ history'[n].saved = history[n].saved
    BY <1>2 DEF DecidedBy, Extends
  <2>1. CASE n = x.tran_no
    <3>1. x.kind # "rollback"
      BY <1>2, <1>7, <2>0, <2>1 DEF DecidedBy, Sure
    <3>2. x.tran \in flags'
      BY <1>1, <3>1 DEF FlagsPut
    <3>3. \A t \in Sessions \ {s} : ~(sess[t].pc = "flag" /\ SameByte(sess[t].tran, x.tran))
      BY <1>2, <1>7, <2>0, <2>1 DEF DecidedBy, Sure
    <3>4. ASSUME NEW t \in Sessions PROVE Copied(x.tran, sess'[t])
      BY <1>0, <3>3 DEF Copied, SameByte
    <3> QED BY <1>3, <2>0, <2>1, <3>2, <3>4
  <2>2. CASE n # x.tran_no
    <3>1. Sure(n, history) /\ (x.kind = "rollback" => history[n].tid # x.tran)
      BY <1>2, <1>7, <2>0, <2>2 DEF DecidedBy, Sure
    <3>2. /\ history[n].tid \in flags /\ (history[n].saved => history[n].tid \in disk.flags)
          /\ \A t \in Sessions : Copied(history[n].tid, sess[t])
      BY <2>0, <3>1 DEF FlagInv
    <3>3. history[n].tid \in flags'
      <4>1. CASE ~SameByte(history[n].tid, x.tran)
        BY <1>1, <3>2, <4>1
      <4>2. CASE SameByte(history[n].tid, x.tran)
        <5>1. history[n].tid \in x.copy
          BY <3>2, <4>2 DEF Copied
        <5> QED BY <1>1, <3>1, <5>1 DEF FlagsPut
      <4> QED BY <4>1, <4>2
    <3>4. ASSUME NEW t \in Sessions PROVE Copied(history[n].tid, sess'[t])
      BY <1>0, <3>2 DEF Copied
    <3> QED BY <1>1, <2>0, <3>2, <3>3, <3>4
  <2> QED BY <2>1, <2>2
<1> QED BY <1>5, <1>6, <1>7 DEF FlagInv

LEMMA RestartFlag ==
  ASSUME Types, SessInv, FlagInv, Restart
  PROVE  FlagInv'
<1>1. flags' = disk.flags /\ disk' = disk
  BY DEF Restart
<1>2. \A s \in Sessions : sess'[s].pc = "idle"
  BY RestartSess
<1>3. OfCommitted(disk.flags, history')
  BY RestartHistory DEF FlagInv, OfCommitted, Extends
<1>4. ASSUME NEW n \in DOMAIN history', Sure(n, history') PROVE history'[n].tid \in disk.flags
  BY <1>4, RestartHistory DEF FlagInv, Sure, Extends
<1> QED BY <1>1, <1>2, <1>3, <1>4 DEF FlagInv, Copied

LEMMA FlagNext ==
  ASSUME Types, SessInv, FlagInv, Next PROVE FlagInv'
<1>0. SameCommits(history, history)
  BY DEF SameCommits
<1>1. ASSUME NEW s \in Sessions, Alone(s) PROVE FlagInv'
  <2>1. PICK y : AloneMakes(s, y)
    BY <1>1, AloneMoves
  <2>2. y.pc = "flag" => y.tran = sess[s].tran
    BY <2>1 DEF AloneMakes, Moved, StepRight, SameTran, NoTran
  <2>3. UNCHANGED <<flags, disk, history>>
    BY <1>1, AloneMoves
  <2>4. y.pc = "flag" => y.copy = {t \in flags : SameByte(t, y.tran)}
    BY <2>1, <2>2 DEF AloneMakes
  <2>5. Moved(s, y)
    BY <2>1 DEF AloneMakes
  <2> QED BY <1>0, <2>3, <2>4, <2>5, FlagKept
<1>2. ASSUME NEW s \in Sessions, NEW y, Moved(s, y), y.pc # "flag", UNCHANGED <<flags, history>>,
             disk'.flags = disk.flags
      PROVE  FlagInv'
  BY <1>0, <1>2, FlagKept
<1>3. ASSUME NEW s \in Sessions, NextVal(s) PROVE FlagInv'
  <2>1. PICK y : Moved(s, y) /\ y.pc # "flag"
    BY <1>3, NextValMoves
  <2>2. SameCommits(history, history')
    <3>1. ASSUME NEW n \in DOMAIN history', Sure(n, history')
          PROVE  n \in DOMAIN history /\ Sure(n, history)
      <4>a. PICK e : /\ e = [tid |-> sess[s].next, catalog |-> sess[s].catalog, fate |-> "running",
                             saved |-> FALSE, crossed |-> FALSE]
                     /\ history'[Len(history) + 1] = e
        BY <1>3, NextValHistory, Zenon
      <4>1. n # Len(history) + 1
        BY <3>1, <4>a DEF Sure
      <4> QED BY <1>3, <3>1, <4>1, NextValHistory DEF Sure
    <3> QED BY <1>3, <3>1, NextValHistory DEF SameCommits
  <2>3. \A n \in DOMAIN history : history'[n].saved => history[n].saved
    BY <1>3, NextValHistory
  <2>4. flags' = flags /\ disk' = disk
    BY <1>3 DEF NextVal
  <2> QED BY <2>1, <2>2, <2>3, <2>4, FlagKept
<1>4. ASSUME NEW s \in Sessions, NEW kind \in {"start", "insert", "loop"}, SaveSeq(s, kind) PROVE FlagInv'
  <2>1. \E y : Moved(s, y) /\ y.pc # "flag"
    BY <1>4, SaveSeqMoves DEF Kept
  <2>2. disk'.flags = disk.flags /\ UNCHANGED <<flags, history>>
    BY <1>4, SeqSaved, Sessioned DEF SaveSeq
  <2> QED BY <1>2, <2>1, <2>2
<1>5. ASSUME NEW s \in Sessions, SaveFlags(s) PROVE FlagInv'
  <2>1. PICK y : Moved(s, y) /\ y.pc # "flag"
    BY <1>5, SaveFlagsMoves
  <2>2. SameCommits(history, history')
    BY <1>5, SaveFlagsHistory DEF SameCommits, Sure, Extends
  <2>3. flags' = flags /\ disk'.flags = flags
    BY <1>5, FlagsSaved DEF SaveFlags
  <2> QED BY <2>1, <2>2, <2>3, FlagKept
<1>6. ASSUME NEW s \in Sessions, AllocRow(s) \/ FillRow(s) \/ DeleteRow(s) PROVE FlagInv'
  <2>1. \E y : Moved(s, y) /\ y.pc # "flag"
    BY <1>6, AllocRowMoves, FillRowMoves, DeleteRowMoves DEF Kept
  <2>2. UNCHANGED <<disk, flags, history>>
    BY <1>6 DEF AllocRow, FillRow, DeleteRow
  <2> QED BY <1>2, <2>1, <2>2
<1>7. ASSUME NEW s \in Sessions, Save(s) PROVE FlagInv'
  <2>1. \E y : Moved(s, y) /\ y.pc # "flag"
    BY <1>7, SaveMoves DEF Kept
  <2>2. disk'.flags = disk.flags /\ UNCHANGED <<flags, history>>
    BY <1>7, PageSaved, Sessioned DEF Save, Flushed, Page
  <2> QED BY <1>2, <2>1, <2>2
<1>8. ASSUME NEW s \in Sessions, Disconnect(s) PROVE FlagInv'
  <2>1. PICK y : Moved(s, y) /\ y.pc # "flag"
    BY <1>8, DisconnectMoves
  <2> DEFINE T == {n \in {sess[s].tran_no} : Running(n)}
  <2>2. Abandon(T) /\ \A n \in T : history[n].fate = "running"
    BY <1>8 DEF Disconnect, Running
  <2> HIDE DEF T
  <2>3. /\ DOMAIN history' = DOMAIN history /\ Extends(history, history')
        /\ \A n \in DOMAIN history :
             /\ history'[n].crossed = history[n].crossed /\ history'[n].saved = history[n].saved
             /\ n \in T => history'[n].fate = "aborted"
             /\ n \notin T => history'[n].fate = history[n].fate
    BY <2>2, AbandonHistory
  <2>4. SameCommits(history, history')
    BY <2>2, <2>3 DEF SameCommits, Sure, Extends
  <2>5. flags' = flags /\ disk' = disk
    BY <1>8 DEF Disconnect
  <2> QED BY <2>1, <2>3, <2>4, <2>5, FlagKept
<1>9. ASSUME NEW c \in Catalogs, WriteBack(c) PROVE FlagInv'
  <2>1. disk'.flags = disk.flags \/ disk'.flags = flags
    BY <1>9, SeqSaved, FlagsSaved, PageSaved DEF WriteBack
  <2>2. UNCHANGED <<sess, flags, history>>
    BY <1>9 DEF WriteBack
  <2> QED BY <2>1, <2>2 DEF FlagInv
<1> QED BY <1>1, <1>3, <1>4, <1>5, <1>6, <1>7, <1>8, <1>9, Cases, PutFlagFlag, RestartFlag

-----------------------------------------------------------------------------
(* Ids.                                                                    *)

LEMMA SeqTypes ==
  ASSUME Types, NEW c \in Catalogs
  PROVE  seq[c] \in Nat /\ disk.seq[c] \in Nat
BY TranAssumption DEF Types, Disks, Seqs, Tids

LEMMA TranTypes ==
  ASSUME Types, NEW s \in Sessions
  PROVE  sess[s].tran \in Nat /\ sess[s].catalog \in Catalogs
BY Sessioned, TranAssumption DEF Tids

\* A step of one session that gives out no id, and lets only a transaction write that
\* a restart will not forget.
LEMMA IdKept ==
  ASSUME Types, Types', SessInv, NEW c \in Catalogs, IdsOf(c), NEW s \in Sessions, NEW y, Moved(s, y),
         NoTran(y) \/ SameTran(s, y),
         Writing(y) => Writing(sess[s]) \/ disk'.seq[y.catalog] = seq[y.catalog],
         disk'.seq[c] = disk.seq[c] \/ disk'.seq[c] = seq[c], seq' = seq,
         DOMAIN history' = DOMAIN history, Extends(history, history'),
         \A m \in DOMAIN history :
           WroteAny(m)' => WroteAny(m) \/ (Writing(sess[s]) /\ m = sess[s].tran_no)
  PROVE  IdsOf(c)'
<1>0. sess'[s] = y /\ \A t \in Sessions \ {s} : sess'[t] = sess[t]
  BY Moves
<1>1. seq[c] \in Nat /\ disk.seq[c] \in Nat /\ disk'.seq[c] \in Nat
  BY SeqTypes, TranAssumption DEF Types, Disks, Seqs, Tids
<1>2. disk.seq[c] <= disk'.seq[c] /\ disk'.seq[c] <= seq'[c]
  BY <1>1 DEF IdsOf
<1>3. ASSUME NEW t \in Sessions, sess'[t].catalog = c
      PROVE  sess'[t].tran <= seq'[c] /\ (Writing(sess'[t]) => sess'[t].tran <= disk'.seq[c])
  <2>1. sess[t].catalog = c
    BY <1>0, <1>3 DEF Moved
  <2>2. /\ sess[t].tran \in Nat /\ sess[t].tran <= seq[c]
        /\ Writing(sess[t]) => sess[t].tran <= disk.seq[c]
    BY <2>1, TranTypes DEF IdsOf
  <2>3. CASE t = s
    <3>1. y.tran = 0 \/ y.tran = sess[s].tran
      BY DEF SameTran, NoTran, TRAN_INVALID_ID
    <3>2. Writing(y) /\ y.tran # 0 => Writing(sess[s]) \/ disk'.seq[c] = seq[c]
      BY <2>1, <2>3 DEF Moved
    <3> QED BY <1>0, <1>1, <1>2, <2>2, <2>3, <3>1, <3>2
  <2>4. CASE t # s
    BY <1>0, <1>1, <1>2, <2>2, <2>4
  <2> QED BY <2>3, <2>4
<1>4. ASSUME NEW m \in DOMAIN history', history'[m].catalog = c
      PROVE  /\ WroteAny(m)' => history'[m].tid <= disk'.seq[c]
             /\ \A n \in DOMAIN history' :
                  m < n /\ history'[n].catalog = c /\ history'[m].tid = history'[n].tid
                  => ~Held(m, sess') /\ ~WroteAny(m)'
  <2>1. /\ m \in DOMAIN history /\ history[m].catalog = c /\ history'[m].tid = history[m].tid
        /\ history[m].tid \in Nat
    BY <1>4, HistoryTypes, TranAssumption DEF Extends, Types
  <2>2. ASSUME Writing(sess[s]), m = sess[s].tran_no
        PROVE  history[m].tid <= disk.seq[c] /\ Held(m, sess)
    BY <2>1, <2>2 DEF SessInv, TranRight, IdsOf, Held, Writing
  <2>3. WroteAny(m)' => history'[m].tid <= disk'.seq[c]
    BY <1>1, <1>2, <2>1, <2>2 DEF IdsOf
  <2>4. Held(m, sess') => Held(m, sess)
    <3>1. m # 0
      BY <2>1, HistoryTypes DEF Types
    <3> QED BY <1>0, <3>1 DEF Held, SameTran, NoTran
  <2>5. ASSUME NEW n \in DOMAIN history', m < n, history'[n].catalog = c, history'[m].tid = history'[n].tid
        PROVE  ~Held(m, sess') /\ ~WroteAny(m)'
    <3>1. ~Held(m, sess) /\ ~WroteAny(m)
      BY <2>1, <2>5 DEF IdsOf, Extends
    <3> QED BY <2>1, <2>2, <2>4, <3>1
  <2> QED BY <2>3, <2>5
<1> QED BY <1>2, <1>3, <1>4 DEF IdsOf

\* Who wrote is in the history.
LEMMA WriterKnown ==
  ASSUME RowInv, NEW m, m # 0, WroteAny(m) PROVE m \in DOMAIN history
<1>1. ASSUME NEW T, RowsRight(T, history), WroteIn(T, m) PROVE m \in DOMAIN history
  BY <1>1 DEF WroteIn, WrittenBy, RowsRight, RowRight
<1> QED BY <1>1 DEF WroteAny, RowInv

LEMMA NextValId ==
  ASSUME Types, SessInv, RowInv, IdInv, NEW s \in Sessions, NextVal(s)
  PROVE  IdInv'
<1> PICK y : /\ Moved(s, y) /\ sess[s].tran_no = 0 /\ y.tran_no = Len(history) + 1
             /\ y.tran = sess[s].next /\ y.tran \in 1 .. MaxTid /\ y.pc \in {"put_flag", "save_seq"}
  BY NextValMoves
<1> PICK k \in Nat : k = Len(history) + 1
  BY HistoryTypes DEF Types
<1> PICK b : b = sess[s].catalog
  OBVIOUS
<1>0. sess'[s] = y /\ \A t \in Sessions \ {s} : sess'[t] = sess[t]
  BY Moves
<1>1. /\ seq' = [seq EXCEPT ![b] = y.tran]
      /\ raced' = IF seq[b] + 1 = y.tran THEN raced ELSE raced \cup {<<"ids", b>>}
      /\ table' = table /\ disk' = disk
  BY DEF NextVal, NextTid
<1>2. /\ DOMAIN history' = DOMAIN history \cup {k} /\ k \notin DOMAIN history
      /\ \A n \in DOMAIN history : history'[n] = history[n] /\ n < k
      /\ history'[k].tid = y.tran /\ history'[k].catalog = b
  <2>1. PICK e : /\ e = [tid |-> sess[s].next, catalog |-> sess[s].catalog, fate |-> "running",
                         saved |-> FALSE, crossed |-> FALSE]
                 /\ history'[k] = e
    BY NextValHistory, Zenon
  <2>2. e.tid = y.tran /\ e.catalog = b
    BY <2>1
  <2>3. \A n \in DOMAIN history : n < k
    BY HistoryTypes DEF Types
  <2> QED BY <2>1, <2>2, <2>3, NextValHistory
<1>3. \A m : WroteAny(m)' <=> WroteAny(m)
  BY <1>1 DEF WroteAny
<1> SUFFICES ASSUME NEW c \in Catalogs, <<"ids", c>> \notin raced' PROVE IdsOf(c)'
  BY DEF IdInv
<1>4. IdsOf(c) /\ (c = b => y.tran = seq[c] + 1)
  BY <1>1 DEF IdInv
<1>5. /\ seq[c] \in Nat /\ disk.seq[c] \in Nat
      /\ seq'[c] = IF c = b THEN seq[c] + 1 ELSE seq[c]
  BY <1>1, <1>4, SeqTypes DEF Types, Seqs
<1>6. disk'.seq[c] <= seq'[c]
  BY <1>1, <1>4, <1>5 DEF IdsOf
<1>7. ASSUME NEW t \in Sessions, sess'[t].catalog = c
      PROVE  sess'[t].tran <= seq'[c] /\ (Writing(sess'[t]) => sess'[t].tran <= disk'.seq[c])
  <2>1. CASE t = s
    <3>1. c = b /\ y.tran = seq'[c] /\ y.tran \in Nat
      BY <1>0, <1>4, <1>5, <1>7, <2>1, TranAssumption DEF Moved
    <3>2. ~Writing(y)
      BY DEF Writing
    <3> QED BY <1>0, <2>1, <3>1, <3>2
  <2>2. CASE t # s
    <3>1. /\ sess[t].tran \in Nat /\ sess[t].tran <= seq[c]
          /\ Writing(sess[t]) => sess[t].tran <= disk.seq[c]
      BY <1>0, <1>4, <1>7, <2>2, TranTypes DEF IdsOf
    <3> QED BY <1>0, <1>1, <1>5, <2>2, <3>1
  <2> QED BY <2>1, <2>2
<1>8. ASSUME NEW m \in DOMAIN history', history'[m].catalog = c
      PROVE  /\ WroteAny(m)' => history'[m].tid <= disk'.seq[c]
             /\ \A n \in DOMAIN history' :
                  m < n /\ history'[n].catalog = c /\ history'[m].tid = history'[n].tid
                  => ~Held(m, sess') /\ ~WroteAny(m)'
  <2>1. CASE m = k
    <3>1. k # 0 /\ ~WroteAny(k)
      BY <1>2, HistoryTypes, WriterKnown DEF Types
    <3>2. \A n \in DOMAIN history' : ~(m < n)
      <4>1. \A n \in DOMAIN history : n \in Nat
        BY HistoryTypes DEF Types
      <4> QED BY <1>2, <2>1, <4>1
    <3> QED BY <1>3, <2>1, <3>1, <3>2
  <2>2. CASE m # k
    <3>1. /\ m \in DOMAIN history /\ history'[m] = history[m] /\ history[m].catalog = c
          /\ history[m].tid \in Nat /\ m # 0
      BY <1>2, <1>8, <2>2, HistoryTypes, TranAssumption DEF Types
    <3>2. WroteAny(m) => history[m].tid <= disk.seq[c]
      BY <1>4, <3>1 DEF IdsOf
    <3>3. Held(m, sess') => Held(m, sess)
      BY <1>0, <2>2 DEF Held
    <3>4. Held(m, sess) => history[m].tid <= seq[c]
      BY <1>4, <3>1 DEF Held, SessInv, TranRight, IdsOf
    <3>5. ASSUME NEW n \in DOMAIN history', m < n, history'[n].catalog = c, history'[m].tid = history'[n].tid
          PROVE  ~Held(m, sess') /\ ~WroteAny(m)'
      <4>1. CASE n = k
        <5>1. history[m].tid = seq[c] + 1
          BY <1>2, <1>4, <3>1, <3>5, <4>1
        <5>2. ~Held(m, sess) /\ ~WroteAny(m)
          BY <1>4, <1>5, <3>1, <3>2, <3>4, <5>1 DEF IdsOf
        <5> QED BY <1>3, <3>3, <5>2
      <4>2. CASE n # k
        <5>1. n \in DOMAIN history /\ history'[n] = history[n]
          BY <1>2, <4>2
        <5>2. ~Held(m, sess) /\ ~WroteAny(m)
          BY <1>4, <3>1, <3>5, <5>1 DEF IdsOf
        <5> QED BY <1>3, <3>3, <5>2
      <4> QED BY <4>1, <4>2
    <3> QED BY <1>1, <1>3, <3>1, <3>2, <3>5
  <2> QED BY <2>1, <2>2
<1> QED BY <1>6, <1>7, <1>8 DEF IdsOf

LEMMA RestartId ==
  ASSUME Types, SessInv, IdInv, Restart
  PROVE  IdInv'
<1>1. seq' = disk.seq /\ table' = disk.table /\ disk' = disk /\ raced' = raced
  BY DEF Restart
<1>2. \A m : WroteAny(m)' => WroteAny(m)
  BY <1>1 DEF WroteAny
<1>3. \A s \in Sessions : sess'[s].tran = 0 /\ sess'[s].tran_no = 0
  BY RestartSess DEF NoTran, TRAN_INVALID_ID
<1> SUFFICES ASSUME NEW c \in Catalogs, <<"ids", c>> \notin raced' PROVE IdsOf(c)'
  BY DEF IdInv
<1>4. IdsOf(c) /\ disk.seq[c] \in Nat
  BY <1>1, SeqTypes DEF IdInv
<1>5. ASSUME NEW t \in Sessions
      PROVE  sess'[t].tran <= seq'[c] /\ (Writing(sess'[t]) => sess'[t].tran <= disk'.seq[c])
  BY <1>1, <1>3, <1>4
<1>6. ASSUME NEW m \in DOMAIN history', history'[m].catalog = c
      PROVE  /\ WroteAny(m)' => history'[m].tid <= disk'.seq[c]
             /\ \A n \in DOMAIN history' :
                  m < n /\ history'[n].catalog = c /\ history'[m].tid = history'[n].tid
                  => ~Held(m, sess') /\ ~WroteAny(m)'
  <2>1. /\ DOMAIN history' = DOMAIN history
        /\ \A n \in DOMAIN history : history'[n].tid = history[n].tid /\ history'[n].catalog = history[n].catalog
    BY RestartHistory DEF Extends
  <2>2. ~Held(m, sess')
    <3>1. m # 0
      BY <2>1, HistoryTypes DEF Types
    <3> QED BY <1>3, <3>1 DEF Held
  <2>3. WroteAny(m) => history[m].tid <= disk.seq[c]
    BY <1>4, <1>6, <2>1 DEF IdsOf
  <2>4. ASSUME NEW n \in DOMAIN history', m < n, history'[n].catalog = c, history'[m].tid = history'[n].tid
        PROVE  ~WroteAny(m)
    BY <1>4, <1>6, <2>1, <2>4 DEF IdsOf
  <2> QED BY <1>1, <1>2, <2>1, <2>2, <2>3, <2>4
<1>7. disk'.seq[c] <= seq'[c]
  BY <1>1, <1>4
<1> QED BY <1>5, <1>6, <1>7 DEF IdsOf

LEMMA WriteBackId ==
  ASSUME Types, Types', SessInv, IdInv, NEW d \in Catalogs, WriteBack(d)
  PROVE  IdInv'
<1>1. UNCHANGED <<sess, seq, table, history, raced>>
  BY DEF WriteBack
<1>2. /\ \A c \in Catalogs : disk'.seq[c] = disk.seq[c] \/ disk'.seq[c] = seq[c]
      /\ \A c \in Catalogs : disk'.table[c] = disk.table[c] \/ disk'.table[c] = table[c]
  BY SeqSaved, FlagsSaved, PageSaved DEF WriteBack
<1>3. \A m : WroteAny(m)' => WroteAny(m)
  BY <1>1, <1>2 DEF WroteAny, WroteIn
<1> SUFFICES ASSUME NEW c \in Catalogs, <<"ids", c>> \notin raced' PROVE IdsOf(c)'
  BY DEF IdInv
<1>4. IdsOf(c) /\ disk.seq[c] \in Nat /\ seq[c] \in Nat /\ disk'.seq[c] \in Nat
  BY <1>1, <1>2, SeqTypes DEF IdInv
<1>5. disk.seq[c] <= disk'.seq[c] /\ disk'.seq[c] <= seq[c]
  BY <1>2, <1>4 DEF IdsOf
<1>6. ASSUME NEW t \in Sessions, sess[t].catalog = c
      PROVE  sess[t].tran <= seq[c] /\ (Writing(sess[t]) => sess[t].tran <= disk'.seq[c])
  BY <1>4, <1>5, <1>6, TranTypes DEF IdsOf
<1>7. ASSUME NEW m \in DOMAIN history, history[m].catalog = c, WroteAny(m)
      PROVE  history[m].tid <= disk'.seq[c]
  <2>1. history[m].tid \in Nat /\ history[m].tid <= disk.seq[c]
    BY <1>4, <1>7, HistoryTypes, TranAssumption DEF Types, IdsOf
  <2> QED BY <1>4, <1>5, <2>1
<1>8. ASSUME NEW m \in DOMAIN history, history[m].catalog = c, NEW n \in DOMAIN history,
             m < n, history[n].catalog = c, history[m].tid = history[n].tid
      PROVE  ~Held(m, sess) /\ ~WroteAny(m)
  BY <1>4, <1>8 DEF IdsOf
<1> QED BY <1>1, <1>3, <1>5, <1>6, <1>7, <1>8 DEF IdsOf

LEMMA IdNext ==
  ASSUME Types, Types', SessInv, RowInv, IdInv, Next PROVE IdInv'
<1>0. Extends(history, history)
  BY DEF Extends
<1>1. ASSUME NEW s \in Sessions, Alone(s) PROVE IdInv'
  <2>1. UNCHANGED <<seq, table, disk, history, raced>>
    BY <1>1, AloneMoves
  <2>2. \A m : WroteAny(m)' => WroteAny(m)
    BY <2>1 DEF WroteAny
  <2>3. PICK y : Moved(s, y) /\ (NoTran(y) \/ SameTran(s, y)) /\ (Writing(y) => Writing(sess[s]))
    BY <1>1, AloneMoves DEF AloneMakes
  <2> QED BY <1>0, <2>1, <2>2, <2>3, IdKept DEF IdInv
<1>2. ASSUME NEW s \in Sessions, NEW kind \in {"start", "insert", "loop"}, SaveSeq(s, kind) PROVE IdInv'
  <2>1. UNCHANGED <<seq, table, history, raced>>
    BY <1>2 DEF SaveSeq
  <2>2. /\ disk'.table = disk.table /\ disk'.seq[sess[s].catalog] = seq[sess[s].catalog]
        /\ \A c \in Catalogs \ {sess[s].catalog} : disk'.seq[c] = disk.seq[c]
    BY <1>2, SeqSaved, Sessioned DEF SaveSeq
  <2>3. \A m : WroteAny(m)' => WroteAny(m)
    BY <2>1, <2>2 DEF WroteAny
  <2>4. PICK y : Moved(s, y) /\ SameTran(s, y)
    BY <1>2, SaveSeqMoves DEF Kept
  <2>5. disk'.seq[y.catalog] = seq[y.catalog]
    BY <2>2, <2>4 DEF Moved
  <2> QED BY <1>0, <2>1, <2>2, <2>3, <2>4, <2>5, IdKept DEF IdInv
<1>3. ASSUME NEW s \in Sessions, PutFlag(s) PROVE IdInv'
  <2>1. UNCHANGED <<seq, table, disk, raced>>
    BY <1>3 DEF PutFlag
  <2>2. \A m : WroteAny(m)' => WroteAny(m)
    BY <2>1 DEF WroteAny
  <2>3. PICK y : Moved(s, y) /\ SameTran(s, y) /\ y.pc = "save_flags"
    BY <1>3, PutFlagMoves
  <2>4. ~Writing(y)
    BY <2>3 DEF Writing
  <2>5. DOMAIN history' = DOMAIN history /\ Extends(history, history')
    BY <1>3, PutFlagHistory DEF DecidedBy
  <2> QED BY <2>1, <2>2, <2>3, <2>4, <2>5, IdKept DEF IdInv
<1>4. ASSUME NEW s \in Sessions, SaveFlags(s) PROVE IdInv'
  <2>1. UNCHANGED <<seq, table, raced>> /\ disk'.table = disk.table /\ disk'.seq = disk.seq
    BY <1>4, FlagsSaved DEF SaveFlags
  <2>2. \A m : WroteAny(m)' => WroteAny(m)
    BY <2>1 DEF WroteAny
  <2>3. PICK y : Moved(s, y) /\ (NoTran(y) \/ SameTran(s, y)) /\ ~Writing(y)
    BY <1>4, SaveFlagsMoves
  <2>4. DOMAIN history' = DOMAIN history /\ Extends(history, history')
    BY <1>4, SaveFlagsHistory
  <2> QED BY <2>1, <2>2, <2>3, <2>4, IdKept DEF IdInv
<1>5. ASSUME NEW s \in Sessions, AllocRow(s) PROVE IdInv'
  <2>1. UNCHANGED <<seq, disk, history>> /\ raced \subseteq raced'
    BY <1>5 DEF AllocRow
  <2>2. \A m : WroteAny(m)' => WroteAny(m)
    BY <1>5, <2>1, AllocRowTable DEF WroteAny, WroteIn
  <2>3. PICK y : Moved(s, y) /\ SameTran(s, y) /\ Writing(sess[s])
    BY <1>5, AllocRowMoves DEF Kept
  <2> QED BY <1>0, <2>1, <2>2, <2>3, IdKept DEF IdInv
<1>6. ASSUME NEW s \in Sessions, FillRow(s) \/ DeleteRow(s) PROVE IdInv'
  <2>1. UNCHANGED <<seq, disk, history, raced>>
    BY <1>6 DEF FillRow, DeleteRow
  <2>2. PICK y : Moved(s, y) /\ SameTran(s, y) /\ Writing(sess[s])
    BY <1>6, FillRowMoves, DeleteRowMoves DEF Kept
  <2>3. PICK c \in Catalogs, i \in 1 .. MaxRows, r \in RowTypes :
          /\ RowSet(table, table', c, i, r)
          /\ \A m : m # 0 /\ WrittenBy(r, m) => m = sess[s].tran_no \/ WrittenBy(table[c].rows[i], m)
    <3>1. CASE FillRow(s)
      <4>1. PICK r : /\ RowSet(table, table', sess[s].catalog, sess[s].row, r)
                     /\ r.by = sess[s].tran_no /\ r.del = 0 /\ r.over = {}
        BY <3>1, FillRowTable
      <4>2. \A m : m # 0 /\ WrittenBy(r, m) => m = sess[s].tran_no
        BY <4>1 DEF WrittenBy
      <4>3. sess[s].catalog \in Catalogs /\ sess[s].row \in 1 .. MaxRows /\ r \in RowTypes
        BY <4>1 DEF RowSet
      <4> QED BY <4>1, <4>2, <4>3
    <3>2. CASE DeleteRow(s)
      <4> PICK o : o = table[sess[s].catalog].rows[sess[s].row]
        OBVIOUS
      <4>1. PICK r : /\ RowSet(table, table', sess[s].catalog, sess[s].row, r)
                     /\ r.by = o.by /\ r.del = sess[s].tran_no
                     /\ r.over = o.over \cup ({o.del} \ {0})
        BY <3>2, DeleteRowTable
      <4>2. \A m : m # 0 /\ WrittenBy(r, m) => m = sess[s].tran_no \/ WrittenBy(o, m)
        BY <4>1 DEF WrittenBy
      <4>3. sess[s].catalog \in Catalogs /\ sess[s].row \in 1 .. MaxRows /\ r \in RowTypes
        BY <4>1 DEF RowSet
      <4> QED BY <4>1, <4>2, <4>3
    <3> QED BY <1>6, <3>1, <3>2
  <2>4. ASSUME NEW m \in DOMAIN history, WroteAny(m)'
        PROVE  WroteAny(m) \/ (Writing(sess[s]) /\ m = sess[s].tran_no)
    <3>1. m # 0
      BY HistoryTypes DEF Types
    <3>2. WroteIn(table', m) => WroteIn(table, m) \/ m = sess[s].tran_no
      <4> SUFFICES ASSUME NEW d \in Catalogs, NEW j \in 1 .. MaxRows, WrittenBy(table'[d].rows[j], m)
                   PROVE  WroteIn(table, m) \/ m = sess[s].tran_no
        BY DEF WroteIn
      <4>1. CASE d = c /\ j = i
        BY <2>3, <3>1, <4>1 DEF RowSet, WroteIn
      <4>2. CASE ~(d = c /\ j = i)
        BY <2>3, <4>2 DEF RowSet, WroteIn
      <4> QED BY <4>1, <4>2
    <3> QED BY <2>1, <2>2, <2>4, <3>2 DEF WroteAny
  <2> QED BY <1>0, <2>1, <2>2, <2>4, IdKept DEF IdInv
<1>7. ASSUME NEW s \in Sessions, Save(s) PROVE IdInv'
  <2>1. UNCHANGED <<seq, table, history, raced>>
    BY <1>7 DEF Save
  <2>2. disk'.seq = disk.seq /\ \A c \in Catalogs : disk'.table[c] = disk.table[c] \/ disk'.table[c] = table[c]
    BY <1>7, PageSaved, Sessioned DEF Save, Flushed, Page
  <2>3. \A m : WroteAny(m)' => WroteAny(m)
    BY <2>1, <2>2 DEF WroteAny, WroteIn
  <2>4. PICK y : Moved(s, y) /\ SameTran(s, y) /\ Writing(sess[s])
    BY <1>7, SaveMoves DEF Kept
  <2> QED BY <1>0, <2>1, <2>2, <2>3, <2>4, IdKept DEF IdInv
<1>8. ASSUME NEW s \in Sessions, Disconnect(s) PROVE IdInv'
  <2>1. UNCHANGED <<seq, table, disk, raced>>
    BY <1>8 DEF Disconnect
  <2>2. \A m : WroteAny(m)' => WroteAny(m)
    BY <2>1 DEF WroteAny
  <2>3. PICK y : Moved(s, y) /\ NoTran(y)
    BY <1>8, DisconnectMoves
  <2>4. ~Writing(y)
    BY <2>3 DEF Writing, NoTran
  <2>5. DOMAIN history' = DOMAIN history /\ Extends(history, history')
    BY <1>8, AbandonHistory DEF Disconnect
  <2> QED BY <2>1, <2>2, <2>3, <2>4, <2>5, IdKept DEF IdInv
<1> QED BY <1>1, <1>2, <1>3, <1>4, <1>5, <1>6, <1>7, <1>8, Cases, NextValId, RestartId, WriteBackId

-----------------------------------------------------------------------------
(* What was acknowledged.                                                  *)

LEMMA PageTypesOf ==
  ASSUME Types, NEW c \in Catalogs
  PROVE  /\ table[c].occupied \in Nat /\ disk.table[c].occupied \in Nat
         /\ table \in Tables /\ disk.table \in Tables
BY RowTyped DEF Types, Disks

\* A change is in place in row a.row of another page that still has it.
LEMMA PlacedStays ==
  ASSUME NEW a, NEW p, NEW q, Placed(a, p), a.row \in Nat, p.occupied \in Nat, q.occupied \in Nat,
         p.occupied <= q.occupied, q.rows[a.row] = p.rows[a.row]
  PROVE  Placed(a, q)
BY DEF Placed

LEMMA AckTypes ==
  ASSUME Types, SessInv, KeptInv
  PROVE  /\ \A a \in acked : a.row \in 1 .. MaxRows /\ a.row \in Nat /\ a.tran_no # 0 /\ a.catalog \in Catalogs
         /\ \A s \in Sessions : sess[s].pc = "save" =>
              /\ Ack(sess[s]).row \in 1 .. MaxRows /\ Ack(sess[s]).row \in Nat
              /\ Ack(sess[s]).tran_no # 0 /\ Ack(sess[s]).catalog = sess[s].catalog
<1>1. \A a \in acked : a.tran_no # 0
  BY HistoryTypes DEF KeptInv, Types
<1>2. \A a \in acked : a.row \in 1 .. MaxRows /\ a.row \in Nat /\ a.catalog \in Catalogs
  BY TranAssumption DEF Types, Acks
<1>3. \A s \in Sessions : sess[s].pc = "save" =>
        /\ Ack(sess[s]).row \in 1 .. MaxRows /\ Ack(sess[s]).row \in Nat
        /\ Ack(sess[s]).tran_no # 0 /\ Ack(sess[s]).catalog = sess[s].catalog
  BY TranAssumption DEF SessInv, StepRight, Ack
<1> QED BY <1>1, <1>2, <1>3

\* A step of s that does not change the page in memory.
LEMMA KeptQuiet ==
  ASSUME Types, SessInv, KeptInv, Types', NEW c \in Catalogs, KeptOf(c), NEW s \in Sessions, NEW y, Moved(s, y),
         y.catalog = c => /\ y.pc \notin {"fill", "save"}
                          /\ y.pc = "delete" => y.row <= table[c].occupied,
         table'[c].occupied = table[c].occupied,
         \A i \in 1 .. MaxRows : table'[c].rows[i] = table[c].rows[i],
         disk'.table[c] = disk.table[c] \/ disk'.table[c] = table[c],
         \A a \in acked' : a \in acked \/ /\ a = Ack(sess[s]) /\ sess[s].pc = "save"
                                          /\ a.catalog = c => disk'.table[c] = table[c]
  PROVE  KeptOf(c)'
<1>0. sess'[s] = y /\ \A t \in Sessions \ {s} : sess'[t] = sess[t]
  BY Moves
<1>a. ASSUME NEW a, a.row \in 1 .. MaxRows, Placed(a, table[c]) PROVE Placed(a, table'[c])
  <2>1. a.row \in Nat
    BY <1>a, TranAssumption
  <2> QED BY <1>a, <2>1, PlacedStays, PageTypesOf
<1>1. Clean(table'[c]) /\ Clean(disk'.table[c])
  BY DEF KeptOf, Clean
<1>2. ASSUME NEW t \in Sessions, sess'[t].catalog = c
      PROVE  /\ FillRight(t, sess', table'[c])
             /\ sess'[t].pc = "delete" => sess'[t].row <= table'[c].occupied
             /\ sess'[t].pc = "save" => Placed(Ack(sess'[t]), table'[c])
  <2>1. CASE t = s
    BY <1>0, <1>2, <2>1 DEF FillRight
  <2>2. CASE t # s
    <3>1. /\ sess'[t] = sess[t] /\ sess[t].catalog = c /\ FillRight(t, sess, table[c])
          /\ sess[t].pc = "delete" => sess[t].row <= table[c].occupied
          /\ sess[t].pc = "save" => Placed(Ack(sess[t]), table[c])
          /\ sess[t].pc = "fill" => sess[t].row \in 1 .. MaxRows
      BY <1>0, <1>2, <2>2 DEF KeptOf, SessInv, StepRight
    <3>2. FillRight(t, sess', table'[c])
      BY <1>0, <2>2, <3>1 DEF FillRight
    <3>3. sess[t].pc = "save" => Placed(Ack(sess[t]), table'[c])
      BY <1>a, <3>1, AckTypes
    <3> QED BY <3>1, <3>2, <3>3
  <2> QED BY <2>1, <2>2
<1>3. ASSUME NEW a \in acked', a.catalog = c
      PROVE  Placed(a, table'[c]) /\ Placed(a, disk'.table[c])
  <2>1. CASE a \in acked
    BY <1>a, <1>3, <2>1, AckTypes DEF KeptOf
  <2>2. CASE a \notin acked
    <3>1. /\ a = Ack(sess[s]) /\ sess[s].pc = "save" /\ disk'.table[c] = table[c]
          /\ sess[s].catalog = c
      BY <1>3, <2>2, AckTypes
    <3> QED BY <1>a, <3>1, AckTypes DEF KeptOf
  <2> QED BY <2>1, <2>2
<1> QED BY <1>1, <1>2, <1>3 DEF KeptOf

LEMMA AllocRowKept ==
  ASSUME Types, Types', SessInv, KeptInv, NEW s \in Sessions, AllocRow(s),
         NEW c \in Catalogs, <<"rows", c>> \notin raced'
  PROVE  KeptOf(c)'
<1> PICK y : /\ Moved(s, y) /\ y.pc = "fill" /\ y.row = sess[s].next
             /\ sess[s].next \in 1 .. MaxRows
  BY AllocRowMoves DEF Kept
<1>0. sess'[s] = y /\ \A t \in Sessions \ {s} : sess'[t] = sess[t]
  BY Moves
<1>1. /\ table' \in Tables /\ \A d \in Catalogs : table'[d].rows = table[d].rows
      /\ c # sess[s].catalog => table'[c].occupied = table[c].occupied
      /\ table'[sess[s].catalog].occupied = sess[s].next
  BY AllocRowTable
<1>2. disk' = disk /\ acked' = acked /\ raced \subseteq raced' /\ y.catalog = sess[s].catalog
  BY DEF AllocRow, Moved
<1>3. KeptOf(c)
  BY <1>2 DEF KeptInv
<1>4. CASE c # sess[s].catalog
  BY <1>1, <1>2, <1>3, <1>4, KeptQuiet
<1>5. CASE c = sess[s].catalog
  <2>1. sess[s].next = table[c].occupied + 1 /\ table[c].occupied \in Nat
    BY <1>5, PageTypesOf DEF AllocRow, Page
  <2>2. table'[c].rows = table[c].rows /\ table'[c].occupied = table[c].occupied + 1
    BY <1>1, <1>5, <2>1
  <2>a. ASSUME NEW a, a.row \in Nat, Placed(a, table[c]) PROVE Placed(a, table'[c])
    BY <2>1, <2>2, <2>a, PlacedStays
  <2>3. Clean(table'[c]) /\ Clean(disk'.table[c])
    BY <1>2, <1>3, <2>1, <2>2 DEF KeptOf, Clean
  <2>4. table[c].rows[y.row].by = 0 /\ y.row = table[c].occupied + 1 /\ y.row \in 1 .. MaxRows
    BY <1>3, <2>1 DEF KeptOf, Clean
  <2>5. ASSUME NEW t \in Sessions \ {s}, sess[t].catalog = c, sess[t].pc \in {"fill", "delete"}
        PROVE  sess[t].row <= table[c].occupied /\ sess[t].row \in Nat
    BY <1>3, <2>5, TranAssumption DEF KeptOf, FillRight, SessInv, StepRight
  <2>6. ASSUME NEW t \in Sessions, sess'[t].catalog = c
        PROVE  /\ FillRight(t, sess', table'[c])
               /\ sess'[t].pc = "delete" => sess'[t].row <= table'[c].occupied
               /\ sess'[t].pc = "save" => Placed(Ack(sess'[t]), table'[c])
    <3>1. CASE t = s
      <4>1. FillRight(s, sess', table'[c])
        BY <1>0, <1>2, <1>5, <2>1, <2>2, <2>4, <2>5 DEF FillRight
      <4> QED BY <1>0, <3>1, <4>1
    <3>2. CASE t # s
      <4>1. sess'[t] = sess[t] /\ sess[t].catalog = c /\ FillRight(t, sess, table[c])
        BY <1>0, <1>3, <2>6, <3>2 DEF KeptOf
      <4>2. FillRight(t, sess', table'[c])
        BY <1>0, <2>1, <2>2, <2>4, <2>5, <3>2, <4>1 DEF FillRight
      <4>3. sess[t].pc = "delete" => sess[t].row <= table'[c].occupied
        BY <2>1, <2>2, <2>5, <3>2, <4>1
      <4>4. sess[t].pc = "save" => Placed(Ack(sess[t]), table'[c])
        BY <1>3, <2>a, <4>1, AckTypes DEF KeptOf
      <4> QED BY <4>1, <4>2, <4>3, <4>4
    <3> QED BY <3>1, <3>2
  <2>7. \A a \in acked' : a.catalog = c => Placed(a, table'[c]) /\ Placed(a, disk'.table[c])
    BY <1>2, <1>3, <2>a, AckTypes DEF KeptOf
  <2> QED BY <2>3, <2>6, <2>7 DEF KeptOf
<1> QED BY <1>4, <1>5

\* A step of s from "fill" or "delete" that makes r of its row.
LEMMA KeptChanged ==
  ASSUME Types, Types', SessInv, KeptInv, NEW s \in Sessions, NEW y, Moved(s, y), y.pc = "save",
         NEW c \in Catalogs, KeptOf(c), c = sess[s].catalog, sess[s].pc \in {"fill", "delete"},
         NEW r, RowSet(table, table', c, sess[s].row, r), disk' = disk, acked' = acked,
         y.row = sess[s].row,
         Placed(Ack(y), table'[c]),
         \A t \in Sessions \ {s} :
           sess[t].pc = "fill" /\ sess[t].catalog = c /\ sess[t].row = sess[s].row => r.by = 0,
         \A a : /\ a.row = sess[s].row /\ a.tran_no # 0 /\ Placed(a, table[c]) => Placed(a, table'[c])
  PROVE  KeptOf(c)'
<1> PICK i \in 1 .. MaxRows : i = sess[s].row
  BY DEF RowSet
<1>0. sess'[s] = y /\ \A t \in Sessions \ {s} : sess'[t] = sess[t]
  BY Moves
<1>1. /\ table'[c].occupied = table[c].occupied /\ table[c].occupied \in Nat
      /\ \A j \in 1 .. MaxRows : table'[c].rows[j] = IF j = i THEN r ELSE table[c].rows[j]
  BY PageTypesOf DEF RowSet
<1>a. ASSUME NEW a, a.row \in 1 .. MaxRows, a.tran_no # 0, Placed(a, table[c]) PROVE Placed(a, table'[c])
  <2>1. CASE a.row = i
    BY <1>a, <2>1
  <2>2. CASE a.row # i
    BY <1>1, <1>a, <2>2, PlacedStays, TranAssumption
  <2> QED BY <2>1, <2>2
<1>2. i <= table[c].occupied
  BY DEF KeptOf, FillRight
<1>3. Clean(table'[c]) /\ Clean(disk'.table[c])
  BY <1>1, <1>2 DEF KeptOf, Clean
<1>4. ASSUME NEW t \in Sessions, sess'[t].catalog = c
      PROVE  /\ FillRight(t, sess', table'[c])
             /\ sess'[t].pc = "delete" => sess'[t].row <= table'[c].occupied
             /\ sess'[t].pc = "save" => Placed(Ack(sess'[t]), table'[c])
  <2>1. CASE t = s
    BY <1>0, <2>1 DEF FillRight
  <2>2. CASE t # s
    <3>1. /\ sess'[t] = sess[t] /\ sess[t].catalog = c /\ FillRight(t, sess, table[c])
          /\ sess[t].pc = "delete" => sess[t].row <= table[c].occupied
          /\ sess[t].pc = "save" => Placed(Ack(sess[t]), table[c])
          /\ sess[t].pc = "fill" => sess[t].row \in 1 .. MaxRows
      BY <1>0, <1>4, <2>2 DEF KeptOf, SessInv, StepRight
    <3>2. FillRight(t, sess', table'[c])
      <4> SUFFICES ASSUME sess[t].pc = "fill" PROVE FillRight(t, sess', table'[c])
        BY <3>1 DEF FillRight
      <4>1. table'[c].rows[sess[t].row].by = 0
        BY <1>1, <2>2, <3>1 DEF FillRight
      <4> QED BY <1>0, <1>1, <2>2, <3>1, <4>1 DEF FillRight
    <3>3. sess[t].pc = "save" => Placed(Ack(sess[t]), table'[c])
      BY <1>a, <3>1, AckTypes
    <3> QED BY <1>1, <3>1, <3>2, <3>3
  <2> QED BY <2>1, <2>2
<1>5. \A a \in acked' : a.catalog = c => Placed(a, table'[c]) /\ Placed(a, disk'.table[c])
  BY <1>a, AckTypes DEF KeptOf
<1> QED BY <1>3, <1>4, <1>5 DEF KeptOf

LEMMA FillRowKept ==
  ASSUME Types, Types', SessInv, RowInv, KeptInv, NEW s \in Sessions, FillRow(s),
         NEW c \in Catalogs, <<"rows", c>> \notin raced'
  PROVE  KeptOf(c)'
<1> PICK y : /\ Kept(s, y) /\ y.pc = "save" /\ y.kind = "insert" /\ y.row = sess[s].row
             /\ sess[s].pc = "fill" /\ sess[s].row \in 1 .. MaxRows
  BY FillRowMoves
<1> PICK r : /\ RowSet(table, table', sess[s].catalog, sess[s].row, r) /\ r.by = sess[s].tran_no
  BY FillRowTable
<1>1. disk' = disk /\ acked' = acked /\ raced' = raced /\ Moved(s, y) /\ y.catalog = sess[s].catalog
      /\ y.tran_no = sess[s].tran_no
  BY DEF FillRow, Kept, Moved, SameTran
<1>2. KeptOf(c)
  BY <1>1 DEF KeptInv
<1>3. CASE c # sess[s].catalog
  <2>1. /\ table'[c].occupied = table[c].occupied
        /\ \A i \in 1 .. MaxRows : table'[c].rows[i] = table[c].rows[i]
    BY <1>3 DEF RowSet
  <2> QED BY <1>1, <1>2, <1>3, <2>1, KeptQuiet
<1>4. CASE c = sess[s].catalog
  <2>1. /\ table[c].rows[sess[s].row].by = 0 /\ sess[s].row <= table[c].occupied
        /\ \A t \in Sessions \ {s} : sess[t].pc = "fill" /\ sess[t].catalog = c => sess[t].row # sess[s].row
    BY <1>2, <1>4 DEF KeptOf, FillRight
  <2>2. /\ table'[c].occupied = table[c].occupied /\ table'[c].rows[sess[s].row] = r
    BY <1>4 DEF RowSet
  <2>3. Placed(Ack(y), table'[c])
    BY <1>1, <2>1, <2>2 DEF Placed, Ack
  <2>4. ASSUME NEW a, a.row = sess[s].row, a.tran_no # 0 PROVE ~Placed(a, table[c])
    BY <2>1, <2>4 DEF Placed, RowInv, RowsRight, RowRight
  <2>5. \A t \in Sessions \ {s} :
          ~(sess[t].pc = "fill" /\ sess[t].catalog = c /\ sess[t].row = sess[s].row)
    BY <2>1
  <2>6. RowSet(table, table', c, sess[s].row, r) /\ sess[s].pc \in {"fill", "delete"}
    BY <1>4
  <2>7. \A t \in Sessions \ {s} :
           sess[t].pc = "fill" /\ sess[t].catalog = c /\ sess[t].row = sess[s].row => r.by = 0
    BY <2>5
  <2>8. \A a : /\ a.row = sess[s].row /\ a.tran_no # 0 /\ Placed(a, table[c]) => Placed(a, table'[c])
    BY <2>4
  <2> QED BY <1>1, <1>2, <1>4, <2>3, <2>7, <2>8, <2>6, KeptChanged
<1> QED BY <1>3, <1>4

LEMMA DeleteRowKept ==
  ASSUME Types, Types', SessInv, RowInv, KeptInv, NEW s \in Sessions, DeleteRow(s),
         NEW c \in Catalogs, <<"rows", c>> \notin raced'
  PROVE  KeptOf(c)'
<1> PICK y : /\ Kept(s, y) /\ y.pc = "save" /\ y.kind = "delete" /\ y.row = sess[s].row
             /\ sess[s].pc = "delete" /\ sess[s].row \in 1 .. MaxRows
  BY DeleteRowMoves
<1> PICK o : o = table[sess[s].catalog].rows[sess[s].row]
  OBVIOUS
<1> PICK r : /\ RowSet(table, table', sess[s].catalog, sess[s].row, r) /\ r.by = o.by
             /\ r.del = sess[s].tran_no /\ r.over = o.over \cup ({o.del} \ {0})
  BY DeleteRowTable
<1>1. disk' = disk /\ acked' = acked /\ raced' = raced /\ Moved(s, y) /\ y.catalog = sess[s].catalog
      /\ y.tran_no = sess[s].tran_no
  BY DEF DeleteRow, Kept, Moved, SameTran
<1>2. KeptOf(c)
  BY <1>1 DEF KeptInv
<1>3. CASE c # sess[s].catalog
  <2>1. /\ table'[c].occupied = table[c].occupied
        /\ \A i \in 1 .. MaxRows : table'[c].rows[i] = table[c].rows[i]
    BY <1>3 DEF RowSet
  <2> QED BY <1>1, <1>2, <1>3, <2>1, KeptQuiet
<1>4. CASE c = sess[s].catalog
  <2>1. sess[s].row <= table[c].occupied
    BY <1>2, <1>4 DEF KeptOf
  <2>2. table'[c].occupied = table[c].occupied /\ table'[c].rows[sess[s].row] = r
    BY <1>4 DEF RowSet
  <2>3. Placed(Ack(y), table'[c])
    BY <1>1, <2>1, <2>2 DEF Placed, Ack
  <2>4. ASSUME NEW a, a.row = sess[s].row, a.tran_no # 0, Placed(a, table[c]) PROVE Placed(a, table'[c])
    BY <1>4, <2>2, <2>4 DEF Placed
  <2>5. ASSUME NEW t \in Sessions \ {s}, sess[t].pc = "fill", sess[t].catalog = c, sess[t].row = sess[s].row
        PROVE  r.by = 0
    <3>1. FillRight(t, sess, table[c])
      BY <1>2, <2>5 DEF KeptOf
    <3> QED BY <1>4, <2>5, <3>1 DEF FillRight
  <2>6. RowSet(table, table', c, sess[s].row, r) /\ sess[s].pc \in {"fill", "delete"}
    BY <1>4
  <2>7. \A t \in Sessions \ {s} :
           sess[t].pc = "fill" /\ sess[t].catalog = c /\ sess[t].row = sess[s].row => r.by = 0
    BY <2>5
  <2>8. \A a : /\ a.row = sess[s].row /\ a.tran_no # 0 /\ Placed(a, table[c]) => Placed(a, table'[c])
    BY <2>4
  <2> QED BY <1>1, <1>2, <1>4, <2>3, <2>7, <2>8, <2>6, KeptChanged
<1> QED BY <1>3, <1>4

LEMMA RestartKept ==
  ASSUME Types, KeptInv, SessInv, Restart, NEW c \in Catalogs, <<"rows", c>> \notin raced'
  PROVE  KeptOf(c)'
<1>1. table' = disk.table /\ disk' = disk /\ acked' = acked /\ raced' = raced
  BY DEF Restart
<1>2. \A s \in Sessions : sess'[s].pc = "idle"
  BY RestartSess
<1>3. KeptOf(c)
  BY <1>1 DEF KeptInv
<1> QED BY <1>1, <1>2, <1>3 DEF KeptOf, FillRight

LEMMA KeptNext ==
  ASSUME Types, Types', SessInv, RowInv, KeptInv, Next PROVE KeptInv'
<1>1. \A n \in DOMAIN history : n \in DOMAIN history'
  <2>1. ASSUME NEW s \in Sessions, NextVal(s) PROVE Extends(history, history')
    BY <2>1, NextValHistory DEF Extends
  <2>2. ASSUME NEW s \in Sessions, PutFlag(s) PROVE Extends(history, history')
    BY <2>2, PutFlagHistory DEF DecidedBy
  <2>3. ASSUME NEW s \in Sessions, SaveFlags(s) PROVE Extends(history, history')
    BY <2>3, SaveFlagsHistory
  <2>4. ASSUME NEW s \in Sessions, Disconnect(s) PROVE Extends(history, history')
    BY <2>4, AbandonHistory DEF Disconnect
  <2>5. ASSUME Restart PROVE Extends(history, history')
    BY <2>5, RestartHistory
  <2>6. ASSUME NEW s \in Sessions, Alone(s) PROVE history' = history
    BY <2>6, AloneMoves
  <2> QED BY <2>1, <2>2, <2>3, <2>4, <2>5, <2>6, Cases
          DEF Extends, SaveSeq, AllocRow, FillRow, DeleteRow, Save, WriteBack
<1>2. \A a \in acked' : a.tran_no \in DOMAIN history'
  <2>1. ASSUME NEW s \in Sessions, Save(s), NEW a \in acked' PROVE a.tran_no \in DOMAIN history
    <3>1. sess[s].tran_no \in DOMAIN history
      BY <2>1, SaveMoves DEF SessInv, TranRight, Writing
    <3> QED BY <2>1, <3>1 DEF Save, KeptInv
  <2>2. ASSUME NEW s \in Sessions, Alone(s) PROVE acked' = acked
    BY <2>2 DEF Alone, Begin, Continue, End, ReadFlags, ReadRows, RefuseInsert, Find, EndScan
  <2>3. acked' = acked \/ \E s \in Sessions : Save(s)
    BY <2>2, Cases DEF NextVal, SaveSeq, PutFlag, SaveFlags, AllocRow, FillRow, DeleteRow, Disconnect, WriteBack, Restart
  <2> QED BY <1>1, <2>1, <2>3 DEF KeptInv
<1> SUFFICES ASSUME NEW c \in Catalogs, <<"rows", c>> \notin raced' PROVE KeptOf(c)'
  BY <1>2 DEF KeptInv
<1>3. ASSUME NEW s \in Sessions, NEW y, Moved(s, y), y.pc \notin {"fill", "save"},
             y.pc = "delete" /\ y.catalog = c => y.row <= table[c].occupied,
             KeptOf(c), table' = table, acked' = acked,
             disk'.table[c] = disk.table[c] \/ disk'.table[c] = table[c]
      PROVE  KeptOf(c)'
  BY <1>3, KeptQuiet
<1>4. ASSUME NEW s \in Sessions, Alone(s) PROVE KeptOf(c)'
  <2>1. UNCHANGED <<table, disk, raced, acked>>
    BY <1>4, AloneMoves DEF Alone, Begin, Continue, End, ReadFlags, ReadRows, RefuseInsert, Find, EndScan
  <2>2. PICK y : /\ Moved(s, y) /\ y.pc \notin {"fill", "save"}
                 /\ y.pc = "delete" => y.row <= Page(s).occupied
    BY <1>4, AloneMoves DEF AloneMakes
  <2>3. y.pc = "delete" /\ y.catalog = c => y.row <= table[c].occupied
    BY <2>2 DEF Page, Moved
  <2>4. KeptOf(c)
    BY <2>1 DEF KeptInv
  <2> QED BY <1>3, <2>1, <2>2, <2>3, <2>4
<1>5. ASSUME NEW s \in Sessions, NextVal(s) PROVE KeptOf(c)'
  <2>1. table' = table /\ disk' = disk /\ acked' = acked /\ raced \subseteq raced'
    BY <1>5 DEF NextVal
  <2>2. PICK y : Moved(s, y) /\ y.pc \in {"put_flag", "save_seq"}
    BY <1>5, NextValMoves
  <2>3. KeptOf(c)
    BY <2>1 DEF KeptInv
  <2> QED BY <1>3, <2>1, <2>2, <2>3
<1>6. ASSUME NEW s \in Sessions, NEW kind \in {"start", "insert", "loop"}, SaveSeq(s, kind) PROVE KeptOf(c)'
  <2>1. table' = table /\ acked' = acked /\ raced' = raced /\ disk'.table = disk.table
    BY <1>6, SeqSaved, Sessioned DEF SaveSeq
  <2>2. PICK y : Moved(s, y) /\ y.pc \in {"insert", "scan", "idle"}
    BY <1>6, SaveSeqMoves DEF Kept
  <2>3. KeptOf(c)
    BY <2>1 DEF KeptInv
  <2> QED BY <1>3, <2>1, <2>2, <2>3
<1>7. ASSUME NEW s \in Sessions, PutFlag(s) PROVE KeptOf(c)'
  <2>1. table' = table /\ acked' = acked /\ raced' = raced /\ disk' = disk
    BY <1>7 DEF PutFlag
  <2>2. PICK y : Moved(s, y) /\ y.pc = "save_flags"
    BY <1>7, PutFlagMoves
  <2>3. KeptOf(c)
    BY <2>1 DEF KeptInv
  <2> QED BY <1>3, <2>1, <2>2, <2>3
<1>8. ASSUME NEW s \in Sessions, SaveFlags(s) PROVE KeptOf(c)'
  <2>1. table' = table /\ acked' = acked /\ raced' = raced /\ disk'.table = disk.table
    BY <1>8, FlagsSaved DEF SaveFlags
  <2>2. PICK y : Moved(s, y) /\ y.pc \in {"idle", "save_seq"}
    BY <1>8, SaveFlagsMoves
  <2>3. KeptOf(c)
    BY <2>1 DEF KeptInv
  <2> QED BY <1>3, <2>1, <2>2, <2>3
<1>9. ASSUME NEW s \in Sessions, Save(s) PROVE KeptOf(c)'
  <2>1. /\ table' = table /\ raced' = raced
        /\ acked' = acked \cup {Ack(sess[s])}
    BY <1>9 DEF Save, Ack
  <2>2. PICK y : Moved(s, y) /\ y.pc \in {"idle", "scan"} /\ sess[s].pc = "save"
    BY <1>9, SaveMoves DEF Kept
  <2>3. KeptOf(c)
    BY <2>1 DEF KeptInv
  <2>4. /\ disk'.table[sess[s].catalog] = table[sess[s].catalog]
        /\ \A d \in Catalogs \ {sess[s].catalog} : disk'.table[d] = disk.table[d]
    BY <1>9, PageSaved, Sessioned DEF Save, Flushed, Page
  <2>5. disk'.table[c] = disk.table[c] \/ disk'.table[c] = table[c]
    BY <2>4
  <2>6. \A a \in acked' : a \in acked \/ /\ a = Ack(sess[s]) /\ sess[s].pc = "save"
                                         /\ a.catalog = c => disk'.table[c] = table[c]
    BY <2>1, <2>2, <2>4 DEF Ack
  <2>7. /\ table'[c].occupied = table[c].occupied
        /\ \A i \in 1 .. MaxRows : table'[c].rows[i] = table[c].rows[i]
    BY <2>1
  <2> QED BY <2>2, <2>3, <2>5, <2>6, <2>7, KeptQuiet
<1>10. ASSUME NEW s \in Sessions, Disconnect(s) PROVE KeptOf(c)'
  <2>1. table' = table /\ acked' = acked /\ raced' = raced /\ disk' = disk
    BY <1>10 DEF Disconnect
  <2>2. PICK y : Moved(s, y) /\ y.pc = "idle"
    BY <1>10, DisconnectMoves
  <2>3. KeptOf(c)
    BY <2>1 DEF KeptInv
  <2> QED BY <1>3, <2>1, <2>2, <2>3
<1>11. ASSUME NEW d \in Catalogs, WriteBack(d) PROVE KeptOf(c)'
  <2>1. UNCHANGED <<sess, table, acked, raced>>
    BY <1>11 DEF WriteBack
  <2>2. disk'.table[c] = disk.table[c] \/ disk'.table[c] = table[c]
    BY <1>11, SeqSaved, FlagsSaved, PageSaved DEF WriteBack
  <2>3. KeptOf(c)
    BY <2>1 DEF KeptInv
  <2> QED BY <2>1, <2>2, <2>3 DEF KeptOf
<1> QED BY <1>4, <1>5, <1>6, <1>7, <1>8, <1>9, <1>10, <1>11, Cases,
           AllocRowKept, FillRowKept, DeleteRowKept, RestartKept

-----------------------------------------------------------------------------
(* The theorems.                                                           *)

LEMMA InitRight == Init => TranInv
<1> SUFFICES ASSUME Init PROVE TranInv
  OBVIOUS
<1>1. /\ sess \in [Sessions -> {NewSession(c) : c \in Catalogs}]
      /\ \A c \in Catalogs : /\ NewSession(c) \in SessionTypes /\ NewSession(c).pc = "idle"
                             /\ NewSession(c).tran_no = 0 /\ NewSession(c).tran = 0
                             /\ NewSession(c).kind = "none"
  BY TranAssumption DEF Init, NewSession, SessionTypes, Pcs, Kinds, Tids, TRAN_INVALID_ID
<1>2. /\ sess \in [Sessions -> SessionTypes]
      /\ \A s \in Sessions : sess[s].pc = "idle" /\ sess[s].tran_no = 0 /\ sess[s].tran = 0
  BY <1>1
<1>3. /\ NewRow \in RowTypes /\ NewRow.tmin = 0 /\ NewRow.tmax = 0 /\ NewRow.by = 0
      /\ NewRow.del = 0 /\ NewRow.over = {}
  BY TranAssumption DEF NewRow, RowTypes, Tids, TRAN_INVALID_ID
<1>4. /\ NewPage \in PageTypes /\ \A i \in 1 .. MaxRows : NewPage.rows[i] = NewRow
  BY <1>3, TranAssumption DEF NewPage, PageTypes
<1>5. /\ table \in Tables /\ seq \in Seqs
      /\ \A c \in Catalogs : /\ seq[c] = 0
                             /\ \A i \in 1 .. MaxRows : table[c].rows[i] = NewRow
  BY <1>4, TranAssumption DEF Init, Tables, Seqs, Tids
<1>6. flags = {} /\ history = <<>> /\ acked = {} /\ DOMAIN history = {} /\ history \in Histories
  BY EmptySeq DEF Init, Histories
<1>7. disk \in Disks /\ disk.seq = seq /\ disk.flags = {} /\ disk.table = table
  BY <1>5, <1>6 DEF Init, Disks
<1>8. Types
  BY <1>2, <1>5, <1>6, <1>7 DEF Types
<1>9. SessInv
  BY <1>2, <1>6 DEF SessInv, TranRight, StepRight, Distinct, RunningHeld, TRAN_INVALID_ID
<1>10. RowInv
  BY <1>2, <1>3, <1>5, <1>6, <1>7 DEF RowInv, RowsRight, RowRight, FoundRight, TRAN_INVALID_ID
<1>11. FlagInv
  BY <1>2, <1>6, <1>7 DEF FlagInv, OfCommitted
<1>12. IdInv
  BY <1>2, <1>5, <1>6, <1>7 DEF IdInv, IdsOf
<1>13. KeptInv
  BY <1>2, <1>3, <1>5, <1>6, <1>7 DEF KeptInv, KeptOf, Clean, FillRight
<1> QED BY <1>8, <1>9, <1>10, <1>11, <1>12, <1>13 DEF TranInv

LEMMA NextRight == TranInv /\ [Next]_vars => TranInv'
<1> SUFFICES ASSUME TranInv, [Next]_vars PROVE TranInv'
  OBVIOUS
<1>1. CASE Next
  <2>1. Types' /\ SessInv' /\ RowInv' /\ FlagInv'
    BY <1>1, TypesNext, SessNext, RowNext, FlagNext DEF TranInv
  <2>2. IdInv' /\ KeptInv'
    BY <1>1, <2>1, IdNext, KeptNext DEF TranInv
  <2> QED BY <2>1, <2>2 DEF TranInv
<1>2. CASE UNCHANGED vars
  BY <1>2 DEF vars, TranInv, Types, SessInv, RowInv, FlagInv, IdInv, IdsOf, WroteAny, KeptInv, KeptOf
<1> QED BY <1>1, <1>2

LEMMA Invariant == Spec => []TranInv
BY InitRight, NextRight, PTL DEF Spec

\* tran.c: a statement finds a row only if its own transaction or a committed one
\* inserted it, or a namesake of one of them, whatever the workers of any catalogs
\* are in the middle of and wherever they or the server stopped.
THEOREM TranNoDirtyRead == Spec => []NoDirtyRead
BY Invariant, DirtyReadsNot, PTL

\* tran.c: a statement finds its own rows and those of commits whose flag no other
\* worker may have taken back, unless its own, a committed transaction or a
\* namesake of them deleted them last.
THEOREM TranIntactFound == Spec => []IntactFound
BY Invariant, IntactRowsFound, PTL

\* tran_flag_put: a flag in memory or on disk is that of an id that was committed; and
\* a commit is flagged unless another worker held a copy of the byte when it was put,
\* or a namesake was rolled back after it.
THEOREM TranFlagsTellFate == Spec => []FlagsTellFate
BY Invariant, FlagsTell, PTL

\* dml.c, tran_put: in a catalog whose sequence no two workers had read at once an id is
\* given a second time only if a restart has cut off the transaction that had it
\* before it changed a row.
THEOREM TranIdsFresh == Spec => []IdsFresh
BY Invariant, IdsAreFresh, PTL

\* dml.c: what was flushed stays on disk, a deletion until a later one overwrites it, in
\* pages of which no two workers took the same row; and so do the flags of commits
\* that no other worker may have taken back.
THEOREM TranDurable == Spec => []Durable
BY Invariant, ChangesDurable, PTL
=============================================================================
