------------------------------ MODULE DdlProofs ------------------------------
(***************************************************************************)
(* Proofs about the system tables: no gid of a table on disk can be given  *)
(* out again (TablesCovered), and no two catalogs and tables share a file  *)
(* until a restart has found the sequence behind (GidsDistinct), and the   *)
(* files that rows on disk name are there (FilesThere, DataThere).         *)
(***************************************************************************)
EXTENDS Ddl, SequenceTheorems, TLAPS

Kinds == {"none", "system", "tran_sequence", "header", "data"}
Relations == [header : Gids, data : Gids \cup {GID_UNDEF}]
Stores == [sequence : Gids, catalog : Seq(Gids), relation : Seq(Relations),
           file : [Gids -> Kinds]]

PageNames == [kind : {"sequence", "catalog", "relation", "file"}, g : Gids \cup {GID_UNDEF}]

\* Types, with what TypeOK leaves out.
Types == /\ mem \in Stores /\ disk \in Stores
         /\ todo \in Seq(PageNames)
         /\ behind \in BOOLEAN

\* Every table of the store has gids up to n.
TablesUpTo(store, n) ==
  \A i \in DOMAIN store.relation : store.relation[i].header <= n /\ store.relation[i].data <= n

CatalogsUpTo(store, n) == \A i \in DOMAIN store.catalog : store.catalog[i] <= n

\* No two catalogs and tables of the store share a file.
Apart(store) ==
  /\ \A i, j \in DOMAIN store.catalog : store.catalog[i] = store.catalog[j] => i = j
  /\ \A i, j \in DOMAIN store.relation :
       /\ store.relation[i].header = store.relation[j].header => i = j
       /\ store.relation[i].data = store.relation[j].data =>
            i = j \/ store.relation[i].data = GID_UNDEF
       /\ store.relation[i].header # store.relation[j].data
  /\ \A i \in DOMAIN store.catalog, j \in DOMAIN store.relation :
       /\ store.catalog[i] # store.relation[j].header
       /\ store.catalog[i] # store.relation[j].data

\* What is on disk is what was in memory some time before.
Older == /\ disk.sequence <= mem.sequence
         /\ DOMAIN disk.catalog \subseteq DOMAIN mem.catalog
         /\ \A i \in DOMAIN disk.catalog : disk.catalog[i] = mem.catalog[i]
         /\ DOMAIN disk.relation \subseteq DOMAIN mem.relation
         /\ \A i \in DOMAIN disk.relation :
              /\ disk.relation[i].header = mem.relation[i].header
              /\ disk.relation[i].data \in {GID_UNDEF, mem.relation[i].data}

\* The sequence has passed the tables; on disk it has as well, unless its page is
\* the next to be flushed.
Covered == /\ TablesUpTo(mem, mem.sequence)
           /\ TablesUpTo(disk, disk.sequence)
           /\ todo = <<>> \/ Head(todo) # SEQUENCE => TablesUpTo(mem, disk.sequence)

\* Until a restart has found the sequence behind.
Drawn == ~behind => Apart(mem) /\ CatalogsUpTo(mem, mem.sequence)

\* The inductive invariant.
IInv == Types /\ Older /\ Covered /\ Drawn

-----------------------------------------------------------------------------
(* What the steps do to the store in memory.                               *)

LEMMA Appended ==
  ASSUME NEW S, NEW s \in Seq(S), NEW e \in S
  PROVE  /\ Append(s, e) \in Seq(S)
         /\ DOMAIN s = 1 .. Len(s) /\ Len(s) \in Nat
         /\ DOMAIN Append(s, e) = 1 .. Len(s) + 1
         /\ \A i \in 1 .. Len(s) : Append(s, e)[i] = s[i]
         /\ Append(s, e)[Len(s) + 1] = e
BY AppendProperties, LenProperties

\* The types of single rows.
LEMMA RowTypes ==
  ASSUME NEW store \in Stores
  PROVE  /\ store.sequence \in Nat
         /\ \A i \in DOMAIN store.catalog : store.catalog[i] \in Gids
         /\ \A i \in DOMAIN store.relation : /\ store.relation[i] \in Relations
                                             /\ store.relation[i].header \in Gids
                                             /\ store.relation[i].data \in Gids \cup {GID_UNDEF}
<1>1. store.sequence \in Nat /\ store.catalog \in Seq(Gids) /\ store.relation \in Seq(Relations)
  BY DEF Stores, Gids
<1>2. \A i \in DOMAIN store.catalog : store.catalog[i] \in Gids
  BY <1>1, ElementOfSeq
<1>3. \A i \in DOMAIN store.relation : store.relation[i] \in Relations
  BY <1>1, ElementOfSeq
<1> QED BY <1>1, <1>2, <1>3 DEF Relations

LEMMA Initially ==
  ASSUME Init
  PROVE  IInv
<1> USE DdlAssumption DEF Init, init_cluster, GID_UNDEF
<1>1. mem \in Stores /\ disk \in Stores
  BY DEF Stores, Gids, Kinds
<1>2. mem.catalog = <<>> /\ mem.relation = <<>> /\ disk = mem
  OBVIOUS
<1>3. Types
  <2>1. todo \in Seq(PageNames)
    BY EmptySeq
  <2> QED BY <1>1, <2>1 DEF Types
<1>4. Older
  BY <1>2 DEF Older
<1>5. Covered /\ Drawn
  BY <1>2 DEF Covered, Drawn, TablesUpTo, CatalogsUpTo, Apart
<1> QED BY <1>3, <1>4, <1>5 DEF IInv

\* A page is written as it is in memory.
LEMMA Writes ==
  ASSUME mem \in Stores, disk \in Stores, NEW p,
         p.kind \in {"sequence", "catalog", "relation", "file"}
  PROVE  /\ Written(p) \in Stores
         /\ Written(p).sequence = IF p.kind = "sequence" THEN mem.sequence ELSE disk.sequence
         /\ Written(p).catalog = IF p.kind = "catalog" THEN mem.catalog ELSE disk.catalog
         /\ Written(p).relation = IF p.kind = "relation" THEN mem.relation ELSE disk.relation
BY DEF Written, Stores

\* Writing a page leaves on disk what was in memory some time before, and covers
\* the tables if the sequence has, or if it is the sequence's page.
LEMMA Writing ==
  ASSUME IInv, NEW p,
         p.kind \in {"sequence", "catalog", "relation", "file"},
         disk' = Written(p), mem' = mem,
         TablesUpTo(mem, disk.sequence) \/ p.kind = "sequence"
  PROVE  /\ disk' \in Stores
         /\ Older'
         /\ TablesUpTo(disk, disk.sequence)'
         /\ TablesUpTo(mem, disk.sequence)'
<1> USE DEF IInv, Types
<1>1. /\ disk' \in Stores
      /\ disk'.sequence = IF p.kind = "sequence" THEN mem.sequence ELSE disk.sequence
      /\ disk'.catalog = IF p.kind = "catalog" THEN mem.catalog ELSE disk.catalog
      /\ disk'.relation = IF p.kind = "relation" THEN mem.relation ELSE disk.relation
  BY Writes
<1>2. mem.sequence \in Nat /\ disk.sequence \in Nat
  BY DEF Stores, Gids
<1>3. Older'
  <2>1. disk'.sequence <= mem'.sequence
    BY <1>1, <1>2 DEF Older
  <2>2. /\ DOMAIN disk'.catalog \subseteq DOMAIN mem'.catalog
        /\ \A i \in DOMAIN disk'.catalog : disk'.catalog[i] = mem'.catalog[i]
    BY <1>1 DEF Older
  <2>3. /\ DOMAIN disk'.relation \subseteq DOMAIN mem'.relation
        /\ \A i \in DOMAIN disk'.relation :
             /\ disk'.relation[i].header = mem'.relation[i].header
             /\ disk'.relation[i].data \in {GID_UNDEF, mem'.relation[i].data}
    BY <1>1 DEF Older
  <2> QED BY <2>1, <2>2, <2>3 DEF Older
<1>4. TablesUpTo(mem, disk'.sequence)
  BY <1>1 DEF Covered
<1>5. TablesUpTo(disk', disk'.sequence)
  <2>1. CASE p.kind = "relation"
    BY <2>1, <1>1, <1>4 DEF TablesUpTo
  <2>2. CASE p.kind # "relation"
    <3>1. disk'.relation = disk.relation /\ disk.sequence <= disk'.sequence
      BY <2>2, <1>1, <1>2 DEF Older
    <3>2. \A i \in DOMAIN disk.relation : /\ disk.relation[i].header \in Nat
                                          /\ disk.relation[i].data \in Nat
      BY RowTypes DEF Gids, GID_UNDEF
    <3>3. disk'.sequence \in Nat
      BY <1>1, <1>2
    <3>4. TablesUpTo(disk, disk.sequence)
      BY DEF Covered
    <3> QED BY <3>1, <3>2, <3>3, <3>4, <1>2 DEF TablesUpTo
  <2> QED BY <2>1, <2>2
<1> QED BY <1>1, <1>3, <1>4, <1>5 DEF TablesUpTo

-----------------------------------------------------------------------------
(* The statements.                                                         *)

\* A gid that is drawn is new, as far as the sequence can tell.
LEMMA New ==
  ASSUME IInv, Free
  PROVE  /\ nextval \in Gids /\ nextval \in Nat /\ nextval = mem.sequence + 1
         /\ mem.sequence \in Nat /\ disk.sequence \in Nat
         /\ TablesUpTo(mem, mem.sequence) /\ TablesUpTo(mem, disk.sequence)
         /\ disk.sequence <= nextval
         /\ todo = <<>>
<1>1. mem.sequence \in Nat /\ disk.sequence \in Nat
  BY RowTypes DEF IInv, Types
<1>2. nextval \in Gids /\ nextval = mem.sequence + 1 /\ todo = <<>>
  BY DEF Free, nextval
<1> QED BY <1>1, <1>2 DEF IInv, Covered, Older, Gids

\* What a statement flushes.
LEMMA ToFlush ==
  ASSUME NEW g \in Gids
  PROVE  /\ <<CATALOG, File(g)>> \in Seq(PageNames)
         /\ <<SEQUENCE, RELATION, File(g)>> \in Seq(PageNames)
         /\ <<SEQUENCE, File(g), RELATION>> \in Seq(PageNames)
         /\ Head(<<CATALOG, File(g)>>) # SEQUENCE
         /\ Head(<<SEQUENCE, RELATION, File(g)>>) = SEQUENCE
         /\ Head(<<SEQUENCE, File(g), RELATION>>) = SEQUENCE
BY DEF PageNames, CATALOG, SEQUENCE, RELATION, File, Page

LEMMA CreateCatalog ==
  ASSUME IInv, create_catalog
  PROVE  IInv'
<1> DEFINE n == Len(mem.catalog)
<1>1. /\ nextval \in Gids /\ nextval \in Nat /\ nextval = mem.sequence + 1
      /\ mem.sequence \in Nat /\ disk.sequence \in Nat
      /\ TablesUpTo(mem, mem.sequence) /\ TablesUpTo(mem, disk.sequence)
      /\ disk.sequence <= nextval
  BY New DEF create_catalog
<1>2. mem \in Stores /\ disk \in Stores /\ disk' = disk /\ behind' = behind
  BY DEF IInv, Types, create_catalog
<1>3. /\ Append(mem.catalog, nextval) \in Seq(Gids)
      /\ DOMAIN mem.catalog = 1 .. n /\ n \in Nat
      /\ DOMAIN Append(mem.catalog, nextval) = 1 .. n + 1
      /\ \A i \in 1 .. n : Append(mem.catalog, nextval)[i] = mem.catalog[i]
      /\ Append(mem.catalog, nextval)[n + 1] = nextval
  <2>1. mem.catalog \in Seq(Gids)
    BY <1>2 DEF Stores
  <2> QED BY <2>1, <1>1, Appended
<1>4. /\ mem' \in Stores
      /\ mem'.sequence = nextval /\ mem'.relation = mem.relation
      /\ mem'.catalog = Append(mem.catalog, nextval)
  BY <1>1, <1>2, <1>3 DEF create_catalog, Stores, Kinds
<1>5. Types'
  <2>1. todo' = <<CATALOG, File(nextval)>>
    BY DEF create_catalog
  <2> QED BY <2>1, <1>1, <1>2, <1>4, ToFlush DEF IInv, Types
<1> HIDE DEF n
<1>6. Older'
  BY <1>1, <1>2, <1>3, <1>4 DEF IInv, Older
<1>7. Covered'
  <2>1. TablesUpTo(mem', mem'.sequence)
    <3>1. \A i \in DOMAIN mem.relation : mem.relation[i].header \in Nat /\ mem.relation[i].data \in Nat
      BY <1>2, RowTypes DEF Gids, GID_UNDEF
    <3> QED BY <3>1, <1>1, <1>4 DEF TablesUpTo
  <2>2. TablesUpTo(mem', disk'.sequence)
    BY <1>1, <1>2, <1>4 DEF TablesUpTo
  <2>3. TablesUpTo(disk', disk'.sequence)
    BY <1>2 DEF IInv, Covered, TablesUpTo
  <2> QED BY <2>1, <2>2, <2>3 DEF Covered, TablesUpTo
<1>8. Drawn'
  <2> SUFFICES ASSUME ~behind
               PROVE  Apart(mem') /\ CatalogsUpTo(mem', mem'.sequence)
    BY <1>2 DEF Drawn, Apart, CatalogsUpTo
  <2>1. Apart(mem) /\ CatalogsUpTo(mem, mem.sequence)
    BY DEF IInv, Drawn
  <2>2. \A i \in 1 .. n : mem.catalog[i] \in Nat /\ mem.catalog[i] < nextval
    <3>1. \A i \in 1 .. n : mem.catalog[i] \in Nat
      BY <1>2, <1>3, RowTypes DEF Gids
    <3>2. \A i \in 1 .. n : mem.catalog[i] <= mem.sequence
      BY <2>1, <1>3 DEF CatalogsUpTo
    <3> QED BY <3>1, <3>2, <1>1
  <2>3. \A i \in DOMAIN mem.relation : /\ nextval # mem.relation[i].header
                                       /\ nextval # mem.relation[i].data
    BY <1>1, <1>2, RowTypes DEF TablesUpTo, Gids, GID_UNDEF
  <2>4. Apart(mem')
    <3>1. \A i, j \in DOMAIN mem'.catalog : mem'.catalog[i] = mem'.catalog[j] => i = j
      BY <2>1, <2>2, <1>1, <1>3, <1>4 DEF Apart
    <3>2. \A i \in DOMAIN mem'.catalog, j \in DOMAIN mem'.relation :
            /\ mem'.catalog[i] # mem'.relation[j].header
            /\ mem'.catalog[i] # mem'.relation[j].data
      BY <2>1, <2>3, <1>3, <1>4 DEF Apart
    <3> QED BY <3>1, <3>2, <2>1, <1>4 DEF Apart
  <2>5. CatalogsUpTo(mem', mem'.sequence)
    BY <2>2, <1>1, <1>3, <1>4 DEF CatalogsUpTo
  <2> QED BY <2>4, <2>5
<1> QED BY <1>5, <1>6, <1>7, <1>8 DEF IInv

LEMMA CreateTable ==
  ASSUME IInv, create_table
  PROVE  IInv'
<1> DEFINE n == Len(mem.relation)
           row == [header |-> nextval, data |-> GID_UNDEF]
<1>1. /\ nextval \in Gids /\ nextval \in Nat /\ nextval = mem.sequence + 1
      /\ mem.sequence \in Nat /\ disk.sequence \in Nat
      /\ TablesUpTo(mem, mem.sequence)
      /\ disk.sequence <= nextval
  BY New DEF create_table
<1>2. mem \in Stores /\ disk \in Stores /\ disk' = disk /\ behind' = behind
  BY DEF IInv, Types, create_table
<1>3. /\ Append(mem.relation, row) \in Seq(Relations)
      /\ DOMAIN mem.relation = 1 .. n /\ n \in Nat
      /\ DOMAIN Append(mem.relation, row) = 1 .. n + 1
      /\ \A i \in 1 .. n : Append(mem.relation, row)[i] = mem.relation[i]
      /\ Append(mem.relation, row)[n + 1] = row
  <2>1. mem.relation \in Seq(Relations) /\ row \in Relations
    BY <1>1, <1>2 DEF Stores, Relations
  <2> QED BY <2>1, Appended
<1>4. /\ mem' \in Stores
      /\ mem'.sequence = nextval /\ mem'.catalog = mem.catalog
      /\ mem'.relation = Append(mem.relation, row)
  BY <1>1, <1>2, <1>3 DEF create_table, Stores, Kinds
<1>5. todo' = <<SEQUENCE, RELATION, File(nextval)>>
  BY DEF create_table
<1>6. Types'
  BY <1>1, <1>2, <1>4, <1>5, ToFlush DEF IInv, Types
<1>7. row.header = nextval /\ row.data = GID_UNDEF
  OBVIOUS
<1> HIDE DEF n, row
<1>8. Older'
  BY <1>1, <1>2, <1>3, <1>4 DEF IInv, Older
<1>9. \A i \in 1 .. n : /\ mem.relation[i].header \in Nat /\ mem.relation[i].header < nextval
                        /\ mem.relation[i].data \in Nat /\ mem.relation[i].data < nextval
                        /\ mem.relation[i].header # GID_UNDEF
  <2>1. \A i \in 1 .. n : /\ mem.relation[i].header \in Nat /\ mem.relation[i].data \in Nat
                          /\ mem.relation[i].header # GID_UNDEF
    BY <1>2, <1>3, RowTypes DEF Gids, GID_UNDEF
  <2>2. \A i \in 1 .. n : /\ mem.relation[i].header <= mem.sequence
                          /\ mem.relation[i].data <= mem.sequence
    BY <1>1, <1>3 DEF TablesUpTo
  <2> QED BY <2>1, <2>2, <1>1
<1>10. Covered'
  <2>1. TablesUpTo(mem', mem'.sequence)
    <3> SUFFICES ASSUME NEW i \in 1 .. n + 1
                 PROVE  mem'.relation[i].header <= nextval /\ mem'.relation[i].data <= nextval
      BY <1>3, <1>4 DEF TablesUpTo
    <3>1. CASE i = n + 1
      BY <3>1, <1>1, <1>3, <1>4, <1>7 DEF GID_UNDEF
    <3>2. CASE i \in 1 .. n
      BY <3>2, <1>1, <1>3, <1>4, <1>9
    <3> QED BY <3>1, <3>2, <1>3
  <2>2. TablesUpTo(disk', disk'.sequence)
    BY <1>2 DEF IInv, Covered, TablesUpTo
  <2>3. todo' # <<>> /\ Head(todo') = SEQUENCE
    BY <1>1, <1>5, ToFlush
  <2> QED BY <2>1, <2>2, <2>3 DEF Covered, TablesUpTo
<1>11. Drawn'
  <2> SUFFICES ASSUME ~behind
               PROVE  Apart(mem') /\ CatalogsUpTo(mem', mem'.sequence)
    BY <1>2 DEF Drawn, Apart, CatalogsUpTo
  <2>1. Apart(mem) /\ CatalogsUpTo(mem, mem.sequence)
    BY DEF IInv, Drawn
  <2>2. \A i \in DOMAIN mem.catalog : /\ mem.catalog[i] \in Nat /\ mem.catalog[i] # GID_UNDEF
                                      /\ mem.catalog[i] < nextval
    <3>1. \A i \in DOMAIN mem.catalog : mem.catalog[i] \in Nat /\ mem.catalog[i] # GID_UNDEF
      BY <1>2, RowTypes DEF Gids, GID_UNDEF
    <3>2. \A i \in DOMAIN mem.catalog : mem.catalog[i] <= mem.sequence
      BY <2>1 DEF CatalogsUpTo
    <3> QED BY <3>1, <3>2, <1>1
  <2>3. \A i, j \in DOMAIN mem'.relation :
          mem'.relation[i].header = mem'.relation[j].header => i = j
    BY <2>1, <1>1, <1>3, <1>4, <1>7, <1>9 DEF Apart
  <2>4. \A i, j \in DOMAIN mem'.relation :
          mem'.relation[i].data = mem'.relation[j].data =>
            i = j \/ mem'.relation[i].data = GID_UNDEF
    BY <2>1, <1>1, <1>3, <1>4, <1>7, <1>9 DEF Apart
  <2>5. \A i, j \in DOMAIN mem'.relation : mem'.relation[i].header # mem'.relation[j].data
    BY <2>1, <1>1, <1>3, <1>4, <1>7, <1>9 DEF Apart, GID_UNDEF
  <2>6. \A i \in DOMAIN mem'.catalog, j \in DOMAIN mem'.relation :
          /\ mem'.catalog[i] # mem'.relation[j].header
          /\ mem'.catalog[i] # mem'.relation[j].data
    BY <2>1, <2>2, <1>1, <1>3, <1>4, <1>7 DEF Apart
  <2>7. Apart(mem')
    BY <2>1, <2>3, <2>4, <2>5, <2>6, <1>4 DEF Apart
  <2>8. CatalogsUpTo(mem', mem'.sequence)
    BY <2>2, <1>1, <1>4 DEF CatalogsUpTo
  <2> QED BY <2>7, <2>8
<1> QED BY <1>6, <1>8, <1>10, <1>11 DEF IInv

LEMMA CreateTableRefused ==
  ASSUME IInv, create_table_refused
  PROVE  IInv'
<1>1. /\ nextval \in Gids /\ nextval \in Nat /\ nextval = mem.sequence + 1
      /\ mem.sequence \in Nat /\ disk.sequence \in Nat
      /\ TablesUpTo(mem, mem.sequence) /\ TablesUpTo(mem, disk.sequence)
      /\ disk.sequence <= nextval
  BY New DEF create_table_refused
<1>2. /\ mem \in Stores /\ disk \in Stores
      /\ disk' = disk /\ behind' = behind /\ todo' = todo
  BY DEF IInv, Types, create_table_refused
<1>3. /\ mem' \in Stores
      /\ mem'.sequence = nextval /\ mem'.catalog = mem.catalog /\ mem'.relation = mem.relation
  BY <1>1, <1>2 DEF create_table_refused, Stores, Kinds
<1>4. Types'
  BY <1>2, <1>3 DEF IInv, Types
<1>5. Older'
  BY <1>1, <1>2, <1>3 DEF IInv, Older
<1>6. Covered'
  <2>1. \A i \in DOMAIN mem.relation : mem.relation[i].header \in Nat /\ mem.relation[i].data \in Nat
    BY <1>2, RowTypes DEF Gids, GID_UNDEF
  <2>2. TablesUpTo(mem', mem'.sequence)
    BY <2>1, <1>1, <1>3 DEF TablesUpTo
  <2>3. TablesUpTo(mem', disk'.sequence) /\ TablesUpTo(disk', disk'.sequence)
    BY <1>1, <1>2, <1>3 DEF IInv, Covered, TablesUpTo
  <2> QED BY <2>2, <2>3 DEF Covered, TablesUpTo
<1>7. Drawn'
  <2>1. \A i \in DOMAIN mem.catalog : mem.catalog[i] \in Nat
    BY <1>2, RowTypes DEF Gids
  <2>2. CatalogsUpTo(mem, mem.sequence) => CatalogsUpTo(mem', mem'.sequence)
    BY <2>1, <1>1, <1>3 DEF CatalogsUpTo
  <2>3. Apart(mem) => Apart(mem')
    BY <1>3 DEF Apart
  <2> QED BY <2>2, <2>3, <1>2 DEF IInv, Drawn, Apart, CatalogsUpTo
<1> QED BY <1>4, <1>5, <1>6, <1>7 DEF IInv

LEMMA FindRelation ==
  ASSUME IInv, find_relation
  PROVE  IInv'
<1>1. /\ nextval \in Gids /\ nextval \in Nat /\ nextval = mem.sequence + 1
      /\ mem.sequence \in Nat /\ disk.sequence \in Nat
      /\ TablesUpTo(mem, mem.sequence)
      /\ disk.sequence <= nextval
  BY New DEF find_relation
<1>2. mem \in Stores /\ disk \in Stores /\ disk' = disk /\ behind' = behind
  BY DEF IInv, Types, find_relation
<1>3. PICK t \in DOMAIN mem.relation :
        /\ mem.relation[t].data = GID_UNDEF
        /\ mem' = [mem EXCEPT !.sequence = nextval, !.file[nextval] = "data",
                              !.relation[t].data = nextval]
  BY DEF find_relation
<1> DEFINE row == [mem.relation[t] EXCEPT !.data = nextval]
<1>4. /\ row \in Relations
      /\ row.header = mem.relation[t].header /\ row.data = nextval
  <2>1. mem.relation[t] \in Relations
    BY <1>2, RowTypes
  <2> QED BY <2>1, <1>1 DEF Relations
<1>5. /\ [mem.relation EXCEPT ![t] = row] \in Seq(Relations)
      /\ DOMAIN [mem.relation EXCEPT ![t] = row] = DOMAIN mem.relation
      /\ \A i \in DOMAIN mem.relation :
           [mem.relation EXCEPT ![t] = row][i] = IF i = t THEN row ELSE mem.relation[i]
  <2>1. mem.relation \in Seq(Relations)
    BY <1>2 DEF Stores
  <2> HIDE DEF row
  <2>2. [mem.relation EXCEPT ![t] = row] \in Seq(Relations)
    BY <2>1, <1>4, ExceptSeq
  <2> QED BY <2>2
<1>6. /\ mem' \in Stores
      /\ mem'.sequence = nextval /\ mem'.catalog = mem.catalog
      /\ mem'.relation = [mem.relation EXCEPT ![t] = row]
  BY <1>1, <1>2, <1>3, <1>5 DEF Stores, Kinds
<1>7. todo' = <<SEQUENCE, File(nextval), RELATION>>
  BY DEF find_relation
<1>8. Types'
  BY <1>1, <1>2, <1>6, <1>7, ToFlush DEF IInv, Types
<1> HIDE DEF row
<1>9. /\ DOMAIN mem'.relation = DOMAIN mem.relation
      /\ \A i \in DOMAIN mem.relation :
           /\ mem'.relation[i].header = mem.relation[i].header
           /\ mem'.relation[i].data = IF i = t THEN nextval ELSE mem.relation[i].data
  BY <1>4, <1>5, <1>6
<1>10. Older'
  BY <1>1, <1>2, <1>3, <1>6, <1>9 DEF IInv, Older
<1>11. \A i \in DOMAIN mem.relation :
         /\ mem.relation[i].header \in Nat /\ mem.relation[i].header < nextval
         /\ mem.relation[i].data \in Nat /\ mem.relation[i].data < nextval
  <2>1. \A i \in DOMAIN mem.relation : mem.relation[i].header \in Nat /\ mem.relation[i].data \in Nat
    BY <1>2, RowTypes DEF Gids, GID_UNDEF
  <2>2. \A i \in DOMAIN mem.relation : /\ mem.relation[i].header <= mem.sequence
                                       /\ mem.relation[i].data <= mem.sequence
    BY <1>1 DEF TablesUpTo
  <2> QED BY <2>1, <2>2, <1>1
<1>12. Covered'
  <2>1. TablesUpTo(mem', mem'.sequence)
    BY <1>1, <1>6, <1>9, <1>11 DEF TablesUpTo
  <2>2. TablesUpTo(disk', disk'.sequence)
    BY <1>2 DEF IInv, Covered, TablesUpTo
  <2>3. todo' # <<>> /\ Head(todo') = SEQUENCE
    BY <1>1, <1>7, ToFlush
  <2> QED BY <2>1, <2>2, <2>3 DEF Covered, TablesUpTo
<1>13. Drawn'
  <2> SUFFICES ASSUME ~behind
               PROVE  Apart(mem') /\ CatalogsUpTo(mem', mem'.sequence)
    BY <1>2 DEF Drawn, Apart, CatalogsUpTo
  <2>1. Apart(mem) /\ CatalogsUpTo(mem, mem.sequence)
    BY DEF IInv, Drawn
  <2>2. \A i \in DOMAIN mem.catalog : mem.catalog[i] \in Nat /\ mem.catalog[i] < nextval
    <3>1. \A i \in DOMAIN mem.catalog : mem.catalog[i] \in Nat
      BY <1>2, RowTypes DEF Gids
    <3>2. \A i \in DOMAIN mem.catalog : mem.catalog[i] <= mem.sequence
      BY <2>1 DEF CatalogsUpTo
    <3> QED BY <3>1, <3>2, <1>1
  <2>3. \A i, j \in DOMAIN mem'.relation :
          mem'.relation[i].header = mem'.relation[j].header => i = j
    BY <2>1, <1>9 DEF Apart
  <2>4. \A i, j \in DOMAIN mem'.relation :
          mem'.relation[i].data = mem'.relation[j].data =>
            i = j \/ mem'.relation[i].data = GID_UNDEF
    BY <2>1, <1>1, <1>9, <1>11 DEF Apart
  <2>5. \A i, j \in DOMAIN mem'.relation : mem'.relation[i].header # mem'.relation[j].data
    BY <2>1, <1>1, <1>9, <1>11 DEF Apart
  <2>6. \A i \in DOMAIN mem'.catalog, j \in DOMAIN mem'.relation :
          /\ mem'.catalog[i] # mem'.relation[j].header
          /\ mem'.catalog[i] # mem'.relation[j].data
    BY <2>1, <2>2, <1>1, <1>6, <1>9 DEF Apart
  <2>7. Apart(mem')
    BY <2>1, <2>3, <2>4, <2>5, <2>6, <1>6 DEF Apart
  <2>8. CatalogsUpTo(mem', mem'.sequence)
    BY <2>2, <1>1, <1>6 DEF CatalogsUpTo
  <2> QED BY <2>7, <2>8
<1> QED BY <1>8, <1>10, <1>12, <1>13 DEF IInv

-----------------------------------------------------------------------------
(* Flushes, evictions and restarts.                                        *)

LEMMA FlushStep ==
  ASSUME IInv, Flush
  PROVE  IInv'
<1> DEFINE p == Head(todo)
<1>1. /\ todo # <<>> /\ disk' = Written(p) /\ todo' = Tail(todo)
      /\ mem' = mem /\ behind' = behind
  BY DEF Flush
<1>2. p.kind \in {"sequence", "catalog", "relation", "file"} /\ todo' \in Seq(PageNames)
  <2>1. Head(todo) \in PageNames /\ Tail(todo) \in Seq(PageNames)
    BY <1>1, HeadTailProperties DEF IInv, Types
  <2> QED BY <2>1, <1>1 DEF PageNames
<1>3. TablesUpTo(mem, disk.sequence) \/ p.kind = "sequence"
  BY <1>1 DEF IInv, Covered, SEQUENCE, Page
<1> HIDE DEF p
<1>4. /\ disk' \in Stores
      /\ Older'
      /\ TablesUpTo(disk, disk.sequence)'
      /\ TablesUpTo(mem, disk.sequence)'
  BY <1>1, <1>2, <1>3, Writing
<1>5. Types'
  BY <1>1, <1>2, <1>4 DEF IInv, Types
<1>6. TablesUpTo(mem, mem.sequence)'
  BY <1>1 DEF IInv, Covered, TablesUpTo
<1>7. Covered'
  BY <1>4, <1>6 DEF Covered
<1>8. Drawn'
  BY <1>1 DEF IInv, Drawn, Apart, CatalogsUpTo
<1> QED BY <1>4, <1>5, <1>7, <1>8 DEF IInv

LEMMA EvictStep ==
  ASSUME IInv, Evict
  PROVE  IInv'
<1>1. PICK p \in {SEQUENCE, CATALOG, RELATION} \cup {File(g) : g \in Gids} : disk' = Written(p)
  BY DEF Evict
<1>2. p.kind \in {"sequence", "catalog", "relation", "file"}
  BY <1>1 DEF SEQUENCE, CATALOG, RELATION, File, Page
<1>3. todo = <<>> /\ mem' = mem /\ behind' = behind /\ todo' = todo
  BY DEF Evict
<1>4. TablesUpTo(mem, disk.sequence)
  BY <1>3 DEF IInv, Covered
<1>5. /\ disk' \in Stores
      /\ Older'
      /\ TablesUpTo(disk, disk.sequence)'
      /\ TablesUpTo(mem, disk.sequence)'
  BY <1>1, <1>2, <1>3, <1>4, Writing
<1>6. Types'
  BY <1>3, <1>5 DEF IInv, Types
<1>7. TablesUpTo(mem, mem.sequence)'
  BY <1>3 DEF IInv, Covered, TablesUpTo
<1>8. Covered'
  BY <1>5, <1>7 DEF Covered
<1>9. Drawn'
  BY <1>3 DEF IInv, Drawn, Apart, CatalogsUpTo
<1> QED BY <1>5, <1>6, <1>8, <1>9 DEF IInv

\* What is older than stores apart is apart.
LEMMA OlderApart ==
  ASSUME Types, Older, Apart(mem)
  PROVE  Apart(disk)
<1>1. \A i, j \in DOMAIN disk.catalog : disk.catalog[i] = disk.catalog[j] => i = j
  BY DEF Older, Apart
<1>2. \A i \in DOMAIN disk.relation : /\ disk.relation[i].header # GID_UNDEF
                                      /\ i \in DOMAIN mem.relation
                                      /\ disk.relation[i].header = mem.relation[i].header
                                      /\ disk.relation[i].data \in {GID_UNDEF, mem.relation[i].data}
  BY RowTypes DEF Types, Older, Gids, GID_UNDEF
<1>3. \A i \in DOMAIN disk.catalog : /\ disk.catalog[i] # GID_UNDEF
                                     /\ i \in DOMAIN mem.catalog
                                     /\ disk.catalog[i] = mem.catalog[i]
  BY RowTypes DEF Types, Older, Gids, GID_UNDEF
<1> QED BY <1>1, <1>2, <1>3 DEF Apart

LEMMA RestartStep ==
  ASSUME IInv, Restart
  PROVE  IInv'
<1>1. /\ mem' = disk /\ disk' = disk /\ todo' = <<>>
      /\ behind' = (behind \/ \E g \in InUse(disk) : g > disk.sequence)
  BY DEF Restart
<1>2. Types'
  <2>1. todo' \in Seq(PageNames)
    BY <1>1, EmptySeq
  <2>2. behind' \in BOOLEAN
    BY <1>1, Zenon DEF IInv, Types
  <2> QED BY <2>1, <2>2, <1>1 DEF IInv, Types
<1>3. disk.sequence \in Nat
  BY RowTypes DEF IInv, Types
<1>4. Older'
  BY <1>1, <1>3 DEF Older
<1>5. Covered'
  BY <1>1 DEF IInv, Covered, TablesUpTo
<1>6. Drawn'
  <2> SUFFICES ASSUME ~behind'
               PROVE  Apart(mem') /\ CatalogsUpTo(mem', mem'.sequence)
    BY DEF Drawn, Apart, CatalogsUpTo
  <2>1. ~behind /\ \A g \in InUse(disk) : ~(g > disk.sequence)
    BY <1>1
  <2>2. Apart(disk)
    BY <2>1, OlderApart DEF IInv, Drawn
  <2>3. \A i \in DOMAIN disk.catalog : disk.catalog[i] \in InUse(disk) /\ disk.catalog[i] \in Nat
    BY RowTypes DEF IInv, Types, InUse, Catalogs, Gids
  <2>4. CatalogsUpTo(disk, disk.sequence)
    BY <2>1, <2>3, <1>3 DEF CatalogsUpTo
  <2> QED BY <2>2, <2>4, <1>1
<1> QED BY <1>2, <1>4, <1>5, <1>6 DEF IInv

LEMMA Steps ==
  ASSUME IInv, [Next]_vars
  PROVE  IInv'
<1>1. CASE Next
  BY <1>1, CreateCatalog, CreateTable, CreateTableRefused, FindRelation, FlushStep, EvictStep,
     RestartStep DEF Next
<1>2. CASE UNCHANGED vars
  BY <1>2 DEF vars, IInv, Types, Older, Covered, Drawn, TablesUpTo, CatalogsUpTo, Apart, SEQUENCE
<1> QED BY <1>1, <1>2

LEMMA Invariant == Spec => []IInv
<1>1. Init => IInv
  BY Initially
<1>2. IInv /\ [Next]_vars => IInv'
  BY Steps
<1> QED BY <1>1, <1>2, PTL DEF Spec

-----------------------------------------------------------------------------

\* Wherever a crash falls between the flushes of ddl.c and dml.c, the sequence on
\* disk is past every file of a table on disk, for any number of files.
THEOREM DdlTablesCovered == Spec => []TablesCovered
<1>1. IInv => TablesCovered
  BY DEF IInv, Covered, TablesUpTo, TablesCovered, Headers, Datas
<1> QED BY <1>1, Invariant, PTL

\* No two catalogs and tables share a file, until a restart has found the sequence
\* behind what CREATE CATALOG had drawn from it.
THEOREM DdlGidsDistinct == Spec => []GidsDistinct
<1>1. IInv => GidsDistinct
  <2> SUFFICES ASSUME IInv, ~behind
               PROVE  GidsDistinct!2
    BY DEF GidsDistinct
  <2>1. Apart(mem)
    BY DEF IInv, Drawn
  <2>2. \A i \in DOMAIN mem.relation : mem.relation[i].header # GID_UNDEF
    BY RowTypes DEF IInv, Types, Gids, GID_UNDEF
  <2>3. \A i, j \in DOMAIN mem.catalog : mem.catalog[i] = mem.catalog[j] => i = j
    BY <2>1 DEF Apart
  <2>4. \A i, j \in DOMAIN mem.relation :
          i # j => {mem.relation[i].header, mem.relation[i].data}
                     \cap {mem.relation[j].header, mem.relation[j].data} \subseteq {GID_UNDEF}
    BY <2>1 DEF Apart
  <2>5. Headers(mem) \cap Datas(mem) = {}
    BY <2>1 DEF Apart, Headers, Datas
  <2>6. Catalogs(mem) \cap (Headers(mem) \cup Datas(mem)) = {}
    BY <2>1 DEF Apart, Catalogs, Headers, Datas
  <2> QED BY <2>3, <2>4, <2>5, <2>6
<1> QED BY <1>1, Invariant, PTL

-----------------------------------------------------------------------------
(* The files: what the rows of the system tables refer to is there.        *)

\* The file is among the pages to be flushed; it is, before the row that names it.
Waiting(g) == \E k \in DOMAIN todo : todo[k] = File(g)
DataWaiting(g) == \/ todo = <<SEQUENCE, File(g), RELATION>>
                  \/ todo = <<File(g), RELATION>>

\* The files of scri stay what they are; the types that IInv leaves out.
Based ==
  /\ mem.sequence >= 9 /\ disk.sequence >= 9
  /\ \A g \in System : mem.file[g] = "system" /\ disk.file[g] = "system"
  /\ Len(todo) <= 3 /\ restarts \in 0 .. MaxRestarts

\* Files of the kind are in memory, and on disk unless they are waiting.
Kept(S, kind) ==
  \A g \in S : mem.file[g] = kind /\ (disk.file[g] = kind \/ Waiting(g))

DatasKept ==
  ~behind => /\ \A g \in Datas(mem) : /\ mem.file[g] = "data"
                                      /\ disk.file[g] = "data" \/ DataWaiting(g)
             /\ \A g \in Datas(disk) : disk.file[g] = "data"

RowsKept ==
  ~behind /\ ~torn =>
    Kept(Catalogs(mem), "tran_sequence") /\ Kept(Headers(mem), "header")

FInv == Based /\ DatasKept /\ RowsKept

\* The rows' gids are files, those on disk are in memory as well, and until a restart
\* has found the sequence behind it has passed them all.
LEMMA InUseFacts ==
  ASSUME IInv
  PROVE  /\ Catalogs(mem) \subseteq Gids /\ Headers(mem) \subseteq Gids
         /\ Datas(mem) \subseteq Gids /\ Datas(disk) \subseteq Gids
         /\ Catalogs(disk) \subseteq Catalogs(mem) /\ Headers(disk) \subseteq Headers(mem)
         /\ ~behind => \A g \in InUse(mem) : g <= mem.sequence
<1>1. mem \in Stores /\ disk \in Stores
  BY DEF IInv, Types
<1>2. /\ Catalogs(mem) \subseteq Gids /\ Headers(mem) \subseteq Gids
      /\ Datas(mem) \subseteq Gids /\ Datas(disk) \subseteq Gids
  BY <1>1, RowTypes DEF Catalogs, Headers, Datas
<1>3. Catalogs(disk) \subseteq Catalogs(mem) /\ Headers(disk) \subseteq Headers(mem)
  BY DEF IInv, Older, Catalogs, Headers
<1>4. ~behind => \A g \in InUse(mem) : g <= mem.sequence
  BY DEF IInv, Covered, Drawn, TablesUpTo, CatalogsUpTo, InUse, Catalogs, Headers, Datas
<1> QED BY <1>2, <1>3, <1>4

\* What a statement draws is the file of nothing, and nothing waits to be flushed.
LEMMA Undrawn ==
  ASSUME IInv, FInv, Free
  PROVE  /\ nextval \in Gids \ System /\ nextval >= 9
         /\ ~behind => nextval \notin InUse(mem)
         /\ ~behind => \A g \in Datas(mem) : disk.file[g] = "data"
         /\ ~behind /\ ~torn => /\ \A g \in Catalogs(mem) : disk.file[g] = "tran_sequence"
                                /\ \A g \in Headers(mem) : disk.file[g] = "header"
<1>1. nextval \in Gids /\ nextval = mem.sequence + 1 /\ mem.sequence \in Nat /\ todo = <<>>
  BY New
<1>2. mem.sequence >= 9
  BY DEF FInv, Based
<1>3. nextval \in Gids \ System /\ nextval >= 9
  BY <1>1, <1>2 DEF System
<1>4. ~behind => nextval \notin InUse(mem)
  <2>1. \A g \in InUse(mem) : g \in Nat
    BY InUseFacts DEF InUse, Gids
  <2> QED BY <1>1, <2>1, InUseFacts
<1>5. \A g : ~Waiting(g) /\ ~DataWaiting(g)
  BY <1>1 DEF Waiting, DataWaiting
<1>6. /\ ~behind => \A g \in Datas(mem) : disk.file[g] = "data"
      /\ ~behind /\ ~torn => /\ \A g \in Catalogs(mem) : disk.file[g] = "tran_sequence"
                             /\ \A g \in Headers(mem) : disk.file[g] = "header"
  BY <1>5 DEF FInv, DatasKept, RowsKept, Kept
<1> QED BY <1>3, <1>4, <1>6

\* A statement that makes file n: the rows it adds refer to no other, which is among
\* the pages it will flush.
LEMMA FileMade ==
  ASSUME IInv, FInv, Free, NEW n, n = nextval, NEW kind, mem \in Stores,
         disk' = disk, behind' = behind, torn' = torn, restarts' = restarts,
         mem'.sequence = n, mem'.file = [mem.file EXCEPT ![n] = kind], Len(todo') <= 3,
         \A g \in Catalogs(mem') \ Catalogs(mem) :
           g = n /\ kind = "tran_sequence" /\ \E k \in DOMAIN todo' : todo'[k] = File(n),
         \A g \in Headers(mem') \ Headers(mem) :
           g = n /\ kind = "header" /\ \E k \in DOMAIN todo' : todo'[k] = File(n),
         \A g \in Datas(mem') \ Datas(mem) :
           g = n /\ kind = "data" /\ todo' = <<SEQUENCE, File(n), RELATION>>
  PROVE  FInv'
<1>1. /\ n \in Gids \ System /\ n >= 9
      /\ ~behind => n \notin InUse(mem)
      /\ ~behind => \A g \in Datas(mem) : disk.file[g] = "data"
      /\ ~behind /\ ~torn => /\ \A g \in Catalogs(mem) : disk.file[g] = "tran_sequence"
                             /\ \A g \in Headers(mem) : disk.file[g] = "header"
  BY Undrawn
<1>2. \A g \in Gids : mem'.file[g] = IF g = n THEN kind ELSE mem.file[g]
  <2>1. mem.file \in [Gids -> Kinds]
    BY DEF Stores
  <2> QED BY <2>1
<1>3. /\ Catalogs(mem) \subseteq Gids /\ Headers(mem) \subseteq Gids /\ Datas(mem) \subseteq Gids
  BY InUseFacts
<1>4. System \subseteq Gids
  BY DdlAssumption DEF System, Gids
<1>5. Based'
  <2>1. \A g \in System : mem'.file[g] = "system"
    BY <1>1, <1>2, <1>4 DEF FInv, Based
  <2> QED BY <1>1, <2>1 DEF FInv, Based
<1>6. DatasKept'
  <2> SUFFICES ASSUME ~behind
               PROVE  /\ \A g \in Datas(mem') : /\ mem'.file[g] = "data"
                                                /\ disk.file[g] = "data" \/ DataWaiting(g)'
                      /\ \A g \in Datas(disk) : disk.file[g] = "data"
    BY DEF DatasKept, Datas
  <2>1. ASSUME NEW g \in Datas(mem'), g \in Datas(mem)
        PROVE  mem'.file[g] = "data" /\ disk.file[g] = "data"
    BY <1>1, <1>2, <1>3, <2>1 DEF FInv, DatasKept, InUse
  <2>2. ASSUME NEW g \in Datas(mem'), g \notin Datas(mem)
        PROVE  mem'.file[g] = "data" /\ DataWaiting(g)'
    BY <1>1, <1>2, <2>2 DEF DataWaiting
  <2>3. \A g \in Datas(disk) : disk.file[g] = "data"
    BY DEF FInv, DatasKept
  <2> QED BY <2>1, <2>2, <2>3
<1>7. RowsKept'
  <2> SUFFICES ASSUME ~behind, ~torn
               PROVE  Kept(Catalogs(mem), "tran_sequence")' /\ Kept(Headers(mem), "header")'
    BY DEF RowsKept
  <2>1. ASSUME NEW g \in Catalogs(mem'), g \in Catalogs(mem)
        PROVE  mem'.file[g] = "tran_sequence" /\ disk.file[g] = "tran_sequence"
    BY <1>1, <1>2, <1>3, <2>1 DEF FInv, RowsKept, Kept, InUse
  <2>2. ASSUME NEW g \in Catalogs(mem'), g \notin Catalogs(mem)
        PROVE  mem'.file[g] = "tran_sequence" /\ Waiting(g)'
    BY <1>1, <1>2, <2>2 DEF Waiting
  <2>3. ASSUME NEW g \in Headers(mem'), g \in Headers(mem)
        PROVE  mem'.file[g] = "header" /\ disk.file[g] = "header"
    BY <1>1, <1>2, <1>3, <2>3 DEF FInv, RowsKept, Kept, InUse
  <2>4. ASSUME NEW g \in Headers(mem'), g \notin Headers(mem)
        PROVE  mem'.file[g] = "header" /\ Waiting(g)'
    BY <1>1, <1>2, <2>4 DEF Waiting
  <2> QED BY <2>1, <2>2, <2>3, <2>4 DEF Kept
<1> QED BY <1>5, <1>6, <1>7 DEF FInv

\* What is among the pages to be flushed.
LEMMA Listed ==
  ASSUME NEW g
  PROVE  /\ Len(<<CATALOG, File(g)>>) = 2 /\ Len(<<SEQUENCE, RELATION, File(g)>>) = 3
         /\ Len(<<SEQUENCE, File(g), RELATION>>) = 3
         /\ \E k \in DOMAIN <<CATALOG, File(g)>> : <<CATALOG, File(g)>>[k] = File(g)
         /\ \E k \in DOMAIN <<SEQUENCE, RELATION, File(g)>> :
              <<SEQUENCE, RELATION, File(g)>>[k] = File(g)
<1>1. 2 \in DOMAIN <<CATALOG, File(g)>> /\ <<CATALOG, File(g)>>[2] = File(g)
  OBVIOUS
<1>2. /\ 3 \in DOMAIN <<SEQUENCE, RELATION, File(g)>>
      /\ <<SEQUENCE, RELATION, File(g)>>[3] = File(g)
  OBVIOUS
<1> QED BY <1>1, <1>2

LEMMA CreateCatalogFiles ==
  ASSUME IInv, FInv, create_catalog
  PROVE  FInv'
<1> DEFINE n == Len(mem.catalog)
           c == Append(mem.catalog, nextval)
<1>1. /\ Free /\ mem \in Stores /\ UNCHANGED <<disk, restarts, behind, torn>>
      /\ todo' = <<CATALOG, File(nextval)>> /\ nextval \in Gids
  BY New DEF create_catalog, IInv, Types
<1>2. /\ c \in Seq(Gids) /\ DOMAIN mem.catalog = 1 .. n /\ n \in Nat
      /\ DOMAIN c = 1 .. n + 1
      /\ \A i \in 1 .. n : c[i] = mem.catalog[i]
      /\ c[n + 1] = nextval
  <2>1. mem.catalog \in Seq(Gids)
    BY <1>1 DEF Stores
  <2> QED BY <2>1, <1>1, Appended
<1>3. /\ mem'.sequence = nextval /\ mem'.catalog = c /\ mem'.relation = mem.relation
      /\ mem'.file = [mem.file EXCEPT ![nextval] = "tran_sequence"]
  BY <1>1 DEF create_catalog, Stores
<1> HIDE DEF n, c
<1>4. \A g \in Catalogs(mem') \ Catalogs(mem) : g = nextval
  BY <1>2, <1>3 DEF Catalogs
<1>5. Headers(mem') = Headers(mem) /\ Datas(mem') = Datas(mem)
  BY <1>3 DEF Headers, Datas
<1>6. Len(todo') <= 3 /\ \E k \in DOMAIN todo' : todo'[k] = File(nextval)
  BY <1>1, Listed
<1> QED BY <1>1, <1>3, <1>4, <1>5, <1>6, FileMade

LEMMA CreateTableFiles ==
  ASSUME IInv, FInv, create_table
  PROVE  FInv'
<1> DEFINE n == Len(mem.relation)
           row == [header |-> nextval, data |-> GID_UNDEF]
           r == Append(mem.relation, row)
<1>1. /\ Free /\ mem \in Stores /\ UNCHANGED <<disk, restarts, behind, torn>>
      /\ todo' = <<SEQUENCE, RELATION, File(nextval)>> /\ nextval \in Gids
  BY New DEF create_table, IInv, Types
<1>2. /\ DOMAIN mem.relation = 1 .. n /\ n \in Nat /\ DOMAIN r = 1 .. n + 1
      /\ \A i \in 1 .. n : r[i] = mem.relation[i]
      /\ r[n + 1] = row
  <2>1. mem.relation \in Seq(Relations) /\ row \in Relations
    BY <1>1 DEF Stores, Relations
  <2> QED BY <2>1, Appended
<1>3. /\ mem'.sequence = nextval /\ mem'.catalog = mem.catalog /\ mem'.relation = r
      /\ mem'.file = [mem.file EXCEPT ![nextval] = "header"]
  BY <1>1 DEF create_table, Stores
<1>4. row.header = nextval /\ row.data = GID_UNDEF
  OBVIOUS
<1> HIDE DEF n, r, row
<1>5. \A g \in Headers(mem') \ Headers(mem) : g = nextval
  BY <1>2, <1>3, <1>4 DEF Headers
<1>6. Catalogs(mem') = Catalogs(mem) /\ Datas(mem') \subseteq Datas(mem)
  BY <1>2, <1>3, <1>4 DEF Catalogs, Datas
<1>7. Len(todo') <= 3 /\ \E k \in DOMAIN todo' : todo'[k] = File(nextval)
  BY <1>1, Listed
<1> QED BY <1>1, <1>3, <1>5, <1>6, <1>7, FileMade

LEMMA CreateTableRefusedFiles ==
  ASSUME IInv, FInv, create_table_refused
  PROVE  FInv'
<1>1. /\ Free /\ mem \in Stores /\ UNCHANGED <<disk, restarts, behind, torn>>
      /\ todo' = todo /\ Len(todo) <= 3
  BY DEF create_table_refused, IInv, Types, FInv, Based
<1>2. /\ mem'.sequence = nextval /\ mem'.catalog = mem.catalog /\ mem'.relation = mem.relation
      /\ mem'.file = [mem.file EXCEPT ![nextval] = "header"]
  BY <1>1 DEF create_table_refused, Stores
<1>3. Catalogs(mem') = Catalogs(mem) /\ Headers(mem') = Headers(mem) /\ Datas(mem') = Datas(mem)
  BY <1>2 DEF Catalogs, Headers, Datas
<1> QED BY <1>1, <1>2, <1>3, FileMade

LEMMA FindRelationFiles ==
  ASSUME IInv, FInv, find_relation
  PROVE  FInv'
<1>1. /\ Free /\ mem \in Stores /\ UNCHANGED <<disk, restarts, behind, torn>>
      /\ todo' = <<SEQUENCE, File(nextval), RELATION>> /\ nextval \in Gids
  BY New DEF find_relation, IInv, Types
<1>2. PICK t \in DOMAIN mem.relation :
        mem' = [mem EXCEPT !.sequence = nextval, !.file[nextval] = "data",
                           !.relation[t].data = nextval]
  BY DEF find_relation
<1>3. /\ mem'.sequence = nextval /\ mem'.catalog = mem.catalog
      /\ mem'.relation = [mem.relation EXCEPT ![t].data = nextval]
      /\ mem'.file = [mem.file EXCEPT ![nextval] = "data"]
  BY <1>1, <1>2 DEF Stores
<1>4. /\ DOMAIN mem'.relation = DOMAIN mem.relation
      /\ \A i \in DOMAIN mem.relation :
           /\ mem'.relation[i].header = mem.relation[i].header
           /\ mem'.relation[i].data = IF i = t THEN nextval ELSE mem.relation[i].data
  <2>1. \A i \in DOMAIN mem.relation : mem.relation[i] \in Relations
    BY <1>1, RowTypes
  <2>2. mem.relation \in Seq(Relations)
    BY <1>1 DEF Stores
  <2> QED BY <1>3, <2>1, <2>2 DEF Relations
<1>5. Catalogs(mem') = Catalogs(mem) /\ Headers(mem') = Headers(mem)
  BY <1>3, <1>4 DEF Catalogs, Headers
<1>6. \A g \in Datas(mem') \ Datas(mem) : g = nextval
  BY <1>4 DEF Datas
<1>7. Len(todo') <= 3
  BY <1>1, Listed
<1> QED BY <1>1, <1>3, <1>5, <1>6, <1>7, FileMade

\* A page written: one file at most is on disk that was not.
LEMMA FileWritten ==
  ASSUME mem \in Stores, disk \in Stores, NEW p \in PageNames
  PROVE  /\ \A g \in Gids : Written(p).file[g] = IF p = File(g) THEN mem.file[g] ELSE disk.file[g]
         /\ Written(p).sequence \in {mem.sequence, disk.sequence}
         /\ p.kind = "relation" => Datas(Written(p)) = Datas(mem)
         /\ p.kind # "relation" => Datas(Written(p)) = Datas(disk)
<1>1. p.kind \in {"sequence", "catalog", "relation", "file"}
  BY DEF PageNames
<1>2. Written(p).file = IF p.kind = "file" THEN [disk.file EXCEPT ![p.g] = mem.file[p.g]]
                        ELSE disk.file
  BY <1>1 DEF Written, Stores
<1>3. \A g \in Gids : p = File(g) <=> p.kind = "file" /\ p.g = g
  BY DEF PageNames, File, Page
<1>4. disk.file \in [Gids -> Kinds]
  BY DEF Stores
<1>5. \A g \in Gids : Written(p).file[g] = IF p = File(g) THEN mem.file[g] ELSE disk.file[g]
  BY <1>2, <1>3, <1>4
<1>6. /\ Written(p).sequence \in {mem.sequence, disk.sequence}
      /\ p.kind = "relation" => Written(p).relation = mem.relation
      /\ p.kind # "relation" => Written(p).relation = disk.relation
  BY <1>1, Writes
<1> QED BY <1>5, <1>6 DEF Datas

\* Writing page p, if the row of a data file is not written before the file.
LEMMA WritingFiles ==
  ASSUME IInv, FInv, NEW p \in PageNames, disk' = Written(p), mem' = mem,
         UNCHANGED <<restarts, behind, torn>>, Len(todo') <= 3,
         \A g \in Gids : Waiting(g) => Waiting(g)' \/ p = File(g),
         \A g \in Gids : DataWaiting(g) =>
            p.kind # "relation" /\ (DataWaiting(g)' \/ p = File(g))
  PROVE  FInv'
<1>1. mem \in Stores /\ disk \in Stores
  BY DEF IInv, Types
<1>2. /\ \A g \in Gids : disk'.file[g] = IF p = File(g) THEN mem.file[g] ELSE disk.file[g]
      /\ disk'.sequence \in {mem.sequence, disk.sequence}
      /\ p.kind = "relation" => Datas(disk') = Datas(mem)
      /\ p.kind # "relation" => Datas(disk') = Datas(disk)
  BY <1>1, FileWritten
<1>3. /\ Catalogs(mem) \subseteq Gids /\ Headers(mem) \subseteq Gids
      /\ Datas(mem) \subseteq Gids /\ Datas(disk) \subseteq Gids
  BY InUseFacts
<1>4. System \subseteq Gids
  BY DdlAssumption DEF System, Gids
<1>5. Based'
  BY <1>2, <1>4 DEF FInv, Based
<1>6. DatasKept'
  <2> SUFFICES ASSUME ~behind
               PROVE  /\ \A g \in Datas(mem) : /\ mem.file[g] = "data"
                                               /\ disk'.file[g] = "data" \/ DataWaiting(g)'
                      /\ \A g \in Datas(disk') : disk'.file[g] = "data"
    BY DEF DatasKept, Datas
  <2>1. /\ \A g \in Datas(mem) : mem.file[g] = "data" /\ (disk.file[g] = "data" \/ DataWaiting(g))
        /\ \A g \in Datas(disk) : disk.file[g] = "data"
    BY DEF FInv, DatasKept
  <2>2. \A g \in Datas(mem) : disk'.file[g] = "data" \/ DataWaiting(g)'
    BY <1>2, <1>3, <2>1
  <2>3. ASSUME NEW g \in Datas(disk') PROVE disk'.file[g] = "data"
    <3>1. CASE p.kind = "relation"
      BY <1>2, <1>3, <2>1, <3>1
    <3>2. CASE p.kind # "relation"
      <4>1. g \in Datas(disk) /\ g \in Gids /\ disk.file[g] = "data"
        BY <1>2, <1>3, <2>1, <3>2
      <4>2. g \in Datas(mem)
        BY <4>1 DEF IInv, Older, Datas
      <4> QED BY <1>2, <2>1, <4>1, <4>2
    <3> QED BY <3>1, <3>2
  <2> QED BY <2>1, <2>2, <2>3
<1>7. RowsKept'
  <2> SUFFICES ASSUME ~behind, ~torn
               PROVE  Kept(Catalogs(mem), "tran_sequence")' /\ Kept(Headers(mem), "header")'
    BY DEF RowsKept
  <2>1. Kept(Catalogs(mem), "tran_sequence") /\ Kept(Headers(mem), "header")
    BY DEF FInv, RowsKept
  <2>2. ASSUME NEW g \in Catalogs(mem)
        PROVE  mem.file[g] = "tran_sequence"
               /\ (disk'.file[g] = "tran_sequence" \/ Waiting(g)')
    BY <1>2, <1>3, <2>1 DEF Kept
  <2>3. ASSUME NEW g \in Headers(mem)
        PROVE  mem.file[g] = "header" /\ (disk'.file[g] = "header" \/ Waiting(g)')
    BY <1>2, <1>3, <2>1 DEF Kept
  <2> QED BY <2>2, <2>3 DEF Kept, Catalogs, Headers
<1> QED BY <1>5, <1>6, <1>7 DEF FInv

LEMMA FlushFiles ==
  ASSUME IInv, FInv, Flush
  PROVE  FInv'
<1> DEFINE p == Head(todo)
<1>1. /\ todo # <<>> /\ disk' = Written(p) /\ todo' = Tail(todo) /\ mem' = mem
      /\ UNCHANGED <<restarts, behind, torn>> /\ todo \in Seq(PageNames) /\ Len(todo) <= 3
  BY DEF Flush, IInv, Types, FInv, Based
<1>2. p \in PageNames /\ Len(todo') <= 3
  <2>1. Head(todo) \in PageNames /\ Tail(todo) \in Seq(PageNames) /\ Len(Tail(todo)) = Len(todo) - 1
    BY <1>1, HeadTailProperties
  <2>2. Len(todo) \in Nat
    BY <1>1, LenProperties
  <2> QED BY <1>1, <2>1, <2>2
<1>3. ASSUME NEW g \in Gids, Waiting(g) PROVE Waiting(g)' \/ p = File(g)
  <2>1. PICK k \in DOMAIN todo : todo[k] = File(g)
    BY <1>3 DEF Waiting
  <2>2. k \in 1 .. Len(todo) /\ Len(todo) \in Nat
    BY <1>1
  <2>3. CASE k = 1
    BY <1>1, <2>1, <2>3
  <2>4. CASE k # 1
    <3>1. k - 1 \in DOMAIN Tail(todo) /\ Tail(todo)[k - 1] = todo[k]
      BY <1>1, <2>2, <2>4
    <3> QED BY <1>1, <2>1, <3>1 DEF Waiting
  <2> QED BY <2>3, <2>4
<1>4. ASSUME NEW g \in Gids, DataWaiting(g)
      PROVE  p.kind # "relation" /\ (DataWaiting(g)' \/ p = File(g))
  <2>1. CASE todo = <<SEQUENCE, File(g), RELATION>>
    <3>1. p = SEQUENCE /\ todo' = <<File(g), RELATION>>
      BY <1>1, <2>1
    <3> QED BY <3>1 DEF DataWaiting, SEQUENCE, Page
  <2>2. CASE todo = <<File(g), RELATION>>
    <3>1. p = File(g)
      BY <1>1, <2>2
    <3> QED BY <3>1 DEF File, Page
  <2> QED BY <1>4, <2>1, <2>2 DEF DataWaiting
<1> HIDE DEF p
<1> QED BY <1>1, <1>2, <1>3, <1>4, WritingFiles

LEMMA EvictFiles ==
  ASSUME IInv, FInv, Evict
  PROVE  FInv'
<1>1. PICK p \in {SEQUENCE, CATALOG, RELATION} \cup {File(g) : g \in Gids} : disk' = Written(p)
  BY DEF Evict
<1>2. p \in PageNames
  BY <1>1 DEF PageNames, SEQUENCE, CATALOG, RELATION, File, Page, GID_UNDEF
<1>3. /\ todo = <<>> /\ mem' = mem /\ UNCHANGED <<restarts, behind, torn>> /\ Len(todo') <= 3
  BY DEF Evict, FInv, Based
<1>4. \A g : ~Waiting(g) /\ ~DataWaiting(g)
  BY <1>3 DEF Waiting, DataWaiting
<1> QED BY <1>1, <1>2, <1>3, <1>4, WritingFiles

LEMMA RestartFiles ==
  ASSUME IInv, FInv, Restart
  PROVE  FInv'
<1>1. /\ mem' = disk /\ disk' = disk /\ todo' = <<>> /\ restarts' = restarts + 1
      /\ restarts < MaxRestarts /\ (~behind' => ~behind) /\ (~torn' => ~torn /\ todo = <<>>)
  BY DEF Restart
<1>2. Based'
  BY <1>1, DdlAssumption DEF FInv, Based
<1>3. DatasKept'
  BY <1>1 DEF FInv, DatasKept
<1>4. ASSUME ~behind', ~torn'
      PROVE  Kept(Catalogs(mem), "tran_sequence")' /\ Kept(Headers(mem), "header")'
  <2>1. \A g : ~Waiting(g)
    BY <1>1, <1>4 DEF Waiting
  <2>2. /\ \A g \in Catalogs(disk) : disk.file[g] = "tran_sequence"
        /\ \A g \in Headers(disk) : disk.file[g] = "header"
    BY <1>1, <1>4, <2>1, InUseFacts DEF FInv, RowsKept, Kept
  <2> QED BY <1>1, <2>2 DEF Kept, Catalogs, Headers
<1> QED BY <1>2, <1>3, <1>4 DEF FInv, RowsKept

LEMMA InitiallyFiles ==
  ASSUME Init
  PROVE  FInv
<1> USE DdlAssumption DEF Init, init_cluster
<1>1. System \subseteq Gids
  BY DEF System, Gids
<1>2. mem.catalog = <<>> /\ mem.relation = <<>> /\ disk = mem
  OBVIOUS
<1>3. \A g \in System : mem.file[g] = "system"
  BY <1>1
<1>4. Based
  BY <1>2, <1>3 DEF Based
<1>5. Catalogs(mem) = {} /\ Headers(mem) = {} /\ Datas(mem) = {} /\ Datas(disk) = {}
  BY <1>2 DEF Catalogs, Headers, Datas
<1> QED BY <1>4, <1>5 DEF FInv, DatasKept, RowsKept, Kept

LEMMA FilesInvariant == Spec => [](IInv /\ FInv)
<1>1. Init => IInv /\ FInv
  BY Initially, InitiallyFiles
<1>2. IInv /\ FInv /\ [Next]_vars => (IInv /\ FInv)'
  <2>1. ASSUME IInv, FInv, Next PROVE FInv'
    BY <2>1, CreateCatalogFiles, CreateTableFiles, CreateTableRefusedFiles, FindRelationFiles,
       FlushFiles, EvictFiles, RestartFiles DEF Next
  <2>2. ASSUME FInv, UNCHANGED vars PROVE FInv'
    BY <2>2 DEF vars, FInv, Based, DatasKept, RowsKept, Kept, Waiting, DataWaiting,
       Catalogs, Headers, Datas
  <2> QED BY <2>1, <2>2, Steps
<1> QED BY <1>1, <1>2, PTL DEF Spec

\* Types, and no more pages to flush than a statement has.
THEOREM DdlTypes == Spec => []TypeOK
<1>1. IInv /\ FInv => TypeOK
  BY DEF IInv, Types, FInv, Based, TypeOK, Stores, Kinds, Relations
<1> QED BY <1>1, FilesInvariant, PTL

\* A restart finds the files that the rows of catalogs and tables name, of the right
\* kind, unless it once came between the flushes of create_catalog or create_table;
\* and find_relation flushes a table's first data page before the row that names it:
\* a row on disk never names a data page that is not there.
THEOREM DdlFilesKept == Spec => []FilesKept
<1>1. IInv /\ FInv => FilesThere
  <2> SUFFICES ASSUME IInv, FInv, todo = <<>>, ~torn, ~behind
               PROVE  /\ \A g \in Catalogs(disk) : disk.file[g] = "tran_sequence"
                      /\ \A g \in Headers(disk) : disk.file[g] = "header"
    BY DEF FilesThere
  <2>1. \A g : ~Waiting(g)
    BY DEF Waiting
  <2> QED BY <2>1, InUseFacts DEF FInv, RowsKept, Kept
<1>2. FInv => DataThere
  BY DEF FInv, DatasKept, DataThere
<1>3. IInv /\ FInv /\ TypeOK => FilesKept
  BY <1>1, <1>2 DEF FilesKept
<1> QED BY <1>3, FilesInvariant, DdlTypes, PTL
=============================================================================
