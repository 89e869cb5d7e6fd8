--------------------------------- MODULE Ddl ---------------------------------
(***************************************************************************)
(* The system tables on disk: what scri makes (src/scri/main.c), what      *)
(* CREATE CATALOG and CREATE TABLE (ddl.c) and the first INSERT into a     *)
(* table (find_relation in dml.c) add, page by page in the order of their  *)
(* flushes, and what a restart finds.  Files are numbered by the global    *)
(* sequence, whose page must reach the disk as well.  Nothing flushes the  *)
(* page cache when the server stops.                                       *)
(*                                                                         *)
(* The statements are taken one after the other.  A page that is changed   *)
(* and not flushed reaches the disk when the cache evicts it, which it     *)
(* does when a later statement puts other pages.                           *)
(***************************************************************************)
EXTENDS Integers, Sequences

CONSTANTS MaxGid,        \* bound: files
          MaxRestarts    \* bound: restarts of the server

\* There is room for the files scri makes.
ASSUME DdlAssumption == MaxGid \in Nat /\ MaxGid >= 9 /\ MaxRestarts \in Nat

GID_UNDEF == 0
Gids == 1 .. MaxGid

\* The files of the system tables user, catalog, schema and relation, a header
\* and a data file each, and that of the transaction flags.
System == 1 .. 9

VARIABLES
  mem, disk,    \* the pages in memory and on disk: the last value of the global
                \* sequence, the rows of the system tables catalog (their
                \* tran_sequence) and relation, and what every file is
  todo,         \* the pages the running statement has still to flush
  restarts,
  behind,       \* a restart found a sequence that had not reached all the gids in use
  torn          \* a restart came between the flushes of a statement

vars == <<mem, disk, todo, restarts, behind, torn>>

\* init_cluster: the files are numbered in order, and the main sequence is flushed
\* when everything else is.
init_cluster == [sequence |-> 9, catalog |-> <<>>, relation |-> <<>>,
                 file |-> [g \in Gids |-> IF g \in System THEN "system" ELSE "none"]]

Init == /\ disk = init_cluster /\ mem = disk
        /\ todo = <<>> /\ restarts = 0 /\ behind = FALSE /\ torn = FALSE

-----------------------------------------------------------------------------

Page(kind, g) == [kind |-> kind, g |-> g]
SEQUENCE == Page("sequence", GID_UNDEF)
CATALOG == Page("catalog", GID_UNDEF)
RELATION == Page("relation", GID_UNDEF)
File(g) == Page("file", g)

\* pagecache_flush, or the write of an evicted page.
Written(p) ==
  CASE p.kind = "sequence" -> [disk EXCEPT !.sequence = mem.sequence]
    [] p.kind = "catalog" -> [disk EXCEPT !.catalog = mem.catalog]
    [] p.kind = "relation" -> [disk EXCEPT !.relation = mem.relation]
    [] p.kind = "file" -> [disk EXCEPT !.file[p.g] = mem.file[p.g]]

nextval == mem.sequence + 1
Free == todo = <<>> /\ nextval \in Gids

\* Mutant: the gid is drawn again from a sequence that was not advanced.
create_catalog_peek ==
  /\ Free
  /\ mem' = [mem EXCEPT !.catalog = Append(@, nextval), !.file[nextval] = "tran_sequence"]
  /\ todo' = <<CATALOG, File(nextval)>>
  /\ UNCHANGED <<disk, restarts, behind, torn>>

\* create_catalog.  It draws a gid and does not flush the sequence.
create_catalog ==
  /\ Free
  /\ mem' = [mem EXCEPT !.sequence = nextval, !.catalog = Append(@, nextval),
                        !.file[nextval] = "tran_sequence"]
  /\ todo' = <<CATALOG, File(nextval)>>
  /\ UNCHANGED <<disk, restarts, behind, torn>>

\* Mutant: the relation table is flushed first.
create_table_early ==
  /\ Free
  /\ mem' = [mem EXCEPT !.sequence = nextval, !.file[nextval] = "header",
                        !.relation = Append(@, [header |-> nextval, data |-> GID_UNDEF])]
  /\ todo' = <<RELATION, SEQUENCE, File(nextval)>>
  /\ UNCHANGED <<disk, restarts, behind, torn>>

\* Mutant: the table's header is not flushed.
create_table_headless ==
  /\ Free
  /\ mem' = [mem EXCEPT !.sequence = nextval, !.file[nextval] = "header",
                        !.relation = Append(@, [header |-> nextval, data |-> GID_UNDEF])]
  /\ todo' = <<SEQUENCE, RELATION>>
  /\ UNCHANGED <<disk, restarts, behind, torn>>

\* create_table.
create_table ==
  /\ Free
  /\ mem' = [mem EXCEPT !.sequence = nextval, !.file[nextval] = "header",
                        !.relation = Append(@, [header |-> nextval, data |-> GID_UNDEF])]
  /\ todo' = <<SEQUENCE, RELATION, File(nextval)>>
  /\ UNCHANGED <<disk, restarts, behind, torn>>

\* create_table with more columns than its header page holds: it returns with the
\* gid drawn and nothing flushed.
create_table_refused ==
  /\ Free
  /\ mem' = [mem EXCEPT !.sequence = nextval, !.file[nextval] = "header"]
  /\ UNCHANGED <<disk, todo, restarts, behind, torn>>

\* find_relation with create_if_data_undef.
find_relation ==
  /\ Free
  /\ \E i \in DOMAIN mem.relation :
       /\ mem.relation[i].data = GID_UNDEF
       /\ mem' = [mem EXCEPT !.sequence = nextval, !.file[nextval] = "data",
                             !.relation[i].data = nextval]
  /\ todo' = <<SEQUENCE, File(nextval), RELATION>>
  /\ UNCHANGED <<disk, restarts, behind, torn>>

Flush == /\ todo # <<>>
         /\ disk' = Written(Head(todo)) /\ todo' = Tail(todo)
         /\ UNCHANGED <<mem, restarts, behind, torn>>

Evict == /\ todo = <<>>
         /\ \E p \in {SEQUENCE, CATALOG, RELATION} \cup {File(g) : g \in Gids} :
              Written(p) # disk /\ disk' = Written(p)
         /\ UNCHANGED <<mem, todo, restarts, behind, torn>>

\* The gids that the system tables refer to.
Catalogs(pages) == {pages.catalog[i] : i \in DOMAIN pages.catalog}
Headers(pages) == {pages.relation[i].header : i \in DOMAIN pages.relation}
Datas(pages) == {pages.relation[i].data : i \in DOMAIN pages.relation} \ {GID_UNDEF}
InUse(pages) == Catalogs(pages) \cup Headers(pages) \cup Datas(pages)

\* server_drop or the end of the process, and server_init.
Restart ==
  /\ restarts < MaxRestarts /\ restarts' = restarts + 1
  /\ mem' = disk /\ todo' = <<>>
  /\ behind' = (behind \/ \E g \in InUse(disk) : g > disk.sequence)
  /\ torn' = (torn \/ todo # <<>>)
  /\ UNCHANGED disk

Next == \/ create_catalog \/ create_table \/ create_table_refused \/ find_relation
        \/ Flush \/ Evict \/ Restart

Spec == Init /\ [][Next]_vars

-----------------------------------------------------------------------------

TypeOK ==
  LET Kinds == {"none", "system", "tran_sequence", "header", "data"}
      Relations == [header : Gids, data : Gids \cup {GID_UNDEF}]
  IN  /\ \A pages \in {mem, disk} :
           /\ pages.sequence \in Gids /\ pages.catalog \in Seq(Gids)
           /\ pages.relation \in Seq(Relations) /\ pages.file \in [Gids -> Kinds]
           /\ \A g \in System : pages.file[g] = "system"
      /\ Len(todo) <= 3 /\ restarts \in 0 .. MaxRestarts

\* No two catalogs and tables share a file, but for a file whose number a restart
\* had the sequence give out once more.
GidsDistinct ==
  ~behind =>
    /\ \A i, j \in DOMAIN mem.catalog : mem.catalog[i] = mem.catalog[j] => i = j
    /\ \A i, j \in DOMAIN mem.relation :
         i # j => {mem.relation[i].header, mem.relation[i].data}
                    \cap {mem.relation[j].header, mem.relation[j].data} \subseteq {GID_UNDEF}
    /\ Headers(mem) \cap Datas(mem) = {}
    /\ Catalogs(mem) \cap (Headers(mem) \cup Datas(mem)) = {}

\* ddl.c, dml.c: the sequence on disk is past every file of a table there, at
\* every moment: only what CREATE CATALOG has drawn can be given out again.
TablesCovered == \A g \in Headers(disk) \cup Datas(disk) : g <= disk.sequence

\* Once a statement has made its flushes, a restart finds the files that the
\* system tables refer to, unless it once came between two flushes.
FilesThere ==
  todo = <<>> /\ ~torn /\ ~behind =>
    /\ \A g \in Catalogs(disk) : disk.file[g] = "tran_sequence"
    /\ \A g \in Headers(disk) : disk.file[g] = "header"

\* A table on disk that has a data file has it on disk, at every moment.
DataThere == ~behind => \A g \in Datas(disk) : disk.file[g] = "data"

\* ddl.c, dml.c: what the rows on disk name is there, of the right kind, and no
\* statement has more pages to flush than it changed.
FilesKept == TypeOK /\ FilesThere /\ DataThere
=============================================================================
