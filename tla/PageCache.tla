------------------------------ MODULE PageCache ------------------------------
(***************************************************************************)
(* The page cache of lib/core/src/pagecache.c as one worker uses it: pages *)
(* are put into the cache, changed in memory by those who put them,        *)
(* flushed, and evicted by later puts.  System calls may fail where        *)
(* IoFails allows it.  A failed assertion ends the worker, in a build      *)
(* without assertions it goes on with what is not defined or is torn.      *)
(* Other workers go on in either, with the shared cache as the failed call *)
(* left it: of them nothing is said until the server is started again,     *)
(* which finds the disk as it was and empty caches.                        *)
(***************************************************************************)
EXTENDS PageCacheOps

CONSTANTS IoFails,      \* the sets of outcomes to consider: {TRUE} or BOOLEAN
          MaxStores     \* bound: how often pages are changed, all together

\* What is assumed of them.
SizeAssumption ==
  /\ PageBuckets \in Nat \ {0} /\ FdBuckets \in Nat \ {0}
  /\ PageChains \in Nat /\ FdChains \in Nat
  /\ FileSpan \in Nat \ {0} /\ Gids \subseteq Nat
  /\ IoFails \in {{TRUE}, BOOLEAN} /\ MaxStores \in Nat
  /\ {Blank, Absent, Torn} \cap (Gids \X (1 .. MaxStores)) = {}

VARIABLES pages,        \* caches, frames and disk
          latest,       \* for every page the content it should have, Absent if unknown
          stores,       \* how often pages were changed
          lost,         \* the pages whose eviction failed to save them
          leaks,        \* the number of failed evictions
          handed        \* the last PageChains + 1 pages put, most recent first, with
                        \* the frames callers were handed pointers into

vars == <<pages, latest, stores, lost, leaks, handed>>

\* The content of a page: which page it was made for, and which change made it.
Contents == {<<g, v>> : g \in Gids, v \in 1 .. MaxStores} \cup {Blank, Torn}

\* A write that does not fail may write a part only.  After a failed open or read, or
\* the eviction of a part, the worker has ended: no call follows.
Outcomes == {io \in [open_w : IoFails, write : IoFails, whole : IoFails,
                     open_r : IoFails, read : IoFails] :
               /\ io.open_w \/ (io.write /\ io.whole /\ io.open_r /\ io.read)
               /\ io.write \/ io.whole
               /\ io.whole \/ (io.open_r /\ io.read)
               /\ io.open_r \/ io.read}

\* Only calls that are made can fail: a page is written, from its open file, if one
\* is evicted or flushed, and read, from its own, if it was not in memory.
PutOutcomes(g) ==
  {io \in Outcomes : /\ PageRoom(Cached(pages), g) => io.open_w /\ io.write /\ io.whole
                     /\ g \in Cached(pages) => \A call \in DOMAIN io : io[call]}
FlushOutcomes == {io \in Outcomes : io.open_r /\ io.read}

Init == /\ pages = pagecache_init([g \in Gids |-> Absent])
        /\ latest = [g \in Gids |-> Absent] /\ stores = 0
        /\ lost = {} /\ leaks = 0 /\ handed = <<>>

Up == pages.failed = None

\* Whether this put evicts a page and fails to save it.
FailsToSave(g, io) ==
  /\ g \notin Cached(pages) /\ ~PageRoom(Cached(pages), g) /\ ~io.write
  /\ WithFile(pages, Lru(pages.lru), io.open_w).failed = None

\* The pages handed out, once page g is put and found or brought to frame i.
HandedBefore(g) ==
  IF \E j \in DOMAIN handed : handed[j].gid = g
  THEN Without(handed, CHOOSE j \in DOMAIN handed : handed[j].gid = g)
  ELSE handed
Handed(g, i) == LET all == <<[gid |-> g, frame |-> i]>> \o HandedBefore(g)
                IN  IF Len(all) > PageChains + 1 THEN ButLru(all) ELSE all

Put(g, io) ==
  /\ Up
  /\ pages' = pagecache_touch(pages, g, io)
  /\ IF FailsToSave(g, io)
     THEN lost' = lost \cup {Lru(pages.lru)} /\ leaks' = leaks + 1
     ELSE UNCHANGED <<lost, leaks>>
  /\ handed' = IF pages'.failed # None THEN <<>>
               ELSE Handed(g, pages'.frame[g])
  /\ UNCHANGED <<latest, stores>>

\* A caller changes a page through the pointer its put returned.
Store(g) ==
  /\ Up /\ g \in Cached(pages) /\ stores < MaxStores
  /\ stores' = stores + 1
  /\ latest' = [latest EXCEPT ![g] = <<g, stores'>>]
  /\ pages' = [pages EXCEPT !.mem[pages.frame[g]] = latest'[g]]
  /\ lost' = lost \ {g}
  /\ UNCHANGED <<leaks, handed>>

Flush(g, io) ==
  /\ Up /\ g \in Cached(pages)
  /\ pages' = pagecache_flush(pages, g, io)
  /\ UNCHANGED <<latest, stores, lost, leaks, handed>>

\* What remains when the caches are gone: the disk.
FromDisk == /\ latest' = pages.disk /\ lost' = {} /\ leaks' = 0 /\ handed' = <<>>
            /\ UNCHANGED stores

Clear == Up /\ pages' = pagecache_clear(pages) /\ FromDisk
Restart == pages' = pagecache_init(pages.disk) /\ FromDisk

Next == \/ \E g \in Gids : \/ \E io \in PutOutcomes(g) : Put(g, io)
                           \/ \E io \in FlushOutcomes : Flush(g, io)
                           \/ Store(g)
        \/ Clear \/ Restart

Spec == Init /\ [][Next]_vars

-----------------------------------------------------------------------------

TypeOK ==
  /\ pages.lru \in Seq(Gids) /\ DOMAIN pages.frame \subseteq Gids
  /\ \A g \in DOMAIN pages.frame : pages.frame[g] \in Frames
  /\ pages.stack \in Seq(Frames)
  /\ pages.mem \in [Frames -> Contents]
  /\ pages.disk \in [Gids -> Contents \cup {Absent}]
  /\ KeySet(pages.files) \subseteq {FileOf(g) : g \in Gids}
  /\ pages.failed \in {None, "fd", "stack", "read", "short", "touch"}
  /\ latest \in [Gids -> Contents \cup {Absent}]
  /\ stores \in 0 .. MaxStores
  /\ lost \subseteq Gids /\ leaks \in Nat

\* No frame serves two pages or is free while in use, and as long as the
\* process runs every frame is free or in use, but for one for each eviction
\* whose write failed.
FramesAccounted ==
  /\ TypeOK
  /\ \A g, h \in DOMAIN pages.frame : pages.frame[g] = pages.frame[h] => g = h
  /\ \A i, j \in DOMAIN pages.stack : pages.stack[i] = pages.stack[j] => i = j
  /\ \A g \in DOMAIN pages.frame : pages.frame[g] \notin KeySet(pages.stack)
  /\ Up => /\ DOMAIN pages.frame = Cached(pages)
           /\ Len(pages.lru) + Len(pages.stack) + leaks = Cardinality(Frames)

\* A reader of a page finds what was last stored in it, in its frame or, while
\* it is not cached, on disk, unless an eviction failed to save it.
LatestFound ==
  Up => \A g \in Gids \ lost :
          latest[g] # Absent =>
            latest[g] = IF g \in Cached(pages) THEN pages.mem[pages.frame[g]]
                        ELSE pages.disk[g]

\* pagecache_put_page returns a pointer into a frame, which callers use while they
\* put further pages (mesh_alloc_row, tran_put, find_relation).  As many pages as
\* there are overflow nodes, and one, stay where the last puts have found them.
HandedStay == \A i \in DOMAIN handed :
                /\ handed[i].gid \in Cached(pages)
                /\ pages.frame[handed[i].gid] = handed[i].frame

\* The disk never goes back: neither a flush, nor an eviction, nor a restart
\* replaces a page's content by an older one or by another page's.  A pwrite
\* that writes a part only leaves a page that is neither old nor new.
DiskMonotone ==
  [][\A g \in Gids : \A v \in 1 .. MaxStores :
       pages.disk[g] = <<g, v>> =>
         pages'.disk[g] = Torn \/ \E w \in v .. MaxStores : pages'.disk[g] = <<g, w>>]_vars

\* pagecache.c:105, assert(e): once the least recent page is erased the table
\* has an entry for the new one.
TouchAssertHolds == pages.failed # "touch"
=============================================================================
