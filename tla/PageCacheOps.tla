----------------------------- MODULE PageCacheOps -----------------------------
(***************************************************************************)
(* The page cache of lib/core/src/pagecache.c, together with the           *)
(* descriptor cache it opens files with and the disk, as operators on      *)
(* records:                                                                *)
(*                                                                         *)
(*   lru       the cached pages, most recent first (table and list of the  *)
(*             cache, by what ICache shows of them)                        *)
(*   frame     the frame in g_pages of every cached page (page_idx)        *)
(*   stack     the free frames, the top last                               *)
(*   mem       the content of every frame                                  *)
(*   disk      the content of every page on disk; Absent beyond file's     *)
(*             end, Torn once a pwrite has written a part of the page only *)
(*   files     the files open in g_fdcache, most recent first              *)
(*   failed    the assertion that has failed, None if none has             *)
(*                                                                         *)
(* A page is a gid: a file and a page number in it, in one integer.        *)
(***************************************************************************)
EXTENDS Buckets

CONSTANTS PageBuckets, PageChains,    \* sizes of g_pagecache
          FdBuckets, FdChains,        \* sizes of g_fdcache
          FileSpan,                   \* 2^GID_FILEIDBITS: page n + 1 of a file is
                                      \* that much above its page n
          Gids, Blank, Absent, Torn

None == "none"
Frames == 0 .. PageBuckets + PageChains - 1

FileOf(g) == g % FileSpan
PageNo(g) == g \div FileSpan

\* The default hash function, the identity, on gids and on file ids.
PageBucket == [g \in Gids |-> g % PageBuckets]
FdBucket == [f \in {FileOf(g) : g \in Gids} |-> f % FdBuckets]

\* pagecache_init_fn and pagecache_clear: the frames are stacked from the last
\* to the first, so that the first is on top.  Fresh frames are zeroed memory.
FullStack == [i \in 1 .. PageBuckets + PageChains |-> PageBuckets + PageChains - i]

pagecache_init(disk) ==
  [lru |-> <<>>, frame |-> [g \in {} |-> 0], stack |-> FullStack,
   mem |-> [i \in Frames |-> Blank], disk |-> disk, files |-> <<>>, failed |-> None]

pagecache_clear(s) ==
  [s EXCEPT !.lru = <<>>, !.frame = [g \in {} |-> 0], !.stack = FullStack]

Cached(s) == KeySet(s.lru)

Fail(s, assertion) == [s EXCEPT !.failed = assertion]

-----------------------------------------------------------------------------

\* fdcache_put, by what FdCache shows of it: the file is open afterwards, or
\* NULL was returned, the least recent file having been closed all the same
\* if the cache was full.
FdPut(files, f, can) ==
  IF f \in KeySet(files) THEN Renewed(files, f)
  ELSE IF ~can THEN files
  ELSE IF RoomFor(KeySet(files), f, FdBucket, FdChains) THEN <<f>> \o files
  ELSE IF RoomFor(KeySet(ButLru(files)), f, FdBucket, FdChains)
       THEN <<f>> \o ButLru(files)
  ELSE ButLru(files)

\* The file of page g is opened, or the assertion e # NULL fails.
WithFile(s, g, can) ==
  LET t == [s EXCEPT !.files = FdPut(s.files, FileOf(g), can)]
  IN  IF FileOf(g) \in KeySet(t.files) THEN t ELSE Fail(t, "fd")

\* What a pwrite that writes a part of page g leaves of it on disk.
Partly(s, g) == IF s.disk[g] = s.mem[s.frame[g]] THEN s.disk[g] ELSE Torn

\* Mutant: a failed write returns the frame all the same, and one that worked
\* does not.
pagecache_write_swapped(s, g, io) ==
  LET t == WithFile(s, g, io.open_w)
  IN  IF t.failed # None THEN t
      ELSE IF ~io.write THEN [t EXCEPT !.stack = Append(t.stack, t.frame[g])]
      ELSE IF ~io.whole THEN Fail([t EXCEPT !.disk[g] = Partly(t, g)], "short")
      ELSE [t EXCEPT !.disk[g] = t.mem[t.frame[g]]]

\* pagecache_write: a page about to be evicted goes to disk and its frame to
\* the stack; if pwrite fails the frame does not, and nobody learns of it.  One
\* that writes a part of the page fails an assertion.
pagecache_write(s, g, io) ==
  LET t == WithFile(s, g, io.open_w)
  IN  IF t.failed # None \/ ~io.write THEN t
      ELSE IF ~io.whole THEN Fail([t EXCEPT !.disk[g] = Partly(t, g)], "short")
      ELSE [t EXCEPT !.disk[g] = t.mem[t.frame[g]],
                     !.stack = Append(t.stack, t.frame[g])]

\* What pread leaves in a frame that held c: the page on disk, zeros where the
\* file has a hole, and beyond the end of the file what the frame held.
Loaded(s, g, c) ==
  IF s.disk[g] # Absent THEN s.disk[g]
  ELSE IF \E h \in Gids : /\ FileOf(h) = FileOf(g) /\ PageNo(h) > PageNo(g)
                          /\ s.disk[h] # Absent
       THEN Blank
  ELSE c

\* Mutant: the frame is read from the stack and stays on it.
pagecache_read_peek(s, g, io) ==
  IF s.stack = <<>> THEN Fail(s, "stack")
  ELSE LET i == Lru(s.stack)
           t == WithFile(s, g, io.open_r)
       IN  IF t.failed # None THEN t
           ELSE IF ~io.read THEN Fail(t, "read")
           ELSE [t EXCEPT !.mem[i] = Loaded(t, g, t.mem[i]),
                          !.frame = [h \in DOMAIN t.frame \cup {g} |->
                                       IF h = g THEN i ELSE t.frame[h]]]

\* pagecache_read: pop a frame and read the page into it.  An empty stack is
\* outside what ilist2_pop_back is defined for.
pagecache_read(s, g, io) ==
  IF s.stack = <<>> THEN Fail(s, "stack")
  ELSE LET i == Lru(s.stack)
           t == WithFile([s EXCEPT !.stack = ButLru(s.stack)], g, io.open_r)
       IN  IF t.failed # None THEN t
           ELSE IF ~io.read THEN Fail(t, "read")
           ELSE [t EXCEPT !.mem[i] = Loaded(t, g, t.mem[i]),
                          !.frame = [h \in DOMAIN t.frame \cup {g} |->
                                       IF h = g THEN i ELSE t.frame[h]]]

\* The least recent page leaves table and list; its frame is the stack's or lost.
Erase(s) == [s EXCEPT !.lru = ButLru(s.lru),
                      !.frame = [h \in DOMAIN s.frame \ {Lru(s.lru)} |-> s.frame[h]]]

PageRoom(S, g) == RoomFor(S, g, PageBucket, PageChains)

\* Mutant: the least recent page is erased without being written.
MakeRoom_unsaved(s, g, io) ==
  IF PageRoom(Cached(s), g) THEN s
  ELSE IF PageRoom(KeySet(ButLru(s.lru)), g)
       THEN Erase([s EXCEPT !.stack = Append(s.stack, s.frame[Lru(s.lru)])])
  ELSE Fail(Erase(s), "touch")

\* The miss path of pagecache_touch_fn up to the table's entry for the page:
\* save and erase the least recent page if there is no room, and assert(e).
MakeRoom(s, g, io) ==
  IF PageRoom(Cached(s), g) THEN s
  ELSE LET t == pagecache_write(s, Lru(s.lru), io)
       IN  IF t.failed # None THEN t
           ELSE IF PageRoom(KeySet(ButLru(s.lru)), g) THEN Erase(t)
           ELSE Fail(Erase(t), "touch")

\* Mutant: a page that is found does not become the most recent one.
pagecache_touch_unmoved(s, g, io) ==
  IF g \in Cached(s) THEN s
  ELSE LET room == MakeRoom(s, g, io)
           read == pagecache_read(room, g, io)
       IN  IF room.failed # None THEN room
           ELSE IF read.failed # None THEN read
           ELSE [read EXCEPT !.lru = <<g>> \o read.lru]

\* pagecache_touch_fn.
pagecache_touch(s, g, io) ==
  IF g \in Cached(s) THEN [s EXCEPT !.lru = Renewed(s.lru, g)]
  ELSE LET room == MakeRoom(s, g, io)
           read == pagecache_read(room, g, io)
       IN  IF room.failed # None THEN room
           ELSE IF read.failed # None THEN read
           ELSE [read EXCEPT !.lru = <<g>> \o read.lru]

\* pagecache_flush, of a cached page.  Its callers do not look at what it returns.
pagecache_flush(s, g, io) ==
  LET t == WithFile(s, g, io.open_w)
  IN  IF t.failed # None \/ ~io.write THEN t
      ELSE [t EXCEPT !.disk[g] = IF io.whole THEN t.mem[t.frame[g]] ELSE Partly(t, g)]
=============================================================================
