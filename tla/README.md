# Scroller: a TLA+ model of its storage, transactions and protocol

Scroller is a small SQL database in C. A parent process accepts connections and
forks a worker for each; the workers answer queries out of a page cache they
share. This directory holds TLA+ modules for it, the TLC configurations that
check them, and theorems with proofs that TLAPS checks. Paths below are
relative to the repository; `core/` stands for `lib/core/src/` and `scrs/` for
`src/scrs/`.

To check a run: `tlc -config <cfg> <module>`; to check proofs: `tlapm <module>`.
`PROJECT.json` lists the runs, the mutants that show each property can fail, the
lines every definition stands for, the hazards and the findings.

## 1. The system

| Part | State | Operations | What makes it correct |
|---|---|---|---|
| list, `core/ilist2` | a pool of nodes linked by index, free list, two ends | put, pop and move at both ends, clear | links agree both ways, the pool is split between list and free list, it is a deque, handles stay valid |
| hash table, `core/ihash` | buckets, pool of overflow nodes, free list | put, put key, get, erase, clear, iterate | chains end, no entry is lost or doubled, it is a bounded map, loops visit everything once |
| LRU cache, `core/icache` | a hash table and a list in one block | touch, put, clear | both describe the same entries, the victim is the least recent |
| descriptor cache, `core/fdcache` | an LRU cache of open descriptors, private to a worker | touch (opens, closes), clear, free | no descriptor leaks, none is used for another file |
| page cache, `core/pagecache` | an LRU cache of gids, frames, a stack of free frames, shared by the workers | touch (reads, evicts, writes), flush, clear | frames are neither shared nor lost, readers find the last change, the disk keeps versions in order, pointers just handed out stay good |
| sequence, `core/sequence` | one row: bounds, value, increment, cycle, called | nextval, currval, five setters | within bounds, never the same value twice |
| transactions, `core/tran`, `scrs/tcl`, `scrs/dml` | a session's transaction, the catalog's sequence, the page of flags, `*tmin` and `*tmax` of rows | START, COMMIT, ROLLBACK, INSERT, DELETE, SELECT | only committed rows and a session's own are visible, flags tell who committed, flushed changes stay |
| grids, meshes, tables, `core/grid`, `mesh`, `table` | pages of rows, linked by `next`; iterators | allocate, delete, iterate, put a datum | rows are found once each while the table grows |
| data definition, `scrs/ddl`, `scri` | the system tables, the global gid sequence | CREATE USER, CATALOG, SCHEMA, TABLE, find_relation | gids are never used twice, tables are found after a crash |
| query execution, `scrs/hquery`, `execute`, `bc`, `cmd` | bytecode, its position, two row iterators | compile, run, loop over rows | the WHERE of a row decides about that row |
| session, `scrs/session` | the send buffer | send, header, flush | every byte once and in order, one response for a query |
| server, `scrs/server`, `tcp` | caches, sockets, processes | init, accept, fork | workers end with their clients; a restart finds what was flushed |
| client, `core/scrc`, `src/scrc` | the receive buffer, the status of the connection | connect, query, fetch | responses are decoded as they were sent, a query gets its own |
| memory, `core/memory`, `array` | a stack and a tree of contexts | create, push, pop, reset, drop, allocate | blocks do not overlap and are freed with their context |
| values, `core/type`, `cell`, `align` | none | compare, LIKE, store, lay out columns | a condition decides about the value that was inserted |

How they interact. Statements go from the session through the parsers to
`dml.c`, `ddl.c` and `tcl.c`. These ask the page cache for pages by gid and work
on the frames through plain pointers; `pagecache_flush` writes a page, an
eviction inside a later `pagecache_put_page` writes one that was not flushed.
The page cache opens files through the descriptor cache of the worker. Both are
LRU caches, each a hash table and a list. Transaction ids and new files are
numbered by sequences, which are rows of pages like all others. Answers go
through the session's send buffer and the socket to the client's receive buffer.

What is hard:

- **Concurrency.** `g_pages` and `g_pagecache` are MAP_SHARED, and nothing locks
  them. A statement of one worker interleaves with those of others page by page,
  and inside the caches instruction by instruction.
- **Failure.** A crash leaves on disk the pages that were flushed or evicted.
  `pwrite`, `pread`, `open` and `send` fail in the middle of a call; workers and
  clients die.
- **Order.** What is written before what: page before frame reuse, flag and
  sequence, row and link, sequence and system table. What is answered before
  what: one connection, two parsers, three kinds of partial answer.
- **Limits.** Overflow pools run out by how keys fall on buckets; frames; send
  and receive buffers; 64 bit sums and differences.

Timeouts and retries do not occur in this code.

## 2. The modules

    Chains                 sequences of nodes, for lists and chains
    IList2Ops              ilist2.c as operators on list values
    IList2                 the list as a component      implements Deque      (MCIList2)
    IHashOps               ihash.c as operators on hash values
    IHash                  the table as a component     implements BoundedMap (MCIHash)
    IndexLemmas, IndexProofs
    ICacheOps              icache.c: IHashOps and IList2Ops together
    ICache                 the cache as a component     implements LruCache   (MCICache)
    FdCacheOps, FdCache    fdcache.c: ICacheOps and open descriptors
    CacheProofs            for ICache, FdCache and Sequence
    Buckets                when a table has room, an LRU cache as a sequence
    PageCacheOps, PageCache  pagecache.c: cache, frames, stack, disk, restarts
    StorageProofs          for PageCache and Memory
    Sequence               sequence.c                                         (MCSequence)
    Tran                   tran.c, tcl.c and the statements of dml.c          (MCTran)
    TranProofs
    Table                  grid.c, mesh.c, table.c, the loops of bc.c and execute.y
    TableProofs
    Values                 columns, stored values, conditions: grid.c, cell.c, type.c
    Ddl                    ddl.c, find_relation, scri
    DdlProofs
    Memory                 memory.c, array.c
    Stream                 the bytes: session.c, the socket, scrc.c
    Protocol               the answers: hquery.y, execute.y, scrc.c, scrc     (MCProtocol)
    ProtocolProofs
    MCIndexes = IList2, IHash         MCCaches = Sequence, ICache, FdCache
    MCStorage = PageCache, Memory     MCTable  = Ddl, Table, Values
    MCWire    = Protocol, Stream

The five modules of the last lines put independent components into one run: a
behaviour chooses its component at the start, in the variable `which`, and the
others keep their first state.
What is checked is each component by itself. They do not interact there, and
where they do in the code the module that uses the other takes over what the
runs show of it, as said below.

**Ops modules and components.** A C function that changes a structure is an
operator from the structure before to the structure after, with the function's
name (`ilist2_pop_back`, `ihash_erase`, `fdcache_touch`). The component module
has the structure as a variable and an action for each call. This is why the
caches can be composed of the same operators that are checked, and proved about,
alone.

**Lists.** A list value has the header's fields and one function per node field.
`UNDEF` is -1, as in the header. Callers keep the preconditions the header
states: no pop of an empty list, no move of an index they do not hold; the
variable `held` is what they hold. `Deque` is what the header promises.

**Hash tables.** Entries are numbered as they lie in memory, buckets first;
links number overflow nodes alone, as in C. Walks along chains are functions of
bounded length (`Path`), and `LinksSound` asks for the end of each chain. An
iteration runs between the changes of its table, as every loop in the code does.

**LRU caches.** `icache_touch` is the four outcomes of `icache_touch_fn`: hit,
room, room after an eviction, refusal after an eviction. `LruCache` names the
last one (`Lose`): it is a promise weaker than a reader of the header would
guess, but it is the code's. `fdcache_touch` repeats the shape with `open`
first. `open(2)` is external: it gives the lowest number not in use, or fails.

**Page cache.** Its LRU cache is a sequence of gids, and the descriptor cache a
sequence of files: ImplementsLru shows that this is what they are. Whether there
is room is `Buckets!RoomFor`, whose agreement with the real table is the
property `RefusalCounted`. The hash of a key is the key, so that a
gid's bucket is given by its file id (the low 40 bits; `FileSpan` stands for
2^40). A page's content is the change that made it, or `Torn` after a `pwrite` that
wrote a part of it: an eviction then fails an assertion, a flush returns a value
nobody looks at. A failing assertion ends the worker: `failed` names it. The cache is
shared and stays as the failed call left it, half-made entry included, for the other
workers; of them the model says nothing until the server is started again, which is
the only step that follows. `Loaded` is `pread`,
which leaves the frame's old content beyond the end of the file. `handed` is the
last pointers `pagecache_put_page` gave out: `HandedStay` says that as many of
them as there are overflow nodes, and one, still point to their pages. Callers
keep two to four; the server's pools are larger.

**Sequences.** `Wrap` is the addition as compiled: two's complement. `issued` is
a history variable; it starts anew where the code lets counting start anew
(setval, a cycle, a new increment).

**Transactions.** A session is a worker process; `pc` is where it is in its
statement, and a step reads or writes one page. What the code changes by reading
and writing it takes two steps, between which other workers may take theirs: the
sequence (`Begin`, `NextVal`), the byte of flags (`ReadFlags`, `PutFlag`), the
number of rows (`ReadRows`, `AllocRow`). Workers are in one catalog or in several; a
crash may come between any two steps, those of `tran_put` included. One abstraction
matters: `tran_row_is_visible` reads its two flags at once.

`history` (the transactions there were and their fates), `acked`, `raced` and the
fields `by`, `del` and `over` of rows are history variables for the properties; the
code sees `*tmin` and `*tmax` only. Nothing keeps workers apart, so that much
of what one would wish is false, and the properties say precisely of what:

- a *namesake* of a transaction has the same id: one of another catalog, for the page
  of flags is one for all; one of a worker that was in the sequence at the same time; one
  that committed just before a crash and whose id the sequence gives out again, since
  `tran_put` flushes the flag first. `NoDirtyRead` and `IntactFound` leave out what a
  namesake lets a reader find or hides from it;
- a flag is *crossed* if it was written while another worker had read its byte and
  not yet written it, or if a namesake was rolled back later: this is the lost commit of
  `tran_flag_put`. `FlagsTellFate`, `IntactFound` and `Durable` leave these commits out;
- *raced* are the catalogs in whose sequence, and the pages in whose number of rows,
  two workers were at once: `IdsFresh` leaves out the first, `Durable` the second;
- *over* are the deletions of a row that a later DELETE has overwritten
  (`dml_delete_row` sets `*tmax` whatever it holds, also the id of a transaction that has
  deleted the row and committed since it was found visible). `Durable` says of a
  flushed deletion that `*tmax` on disk is its id or that of a later DELETE. If that
  one is rolled back the row is visible again, committed deletion or not.

Each of the exceptions is needed: TLC refutes the property without it, within the
bounds of the run. A SELECT changes
nothing after it has its transaction: `NoDirtyRead` and `IntactFound` say which
rows it would find at every moment. DELETE comes to any visible row, so that
every WHERE is covered. `g_tran` is left out: each worker has a private copy
that holds one transaction at most, so that it never is full.

**Tables.** `Table` is one worker's SELECT or DELETE, row by row, over a table
that the workers of other transactions insert into, delete from and commit to
between its steps. What Tran takes apart, the ids, flags and the filling of a
row, is one step here; what Tran leaves out is taken apart: two pages, growth,
the iterators `cmd->titor` and `bc->titor`, the loop that `y2lex` makes of a
WHERE, the tail that `find_relation` looks up. `number`, `wiped`, `cut`,
`hollow` and `watch` are history variables. An iterator is on a page, where the code
holds a pointer into that page's frame (mesh.h:19-24): an eviction under an iterator is
not modelled, and `HandedStay` of PageCache is what there is to say about how long the
pointer is good. `hit` is whether a row fulfils the
condition, so that every condition is covered. Since nothing ever changes
`tail_gid`, a table has its first page and the one after it: the growth to a new
file at GID_MAXPAGE is left out. The loop of `titor_next` is not a recursion but its
outcome: the first position onward that holds a visible row (`FirstSeen`), or where
`mitor_next` comes to a halt. Properties except what the code loses, by name:
rows in a page that a later INSERT initialises again (`wiped`), rows behind a
link that was not flushed (`cut`), statements whose iterators another worker's
insert has revived or displaced (`watch.displaced`).

**Values.** A table's header gets columns of any sizes; or a literal is stored
in a column and then compared or matched. `like` runs round by round, `Matches`
is its definition, `Before` the order of strings. The properties name what is
excepted: values a column cannot hold (stored cut, padded or narrowed without a
word), integers whose difference needs more than 64 bits, tables with CHAR(0).
VARCHAR columns store nothing in this version.

**System tables.** `Ddl` has the pages that numbers of files are drawn from and
written to, in memory and on disk. A statement changes memory in one step and
then flushes page by page (`todo`), as its calls to `pagecache_flush` do;
between any two a restart may come. `behind` and `torn` record what a restart
found. Statements are one at a time.

**Memory.** Contexts are mapped regions with a position; blocks are what callers
hold. `private` tells the array of `bc_cont`, which is alone in its context and
survives `cmd_reset`, from one in a shared context. Callers reset and drop
nothing that is on the stack of current contexts.

A block is `rewound` when its context has taken it back while it is in use. There are
two ways. A refused growth of the last block of a context: the context was rewound
first, and the caller, who is returned NULL, still has the block. And `cmd_reset`:
it resets `bc_cont` and keeps the array of bytecode there (cmd.c:46-55). The first
later command with more tokens than the array has room for (128 at first) grows a
block that is behind the end of its context: `assert(0 && "Invalid pointer in free")`
of memory.c:290-294 fails and ends the worker in a debug build, which is the Makefile's
default. A release build goes on, and the array's new block is put where the old
one was. `BlocksApart` says of blocks in use that they share nothing and are where that
assertion wants them; of rewound ones that they are in their context; of the kept array
that it is where the first block of its context will be. An array whose growth was
refused has a capacity its block does not have (`torn`): what is then written behind
it is not followed. TLC refutes `BlocksApart` without these exceptions.

**Bytes and answers.** `Stream` numbers the bytes a worker sends and follows
them through the send buffer, sends of whole blocks past it, partial sends, the
socket, and the receive buffer with its refills and compactions. A piece is what
one call sends and one call receives. `Protocol` takes from it that pieces
arrive whole and in order, and is about which piece comes when: the worker's
parser with its error recovery, the answers of every kind of statement and
failure, the client library's state machine, and the console client above it.
A refused header is answered and ends the session. A command that leaves no
bytecode or too little (CREATE SCHEMA and CREATE TABLE without a catalog) is answered as
a parser error, and so is bytecode that `bc_prepare` refuses. A statement with a syntax
error is passed over without `cmd_reset`: what bytecode it had put (`leftover`) is
executed before that of the next statement, a whole command included (`Leftovers`).
`SCRS_NO_USER` does not occur: the console client always names a user.
`truth` is what the statements of a query did; it is a history variable. The
socket from client to worker carries scanned statements: the client writes one
query at a time and waits.

**Build.** The Makefile builds for debugging unless told otherwise; its release build
defines NDEBUG, and assertions do
nothing. The modules are the latter, except PageCache, where a failing assertion ends
the worker, because the
code after it writes through a null pointer. Where a debug build would end at an
assertion in Memory, `rewound` names it. Runs that end in a violation check
assertions as statements.

## 3. The runs

| Run | Instance | Shows |
|---|---|---|
| indexes | a list of 4 nodes, 2 data; a table of 2 buckets, 2 overflow nodes, 4 keys, 2 values, 2 hash functions | types; `WellFormed` lists; a deque, call by call; sound tables; complete iterations that end; refusals counted; a bounded map, call by call |
| caches | 2 buckets, 1 overflow node, 4 keys or 5 files, failing opens; 3 bit integers, increments -2, -1, 1, 2 | table and list agree; LRU order, call by call; descriptors neither leak nor go astray; bounds and freshness of sequences |
| storage | 1 page bucket with an overflow node, 1 file bucket, 3 pages of 2 files, failing calls and short writes, 2 changes; 3 contexts of 8 units, blocks of 2 and 3, 2 of them and an array | frames accounted for, last change found, pointers good, disk monotone; blocks apart, one tree |
| table | 12 files, 2 restarts; 2 pages of 2 rows, 2 transactions, 4 rows or 3 and a crash; strings to 4 characters in a CHAR(3), patterns to 4, 2 bit integers compared in 3 bits, 3 columns | gids distinct, tables covered by the sequence, files there; rows kept, first row there, each row once and in order, iterators in step, statements right; values right |
| tran | 2 workers in 1 or 2 catalogs, ids to 3, 2 transactions, or 2 more after a committed row, a page of 1 row, 2 crashes | but for the exceptions named: no dirty reads; intact rows found; flags tell fates; ids fresh; flushed changes stay |
| wire | 2 queries of one statement, 2 rows, deaths of either side; buffers of 4 and 6 bytes, a socket of 3, 8 bytes | own answers, success reported only of what was done, every query answered, workers end; bytes intact, flushed bytes arrive |

**Why these bounds are enough.** A list operation touches a node, its
neighbours and the ends: with four nodes, first, middle and last are distinct and
free nodes remain. Two buckets with two overflow nodes give empty, single,
double and triple chains, and a pool used up by one chain or by two. The caches'
distinctions are those and whether the victim shares the new key's bucket. In
the page cache the victim's file can be open, closed or the one closed to open
it; two changes give a page an old and a newer version, or two pages one each. A pair of
bounds and a value in 3 bits has every order and every distance from overflow.
Two workers are an actor and its disturber; two transactions are the least that
race, and the third that some behaviours start from gives them a committed row, on
disk, to find and delete. Catalogs of one transaction each have the same ids; a restart
gives an id out again, and a second one tells the memory it left from the disk. All ids
of the bounds are in one byte of flags, where they disturb each other most. The system tables start with
nine files: three more are a catalog, a table and its data, in any order, and two
restarts let the second meet what the first gave out again. Three contexts are a
parent, a child and a refused child (one slot each: the case of a full parent is
met, that of several children is not). Two pages of two rows have a first, a
last, a row between pages and a page filled twice; the pages are all a table can
have. Strings up to one more than the column's width are cut, full and padded,
with spaces inside and at the end; a pattern of four with two letters has two
`%` with text between, which is where backtracking matters. Two queries let the
second meet what the first left behind. Buffers of 4 and 6 bytes with pieces of
1, 2, 3 and 7 fill exactly, overflow by one, and hold more than a buffer; the
client's limits lie between them.

**Runs that end in a violation** check what the code, a comment or a header says
and the code does not keep:

| Run | Statement | What happens |
|---|---|---|
| pagecache_touch | `assert(e)`, pagecache.c:105 | pages of one file share a bucket; the evicted page was alone in another one, so that no overflow node is freed |
| tran_tmax | `assert(tid == tmax \|\| tmax == TRAN_INVALID_ID)`, tran.c:17 | an autocommitting session keeps its transaction, already marked committed; another worker deletes its row |
| tran_aborted | "transaction is aborted by default", tcl.c:46 | catalogs number transactions each from 1, the page of flags is one for all; likewise after a crash between tran_put's two flushes, and when two workers draw one id |
| protocol_own | "Send query to server and receive response header", scrc.h:215, with the test "Multiple commands on one line" | two statements in a query are answered twice, the second answer is read as the next query's |
| protocol_answered | the same | a statement with a syntax error is passed over without an answer |
| mesh_tail | "Ensure this is really the tail gid", mesh.c:20 | `relation.tail_gid` is never advanced: after growth the next INSERT starts at the old tail; a release build empties the second page |

The passing tran run has the same races, catalogs and crashes, and its properties
name what they break. The passing wire run has one statement to a query
and none with a syntax error: it shows what the protocol gives without them.

**Fairness.** Only Protocol and Stream have it. In Protocol the worker takes its
steps while it has input or output, and the client its own while it awaits an
answer: both are loops around blocking calls that return when there is something
to do. What a user types, and deaths, are never forced. In Stream `send_block`
goes on while the socket has room and the client reads what has come; sends that
fail are not forced, and the worker's producing of bytes is not. With it three
things are shown to happen: a query is answered or reported broken, a worker
whose client has gone ends, flushed bytes arrive. All other components are calls
that end by their loop bounds.

**Deadlock** is checked in indexes, caches and tran. In the other runs a
behaviour may really stop: files run out (`MaxGid`), the table's statement and
its others' are done, the client has left, a value has been compared.

## 4. What is proved

For every value of the constants, by TLAPS:

- `IndexProofs!ListTypes`, `IndexProofs!ListWellFormed`: `Spec => []TypeOK`
  and `Spec => []WellFormed` for lists with a pool of any size and data of any
  kind. `WellFormed` says that some chain of nodes is the walk in both
  directions, some chain is the free list, and both together are the pool. It is
  inductive with `TypeOK`. Each operation has a lemma that names the two chains
  after it in terms of the ones before (`PopBackRep`: the last node goes from
  the end of one to the front of the other; `MoveFrontRep`: the first chain is
  rotated up to the node); `IndexLemmas` has the facts about chains alone. The
  lemmas speak of list values, so that the caches can cite them.
- `IndexProofs!ListImplementsDeque`: the same lists implement `Deque`, under the
  mapping `Shows`, and every call is the operation of its name (`CallsMatch`). The
  walk that `Shows` takes is a recursive function: `WalkMeets` shows that it meets
  the nodes of the chain one by one and ends behind the last, because the chain itself
  satisfies the recursion (`IsWalk`) and only one function does (`OneWalk`, by
  induction). `ShownLonger`, `ShownShorter` and `ShownMoved` say what the surgery of a
  chain does to the queue it shows; one lemma to a call (`PutsAre`, `MovesAre` and so
  on) puts the two together.
- `IndexProofs!HashKeepsSound`, `HashLoopsComplete`, `HashRefusesCounted`,
  `HashImplementsMap`: tables of any size, any keys, any hash functions. `LinksSound`
  and `KeysSound` speak of walks; what is inductive is a layout (`Laid`): every entry
  has an owner, the bucket whose chain it is on or the free list, and a place there, no
  two the same; links lead from a place to the next. Places are below `chainsz` plus
  one by the pigeonhole principle (`PlacesBounded`), so that a walk of that length meets
  them all (`PathMeets`). `LaidLonger` and `LaidShorter` say how the layout changes when
  a free node goes behind the last of a chain and when a node goes back: the two
  surgeries `ihash_touch` and `ihash_erase` are made of. `Keyed` adds that an entry's
  key is hashed to its owner. From there: a loop has seen what lies before its datum,
  bucket by bucket and place by place (`Visiting`); the overflow nodes in use are the
  keys less the buckets in use (`KeyCounts`), which is the reading of `Buckets`; and
  `MapOf` changes as `BoundedMap` says (`PutMap`, `EraseMap`, `RefusedFull`).
- `CacheProofs!CacheKeepsSound`, `CacheIsLru`, `DescriptorsHeld`: caches of any size,
  any keys, values and hash functions. `IndexLemmas` speaks of lists and tables as
  values, and this is where that is used: a cache is a table and a list of which two
  chains are the order and the free list (`Listed`), the nodes of the order being those
  the entries in use name (`Held`), each with its entry's key. That some chains are so
  (`IsCache`) is inductive. Its steps are lemmas on cache values (`RecentListed`,
  `EnlistListed`, `DropListed`, `SetListed`) which name the chains after them; `NodeFree`
  is the pigeonhole that gives a new entry a node, and `FullListed` says what a key
  without room means. `CacheIsLru` reads the entries off the chain (`KeptIs`):
  moving, adding and cutting a node is moving, adding and cutting an entry
  (`ReadRecent`, `ReadMore`, `ReadLess`, `ReadSet`), so that each of the four outcomes of
  a touch is one operation of `LruCache` (`TouchShows`). `ManyKept` is why nothing is
  evicted early: a key that has no room finds every overflow node and its bucket taken.
  `ErasedAlone` is why a refusal needs an entry alone in its bucket. For descriptors,
  `Serves` adds that the open files are those of the keys, each under the descriptor
  the cache has for its key; `Ready` is the state between `open` and the entry.
- `CacheProofs!SequenceTypes`, `SequenceInBounds`, `SequenceFresh`:
  types, bounds and freshness for integers of any width. Types and bounds alone
  do not give freshness: `Behind` adds that the values given lie behind the
  current one, seen in the direction the sequence runs, and that there are none
  before the first call.
- `DdlProofs!DdlTablesCovered`, `DdlGidsDistinct`: any number of files and
  restarts, a restart between any two flushes. Neither is inductive. `Covered`
  adds that what memory has of tables is below the sequence on disk as well,
  unless the sequence's page is the next to be flushed: this is what the order
  of the flushes in `create_table` and `find_relation` is for. `Older` adds that
  the disk is a former state of memory, page by page, so that what a restart
  finds is distinct because what it lost was (`OlderApart`).

  `FInv` adds what the files need: a file that a row in memory or on disk names is
  there, of its kind, or is on the list of pages still to flush, and a data page is
  there before the row that names it. `DdlFilesKept` follows.
- `StorageProofs!PageCacheFramesAccounted`, `PageCacheLatestFound`,
  `PageCacheHandedStay`, `PageCacheDiskMonotone`: caches of any size, any pages and
  files, every call failing or not. `IInv` says of the caches: no frame is in two
  places (`FramesApart`); the pages in recency order are those with frames, each once,
  and pages, free frames and `leaks` add up to the frames (`FramesThere`); a frame, or
  the disk, holds the last change (`ContentFound`); memory is never older than disk
  (`MemoryAhead`) and no content is of a change not yet made (`AllPast`): without these
  two a flush could turn the disk back; what was handed out heads the recency order
  (`HandedHead`). `NoRoom` is why handed out pages stay: when a bucket is full and so
  is the overflow, there are more pages than overflow nodes, so the victim is not among
  the last `PageChains + 1`.
- `StorageProofs!MemoryBlocksApart`, `MemoryOneTree`: contexts of any number and size,
  trees of any shape, blocks of any size. Neither is inductive. `MemInv` says of the
  blocks that they fit (`Fit`): each lies below its context's position, behind room for
  its header, and between two of one context there is room for a header, so that giving
  back the last one uncovers none. Rewound blocks are not
  among them; they are in their contexts (`Behind`). Of the array that is alone in its
  context `InHome` says that the context is either in use as far as the array goes or
  as after a reset, so that the array's next block comes to lie where the last one did. `ReallocFits` and
  `Placed` are the growth of a block and of an array, with and without room. For the
  tree, `Tree` adds an order of the contexts in which children come later (`Ranked`);
  `Below` is the least set closed under children, so `RankedApart` follows (nothing is
  below its own child), and `BelowApart`: what a drop takes with it is in nobody's slot
  but that of its own parent.
- `TranProofs!TranNoDirtyRead`, `TranIntactFound`, `TranFlagsTellFate`,
  `TranIdsFresh`, `TranDurable`: any number of workers, catalogs, ids, rows and
  crashes, with every race the steps allow; no hypothesis but `TranAssumption`. The
  properties are those of the run, exceptions included. The invariant `TranInv` has
  a part for each. `SessInv`: a worker's transaction is in the
  history under its id, its alone, and running until its flag is put. `RowInv`: the
  ids in a row are those of the transactions that changed it, in memory and on disk.
  `FlagInv`: a flag is that of a commit not only in the page but in the bytes that
  workers have read and not yet written, and those bytes have the flag of every commit
  that was not crossed: this is what makes the last clause of `FlagsTellFate` survive
  the write of a stale byte. `IdInv`: in a sequence that was not raced for, who may still
  write rows has an id that the sequence on disk is past, so that a restart does not
  give it out again. `KeptInv`: an acknowledged change is in its page in memory and on
  disk, and so is in memory what a worker is about to flush; a row that is being filled
  is nobody else's.
- `TableProofs!TableRowsKept`, `TableFirstRowThere`, `TableOnceInOrder`,
  `TableInStep`, `TableStatementRight`: pages with any number of rows, any
  transactions, inserts, crashes and statements. Of the table `TableInv` says: the
  second page has a row only if the first is full, and one row at most, since the tail
  never advances (`Shape`); rows lie in the order of their INSERTs over both pages
  (`Ordered`). What a statement has done lies before the row its iterator is on
  (`DoneBehind`), and while nobody else has changed the table the loop's iterator is
  either on the same row or one step ahead, as the position in the bytecode says
  (`Together`). As long as the iterators have not gone astray, the row they are on was
  wanted at some time, and every row wanted all the time is done or ahead of the
  iterator, on a page it will come to (`OnTrack`, `ToDo`). `NextIs` is the lemma all of
  this rests on: what `titor_next` leaves out is nothing visible. For the steps of other
  workers `Steady` is enough: rows stay where they are, but for one that is new.
- `ProtocolProofs!ProtocolTypeOK`, `ProtocolAnswersOwn`, `ProtocolReportedIsDone`:
  queries of any kind and number, deaths of either side at any moment, under
  `OneEach`. The invariant is about everything that is on its way: `toClient`, `sbuf`
  and `out`, one after the other, are the rest of one answer, and then flushes; after a
  badly ended answer they hold at most more of the same query, which a client that has
  seen the error does not read. A refused header is one such answer, after which
  the worker ends. `Follows` ties the worker's position in its statement to
  that rest, and the client's status to what it has read. Each part of an answer that
  can be cut off by a failure has a lemma (`HeadBadly`, `RowsBadly`, `AbortBadly`).

- `ProtocolProofs!StreamBytesIntact`: buffers and sockets of any size, lines and blocks
  of any length, `send()` and `recv()` that take as little as they like. Bytes are
  numbered, so each place they wait in holds a run (`Run`): the numbers follow one
  another from a known first. `Received` and `Sending` say where the runs begin, each
  where the one before ends, and `RunsInOrder` puts them together. `Outstanding` says
  the same of the pieces, `LineThere` of the part of a line that `begin` points at,
  which is what a compaction breaks (`torn`). `OverfullRuns` is the arithmetic of
  `session_send`: the head that fills the buffer, the blocks sent past it and the tail
  that is kept make up the data exactly, if the buffer was not empty.

The assumptions are those named in the modules: `ListSzAssumption` (a pool size
is a natural number), `SizeAssumption` and `KeyAssumption` of IHash (a table has a
bucket, UNDEF is no key and hash values are natural numbers: they are unsigned in C),
`CacheAssumption` and `FdAssumption` (the same of the caches; the memory of a new cache
holds some key and value),
`IntAssumption` (the integers are those of some width
and 0 is no increment, which `sequence_init` and `sequence_set_increment`
refuse), `DdlAssumption` (there is room for the nine files scri makes),
`SizeAssumption` of PageCache (sizes are positive, and the contents that stand for "blank",
"not there" and "torn" are no versions of a page), `MemoryAssumption` (sizes and bounds are positive,
two contexts have names and NULL is no context and no block), `TranAssumption`, `ProtocolAssumption`, `StreamAssumption` (sizes are
positive and a header line may have a byte), `TableAssumption` (a page
has room for a row, and transaction ids are positive: 0 is TRAN_INVALID_ID). One
hypothesis is more than types, and is a constant of the passing run: `OneEach`
(one statement to a query, none with a syntax error), of the theorems about Protocol.
Without it the statements are
false of this code: runs protocol_own and protocol_answered show it.

Induction is used as a fact about sets of numbers: `Least` (a set of natural numbers
has a least one, from the library's theorem on well-founded relations) and `Upwards`
(a set with 0 and every successor has all), in `IndexLemmas`. The library's own
induction theorems take a predicate as a parameter, which the provers cannot supply.

Only model-checked: values (`ValuesRight`). What LIKE means is a recursion over two
strings, for which there is no induction to cite, and `align_up` needs `Bitwise`,
which no module with a theorem can use. Out of the prover's reach as well: liveness.
No module has a RECURSIVE operator.

## 5. What is not modelled

- **Two workers inside `pagecache_touch_fn`.** They change hash table, list and
  stack without a lock. A model of this has every load and store as a step and
  no promise of the code to check: it would show that anything can happen. The
  same goes for what workers find in the shared cache after another has ended in the
  middle of a call, at a failed assertion (pagecache.c:105, 109, 170).
- **Evictions under an iterator.** An iterator holds a pointer into a frame from one
  row to the next; enough puts of other workers turn the frame over to another page.
  `HandedStay` counts them; what is then read and written is not followed.
- **The end of the page of flags.** tran.c:37 and 50 have it as a todo: the flag of an
  id beyond it is read and written in the next frame.
- **What leftover bytecode does to tables.** A statement with a syntax error leaves
  its bytecode to the next one; Protocol has the answers, Table only whole statements.
- **Arithmetic on values** and concatenation: pure operations on two values, of
  which only the comparison has a hazard that tests hardly reach. Division by
  zero is not guarded in the code. NOT BETWEEN computes BETWEEN; the tests'
  expected outputs record it.
- **CREATE USER and CREATE SCHEMA** add a row to a table and flush it.
  Neither checks for duplicates or for the catalog.
- **Removing rows** from grids and meshes (`grid_delete_row`, `mitor_delete`,
  GC_PURE): no statement reaches it.
- **The grammars** of queries and expressions, beyond what is answered when and
  what recovery swallows. The bytecode is its loop.
- **Caches of other sizes**: `caches_create` remakes what `server_init` made
  with the sizes of the configuration; no page is in use then.
- **Signals, the log process, printing, dumps, command lines.** `sequence_currval`
  reads. The `create` and `free` functions are `malloc` and `free` around the
  modelled ones. `query.c` is empty functions.

Seen in the code and not in a property: `g_context` may be one below the
session's context when a failed command's session ends; an empty query string
would make scrc_query wait, which the console client never sends;
`memory_destroy` does not reset the context stack; nothing flushes the page cache
when the server stops, so that a gid drawn by CREATE CATALOG may be drawn again
after a normal stop as well (`behind` in Ddl covers both).
