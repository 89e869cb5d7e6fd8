----------------------------- MODULE CacheProofs -----------------------------
(***************************************************************************)
(* The LRU cache and the descriptor cache, of every size, for all keys and *)
(* hash functions: table and list go on describing the same entries, the   *)
(* LRU cache implements a map with a recency order, and no descriptor is   *)
(* lost or used for another file.  And the sequence, for integers of every *)
(* width: it keeps its bounds and gives no value twice.                    *)
(***************************************************************************)
EXTENDS Sequence, MCICache, FdCache, IndexLemmas

-----------------------------------------------------------------------------
(* Caches as values.                                                       *)

\* What an entry of the table holds, in a cache over n nodes.
Data(n, V) == [user : V, idx : IdxOrUndef(n)]

\* The nodes of the entries in use.
Held(h) == {h.val[e].idx : e \in Used(h)}

\* A cache whose nodes are listed as the chain o of m of them; the chain f of
\* k is its free list.
Listed(c, b, s, K, V, F, o, m, f, k) ==
  /\ c = [hash |-> c.hash, list |-> c.list]
  /\ IsTable(c.hash, b, s, K, Data(b + s, V), F)
  /\ c.list \in ListType(b + s, K)
  /\ Rep(c.list, b + s, o, m, f, k) /\ Nodes(o, m) = Held(c.hash)
  /\ \A e \in Used(c.hash) : c.list.user[c.hash.val[e].idx] = c.hash.key[e]

IsCache(c, b, s, K, V, F) == \E o, m, f, k : Listed(c, b, s, K, V, F, o, m, f, k)

\* ihash_get finds the entry of a key.
LEMMA GetUsed ==
  ASSUME NEW b, NEW s, NEW K, NEW V, NEW F, NEW h, IsTable(h, b, s, K, V, F)
  PROVE  /\ UNDEF \notin K /\ UNDEF \notin Entries(h)
         /\ \A e \in Used(h) : e \in Entries(h) /\ h.key[e] \in K /\ ihash_get(h, h.key[e]) = e
         /\ \A j \in K : ihash_get(h, j) # UNDEF =>
              ihash_get(h, j) \in Used(h) /\ h.key[ihash_get(h, j)] = j
<1>1. PICK own, pos : Laid(h, own, pos) /\ Keyed(h, own, K)
  BY DEF IsTable
<1>2. UNDEF \notin K /\ UNDEF \notin Entries(h) /\ h.key \in [Entries(h) -> K \cup {UNDEF}]
  BY <1>1, NodeIsEntry DEF Keyed, Laid
<1>3. ASSUME NEW j \in K
      PROVE  /\ ihash_get(h, j) # UNDEF =>
                  ihash_get(h, j) \in Entries(h) /\ h.key[ihash_get(h, j)] = j
             /\ \A e \in Entries(h) : h.key[e] = j => ihash_get(h, j) = e
  BY <1>1, GetIs
<1>4. \A j \in K : ihash_get(h, j) # UNDEF =>
        ihash_get(h, j) \in Used(h) /\ h.key[ihash_get(h, j)] = j
  BY <1>2, <1>3 DEF Used
<1>5. \A e \in Used(h) : e \in Entries(h) /\ h.key[e] \in K
  BY <1>2 DEF Used
<1>6. \A e \in Used(h) : ihash_get(h, h.key[e]) = e
  BY <1>3, <1>5
<1> QED BY <1>2, <1>4, <1>5, <1>6

\* The parts of a cache.
LEMMA CacheParts ==
  ASSUME NEW c, NEW b, NEW s, NEW K, NEW V, NEW F, NEW o, NEW m, NEW f, NEW k,
         Listed(c, b, s, K, V, F, o, m, f, k)
  PROVE  /\ b \in Nat \ {0} /\ s \in Nat /\ b + s \in Nat
         /\ Entries(c.hash) = Idx(b + s) /\ c.list.listsz = b + s
         /\ c.hash.val \in [Idx(b + s) -> Data(b + s, V)]
         /\ c.hash.key \in [Idx(b + s) -> K \cup {UNDEF}]
         /\ c.list.user \in [Idx(b + s) -> K]
         /\ \A e \in Used(c.hash) : /\ c.hash.val[e].idx \in Nodes(o, m)
                                    /\ c.hash.val[e].idx \in Idx(b + s)
         /\ \A d, e \in Used(c.hash) : c.hash.val[d].idx = c.hash.val[e].idx => d = e
<1> DEFINE h == c.hash
           n == b + s
<1>1. /\ b \in Nat \ {0} /\ s \in Nat /\ Entries(h) = 0 .. n - 1
      /\ h.key \in [Entries(h) -> K \cup {UNDEF}] /\ h.val \in [Entries(h) -> Data(n, V)]
  BY TableIs DEF Listed
<1>2. n \in Nat /\ Entries(h) = Idx(n)
  BY <1>1 DEF Idx
<1>3. c.list.listsz = n /\ c.list.user \in [Idx(n) -> K]
  BY DEF Listed, ListType
<1>4. \A e \in Used(h) : h.val[e].idx \in Nodes(o, m)
  BY DEF Listed, Held
<1>5. Nodes(o, m) \subseteq Idx(n)
  BY DEF Listed, Rep, Splits
<1>6. \A d, e \in Used(h) : h.val[d].idx = h.val[e].idx => d = e
  <2>1. \A e \in Used(h) : ihash_get(h, h.key[e]) = e
    BY GetUsed DEF Listed
  <2>2. \A e \in Used(h) : c.list.user[h.val[e].idx] = h.key[e]
    BY DEF Listed
  <2> QED BY <2>1, <2>2
<1> QED BY <1>1, <1>2, <1>3, <1>4, <1>5, <1>6

\* A cache like that has its type, and is sound.
LEMMA CacheIsSound ==
  ASSUME NEW c, NEW b, NEW s, NEW K, NEW V, NEW F, IsCache(c, b, s, K, V, F)
  PROVE  c \in CacheType(b, s, K, V, F) /\ CacheSound(c)
<1>1. PICK o, m, f, k : Listed(c, b, s, K, V, F, o, m, f, k)
  BY DEF IsCache
<1>2. b + s \in Nat /\ c.list.listsz = b + s
  BY <1>1, CacheParts
<1>3. c \in CacheType(b, s, K, V, F)
  BY <1>1 DEF Listed, CacheType, IsTable, Data
<1>4. PICK own, pos : Laid(c.hash, own, pos) /\ Keyed(c.hash, own, K)
  BY <1>1 DEF Listed, IsTable
<1>5. LinksSound(c.hash) /\ KeysSound(c.hash)
  BY <1>4, LaidIsSound, KeyedIsSound
<1>6. IsList(c.list, c.list.listsz, Held(c.hash))
  BY <1>1, <1>2, IsListRep DEF Listed
<1>7. \A e \in Used(c.hash) : c.list.user[c.hash.val[e].idx] = c.hash.key[e]
  BY <1>1 DEF Listed
<1> QED BY <1>3, <1>5, <1>6, <1>7 DEF CacheSound, Held, Used

-----------------------------------------------------------------------------
(* What the steps of a touch do.                                           *)

LEMMA ClearListed ==
  ASSUME NEW c, NEW b, NEW s, NEW K, NEW V, NEW F, IsCache(c, b, s, K, V, F),
         F \subseteq [K -> Nat], NEW fn \in F
  PROVE  /\ Listed(icache_clear(c, fn), b, s, K, V, F,
                   [i \in 1 .. 0 |-> 0], 0, [i \in 1 .. b + s |-> i - 1], b + s)
         /\ Used(icache_clear(c, fn).hash) = {}
<1> DEFINE t == ihash_clear(c.hash, fn)
           l == ilist2_clear(c.list)
<1>1. PICK o, m, f, k : Listed(c, b, s, K, V, F, o, m, f, k)
  BY DEF IsCache
<1>2. b + s \in Nat /\ UNDEF \notin K
  <2>1. IsTable(c.hash, b, s, K, Data(b + s, V), F)
    BY <1>1 DEF Listed
  <2> QED BY <1>1, <2>1, CacheParts, GetUsed
<1>3. IsTable(t, b, s, K, Data(b + s, V), F) /\ \A e \in 0 .. b + s - 1 : t.key[e] = UNDEF
  BY <1>1, <1>2, ClearedIs DEF Listed
<1>4. /\ l \in ListType(b + s, K)
      /\ Rep(l, b + s, [i \in 1 .. 0 |-> 0], 0, [i \in 1 .. b + s |-> i - 1], b + s)
  BY <1>1, <1>2, ClearRep DEF Listed
<1> HIDE DEF t, l
<1>5. Used(t) = {}
  <2>1. Entries(t) = 0 .. b + s - 1
    BY <1>3, TableIs
  <2> QED BY <1>3, <2>1 DEF Used
<1>6. Nodes([i \in 1 .. 0 |-> 0], 0) = Held(t)
  BY <1>5 DEF Nodes, Held
<1>7. icache_clear(c, fn) = [hash |-> t, list |-> l]
  BY DEF icache_clear, t, l
<1> QED BY <1>3, <1>4, <1>5, <1>6, <1>7 DEF Listed

LEMMA NewListed ==
  ASSUME NEW b \in Nat \ {0}, NEW s \in Nat, NEW K, NEW V, NEW F, UNDEF \notin K,
         F \subseteq [K -> Nat], NEW fn \in F, NEW u \in V, NEW j \in K
  PROVE  /\ Listed(icache_init(b, s, fn, u, j), b, s, K, V, F,
                   [i \in 1 .. 0 |-> 0], 0, [i \in 1 .. b + s |-> i - 1], b + s)
         /\ Used(icache_init(b, s, fn, u, j).hash) = {}
<1> DEFINE n == b + s
           v == [e \in 0 .. n - 1 |-> [user |-> u, idx |-> UNDEF]]
           w == [i \in Idx(n) |-> j]
           raw == [listsz |-> n, freelist_head |-> UNDEF,
                   front_idx |-> UNDEF, back_idx |-> UNDEF,
                   next |-> [i \in Idx(n) |-> UNDEF],
                   prev |-> [i \in Idx(n) |-> UNDEF], user |-> w]
           t == ihash_init(b, s, fn, v)
           l == ilist2_init(n, w)
<1>1. n \in Nat /\ UNDEF \in IdxOrUndef(n)
  BY DEF UNDEF, IdxOrUndef
<1>2. v \in [0 .. n - 1 -> Data(n, V)]
  BY <1>1 DEF Data
<1>3. raw \in ListType(n, K)
  <2> HIDE DEF n
  <2> QED BY <1>1 DEF ListType
<1>4. l = ilist2_clear(raw)
  BY DEF ilist2_init
<1> HIDE DEF v, raw, w
<1>5. EmptyTable(t, b, s, K, Data(n, V), F)
  BY <1>2, MadeIs
<1>6. /\ l \in ListType(n, K)
      /\ Rep(l, n, [i \in 1 .. 0 |-> 0], 0, [i \in 1 .. n |-> i - 1], n)
  <2> HIDE DEF l, n
  <2> QED BY <1>1, <1>3, <1>4, ClearRep
<1>7. icache_init(b, s, fn, u, j) = [hash |-> t, list |-> l]
  BY DEF icache_init, t, l, v, w
<1> HIDE DEF t, l
<1>8. Used(t) = {}
  <2>1. Entries(t) = 0 .. n - 1
    BY <1>5, TableIs DEF EmptyTable
  <2> QED BY <1>5, <2>1 DEF Used, EmptyTable
<1>9. Nodes([i \in 1 .. 0 |-> 0], 0) = Held(t)
  BY <1>8 DEF Nodes, Held
<1> QED BY <1>5, <1>6, <1>7, <1>8, <1>9 DEF Listed, EmptyTable

\* A hit: the node of the key moves to the front.
LEMMA RecentListed ==
  ASSUME NEW c, NEW b, NEW s, NEW K, NEW V, NEW F, NEW o, NEW m, NEW f, NEW k,
         Listed(c, b, s, K, V, F, o, m, f, k), NEW j \in K, icache_get(c, j) # UNDEF
  PROVE  \E q \in 1 .. m :
           /\ c.list.user[o[q]] = j
           /\ Listed(MakeRecent(c, j), b, s, K, V, F, ToFront(o, m, q), m, f, k)
           /\ MakeRecent(c, j).hash = c.hash
           /\ MakeRecent(c, j).list.user = c.list.user
<1> DEFINE e == ihash_get(c.hash, j)
           idx == c.hash.val[e].idx
           l == ilist2_move_front_by_idx(c.list, idx)
<1>1. e \in Used(c.hash) /\ c.hash.key[e] = j
  BY GetUsed DEF icache_get, Listed
<1>2. b + s \in Nat /\ idx \in Nodes(o, m)
  BY <1>1, CacheParts
<1>3. PICK q \in 1 .. m : idx = o[q]
  BY <1>2 DEF Nodes
<1>4. c.list.user[o[q]] = j
  BY <1>1, <1>3 DEF Listed
<1>5. MakeRecent(c, j) = [hash |-> c.hash, list |-> l]
  <2>1. MakeRecent(c, j) = [c EXCEPT !.list = l]
    BY DEF MakeRecent, icache_get
  <2> HIDE DEF l
  <2> QED BY <2>1 DEF Listed
<1>6. l \in ListType(b + s, K) /\ Rep(l, b + s, ToFront(o, m, q), m, f, k)
  BY <1>2, <1>3, MoveFrontRep DEF Listed
<1>7. l.user = c.list.user
  BY <1>2, UsersKept DEF Listed
<1>8. Nodes(ToFront(o, m, q), m) = Nodes(o, m)
  BY ToFrontChain DEF Listed, Rep
<1> HIDE DEF l
<1>9. Listed(MakeRecent(c, j), b, s, K, V, F, ToFront(o, m, q), m, f, k)
  BY <1>5, <1>6, <1>7, <1>8 DEF Listed
<1> QED BY <1>4, <1>5, <1>7, <1>9

\* Values may be stored in a table.
LEMMA ValsStored ==
  ASSUME NEW b, NEW s, NEW K, NEW V, NEW F, NEW h, IsTable(h, b, s, K, V, F),
         NEW w \in [Entries(h) -> V], NEW t, t = [h EXCEPT !.val = w]
  PROVE  /\ IsTable(t, b, s, K, V, F) /\ Resized(h, t) /\ Entries(t) = Entries(h)
         /\ t.key = h.key /\ t.next = h.next /\ t.chain_head = h.chain_head /\ t.val = w
<1>1. h \in HashType(b, s, K, V, F) /\ b \in Nat \ {0} /\ s \in Nat /\ Entries(h) = 0 .. b + s - 1
  BY TableIs DEF IsTable
<1>2. /\ Resized(h, t) /\ t.key = h.key /\ t.next = h.next /\ t.chain_head = h.chain_head
      /\ t.val = w
  BY <1>1 DEF HashType, Resized
<1>3. t \in HashType(b, s, K, V, F)
  BY <1>1 DEF HashType
<1>4. PICK own, pos : Laid(h, own, pos) /\ Keyed(h, own, K)
  BY DEF IsTable
<1>5. Laid(t, own, pos)
  BY <1>2, <1>4, SameLinks
<1>6. Keyed(t, own, K) /\ Entries(t) = Entries(h)
  BY <1>2, <1>4, SameSizes DEF Keyed
<1> QED BY <1>1, <1>2, <1>3, <1>5, <1>6 DEF IsTable

\* A table with an unused entry leaves a node free.
LEMMA NodeFree ==
  ASSUME NEW c, NEW b, NEW s, NEW K, NEW V, NEW F, NEW o, NEW m, NEW f, NEW k,
         Listed(c, b, s, K, V, F, o, m, f, k), NEW e \in Entries(c.hash), e \notin Used(c.hash)
  PROVE  k > 0 /\ c.list.freelist_head = f[1] /\ f[1] # UNDEF
<1> DEFINE n == b + s
           U == Used(c.hash)
<1>1. n \in Nat /\ Entries(c.hash) = Idx(n)
  BY CacheParts
<1>0. Nodes(o, m) = Held(c.hash)
  BY DEF Listed
<1>2. U \subseteq Idx(n) \ {e} /\ e \in Idx(n)
  BY <1>1 DEF Used
<1>3. IsFiniteSet(Idx(n)) /\ Cardinality(Idx(n)) = n
  BY <1>1, FS_Interval DEF Idx
<1>4. IsFiniteSet(Idx(n) \ {e}) /\ Cardinality(Idx(n) \ {e}) = n - 1
  BY <1>2, <1>3, FS_RemoveElement
<1>5. IsFiniteSet(U) /\ Cardinality(U) <= n - 1 /\ Cardinality(U) \in Nat
  BY <1>2, <1>4, FS_Subset, FS_CardinalityType
<1>6. ASSUME Held(c.hash) = Idx(n) PROVE FALSE
  <2> DEFINE g == [i \in Idx(n) |-> CHOOSE x \in U : c.hash.val[x].idx = i]
  <2>1. \A i \in Idx(n) : g[i] \in U /\ c.hash.val[g[i]].idx = i
    BY <1>6 DEF Held
  <2>2. g \in [Idx(n) -> U]
    BY <2>1
  <2> HIDE DEF g, U
  <2>3. Cardinality(U) < Cardinality(Idx(n))
    BY <1>1, <1>3, <1>5
  <2>4. \E i, j \in Idx(n) : i # j /\ g[i] = g[j]
    BY ONLY <1>3, <1>5, <2>2, <2>3, FS_PigeonHole
  <2> QED BY <2>1, <2>4
<1>7. Held(c.hash) # Idx(n)
  BY <1>6
<1>8. RepFacts(c.list, n, o, m, f, k)
  BY <1>1, RepNodes DEF Listed
<1>9. k > 0
  <2>1. SUFFICES k # 0
    BY <1>8 DEF RepFacts
  <2>2. ASSUME k = 0 PROVE Nodes(o, m) = Idx(n)
    <3>1. Nodes(f, k) = {}
      BY <2>2 DEF Nodes
    <3>2. Nodes(o, m) \cup Nodes(f, k) = Idx(n)
      BY DEF Listed, Rep, Splits
    <3> QED BY <3>1, <3>2
  <2> QED BY <1>0, <1>7, <2>2
<1>10. f[1] # UNDEF /\ c.list.freelist_head = f[1]
  BY <1>8, <1>9 DEF RepFacts, Listed, Rep, IsFree
<1> QED BY <1>9, <1>10

\* c and d agree on the user's values of the keys in S, which they have.
SameUsers(c, d, S) ==
  \A j \in S : /\ icache_get(c, j) # UNDEF /\ icache_get(d, j) # UNDEF
               /\ User(d, j) = User(c, j)

KeysIn(c) == {c.hash.key[e] : e \in Used(c.hash)}

LEMMA KeysAre ==
  ASSUME NEW c, NEW b, NEW s, NEW K, NEW V, NEW F, IsTable(c.hash, b, s, K, V, F)
  PROVE  /\ KeysIn(c) \subseteq K
         /\ \A j \in K : j \in KeysIn(c) <=> icache_get(c, j) # UNDEF
<1>1. /\ UNDEF \notin Entries(c.hash)
      /\ \A e \in Used(c.hash) : /\ e \in Entries(c.hash) /\ c.hash.key[e] \in K
                                 /\ ihash_get(c.hash, c.hash.key[e]) = e
      /\ \A j \in K : ihash_get(c.hash, j) # UNDEF =>
           ihash_get(c.hash, j) \in Used(c.hash) /\ c.hash.key[ihash_get(c.hash, j)] = j
  BY GetUsed
<1> QED BY <1>1 DEF KeysIn, icache_get

\* d is c with the key j in the node x.
Enlists(c, d, j, x, n) ==
  /\ x \in Idx(n) /\ d.list.user = [c.list.user EXCEPT ![x] = j]
  /\ KeysIn(d) = KeysIn(c) \cup {j} /\ SameUsers(c, d, KeysIn(c))

\* A miss with room: the new key gets an entry and the first free node.
LEMMA EnlistListed ==
  ASSUME NEW c, NEW b, NEW s, NEW K, NEW V, NEW F, NEW o, NEW m, NEW f, NEW k,
         Listed(c, b, s, K, V, F, o, m, f, k), NEW j \in K, icache_get(c, j) = UNDEF,
         HasRoom(c, j), NEW d, d = Enlist(HashTouch(c, j), j)
  PROVE  /\ k > 0
         /\ Listed(d, b, s, K, V, F, Cons(f[1], o, m), m + 1, Rest(f, k), k - 1)
         /\ f[1] \notin Nodes(o, m) /\ Enlists(c, d, j, f[1], b + s)
<1> DEFINE n == b + s
           h == c.hash
           e == Touched(h, j)
           t == ihash_touch(h, j)
           w == [t.val EXCEPT ![e].idx = c.list.freelist_head]
           l == ilist2_put_front(c.list, j)
           U == Data(n, V)
<1>1. /\ Touches(h, t, e, j) /\ IsTable(t, b, s, K, U, F) /\ IsTable(h, b, s, K, U, F)
      /\ e # UNDEF /\ ihash_get(h, j) = UNDEF
  BY TouchIs DEF Listed, HasRoom, icache_get
<1> HIDE DEF e, t, U
<1>2. /\ e \in Entries(h) /\ h.key[e] = UNDEF /\ t.key = [h.key EXCEPT ![e] = j]
      /\ t.val = h.val /\ Resized(h, t) /\ Entries(t) = Entries(h)
  BY <1>1, SameSizes DEF Touches
<1>3. /\ n \in Nat /\ Entries(h) = Idx(n) /\ h.val \in [Idx(n) -> U] /\ j # UNDEF
      /\ h.key \in [Idx(n) -> K \cup {UNDEF}]
  BY <1>1, CacheParts, GetUsed DEF U
<1>4. k > 0 /\ c.list.freelist_head = f[1] /\ f[1] # UNDEF
  BY <1>2, NodeFree DEF Used
<1>5. f[1] \in Idx(n) /\ f[1] \notin Nodes(o, m)
  <2>1. RepFacts(c.list, n, o, m, f, k) /\ Nodes(o, m) \cap Nodes(f, k) = {}
    BY <1>3, RepNodes DEF Listed, Rep, Splits
  <2> QED BY <1>4, <2>1 DEF RepFacts
<1>6. /\ l \in ListType(n, K) /\ l.user = [c.list.user EXCEPT ![f[1]] = j]
      /\ Rep(l, n, Cons(f[1], o, m), m + 1, Rest(f, k), k - 1)
  BY <1>3, <1>4, PutFrontRep, UsersPut DEF Listed
<1>7. Used(t) = Used(h) \cup {e} /\ t.key[e] = j /\ \A x \in Used(h) : x # e /\ t.key[x] = h.key[x]
  BY <1>2, <1>3 DEF Used
<1>8. icache_get(HashTouch(c, j), j) = e
  <2>1. HashTouch(c, j).hash = t
    BY DEF HashTouch, t, Listed
  <2>2. ihash_get(t, j) = e
    BY <1>1, <1>7, GetUsed
  <2> QED BY <2>1, <2>2 DEF icache_get
<1>9. d = [hash |-> [t EXCEPT !.val = w], list |-> l]
  <2>1. HashTouch(c, j) = [hash |-> t, list |-> c.list]
    BY DEF HashTouch, t, Listed
  <2>2. d = [hash |-> [t EXCEPT !.val[e].idx = c.list.freelist_head], list |-> l]
    BY <1>8, <2>1 DEF Enlist
  <2>3. "val" \in DOMAIN t /\ t.val \in [Idx(n) -> U] /\ e \in Idx(n)
    BY <1>1, <1>2, <1>3 DEF IsTable, HashType
  <2> HIDE DEF l
  <2> QED BY <2>2, <2>3
<1>10. /\ w \in [Entries(t) -> U] /\ w[e].idx = f[1]
       /\ \A x \in Entries(h) : w[x].user = h.val[x].user /\ (x # e => w[x] = h.val[x])
  <2>1. h.val[e] \in [user : V, idx : IdxOrUndef(n)] /\ f[1] \in IdxOrUndef(n)
    BY <1>2, <1>3, <1>5 DEF U, Data, Idx, IdxOrUndef, UNDEF
  <2>2. w = [h.val EXCEPT ![e] = [user |-> h.val[e].user, idx |-> f[1]]]
    BY <1>2, <1>4, <2>1
  <2> HIDE DEF w
  <2> QED BY <1>2, <1>3, <2>1, <2>2 DEF U, Data
<1> HIDE DEF w, l
<1>11. /\ Resized(t, d.hash) /\ d.hash.key = t.key /\ d.hash.next = t.next
       /\ d.hash.chain_head = t.chain_head /\ d.hash.val = w /\ d.list = l
       /\ IsTable(d.hash, b, s, K, U, F)
  <2>1. d.hash = [t EXCEPT !.val = w] /\ d.list = l
    BY <1>9
  <2> QED BY <1>1, <1>10, <2>1, ValsStored
<1>12. Nodes(Cons(f[1], o, m), m + 1) = Held(d.hash)
  <2>1. Nodes(Cons(f[1], o, m), m + 1) = {f[1]} \cup Nodes(o, m)
    <3>1. Chain(o, m, Idx(n))
      BY DEF Listed, Rep
    <3> QED BY ONLY <3>1, ConsNodes
  <2>2. Used(d.hash) = Used(h) \cup {e}
    BY <1>7, <1>11, SameSizes DEF Used
  <2>3. Held(d.hash) = {f[1]} \cup Held(h)
    BY <1>7, <1>10, <1>11, <2>2 DEF Held, Used
  <2> QED BY <2>1, <2>3 DEF Listed
<1>13. Used(d.hash) = Used(h) \cup {e}
  BY <1>7, <1>11, SameSizes DEF Used
<1>14. ASSUME NEW x \in Used(d.hash)
       PROVE  d.list.user[d.hash.val[x].idx] = d.hash.key[x]
  <2>1. c.list.user \in [Idx(n) -> K]
    BY CacheParts
  <2>2. CASE x = e
    BY <1>5, <1>6, <1>7, <1>10, <1>11, <2>1, <2>2
  <2>3. CASE x # e
    <3>1. x \in Used(h) /\ d.hash.val[x] = h.val[x] /\ d.hash.key[x] = h.key[x]
      BY <1>7, <1>10, <1>11, <1>13, <2>3 DEF Used
    <3>2. h.val[x].idx \in Nodes(o, m) /\ h.val[x].idx \in Idx(n)
      BY <3>1, CacheParts
    <3>3. c.list.user[h.val[x].idx] = h.key[x]
      BY <3>1 DEF Listed
    <3> QED BY <1>5, <1>6, <1>11, <2>1, <3>1, <3>2, <3>3
  <2> QED BY <2>2, <2>3
<1>15. KeysIn(d) = KeysIn(c) \cup {j}
  BY <1>7, <1>11, <1>13 DEF KeysIn
<1>16. ASSUME NEW i \in KeysIn(c)
       PROVE  icache_get(c, i) # UNDEF /\ icache_get(d, i) # UNDEF /\ User(d, i) = User(c, i)
  <2>1. PICK x \in Used(h) : h.key[x] = i
    BY DEF KeysIn
  <2>2. ihash_get(h, i) = x /\ x \in Entries(h) /\ x # UNDEF
    BY <1>1, <2>1, GetUsed
  <2>3. x \in Used(d.hash) /\ d.hash.key[x] = i
    BY <1>7, <1>11, <1>13, <2>1
  <2>4. ihash_get(d.hash, i) = x
    BY <1>11, <2>3, GetUsed
  <2> QED BY <1>10, <1>11, <2>2, <2>4 DEF icache_get, User
<1>17. SameUsers(c, d, KeysIn(c))
  BY <1>16 DEF SameUsers
<1>18. Listed(d, b, s, K, V, F, Cons(f[1], o, m), m + 1, Rest(f, k), k - 1)
  <2>1. d = [hash |-> d.hash, list |-> d.list]
    BY <1>9
  <2> QED BY <1>6, <1>11, <1>12, <1>14, <2>1 DEF Listed, U
<1>19. Enlists(c, d, j, f[1], n)
  BY <1>5, <1>6, <1>11, <1>15, <1>17 DEF Enlists
<1> QED BY <1>4, <1>5, <1>18, <1>19

\* d is c without the least recent key, that of node x.
Drops(c, d, x) ==
  /\ LruKey(c) = c.list.user[x] /\ LruKey(c) \in KeysIn(c)
  /\ d.list.user = c.list.user
  /\ KeysIn(d) = KeysIn(c) \ {LruKey(c)} /\ SameUsers(c, d, KeysIn(d))

\* An eviction: the last node and the entry with its key go.
LEMMA DropListed ==
  ASSUME NEW c, NEW b, NEW s, NEW K, NEW V, NEW F, NEW o, NEW m, NEW f, NEW k,
         Listed(c, b, s, K, V, F, o, m, f, k), Used(c.hash) # {},
         NEW d, d = DropLru(c)
  PROVE  /\ m > 0 /\ Listed(d, b, s, K, V, F, Most(o, m), m - 1, Cons(o[m], f, k), k + 1)
         /\ Drops(c, d, o[m])
<1> DEFINE n == b + s
           h == c.hash
           j == LruKey(c)
           e == ihash_get(h, j)
           t == ihash_erase(h, j)
           l == ilist2_pop_back(c.list)
           U == Data(n, V)
<1>1. n \in Nat /\ IsTable(h, b, s, K, U, F) /\ RepFacts(c.list, n, o, m, f, k)
  <2>1. n \in Nat
    BY CacheParts
  <2> QED BY <2>1, RepNodes DEF Listed
<1>2. ~ilist2_empty(c.list)
  <2>1. PICK x : x \in Nodes(o, m)
    BY CacheParts
  <2>2. m > 0 /\ o[1] # UNDEF
    BY <1>1, <2>1 DEF RepFacts, Nodes
  <2> QED BY <2>2 DEF Listed, Rep, IsOrder, ilist2_empty
<1>3. /\ l \in ListType(n, K) /\ l.user = c.list.user /\ m > 0 /\ c.list.back_idx = o[m]
      /\ Rep(l, n, Most(o, m), m - 1, Cons(o[m], f, k), k + 1)
  BY <1>1, <1>2, PopBackRep, UsersKept DEF Listed
<1>4. j = c.list.user[o[m]]
  BY <1>3 DEF LruKey, ilist2_get_back
<1>5. PICK y \in Used(h) : h.val[y].idx = o[m]
  <2>1. o[m] \in Nodes(o, m)
    BY <1>1, <1>3 DEF RepFacts
  <2> QED BY <2>1 DEF Listed, Held
<1>6. h.key[y] = j /\ j \in K /\ e = y /\ e # UNDEF
  BY <1>1, <1>4, <1>5, GetUsed DEF Listed
<1>7. Erases(h, t, j) /\ IsTable(t, b, s, K, U, F)
  BY <1>1, <1>6, EraseIs
<1>8. d = [hash |-> t, list |-> l]
  BY DEF DropLru
<1> HIDE DEF t, l, e, j
<1>9. PICK x \in Entries(h) : Dropped(h, t, e, x)
  BY <1>6, <1>7 DEF Erases, e
<1>10. Entries(t) = Entries(h) /\ e \in Entries(h)
  BY <1>7, <1>9, SameSizes DEF Erases, Dropped
<1>11. /\ x \in Used(h) /\ Used(t) = Used(h) \ {x}
       /\ \A z \in Used(t) : IF z = e THEN t.key[z] = h.key[x] /\ t.val[z] = h.val[x]
                             ELSE t.key[z] = h.key[z] /\ t.val[z] = h.val[z]
  BY <1>5, <1>6, <1>9, <1>10 DEF Dropped, Used
<1>12. \A z \in Used(h) \ {e} : \E a \in Used(t) : t.key[a] = h.key[z] /\ t.val[a] = h.val[z]
  BY <1>5, <1>6, <1>11
<1>13. \A a \in Used(t) : \E z \in Used(h) \ {e} : t.key[a] = h.key[z] /\ t.val[a] = h.val[z]
  BY <1>5, <1>6, <1>11
<1>14. \A z \in Used(h) \ {e} : h.key[z] # j /\ h.val[z].idx # o[m]
  <2>1. \A z \in Used(h) : ihash_get(h, h.key[z]) = z
    BY <1>1, GetUsed
  <2>2. \A z \in Used(h) : h.val[z].idx = o[m] => z = y
    BY <1>5, CacheParts
  <2> QED BY <1>6, <2>1, <2>2 DEF e
<1>15. Held(t) = Held(h) \ {o[m]}
  BY <1>5, <1>6, <1>12, <1>13, <1>14 DEF Held
<1>16. KeysIn(d) = KeysIn(c) \ {j} /\ j \in KeysIn(c)
  <2>1. d.hash = t
    BY <1>8
  <2> QED BY <1>5, <1>6, <1>12, <1>13, <1>14, <2>1 DEF KeysIn
<1>17. Nodes(Most(o, m), m - 1) = Held(t)
  BY <1>3, <1>15, MostChain DEF Listed, Rep
<1>18. \A a \in Used(t) : l.user[t.val[a].idx] = t.key[a]
  BY <1>3, <1>13 DEF Listed
<1>19. Listed(d, b, s, K, V, F, Most(o, m), m - 1, Cons(o[m], f, k), k + 1)
  <2>1. d.hash = t /\ d.list = l
    BY <1>8
  <2> QED BY <1>3, <1>7, <1>8, <1>17, <1>18, <2>1 DEF Listed, U
<1>20. ASSUME NEW i \in KeysIn(d)
       PROVE  icache_get(c, i) # UNDEF /\ icache_get(d, i) # UNDEF /\ User(d, i) = User(c, i)
  <2>1. PICK a \in Used(t) : t.key[a] = i
    BY <1>8 DEF KeysIn
  <2>2. PICK z \in Used(h) : h.key[z] = i /\ t.val[a] = h.val[z]
    BY <1>13, <2>1
  <2>3. ihash_get(h, i) = z /\ z # UNDEF
    BY <1>1, <2>2, GetUsed
  <2>4. ihash_get(t, i) = a /\ a # UNDEF
    BY <1>7, <2>1, GetUsed
  <2> QED BY <1>8, <2>2, <2>3, <2>4 DEF icache_get, User
<1>21. SameUsers(c, d, KeysIn(d))
  BY <1>20 DEF SameUsers
<1>22. Drops(c, d, o[m])
  BY <1>3, <1>4, <1>8, <1>16, <1>21 DEF j, Drops
<1> QED BY <1>3, <1>19, <1>22

\* A miss without room: there is an entry to evict, and evicting it does not
\* bring the key in.
LEMMA FullListed ==
  ASSUME NEW c, NEW b, NEW s, NEW K, NEW V, NEW F, NEW o, NEW m, NEW f, NEW k,
         Listed(c, b, s, K, V, F, o, m, f, k), NEW j \in K, icache_get(c, j) = UNDEF,
         ~HasRoom(c, j)
  PROVE  /\ Used(c.hash) # {} /\ c.hash.chain_head = UNDEF
         /\ c.hash.key[Bucket(c.hash, j)] # UNDEF
         /\ icache_get(DropLru(c), j) = UNDEF
         /\ ~HasRoomAfterDrop(c, j) => HashTouch(DropLru(c), j) = DropLru(c)
<1> DEFINE h == c.hash
           d == DropLru(c)
           U == Data(b + s, V)
<1>1. IsTable(h, b, s, K, U, F)
  BY DEF Listed
<1>2. Touches(h, ihash_touch(h, j), Touched(h, j), j) /\ Touched(h, j) = UNDEF
  BY <1>1, TouchIs DEF HasRoom
<1>3. h.chain_head = UNDEF /\ h.key[Bucket(h, j)] # UNDEF
  BY <1>2 DEF Touches
<1>4. Bucket(h, j) \in Entries(h)
  <2>1. PICK own, pos : Laid(h, own, pos) /\ Keyed(h, own, K)
    BY <1>1 DEF IsTable
  <2> QED BY <2>1, NodeIsEntry DEF Laid, Keyed
<1>5. Used(h) # {}
  BY <1>3, <1>4 DEF Used
<1> HIDE DEF d, U
<1>6. /\ Listed(d, b, s, K, V, F, Most(o, m), m - 1, Cons(o[m], f, k), k + 1)
      /\ KeysIn(d) \subseteq KeysIn(c)
  <2>1. Drops(c, d, o[m])
    BY <1>5, DropListed DEF d
  <2>2. Listed(d, b, s, K, V, F, Most(o, m), m - 1, Cons(o[m], f, k), k + 1)
    BY <1>5, DropListed DEF d
  <2> QED BY <2>1, <2>2 DEF Drops
<1>7. IsTable(d.hash, b, s, K, U, F) /\ d = [hash |-> d.hash, list |-> d.list]
  BY <1>6 DEF Listed, U
<1>8. icache_get(d, j) = UNDEF
  <2>1. j \notin KeysIn(c)
    BY <1>1, KeysAre
  <2>2. j \notin KeysIn(d)
    BY <1>6, <2>1
  <2> QED BY <1>7, <2>2, KeysAre
<1>9. ASSUME ~HasRoomAfterDrop(c, j) PROVE HashTouch(d, j) = d
  <2>1. Touched(d.hash, j) = UNDEF
    BY <1>9 DEF HasRoomAfterDrop, HasRoom, d
  <2>2. Touches(d.hash, ihash_touch(d.hash, j), Touched(d.hash, j), j)
    BY <1>7, TouchIs
  <2>3. ihash_touch(d.hash, j) = d.hash
    BY <2>1, <2>2 DEF Touches
  <2> QED BY <1>7, <2>3 DEF HashTouch
<1> QED BY <1>3, <1>5, <1>8, <1>9 DEF d

\* d is c with the value v for the key j.
Sets(c, d, j, v, K) ==
  /\ d.list = c.list /\ KeysIn(d) = KeysIn(c)
  /\ User(d, j) = v /\ SameUsers(c, d, KeysIn(c) \ {j})
  /\ \A i \in K : icache_get(d, i) = icache_get(c, i)

\* The key is in the cache: its value is stored there.
LEMMA SetListed ==
  ASSUME NEW c, NEW b, NEW s, NEW K, NEW V, NEW F, NEW o, NEW m, NEW f, NEW k,
         Listed(c, b, s, K, V, F, o, m, f, k), NEW j \in K, icache_get(c, j) # UNDEF,
         NEW v \in V, NEW d, d = SetUser(c, j, v)
  PROVE  Listed(d, b, s, K, V, F, o, m, f, k) /\ Sets(c, d, j, v, K)
<1> DEFINE n == b + s
           h == c.hash
           e == ihash_get(h, j)
           w == [h.val EXCEPT ![e].user = v]
           U == Data(n, V)
<1>1. IsTable(h, b, s, K, U, F) /\ c = [hash |-> h, list |-> c.list]
  BY DEF Listed
<1>2. e \in Used(h) /\ h.key[e] = j /\ e \in Entries(h)
  BY <1>1, GetUsed DEF icache_get
<1>3. h.val \in [Entries(h) -> U] /\ "val" \in DOMAIN h
  <2>1. h.val \in [Entries(h) -> U]
    BY <1>1, TableIs
  <2>2. h \in HashType(b, s, K, U, F)
    BY <1>1 DEF IsTable
  <2>3. "val" \in DOMAIN h
    BY <2>2 DEF HashType
  <2> QED BY <2>1, <2>3
<1>4. /\ w \in [Entries(h) -> U] /\ w[e].user = v
      /\ \A x \in Entries(h) : w[x].idx = h.val[x].idx /\ (x # e => w[x] = h.val[x])
  <2>1. h.val[e] \in [user : V, idx : IdxOrUndef(n)]
    BY <1>2, <1>3 DEF Data
  <2>2. w = [h.val EXCEPT ![e] = [user |-> v, idx |-> h.val[e].idx]]
    BY <2>1
  <2> HIDE DEF w, e
  <2> QED BY <1>2, <1>3, <2>1, <2>2 DEF Data
<1>5. d = [hash |-> [h EXCEPT !.val = w], list |-> c.list]
  BY <1>1, <1>3 DEF SetUser, icache_get
<1> HIDE DEF w, U
<1>6. /\ IsTable(d.hash, b, s, K, U, F) /\ Entries(d.hash) = Entries(h)
      /\ d.hash.key = h.key /\ d.hash.val = w /\ d.list = c.list
  <2>1. d.hash = [h EXCEPT !.val = w] /\ d.list = c.list
    BY <1>5
  <2> QED BY <1>1, <1>4, <2>1, ValsStored
<1>7. Used(d.hash) = Used(h) /\ KeysIn(d) = KeysIn(c)
  BY <1>6 DEF Used, KeysIn
<1>8. \A x \in Used(h) : x \in Entries(h)
  BY DEF Used
<1>9. Held(d.hash) = Held(h)
  BY <1>4, <1>6, <1>7, <1>8 DEF Held
<1>10. Listed(d, b, s, K, V, F, o, m, f, k)
  <2>1. d = [hash |-> d.hash, list |-> d.list]
    BY <1>5
  <2>2. \A x \in Used(h) : d.list.user[d.hash.val[x].idx] = d.hash.key[x]
    BY <1>4, <1>6, <1>8 DEF Listed
  <2> QED BY <1>6, <1>7, <1>9, <2>1, <2>2 DEF Listed, U
<1>11. \A i \in K : icache_get(d, i) = icache_get(c, i)
  <2> TAKE i \in K
  <2>1. \A x \in Used(h) : ihash_get(h, h.key[x]) = x /\ ihash_get(d.hash, h.key[x]) = x
    BY <1>1, <1>6, <1>7, GetUsed
  <2>2. /\ ihash_get(h, i) # UNDEF => ihash_get(h, i) \in Used(h) /\ h.key[ihash_get(h, i)] = i
        /\ ihash_get(d.hash, i) # UNDEF =>
             ihash_get(d.hash, i) \in Used(h) /\ h.key[ihash_get(d.hash, i)] = i
    BY <1>1, <1>6, <1>7, GetUsed
  <2> QED BY <2>1, <2>2 DEF icache_get
<1>12. User(d, j) = v
  BY <1>4, <1>6, <1>11 DEF User, icache_get
<1>13. SameUsers(c, d, KeysIn(c) \ {j})
  <2> SUFFICES ASSUME NEW i \in KeysIn(c), i # j
               PROVE  icache_get(c, i) # UNDEF /\ icache_get(d, i) = icache_get(c, i)
                      /\ User(d, i) = User(c, i)
    BY DEF SameUsers
  <2>1. PICK x \in Used(h) : h.key[x] = i
    BY DEF KeysIn
  <2>2. i \in K /\ ihash_get(h, i) = x /\ x # UNDEF /\ x # e
    BY <1>1, <1>2, <2>1, GetUsed
  <2> QED BY <1>4, <1>6, <1>8, <1>11, <2>2 DEF icache_get, User
<1>14. Sets(c, d, j, v, K)
  BY <1>6, <1>7, <1>11, <1>12, <1>13 DEF Sets
<1> QED BY <1>10, <1>14

-----------------------------------------------------------------------------
(* The LRU cache.                                                          *)

LEMMA EnlistCache ==
  ASSUME NEW c, NEW b, NEW s, NEW K, NEW V, NEW F, IsCache(c, b, s, K, V, F), NEW j \in K,
         icache_get(c, j) = UNDEF, HasRoom(c, j)
  PROVE  IsCache(Enlist(HashTouch(c, j), j), b, s, K, V, F)
<1>1. PICK o, m, f, k : Listed(c, b, s, K, V, F, o, m, f, k)
  BY DEF IsCache
<1>2. Listed(Enlist(HashTouch(c, j), j), b, s, K, V, F,
             Cons(f[1], o, m), m + 1, Rest(f, k), k - 1)
  BY <1>1, EnlistListed
<1> QED BY <1>2 DEF IsCache

LEMMA TouchCache ==
  ASSUME NEW c, NEW b, NEW s, NEW K, NEW V, NEW F, IsCache(c, b, s, K, V, F), NEW j \in K
  PROVE  IsCache(icache_touch(c, j), b, s, K, V, F)
<1>1. PICK o, m, f, k : Listed(c, b, s, K, V, F, o, m, f, k)
  BY DEF IsCache
<1>2. CASE icache_get(c, j) # UNDEF
  <2>1. \E q : Listed(MakeRecent(c, j), b, s, K, V, F, ToFront(o, m, q), m, f, k)
    BY <1>1, <1>2, RecentListed
  <2> QED BY <1>2, <2>1 DEF icache_touch, IsCache
<1>3. CASE icache_get(c, j) = UNDEF /\ HasRoom(c, j)
  <2>1. icache_touch(c, j) = Enlist(HashTouch(c, j), j)
    BY <1>3 DEF icache_touch
  <2> QED BY <1>3, <2>1, EnlistCache
<1>4. CASE icache_get(c, j) = UNDEF /\ ~HasRoom(c, j)
  <2> DEFINE d == DropLru(c)
  <2>1. /\ Used(c.hash) # {} /\ icache_get(d, j) = UNDEF
        /\ ~HasRoomAfterDrop(c, j) => HashTouch(d, j) = d
    BY <1>1, <1>4, FullListed
  <2>2. IsCache(d, b, s, K, V, F)
    <3>1. Listed(d, b, s, K, V, F, Most(o, m), m - 1, Cons(o[m], f, k), k + 1)
      BY <1>1, <2>1, DropListed
    <3> QED BY <3>1 DEF IsCache
  <2>3. CASE HasRoomAfterDrop(c, j)
    <3>1. icache_touch(c, j) = Enlist(HashTouch(d, j), j) /\ HasRoom(d, j)
      BY <1>4, <2>3 DEF icache_touch, HasRoomAfterDrop
    <3> HIDE DEF d
    <3> QED BY <2>1, <2>2, <3>1, EnlistCache
  <2>4. CASE ~HasRoomAfterDrop(c, j)
    <3>1. icache_touch(c, j) = d
      BY <1>4, <2>1, <2>4 DEF icache_touch
    <3> QED BY <2>2, <3>1
  <2> QED BY <2>3, <2>4
<1> QED BY <1>2, <1>3, <1>4

LEMMA PutCache ==
  ASSUME NEW c, NEW b, NEW s, NEW K, NEW V, NEW F, IsCache(c, b, s, K, V, F), NEW j \in K,
         NEW v \in V
  PROVE  IsCache(icache_put(c, j, v), b, s, K, V, F)
<1> DEFINE t == icache_touch(c, j)
<1>1. IsCache(t, b, s, K, V, F)
  BY TouchCache
<1>2. icache_put(c, j, v) = IF icache_get(t, j) = UNDEF THEN t ELSE SetUser(t, j, v)
  BY DEF icache_put
<1> HIDE DEF t
<1>3. ASSUME icache_get(t, j) # UNDEF PROVE IsCache(SetUser(t, j, v), b, s, K, V, F)
  <2>1. PICK o, m, f, k : Listed(t, b, s, K, V, F, o, m, f, k)
    BY <1>1 DEF IsCache
  <2>2. Listed(SetUser(t, j, v), b, s, K, V, F, o, m, f, k)
    BY <1>3, <2>1, SetListed
  <2> QED BY <2>2 DEF IsCache
<1> QED BY <1>1, <1>2, <1>3

\* The inductive invariant: some chains witness that the cache is one.
CacheInv == IsCache(cache, BucketSz, ChainSz, Keys, Vals, KeyHashFns)

LEMMA CacheInvInit == CacheInit => CacheInv
<1> SUFFICES ASSUME NEW f \in KeyHashFns,
                    cache = icache_init(BucketSz, ChainSz, f, CHOOSE v \in Vals : TRUE,
                                        CHOOSE k \in Keys : TRUE)
             PROVE  CacheInv
  BY DEF CacheInit
<1>1. (CHOOSE v \in Vals : TRUE) \in Vals /\ (CHOOSE k \in Keys : TRUE) \in Keys
  BY CacheAssumption
<1> QED BY <1>1, CacheAssumption, NewListed DEF CacheInv, IsCache

LEMMA CacheInvNext == CacheInv /\ [CacheNext]_cache => CacheInv'
<1> SUFFICES ASSUME CacheInv, [CacheNext]_cache PROVE CacheInv'
  OBVIOUS
<1>1. ASSUME NEW f \in KeyHashFns, ClearCache(f) PROVE CacheInv'
  <2>1. Listed(icache_clear(cache, f), BucketSz, ChainSz, Keys, Vals, KeyHashFns,
               [i \in 1 .. 0 |-> 0], 0, [i \in 1 .. BucketSz + ChainSz |-> i - 1],
               BucketSz + ChainSz)
    BY CacheAssumption, ClearListed DEF CacheInv
  <2> QED BY <1>1, <2>1 DEF CacheInv, ClearCache, IsCache
<1>2. ASSUME NEW k \in Keys, TouchKey(k) PROVE CacheInv'
  BY <1>2, TouchCache DEF CacheInv, TouchKey
<1>3. ASSUME NEW k \in Keys, NEW v \in Vals, PutUser(k, v) PROVE CacheInv'
  BY <1>3, PutCache DEF CacheInv, PutUser
<1>4. CASE UNCHANGED cache
  BY <1>4 DEF CacheInv
<1> QED BY <1>1, <1>2, <1>3, <1>4 DEF CacheNext

\* After any calls of icache.c table and list describe the same entries; the
\* asserts of icache_touch_fn hold.
THEOREM CacheKeepsSound == CacheSpec => []LruSound
<1>1. CacheInv => LruSound
  BY CacheIsSound DEF CacheInv, LruSound, CacheTypeOK
<1> QED BY CacheInvInit, CacheInvNext, <1>1, PTL DEF CacheSpec

-----------------------------------------------------------------------------
(* The LRU cache as a map with a recency order.                            *)

Pairs(K, V) == [key : K, val : V]
PairOf(c, j) == [key |-> j, val |-> User(c, j)]

\* What a cache with the order o of m nodes keeps, the most recent first.
Read(c, o, m) == [i \in 1 .. m |-> PairOf(c, c.list.user[o[i]])]

LEMMA KeptIs ==
  ASSUME NEW c, NEW b, NEW s, NEW K, NEW V, NEW F, NEW o, NEW m, NEW f, NEW k,
         Listed(c, b, s, K, V, F, o, m, f, k)
  PROVE  Kept(c) = Read(c, o, m)
<1>1. b + s \in Nat
  BY CacheParts
<1>2. OrderOf(c.list) = o
  BY <1>1, WalkMeets DEF Listed
<1>3. DOMAIN o = 1 .. m
  BY DEF Listed, Rep, Chain
<1>4. Recency(c) = [i \in 1 .. m |-> c.list.user[o[i]]]
  BY <1>2, <1>3 DEF Recency
<1> QED BY <1>4 DEF Kept, Read, PairOf

\* The keys of the nodes are those of the cache, no key occurring twice.
LEMMA ReadIs ==
  ASSUME NEW c, NEW b, NEW s, NEW K, NEW V, NEW F, NEW o, NEW m, NEW f, NEW k,
         Listed(c, b, s, K, V, F, o, m, f, k)
  PROVE  /\ m \in Nat /\ Read(c, o, m) \in [1 .. m -> Pairs(K, V)]
         /\ \A i \in 1 .. m : o[i] \in Idx(b + s) /\ c.list.user[o[i]] \in KeysIn(c)
         /\ \A i, j \in 1 .. m : c.list.user[o[i]] = c.list.user[o[j]] => i = j
         /\ \A j \in K : icache_get(c, j) # UNDEF =>
              \E i \in 1 .. m : c.list.user[o[i]] = j
<1> DEFINE h == c.hash
           u == c.list.user
<1>1. IsTable(h, b, s, K, Data(b + s, V), F)
  BY DEF Listed
<1>2. /\ h.val \in [Idx(b + s) -> Data(b + s, V)] /\ Entries(h) = Idx(b + s)
      /\ \A e \in Used(h) : h.val[e].idx \in Nodes(o, m)
  BY CacheParts
<1>3. m \in Nat /\ \A i \in 1 .. m : o[i] \in Idx(b + s) /\ o[i] \in Nodes(o, m)
  BY DEF Listed, Rep, Chain, Nodes
<1>4. \A i, j \in 1 .. m : o[i] = o[j] => i = j
  BY DEF Listed, Rep, Chain
<1>5. /\ \A e \in Used(h) : /\ e \in Entries(h) /\ h.key[e] \in K
                            /\ ihash_get(h, h.key[e]) = e
      /\ \A j \in K : ihash_get(h, j) # UNDEF =>
           ihash_get(h, j) \in Used(h) /\ h.key[ihash_get(h, j)] = j
  BY <1>1, GetUsed
<1>6. \A e \in Used(h) : u[h.val[e].idx] = h.key[e]
  BY DEF Listed
<1>7. \A i \in 1 .. m : \E e \in Used(h) : h.val[e].idx = o[i] /\ u[o[i]] = h.key[e]
  BY <1>3, <1>6 DEF Listed, Held
<1>8. \A i \in 1 .. m : u[o[i]] \in KeysIn(c)
  BY <1>7 DEF KeysIn
<1>9. \A i, j \in 1 .. m : u[o[i]] = u[o[j]] => i = j
  <2> TAKE i, j \in 1 .. m
  <2> HAVE u[o[i]] = u[o[j]]
  <2>1. PICK d \in Used(h) : h.val[d].idx = o[i] /\ u[o[i]] = h.key[d]
    BY <1>7
  <2>2. PICK e \in Used(h) : h.val[e].idx = o[j] /\ u[o[j]] = h.key[e]
    BY <1>7
  <2>3. d = e
    BY <1>5, <2>1, <2>2
  <2> QED BY <1>4, <2>1, <2>2, <2>3
<1>10. \A j \in K : icache_get(c, j) # UNDEF => \E i \in 1 .. m : u[o[i]] = j
  <2> SUFFICES ASSUME NEW j \in K, ihash_get(h, j) # UNDEF
               PROVE  \E i \in 1 .. m : u[o[i]] = j
    BY DEF icache_get
  <2>1. ihash_get(h, j) \in Used(h) /\ h.key[ihash_get(h, j)] = j
    BY <1>5
  <2>2. PICK i \in 1 .. m : o[i] = h.val[ihash_get(h, j)].idx
    BY <1>2, <2>1 DEF Nodes
  <2> QED BY <1>6, <2>1, <2>2
<1>11. \A i \in 1 .. m : PairOf(c, u[o[i]]) \in Pairs(K, V)
  <2> TAKE i \in 1 .. m
  <2>1. PICK e \in Used(h) : u[o[i]] = h.key[e]
    BY <1>7
  <2>2. User(c, u[o[i]]) = h.val[e].user
    BY <1>5, <2>1 DEF User, icache_get
  <2>3. h.val[e].user \in V
    BY <1>2, <1>5 DEF Data
  <2> QED BY <1>5, <2>1, <2>2, <2>3 DEF PairOf, Pairs
<1> QED BY <1>3, <1>8, <1>9, <1>10, <1>11 DEF Read

\* What the steps of a call do to it.
LEMMA ReadRecent ==
  ASSUME NEW c, NEW d, d.hash = c.hash, d.list.user = c.list.user,
         NEW o, NEW m \in Nat, NEW q \in 1 .. m
  PROVE  Read(d, ToFront(o, m, q), m) = ToFront(Read(c, o, m), m, q)
<1>1. \A j : PairOf(d, j) = PairOf(c, j)
  BY DEF PairOf, User, icache_get
<1>2. \A i \in 1 .. m : i <= q /\ i # 1 => i - 1 \in 1 .. m
  OBVIOUS
<1> QED BY <1>1, <1>2 DEF Read, ToFront

LEMMA ReadMore ==
  ASSUME NEW c, NEW b, NEW s, NEW K, NEW V, NEW F, NEW o, NEW m, NEW f, NEW k,
         Listed(c, b, s, K, V, F, o, m, f, k), NEW d, NEW j, NEW x,
         Enlists(c, d, j, x, b + s), x \notin Nodes(o, m)
  PROVE  Read(d, Cons(x, o, m), m + 1) = Cons(PairOf(d, j), Read(c, o, m), m)
<1>1. /\ m \in Nat /\ \A i \in 1 .. m : o[i] \in Idx(b + s) /\ c.list.user[o[i]] \in KeysIn(c)
  BY ReadIs
<1>2. c.list.user \in [Idx(b + s) -> K] /\ x \in Idx(b + s)
  BY CacheParts DEF Enlists
<1>3. d.list.user[x] = j /\ \A i \in 1 .. m : d.list.user[o[i]] = c.list.user[o[i]]
  BY <1>1, <1>2 DEF Enlists, Nodes
<1>4. \A i \in 1 .. m : PairOf(d, c.list.user[o[i]]) = PairOf(c, c.list.user[o[i]])
  BY <1>1 DEF Enlists, SameUsers, PairOf
<1>5. \A i \in 1 .. m + 1 : i # 1 => i - 1 \in 1 .. m
  BY <1>1
<1> QED BY <1>3, <1>4, <1>5 DEF Read, Cons

LEMMA ReadLess ==
  ASSUME NEW c, NEW b, NEW s, NEW K, NEW V, NEW F, NEW o, NEW m, NEW f, NEW k,
         Listed(c, b, s, K, V, F, o, m, f, k), NEW d, m > 0, Drops(c, d, o[m])
  PROVE  Read(d, Most(o, m), m - 1) = Most(Read(c, o, m), m)
<1>1. /\ m \in Nat /\ \A i \in 1 .. m : c.list.user[o[i]] \in KeysIn(c)
      /\ \A i, j \in 1 .. m : c.list.user[o[i]] = c.list.user[o[j]] => i = j
  BY ReadIs
<1>2. \A i \in 1 .. m - 1 : i \in 1 .. m /\ m \in 1 .. m /\ i # m
  BY <1>1
<1>3. \A i \in 1 .. m - 1 : c.list.user[o[i]] \in KeysIn(d)
  BY <1>1, <1>2 DEF Drops
<1>4. \A i \in 1 .. m - 1 : PairOf(d, c.list.user[o[i]]) = PairOf(c, c.list.user[o[i]])
  BY <1>3 DEF Drops, SameUsers, PairOf
<1> QED BY <1>2, <1>4 DEF Read, Most, Drops

LEMMA ReadSet ==
  ASSUME NEW c, NEW b, NEW s, NEW K, NEW V, NEW F, NEW o, NEW m, NEW f, NEW k,
         Listed(c, b, s, K, V, F, o, m, f, k), NEW d, NEW j, NEW v, Sets(c, d, j, v, K),
         m > 0, NEW r, Read(c, o, m) = Cons(PairOf(c, j), r, m - 1)
  PROVE  Read(d, o, m) = Cons([key |-> j, val |-> v], r, m - 1)
<1>1. /\ m \in Nat /\ \A i \in 1 .. m : c.list.user[o[i]] \in KeysIn(c)
      /\ \A i, p \in 1 .. m : c.list.user[o[i]] = c.list.user[o[p]] => i = p
  BY ReadIs
<1>2. \A i \in 1 .. m : PairOf(c, c.list.user[o[i]])
                          = IF i = 1 THEN PairOf(c, j) ELSE r[i - 1]
  BY <1>1 DEF Read, Cons
<1>3. c.list.user[o[1]] = j
  <2>1. PairOf(c, c.list.user[o[1]]) = PairOf(c, j)
    BY <1>1, <1>2
  <2>2. \A i, p : PairOf(c, i) = PairOf(c, p) => i = p
    BY DEF PairOf
  <2> QED BY <2>1, <2>2
<1>4. \A i \in 1 .. m : i # 1 => c.list.user[o[i]] \in KeysIn(c) \ {j}
  BY <1>1, <1>3
<1>5. \A i \in 1 .. m : i # 1 => PairOf(d, c.list.user[o[i]]) = r[i - 1]
  BY <1>2, <1>4 DEF Sets, SameUsers, PairOf
<1>6. PairOf(d, j) = [key |-> j, val |-> v]
  BY DEF PairOf, Sets
<1>7. d.list.user = c.list.user /\ m - 1 + 1 = m
  BY <1>1 DEF Sets
<1> QED BY <1>1, <1>3, <1>5, <1>6, <1>7 DEF Read, Cons

-----------------------------------------------------------------------------
\* When a key finds no room, overflow nodes and its bucket hold other keys.
LEMMA ManyKept ==
  ASSUME NEW c, NEW b, NEW s, NEW K, NEW V, NEW F, NEW o, NEW m, NEW f, NEW k,
         Listed(c, b, s, K, V, F, o, m, f, k), NEW j \in K, icache_get(c, j) = UNDEF,
         ~HasRoom(c, j)
  PROVE  m >= s + 1
<1> DEFINE h == c.hash
           O == Entries(h) \ Buckets(h)
           a == Bucket(h, j)
           T == O \cup {a}
<1>1. h.chain_head = UNDEF /\ h.key[a] # UNDEF /\ m \in Nat
  BY FullListed, ReadIs
<1>2. PICK own, pos : Laid(h, own, pos) /\ Keyed(h, own, K)
  BY DEF Listed, IsTable
<1>3. /\ O \subseteq Used(h) /\ IsFiniteSet(O) /\ Cardinality(O) = s
  <2>1. h.chainsz = s
    BY TableIs DEF Listed
  <2> QED BY <1>1, <1>2, <2>1, FreeNodes
<1>4. a \in Used(h) \cap Buckets(h)
  BY <1>1, <1>2, NodeIsEntry DEF Keyed, Laid, Used
<1> HIDE DEF O, a
<1>5. T \subseteq Used(h) /\ IsFiniteSet(T) /\ Cardinality(T) = s + 1
  <2>1. a \notin O
    BY <1>4 DEF O
  <2> QED BY <1>3, <1>4, <2>1, FS_AddElement
<1> HIDE DEF T
<1> DEFINE g == [e \in T |-> CHOOSE i \in 1 .. m : o[i] = h.val[e].idx]
<1>6. \A e \in T : g[e] \in 1 .. m /\ o[g[e]] = h.val[e].idx
  <2> TAKE e \in T
  <2>1. \E i \in 1 .. m : o[i] = h.val[e].idx
    <3>1. h.val[e].idx \in Nodes(o, m)
      BY <1>5, CacheParts
    <3> QED BY <3>1 DEF Nodes
  <2> QED BY <2>1
<1>7. g \in [T -> 1 .. m]
  BY <1>6
<1> HIDE DEF g
<1>8. ASSUME ~ m >= s + 1 PROVE FALSE
  <2>1. IsFiniteSet(1 .. m) /\ Cardinality(1 .. m) = m
    BY <1>1, FS_Interval
  <2>2. s \in Nat /\ Cardinality(1 .. m) < Cardinality(T)
    BY <1>1, <1>5, <1>8, <2>1, CacheParts
  <2>3. \E x, y \in T : x # y /\ g[x] = g[y]
    BY ONLY <1>5, <1>7, <2>1, <2>2, FS_PigeonHole
  <2> QED BY <1>5, <1>6, <2>3, CacheParts
<1> QED BY <1>8

\* Only the erasure of a bucket without a chain frees no overflow node.
LEMMA ErasedAlone ==
  ASSUME NEW b, NEW s, NEW K, NEW V, NEW F, NEW h, IsTable(h, b, s, K, V, F), NEW j \in K,
         ihash_get(h, j) # UNDEF, ihash_erase(h, j).chain_head = UNDEF
  PROVE  ihash_get(h, j) \in Buckets(h) /\ h.next[ihash_get(h, j)] = UNDEF
<1> DEFINE e == ihash_get(h, j)
           t == ihash_erase(h, j)
<1>1. h \in HashType(b, s, K, V, F) /\ e \in Entries(h) /\ b \in Nat \ {0} /\ s \in Nat
  BY GetUsed DEF IsTable
<1>2. \A g, x : "chain_head" \in DOMAIN g => Release(g, x).chain_head = x
  BY DEF Release
<1>4. CASE e \notin Buckets(h)
  <2> DEFINE x == e - h.bucketsz
             g == [h EXCEPT !.next[CHOOSE p \in OnPath(h, Bucket(h, h.key[e])) : h.next[p] = x]
                              = h.next[e]]
  <2>0. t = Release(g, x)
    BY <1>4 DEF ihash_erase, EraseNode
  <2>1. t.chain_head = x
    <3>1. "chain_head" \in DOMAIN g
      BY <1>1 DEF HashType
    <3> HIDE DEF g, t
    <3> QED BY <1>2, <2>0, <3>1
  <2>2. e \in 0 .. b + s - 1 /\ ~ e \in 0 .. b - 1 /\ h.bucketsz = b
    BY <1>1, <1>4, TableIs DEF Buckets
  <2>3. x # UNDEF
    <3> HIDE DEF e
    <3> QED BY <1>1, <2>2 DEF UNDEF
  <2> QED BY <2>1, <2>3
<1>5. CASE e \in Buckets(h) /\ h.next[e] # UNDEF
  <2> DEFINE y == Node(h, h.next[e])
             g == [h EXCEPT !.key[e] = h.key[y], !.next[e] = h.next[y], !.val[e] = h.val[y]]
  <2>0. t = Release(g, h.next[e])
    BY <1>5 DEF ihash_erase, EraseBucket
  <2>1. t.chain_head = h.next[e]
    <3>1. "chain_head" \in DOMAIN g
      BY <1>1 DEF HashType
    <3> HIDE DEF g, t
    <3> QED BY <1>2, <2>0, <3>1
  <2> QED BY <1>5, <2>1
<1> QED BY <1>4, <1>5

-----------------------------------------------------------------------------
\* t has the key j in front, and behind it the n entries r.
Fronts(t, j, r, n, b, s, K, V, F) ==
  /\ icache_get(t, j) # UNDEF /\ n \in Nat /\ r \in [1 .. n -> Pairs(K, V)]
  /\ \E o, f, k : /\ Listed(t, b, s, K, V, F, o, n + 1, f, k)
                  /\ Read(t, o, n + 1) = Cons(PairOf(t, j), r, n)

\* r is what a call for the key j leaves of the m entries of c: all others, all
\* as there is a free node, or all but the least recent.
Leaves(c, j, r, m, b, s) ==
  \/ \E q \in 1 .. m : Kept(c)[q].key = j /\ r = But(Kept(c), m, q)
  \/ icache_get(c, j) = UNDEF /\ m < b + s /\ r = Kept(c)
  \/ icache_get(c, j) = UNDEF /\ m >= s + 1 /\ r = Most(Kept(c), m)

\* The key j has no room in t either, the cache without the least recent entry
\* of c, which was alone in its bucket.
Refuses(c, t, j, m, s) ==
  /\ icache_get(c, j) = UNDEF /\ icache_get(t, j) = UNDEF
  /\ m >= s + 1 /\ Kept(t) = Most(Kept(c), m)
  /\ c.hash.chain_head = UNDEF /\ icache_get(c, LruKey(c)) \in Buckets(c.hash)
  /\ c.hash.next[icache_get(c, LruKey(c))] = UNDEF

LEMMA EnlistShows ==
  ASSUME NEW c, NEW b, NEW s, NEW K, NEW V, NEW F, NEW o, NEW m, NEW f, NEW k,
         Listed(c, b, s, K, V, F, o, m, f, k), NEW j \in K, icache_get(c, j) = UNDEF,
         HasRoom(c, j), NEW d, d = Enlist(HashTouch(c, j), j)
  PROVE  Fronts(d, j, Kept(c), m, b, s, K, V, F) /\ m < b + s
<1>1. /\ k > 0 /\ f[1] \notin Nodes(o, m) /\ Enlists(c, d, j, f[1], b + s)
      /\ Listed(d, b, s, K, V, F, Cons(f[1], o, m), m + 1, Rest(f, k), k - 1)
  BY ONLY EnlistListed, Listed(c, b, s, K, V, F, o, m, f, k), j \in K, icache_get(c, j) = UNDEF,
          HasRoom(c, j), d = Enlist(HashTouch(c, j), j)
<1>2. Kept(c) = Read(c, o, m) /\ Read(c, o, m) \in [1 .. m -> Pairs(K, V)] /\ m \in Nat
  BY KeptIs, ReadIs
<1>3. Read(d, Cons(f[1], o, m), m + 1) = Cons(PairOf(d, j), Kept(c), m)
  BY <1>1, <1>2, ReadMore
<1>4. icache_get(d, j) # UNDEF
  <2>1. IsTable(d.hash, b, s, K, Data(b + s, V), F)
    BY <1>1 DEF Listed
  <2> QED BY <1>1, <2>1, KeysAre DEF Enlists
<1>5. m < b + s
  <2>1. b + s \in Nat
    BY CacheParts
  <2>2. RepFacts(c.list, b + s, o, m, f, k)
    BY <2>1, RepNodes DEF Listed
  <2> QED BY <1>1, <2>1, <2>2 DEF RepFacts
<1> QED BY <1>1, <1>2, <1>3, <1>4, <1>5 DEF Fronts

LEMMA HitShows ==
  ASSUME NEW c, NEW b, NEW s, NEW K, NEW V, NEW F, NEW o, NEW m, NEW f, NEW k,
         Listed(c, b, s, K, V, F, o, m, f, k), NEW j \in K, icache_get(c, j) # UNDEF,
         NEW d, d = MakeRecent(c, j)
  PROVE  /\ \E r : Fronts(d, j, r, m - 1, b, s, K, V, F) /\ Leaves(c, j, r, m, b, s)
         /\ User(d, j) = User(c, j)
<1>1. PICK q \in 1 .. m :
        /\ c.list.user[o[q]] = j /\ Listed(d, b, s, K, V, F, ToFront(o, m, q), m, f, k)
        /\ d.hash = c.hash /\ d.list.user = c.list.user
  BY RecentListed
<1>2. /\ Kept(c) = Read(c, o, m) /\ m \in Nat /\ m - 1 \in Nat /\ m - 1 + 1 = m
      /\ Read(c, o, m) \in [1 .. m -> Pairs(K, V)]
  BY KeptIs, ReadIs
<1>3. User(d, j) = User(c, j) /\ icache_get(d, j) # UNDEF
  BY <1>1 DEF User, icache_get
<1> DEFINE r == But(Kept(c), m, q)
<1>4. r \in [1 .. m - 1 -> Pairs(K, V)]
  BY <1>2, ButSkips
<1>5. Kept(c)[q] = PairOf(d, j) /\ Kept(c)[q].key = j
  BY <1>1, <1>2, <1>3 DEF Read, PairOf
<1>6. Read(d, ToFront(o, m, q), m) = ToFront(Kept(c), m, q)
  <2>1. Read(d, ToFront(o, m, q), m) = ToFront(Read(c, o, m), m, q)
    BY ONLY <1>1, <1>2, ReadRecent
  <2> QED BY <1>2, <2>1
<1>7. ToFront(Kept(c), m, q) = Cons(Kept(c)[q], r, m - 1)
  BY <1>2 DEF ToFront, Cons, But
<1> HIDE DEF r
<1>8. Fronts(d, j, r, m - 1, b, s, K, V, F)
  BY <1>1, <1>2, <1>3, <1>4, <1>5, <1>6, <1>7 DEF Fronts
<1>9. Leaves(c, j, r, m, b, s)
  BY <1>5 DEF Leaves, r
<1> QED BY <1>3, <1>8, <1>9

LEMMA MissShows ==
  ASSUME NEW c, NEW b, NEW s, NEW K, NEW V, NEW F, NEW o, NEW m, NEW f, NEW k,
         Listed(c, b, s, K, V, F, o, m, f, k), NEW j \in K, icache_get(c, j) = UNDEF,
         ~HasRoom(c, j), NEW t, t = icache_touch(c, j)
  PROVE  \/ \E r : Fronts(t, j, r, m - 1, b, s, K, V, F) /\ Leaves(c, j, r, m, b, s)
         \/ Refuses(c, t, j, m, s)
<1> DEFINE d == DropLru(c)
<1>1. /\ Used(c.hash) # {} /\ c.hash.chain_head = UNDEF /\ icache_get(d, j) = UNDEF
      /\ ~HasRoomAfterDrop(c, j) => HashTouch(d, j) = d
  BY FullListed
<1>2. m >= s + 1
  BY ManyKept
<1> HIDE DEF d
<1>3. /\ m > 0 /\ Listed(d, b, s, K, V, F, Most(o, m), m - 1, Cons(o[m], f, k), k + 1)
      /\ Drops(c, d, o[m])
  BY <1>1, DropListed DEF d
<1>4. Kept(d) = Most(Kept(c), m)
  BY <1>3, KeptIs, ReadLess
<1>5. CASE HasRoomAfterDrop(c, j)
  <2>1. t = Enlist(HashTouch(d, j), j) /\ HasRoom(d, j)
    BY <1>5 DEF icache_touch, HasRoomAfterDrop, d
  <2>2. Fronts(t, j, Kept(d), m - 1, b, s, K, V, F)
    BY <1>1, <1>3, <2>1, EnlistShows
  <2> QED BY <1>2, <1>4, <2>2 DEF Leaves
<1>6. CASE ~HasRoomAfterDrop(c, j)
  <2>1. t = d
    BY <1>1, <1>6 DEF icache_touch, d
  <2>2. d.hash.chain_head = UNDEF
    <3>1. Touched(d.hash, j) = UNDEF
      BY <1>6 DEF HasRoomAfterDrop, HasRoom, d
    <3>2. Touches(d.hash, ihash_touch(d.hash, j), Touched(d.hash, j), j)
      BY <1>3, TouchIs DEF Listed
    <3> QED BY <3>1, <3>2 DEF Touches
  <2>3. ihash_erase(c.hash, LruKey(c)).chain_head = UNDEF
    BY <2>2 DEF d, DropLru
  <2>4. LruKey(c) \in K /\ ihash_get(c.hash, LruKey(c)) # UNDEF
    <3>1. IsTable(c.hash, b, s, K, Data(b + s, V), F)
      BY DEF Listed
    <3> QED BY <1>3, <3>1, KeysAre DEF Drops, icache_get
  <2>5. /\ icache_get(c, LruKey(c)) \in Buckets(c.hash)
        /\ c.hash.next[icache_get(c, LruKey(c))] = UNDEF
    BY <2>3, <2>4, ErasedAlone DEF Listed, icache_get
  <2> QED BY <1>1, <1>2, <1>4, <2>1, <2>5 DEF Refuses
<1> QED BY <1>5, <1>6

\* A touch, by what it does to the entries.
Shows(c, t, j, m, b, s, K, V, F) ==
  \/ /\ \E r, n : Fronts(t, j, r, n, b, s, K, V, F) /\ Leaves(c, j, r, m, b, s)
     /\ icache_get(c, j) # UNDEF => User(t, j) = User(c, j)
  \/ Refuses(c, t, j, m, s)

LEMMA TouchShows ==
  ASSUME NEW c, NEW b, NEW s, NEW K, NEW V, NEW F, NEW o, NEW m, NEW f, NEW k,
         Listed(c, b, s, K, V, F, o, m, f, k), NEW j \in K, NEW t, t = icache_touch(c, j)
  PROVE  Shows(c, t, j, m, b, s, K, V, F)
<1>1. CASE icache_get(c, j) # UNDEF
  <2>1. t = MakeRecent(c, j)
    BY <1>1 DEF icache_touch
  <2> QED BY <1>1, <2>1, HitShows DEF Shows
<1>2. CASE icache_get(c, j) = UNDEF /\ HasRoom(c, j)
  <2>1. t = Enlist(HashTouch(c, j), j)
    BY <1>2 DEF icache_touch
  <2>2. Fronts(t, j, Kept(c), m, b, s, K, V, F) /\ m < b + s
    BY <1>2, <2>1, EnlistShows
  <2>3. Leaves(c, j, Kept(c), m, b, s)
    BY <1>2, <2>2 DEF Leaves
  <2> QED BY <1>2, <2>2, <2>3 DEF Shows
<1>3. CASE icache_get(c, j) = UNDEF /\ ~HasRoom(c, j)
  BY <1>3, MissShows DEF Shows
<1> QED BY <1>1, <1>2, <1>3

\* A put stores the value in the entry the touch put in front.
LEMMA SetShows ==
  ASSUME NEW t, NEW b, NEW s, NEW K, NEW V, NEW F, NEW j \in K, NEW r, NEW n,
         Fronts(t, j, r, n, b, s, K, V, F), NEW v \in V, NEW d, d = SetUser(t, j, v)
  PROVE  icache_get(d, j) # UNDEF /\ Kept(d) = Cons([key |-> j, val |-> v], r, n)
<1>1. PICK o, f, k : /\ Listed(t, b, s, K, V, F, o, n + 1, f, k)
                     /\ Read(t, o, n + 1) = Cons(PairOf(t, j), r, n)
  BY DEF Fronts
<1>2. icache_get(t, j) # UNDEF /\ n \in Nat /\ n + 1 > 0 /\ n + 1 - 1 = n
  BY DEF Fronts
<1>3. Listed(d, b, s, K, V, F, o, n + 1, f, k) /\ Sets(t, d, j, v, K)
  BY <1>1, <1>2, SetListed
<1>4. Read(d, o, n + 1) = Cons([key |-> j, val |-> v], r, n)
  BY <1>1, <1>2, <1>3, ReadSet
<1> QED BY <1>2, <1>3, <1>4, KeptIs DEF Sets

-----------------------------------------------------------------------------
(* The calls as operations of the map.                                     *)

LEMMA PrimedKept == Kept(cache)' = Kept(cache')
BY DEF Kept

\* What a call that puts the entry of k and v in front is.
LEMMA FrontIsPut ==
  ASSUME CacheInv, NEW k \in Keys, NEW v \in Vals, NEW m, NEW o, NEW f, NEW l,
         Listed(cache, BucketSz, ChainSz, Keys, Vals, KeyHashFns, o, m, f, l),
         NEW r, NEW n \in Nat, r \in [1 .. n -> Pairs(Keys, Vals)],
         Leaves(cache, k, r, m, BucketSz, ChainSz),
         Kept(cache') = Cons([key |-> k, val |-> v], r, n)
  PROVE  /\ C!Put(k, v)
         /\ C!Present(k) => C!Renew(k, v) /\ C!ValOf(k) = User(cache, k)
         /\ C!Present(k) <=> icache_get(cache, k) # UNDEF
<1> DEFINE e == Kept(cache)
           x == [key |-> k, val |-> v]
<1>1. /\ e = Read(cache, o, m) /\ m \in Nat /\ e \in [1 .. m -> Pairs(Keys, Vals)]
      /\ \A i \in 1 .. m : cache.list.user[o[i]] \in KeysIn(cache)
      /\ \A i, j \in 1 .. m : cache.list.user[o[i]] = cache.list.user[o[j]] => i = j
      /\ \A j \in Keys : icache_get(cache, j) # UNDEF =>
           \E i \in 1 .. m : cache.list.user[o[i]] = j
  BY KeptIs, ReadIs
<1>2. \A i \in 1 .. m : e[i] = PairOf(cache, cache.list.user[o[i]])
  BY <1>1 DEF Read
<1>3. \A i, j \in 1 .. m : e[i].key = e[j].key => i = j
  BY <1>1, <1>2 DEF PairOf
<1>4. (\E i \in 1 .. m : e[i].key = k) <=> icache_get(cache, k) # UNDEF
  <2>1. IsTable(cache.hash, BucketSz, ChainSz, Keys, Data(BucketSz + ChainSz, Vals), KeyHashFns)
    BY DEF Listed
  <2>2. k \in KeysIn(cache) <=> icache_get(cache, k) # UNDEF
    BY <2>1, KeysAre
  <2> QED BY <1>1, <1>2, <2>2 DEF PairOf
<1>5. DOMAIN e = 1 .. m /\ Len(e) = m
  BY <1>1, IsASeq, LenProperties
<1>6. C!Present(k) <=> icache_get(cache, k) # UNDEF
  BY <1>4, <1>5 DEF C!Present
<1>7. Kept(cache)' = <<x>> \o r
  <2>1. x \in Pairs(Keys, Vals)
    BY DEF Pairs
  <2>2. Cons(x, r, n) = <<x>> \o r
    BY ONLY <2>1, n \in Nat, r \in [1 .. n -> Pairs(Keys, Vals)], ConsPrepends
  <2> QED BY <2>2, PrimedKept
<1> HIDE DEF e, x
<1>8. ASSUME NEW q \in 1 .. m, e[q].key = k, r = But(e, m, q)
      PROVE  C!Renew(k, v) /\ C!ValOf(k) = User(cache, k)
  <2>1. C!PlaceOf(k) = q
    BY <1>3, <1>5, <1>8 DEF C!PlaceOf, e
  <2>2. C!Others(k) = r
    <3>1. But(e, m, q) = SubSeq(e, 1, q - 1) \o SubSeq(e, q + 1, m)
      <4>1. m \in Nat /\ e \in [1 .. m -> Pairs(Keys, Vals)]
        BY <1>1
      <4> QED BY ONLY <4>1, q \in 1 .. m, ButSkips
    <3> QED BY <1>5, <1>8, <2>1, <3>1 DEF C!Others, e
  <2>3. C!Present(k)
    BY <1>5, <1>8 DEF C!Present, e
  <2>4. C!Renew(k, v)
    BY <1>7, <2>2, <2>3 DEF C!Renew, C!Entry, x
  <2>5. C!ValOf(k) = User(cache, k)
    <3>1. C!ValOf(k) = e[q].val
      BY <2>1 DEF C!ValOf, e
    <3>2. e[q] = PairOf(cache, cache.list.user[o[q]])
      BY <1>2
    <3>3. e[q].key = cache.list.user[o[q]] /\ e[q].val = User(cache, cache.list.user[o[q]])
      BY <3>2 DEF PairOf
    <3> QED BY <1>8, <3>1, <3>3
  <2> QED BY <2>4, <2>5
<1>9. CASE \E q \in 1 .. m : e[q].key = k /\ r = But(e, m, q)
  BY <1>6, <1>8, <1>9 DEF C!Put
<1>10. CASE icache_get(cache, k) = UNDEF /\ m < BucketSz + ChainSz /\ r = e
  <2>1. C!Add(k, v)
    BY <1>5, <1>6, <1>7, <1>10 DEF C!Add, C!Entry, x, e
  <2> QED BY <1>6, <1>10, <2>1 DEF C!Put
<1>11. CASE icache_get(cache, k) = UNDEF /\ m >= ChainSz + 1 /\ r = Most(e, m)
  <2>1. C!AllButLast = r
    <3>1. ChainSz \in Nat /\ m > 0
      BY <1>1, <1>11, CacheAssumption
    <3>2. Most(e, m) = SubSeq(e, 1, m - 1)
      BY <1>1, <3>1, MostCuts
    <3> QED BY <1>5, <1>11, <3>2 DEF C!AllButLast, e
  <2>2. C!Replace(k, v)
    BY <1>5, <1>6, <1>7, <1>11, <2>1 DEF C!Replace, C!Entry, x, e
  <2> QED BY <1>6, <1>11, <2>2 DEF C!Put
<1> QED BY <1>9, <1>10, <1>11, <1>6 DEF Leaves, e

LEMMA RefusedIsLose ==
  ASSUME CacheInv, NEW k \in Keys, NEW m, NEW o, NEW f, NEW l,
         Listed(cache, BucketSz, ChainSz, Keys, Vals, KeyHashFns, o, m, f, l),
         Refuses(cache, cache', k, m, ChainSz)
  PROVE  C!Lose(k) /\ RefusedOnlyIf(k) /\ C!Present(k) = FALSE
<1> DEFINE e == Kept(cache)
<1>1. /\ e = Read(cache, o, m) /\ m \in Nat /\ e \in [1 .. m -> Pairs(Keys, Vals)]
      /\ \A i \in 1 .. m : cache.list.user[o[i]] \in KeysIn(cache)
  BY KeptIs, ReadIs
<1>2. DOMAIN e = 1 .. m /\ Len(e) = m
  BY <1>1, IsASeq, LenProperties
<1>3. ~C!Present(k)
  <2>1. IsTable(cache.hash, BucketSz, ChainSz, Keys, Data(BucketSz + ChainSz, Vals), KeyHashFns)
    BY DEF Listed
  <2>2. k \notin KeysIn(cache)
    BY <2>1, KeysAre DEF Refuses
  <2>3. \A i \in 1 .. m : e[i].key # k
    BY <1>1, <2>2 DEF Read, PairOf
  <2> QED BY <1>2, <2>3 DEF C!Present
<1>4. m >= ChainSz + 1 /\ Kept(cache)' = Most(e, m)
  BY PrimedKept DEF Refuses
<1>5. C!AllButLast = Most(e, m)
  <2>1. ChainSz \in Nat /\ m > 0
    BY <1>1, <1>4, CacheAssumption
  <2>2. Most(e, m) = SubSeq(e, 1, m - 1)
    BY <1>1, <2>1, MostCuts
  <2> QED BY <1>2, <2>2 DEF C!AllButLast
<1>6. C!Lose(k)
  BY <1>2, <1>3, <1>4, <1>5 DEF C!Lose
<1>7. RefusedOnlyIf(k)
  BY DEF RefusedOnlyIf, Refuses
<1> QED BY <1>3, <1>6, <1>7

LEMMA EmptyKept ==
  ASSUME NEW c, NEW b, NEW s, NEW K, NEW V, NEW F, NEW o, NEW f, NEW k,
         Listed(c, b, s, K, V, F, o, 0, f, k)
  PROVE  Kept(c) = <<>>
<1>1. Kept(c) = Read(c, o, 0) /\ Read(c, o, 0) \in [1 .. 0 -> Pairs(K, V)]
  BY KeptIs, ReadIs
<1>2. Read(c, o, 0) \in Seq(Pairs(K, V)) /\ Len(Read(c, o, 0)) = 0
  BY <1>1, IsASeq, LenProperties
<1> QED BY <1>1, <1>2, EmptySeq

LEMMA ClearMatches == ASSUME CacheInv, NEW f \in KeyHashFns, ClearCache(f) PROVE C!Clear
<1>1. Listed(cache', BucketSz, ChainSz, Keys, Vals, KeyHashFns,
             [i \in 1 .. 0 |-> 0], 0, [i \in 1 .. BucketSz + ChainSz |-> i - 1],
             BucketSz + ChainSz)
  BY CacheAssumption, ClearListed DEF CacheInv, ClearCache
<1>2. Kept(cache') = <<>>
  BY <1>1, EmptyKept
<1> QED BY <1>2, PrimedKept DEF C!Clear

LEMMA TouchMatches ==
  ASSUME CacheInv, NEW k \in Keys, TouchKey(k)
  PROVE  C!Touch(k) /\ RefusedOnlyIf(k)
<1>1. PICK o, m, f, l : Listed(cache, BucketSz, ChainSz, Keys, Vals, KeyHashFns, o, m, f, l)
  BY DEF CacheInv, IsCache
<1>2. Shows(cache, cache', k, m, BucketSz, ChainSz, Keys, Vals, KeyHashFns)
  BY <1>1, TouchShows DEF TouchKey
<1>3. CASE Refuses(cache, cache', k, m, ChainSz)
  <2>1. C!Lose(k) /\ RefusedOnlyIf(k) /\ ~C!Present(k)
    BY <1>1, <1>3, RefusedIsLose
  <2>2. PICK v \in Vals : TRUE
    BY CacheAssumption
  <2> QED BY <2>1, <2>2 DEF C!Touch, C!Put
<1>4. ASSUME NEW r, NEW n, Fronts(cache', k, r, n, BucketSz, ChainSz, Keys, Vals, KeyHashFns),
             Leaves(cache, k, r, m, BucketSz, ChainSz),
             icache_get(cache, k) # UNDEF => User(cache', k) = User(cache, k)
      PROVE  C!Touch(k) /\ RefusedOnlyIf(k)
  <2> DEFINE v == User(cache', k)
  <2>1. PICK o1, f1, k1 :
          /\ Listed(cache', BucketSz, ChainSz, Keys, Vals, KeyHashFns, o1, n + 1, f1, k1)
          /\ Read(cache', o1, n + 1) = Cons(PairOf(cache', k), r, n)
    BY <1>4 DEF Fronts
  <2>2. /\ Kept(cache') = Cons([key |-> k, val |-> v], r, n)
        /\ Read(cache', o1, n + 1) \in [1 .. n + 1 -> Pairs(Keys, Vals)]
    BY <2>1, KeptIs, ReadIs DEF PairOf
  <2>3. n \in Nat /\ r \in [1 .. n -> Pairs(Keys, Vals)] /\ icache_get(cache', k) # UNDEF
    BY <1>4 DEF Fronts
  <2>4. v \in Vals
    <3>1. 1 \in 1 .. n + 1
      BY <2>3
    <3>2. PairOf(cache', k) \in Pairs(Keys, Vals)
      BY <2>1, <2>2, <3>1 DEF Cons
    <3> QED BY <3>2 DEF PairOf, Pairs
  <2> HIDE DEF v
  <2>5. /\ C!Put(k, v)
        /\ C!Present(k) => C!Renew(k, v) /\ C!ValOf(k) = User(cache, k)
        /\ C!Present(k) <=> icache_get(cache, k) # UNDEF
    BY <1>1, <1>4, <2>2, <2>3, <2>4, FrontIsPut
  <2>6. C!Present(k) => C!ValOf(k) = v
    BY <1>4, <2>5 DEF v
  <2>7. C!Touch(k)
    BY <2>4, <2>5, <2>6 DEF C!Touch
  <2> QED BY <2>3, <2>7 DEF RefusedOnlyIf
<1> QED BY <1>2, <1>3, <1>4 DEF Shows

LEMMA PutMatches ==
  ASSUME CacheInv, NEW k \in Keys, NEW v \in Vals, PutUser(k, v)
  PROVE  C!Put(k, v) /\ RefusedOnlyIf(k)
<1> DEFINE t == icache_touch(cache, k)
<1>1. PICK o, m, f, l : Listed(cache, BucketSz, ChainSz, Keys, Vals, KeyHashFns, o, m, f, l)
  BY DEF CacheInv, IsCache
<1>2. Shows(cache, t, k, m, BucketSz, ChainSz, Keys, Vals, KeyHashFns)
  BY <1>1, TouchShows
<1>3. cache' = IF icache_get(t, k) = UNDEF THEN t ELSE SetUser(t, k, v)
  BY DEF PutUser, icache_put
<1> HIDE DEF t
<1>4. CASE Refuses(cache, t, k, m, ChainSz)
  <2>1. cache' = t
    BY <1>3, <1>4 DEF Refuses
  <2>2. Refuses(cache, cache', k, m, ChainSz)
    BY <1>4, <2>1
  <2> QED BY <1>1, <2>2, RefusedIsLose DEF C!Put
<1>5. ASSUME NEW r, NEW n, Fronts(t, k, r, n, BucketSz, ChainSz, Keys, Vals, KeyHashFns),
             Leaves(cache, k, r, m, BucketSz, ChainSz)
      PROVE  C!Put(k, v) /\ RefusedOnlyIf(k)
  <2>1. n \in Nat /\ r \in [1 .. n -> Pairs(Keys, Vals)] /\ icache_get(t, k) # UNDEF
    BY <1>5 DEF Fronts
  <2>2. cache' = SetUser(t, k, v)
    BY <1>3, <2>1
  <2>3. icache_get(cache', k) # UNDEF /\ Kept(cache') = Cons([key |-> k, val |-> v], r, n)
    BY <1>5, <2>2, SetShows
  <2>4. C!Put(k, v)
    BY <1>1, <1>5, <2>1, <2>3, FrontIsPut
  <2> QED BY <2>3, <2>4 DEF RefusedOnlyIf
<1> QED BY <1>2, <1>4, <1>5 DEF Shows

\* The LRU cache implements the map with a recency order: what icache.h says of
\* hits, of new keys and of evictions holds of every call, whatever the sizes.
THEOREM CacheIsLru == CacheSpec => ImplementsLru
<1>1. CacheInit => C!Init
  <2> SUFFICES ASSUME NEW f \in KeyHashFns,
                      cache = icache_init(BucketSz, ChainSz, f, CHOOSE v \in Vals : TRUE,
                                          CHOOSE k \in Keys : TRUE)
               PROVE  C!Init
    BY DEF CacheInit
  <2>1. (CHOOSE v \in Vals : TRUE) \in Vals /\ (CHOOSE k \in Keys : TRUE) \in Keys
    BY CacheAssumption
  <2>2. Listed(cache, BucketSz, ChainSz, Keys, Vals, KeyHashFns,
               [i \in 1 .. 0 |-> 0], 0, [i \in 1 .. BucketSz + ChainSz |-> i - 1],
               BucketSz + ChainSz)
    BY <2>1, CacheAssumption, NewListed
  <2> QED BY <2>2, EmptyKept DEF C!Init
<1>2. CacheInv /\ [CacheNext]_cache => [cache' # cache => CacheCallsMatch]_cache
  BY ClearMatches, TouchMatches, PutMatches DEF CacheCallsMatch
<1> QED BY <1>1, <1>2, CacheInvInit, CacheInvNext, PTL DEF CacheSpec, ImplementsLru

-----------------------------------------------------------------------------
(* The descriptor cache.                                                   *)

\* The files op open are those of the keys of the cache c, each under the
\* descriptor the cache has for its key.
Serves(c, op) ==
  /\ DOMAIN op = {User(c, j) : j \in KeysIn(c)}
  /\ \A j \in KeysIn(c) : op[User(c, j)] = j

\* A sound cache of at most b + s descriptors.
FdGood(fc, b, s, K, F) ==
  /\ fc = [cache |-> fc.cache, opened |-> fc.opened]
  /\ IsCache(fc.cache, b, s, K, NoFd .. b + s, F)
  /\ Serves(fc.cache, fc.opened) /\ Fds(fc) \subseteq 0 .. b + s

LEMMA GoodTable ==
  ASSUME NEW fc, NEW b, NEW s, NEW K, NEW F, FdGood(fc, b, s, K, F)
  PROVE  IsTable(fc.cache.hash, b, s, K, Data(b + s, NoFd .. b + s), F)
BY DEF FdGood, IsCache, Listed

\* The descriptor of an entry is that of its key.
LEMMA FdsByEntry ==
  ASSUME NEW fc, NEW b, NEW s, NEW K, NEW F, FdGood(fc, b, s, K, F)
  PROVE  /\ \A e \in Used(fc.cache.hash) :
              /\ fc.cache.hash.key[e] \in KeysIn(fc.cache)
              /\ fc.cache.hash.val[e].user = User(fc.cache, fc.cache.hash.key[e])
              /\ fc.cache.hash.val[e].user \in Fds(fc)
         /\ Fds(fc) = {fc.cache.hash.val[e].user : e \in Used(fc.cache.hash)}
<1>1. \A e \in Used(fc.cache.hash) :
        ihash_get(fc.cache.hash, fc.cache.hash.key[e]) = e
  BY GoodTable, GetUsed
<1>2. \A e \in Used(fc.cache.hash) :
        /\ fc.cache.hash.key[e] \in KeysIn(fc.cache)
        /\ fc.cache.hash.val[e].user = User(fc.cache, fc.cache.hash.key[e])
  BY <1>1 DEF KeysIn, User, icache_get
<1>3. Fds(fc) = {User(fc.cache, j) : j \in KeysIn(fc.cache)}
  BY DEF FdGood, Serves, Fds
<1>4. \A j \in KeysIn(fc.cache) : \E e \in Used(fc.cache.hash) :
        User(fc.cache, j) = fc.cache.hash.val[e].user
  BY <1>2 DEF KeysIn
<1> QED BY <1>2, <1>3, <1>4

LEMMA GoodIsSound ==
  ASSUME NEW fc, NEW b, NEW s, NEW K, NEW F, FdGood(fc, b, s, K, F)
  PROVE  FdsSound(fc) /\ \A n \in Fds(fc) : fc.opened[n] \in K
<1> DEFINE h == fc.cache.hash
<1>1. /\ \A e \in Used(h) : /\ h.key[e] \in KeysIn(fc.cache)
                            /\ h.val[e].user = User(fc.cache, h.key[e])
                            /\ h.val[e].user \in Fds(fc)
      /\ Fds(fc) = {h.val[e].user : e \in Used(h)}
  BY FdsByEntry
<1>2. \A e \in Used(h) : fc.opened[h.val[e].user] = h.key[e]
  BY <1>1 DEF FdGood, Serves
<1>3. \A e \in Used(h) : ihash_get(h, h.key[e]) = e /\ h.key[e] \in K
  BY GoodTable, GetUsed
<1>4. \A d, e \in Used(h) : h.val[d].user = h.val[e].user => d = e
  BY <1>2, <1>3
<1>5. FdsSound(fc)
  BY <1>1, <1>2, <1>4 DEF FdsSound, Used
<1> QED BY <1>1, <1>2, <1>3, <1>5

\* open gives a new descriptor, which is in range.
LEMMA LowestIs ==
  ASSUME NEW fc, NEW b, NEW s, NEW K, NEW F, FdGood(fc, b, s, K, F)
  PROVE  LowestFd(fc) \in 0 .. b + s /\ LowestFd(fc) \notin Fds(fc)
<1> DEFINE h == fc.cache.hash
           S == Fds(fc)
           N == Cardinality(S)
           Free(n) == n \notin S /\ \A i \in 0 .. n - 1 : i \in S
<1>0. b \in Nat /\ s \in Nat /\ Entries(h) = 0 .. b + s - 1
  BY GoodTable, TableIs
<1>1. b + s \in Nat /\ Entries(h) = 0 .. b + s - 1 /\ S \subseteq Nat
  BY <1>0 DEF FdGood
<1>2. IsFiniteSet(Entries(h)) /\ Cardinality(Entries(h)) = b + s
  <2>1. PICK n \in Nat : n = b + s
    BY <1>1
  <2>2. IsFiniteSet(0 .. n - 1) /\ Cardinality(0 .. n - 1) = n
    BY FS_Interval
  <2> HIDE DEF h
  <2> QED BY <1>0, <2>1, <2>2
<1>3. IsFiniteSet(S) /\ N \in Nat /\ N <= b + s
  <2> DEFINE g == [n \in S |-> CHOOSE e \in Used(h) : h.val[e].user = n]
  <2>1. \A n \in S : g[n] \in Used(h) /\ h.val[g[n]].user = n
    BY FdsByEntry
  <2>2. g \in [S -> Entries(h)] /\ \A i, j \in S : g[i] = g[j] => i = j
    BY <2>1 DEF Used
  <2> HIDE DEF g, S
  <2>3. g \in Injection(S, Entries(h))
    BY <2>2 DEF Injection, IsInjective
  <2> QED BY <1>2, <2>3, FS_Injection, FS_CardinalityType
<1> HIDE DEF S, N, h
<1>4. ~(0 .. N \subseteq S)
  <2>1. Cardinality(0 .. N) = N + 1
    BY <1>3, FS_Interval
  <2>2. ASSUME 0 .. N \subseteq S PROVE Cardinality(0 .. N) <= N
    BY <1>3, <2>2, FS_Subset DEF N
  <2> QED BY <1>3, <2>1, <2>2
<1>5. \E n \in 0 .. N : Free(n)
  <2> DEFINE R == {n \in 0 .. N : n \notin S}
  <2>1. R # {} /\ R \subseteq Nat
    BY <1>3, <1>4
  <2>2. PICK n \in R : \A i \in R : n <= i
    <3> HIDE DEF R
    <3> QED BY <2>1, Least
  <2>3. \A i \in 0 .. n - 1 : i \in 0 .. N /\ ~(n <= i)
    BY <1>3, <2>2
  <2> QED BY <2>2, <2>3
<1>6. LowestFd(fc) = CHOOSE n \in 0 .. N : Free(n)
  BY DEF LowestFd, S, N
<1>7. LowestFd(fc) \in 0 .. N /\ LowestFd(fc) \notin S
  <2> HIDE DEF N
  <2> QED BY <1>5, <1>6
<1> QED BY <1>1, <1>3, <1>7 DEF S

\* A cache that keeps the users of the keys it keeps goes on being served, when
\* the files of the keys it loses are closed.
LEMMA ServesFewer ==
  ASSUME NEW c, NEW op, Serves(c, op), NEW d, KeysIn(d) \subseteq KeysIn(c),
         SameUsers(c, d, KeysIn(d)),
         NEW p, DOMAIN p = DOMAIN op \ {User(c, j) : j \in KeysIn(c) \ KeysIn(d)},
         \A n \in DOMAIN p : p[n] = op[n]
  PROVE  Serves(d, p)
<1>1. \A i, j \in KeysIn(c) : User(c, i) = User(c, j) => i = j
  BY DEF Serves
<1>2. \A j \in KeysIn(d) : User(d, j) = User(c, j)
  BY DEF SameUsers
<1>3. {User(d, j) : j \in KeysIn(d)} = {User(c, j) : j \in KeysIn(d)}
  BY <1>2
<1>4. DOMAIN p = {User(c, j) : j \in KeysIn(d)}
  <2>1. DOMAIN op = {User(c, j) : j \in KeysIn(c)}
    BY DEF Serves
  <2>2. \A j \in KeysIn(d) : User(c, j) \notin {User(c, i) : i \in KeysIn(c) \ KeysIn(d)}
    BY <1>1
  <2> QED BY <2>1, <2>2
<1>5. \A j \in KeysIn(d) : p[User(d, j)] = j
  BY <1>2, <1>4 DEF Serves
<1> QED BY <1>3, <1>4, <1>5 DEF Serves

\* A key more, with the descriptor its file was opened under.
LEMMA ServesMore ==
  ASSUME NEW c, NEW op, Serves(c, op), NEW d, NEW j, j \notin KeysIn(c),
         KeysIn(d) = KeysIn(c) \cup {j}, SameUsers(c, d, KeysIn(c)),
         NEW fd, fd \notin DOMAIN op, User(d, j) = fd,
         NEW p, DOMAIN p = DOMAIN op \cup {fd}, p[fd] = j, \A n \in DOMAIN op : p[n] = op[n]
  PROVE  Serves(d, p)
<1>1. \A i \in KeysIn(c) : User(d, i) = User(c, i)
  BY DEF SameUsers
<1>2. DOMAIN p = {User(d, i) : i \in KeysIn(d)}
  <2>1. DOMAIN op = {User(c, i) : i \in KeysIn(c)}
    BY DEF Serves
  <2>2. {User(d, i) : i \in KeysIn(d)} = {User(d, i) : i \in KeysIn(c)} \cup {User(d, j)}
    OBVIOUS
  <2>3. {User(d, i) : i \in KeysIn(c)} = {User(c, i) : i \in KeysIn(c)}
    BY <1>1
  <2> QED BY <2>1, <2>2, <2>3
<1>3. \A i \in KeysIn(c) : p[User(d, i)] = i
  BY <1>1 DEF Serves
<1> QED BY <1>2, <1>3 DEF Serves

\* Record, after the file was opened.  Closing others in between leaves it so.
Ready(fc, j, fd, b, s, K, F) ==
  /\ fc = [cache |-> fc.cache, opened |-> fc.opened]
  /\ IsCache(fc.cache, b, s, K, NoFd .. b + s, F)
  /\ Fds(fc) \subseteq 0 .. b + s
  /\ fd \in Fds(fc) /\ fc.opened[fd] = j
  /\ Serves(fc.cache, [n \in Fds(fc) \ {fd} |-> fc.opened[n]])
  /\ j \in K /\ icache_get(fc.cache, j) = UNDEF

LEMMA RecordGood ==
  ASSUME NEW fc, NEW b, NEW s, NEW K, NEW F, NEW j, NEW fd, Ready(fc, j, fd, b, s, K, F),
         HasRoom(fc.cache, j)
  PROVE  FdGood(Record(fc, j, fd), b, s, K, F)
<1> DEFINE c == fc.cache
           V == NoFd .. b + s
           e == Enlist(HashTouch(c, j), j)
           d == SetUser(e, j, fd)
           op == [n \in Fds(fc) \ {fd} |-> fc.opened[n]]
<1>1. PICK o, m, f, k : Listed(c, b, s, K, V, F, o, m, f, k)
  BY DEF Ready, IsCache
<1>2. j \in K /\ icache_get(c, j) = UNDEF /\ fd \in V
  <2>1. b \in Nat /\ s \in Nat
    BY <1>1, CacheParts
  <2> QED BY <2>1 DEF Ready, NoFd
<1>3. IsTable(c.hash, b, s, K, Data(b + s, V), F)
  BY <1>1 DEF Listed
<1>4. j \notin KeysIn(c)
  BY <1>2, <1>3, KeysAre
<1> HIDE DEF V, e, op
<1>5. \E o1, m1, f1, k1 :
        /\ Listed(e, b, s, K, V, F, o1, m1, f1, k1)
        /\ KeysIn(e) = KeysIn(c) \cup {j} /\ SameUsers(c, e, KeysIn(c))
  <2> HIDE DEF c
  <2>1. HasRoom(c, j)
    BY DEF c
  <2>2. j \in K /\ icache_get(c, j) = UNDEF
    BY <1>2
  <2>3. /\ Listed(e, b, s, K, V, F, Cons(f[1], o, m), m + 1, Rest(f, k), k - 1)
        /\ Enlists(c, e, j, f[1], b + s)
    BY ONLY <1>1, <2>1, <2>2, EnlistListed DEF e
  <2> QED BY <2>3 DEF Enlists
<1>6. PICK o1, m1, f1, k1 :
        /\ Listed(e, b, s, K, V, F, o1, m1, f1, k1)
        /\ KeysIn(e) = KeysIn(c) \cup {j} /\ SameUsers(c, e, KeysIn(c))
  BY <1>5
<1>7. icache_get(e, j) # UNDEF
  <2>1. IsTable(e.hash, b, s, K, Data(b + s, V), F)
    BY <1>6 DEF Listed
  <2> QED BY <1>2, <1>6, <2>1, KeysAre
<1>8. /\ Listed(d, b, s, K, V, F, o1, m1, f1, k1)
      /\ KeysIn(d) = KeysIn(e) /\ User(d, j) = fd /\ SameUsers(e, d, KeysIn(e) \ {j})
  <2>1. j \in K /\ fd \in V /\ Listed(e, b, s, K, V, F, o1, m1, f1, k1)
    BY <1>2, <1>6
  <2>2. Listed(d, b, s, K, V, F, o1, m1, f1, k1) /\ Sets(e, d, j, fd, K)
    BY ONLY <1>7, <2>1, SetListed
  <2> QED BY <2>2 DEF Sets
<1> HIDE DEF d
<1>9. SameUsers(c, d, KeysIn(c))
  BY <1>4, <1>6, <1>8 DEF SameUsers
<1>10. Record(fc, j, fd) = [cache |-> d, opened |-> fc.opened]
  BY DEF Record, Ready, d, e
<1>11. DOMAIN op = Fds(fc) \ {fd} /\ \A n \in DOMAIN op : fc.opened[n] = op[n]
  BY DEF op
<1>12. Serves(d, fc.opened)
  <2>1. Serves(c, op)
    BY DEF Ready, op
  <2>2. DOMAIN fc.opened = DOMAIN op \cup {fd} /\ fd \notin DOMAIN op /\ fc.opened[fd] = j
    BY <1>11 DEF Ready, Fds
  <2>3. KeysIn(d) = KeysIn(c) \cup {j}
    BY <1>6, <1>8
  <2> QED BY ONLY <1>4, <1>8, <1>9, <1>11, <2>1, <2>2, <2>3, ServesMore
<1>13. IsCache(d, b, s, K, V, F)
  BY <1>8 DEF IsCache
<1> QED BY <1>10, <1>12, <1>13 DEF FdGood, Ready, Fds, V

\* The new file is open, and the key misses.
LEMMA OpenReady ==
  ASSUME NEW fc, NEW b, NEW s, NEW K, NEW F, FdGood(fc, b, s, K, F), NEW j \in K,
         fdcache_get(fc, j) = UNDEF
  PROVE  /\ Ready(OpenFd(fc, j), j, LowestFd(fc), b, s, K, F)
         /\ OpenFd(fc, j).cache = fc.cache
<1> DEFINE fd == LowestFd(fc)
           p == [n \in Fds(fc) \cup {fd} |-> IF n \in Fds(fc) THEN fc.opened[n] ELSE j]
           g == OpenFd(fc, j)
<1>1. fd \in 0 .. b + s /\ fd \notin Fds(fc)
  BY LowestIs
<1> HIDE DEF fd
<1>2. g = [cache |-> fc.cache, opened |-> p]
  BY DEF OpenFd, FdGood, fd
<1>3. Fds(g) = Fds(fc) \cup {fd} /\ g.opened = p /\ g.cache = fc.cache
  BY <1>2 DEF Fds
<1>4. [n \in Fds(g) \ {fd} |-> g.opened[n]] = [n \in Fds(fc) |-> fc.opened[n]]
  BY <1>1, <1>3
<1>5. Serves(fc.cache, [n \in Fds(fc) |-> fc.opened[n]])
  <2>1. Serves(fc.cache, fc.opened)
    BY DEF FdGood
  <2> QED BY <2>1 DEF Serves, Fds
<1>6. Fds(g) \subseteq 0 .. b + s
  BY <1>1, <1>3 DEF FdGood
<1> HIDE DEF g, p
<1>7. g = [cache |-> g.cache, opened |-> g.opened] /\ g.opened[fd] = j
  BY <1>1, <1>2, <1>3 DEF p
<1>8. Ready(g, j, fd, b, s, K, F)
  BY <1>3, <1>4, <1>5, <1>6, <1>7 DEF Ready, FdGood, fdcache_get
<1> QED BY <1>3, <1>8 DEF g, fd

\* The least recent entry goes, and its file is closed; never the new one.
LEMMA EvictReady ==
  ASSUME NEW g, NEW b, NEW s, NEW K, NEW F, NEW j, NEW fd, Ready(g, j, fd, b, s, K, F),
         ~HasRoom(g.cache, j)
  PROVE  Ready(EvictLru(g), j, fd, b, s, K, F) /\ EvictLru(g).cache = DropLru(g.cache)
<1> DEFINE c == g.cache
           d == DropLru(c)
           V == NoFd .. b + s
           x == User(c, LruKey(c))
           r == EvictLru(g)
           op == [n \in Fds(g) \ {fd} |-> g.opened[n]]
           p == [n \in Fds(g) \ {x} |-> g.opened[n]]
<1>1. PICK o, m, f, k : Listed(c, b, s, K, V, F, o, m, f, k)
  BY DEF Ready, IsCache
<1>2. j \in K /\ icache_get(c, j) = UNDEF
  BY DEF Ready
<1> HIDE DEF V, d
<1>3. Used(c.hash) # {} /\ icache_get(d, j) = UNDEF
  BY <1>1, <1>2, FullListed DEF d
<1>4. /\ Listed(d, b, s, K, V, F, Most(o, m), m - 1, Cons(o[m], f, k), k + 1)
      /\ Drops(c, d, o[m])
  BY <1>1, <1>3, DropListed DEF d
<1>5. /\ KeysIn(d) = KeysIn(c) \ {LruKey(c)} /\ LruKey(c) \in KeysIn(c)
      /\ SameUsers(c, d, KeysIn(d))
  BY <1>4 DEF Drops
<1>6. r = [cache |-> d, opened |-> p]
  <2>1. fdcache_close(g, x) = [cache |-> c, opened |-> p]
    BY DEF fdcache_close, Ready
  <2>2. r = [fdcache_close(g, x) EXCEPT !.cache = d]
    BY DEF EvictLru, FdOf, d
  <2> HIDE DEF p, x, r
  <2> QED BY <2>1, <2>2
<1>7. Serves(c, op) /\ Fds(g) \subseteq 0 .. b + s /\ fd \in Fds(g) /\ g.opened[fd] = j
  BY DEF Ready
<1>8. x \in Fds(g) \ {fd}
  BY <1>5, <1>7 DEF Serves
<1> HIDE DEF r, op, p, x
<1>9. /\ DOMAIN p = Fds(g) \ {x} /\ \A n \in DOMAIN p : p[n] = g.opened[n]
      /\ DOMAIN op = Fds(g) \ {fd} /\ \A n \in DOMAIN op : op[n] = g.opened[n]
  BY DEF p, op
<1>10. Fds(r) = Fds(g) \ {x} /\ r.opened = p /\ r.cache = d
  BY <1>6, <1>9 DEF Fds
<1> DEFINE q == [n \in Fds(r) \ {fd} |-> r.opened[n]]
<1>11. DOMAIN q = DOMAIN op \ {x} /\ \A n \in DOMAIN q : q[n] = op[n]
  BY <1>9, <1>10
<1> HIDE DEF q
<1>12. Serves(d, q)
  <2>1. KeysIn(c) \ KeysIn(d) = {LruKey(c)}
    BY <1>5
  <2>2. {User(c, i) : i \in KeysIn(c) \ KeysIn(d)} = {x}
    BY <2>1 DEF x
  <2>3. KeysIn(d) \subseteq KeysIn(c)
    BY <1>5
  <2> QED BY <1>5, <1>7, <1>11, <2>2, <2>3, ServesFewer
<1>13. IsCache(d, b, s, K, V, F)
  BY <1>4 DEF IsCache
<1>14. fd \in Fds(r) /\ r.opened[fd] = j /\ Fds(r) \subseteq 0 .. b + s
  BY <1>7, <1>8, <1>9, <1>10
<1>15. Ready(r, j, fd, b, s, K, F)
  <2>1. r = [cache |-> r.cache, opened |-> r.opened]
    BY <1>6
  <2> QED BY <1>2, <1>3, <1>10, <1>12, <1>13, <1>14, <2>1 DEF Ready, V, q
<1> QED BY <1>10, <1>15 DEF r, d

\* Without room even then the new file is closed again.
LEMMA CloseGood ==
  ASSUME NEW g, NEW b, NEW s, NEW K, NEW F, NEW j, NEW fd, Ready(g, j, fd, b, s, K, F)
  PROVE  FdGood(fdcache_close(g, fd), b, s, K, F)
<1> DEFINE p == [n \in Fds(g) \ {fd} |-> g.opened[n]]
           r == fdcache_close(g, fd)
<1>1. r = [cache |-> g.cache, opened |-> p]
  BY DEF fdcache_close, Ready
<1>2. DOMAIN p = Fds(g) \ {fd}
  OBVIOUS
<1>3. Serves(g.cache, p) /\ IsCache(g.cache, b, s, K, NoFd .. b + s, F) /\ Fds(g) \subseteq 0 .. b + s
  BY DEF Ready
<1> HIDE DEF p, r
<1>4. r.cache = g.cache /\ r.opened = p /\ Fds(r) = Fds(g) \ {fd}
  BY <1>1, <1>2 DEF Fds
<1>5. FdGood(r, b, s, K, F)
  BY <1>1, <1>3, <1>4 DEF FdGood
<1> QED BY <1>5 DEF r

LEMMA HitGood ==
  ASSUME NEW fc, NEW b, NEW s, NEW K, NEW F, FdGood(fc, b, s, K, F), NEW j \in K,
         fdcache_get(fc, j) # UNDEF
  PROVE  FdGood([fc EXCEPT !.cache = MakeRecent(fc.cache, j)], b, s, K, F)
<1> DEFINE c == fc.cache
           d == MakeRecent(c, j)
           r == [fc EXCEPT !.cache = d]
           V == NoFd .. b + s
<1>1. PICK o, m, f, k : Listed(c, b, s, K, V, F, o, m, f, k)
  BY DEF FdGood, IsCache
<1>2. icache_get(c, j) # UNDEF
  BY DEF fdcache_get
<1> HIDE DEF V, d
<1>3. IsCache(d, b, s, K, V, F) /\ d.hash = c.hash
  <2>1. \E q \in 1 .. m : Listed(d, b, s, K, V, F, ToFront(o, m, q), m, f, k) /\ d.hash = c.hash
    BY <1>1, <1>2, RecentListed DEF d
  <2> QED BY <2>1 DEF IsCache
<1>4. KeysIn(d) = KeysIn(c) /\ \A i : User(d, i) = User(c, i)
  BY <1>3 DEF KeysIn, User, icache_get
<1>5. Serves(d, fc.opened)
  <2>1. Serves(c, fc.opened)
    BY DEF FdGood
  <2> QED BY <1>4, <2>1 DEF Serves
<1>6. r = [cache |-> d, opened |-> fc.opened]
  BY DEF FdGood
<1> HIDE DEF r
<1>7. r.cache = d /\ r.opened = fc.opened /\ Fds(r) = Fds(fc)
  BY <1>6 DEF Fds
<1>8. FdGood(r, b, s, K, F)
  BY <1>3, <1>5, <1>6, <1>7 DEF FdGood, V
<1> QED BY <1>8 DEF r, d

LEMMA TouchGood ==
  ASSUME NEW fc, NEW b, NEW s, NEW K, NEW F, FdGood(fc, b, s, K, F), NEW j \in K, NEW can
  PROVE  FdGood(fdcache_touch(fc, j, can), b, s, K, F)
<1> DEFINE new == OpenFd(fc, j)
           fd == LowestFd(fc)
<1>1. CASE fdcache_get(fc, j) # UNDEF
  BY <1>1, HitGood DEF fdcache_touch
<1>2. CASE fdcache_get(fc, j) = UNDEF /\ ~can
  BY <1>2 DEF fdcache_touch
<1>3. CASE fdcache_get(fc, j) = UNDEF /\ can
  <2> HIDE DEF new, fd
  <2>1. Ready(new, j, fd, b, s, K, F) /\ new.cache = fc.cache
    BY <1>3, OpenReady DEF new, fd
  <2>2. CASE HasRoom(fc.cache, j)
    <3>1. fdcache_touch(fc, j, can) = Record(new, j, fd)
      BY <1>3, <2>2 DEF fdcache_touch, new, fd
    <3> QED BY <2>1, <2>2, <3>1, RecordGood
  <2>3. CASE ~HasRoom(fc.cache, j)
    <3>1. Ready(EvictLru(new), j, fd, b, s, K, F) /\ EvictLru(new).cache = DropLru(fc.cache)
      BY <2>1, <2>3, EvictReady
    <3>2. CASE HasRoomAfterDrop(fc.cache, j)
      <4>1. fdcache_touch(fc, j, can) = Record(EvictLru(new), j, fd)
        BY <1>3, <2>3, <3>2 DEF fdcache_touch, new, fd
      <4>2. HasRoom(EvictLru(new).cache, j)
        BY <3>1, <3>2 DEF HasRoomAfterDrop
      <4> QED BY <3>1, <4>1, <4>2, RecordGood
    <3>3. CASE ~HasRoomAfterDrop(fc.cache, j)
      <4>1. fdcache_touch(fc, j, can) = fdcache_close(EvictLru(new), fd)
        BY <1>3, <2>3, <3>3 DEF fdcache_touch, new, fd
      <4> QED BY <3>1, <4>1, CloseGood
    <3> QED BY <3>2, <3>3
  <2> QED BY <2>2, <2>3
<1> QED BY <1>1, <1>2, <1>3

\* A cache without keys serves nothing.
LEMMA EmptyGood ==
  ASSUME NEW b, NEW s, NEW K, NEW F, NEW d, IsCache(d, b, s, K, NoFd .. b + s, F),
         Used(d.hash) = {}, NEW fc, fc = [cache |-> d, opened |-> fc.opened], Fds(fc) = {}
  PROVE  FdGood(fc, b, s, K, F)
<1>1. KeysIn(d) = {}
  BY DEF KeysIn
<1>2. fc.cache = d
  OBVIOUS
<1>3. Serves(d, fc.opened)
  BY <1>1 DEF Serves, Fds
<1> QED BY <1>2, <1>3 DEF FdGood

\* The loop of fdcache_clear closes everything.
LEMMA AllClosed ==
  ASSUME NEW fc, NEW b, NEW s, NEW K, NEW F, FdGood(fc, b, s, K, F)
  PROVE  /\ CloseAll(fc) = [cache |-> fc.cache, opened |-> CloseAll(fc).opened]
         /\ Fds(CloseAll(fc)) = {}
<1> DEFINE held == {fc.cache.hash.val[e].user : e \in Used(fc.cache.hash)}
<1>1. CloseAll(fc) = [fc EXCEPT !.opened = [n \in Fds(fc) \ held |-> fc.opened[n]]]
  BY DEF CloseAll, Used
<1>2. Fds(fc) = held
  BY FdsByEntry
<1>3. Fds(fc) \ held = {}
  BY <1>2
<1> HIDE DEF held
<1>4. CloseAll(fc) = [cache |-> fc.cache, opened |-> [n \in Fds(fc) \ held |-> fc.opened[n]]]
  BY <1>1 DEF FdGood
<1> QED BY <1>3, <1>4 DEF Fds

-----------------------------------------------------------------------------
\* The inductive invariant: the cache is one, its keys are those the open files
\* are of, each under its descriptor.
FdInv == FdGood(fds, FdBuckets, FdChains, Files, FileHashFns)

LEMMA NewFds ==
  ASSUME NEW f \in FileHashFns
  PROVE  LET c == fdcache_init(FdBuckets, FdChains, f, CHOOSE k \in Files : TRUE).cache
         IN  /\ IsCache(c, FdBuckets, FdChains, Files, NoFd .. FdBuckets + FdChains, FileHashFns)
             /\ Used(c.hash) = {}
<1> DEFINE k == CHOOSE k \in Files : TRUE
           c == icache_init(FdBuckets, FdChains, f, NoFd, k)
           V == NoFd .. FdBuckets + FdChains
<1>1. k \in Files /\ NoFd \in V
  BY FdAssumption DEF NoFd
<1> HIDE DEF k, V
<1>2. /\ Listed(c, FdBuckets, FdChains, Files, V, FileHashFns, [i \in 1 .. 0 |-> 0], 0,
                [i \in 1 .. FdBuckets + FdChains |-> i - 1], FdBuckets + FdChains)
      /\ Used(c.hash) = {}
  BY <1>1, FdAssumption, NewListed
<1>3. c = fdcache_init(FdBuckets, FdChains, f, k).cache
  BY DEF fdcache_init
<1> HIDE DEF c
<1> QED BY <1>2, <1>3 DEF IsCache, k, V

LEMMA FdInvInit == FdInit => FdInv
<1> SUFFICES ASSUME NEW f \in FileHashFns,
                    fds = fdcache_init(FdBuckets, FdChains, f, CHOOSE k \in Files : TRUE)
             PROVE  FdInv
  BY DEF FdInit
<1>1. /\ IsCache(fds.cache, FdBuckets, FdChains, Files, NoFd .. FdBuckets + FdChains, FileHashFns)
      /\ Used(fds.cache.hash) = {}
  BY NewFds
<1>2. fds = [cache |-> fds.cache, opened |-> fds.opened] /\ Fds(fds) = {}
  BY DEF fdcache_init, Fds
<1> QED BY <1>1, <1>2, EmptyGood DEF FdInv

LEMMA FdInvNext == FdInv /\ [FdNext]_fds => FdInv'
<1> SUFFICES ASSUME FdInv, [FdNext]_fds PROVE FdInv'
  OBVIOUS
<1> DEFINE V == NoFd .. FdBuckets + FdChains
<1>1. ASSUME NEW k \in Files, NEW can \in BOOLEAN, TouchFd(k, can) PROVE FdInv'
  BY <1>1, TouchGood DEF FdInv, TouchFd
<1>2. ASSUME NEW f \in FileHashFns, ClearFds(f) PROVE FdInv'
  <2> DEFINE d == icache_clear(fds.cache, f)
  <2>1. IsCache(d, FdBuckets, FdChains, Files, V, FileHashFns) /\ Used(d.hash) = {}
    <3> HIDE DEF V
    <3>1. IsCache(fds.cache, FdBuckets, FdChains, Files, V, FileHashFns)
      BY DEF FdInv, FdGood, V
    <3>2. /\ Listed(d, FdBuckets, FdChains, Files, V, FileHashFns, [i \in 1 .. 0 |-> 0], 0,
                    [i \in 1 .. FdBuckets + FdChains |-> i - 1], FdBuckets + FdChains)
          /\ Used(d.hash) = {}
      BY <3>1, FdAssumption, ClearListed
    <3> QED BY <3>2 DEF IsCache
  <2>2. /\ CloseAll(fds) = [cache |-> fds.cache, opened |-> CloseAll(fds).opened]
        /\ Fds(CloseAll(fds)) = {}
    BY AllClosed DEF FdInv
  <2> HIDE DEF d
  <2>3. fds' = [cache |-> d, opened |-> CloseAll(fds).opened]
    BY <1>2, <2>2 DEF ClearFds, fdcache_clear, d
  <2>4. Fds(fds') = {} /\ fds' = [cache |-> d, opened |-> fds'.opened]
    BY <2>2, <2>3 DEF Fds
  <2>5. FdGood(fds', FdBuckets, FdChains, Files, FileHashFns)
    BY <2>1, <2>4, EmptyGood
  <2> QED BY <2>5 DEF FdInv
<1>3. ASSUME NEW f \in FileHashFns, RecreateFds(f) PROVE FdInv'
  <2> DEFINE d == fdcache_init(FdBuckets, FdChains, f, CHOOSE k \in Files : TRUE).cache
  <2>1. IsCache(d, FdBuckets, FdChains, Files, V, FileHashFns) /\ Used(d.hash) = {}
    BY NewFds
  <2>2. /\ CloseAll(fds) = [cache |-> fds.cache, opened |-> CloseAll(fds).opened]
        /\ Fds(CloseAll(fds)) = {}
    BY AllClosed DEF FdInv
  <2>3. fds' = [CloseAll(fds) EXCEPT !.cache = d]
    BY <1>3 DEF RecreateFds
  <2> HIDE DEF d
  <2>4. fds' = [cache |-> d, opened |-> CloseAll(fds).opened]
    BY <2>2, <2>3
  <2>5. Fds(fds') = {} /\ fds' = [cache |-> d, opened |-> fds'.opened]
    BY <2>2, <2>4 DEF Fds
  <2>6. FdGood(fds', FdBuckets, FdChains, Files, FileHashFns)
    BY <2>1, <2>5, EmptyGood
  <2> QED BY <2>6 DEF FdInv
<1>4. CASE UNCHANGED fds
  BY <1>4 DEF FdInv
<1> QED BY <1>1, <1>2, <1>3, <1>4 DEF FdNext

\* Whatever opens fail and whatever is evicted or refused, every open descriptor
\* is that of exactly one entry, and open on the file of its key.
THEOREM DescriptorsHeld == FdSpec => []Descriptors
<1>1. FdInv => Descriptors
  <2> SUFFICES ASSUME FdInv PROVE Descriptors
    OBVIOUS
  <2>1. FdsSound(fds) /\ \A n \in Fds(fds) : fds.opened[n] \in Files
    BY GoodIsSound DEF FdInv
  <2>2. /\ fds.cache \in CacheType(FdBuckets, FdChains, Files, NoFd .. FdBuckets + FdChains,
                                   FileHashFns)
        /\ CacheSound(fds.cache)
    BY CacheIsSound DEF FdInv, FdGood
  <2>3. Fds(fds) \subseteq 0 .. FdBuckets + FdChains
    BY DEF FdInv, FdGood
  <2> QED BY <2>1, <2>2, <2>3 DEF Descriptors, FdTypeOK, Capacity
<1> QED BY FdInvInit, FdInvNext, <1>1, PTL DEF FdSpec

-----------------------------------------------------------------------------
(* The sequence.                                                           *)

\* What makes a sequence give fresh values: those it gave lie behind the
\* current one, seen in the direction it runs in.
Behind ==
  ~wrapped =>
    /\ ~row.called => issued = {}
    /\ row.inc > 0 => \A v \in issued : v <= row.last
    /\ row.inc < 0 => \A v \in issued : v >= row.last

IInv == TypeOK /\ InBounds /\ Behind

LEMMA Int64IsInt == Int64 \subseteq Int /\ Increments \subseteq Int64 /\ 0 \notin Increments
  BY IntAssumption DEF Int64, IntMin

LEMMA IncNotZero == TypeOK => /\ row.inc \in Int /\ row.inc # 0
                             /\ row.min \in Int /\ row.max \in Int /\ row.last \in Int
  <1> SUFFICES ASSUME TypeOK
               PROVE  /\ row.inc \in Int /\ row.inc # 0
                      /\ row.min \in Int /\ row.max \in Int /\ row.last \in Int
    OBVIOUS
  <1>1. /\ row.inc \in Increments
        /\ row.min \in Int64 /\ row.max \in Int64 /\ row.last \in Int64
    BY DEF TypeOK, RowType
  <1> QED  BY <1>1, Int64IsInt

\* A sum of two columns, wrapped around, fits in a column.
LEMMA WrapFits ==
  ASSUME NEW x \in Int64, NEW y \in Int64
  PROVE  Wrap(x + y) \in Int64
  BY IntAssumption DEF Int64, IntMin, Wrap

\* The compiled sum of the current value and the increment fits.
LEMMA NewValFits == TypeOK => NewVal \in Int64
  <1> SUFFICES ASSUME TypeOK PROVE NewVal \in Int64
    OBVIOUS
  <1>1. row.last \in Int64 /\ row.inc \in Int64
    <2>1. row.last \in Int64 /\ row.inc \in Increments
      BY DEF TypeOK, RowType
    <2> QED  BY <2>1, Int64IsInt
  <1> QED  BY <1>1, WrapFits DEF NewVal, Sum

LEMMA InitIInv == Init => IInv
  <1> SUFFICES ASSUME Init PROVE IInv
    OBVIOUS
  <1>1. TypeOK
    BY DEF Init, TypeOK, RowType
  <1>2. InBounds /\ Behind
    BY <1>1, IncNotZero DEF Init, InBounds, Behind
  <1> QED  BY <1>1, <1>2 DEF IInv

LEMMA NextTypes == TypeOK /\ [Next]_vars => TypeOK'
  <1> SUFFICES ASSUME TypeOK, [Next]_vars PROVE TypeOK'
    OBVIOUS
  <1> USE DEF TypeOK, RowType
  <1>1. CASE First
    BY <1>1 DEF First
  <1>2. CASE Advance
    BY <1>2, NewValFits DEF Advance, Give
  <1>3. CASE Cycle
    BY <1>3 DEF Cycle, Give
  <1>4. CASE Exhausted
    BY <1>4 DEF Exhausted
  <1>5. ASSUME NEW v \in Int64, SetMinVal(v) PROVE TypeOK'
    BY <1>5 DEF SetMinVal, Refuse
  <1>6. ASSUME NEW v \in Int64, SetMaxVal(v) PROVE TypeOK'
    BY <1>6 DEF SetMaxVal, Refuse
  <1>7. ASSUME NEW v \in Int64, NEW c \in BOOLEAN, SetVal(v, c) PROVE TypeOK'
    BY <1>7 DEF SetVal, Refuse
  <1>8. ASSUME NEW v \in Increments \cup {0}, SetIncrement(v) PROVE TypeOK'
    BY <1>8 DEF SetIncrement, Refuse
  <1>9. ASSUME NEW c \in BOOLEAN, SetCycle(c) PROVE TypeOK'
    BY <1>9 DEF SetCycle
  <1>10. CASE UNCHANGED vars
    BY <1>10 DEF vars
  <1> QED
    BY <1>1, <1>2, <1>3, <1>4, <1>5, <1>6, <1>7, <1>8, <1>9, <1>10 DEF Next, NextVal

LEMMA NextIInv == IInv /\ [Next]_vars => IInv'
  <1> SUFFICES ASSUME IInv, [Next]_vars PROVE (InBounds /\ Behind)'
    BY NextTypes DEF IInv
  <1>1. /\ TypeOK /\ InBounds /\ Behind
        /\ row.inc \in Int /\ row.inc # 0 /\ row.min \in Int /\ row.max \in Int
        /\ row.last \in Int /\ NewVal \in Int
        /\ issued \subseteq Int
    BY IncNotZero, NewValFits, IntAssumption DEF IInv, TypeOK, Int64, IntMin
  <1>2. row = [min |-> row.min, max |-> row.max, last |-> row.last, inc |-> row.inc,
               cycle |-> row.cycle, called |-> row.called]
    BY <1>1 DEF TypeOK, RowType
  <1>3. CASE First
    BY <1>1, <1>2, <1>3 DEF First, InBounds, Behind
  <1>4. CASE Advance
    <2>1. /\ row'.min = row.min /\ row'.max = row.max /\ row'.inc = row.inc
          /\ row'.called = row.called /\ row'.last = NewVal
          /\ issued' = issued \cup {NewVal} /\ (~wrapped' => ~wrapped /\ NewVal = Sum)
      BY <1>2, <1>4 DEF Advance, Give
    <2>2. ~wrapped' => NewVal = row.last + row.inc
      BY <2>1 DEF Sum
    <2>3. InBounds'
      BY <1>1, <1>4, <2>1, <2>2 DEF Advance, Beyond, InBounds
    <2>4. Behind'
      BY <1>1, <1>4, <2>1, <2>2 DEF Advance, Behind
    <2> QED  BY <2>3, <2>4
  <1>5. CASE Cycle
    <2>1. /\ row'.min = row.min /\ row'.max = row.max /\ row'.inc = row.inc
          /\ row'.called = row.called /\ issued' = {row'.last}
          /\ row'.last = IF row.inc > 0 THEN row.min ELSE row.max
      BY <1>2, <1>5 DEF Cycle, Give
    <2>2. row.called /\ (~wrapped' => ~wrapped)
      BY <1>5 DEF Cycle
    <2>3. InBounds'
      BY <1>1, <2>1, <2>2 DEF InBounds
    <2>4. row'.last \in Int
      BY <1>1, <2>1
    <2>5. Behind'
      BY <2>1, <2>2, <2>4 DEF Behind
    <2> QED  BY <2>3, <2>5
  <1>6. CASE Exhausted
    BY <1>1, <1>6 DEF Exhausted, InBounds, Behind
  <1>7. ASSUME NEW v \in Int64, SetMinVal(v) PROVE (InBounds /\ Behind)'
    BY <1>1, <1>2, <1>7, IntAssumption DEF SetMinVal, Refuse, InBounds, Behind, Int64, IntMin
  <1>8. ASSUME NEW v \in Int64, SetMaxVal(v) PROVE (InBounds /\ Behind)'
    BY <1>1, <1>2, <1>8, IntAssumption DEF SetMaxVal, Refuse, InBounds, Behind, Int64, IntMin
  <1>9. ASSUME NEW v \in Int64, NEW is_called \in BOOLEAN, SetVal(v, is_called)
        PROVE  (InBounds /\ Behind)'
    <2>1. CASE v > row.max \/ v < row.min
      BY <1>1, <1>9, <2>1 DEF SetVal, Refuse, InBounds, Behind
    <2>2. CASE ~(v > row.max \/ v < row.min)
      <3>1. /\ row' = [row EXCEPT !.last = v, !.called = is_called]
            /\ issued' = {} /\ wrapped' = wrapped
        BY <1>9, <2>2 DEF SetVal
      <3>2. row'.min = row.min /\ row'.max = row.max /\ row'.last = v
        BY <1>2, <3>1
      <3>3. v \in Int
        BY Int64IsInt
      <3> QED  BY <1>1, <2>2, <3>1, <3>2, <3>3 DEF InBounds, Behind
    <2> QED  BY <2>1, <2>2
  <1>10. ASSUME NEW v \in Increments \cup {0}, SetIncrement(v)
         PROVE  (InBounds /\ Behind)'
    <2>1. CASE v = 0
      BY <1>1, <1>10, <2>1 DEF SetIncrement, Refuse, InBounds, Behind
    <2>2. CASE v # 0
      BY <1>1, <1>2, <1>10, <2>2 DEF SetIncrement, InBounds, Behind
    <2> QED  BY <2>1, <2>2
  <1>11. ASSUME NEW c \in BOOLEAN, SetCycle(c) PROVE (InBounds /\ Behind)'
    BY <1>1, <1>2, <1>11 DEF SetCycle, InBounds, Behind
  <1>12. CASE UNCHANGED vars
    BY <1>1, <1>12 DEF vars, InBounds, Behind
  <1> QED
    BY <1>3, <1>4, <1>5, <1>6, <1>7, <1>8, <1>9, <1>10, <1>11, <1>12 DEF Next, NextVal

\* A value given lies ahead of all those given before it.
LEMMA GivesFresh ==
  ASSUME IInv, NextVal, ~wrapped', ~Cycle, ret' = 0
  PROVE  out' \notin issued
  <1>1. /\ row.inc \in Int /\ row.inc # 0 /\ row.last \in Int
        /\ issued \subseteq Int /\ Behind
    BY IncNotZero, IntAssumption DEF IInv, TypeOK, Int64, IntMin
  <1>2. CASE First
    BY <1>1, <1>2 DEF First, Behind
  <1>3. CASE Advance
    <2>1. out' = row.last + row.inc /\ ~wrapped
      BY <1>3 DEF Advance, Give, Sum
    <2> QED  BY <1>1, <2>1 DEF Behind
  <1>4. ~Exhausted
    BY DEF Exhausted
  <1> QED  BY <1>2, <1>3, <1>4 DEF NextVal

\* The row, the last value and the return code keep their types.
THEOREM SequenceTypes == Spec => []TypeOK
  <1>1. IInv => TypeOK
    BY DEF IInv
  <1> QED  BY InitIInv, NextIInv, <1>1, PTL DEF Spec

\* The current value stays within the bounds in force, whatever the setters
\* are called with, as long as no addition has overflowed.
THEOREM SequenceInBounds == Spec => []InBounds
  <1>1. IInv => InBounds
    BY DEF IInv
  <1> QED  BY InitIInv, NextIInv, <1>1, PTL DEF Spec

\* No value is given twice: the ids drawn from a sequence are fresh.
THEOREM SequenceFresh == Spec => Fresh
  <1>1. IInv /\ [Next]_vars
          => [NextVal /\ ret' = 0 /\ ~wrapped' /\ ~Cycle => out' \notin issued]_vars
    BY GivesFresh
  <1> QED  BY InitIInv, NextIInv, <1>1, PTL DEF Spec, Fresh
=============================================================================
