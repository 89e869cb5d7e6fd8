----------------------------- MODULE StorageProofs -----------------------------
(***************************************************************************)
(* The page cache for any sizes of caches, any pages and files, and any    *)
(* outcome of the system calls: frames are accounted for, readers find the *)
(* last change, pointers just handed out stay good, and the disk never     *)
(* goes back.                                                              *)
(*                                                                         *)
(* And memory contexts of any number and size: blocks in use stay apart,   *)
(* arrays fit theirs, and the contexts form one tree.                      *)
(***************************************************************************)
EXTENDS PageCache, Memory, FiniteSetTheorems, SequenceTheorems, WellFoundedInduction, TLAPS

Files == {FileOf(g) : g \in Gids}
OnDisk == Contents \cup {Absent}
Failures == {None, "fd", "stack", "read", "short", "touch"}

\* The records the operators of PageCacheOps are about.
FrameMaps == UNION {[D -> Frames] : D \in SUBSET Gids}
PageCaches == [lru : Seq(Gids), frame : FrameMaps,
               stack : Seq(Frames), mem : [Frames -> Contents],
               disk : [Gids -> OnDisk], files : Seq(Files), failed : Failures]

-----------------------------------------------------------------------------
(* The inductive invariant, as predicates on such a record s.              *)

Once(s) == \A i, j \in DOMAIN s : s[i] = s[j] => i = j

\* No frame serves two pages, or is free twice, or free and in use.
FramesApart(s) ==
  /\ \A g, h \in DOMAIN s.frame : s.frame[g] = s.frame[h] => g = h
  /\ Once(s.stack)
  /\ \A g \in DOMAIN s.frame, i \in DOMAIN s.stack : s.frame[g] # s.stack[i]

\* The pages with a frame are those in the list, each once; k frames are lost.
FramesThere(s, k) ==
  /\ DOMAIN s.frame = Cached(s) /\ Once(s.lru)
  /\ Len(s.lru) + Len(s.stack) + k = PageBuckets + PageChains

\* What a reader of page h finds.
Content(s, h) == IF h \in Cached(s) THEN s.mem[s.frame[h]] ELSE s.disk[h]

ContentFound(s, last, l) ==
  \A h \in Gids \ l : last[h] # Absent => last[h] = Content(s, h)

\* If content c is a change of page h, then d is one as well, and not an older one.
NoOlder(h, c, d) ==
  \A v \in 1 .. MaxStores : c = <<h, v>> => \E w \in v .. MaxStores : d = <<h, w>>

\* What memory has of a page is no older than what the disk has.
MemoryAhead(s) == \A h \in Cached(s) : NoOlder(h, s.disk[h], s.mem[s.frame[h]])

\* All changes there are have been made.
Past(c, n) == \A h \in Gids : \A v \in 1 .. MaxStores : c = <<h, v>> => v <= n
AllPast(s, n) == /\ \A h \in Gids : Past(s.disk[h], n)
                 /\ \A i \in Frames : Past(s.mem[i], n)

Good(s, last, n, l, k) ==
  /\ s \in PageCaches /\ FramesApart(s) /\ AllPast(s, n)
  /\ s.failed = None => FramesThere(s, k) /\ ContentFound(s, last, l) /\ MemoryAhead(s)

\* The pages handed out last head the list, and no more of them than can stay.
HandedHead(s, ps) ==
  /\ Len(ps) <= PageChains + 1 /\ Len(ps) <= Len(s.lru)
  /\ \A i \in DOMAIN ps : /\ ps[i].gid = s.lru[i] /\ ps[i].gid \in DOMAIN s.frame
                          /\ ps[i].frame = s.frame[ps[i].gid]

IInv ==
  /\ latest \in [Gids -> OnDisk] /\ stores \in 0 .. MaxStores
  /\ lost \subseteq Gids /\ leaks \in Nat
  /\ handed \in Seq([gid : Gids, frame : Frames])
  /\ Good(pages, latest, stores, lost, leaks)
  /\ HandedHead(pages, handed)

-----------------------------------------------------------------------------
(* Sequences as caches use them: taken off the end, put to the front.      *)

LEMMA KeySetIn == ASSUME NEW S, NEW s \in Seq(S) PROVE KeySet(s) \subseteq S
BY DEF KeySet

LEMMA ButLruSeq ==
  ASSUME NEW S, NEW s \in Seq(S)
  PROVE  /\ ButLru(s) \in Seq(S)
         /\ s # <<>> => Len(ButLru(s)) = Len(s) - 1 /\ DOMAIN ButLru(s) = 1 .. Len(s) - 1
         /\ \A i \in 1 .. Len(s) - 1 : ButLru(s)[i] = s[i]
<1>1. CASE s = <<>>
  <2>1. SubSeq(s, 1, Len(s) - 1) = <<>>
    BY <1>1
  <2> QED
    BY <1>1, <2>1 DEF ButLru
<1>2. CASE s # <<>>
  <2>1. Len(s) \in Nat /\ Len(s) # 0 /\ DOMAIN s = 1 .. Len(s)
    BY <1>2
  <2>2. /\ SubSeq(s, 1, Len(s) - 1) \in Seq(S)
        /\ Len(SubSeq(s, 1, Len(s) - 1)) = Len(s) - 1
        /\ \A i \in 1 .. Len(s) - 1 : SubSeq(s, 1, Len(s) - 1)[i] = s[i]
    BY <2>1
  <2> QED
    BY <2>1, <2>2 DEF ButLru
<1> QED
  BY <1>1, <1>2

LEMMA WithoutSeq ==
  ASSUME NEW S, NEW s \in Seq(S), NEW p \in DOMAIN s
  PROVE  /\ Without(s, p) \in Seq(S) /\ Len(Without(s, p)) = Len(s) - 1
         /\ DOMAIN Without(s, p) = 1 .. Len(s) - 1
         /\ \A i \in 1 .. Len(s) - 1 :
              Without(s, p)[i] = IF i < p THEN s[i] ELSE s[i + 1]
<1>1. p \in 1 .. Len(s) /\ Len(s) \in Nat /\ DOMAIN s = 1 .. Len(s)
  OBVIOUS
<1>2. \A i \in 1 .. Len(s) - 1 : (IF i < p THEN s[i] ELSE s[i + 1]) \in S
  BY <1>1
<1>3. Without(s, p) \in [1 .. Len(s) - 1 -> S]
  BY <1>2 DEF Without
<1>4. Without(s, p) \in Seq(S) /\ Len(Without(s, p)) = Len(s) - 1
  <2> DEFINE n == Len(s) - 1
             w == Without(s, p)
  <2>1. n \in Nat /\ w \in [1 .. n -> S]
    BY <1>1, <1>3
  <2> HIDE DEF n, w
  <2>2. w \in Seq(S) /\ Len(w) = n
    BY <2>1
  <2> QED
    BY <2>2 DEF n, w
<1> QED
  BY <1>4 DEF Without

LEMMA InFront ==
  ASSUME NEW S, NEW s \in Seq(S), NEW k \in S
  PROVE  /\ <<k>> \o s \in Seq(S) /\ Len(<<k>> \o s) = Len(s) + 1
         /\ DOMAIN (<<k>> \o s) = 1 .. Len(s) + 1
         /\ (<<k>> \o s)[1] = k
         /\ \A i \in 2 .. Len(s) + 1 : (<<k>> \o s)[i] = s[i - 1]
OBVIOUS

LEMMA KeySetInFront ==
  ASSUME NEW S, NEW s \in Seq(S), NEW k \in S
  PROVE  KeySet(<<k>> \o s) = {k} \cup KeySet(s)
<1> DEFINE f == <<k>> \o s
<1>1. /\ DOMAIN f = 1 .. Len(s) + 1 /\ f[1] = k
      /\ \A i \in 2 .. Len(s) + 1 : f[i] = s[i - 1]
  BY InFront
<1>2. Len(s) \in Nat /\ DOMAIN s = 1 .. Len(s)
  OBVIOUS
<1> HIDE DEF f
<1>3. \A i \in DOMAIN s : i + 1 \in 2 .. Len(s) + 1 /\ f[i + 1] = s[i]
  BY <1>1, <1>2
<1>4. \A i \in DOMAIN f : i = 1 \/ (i \in 2 .. Len(s) + 1 /\ i - 1 \in DOMAIN s)
  BY <1>1, <1>2
<1>5. KeySet(f) = {k} \cup KeySet(s)
  BY <1>1, <1>2, <1>3, <1>4 DEF KeySet
<1> QED
  BY <1>5 DEF f

LEMMA OnceInFront ==
  ASSUME NEW S, NEW s \in Seq(S), NEW k \in S, Once(s), k \notin KeySet(s)
  PROVE  Once(<<k>> \o s)
<1> DEFINE f == <<k>> \o s
<1>1. /\ DOMAIN f = 1 .. Len(s) + 1 /\ f[1] = k
      /\ \A i \in 2 .. Len(s) + 1 : f[i] = s[i - 1]
  BY InFront
<1>2. Len(s) \in Nat /\ DOMAIN s = 1 .. Len(s)
  OBVIOUS
<1> HIDE DEF f
<1>3. \A i \in DOMAIN f : i = 1 \/ (i \in 2 .. Len(s) + 1 /\ i - 1 \in DOMAIN s)
  BY <1>1, <1>2
<1>4. \A i \in 2 .. Len(s) + 1 : f[i] # k
  BY <1>1, <1>2, <1>3 DEF KeySet
<1>5. Once(f)
  BY <1>1, <1>2, <1>3, <1>4 DEF Once
<1> QED
  BY <1>5 DEF f

LEMMA RenewedSeq ==
  ASSUME NEW S, NEW s \in Seq(S), NEW k \in KeySet(s), Once(s)
  PROVE  /\ Renewed(s, k) \in Seq(S) /\ Len(Renewed(s, k)) = Len(s)
         /\ KeySet(Renewed(s, k)) = KeySet(s) /\ Once(Renewed(s, k))
         /\ \E p \in DOMAIN s :
              /\ s[p] = k /\ Renewed(s, k)[1] = k
              /\ \A i \in 2 .. Len(s) :
                   Renewed(s, k)[i] = IF i <= p THEN s[i - 1] ELSE s[i]
<1> DEFINE p == Place(s, k)
           w == Without(s, p)
<1>1. p \in DOMAIN s /\ s[p] = k
  BY DEF KeySet, Place
<1>2. k \in S /\ Len(s) \in Nat /\ DOMAIN s = 1 .. Len(s)
  BY <1>1
<1> HIDE DEF p
<1>3. /\ w \in Seq(S) /\ Len(w) = Len(s) - 1 /\ DOMAIN w = 1 .. Len(s) - 1
      /\ \A i \in 1 .. Len(s) - 1 : w[i] = IF i < p THEN s[i] ELSE s[i + 1]
  BY <1>1, WithoutSeq
<1> HIDE DEF w
<1>4. Renewed(s, k) = <<k>> \o w
  BY DEF Renewed, p, w
<1>5. /\ <<k>> \o w \in Seq(S) /\ Len(<<k>> \o w) = Len(s) /\ (<<k>> \o w)[1] = k
      /\ \A i \in 2 .. Len(s) : (<<k>> \o w)[i] = w[i - 1]
  <2> DEFINE f == <<k>> \o w
  <2>1. /\ f \in Seq(S) /\ Len(f) = Len(w) + 1 /\ f[1] = k
        /\ \A i \in 2 .. Len(w) + 1 : f[i] = w[i - 1]
    <3>1. w \in Seq(S) /\ k \in S
      BY <1>2, <1>3
    <3> QED
      BY <3>1, InFront
  <2> HIDE DEF f
  <2>2. f \in Seq(S) /\ Len(f) = Len(s) /\ f[1] = k /\ \A i \in 2 .. Len(s) : f[i] = w[i - 1]
    BY <1>2, <1>3, <2>1
  <2> QED
    BY <2>2 DEF f
<1>6. \A i \in 2 .. Len(s) : (<<k>> \o w)[i] = IF i <= p THEN s[i - 1] ELSE s[i]
  <2> SUFFICES ASSUME NEW i \in 2 .. Len(s)
               PROVE  (<<k>> \o w)[i] = IF i <= p THEN s[i - 1] ELSE s[i]
    OBVIOUS
  <2>1. i - 1 \in 1 .. Len(s) - 1 /\ (i - 1 < p <=> i <= p) /\ (i - 1) + 1 = i
    BY <1>1, <1>2
  <2> QED
    BY <2>1, <1>3, <1>5
<1>7. Once(w)
  <2> SUFFICES ASSUME NEW i \in DOMAIN w, NEW j \in DOMAIN w, w[i] = w[j] PROVE i = j
    BY DEF Once
  <2>1. (IF i < p THEN i ELSE i + 1) = (IF j < p THEN j ELSE j + 1)
    BY <1>1, <1>2, <1>3 DEF Once
  <2> QED
    BY <2>1, <1>1, <1>2, <1>3
<1>8. k \notin KeySet(w)
  <2> SUFFICES ASSUME NEW i \in DOMAIN w PROVE w[i] # k
    BY DEF KeySet
  <2>1. (IF i < p THEN i ELSE i + 1) \in DOMAIN s /\ (IF i < p THEN i ELSE i + 1) # p
    BY <1>1, <1>2, <1>3
  <2>2. w[i] = s[IF i < p THEN i ELSE i + 1]
    BY <1>3
  <2> QED
    BY <2>1, <2>2, <1>1 DEF Once
<1>9. KeySet(s) = {k} \cup KeySet(w)
  <2>1. ASSUME NEW i \in DOMAIN s PROVE s[i] \in {k} \cup KeySet(w)
    <3>1. CASE i < p
      <4>1. i \in DOMAIN w /\ w[i] = s[i]
        BY <3>1, <1>1, <1>2, <1>3
      <4> QED
        BY <4>1 DEF KeySet
    <3>2. CASE i > p
      <4>1. i - 1 \in DOMAIN w /\ ~(i - 1 < p) /\ (i - 1) + 1 = i
        BY <3>2, <1>1, <1>2, <1>3
      <4>2. w[i - 1] = s[i]
        BY <4>1, <1>3
      <4> QED
        BY <4>1, <4>2 DEF KeySet
    <3> QED
      BY <3>1, <3>2, <1>1, <1>2
  <2>2. ASSUME NEW i \in DOMAIN w PROVE w[i] \in KeySet(s)
    <3>1. (IF i < p THEN i ELSE i + 1) \in DOMAIN s
      BY <1>1, <1>2, <1>3
    <3>2. w[i] = s[IF i < p THEN i ELSE i + 1]
      BY <1>3
    <3> QED
      BY <3>1, <3>2 DEF KeySet
  <2> QED
    BY <2>1, <2>2, <1>1 DEF KeySet
<1>10. KeySet(<<k>> \o w) = KeySet(s) /\ Once(<<k>> \o w)
  BY <1>2, <1>3, <1>7, <1>8, <1>9, KeySetInFront, OnceInFront
<1> QED
  BY <1>1, <1>4, <1>5, <1>6, <1>10

\* What is taken off the end of a sequence without repetitions is no longer in it.
LEMMA ButLruKeys ==
  ASSUME NEW S, NEW s \in Seq(S), Once(s), s # <<>>
  PROVE  /\ Lru(s) \in KeySet(s) /\ Lru(s) \in S
         /\ KeySet(ButLru(s)) = KeySet(s) \ {Lru(s)} /\ Once(ButLru(s))
<1>1. /\ ButLru(s) \in Seq(S) /\ DOMAIN ButLru(s) = 1 .. Len(s) - 1
      /\ \A i \in 1 .. Len(s) - 1 : ButLru(s)[i] = s[i]
  BY ButLruSeq
<1>2. Len(s) \in Nat /\ Len(s) \in DOMAIN s /\ DOMAIN s = 1 .. Len(s)
  OBVIOUS
<1>3. Lru(s) = s[Len(s)]
  BY DEF Lru
<1>4. 1 .. Len(s) - 1 = DOMAIN s \ {Len(s)}
  BY <1>2
<1> QED
  BY <1>1, <1>2, <1>3, <1>4 DEF KeySet, Once

-----------------------------------------------------------------------------
(* Constants, contents and types.                                          *)

LEMMA FrameMap ==
  ASSUME NEW f
  PROVE  f \in FrameMaps <=> /\ DOMAIN f \subseteq Gids /\ f = [g \in DOMAIN f |-> f[g]]
                             /\ \A g \in DOMAIN f : f[g] \in Frames
<1>1. ASSUME f \in FrameMaps
      PROVE  /\ DOMAIN f \subseteq Gids /\ f = [g \in DOMAIN f |-> f[g]]
             /\ \A g \in DOMAIN f : f[g] \in Frames
  <2>1. PICK D \in SUBSET Gids : f \in [D -> Frames]
    BY <1>1 DEF FrameMaps
  <2> QED
    BY <2>1
<1>2. ASSUME DOMAIN f \subseteq Gids, f = [g \in DOMAIN f |-> f[g]],
             \A g \in DOMAIN f : f[g] \in Frames
      PROVE  f \in FrameMaps
  <2>1. DOMAIN f \in SUBSET Gids /\ f \in [DOMAIN f -> Frames]
    BY <1>2
  <2> QED
    BY <2>1 DEF FrameMaps
<1> QED
  BY <1>1, <1>2

LEMMA FrameCount ==
  ASSUME SizeAssumption
  PROVE  /\ Frames = 0 .. PageBuckets + PageChains - 1 /\ Frames # {}
         /\ PageBuckets + PageChains \in Nat \ {0}
         /\ PageBuckets \in Nat /\ PageChains \in Nat
         /\ Cardinality(Frames) = PageBuckets + PageChains
<1>1. /\ Frames = 0 .. PageBuckets + PageChains - 1 /\ PageBuckets \in Nat
      /\ PageBuckets + PageChains \in Nat \ {0} /\ PageChains \in Nat
  BY DEF SizeAssumption, Frames
<1>2. 0 \in Frames
  BY <1>1
<1>3. Cardinality(Frames) = PageBuckets + PageChains
  <2> DEFINE n == PageBuckets + PageChains - 1
  <2>1. n \in Int /\ 0 \in Int /\ ~(0 > n) /\ n - 0 + 1 = PageBuckets + PageChains
    BY <1>1
  <2> HIDE DEF n
  <2>2. Cardinality(0 .. n) = n - 0 + 1
    BY <2>1, FS_Interval
  <2> QED
    BY <1>1, <2>1, <2>2 DEF n
<1> QED
  BY <1>1, <1>2, <1>3

\* No version of a page is an older one than Blank or Absent.
LEMMA NoVersion ==
  ASSUME SizeAssumption, NEW h \in Gids, NEW v \in 1 .. MaxStores
  PROVE  Blank # <<h, v>> /\ Absent # <<h, v>> /\ Torn # <<h, v>>
<1>1. <<h, v>> \in Gids \X (1 .. MaxStores)
  OBVIOUS
<1> QED
  BY <1>1 DEF SizeAssumption

LEMMA NoOlderFacts ==
  ASSUME SizeAssumption, NEW h \in Gids, NEW c, NEW d, NEW e, NEW n \in 0 .. MaxStores
  PROVE  /\ NoOlder(h, c, c) /\ NoOlder(h, Absent, c)
         /\ NoOlder(h, c, d) /\ NoOlder(h, d, e) => NoOlder(h, c, e)
         /\ Past(c, n) /\ n + 1 <= MaxStores => NoOlder(h, c, <<h, n + 1>>)
<1>1. NoOlder(h, c, c) /\ NoOlder(h, Absent, c)
  BY NoVersion DEF SizeAssumption, NoOlder
<1>2. NoOlder(h, c, d) /\ NoOlder(h, d, e) => NoOlder(h, c, e)
  BY DEF SizeAssumption, NoOlder
<1>3. Past(c, n) /\ n + 1 <= MaxStores => NoOlder(h, c, <<h, n + 1>>)
  BY DEF SizeAssumption, NoOlder, Past
<1> QED
  BY <1>1, <1>2, <1>3

LEMMA NeverMade ==
  ASSUME SizeAssumption, NEW n PROVE Past(Blank, n) /\ Past(Absent, n) /\ Past(Torn, n)
BY NoVersion DEF Past

\* The table has no room for one more page only if the cache has more pages than
\* there are overflow nodes.
LEMMA NoRoom ==
  ASSUME SizeAssumption, NEW s \in Seq(Gids), NEW g \in Gids, ~PageRoom(KeySet(s), g)
  PROVE  Len(s) >= PageChains + 1 /\ s # <<>>
<1> DEFINE K == KeySet(s)
           B == {PageBucket[k] : k \in K}
           f == [k \in K |-> PageBucket[k]]
<1>1. Len(s) \in Nat /\ DOMAIN s = 1 .. Len(s) /\ s \in [1 .. Len(s) -> Gids]
  OBVIOUS
<1>2. IsFiniteSet(1 .. Len(s)) /\ Cardinality(1 .. Len(s)) = Len(s)
  BY <1>1, FS_Interval
<1>3. s \in Surjection(1 .. Len(s), K)
  BY <1>1 DEF Surjection, KeySet
<1>4. IsFiniteSet(K) /\ Cardinality(K) <= Len(s)
  BY <1>2, <1>3, FS_Surjection
<1>5. f \in Surjection(K, B)
  BY DEF Surjection
<1>6. PageBucket[g] \in B /\ Overflow(K, PageBucket) >= PageChains
  <2>1. PageBucket[g] \in B /\ ~(Overflow(K, PageBucket) < PageChains)
    BY DEF PageRoom, RoomFor
  <2>2. IsFiniteSet(B)
    BY <1>4, <1>5, FS_Surjection
  <2>3. Cardinality(K) \in Nat /\ Cardinality(B) \in Nat
    BY <1>4, <2>2, FS_CardinalityType
  <2> QED
    BY <2>1, <2>3, FrameCount DEF Overflow
<1>7. IsFiniteSet(B) /\ Cardinality(B) \in Nat /\ Cardinality(K) \in Nat
  BY <1>4, <1>5, FS_Surjection, FS_CardinalityType
<1>8. Cardinality(B) # 0
  BY <1>6, <1>7, FS_EmptySet
<1>9. Cardinality(K) - Cardinality(B) >= PageChains
  BY <1>6 DEF Overflow
<1>10. Len(s) >= PageChains + 1
  <2> HIDE DEF K, B
  <2> QED
    BY <1>1, <1>4, <1>7, <1>8, <1>9, FrameCount
<1> QED
  BY <1>10, FrameCount

\* The outcome of a system call is one of two.
LEMMA OutcomeTypes ==
  ASSUME SizeAssumption, NEW io \in Outcomes
  PROVE  /\ io.open_w \in BOOLEAN /\ io.write \in BOOLEAN /\ io.whole \in BOOLEAN
         /\ io.open_r \in BOOLEAN /\ io.read \in BOOLEAN
BY DEF SizeAssumption, Outcomes

-----------------------------------------------------------------------------
(* The operators: what they change of a record.                            *)

LEMMA FdPutFiles ==
  ASSUME NEW files \in Seq(Files), NEW f \in Files, NEW can
  PROVE  FdPut(files, f, can) \in Seq(Files)
<1>1. ButLru(files) \in Seq(Files)
  BY ButLruSeq
<1>2. <<f>> \o files \in Seq(Files) /\ <<f>> \o ButLru(files) \in Seq(Files)
  BY <1>1
<1>3. ASSUME f \in KeySet(files) PROVE Renewed(files, f) \in Seq(Files)
  <2>1. Place(files, f) \in DOMAIN files
    BY <1>3 DEF KeySet, Place
  <2>2. Without(files, Place(files, f)) \in Seq(Files)
    BY <2>1, WithoutSeq
  <2> QED
    BY <2>2 DEF Renewed
<1> QED
  BY <1>1, <1>2, <1>3 DEF FdPut

\* Opening a file changes nothing but the open files, or fails.
Opened(s, t) ==
  /\ t \in PageCaches /\ t.lru = s.lru /\ t.frame = s.frame /\ t.stack = s.stack
  /\ t.mem = s.mem /\ t.disk = s.disk /\ t.failed \in {s.failed, "fd"}

LEMMA WithFileOpens ==
  ASSUME NEW s \in PageCaches, NEW g \in Gids, NEW can
  PROVE  Opened(s, WithFile(s, g, can))
<1> DEFINE t == [s EXCEPT !.files = FdPut(s.files, FileOf(g), can)]
<1>1. FileOf(g) \in Files
  BY DEF Files
<1>2. s.files \in Seq(Files) /\ FdPut(s.files, FileOf(g), can) \in Seq(Files)
  BY <1>1, FdPutFiles DEF PageCaches
<1>3. Opened(s, t)
  BY <1>2 DEF Opened, PageCaches
<1>4. Opened(s, Fail(t, "fd"))
  BY <1>2 DEF Opened, PageCaches, Fail, Failures
<1> QED
  BY <1>3, <1>4 DEF WithFile

\* A page written: on disk, and its frame on the stack.
Written(s, g, t) ==
  /\ t.disk = [s.disk EXCEPT ![g] = s.mem[s.frame[g]]]
  /\ t.stack = Append(s.stack, s.frame[g])

\* Nothing is on disk that was not there, but for pages written in part.
DiskKept(s, t) == \A h \in Gids : t.disk[h] \in {s.disk[h], Torn}

LEMMA WriteWrites ==
  ASSUME NEW s \in PageCaches, s.failed = None, NEW g \in DOMAIN s.frame, NEW io \in Outcomes,
         NEW t, t = pagecache_write(s, g, io)
  PROVE  /\ t \in PageCaches /\ t.lru = s.lru /\ t.frame = s.frame /\ t.mem = s.mem
         /\ IF t.failed # None THEN DiskKept(s, t) /\ t.stack = s.stack
            ELSE /\ IF io.write THEN Written(s, g, t) ELSE t.disk = s.disk /\ t.stack = s.stack
                 /\ WithFile(s, g, io.open_w).failed = None
<1> DEFINE o == WithFile(s, g, io.open_w)
           m == o.mem[o.frame[g]]
           c == Partly(o, g)
<1>1. g \in Gids /\ s.frame[g] \in Frames
  BY FrameMap DEF PageCaches
<1>2. Opened(s, o)
  BY <1>1, WithFileOpens
<1>3. t = IF o.failed # None \/ ~io.write THEN o
          ELSE IF ~io.whole THEN Fail([o EXCEPT !.disk[g] = c], "short")
          ELSE [o EXCEPT !.disk[g] = m, !.stack = Append(o.stack, o.frame[g])]
  BY DEF pagecache_write
<1>4. /\ o \in PageCaches /\ o.disk \in [Gids -> OnDisk] /\ o.stack \in Seq(Frames)
      /\ o.frame[g] = s.frame[g] /\ m = s.mem[s.frame[g]] /\ m \in OnDisk
      /\ o.disk = s.disk
  BY <1>1, <1>2 DEF Opened, PageCaches, OnDisk
<1>5. c \in {s.disk[g], Torn} /\ c \in OnDisk
  BY <1>1, <1>4 DEF Partly, OnDisk, Contents
<1> HIDE DEF o, m, c
<1>6. CASE o.failed # None \/ ~io.write
  BY <1>2, <1>3, <1>6 DEF Opened, DiskKept, o
<1>7. CASE ~(o.failed # None \/ ~io.write) /\ ~io.whole
  <2> DEFINE d == [o.disk EXCEPT ![g] = c]
  <2>1. d \in [Gids -> OnDisk] /\ \A h \in Gids : d[h] \in {s.disk[h], Torn}
    BY <1>1, <1>4, <1>5
  <2>2. t = [o EXCEPT !.disk = d, !.failed = "short"]
    BY <1>3, <1>4, <1>7 DEF PageCaches, Fail
  <2> HIDE DEF d
  <2>3. /\ t \in PageCaches /\ t.lru = o.lru /\ t.frame = o.frame /\ t.mem = o.mem
        /\ t.failed # None /\ t.disk = d /\ t.stack = o.stack
    BY <1>4, <2>1, <2>2 DEF PageCaches, Failures, None
  <2> QED
    BY <1>2, <2>1, <2>3 DEF Opened, DiskKept
<1>8. CASE ~(o.failed # None \/ ~io.write) /\ io.whole
  <2>1. /\ [o.disk EXCEPT ![g] = m] \in [Gids -> OnDisk]
        /\ Append(o.stack, o.frame[g]) \in Seq(Frames)
    BY <1>1, <1>4
  <2>2. t = [o EXCEPT !.disk = [o.disk EXCEPT ![g] = m], !.stack = Append(o.stack, o.frame[g])]
    BY <1>3, <1>8, <1>4 DEF PageCaches
  <2>3. /\ t \in PageCaches /\ t.lru = o.lru /\ t.frame = o.frame /\ t.mem = o.mem
        /\ t.failed = o.failed /\ t.disk = [o.disk EXCEPT ![g] = m]
        /\ t.stack = Append(o.stack, o.frame[g])
    BY <1>4, <2>1, <2>2 DEF PageCaches
  <2> QED
    BY <1>2, <1>4, <1>8, <2>3 DEF Opened, Written, o
<1> QED
  BY <1>6, <1>7, <1>8

\* Room made for page g: there was room, or the least recent page has left,
\* written to disk unless the write failed.
Evicted(s, io, t) ==
  /\ s.lru # <<>> /\ Len(s.lru) >= PageChains + 1 /\ t.lru = ButLru(s.lru)
  /\ t.frame = [h \in DOMAIN s.frame \ {Lru(s.lru)} |-> s.frame[h]]
  /\ t.mem = s.mem
  /\ IF io.write THEN Written(s, Lru(s.lru), t) ELSE t.disk = s.disk /\ t.stack = s.stack

\* The file was not opened, or the page not written to its end: nothing else has changed.
Stuck(s, t) == /\ t.lru = s.lru /\ t.frame = s.frame /\ t.stack = s.stack
               /\ t.mem = s.mem /\ DiskKept(s, t) /\ t.failed # None

LEMMA RoomMade ==
  ASSUME SizeAssumption, NEW s \in PageCaches, NEW g \in Gids, NEW io \in Outcomes,
         s.failed = None, DOMAIN s.frame = Cached(s), Once(s.lru),
         NEW t, t = MakeRoom(s, g, io)
  PROVE  /\ t \in PageCaches
         /\ \/ PageRoom(Cached(s), g) /\ t = s
            \/ ~PageRoom(Cached(s), g) /\ Stuck(s, t)
            \/ ~PageRoom(Cached(s), g) /\ Evicted(s, io, t)
               /\ WithFile(s, Lru(s.lru), io.open_w).failed = None
<1>1. CASE PageRoom(Cached(s), g)
  BY <1>1 DEF MakeRoom
<1>2. CASE ~PageRoom(Cached(s), g)
  <2> DEFINE v == Lru(s.lru)
             w == pagecache_write(s, v, io)
  <2>1. s.lru \in Seq(Gids)
    BY DEF PageCaches
  <2>2. Len(s.lru) >= PageChains + 1 /\ s.lru # <<>>
    BY <1>2, <2>1, NoRoom DEF Cached
  <2>3. v \in Cached(s)
    BY <2>1, <2>2, ButLruKeys DEF Cached
  <2>4. /\ w \in PageCaches /\ w.lru = s.lru /\ w.frame = s.frame /\ w.mem = s.mem
        /\ IF w.failed # None THEN DiskKept(s, w) /\ w.stack = s.stack
           ELSE /\ IF io.write THEN Written(s, v, w) ELSE w.disk = s.disk /\ w.stack = s.stack
                /\ WithFile(s, v, io.open_w).failed = None
    <3>1. v \in DOMAIN s.frame
      BY <2>3
    <3> HIDE DEF v
    <3> QED
      BY <3>1, WriteWrites
  <2>5. t = IF w.failed # None THEN w
            ELSE IF PageRoom(KeySet(ButLru(s.lru)), g) THEN Erase(w)
            ELSE Fail(Erase(w), "touch")
    BY <1>2 DEF MakeRoom
  <2> HIDE DEF w
  <2>6. CASE w.failed # None
    BY <2>4, <2>5, <2>6, <1>2 DEF Stuck
  <2>7. CASE w.failed = None
    <3> DEFINE e == Erase(w)
    <3>1. /\ ButLru(w.lru) \in Seq(Gids)
          /\ [h \in DOMAIN w.frame \ {v} |-> w.frame[h]] \in FrameMaps
      <4>1. w.lru \in Seq(Gids) /\ w.frame \in FrameMaps
        BY <2>4 DEF PageCaches
      <4> HIDE DEF v
      <4>2. DOMAIN w.frame \subseteq Gids /\ \A h \in DOMAIN w.frame : w.frame[h] \in Frames
        BY <4>1, FrameMap
      <4> QED
        BY <4>1, <4>2, ButLruSeq, FrameMap
    <3>2. e = [w EXCEPT !.lru = ButLru(w.lru),
                        !.frame = [h \in DOMAIN w.frame \ {v} |-> w.frame[h]]]
      BY <2>4 DEF Erase
    <3>3. /\ e \in PageCaches /\ e.lru = ButLru(s.lru) /\ e.mem = s.mem
          /\ e.frame = [h \in DOMAIN s.frame \ {v} |-> s.frame[h]]
          /\ e.disk = w.disk /\ e.stack = w.stack
      <4> DEFINE l == ButLru(w.lru)
                 f == [h \in DOMAIN w.frame \ {v} |-> w.frame[h]]
      <4>1. l \in Seq(Gids) /\ f \in FrameMaps /\ e = [w EXCEPT !.lru = l, !.frame = f]
        BY <3>1, <3>2
      <4>2. l = ButLru(s.lru) /\ f = [h \in DOMAIN s.frame \ {v} |-> s.frame[h]]
        BY <2>4
      <4> HIDE DEF l, f, e
      <4>3. /\ e \in PageCaches /\ e.lru = l /\ e.mem = w.mem /\ e.frame = f
            /\ e.disk = w.disk /\ e.stack = w.stack
        BY <2>4, <4>1 DEF PageCaches
      <4> QED
        BY <2>4, <4>2, <4>3
    <3> HIDE DEF e
    <3>4. /\ Fail(e, "touch") \in PageCaches /\ Fail(e, "touch").lru = e.lru
          /\ Fail(e, "touch").mem = e.mem /\ Fail(e, "touch").frame = e.frame
          /\ Fail(e, "touch").disk = e.disk /\ Fail(e, "touch").stack = e.stack
      BY <3>3 DEF PageCaches, Fail, Failures
    <3>5. t = e \/ t = Fail(e, "touch")
      BY <2>5, <2>7 DEF e
    <3>6. t \in PageCaches /\ Evicted(s, io, t)
      BY <2>2, <2>4, <2>7, <3>3, <3>4, <3>5 DEF Evicted, Written
    <3> QED
      BY <1>2, <2>4, <2>7, <3>6
  <2> QED
    BY <2>6, <2>7
<1> QED
  BY <1>1, <1>2

\* A page read into the frame that was on top of the stack; what the frame has of
\* it is what the disk has, if it has any of it.
Brought(s, g, t) ==
  /\ s.stack # <<>> /\ t.lru = s.lru /\ t.stack = ButLru(s.stack) /\ t.disk = s.disk
  /\ t.frame = [h \in DOMAIN s.frame \cup {g} |->
                  IF h = g THEN Lru(s.stack) ELSE s.frame[h]]
  /\ \E c \in Contents \cap ({s.disk[g], Blank} \cup {s.mem[i] : i \in Frames}) :
       /\ s.disk[g] # Absent => c = s.disk[g]
       /\ t.mem = [s.mem EXCEPT ![Lru(s.stack)] = c]

\* A read that failed: at most the frame has left the stack.
Refused(s, t) ==
  /\ t.lru = s.lru /\ t.frame = s.frame /\ t.mem = s.mem /\ t.disk = s.disk
  /\ t.stack \in {s.stack, ButLru(s.stack)} /\ t.failed # None

LEMMA ReadBrings ==
  ASSUME SizeAssumption, NEW s \in PageCaches, NEW g \in Gids, NEW io \in Outcomes,
         s.failed = None, NEW t, t = pagecache_read(s, g, io)
  PROVE  /\ t \in PageCaches
         /\ Refused(s, t) \/ (Brought(s, g, t) /\ t.failed = None)
<1>1. CASE s.stack = <<>>
  <2>1. t = Fail(s, "stack")
    BY <1>1 DEF pagecache_read
  <2> QED
    BY <2>1 DEF Fail, PageCaches, Refused, Failures, None
<1>2. CASE s.stack # <<>>
  <2> DEFINE i == Lru(s.stack)
             p == [s EXCEPT !.stack = ButLru(s.stack)]
             o == WithFile(p, g, io.open_r)
             c == Loaded(o, g, o.mem[i])
             u == [o EXCEPT !.mem[i] = c,
                            !.frame = [h \in DOMAIN o.frame \cup {g} |->
                                         IF h = g THEN i ELSE o.frame[h]]]
  <2>1. t = IF o.failed # None THEN o ELSE IF ~io.read THEN Fail(o, "read") ELSE u
    BY <1>2 DEF pagecache_read
  <2>2. s.stack \in Seq(Frames) /\ ButLru(s.stack) \in Seq(Frames) /\ i \in Frames
    <3>1. s.stack \in Seq(Frames)
      BY DEF PageCaches
    <3> QED
      BY <1>2, <3>1, ButLruSeq DEF Lru
  <2>3. /\ p \in PageCaches /\ p.lru = s.lru /\ p.frame = s.frame /\ p.mem = s.mem
        /\ p.disk = s.disk /\ p.stack = ButLru(s.stack) /\ p.failed = None
    BY <2>2 DEF PageCaches
  <2> HIDE DEF p
  <2>4. Opened(p, o)
    BY <2>3, WithFileOpens
  <2> HIDE DEF o, i
  <2>5. CASE o.failed # None
    BY <2>1, <2>3, <2>4, <2>5 DEF Opened, Refused
  <2>6. CASE o.failed = None /\ ~io.read
    <3>1. t = Fail(o, "read")
      BY <2>1, <2>6
    <3> QED
      BY <2>3, <2>4, <3>1 DEF Opened, Refused, Fail, PageCaches, Failures, None
  <2>7. CASE o.failed = None /\ io.read
    <3>1. /\ o \in PageCaches /\ o.lru = s.lru /\ o.frame = s.frame /\ o.mem = s.mem
          /\ o.disk = s.disk /\ o.stack = ButLru(s.stack)
      BY <2>3, <2>4 DEF Opened
    <3>2. /\ s.disk \in [Gids -> OnDisk] /\ s.mem \in [Frames -> Contents]
          /\ s.frame \in FrameMaps
      BY DEF PageCaches
    <3>3. /\ c \in Contents
          /\ s.disk[g] # Absent => c = s.disk[g]
          /\ c \in {s.disk[g], Blank} \cup {s.mem[j] : j \in Frames}
      BY <2>2, <3>1, <3>2 DEF Loaded, OnDisk, Contents
    <3> HIDE DEF c
    <3>4. [h \in DOMAIN s.frame \cup {g} |-> IF h = g THEN i ELSE s.frame[h]] \in FrameMaps
      <4>1. DOMAIN s.frame \subseteq Gids /\ \A h \in DOMAIN s.frame : s.frame[h] \in Frames
        BY <3>2, FrameMap
      <4> DEFINE f == [h \in DOMAIN s.frame \cup {g} |-> IF h = g THEN i ELSE s.frame[h]]
      <4>2. /\ DOMAIN f \subseteq Gids /\ f = [h \in DOMAIN f |-> f[h]]
            /\ \A h \in DOMAIN f : f[h] \in Frames
        BY <2>2, <4>1
      <4> HIDE DEF f
      <4>3. f \in FrameMaps
        BY <4>2, FrameMap
      <4> QED
        BY <4>3 DEF f
    <3>5. [s.mem EXCEPT ![i] = c] \in [Frames -> Contents]
      BY <3>2, <3>3
    <3>6. u = [o EXCEPT !.mem = [s.mem EXCEPT ![i] = c],
                        !.frame = [h \in DOMAIN s.frame \cup {g} |->
                                     IF h = g THEN i ELSE s.frame[h]]]
      BY <3>1 DEF PageCaches
    <3>7. /\ u \in PageCaches /\ u.lru = s.lru /\ u.stack = ButLru(s.stack)
          /\ u.disk = s.disk /\ u.failed = None
          /\ u.frame = [h \in DOMAIN s.frame \cup {g} |-> IF h = g THEN i ELSE s.frame[h]]
          /\ u.mem = [s.mem EXCEPT ![i] = c]
      BY <2>7, <3>1, <3>4, <3>5, <3>6 DEF PageCaches
    <3> HIDE DEF u
    <3>8. t = u
      BY <2>1, <2>7
    <3>9. Brought(s, g, u)
      BY <1>2, <3>3, <3>7 DEF Brought, i
    <3> QED
      BY <3>7, <3>8, <3>9
  <2> QED
    BY <2>5, <2>6, <2>7
<1> QED
  BY <1>1, <1>2

-----------------------------------------------------------------------------
(* What they preserve.                                                     *)

\* The disk keeps versions in order, but for pages written in part.
DiskAdvances(s, t) == \A h \in Gids : t.disk[h] = Torn \/ NoOlder(h, s.disk[h], t.disk[h])

LEMMA SameDisk ==
  ASSUME SizeAssumption, NEW s, NEW t, t.disk = s.disk
  PROVE  DiskAdvances(s, t)
BY DEF DiskAdvances, NoOlder, SizeAssumption

LEMMA Kept ==
  ASSUME SizeAssumption, NEW s, NEW t, DiskKept(s, t)
  PROVE  DiskAdvances(s, t)
BY DEF DiskAdvances, DiskKept, NoOlder, SizeAssumption

LEMMA SameFrames ==
  ASSUME NEW s, NEW t, NEW k, t.frame = s.frame, t.stack = s.stack, t.lru = s.lru,
         FramesApart(s), FramesThere(s, k)
  PROVE  FramesApart(t) /\ FramesThere(t, k)
<1>1. FramesApart(t)
  BY DEF FramesApart
<1>2. Cached(t) = Cached(s)
  BY DEF Cached
<1> QED
  BY <1>1, <1>2 DEF FramesThere

LEMMA FieldTypes ==
  ASSUME NEW s \in PageCaches
  PROVE  /\ s.lru \in Seq(Gids) /\ s.stack \in Seq(Frames) /\ s.frame \in FrameMaps
         /\ s.mem \in [Frames -> Contents] /\ s.disk \in [Gids -> OnDisk]
         /\ DOMAIN s.frame \subseteq Gids /\ \A h \in DOMAIN s.frame : s.frame[h] \in Frames
BY FrameMap DEF PageCaches

\* One content of the disk replaced by what memory has of the page.
LEMMA Saved ==
  ASSUME SizeAssumption, NEW s \in PageCaches, NEW n \in 0 .. MaxStores,
         NEW v \in DOMAIN s.frame, AllPast(s, n),
         NoOlder(v, s.disk[v], s.mem[s.frame[v]]), NEW t, t \in PageCaches, t.mem = s.mem,
         t.disk = [s.disk EXCEPT ![v] = s.mem[s.frame[v]]]
  PROVE  AllPast(t, n) /\ DiskAdvances(s, t)
<1>1. /\ v \in Gids /\ s.frame[v] \in Frames
      /\ s.mem \in [Frames -> Contents] /\ s.disk \in [Gids -> OnDisk]
  BY FieldTypes
<1>2. \A h \in Gids : t.disk[h] = IF h = v THEN s.mem[s.frame[v]] ELSE s.disk[h]
  BY <1>1
<1>3. AllPast(t, n)
  BY <1>1, <1>2 DEF AllPast
<1>4. ASSUME NEW h \in Gids PROVE NoOlder(h, s.disk[h], t.disk[h])
  <2>1. CASE h = v
    BY <1>2, <2>1
  <2>2. CASE h # v
    BY <1>2, <2>2, NoOlderFacts
  <2> QED
    BY <2>1, <2>2
<1> QED
  BY <1>3, <1>4 DEF DiskAdvances

LEMMA EvictKeeps ==
  ASSUME SizeAssumption, NEW s, NEW t \in PageCaches, NEW io \in Outcomes,
         NEW last, NEW n \in 0 .. MaxStores, NEW l, NEW k \in Nat,
         Good(s, last, n, l, k), s.failed = None, Evicted(s, io, t)
  PROVE  /\ Good(t, last, n, IF io.write THEN l ELSE l \cup {Lru(s.lru)},
                 IF io.write THEN k ELSE k + 1)
         /\ DiskAdvances(s, t) /\ Cached(t) \subseteq Cached(s)
<1> DEFINE v == Lru(s.lru)
<1>1. /\ s \in PageCaches /\ FramesApart(s) /\ AllPast(s, n)
      /\ FramesThere(s, k) /\ ContentFound(s, last, l) /\ MemoryAhead(s)
  BY DEF Good
<1>2. /\ s.lru \in Seq(Gids) /\ s.stack \in Seq(Frames)
      /\ s.mem \in [Frames -> Contents] /\ s.disk \in [Gids -> OnDisk]
      /\ DOMAIN s.frame \subseteq Gids /\ \A h \in DOMAIN s.frame : s.frame[h] \in Frames
  BY <1>1, FieldTypes
<1>3. /\ v \in Cached(s) /\ Cached(t) = Cached(s) \ {v} /\ Once(t.lru)
      /\ Len(t.lru) = Len(s.lru) - 1 /\ v \in DOMAIN s.frame /\ v \in Gids
      /\ DOMAIN s.frame = Cached(s)
  <2>1. s.lru # <<>> /\ t.lru = ButLru(s.lru)
    BY DEF Evicted
  <2>2. v \in KeySet(s.lru) /\ KeySet(t.lru) = KeySet(s.lru) \ {v} /\ Once(t.lru)
    BY <1>1, <1>2, <2>1, ButLruKeys DEF FramesThere
  <2>3. Len(t.lru) = Len(s.lru) - 1
    BY <1>2, <2>1, ButLruSeq
  <2> QED
    BY <1>1, <1>2, <2>2, <2>3 DEF Cached, FramesThere
<1>4. /\ t.frame = [h \in DOMAIN s.frame \ {v} |-> s.frame[h]] /\ t.mem = s.mem
      /\ io.write => /\ t.disk = [s.disk EXCEPT ![v] = s.mem[s.frame[v]]]
                     /\ t.stack = Append(s.stack, s.frame[v])
      /\ ~io.write => t.disk = s.disk /\ t.stack = s.stack
  BY DEF Evicted, Written
<1> HIDE DEF v
<1>5. FramesApart(t)
  <2>1. ASSUME NEW i \in DOMAIN t.stack
        PROVE  \/ i \in DOMAIN s.stack /\ t.stack[i] = s.stack[i]
               \/ io.write /\ i = Len(s.stack) + 1 /\ t.stack[i] = s.frame[v]
    <3>1. CASE io.write
      <4>1. t.stack = Append(s.stack, s.frame[v]) /\ s.frame[v] \in Frames
        BY <1>2, <1>3, <1>4, <3>1
      <4>2. DOMAIN t.stack = 1 .. Len(s.stack) + 1 /\ DOMAIN s.stack = 1 .. Len(s.stack)
        BY <1>2, <4>1, AppendProperties, LenProperties
      <4> QED
        BY <1>2, <2>1, <3>1, <4>1, <4>2, AppendProperties
    <3>2. CASE ~io.write
      BY <1>4, <2>1, <3>2
    <3> QED
      BY <3>1, <3>2
  <2>2. Once(t.stack)
    BY <1>1, <1>3, <2>1 DEF Once, FramesApart
  <2>3. ASSUME NEW h \in DOMAIN t.frame
        PROVE  h \in DOMAIN s.frame /\ h # v /\ t.frame[h] = s.frame[h]
    BY <1>4
  <2> QED
    BY <1>1, <1>3, <2>1, <2>2, <2>3 DEF FramesApart
<1>6. AllPast(t, n) /\ DiskAdvances(s, t)
  <2>1. CASE io.write
    <3>1. NoOlder(v, s.disk[v], s.mem[s.frame[v]])
      BY <1>1, <1>3 DEF MemoryAhead
    <3> QED
      BY <1>1, <1>3, <1>4, <2>1, <3>1, Saved
  <2>2. CASE ~io.write
    BY <1>1, <1>4, <2>2, SameDisk DEF AllPast
  <2> QED
    BY <2>1, <2>2
<1>7. FramesThere(t, IF io.write THEN k ELSE k + 1)
  <2>1. DOMAIN t.frame = Cached(t)
    BY <1>3, <1>4
  <2>2. Len(t.stack) = IF io.write THEN Len(s.stack) + 1 ELSE Len(s.stack)
    BY <1>2, <1>3, <1>4
  <2>3. Len(s.lru) \in Nat /\ Len(s.stack) \in Nat
    BY <1>2
  <2>4. Len(s.lru) + Len(s.stack) + k = PageBuckets + PageChains
    BY <1>1 DEF FramesThere
  <2>5. Len(t.lru) + Len(t.stack) + (IF io.write THEN k ELSE k + 1) = PageBuckets + PageChains
    <3> DEFINE m == PageBuckets + PageChains
               x == Len(s.lru)
               y == Len(s.stack)
    <3>1. x \in Nat /\ y \in Nat /\ x + y + k = m /\ Len(t.lru) = x - 1
      BY <1>3, <2>3, <2>4
    <3>2. Len(t.stack) = IF io.write THEN y + 1 ELSE y
      BY <2>2
    <3> HIDE DEF m, x, y
    <3>3. Len(t.lru) + Len(t.stack) + (IF io.write THEN k ELSE k + 1) = m
      BY <3>1, <3>2
    <3> QED
      BY <3>3 DEF m
  <2> QED
    BY <1>3, <2>1, <2>5 DEF FramesThere
<1>8. ContentFound(t, last, IF io.write THEN l ELSE l \cup {v})
  <2> SUFFICES ASSUME NEW h \in Gids, h \notin (IF io.write THEN l ELSE l \cup {v}),
                      last[h] # Absent
               PROVE  last[h] = Content(t, h)
    BY DEF ContentFound
  <2>1. h \notin l /\ last[h] = Content(s, h)
    BY <1>1 DEF ContentFound
  <2>2. CASE h = v
    <3>1. io.write /\ t.disk[v] = s.mem[s.frame[v]]
      BY <1>2, <1>3, <1>4, <2>2
    <3> QED
      BY <1>3, <2>1, <2>2, <3>1 DEF Content
  <2>3. CASE h # v
    <3>1. t.disk[h] = s.disk[h]
      BY <1>2, <1>4, <2>3
    <3>2. h \in Cached(t) <=> h \in Cached(s)
      BY <1>3, <2>3
    <3>3. h \in Cached(s) => t.frame[h] = s.frame[h]
      BY <1>3, <1>4, <2>3
    <3> QED
      BY <1>4, <2>1, <3>1, <3>2, <3>3 DEF Content
  <2> QED
    BY <2>2, <2>3
<1>9. MemoryAhead(t)
  <2> SUFFICES ASSUME NEW h \in Cached(t)
               PROVE  NoOlder(h, t.disk[h], t.mem[t.frame[h]])
    BY DEF MemoryAhead
  <2>1. h \in Cached(s) /\ h # v /\ h \in Gids
    BY <1>2, <1>3
  <2>2. t.disk[h] = s.disk[h] /\ t.frame[h] = s.frame[h]
    BY <1>2, <1>3, <1>4, <2>1
  <2> QED
    BY <1>1, <1>4, <2>1, <2>2 DEF MemoryAhead
<1> QED
  BY <1>3, <1>5, <1>6, <1>7, <1>8, <1>9 DEF Good, v

\* A page brought into a free frame, and listed.
Listed(r, g) == [r EXCEPT !.lru = <<g>> \o r.lru]

LEMMA BringKeeps ==
  ASSUME SizeAssumption, NEW s, NEW g \in Gids, NEW r \in PageCaches,
         NEW last, NEW n \in 0 .. MaxStores, NEW l, NEW k \in Nat,
         Good(s, last, n, l, k), s.failed = None, g \notin Cached(s),
         Brought(s, g, r), NEW t, t = Listed(r, g)
  PROVE  Good(t, last, n, l, k) /\ t.disk = s.disk /\ t.failed = r.failed
<1> DEFINE a == Lru(s.stack)
<1>1. /\ s \in PageCaches /\ FramesApart(s) /\ AllPast(s, n)
      /\ FramesThere(s, k) /\ ContentFound(s, last, l) /\ MemoryAhead(s)
  BY DEF Good
<1>2. /\ s.lru \in Seq(Gids) /\ s.stack \in Seq(Frames)
      /\ s.mem \in [Frames -> Contents] /\ s.disk \in [Gids -> OnDisk]
      /\ DOMAIN s.frame \subseteq Gids /\ \A h \in DOMAIN s.frame : s.frame[h] \in Frames
  BY <1>1, FieldTypes
<1>3. /\ s.stack # <<>> /\ r.lru = s.lru /\ r.stack = ButLru(s.stack) /\ r.disk = s.disk
      /\ r.frame = [h \in DOMAIN s.frame \cup {g} |-> IF h = g THEN a ELSE s.frame[h]]
  BY DEF Brought
<1>4. PICK c \in Contents \cap ({s.disk[g], Blank} \cup {s.mem[i] : i \in Frames}) :
         /\ s.disk[g] # Absent => c = s.disk[g]
         /\ r.mem = [s.mem EXCEPT ![a] = c]
  BY DEF Brought
<1>5. a \in KeySet(s.stack) /\ a \in Frames /\ KeySet(r.stack) = KeySet(s.stack) \ {a}
      /\ Once(r.stack) /\ Len(r.stack) = Len(s.stack) - 1
  <2>1. Once(s.stack)
    BY <1>1 DEF FramesApart
  <2>2. /\ a \in KeySet(s.stack) /\ a \in Frames
        /\ KeySet(ButLru(s.stack)) = KeySet(s.stack) \ {a} /\ Once(ButLru(s.stack))
    BY <1>2, <1>3, <2>1, ButLruKeys
  <2>3. Len(ButLru(s.stack)) = Len(s.stack) - 1
    BY <1>2, <1>3, ButLruSeq
  <2> QED
    BY <1>3, <2>2, <2>3
<1> HIDE DEF a
<1>6. /\ t.lru = <<g>> \o s.lru /\ t.frame = r.frame /\ t.stack = r.stack /\ t.disk = s.disk
      /\ t.mem = r.mem /\ t.failed = r.failed /\ t \in PageCaches
  <2> DEFINE q == <<g>> \o r.lru
  <2>1. q \in Seq(Gids)
    BY <1>2, <1>3
  <2>2. q = <<g>> \o s.lru
    BY <1>3
  <2> HIDE DEF q
  <2>3. /\ t.lru = q /\ t.frame = r.frame /\ t.stack = r.stack /\ t.disk = r.disk
        /\ t.mem = r.mem /\ t.failed = r.failed /\ t \in PageCaches
    <3>1. t = [r EXCEPT !.lru = q]
      BY DEF q, Listed
    <3> QED
      BY <2>1, <3>1 DEF PageCaches
  <2> QED
    BY <1>3, <2>2, <2>3
<1>7. Cached(t) = {g} \cup Cached(s) /\ Once(t.lru) /\ Len(t.lru) = Len(s.lru) + 1
  <2>1. KeySet(<<g>> \o s.lru) = {g} \cup KeySet(s.lru)
    BY <1>2, KeySetInFront
  <2>2. Once(<<g>> \o s.lru)
    BY <1>1, <1>2, OnceInFront DEF FramesThere, Cached
  <2>3. Len(<<g>> \o s.lru) = Len(s.lru) + 1
    BY <1>2, InFront
  <2> QED
    BY <1>6, <2>1, <2>2, <2>3 DEF Cached
<1>8. DOMAIN s.frame = Cached(s) /\ g \notin DOMAIN s.frame
      /\ \A h \in DOMAIN s.frame : s.frame[h] # a
  BY <1>1, <1>5 DEF FramesThere, FramesApart, KeySet
<1>9. /\ DOMAIN t.frame = Cached(t)
      /\ t.frame[g] = a /\ \A h \in Cached(s) : t.frame[h] = s.frame[h]
      /\ t.mem[a] = c /\ \A i \in Frames \ {a} : t.mem[i] = s.mem[i]
  <2>1. t.frame = [h \in Cached(s) \cup {g} |-> IF h = g THEN a ELSE s.frame[h]]
    BY <1>3, <1>6, <1>8
  <2>2. t.mem = [s.mem EXCEPT ![a] = c]
    BY <1>4, <1>6
  <2>3. t.mem[a] = c /\ \A i \in Frames \ {a} : t.mem[i] = s.mem[i]
    BY <1>2, <1>5, <2>2
  <2> QED
    BY <1>7, <1>8, <2>1, <2>3
<1>10. FramesApart(t)
  <2>1. \A i \in DOMAIN t.stack : t.stack[i] \in KeySet(s.stack) /\ t.stack[i] # a
    BY <1>5, <1>6 DEF KeySet
  <2>2. \A h \in DOMAIN s.frame : s.frame[h] \notin KeySet(s.stack)
    BY <1>1 DEF FramesApart, KeySet
  <2>3. \A h \in DOMAIN t.frame, i \in DOMAIN t.stack : t.frame[h] # t.stack[i]
    BY <1>7, <1>8, <1>9, <2>1, <2>2
  <2>4. \A h, j \in DOMAIN t.frame : t.frame[h] = t.frame[j] => h = j
    BY <1>1, <1>7, <1>8, <1>9 DEF FramesApart
  <2> QED
    BY <1>5, <1>6, <2>3, <2>4 DEF FramesApart
<1>11. AllPast(t, n)
  <2>1. Past(c, n)
    BY <1>1, <1>4, NeverMade DEF AllPast
  <2>2. \A i \in Frames : t.mem[i] = c \/ t.mem[i] = s.mem[i]
    BY <1>9
  <2> QED
    BY <1>1, <1>6, <2>1, <2>2 DEF AllPast
<1>12. FramesThere(t, k)
  <2>1. Len(s.lru) \in Nat /\ Len(s.stack) \in Nat
    BY <1>2
  <2>2. Len(s.lru) + Len(s.stack) + k = PageBuckets + PageChains
    BY <1>1 DEF FramesThere
  <2>3. Len(t.lru) + Len(t.stack) + k = PageBuckets + PageChains
    <3> DEFINE m == PageBuckets + PageChains
               x == Len(s.lru)
               y == Len(s.stack)
    <3>1. x \in Nat /\ y \in Nat /\ x + y + k = m
      BY <2>1, <2>2
    <3>2. Len(t.lru) = x + 1 /\ Len(t.stack) = y - 1
      BY <1>5, <1>6, <1>7
    <3> HIDE DEF m, x, y
    <3>3. (x + 1) + (y - 1) + k = m
      BY <3>1
    <3>4. Len(t.lru) + Len(t.stack) + k = m
      BY <3>2, <3>3
    <3> QED
      BY <3>4 DEF m
  <2> QED
    BY <1>7, <1>9, <2>3 DEF FramesThere
<1>13. ContentFound(t, last, l)
  <2> SUFFICES ASSUME NEW h \in Gids \ l, last[h] # Absent
               PROVE  last[h] = Content(t, h)
    BY DEF ContentFound
  <2>1. last[h] = Content(s, h)
    BY <1>1 DEF ContentFound
  <2>2. CASE h = g
    BY <1>4, <1>7, <1>9, <2>1, <2>2 DEF Content
  <2>3. CASE h # g /\ h \in Cached(s)
    BY <1>2, <1>7, <1>8, <1>9, <2>1, <2>3 DEF Content
  <2>4. CASE h # g /\ h \notin Cached(s)
    BY <1>6, <1>7, <2>1, <2>4 DEF Content
  <2> QED
    BY <2>2, <2>3, <2>4
<1>14. MemoryAhead(t)
  <2> SUFFICES ASSUME NEW h \in Cached(t)
               PROVE  NoOlder(h, t.disk[h], t.mem[t.frame[h]])
    BY DEF MemoryAhead
  <2>1. CASE h = g
    <3>1. t.disk[h] = s.disk[g] /\ t.mem[t.frame[h]] = c
      BY <1>6, <1>9, <2>1
    <3>2. s.disk[g] = Absent \/ c = s.disk[g]
      BY <1>4
    <3>3. NoOlder(g, s.disk[g], c)
      BY <3>2, NoOlderFacts
    <3> QED
      BY <2>1, <3>1, <3>3
  <2>2. CASE h # g
    <3>1. h \in Cached(s) /\ t.disk[h] = s.disk[h] /\ t.mem[t.frame[h]] = s.mem[s.frame[h]]
      BY <1>2, <1>6, <1>7, <1>8, <1>9, <2>2
    <3> QED
      BY <1>1, <3>1 DEF MemoryAhead
  <2> QED
    BY <2>1, <2>2
<1> QED
  BY <1>6, <1>10, <1>11, <1>12, <1>13, <1>14 DEF Good

\* A failed call leaves at most a frame fewer on the stack.
LEMMA FailureKeeps ==
  ASSUME SizeAssumption,
         NEW s, NEW t \in PageCaches, NEW last, NEW n, NEW l, NEW k, NEW x, NEW y, NEW z,
         Good(s, last, n, l, k), t.frame = s.frame, t.mem = s.mem, DiskKept(s, t),
         t.stack \in {s.stack, ButLru(s.stack)}, t.failed # None
  PROVE  Good(t, x, n, y, z)
<1>1. s \in PageCaches /\ FramesApart(s) /\ AllPast(s, n) /\ s.stack \in Seq(Frames)
  BY FieldTypes DEF Good
<1>2. \A i \in DOMAIN t.stack : i \in DOMAIN s.stack /\ t.stack[i] = s.stack[i]
  <2>1. CASE t.stack = s.stack
    BY <2>1
  <2>2. CASE s.stack = <<>> /\ t.stack = ButLru(s.stack)
    BY <1>1, <2>2 DEF ButLru
  <2>3. CASE s.stack # <<>> /\ t.stack = ButLru(s.stack)
    BY <1>1, <2>3, ButLruSeq
  <2> QED
    BY <2>1, <2>2, <2>3
<1>3. FramesApart(t) /\ AllPast(t, n)
  BY <1>1, <1>2, NeverMade DEF FramesApart, Once, AllPast, DiskKept
<1> QED
  BY <1>3 DEF Good

-----------------------------------------------------------------------------
(* The pages handed out.                                                   *)

Given == [gid : Gids, frame : Frames]

\* One page more is handed out, before those of ps: the list has it in front.
LEMMA HandedHeads ==
  ASSUME SizeAssumption, NEW ps \in Seq(Given), NEW g \in Gids, NEW i \in Frames,
         NEW t, t.lru \in Seq(Gids), Len(ps) <= PageChains + 1,
         t.lru[1] = g, g \in DOMAIN t.frame, t.frame[g] = i,
         Len(ps) + 1 <= Len(t.lru) \/ PageChains + 1 <= Len(t.lru),
         \A j \in DOMAIN ps :
            j <= PageChains => /\ ps[j].gid = t.lru[j + 1] /\ ps[j].gid \in DOMAIN t.frame
                               /\ ps[j].frame = t.frame[ps[j].gid],
         NEW all \in Seq(Given), Len(all) = Len(ps) + 1, all[1].gid = g, all[1].frame = i,
         \A j \in 2 .. Len(ps) + 1 : all[j] = ps[j - 1],
         NEW hs, \/ Len(all) > PageChains + 1 /\ hs = ButLru(all)
                 \/ ~(Len(all) > PageChains + 1) /\ hs = all
  PROVE  hs \in Seq(Given) /\ HandedHead(t, hs)
<1>1. PageChains \in Nat /\ Len(ps) \in Nat /\ Len(t.lru) \in Nat
      /\ DOMAIN ps = 1 .. Len(ps)
  BY FrameCount
<1>2. ButLru(all) \in Seq(Given) /\ Len(ButLru(all)) = Len(ps)
      /\ \A j \in 1 .. Len(ps) : ButLru(all)[j] = all[j]
  <2>1. all # <<>>
    BY <1>1
  <2>2. /\ ButLru(all) \in Seq(Given) /\ Len(ButLru(all)) = Len(all) - 1
        /\ \A j \in 1 .. Len(all) - 1 : ButLru(all)[j] = all[j]
    BY <2>1, ButLruSeq
  <2>3. Len(all) - 1 = Len(ps)
    BY <1>1
  <2> QED
    BY <2>2, <2>3
<1>3. \/ hs = all /\ Len(ps) <= PageChains
      \/ hs = ButLru(all) /\ Len(ps) = PageChains + 1
  <2>1. Len(all) > PageChains + 1 <=> Len(ps) = PageChains + 1
    BY <1>1
  <2>2. Len(ps) # PageChains + 1 => Len(ps) <= PageChains
    BY <1>1
  <2> QED
    BY <2>1, <2>2
<1>4. /\ hs \in Seq(Given) /\ Len(hs) <= PageChains + 1 /\ Len(hs) <= Len(ps) + 1
      /\ \A j \in DOMAIN hs : hs[j] = all[j]
  <2>1. CASE hs = all /\ Len(ps) <= PageChains
    BY <1>1, <2>1
  <2>2. CASE hs = ButLru(all) /\ Len(ps) = PageChains + 1
    <3>1. /\ hs \in Seq(Given) /\ Len(hs) = Len(ps) /\ DOMAIN hs = 1 .. Len(ps)
          /\ \A j \in 1 .. Len(ps) : hs[j] = all[j]
      BY <1>2, <2>2
    <3> QED
      BY <1>1, <2>2, <3>1
  <2> QED
    BY <1>3, <2>1, <2>2
<1>5. Len(hs) \in Nat /\ DOMAIN hs = 1 .. Len(hs) /\ Len(hs) <= Len(t.lru)
  <2>1. Len(hs) \in Nat /\ DOMAIN hs = 1 .. Len(hs)
    BY <1>4
  <2> QED
    BY <2>1, <1>1, <1>4
<1>6. ASSUME NEW j \in DOMAIN hs
       PROVE  /\ hs[j].gid = t.lru[j] /\ hs[j].gid \in DOMAIN t.frame
              /\ hs[j].frame = t.frame[hs[j].gid]
  <2>1. CASE j = 1
    <3>1. hs[j] = all[1]
      BY <1>4, <2>1
    <3> QED
      BY <2>1, <3>1
  <2>2. CASE j # 1
    <3>1. /\ j \in 2 .. Len(ps) + 1 /\ j - 1 \in DOMAIN ps /\ j - 1 <= PageChains
          /\ (j - 1) + 1 = j
      BY <1>1, <1>4, <1>5, <2>2
    <3>2. hs[j] = ps[j - 1]
      BY <1>4, <3>1
    <3> QED
      BY <3>1, <3>2
  <2> QED
    BY <2>1, <2>2
<1> QED
  BY <1>4, <1>5, <1>6 DEF HandedHead

\* What HandedBefore(g) leaves of them: g is not there, the others are, in order.
LEMMA HandedOthers ==
  ASSUME SizeAssumption, NEW g \in Gids, handed \in Seq(Given), HandedHead(pages, handed),
         pages.lru \in Seq(Gids), Once(pages.lru), g \in Cached(pages)
  PROVE  /\ HandedBefore(g) \in Seq(Given) /\ Len(HandedBefore(g)) <= PageChains + 1
         /\ Len(HandedBefore(g)) + 1 <= Len(pages.lru)
         /\ \A j \in DOMAIN HandedBefore(g) :
              /\ HandedBefore(g)[j].gid = Renewed(pages.lru, g)[j + 1]
              /\ HandedBefore(g)[j].gid \in DOMAIN pages.frame
              /\ HandedBefore(g)[j].frame = pages.frame[HandedBefore(g)[j].gid]
<1> DEFINE s == pages.lru
           b == HandedBefore(g)
<1>1. PICK p \in DOMAIN s :
         /\ s[p] = g
         /\ \A i \in 2 .. Len(s) : Renewed(s, g)[i] = IF i <= p THEN s[i - 1] ELSE s[i]
  BY RenewedSeq DEF Cached
<1>2. /\ Len(s) \in Nat /\ DOMAIN s = 1 .. Len(s) /\ Len(handed) \in Nat
      /\ DOMAIN handed = 1 .. Len(handed) /\ PageChains \in Nat
  BY FrameCount
<1>3. /\ Len(handed) <= PageChains + 1 /\ Len(handed) <= Len(s)
      /\ \A i \in DOMAIN handed :
           /\ handed[i].gid = s[i] /\ handed[i].gid \in DOMAIN pages.frame
           /\ handed[i].frame = pages.frame[handed[i].gid]
  BY DEF HandedHead
<1>4. CASE \E j \in DOMAIN handed : handed[j].gid = g
  <2> DEFINE q == CHOOSE j \in DOMAIN handed : handed[j].gid = g
  <2>1. q \in DOMAIN handed /\ handed[q].gid = g
    BY <1>4
  <2>2. b = Without(handed, q)
    BY <1>4 DEF HandedBefore
  <2> HIDE DEF q, b
  <2>3. q = p
    <3>1. q \in DOMAIN s /\ s[q] = s[p]
      BY <1>1, <1>2, <1>3, <2>1
    <3> QED
      BY <3>1, <1>1 DEF Once
  <2>4. /\ b \in Seq(Given) /\ Len(b) = Len(handed) - 1 /\ DOMAIN b = 1 .. Len(handed) - 1
        /\ \A i \in 1 .. Len(handed) - 1 :
             b[i] = IF i < p THEN handed[i] ELSE handed[i + 1]
    BY <2>1, <2>2, <2>3, WithoutSeq
  <2>5. Len(b) <= PageChains + 1 /\ Len(b) + 1 <= Len(s)
    BY <1>2, <1>3, <2>4
  <2>6. ASSUME NEW j \in DOMAIN b
        PROVE  /\ b[j].gid = Renewed(s, g)[j + 1] /\ b[j].gid \in DOMAIN pages.frame
               /\ b[j].frame = pages.frame[b[j].gid]
    <3> HIDE DEF s
    <3>1. /\ j \in DOMAIN handed /\ j + 1 \in DOMAIN handed /\ j + 1 \in 2 .. Len(s)
          /\ (j + 1) - 1 = j /\ (j < p <=> j + 1 <= p)
      BY <1>1, <1>2, <1>3, <2>4
    <3>2. CASE j < p
      <4>1. b[j] = handed[j] /\ Renewed(s, g)[j + 1] = s[j]
        BY <1>1, <2>4, <3>1, <3>2
      <4> QED
        BY <1>3, <3>1, <4>1
    <3>3. CASE ~(j < p)
      <4>1. b[j] = handed[j + 1] /\ Renewed(s, g)[j + 1] = s[j + 1]
        BY <1>1, <2>4, <3>1, <3>3
      <4> QED
        BY <1>3, <3>1, <4>1
    <3> QED
      BY <3>2, <3>3
  <2> QED
    BY <2>4, <2>5, <2>6 DEF b
<1>5. CASE ~ \E j \in DOMAIN handed : handed[j].gid = g
  <2>1. b = handed
    BY <1>5 DEF HandedBefore
  <2> HIDE DEF b
  <2>2. Len(handed) < p
    <3>1. p \notin DOMAIN handed
      BY <1>1, <1>3, <1>5
    <3> QED
      BY <1>1, <1>2, <3>1
  <2>3. Len(b) <= PageChains + 1 /\ Len(b) + 1 <= Len(s)
    BY <1>1, <1>2, <1>3, <2>1, <2>2
  <2>4. ASSUME NEW j \in DOMAIN b
        PROVE  /\ b[j].gid = Renewed(s, g)[j + 1] /\ b[j].gid \in DOMAIN pages.frame
               /\ b[j].frame = pages.frame[b[j].gid]
    <3> HIDE DEF s
    <3>1. /\ j \in DOMAIN handed /\ j + 1 \in 2 .. Len(s) /\ (j + 1) - 1 = j /\ j + 1 <= p
      BY <1>1, <1>2, <1>3, <2>1, <2>2
    <3>2. Renewed(s, g)[j + 1] = s[j]
      BY <1>1, <3>1
    <3> QED
      BY <1>3, <2>1, <3>1, <3>2
  <2> QED
    BY <2>1, <2>3, <2>4 DEF b
<1> QED
  BY <1>4, <1>5

LEMMA HandedGrows ==
  ASSUME SizeAssumption, NEW g \in Gids, NEW i \in Frames, NEW t, t.lru \in Seq(Gids),
         HandedBefore(g) \in Seq(Given), Len(HandedBefore(g)) <= PageChains + 1,
         t.lru[1] = g, g \in DOMAIN t.frame, t.frame[g] = i,
         Len(HandedBefore(g)) + 1 <= Len(t.lru) \/ PageChains + 1 <= Len(t.lru),
         \A j \in DOMAIN HandedBefore(g) :
            j <= PageChains =>
              /\ HandedBefore(g)[j].gid = t.lru[j + 1]
              /\ HandedBefore(g)[j].gid \in DOMAIN t.frame
              /\ HandedBefore(g)[j].frame = t.frame[HandedBefore(g)[j].gid]
  PROVE  Handed(g, i) \in Seq(Given) /\ HandedHead(t, Handed(g, i))
<1> DEFINE x == [gid |-> g, frame |-> i]
           ps == HandedBefore(g)
           all == <<x>> \o ps
<1>1. x \in Given /\ x.gid = g /\ x.frame = i
  BY DEF Given
<1> HIDE DEF x, ps
<1>2. ps \in Seq(Given)
  BY DEF ps
<1>3. /\ all \in Seq(Given) /\ Len(all) = Len(ps) + 1 /\ all[1] = x
      /\ \A j \in 2 .. Len(ps) + 1 : all[j] = ps[j - 1]
  BY <1>1, <1>2, InFront
<1>4. Handed(g, i) = IF Len(all) > PageChains + 1 THEN ButLru(all) ELSE all
  BY DEF Handed, x, ps
<1> HIDE DEF all
<1> DEFINE hs == Handed(g, i)
<1>5. \/ Len(all) > PageChains + 1 /\ hs = ButLru(all)
      \/ ~(Len(all) > PageChains + 1) /\ hs = all
  BY <1>4
<1> HIDE DEF hs
<1>6. /\ Len(ps) <= PageChains + 1
      /\ Len(ps) + 1 <= Len(t.lru) \/ PageChains + 1 <= Len(t.lru)
      /\ \A j \in DOMAIN ps :
            j <= PageChains => /\ ps[j].gid = t.lru[j + 1] /\ ps[j].gid \in DOMAIN t.frame
                               /\ ps[j].frame = t.frame[ps[j].gid]
  BY DEF ps
<1>7. all[1].gid = g /\ all[1].frame = i
  BY <1>1, <1>3
<1>8. hs \in Seq(Given) /\ HandedHead(t, hs)
  <2>1. /\ all \in Seq(Given) /\ Len(all) = Len(ps) + 1
        /\ \A j \in 2 .. Len(ps) + 1 : all[j] = ps[j - 1]
    BY <1>3
  <2> QED
    BY ONLY SizeAssumption, g \in Gids, i \in Frames, t.lru \in Seq(Gids), t.lru[1] = g,
            g \in DOMAIN t.frame, t.frame[g] = i, <1>2, <1>5, <1>6, <1>7, <2>1, HandedHeads
<1> QED
  BY <1>8 DEF hs

-----------------------------------------------------------------------------
(* The actions.                                                            *)

\* A page put that is found.
LEMMA HitStep ==
  ASSUME SizeAssumption, IInv, NEW g \in Gids, NEW io \in Outcomes, Put(g, io),
         g \in Cached(pages)
  PROVE  IInv' /\ DiskAdvances(pages, pages')
<1> DEFINE q == Renewed(pages.lru, g)
<1>1. /\ pages.failed = None /\ pages \in PageCaches /\ FramesApart(pages)
      /\ AllPast(pages, stores) /\ FramesThere(pages, leaks)
      /\ ContentFound(pages, latest, lost) /\ MemoryAhead(pages)
      /\ handed \in Seq(Given) /\ HandedHead(pages, handed)
  BY DEF IInv, Good, Put, Up, Given
<1>2. pages.lru \in Seq(Gids) /\ Once(pages.lru) /\ pages.frame \in FrameMaps
      /\ DOMAIN pages.frame = Cached(pages)
  BY <1>1, FieldTypes DEF FramesThere
<1>3. /\ q \in Seq(Gids) /\ Len(q) = Len(pages.lru) /\ KeySet(q) = KeySet(pages.lru)
      /\ Once(q) /\ q[1] = g
  BY <1>2, RenewedSeq DEF Cached
<1> HIDE DEF q
<1>4. /\ pages' = [pages EXCEPT !.lru = q] /\ UNCHANGED <<lost, leaks, latest, stores>>
  BY DEF Put, FailsToSave, pagecache_touch, q
<1>5. /\ pages' \in PageCaches /\ pages'.lru = q /\ pages'.frame = pages.frame
      /\ pages'.stack = pages.stack /\ pages'.mem = pages.mem /\ pages'.disk = pages.disk
      /\ pages'.failed = None
  BY <1>1, <1>3, <1>4 DEF PageCaches
<1>6. Cached(pages') = Cached(pages)
  BY <1>3, <1>5 DEF Cached
<1>7. Good(pages', latest, stores, lost, leaks)
  <2>1. FramesApart(pages') /\ AllPast(pages', stores)
    BY <1>1, <1>5 DEF FramesApart, AllPast
  <2>2. FramesThere(pages', leaks)
    BY <1>1, <1>3, <1>5, <1>6 DEF FramesThere
  <2>3. ContentFound(pages', latest, lost) /\ MemoryAhead(pages')
    BY <1>1, <1>5, <1>6 DEF ContentFound, Content, MemoryAhead
  <2> QED
    BY <1>5, <2>1, <2>2, <2>3 DEF Good
<1>8. handed' = Handed(g, pages.frame[g])
  BY <1>5 DEF Put
<1>9. handed' \in Seq(Given) /\ HandedHead(pages', handed')
  <2>1. /\ HandedBefore(g) \in Seq(Given) /\ Len(HandedBefore(g)) <= PageChains + 1
        /\ Len(HandedBefore(g)) + 1 <= Len(pages.lru)
        /\ \A j \in DOMAIN HandedBefore(g) :
             /\ HandedBefore(g)[j].gid = q[j + 1]
             /\ HandedBefore(g)[j].gid \in DOMAIN pages.frame
             /\ HandedBefore(g)[j].frame = pages.frame[HandedBefore(g)[j].gid]
    BY <1>1, <1>2, HandedOthers DEF q
  <2>2. g \in DOMAIN pages.frame /\ pages.frame[g] \in Frames
    BY <1>2, FrameMap
  <2> DEFINE t == pages'
             i == pages.frame[g]
  <2>3. /\ t.lru \in Seq(Gids) /\ t.lru[1] = g /\ g \in DOMAIN t.frame /\ t.frame[g] = i
        /\ Len(HandedBefore(g)) + 1 <= Len(t.lru) /\ i \in Frames
        /\ \A j \in DOMAIN HandedBefore(g) :
             /\ HandedBefore(g)[j].gid = t.lru[j + 1]
             /\ HandedBefore(g)[j].gid \in DOMAIN t.frame
             /\ HandedBefore(g)[j].frame = t.frame[HandedBefore(g)[j].gid]
    BY <1>3, <1>5, <2>1, <2>2
  <2> HIDE DEF t, i
  <2>4. Handed(g, i) \in Seq(Given) /\ HandedHead(t, Handed(g, i))
    BY <2>1, <2>3, HandedGrows
  <2> QED
    BY <1>8, <2>4 DEF t, i
<1>10. IInv'
  BY <1>4, <1>7, <1>9 DEF IInv, Given
<1> QED
  BY <1>5, <1>10, SameDisk

\* A page put that is not found: room is made, and it is brought.
LEMMA MissStep ==
  ASSUME SizeAssumption, IInv, NEW g \in Gids, NEW io \in Outcomes, Put(g, io),
         g \notin Cached(pages)
  PROVE  IInv' /\ DiskAdvances(pages, pages')
<1> DEFINE room == MakeRoom(pages, g, io)
           read == pagecache_read(room, g, io)
           listed == Listed(read, g)
           x == IF room = pages THEN pages.lru ELSE ButLru(pages.lru)
<1>1. /\ pages.failed = None /\ pages \in PageCaches /\ FramesThere(pages, leaks)
      /\ Good(pages, latest, stores, lost, leaks)
      /\ handed \in Seq(Given) /\ HandedHead(pages, handed)
  BY DEF IInv, Good, Put, Up, Given
<1>2. /\ latest \in [Gids -> OnDisk] /\ stores \in 0 .. MaxStores
      /\ lost \subseteq Gids /\ leaks \in Nat
  BY DEF IInv
<1>3. /\ DOMAIN pages.frame = Cached(pages) /\ Once(pages.lru) /\ pages.lru \in Seq(Gids)
      /\ pages.stack \in Seq(Frames)
  BY <1>1, FieldTypes DEF FramesThere
<1>4. /\ room \in PageCaches
      /\ \/ PageRoom(Cached(pages), g) /\ room = pages
         \/ ~PageRoom(Cached(pages), g) /\ Stuck(pages, room)
         \/ ~PageRoom(Cached(pages), g) /\ Evicted(pages, io, room)
            /\ WithFile(pages, Lru(pages.lru), io.open_w).failed = None
  BY <1>1, <1>3, RoomMade
<1>5. pages' = IF room.failed # None THEN room
               ELSE IF read.failed # None THEN read ELSE listed
  BY DEF Put, pagecache_touch, Listed
<1>6. /\ UNCHANGED <<latest, stores>>
      /\ IF FailsToSave(g, io)
         THEN lost' = lost \cup {Lru(pages.lru)} /\ leaks' = leaks + 1
         ELSE UNCHANGED <<lost, leaks>>
      /\ handed' = IF pages'.failed # None THEN <<>> ELSE Handed(g, pages'.frame[g])
  BY DEF Put
<1>7. io.write \in BOOLEAN
  BY OutcomeTypes
<1> HIDE DEF room, listed
<1>8. lost' \subseteq Gids /\ leaks' \in Nat
  <2>1. FailsToSave(g, io) => Lru(pages.lru) \in Gids
    <3>1. ASSUME FailsToSave(g, io) PROVE pages.lru # <<>>
      BY <1>3, <3>1, NoRoom DEF FailsToSave, Cached
    <3> QED
      BY <1>3, <3>1, ButLruKeys
  <2> QED
    BY <1>2, <1>6, <2>1
\* Once room is made, what was good is good.
<1>9. \/ Stuck(pages, room)
      \/ /\ Good(room, latest, stores, lost', leaks') /\ DiskAdvances(pages, room)
         /\ Cached(room) \subseteq Cached(pages) /\ room.lru \in Seq(Gids)
         /\ \/ room = pages
            \/ /\ room.lru = ButLru(pages.lru) /\ Len(pages.lru) >= PageChains + 1
               /\ room.frame = [h \in DOMAIN pages.frame \ {Lru(pages.lru)} |-> pages.frame[h]]
               /\ pages.lru # <<>>
  <2>1. CASE PageRoom(Cached(pages), g) /\ room = pages
    <3>1. UNCHANGED <<lost, leaks>>
      BY <1>6, <2>1 DEF FailsToSave
    <3> QED
      BY <1>1, <1>3, <2>1, <3>1, SameDisk
  <2>2. CASE ~PageRoom(Cached(pages), g) /\ Evicted(pages, io, room)
             /\ WithFile(pages, Lru(pages.lru), io.open_w).failed = None
    <3>1. FailsToSave(g, io) <=> ~io.write
      BY <2>2 DEF FailsToSave
    <3>2. /\ lost' = IF io.write THEN lost ELSE lost \cup {Lru(pages.lru)}
          /\ leaks' = IF io.write THEN leaks ELSE leaks + 1
      BY <1>6, <1>7, <3>1
    <3>3. /\ Good(room, latest, stores, IF io.write THEN lost ELSE lost \cup {Lru(pages.lru)},
                  IF io.write THEN leaks ELSE leaks + 1)
          /\ DiskAdvances(pages, room) /\ Cached(room) \subseteq Cached(pages)
      BY <1>1, <1>2, <1>4, <2>2, EvictKeeps
    <3>4. room.lru \in Seq(Gids)
      BY <1>4, FieldTypes
    <3> QED
      BY <2>2, <3>2, <3>3, <3>4 DEF Evicted
  <2> QED
    BY <1>4, <2>1, <2>2
<1>10. CASE room.failed # None
  <2>1. pages' = room /\ handed' = <<>>
    BY <1>5, <1>6, <1>10
  <2>2. Good(room, latest, stores, lost', leaks') /\ DiskAdvances(pages, room)
    <3>1. CASE Stuck(pages, room)
      <4>1. Good(room, latest, stores, lost', leaks')
        BY <1>1, <1>4, <3>1, FailureKeeps DEF Stuck
      <4> QED
        BY <3>1, <4>1, SameDisk, Kept DEF Stuck
    <3> QED
      BY <1>9, <3>1
  <2>3. HandedHead(room, <<>>) /\ <<>> \in Seq(Given)
    BY <1>4, FieldTypes, FrameCount DEF HandedHead
  <2> QED
    BY <1>2, <1>6, <1>8, <2>1, <2>2, <2>3 DEF IInv, Given
<1>11. CASE room.failed = None
  <2>1. /\ Good(room, latest, stores, lost', leaks') /\ DiskAdvances(pages, room)
        /\ Cached(room) \subseteq Cached(pages) /\ room.lru \in Seq(Gids)
        /\ \/ room = pages
           \/ /\ room.lru = ButLru(pages.lru) /\ Len(pages.lru) >= PageChains + 1
              /\ room.frame = [h \in DOMAIN pages.frame \ {Lru(pages.lru)} |-> pages.frame[h]]
              /\ pages.lru # <<>>
    BY <1>9, <1>11 DEF Stuck
  <2>2. /\ read \in PageCaches
        /\ Refused(room, read) \/ (Brought(room, g, read) /\ read.failed = None)
    BY <1>4, <1>11, ReadBrings
  <2> HIDE DEF read
  <2>3. CASE Refused(room, read)
    <3>1. pages' = read /\ handed' = <<>>
      BY <1>5, <1>6, <1>11, <2>3 DEF Refused
    <3>2. Good(read, latest, stores, lost', leaks')
      BY <2>1, <2>2, <2>3, FailureKeeps DEF Refused, DiskKept
    <3>3. DiskAdvances(pages, read)
      BY <2>1, <2>3 DEF Refused, DiskAdvances
    <3>4. HandedHead(read, <<>>) /\ <<>> \in Seq(Given)
      BY <2>2, FieldTypes, FrameCount DEF HandedHead
    <3> QED
      BY <1>2, <1>6, <1>8, <3>1, <3>2, <3>3, <3>4 DEF IInv, Given
  <2>4. CASE Brought(room, g, read) /\ read.failed = None
    <3>1. pages' = listed
      BY <1>5, <1>11, <2>4
    <3>2. Good(listed, latest, stores, lost', leaks') /\ listed.disk = room.disk
          /\ listed.failed = None
      <4>1. g \notin Cached(room)
        BY <2>1
      <4>2. listed = Listed(read, g)
        BY DEF listed
      <4> DEFINE k == leaks'
                 l == lost'
      <4>3. /\ k \in Nat /\ stores \in 0 .. MaxStores
            /\ Good(room, latest, stores, l, k) /\ room.failed = None
        BY <1>2, <1>8, <1>11, <2>1
      <4> HIDE DEF k, l
      <4>4. /\ Good(listed, latest, stores, l, k) /\ listed.disk = room.disk
            /\ listed.failed = read.failed
        BY <2>2, <2>4, <4>1, <4>2, <4>3, BringKeeps
      <4> QED
        BY <2>4, <4>4 DEF k, l
    <3>3. DiskAdvances(pages, listed)
      BY <2>1, <3>2 DEF DiskAdvances
    <3>4. handed' \in Seq(Given) /\ HandedHead(listed, handed')
      <4> DEFINE t == listed
                 i == t.frame[g]
      <4>1. /\ t \in PageCaches /\ t.lru = <<g>> \o room.lru
            /\ t.frame = [h \in DOMAIN room.frame \cup {g} |->
                            IF h = g THEN Lru(room.stack) ELSE room.frame[h]]
        <5>1. read.lru = room.lru /\ read.frame = [h \in DOMAIN room.frame \cup {g} |->
                            IF h = g THEN Lru(room.stack) ELSE room.frame[h]]
          BY <2>4 DEF Brought
        <5>2. listed.lru = <<g>> \o read.lru /\ listed.frame = read.frame
          BY <2>2 DEF listed, Listed, PageCaches
        <5>3. t \in PageCaches
          BY <3>2 DEF Good
        <5> QED
          BY <5>1, <5>2, <5>3
      <4> HIDE DEF t
      <4>2. /\ t.lru \in Seq(Gids) /\ Len(t.lru) = Len(room.lru) + 1 /\ t.lru[1] = g
            /\ \A j \in 2 .. Len(room.lru) + 1 : t.lru[j] = room.lru[j - 1]
        <5>1. room.lru \in Seq(Gids)
          BY <2>1
        <5>2. /\ <<g>> \o room.lru \in Seq(Gids)
              /\ Len(<<g>> \o room.lru) = Len(room.lru) + 1
              /\ (<<g>> \o room.lru)[1] = g
              /\ \A j \in 2 .. Len(room.lru) + 1 : (<<g>> \o room.lru)[j] = room.lru[j - 1]
          BY <5>1, InFront
        <5> QED
          BY <4>1, <5>2
      <4>3. g \in DOMAIN t.frame /\ i \in Frames
        BY <4>1, FieldTypes
      <4> HIDE DEF i
      <4>4. /\ Len(pages.lru) \in Nat /\ DOMAIN pages.lru = 1 .. Len(pages.lru)
            /\ Len(handed) \in Nat /\ DOMAIN handed = 1 .. Len(handed) /\ PageChains \in Nat
            /\ Len(handed) <= PageChains + 1 /\ Len(handed) <= Len(pages.lru)
        BY <1>1, <1>3, FrameCount DEF HandedHead
      <4>5. ASSUME NEW j \in DOMAIN handed
            PROVE  /\ j \in DOMAIN pages.lru /\ handed[j].gid = pages.lru[j]
                   /\ handed[j].gid \in DOMAIN pages.frame
                   /\ handed[j].frame = pages.frame[handed[j].gid] /\ handed[j].gid # g
        BY <1>1, <1>3, <4>4 DEF HandedHead
      <4>6. HandedBefore(g) = handed
        BY <4>5 DEF HandedBefore
      <4>7. \/ room = pages /\ Len(t.lru) = Len(pages.lru) + 1
            \/ /\ room.lru = ButLru(pages.lru) /\ Len(t.lru) = Len(pages.lru)
               /\ room.frame = [h \in DOMAIN pages.frame \ {Lru(pages.lru)} |-> pages.frame[h]]
               /\ Len(pages.lru) >= PageChains + 1
        <5>1. CASE room = pages
          BY <4>2, <5>1
        <5>2. CASE room.lru = ButLru(pages.lru) /\ pages.lru # <<>>
          <6>1. Len(room.lru) = Len(pages.lru) - 1
            BY <1>3, <5>2, ButLruSeq
          <6>2. Len(t.lru) = Len(pages.lru)
            BY <4>2, <4>4, <6>1
          <6> QED
            BY <2>1, <4>2, <6>2
        <5> QED
          BY <2>1, <5>1, <5>2
      <4>8. ASSUME NEW j \in DOMAIN handed, j <= PageChains
            PROVE  /\ handed[j].gid = t.lru[j + 1] /\ handed[j].gid \in DOMAIN t.frame
                   /\ handed[j].frame = t.frame[handed[j].gid]
        <5>1. /\ room.lru[j] = pages.lru[j] /\ j \in 1 .. Len(room.lru)
              /\ handed[j].gid \in DOMAIN room.frame
              /\ room.frame[handed[j].gid] = pages.frame[handed[j].gid]
          <6>1. CASE room = pages
            BY <4>4, <4>5, <6>1
          <6>2. CASE /\ room.lru = ButLru(pages.lru) /\ Len(t.lru) = Len(pages.lru)
                     /\ room.frame = [h \in DOMAIN pages.frame \ {Lru(pages.lru)} |->
                                        pages.frame[h]]
                     /\ Len(pages.lru) >= PageChains + 1
            <7>1. j \in 1 .. Len(pages.lru) - 1 /\ Len(pages.lru) \in DOMAIN pages.lru
                  /\ pages.lru # <<>> /\ j # Len(pages.lru)
              BY <4>4, <4>8, <6>2
            <7>2. room.lru[j] = pages.lru[j] /\ Len(room.lru) = Len(pages.lru) - 1
              BY <1>3, <6>2, <7>1, ButLruSeq
            <7>3. pages.lru[j] # Lru(pages.lru)
              BY <1>3, <4>5, <7>1 DEF Once, Lru
            <7> QED
              BY <4>5, <6>2, <7>1, <7>2, <7>3
          <6> QED
            BY <4>7, <6>1, <6>2
        <5>2. t.lru[j + 1] = room.lru[j]
          <6>1. j + 1 \in 2 .. Len(room.lru) + 1 /\ (j + 1) - 1 = j
            BY <2>1, <5>1
          <6> QED
            BY <4>2, <6>1
        <5>3. handed[j].gid \in DOMAIN t.frame
              /\ t.frame[handed[j].gid] = room.frame[handed[j].gid]
          BY <4>1, <4>5, <5>1
        <5> QED
          BY <4>5, <5>1, <5>2, <5>3
      <4>9. Len(handed) + 1 <= Len(t.lru) \/ PageChains + 1 <= Len(t.lru)
        BY <4>4, <4>7
      <4>10. Handed(g, i) \in Seq(Given) /\ HandedHead(t, Handed(g, i))
        <5>1. t.frame[g] = i
          BY DEF i
        <5> HIDE DEF t
        <5>2. /\ HandedBefore(g) \in Seq(Given) /\ Len(HandedBefore(g)) <= PageChains + 1
              /\ Len(HandedBefore(g)) + 1 <= Len(t.lru) \/ PageChains + 1 <= Len(t.lru)
              /\ \A j \in DOMAIN HandedBefore(g) :
                    j <= PageChains =>
                      /\ HandedBefore(g)[j].gid = t.lru[j + 1]
                      /\ HandedBefore(g)[j].gid \in DOMAIN t.frame
                      /\ HandedBefore(g)[j].frame = t.frame[HandedBefore(g)[j].gid]
          BY <1>1, <4>4, <4>6, <4>8, <4>9
        <5> QED
          BY <4>2, <4>3, <5>1, <5>2, HandedGrows
      <4>11. handed' = Handed(g, i)
        BY <1>6, <3>1, <3>2 DEF t, i
      <4> QED
        BY <4>10, <4>11 DEF t
    <3> QED
      BY <1>2, <1>6, <1>8, <3>1, <3>2, <3>3, <3>4 DEF IInv, Given
  <2> QED
    BY <2>2, <2>3, <2>4
<1> QED
  BY <1>10, <1>11

\* A page changed in memory.
LEMMA StoreStep ==
  ASSUME SizeAssumption, IInv, NEW g \in Gids, Store(g)
  PROVE  IInv' /\ DiskAdvances(pages, pages')
<1> DEFINE i == pages.frame[g]
           n == stores + 1
           c == <<g, n>>
<1>1. /\ pages.failed = None /\ pages \in PageCaches /\ FramesApart(pages)
      /\ AllPast(pages, stores) /\ FramesThere(pages, leaks)
      /\ ContentFound(pages, latest, lost) /\ MemoryAhead(pages)
      /\ handed \in Seq(Given) /\ HandedHead(pages, handed)
      /\ latest \in [Gids -> OnDisk] /\ stores \in 0 .. MaxStores
      /\ lost \subseteq Gids /\ leaks \in Nat
  BY DEF IInv, Good, Store, Up, Given
<1>2. /\ pages.mem \in [Frames -> Contents] /\ pages.frame \in FrameMaps
      /\ DOMAIN pages.frame = Cached(pages) /\ DOMAIN pages.frame \subseteq Gids
      /\ g \in Cached(pages) /\ i \in Frames
      /\ \A h \in DOMAIN pages.frame : pages.frame[h] \in Frames
  BY <1>1, FieldTypes DEF FramesThere, Store
<1>3. MaxStores \in Nat /\ stores < MaxStores /\ n \in 1 .. MaxStores
  BY <1>1 DEF Store, SizeAssumption
<1>4. c \in Contents /\ c \in OnDisk
  BY <1>3 DEF Contents, OnDisk
<1>5. /\ stores' = n /\ lost' = lost \ {g} /\ UNCHANGED <<leaks, handed>>
      /\ latest' = [latest EXCEPT ![g] = c]
  BY DEF Store
<1>6. pages' = [pages EXCEPT !.mem = [pages.mem EXCEPT ![i] = c]]
  <2>1. latest'[g] = c
    BY <1>1, <1>5
  <2> QED
    BY <1>1, <2>1 DEF Store, PageCaches
<1> HIDE DEF c, i, n
<1>7. /\ pages' \in PageCaches /\ pages'.lru = pages.lru /\ pages'.frame = pages.frame
      /\ pages'.stack = pages.stack /\ pages'.mem = [pages.mem EXCEPT ![i] = c]
      /\ pages'.disk = pages.disk /\ pages'.failed = None
  <2> DEFINE m == [pages.mem EXCEPT ![i] = c]
  <2>1. m \in [Frames -> Contents] /\ pages' = [pages EXCEPT !.mem = m]
    BY <1>2, <1>4, <1>6
  <2> HIDE DEF m
  <2>2. /\ pages' \in PageCaches /\ pages'.lru = pages.lru /\ pages'.frame = pages.frame
        /\ pages'.stack = pages.stack /\ pages'.mem = m
        /\ pages'.disk = pages.disk /\ pages'.failed = None
    BY <1>1, <2>1 DEF PageCaches
  <2> QED
    BY <2>2 DEF m
<1>8. /\ \A h \in Cached(pages) \ {g} : pages'.mem[pages.frame[h]] = pages.mem[pages.frame[h]]
      /\ pages'.mem[i] = c /\ pages.frame[g] = i
  <2>1. \A h \in Cached(pages) \ {g} : pages.frame[h] # i /\ pages.frame[h] \in Frames
    BY <1>1, <1>2 DEF FramesApart, i
  <2> QED
    BY <1>2, <1>7, <2>1 DEF i
<1>9. Cached(pages') = Cached(pages)
  BY <1>7 DEF Cached
<1>10. AllPast(pages', stores')
  <2>1. ASSUME NEW d, Past(d, stores) PROVE Past(d, n)
    BY <1>1, <1>3, <2>1 DEF Past, n
  <2>2. Past(c, n)
    BY <1>3 DEF Past, c
  <2>3. \A j \in Frames : pages'.mem[j] = c \/ pages'.mem[j] = pages.mem[j]
    BY <1>2, <1>7
  <2> QED
    BY <1>1, <1>5, <1>7, <2>1, <2>2, <2>3 DEF AllPast
<1>11. ContentFound(pages', latest', lost')
  <2> SUFFICES ASSUME NEW h \in Gids, h \notin lost', latest'[h] # Absent
               PROVE  latest'[h] = Content(pages', h)
    BY DEF ContentFound
  <2>1. CASE h = g
    BY <1>1, <1>2, <1>5, <1>7, <1>8, <1>9, <2>1 DEF Content
  <2>2. CASE h # g
    <3>1. h \notin lost /\ latest'[h] = latest[h]
      BY <1>1, <1>5, <2>2
    <3>2. latest[h] = Content(pages, h)
      BY <1>1, <3>1 DEF ContentFound
    <3>3. Content(pages', h) = Content(pages, h)
      BY <1>7, <1>8, <1>9, <2>2 DEF Content
    <3> QED
      BY <3>1, <3>2, <3>3
  <2> QED
    BY <2>1, <2>2
<1>12. MemoryAhead(pages')
  <2> SUFFICES ASSUME NEW h \in Cached(pages)
               PROVE  NoOlder(h, pages.disk[h], pages'.mem[pages.frame[h]])
    BY <1>7, <1>9 DEF MemoryAhead
  <2>1. CASE h = g
    <3>1. Past(pages.disk[g], stores)
      BY <1>1 DEF AllPast
    <3>2. stores + 1 <= MaxStores
      BY <1>3 DEF n
    <3>3. NoOlder(g, pages.disk[g], <<g, stores + 1>>)
      BY <1>1, <3>1, <3>2, NoOlderFacts
    <3> QED
      BY <1>8, <2>1, <3>3 DEF c, n
  <2>2. CASE h # g
    BY <1>1, <1>8, <2>2 DEF MemoryAhead
  <2> QED
    BY <2>1, <2>2
<1>13. Good(pages', latest', stores', lost', leaks')
  <2>1. FramesApart(pages') /\ FramesThere(pages', leaks')
    BY <1>1, <1>5, <1>7, <1>9, SameFrames DEF Good
  <2> QED
    BY <1>7, <1>10, <1>11, <1>12, <2>1 DEF Good
<1>14. HandedHead(pages', handed')
  BY <1>1, <1>5, <1>7 DEF HandedHead
<1>15. /\ latest' \in [Gids -> OnDisk] /\ stores' \in 0 .. MaxStores /\ lost' \subseteq Gids
       /\ leaks' \in Nat /\ handed' \in Seq(Given)
  BY <1>1, <1>3, <1>4, <1>5
<1> QED
  BY <1>7, <1>13, <1>14, <1>15, SameDisk DEF IInv, Given

\* A page flushed.
LEMMA FlushStep ==
  ASSUME SizeAssumption, IInv, NEW g \in Gids, NEW io \in Outcomes, Flush(g, io)
  PROVE  IInv' /\ DiskAdvances(pages, pages')
<1> DEFINE o == WithFile(pages, g, io.open_w)
           m == pages.mem[pages.frame[g]]
           c == IF io.whole THEN m ELSE IF pages.disk[g] = m THEN m ELSE Torn
           d == [pages.disk EXCEPT ![g] = c]
<1>1. /\ pages.failed = None /\ pages \in PageCaches /\ FramesApart(pages)
      /\ AllPast(pages, stores) /\ FramesThere(pages, leaks)
      /\ ContentFound(pages, latest, lost) /\ MemoryAhead(pages)
      /\ handed \in Seq(Given) /\ HandedHead(pages, handed) /\ stores \in 0 .. MaxStores
      /\ Good(pages, latest, stores, lost, leaks)
  BY DEF IInv, Good, Flush, Up, Given
<1>2. /\ g \in Cached(pages) /\ UNCHANGED <<latest, stores, lost, leaks, handed>>
      /\ pages' = IF o.failed # None \/ ~io.write THEN o
                  ELSE [o EXCEPT !.disk[g] = IF io.whole THEN o.mem[o.frame[g]] ELSE Partly(o, g)]
  BY DEF Flush, pagecache_flush
<1>3. Opened(pages, o)
  BY <1>1, WithFileOpens
<1> HIDE DEF o
<1>4. /\ pages.mem \in [Frames -> Contents] /\ pages.disk \in [Gids -> OnDisk]
      /\ g \in DOMAIN pages.frame /\ pages.frame[g] \in Frames
      /\ DOMAIN pages.frame = Cached(pages)
  BY <1>1, <1>2, FieldTypes DEF FramesThere
<1>5. m \in Contents /\ c \in {m, Torn} /\ d \in [Gids -> OnDisk]
  BY <1>4 DEF OnDisk, Contents
<1>6. /\ pages' \in PageCaches /\ pages'.lru = pages.lru /\ pages'.frame = pages.frame
      /\ pages'.stack = pages.stack /\ pages'.mem = pages.mem /\ pages'.failed \in {None, "fd"}
      /\ pages'.disk = pages.disk \/ pages'.disk = d
  <2>1. CASE o.failed # None \/ ~io.write
    BY <1>1, <1>2, <1>3, <2>1 DEF Opened
  <2>2. CASE ~(o.failed # None \/ ~io.write)
    <3>1. (IF io.whole THEN o.mem[o.frame[g]] ELSE Partly(o, g)) = c
      BY <1>3 DEF Opened, Partly
    <3> HIDE DEF c
    <3>2. pages' = [o EXCEPT !.disk[g] = c] /\ o.disk = pages.disk
      BY <1>2, <1>3, <2>2, <3>1 DEF Opened
    <3>3. pages' = [o EXCEPT !.disk = d]
      BY <1>3, <3>2 DEF Opened, PageCaches
    <3> HIDE DEF d
    <3> QED
      BY <1>1, <1>3, <1>5, <3>3 DEF Opened, PageCaches
  <2> QED
    BY <2>1, <2>2
<1>7. Cached(pages') = Cached(pages)
  BY <1>6 DEF Cached
<1>8. AllPast(pages', stores) /\ DiskAdvances(pages, pages')
  <2>1. CASE pages'.disk = pages.disk
    BY <1>1, <1>6, <2>1, SameDisk DEF AllPast
  <2>2. CASE pages'.disk = d /\ c = m
    <3>1. NoOlder(g, pages.disk[g], m)
      BY <1>1, <1>2 DEF MemoryAhead
    <3> DEFINE t == pages'
    <3>2. t \in PageCaches /\ t.mem = pages.mem
          /\ t.disk = [pages.disk EXCEPT ![g] = pages.mem[pages.frame[g]]]
      BY <1>6, <2>2
    <3> HIDE DEF t
    <3>3. AllPast(t, stores) /\ DiskAdvances(pages, t)
      BY <1>1, <1>4, <3>1, <3>2, Saved
    <3> QED
      BY <3>3 DEF t
  <2>3. CASE pages'.disk = d /\ c = Torn
    <3>1. \A h \in Gids : pages'.disk[h] \in {pages.disk[h], Torn}
      BY <1>4, <2>3
    <3>2. AllPast(pages', stores)
      BY <1>1, <1>6, <3>1, NeverMade DEF AllPast
    <3> QED
      BY <3>1, <3>2, Kept DEF DiskKept
  <2> QED
    BY <1>5, <1>6, <2>1, <2>2, <2>3
<1>9. \A h \in Gids : h # g => pages'.disk[h] = pages.disk[h]
  BY <1>4, <1>6
<1>10. ContentFound(pages', latest, lost)
  BY <1>1, <1>2, <1>6, <1>7, <1>9 DEF ContentFound, Content
<1>11. MemoryAhead(pages')
  <2> SUFFICES ASSUME NEW h \in Cached(pages)
               PROVE  NoOlder(h, pages'.disk[h], pages.mem[pages.frame[h]])
    BY <1>6, <1>7 DEF MemoryAhead
  <2>1. h \in Gids
    BY <1>1, <1>4, FieldTypes
  <2>2. NoOlder(h, pages.disk[h], pages.mem[pages.frame[h]])
    BY <1>1 DEF MemoryAhead
  <2>3. pages'.disk[h] = pages.disk[h] \/ pages'.disk[h] = pages.mem[pages.frame[h]]
        \/ pages'.disk[h] = Torn
    BY <1>4, <1>5, <1>6, <2>1
  <2>4. NoOlder(h, Torn, pages.mem[pages.frame[h]])
    BY <2>1, NoVersion DEF NoOlder
  <2> QED
    BY <1>1, <2>1, <2>2, <2>3, <2>4, NoOlderFacts
<1>12. Good(pages', latest, stores, lost, leaks)
  <2>1. FramesApart(pages') /\ FramesThere(pages', leaks)
    BY <1>1, <1>6, <1>7, SameFrames
  <2> QED
    BY <1>6, <1>8, <1>10, <1>11, <2>1 DEF Good
<1>13. HandedHead(pages', handed)
  BY <1>1, <1>6 DEF HandedHead
<1> QED
  BY <1>2, <1>8, <1>12, <1>13 DEF IInv

\* Empty caches over any disk are good.
LEMMA EmptyGood ==
  ASSUME SizeAssumption, NEW t, t \in PageCaches, t.lru = <<>>, t.frame = [g \in {} |-> 0],
         t.stack = FullStack, NEW n, AllPast(t, n)
  PROVE  Good(t, t.disk, n, {}, 0) /\ HandedHead(t, <<>>)
<1> DEFINE m == PageBuckets + PageChains
<1>1. m \in Nat /\ FullStack = [i \in 1 .. m |-> m - i]
  <2>1. m \in Nat
    BY FrameCount
  <2>2. FullStack = [i \in 1 .. m |-> m - i]
    BY FrameCount DEF FullStack
  <2> QED
    BY <2>1, <2>2
<1> HIDE DEF m
<1>2. FullStack \in [1 .. m -> Int] /\ \A i \in 1 .. m : FullStack[i] = m - i
  BY <1>1
<1>3. Len(FullStack) = m /\ DOMAIN FullStack = 1 .. m
  BY <1>1, <1>2
<1>4. Once(FullStack)
  BY <1>1, <1>2, <1>3 DEF Once
<1>5. Cached(t) = {} /\ DOMAIN t.frame = {} /\ Once(t.lru) /\ Len(t.lru) = 0
  BY DEF Cached, KeySet, Once
<1>6. FramesApart(t)
  BY <1>4, <1>5 DEF FramesApart
<1>7. FramesThere(t, 0)
  BY <1>1, <1>3, <1>5 DEF FramesThere, m
<1>8. ContentFound(t, t.disk, {}) /\ MemoryAhead(t)
  BY <1>5 DEF ContentFound, Content, MemoryAhead
<1>9. HandedHead(t, <<>>)
  BY <1>5, FrameCount DEF HandedHead
<1> QED
  BY <1>6, <1>7, <1>8, <1>9 DEF Good

LEMMA FullStackType == ASSUME SizeAssumption PROVE FullStack \in Seq(Frames)
<1> DEFINE m == PageBuckets + PageChains
<1>1. m \in Nat /\ FullStack = [i \in 1 .. m |-> m - i] /\ Frames = 0 .. m - 1
  <2>1. m \in Nat /\ Frames = 0 .. m - 1
    BY FrameCount
  <2>2. FullStack = [i \in 1 .. m |-> m - i]
    BY FrameCount DEF FullStack
  <2> QED
    BY <2>1, <2>2
<1> HIDE DEF m
<1>2. FullStack \in [1 .. m -> Frames]
  BY <1>1
<1> QED
  BY <1>1, <1>2

LEMMA NoFrames == [g \in {} |-> 0] \in FrameMaps /\ DOMAIN [g \in {} |-> 0] = {}
BY FrameMap

LEMMA Initialised ==
  ASSUME SizeAssumption, NEW d \in [Gids -> OnDisk]
  PROVE  /\ pagecache_init(d) \in PageCaches /\ pagecache_init(d).lru = <<>>
         /\ pagecache_init(d).frame = [g \in {} |-> 0] /\ pagecache_init(d).disk = d
         /\ pagecache_init(d).stack = FullStack /\ pagecache_init(d).failed = None
         /\ \A i \in Frames : pagecache_init(d).mem[i] = Blank
<1>1. [i \in Frames |-> Blank] \in [Frames -> Contents]
  BY DEF Contents
<1> DEFINE f == [g \in {} |-> 0]
           m == [i \in Frames |-> Blank]
<1>2. f \in FrameMaps /\ m \in [Frames -> Contents] /\ FullStack \in Seq(Frames)
      /\ <<>> \in Seq(Gids) /\ <<>> \in Seq(Files) /\ None \in Failures
  BY <1>1, FullStackType, NoFrames DEF Failures
<1>3. pagecache_init(d) = [lru |-> <<>>, frame |-> f, stack |-> FullStack, mem |-> m,
                           disk |-> d, files |-> <<>>, failed |-> None]
  BY DEF pagecache_init
<1>4. \A i \in Frames : m[i] = Blank
  OBVIOUS
<1> HIDE DEF f, m
<1>5. /\ pagecache_init(d) \in PageCaches /\ pagecache_init(d).lru = <<>>
      /\ pagecache_init(d).frame = f /\ pagecache_init(d).disk = d
      /\ pagecache_init(d).stack = FullStack /\ pagecache_init(d).failed = None
      /\ pagecache_init(d).mem = m
  BY <1>2, <1>3 DEF PageCaches
<1> QED
  BY <1>4, <1>5 DEF f

LEMMA InitInv == ASSUME SizeAssumption, Init PROVE IInv
<1> DEFINE d == [g \in Gids |-> Absent]
<1>1. d \in [Gids -> OnDisk] /\ \A g \in Gids : d[g] = Absent
  BY DEF OnDisk
<1>2. /\ pages = pagecache_init(d) /\ latest = d /\ stores = 0 /\ lost = {} /\ leaks = 0
      /\ handed = <<>>
  BY DEF Init
<1> HIDE DEF d
<1>3. /\ pages \in PageCaches /\ pages.lru = <<>> /\ pages.frame = [g \in {} |-> 0]
      /\ pages.disk = d /\ pages.stack = FullStack /\ \A i \in Frames : pages.mem[i] = Blank
  BY <1>1, <1>2, Initialised
<1>4. 0 \in 0 .. MaxStores
  BY DEF SizeAssumption
<1>5. AllPast(pages, 0)
  BY <1>1, <1>3, <1>4, NeverMade DEF AllPast
<1>6. Good(pages, pages.disk, 0, {}, 0) /\ HandedHead(pages, <<>>)
  BY <1>3, <1>5, EmptyGood
<1> QED
  BY <1>1, <1>2, <1>3, <1>4, <1>6 DEF IInv

\* Caches cleared or made anew.
LEMMA FromDiskStep ==
  ASSUME SizeAssumption, IInv, Clear \/ Restart
  PROVE  IInv' /\ DiskAdvances(pages, pages')
<1>1. /\ pages \in PageCaches /\ AllPast(pages, stores) /\ stores \in 0 .. MaxStores
      /\ pages.disk \in [Gids -> OnDisk]
  BY FieldTypes DEF IInv, Good
<1>2. /\ latest' = pages.disk /\ lost' = {} /\ leaks' = 0 /\ handed' = <<>> /\ stores' = stores
  BY DEF Clear, Restart, FromDisk
<1>3. /\ pages' \in PageCaches /\ pages'.lru = <<>> /\ pages'.frame = [g \in {} |-> 0]
      /\ pages'.disk = pages.disk /\ pages'.stack = FullStack
      /\ \A i \in Frames : pages'.mem[i] = Blank \/ pages'.mem[i] = pages.mem[i]
  <2>1. CASE Clear
    <3> DEFINE f == [g \in {} |-> 0]
    <3>1. f \in FrameMaps /\ <<>> \in Seq(Gids) /\ FullStack \in Seq(Frames)
      BY FullStackType, NoFrames
    <3>2. pages' = [pages EXCEPT !.lru = <<>>, !.frame = f, !.stack = FullStack]
      BY <2>1 DEF Clear, pagecache_clear
    <3> HIDE DEF f
    <3>3. /\ pages' \in PageCaches /\ pages'.lru = <<>> /\ pages'.frame = f
          /\ pages'.disk = pages.disk /\ pages'.stack = FullStack /\ pages'.mem = pages.mem
      BY <1>1, <3>1, <3>2 DEF PageCaches
    <3> QED
      BY <3>3 DEF f
  <2>2. CASE Restart
    BY <1>1, <2>2, Initialised DEF Restart
  <2> QED
    BY <2>1, <2>2
<1>4. AllPast(pages', stores)
  BY <1>1, <1>3, NeverMade DEF AllPast
<1>5. Good(pages', pages'.disk, stores, {}, 0) /\ HandedHead(pages', <<>>)
  BY <1>3, <1>4, EmptyGood
<1>6. IInv'
  BY <1>1, <1>2, <1>3, <1>5 DEF IInv
<1> QED
  BY <1>3, <1>6, SameDisk

-----------------------------------------------------------------------------
(* The theorems.                                                           *)

LEMMA NextInv ==
  ASSUME SizeAssumption, IInv, [Next]_vars
  PROVE  IInv' /\ DiskAdvances(pages, pages')
<1>1. ASSUME NEW g \in Gids, NEW io \in PutOutcomes(g), Put(g, io)
      PROVE  IInv' /\ DiskAdvances(pages, pages')
  BY <1>1, HitStep, MissStep DEF PutOutcomes
<1>2. ASSUME NEW g \in Gids, NEW io \in FlushOutcomes, Flush(g, io)
      PROVE  IInv' /\ DiskAdvances(pages, pages')
  BY <1>2, FlushStep DEF FlushOutcomes
<1>3. CASE UNCHANGED vars
  <2>1. /\ pages' = pages /\ latest' = latest /\ stores' = stores /\ lost' = lost
        /\ leaks' = leaks /\ handed' = handed
    BY <1>3 DEF vars
  <2>2. IInv'
    BY <2>1 DEF IInv
  <2> QED
    BY <2>1, <2>2, SameDisk
<1> QED
  BY <1>1, <1>2, <1>3, StoreStep, FromDiskStep DEF Next

\* The page cache's structures keep their types.
THEOREM PageCacheTypes == ASSUME SizeAssumption PROVE Spec => []TypeOK
<1>1. ASSUME IInv PROVE TypeOK
  <2>1. pages \in PageCaches
    BY <1>1 DEF IInv, Good
  <2>2. KeySet(pages.files) \subseteq {FileOf(g) : g \in Gids}
    BY <2>1, KeySetIn DEF PageCaches, Files
  <2> QED
    BY <1>1, <2>1, <2>2, FieldTypes DEF IInv, TypeOK, PageCaches, OnDisk, Failures
<1> QED
  BY <1>1, InitInv, NextInv, PTL DEF Spec

\* pagecache_touch_fn, pagecache_read and pagecache_write neither give a frame to
\* two pages nor lose one, but for those whose write has failed.
THEOREM PageCacheFramesAccounted == ASSUME SizeAssumption PROVE Spec => []FramesAccounted
<1>1. ASSUME IInv, TypeOK PROVE FramesAccounted
  <2>1. FramesApart(pages) /\ (Up => FramesThere(pages, leaks))
    BY <1>1 DEF IInv, Good, Up
  <2>2. Cardinality(Frames) = PageBuckets + PageChains
    BY FrameCount
  <2> QED
    BY <1>1, <2>1, <2>2 DEF FramesAccounted, FramesApart, FramesThere, Once, KeySet
<1> QED
  BY <1>1, InitInv, NextInv, PageCacheTypes, PTL DEF Spec

\* What a page is put for is the last change made to it, wherever it was meanwhile.
THEOREM PageCacheLatestFound == ASSUME SizeAssumption PROVE Spec => []LatestFound
<1>1. ASSUME IInv PROVE LatestFound
  BY <1>1 DEF IInv, Good, Up, LatestFound, ContentFound, Content
<1> QED
  BY <1>1, InitInv, NextInv, PTL DEF Spec

\* The pointers of the last pagecache_put_page calls, as many as there are overflow
\* nodes and one, point to their pages.
THEOREM PageCacheHandedStay == ASSUME SizeAssumption PROVE Spec => []HandedStay
<1>1. ASSUME IInv PROVE HandedStay
  <2>1. HandedHead(pages, handed) /\ handed \in Seq(Given) /\ pages.lru \in Seq(Gids)
    BY <1>1, FieldTypes DEF IInv, Good, Given
  <2>2. ASSUME NEW i \in DOMAIN handed PROVE handed[i].gid \in Cached(pages)
    <3>1. i \in DOMAIN pages.lru /\ handed[i].gid = pages.lru[i]
      BY <2>1 DEF HandedHead
    <3> QED
      BY <3>1 DEF Cached, KeySet
  <2> QED
    BY <2>1, <2>2 DEF HandedStay, HandedHead
<1> QED
  BY <1>1, InitInv, NextInv, PTL DEF Spec

\* Flushes, evictions and restarts never replace a page on disk by an older one, though
\* a pwrite that writes a part of it leaves it torn.
THEOREM PageCacheDiskMonotone == ASSUME SizeAssumption PROVE Spec => DiskMonotone
<1> DEFINE A == \A g \in Gids : \A v \in 1 .. MaxStores :
                  pages.disk[g] = <<g, v>> =>
                    pages'.disk[g] = Torn \/ \E w \in v .. MaxStores : pages'.disk[g] = <<g, w>>
<1>1. ASSUME IInv, [Next]_vars PROVE [A]_vars
  BY <1>1, NextInv DEF DiskAdvances, NoOlder
<1> HIDE DEF A
<1>2. Spec => [][A]_vars
  BY <1>1, InitInv, NextInv, PTL DEF Spec
<1> QED
  BY <1>2 DEF DiskMonotone, A

-----------------------------------------------------------------------------
(* Memory contexts: values of context, and sets of blocks that fit in them. *)

ContextType ==
  [kind : {"none", "bump", "linear"}, current : Start .. ContextSize,
   parent : Contexts \cup {NULL}, children : [Slots -> Contexts \cup {NULL}]]
ContextsType == [Contexts -> ContextType]

\* What a block's header takes, in a context.
Lead(cs, c) == IF cs[c].kind = "bump" THEN Header ELSE 0

Lies(cs, p) == /\ p \in Blocks /\ cs[p.ctx].kind # "none"
               /\ p.at + p.size <= cs[p.ctx].current
               /\ cs[p.ctx].kind = "bump" => p.at >= Start + Header
Beside(cs, p, q) == \/ p.at + p.size + Lead(cs, p.ctx) <= q.at
                    \/ q.at + q.size + Lead(cs, p.ctx) <= p.at

\* The blocks of u lie in the used parts of cs and share nothing.
Fit(cs, u) == /\ \A p \in u : Lies(cs, p)
              /\ \A p, q \in u : p # q /\ p.ctx = q.ctx => Beside(cs, p, q)

\* But for the current of c, ds is cs.
OnlyCurrent(cs, ds, c) ==
  /\ ds \in ContextsType
  /\ \A d \in Contexts : /\ ds[d].kind = cs[d].kind /\ ds[d].parent = cs[d].parent
                         /\ ds[d].children = cs[d].children
                         /\ d # c => ds[d].current = cs[d].current

LEMMA MemorySizes ==
  /\ ContextSize \in Nat \ {0} /\ MaxChildren \in Nat \ {0} /\ StackMax \in Nat \ {0}
  /\ DefaultCapacity \in Nat \ {0} /\ MaxHeld \in Nat \ {0}
  /\ Start = 1 /\ Header = 1 /\ ArrayHeader = 1
  /\ Root \in Contexts /\ Home \in Contexts /\ NULL \notin Contexts /\ NULL \notin Blocks
  /\ Sizes \subseteq Nat \ {0}
<1>1. Blocks \subseteq [ctx : Contexts, at : Nat, size : Nat]
  <2> SUFFICES ASSUME NEW p \in Blocks PROVE p \in [ctx : Contexts, at : Nat, size : Nat]
    OBVIOUS
  <2>1. /\ p = [ctx |-> p.ctx, at |-> p.at, size |-> p.size] /\ p.ctx \in Contexts
        /\ p.at \in Start .. ContextSize /\ p.size \in 1 .. ContextSize
    BY DEF Blocks
  <2>2. p.at \in Nat /\ p.size \in Nat
    BY <2>1, MemoryAssumption DEF Start
  <2> QED BY <2>1, <2>2
<1> QED BY <1>1, MemoryAssumption DEF Start, Header, ArrayHeader

LEMMA BlockIs ==
  ASSUME NEW p \in Blocks
  PROVE  /\ p.ctx \in Contexts /\ p.at \in Nat /\ p.size \in Nat \ {0}
         /\ p.at >= 1 /\ p.at <= ContextSize /\ p.size <= ContextSize
BY MemorySizes DEF Blocks

LEMMA ContextIs ==
  ASSUME NEW cs \in ContextsType, NEW c \in Contexts
  PROVE  /\ cs[c] \in ContextType /\ cs[c].current \in Nat
         /\ cs[c].current >= 1 /\ cs[c].current <= ContextSize
         /\ cs[c].kind \in {"none", "bump", "linear"}
         /\ Lead(cs, c) \in {0, 1} /\ (cs[c].kind = "bump" => Lead(cs, c) = 1)
<1>1. cs[c] \in ContextType
  BY DEF ContextsType
<1> QED BY <1>1, MemorySizes DEF ContextType, Lead

WithCurrent(cs, c, x) == [cs EXCEPT ![c].current = x]

LEMMA SetCurrent ==
  ASSUME NEW cs \in ContextsType, NEW c \in Contexts, NEW x \in Start .. ContextSize
  PROVE  OnlyCurrent(cs, WithCurrent(cs, c, x), c) /\ WithCurrent(cs, c, x)[c].current = x
<1> DEFINE r == [kind |-> cs[c].kind, current |-> x, parent |-> cs[c].parent,
                 children |-> cs[c].children]
           ds == WithCurrent(cs, c, x)
<1>1. cs[c] \in ContextType /\ \A d \in Contexts : cs[d] \in ContextType
  BY DEF ContextsType
<1>2. r \in ContextType
  BY <1>1 DEF ContextType
<1>3. [cs[c] EXCEPT !.current = x] = r
  BY <1>1 DEF ContextType
<1>4. ds = [cs EXCEPT ![c] = r]
  BY <1>3 DEF WithCurrent
<1> HIDE DEF ds
<1>5. /\ ds[c] = r /\ \A d \in Contexts : d # c => ds[d] = cs[d]
      /\ ds \in ContextsType
  BY <1>1, <1>2, <1>4 DEF ContextsType
<1>6. ds[c].current = x /\ ds[c].kind = cs[c].kind /\ ds[c].parent = cs[c].parent
      /\ ds[c].children = cs[c].children
  BY <1>5
<1>7. OnlyCurrent(cs, ds, c)
  BY <1>5, <1>6 DEF OnlyCurrent
<1> QED BY <1>6, <1>7 DEF ds

LEMMA OnlyCurrentSelf == ASSUME NEW cs \in ContextsType, NEW c PROVE OnlyCurrent(cs, cs, c)
BY DEF OnlyCurrent

LEMMA FitFewer == ASSUME NEW cs, NEW u, NEW v, Fit(cs, u), v \subseteq u PROVE Fit(cs, v)
BY DEF Fit

\* Blocks fit where their contexts are the same.
LEMMA FitSame ==
  ASSUME NEW cs, NEW ds, NEW u, Fit(cs, u),
         \A p \in u : ds[p.ctx].kind = cs[p.ctx].kind /\ ds[p.ctx].current = cs[p.ctx].current
  PROVE  Fit(ds, u)
<1>1. \A p \in u : Lies(ds, p)
  BY DEF Fit, Lies
<1>2. \A p, q \in u : Beside(cs, p, q) => Beside(ds, p, q)
  BY DEF Beside, Lead
<1> QED BY <1>1, <1>2 DEF Fit

\* What alloc gives: nothing, or a block that fits beside those of u.
Allocated(cs, c, u, sz, new) ==
  /\ OnlyCurrent(cs, new.contexts, c)
  /\ \/ new.p = NULL /\ new.contexts = cs
     \/ /\ new.p # NULL /\ new.p \in Blocks /\ new.p.ctx = c /\ new.p.size = sz
        /\ new.p \notin u /\ new.p.at = cs[c].current + Lead(cs, c)
        /\ new.contexts[c].current = new.p.at + sz
        /\ Fit(new.contexts, u \cup {new.p})

LEMMA AllocFits ==
  ASSUME NEW cs \in ContextsType, NEW c \in Contexts, cs[c].kind # "none", NEW u, Fit(cs, u),
         NEW sz \in Nat \ {0}
  PROVE  Allocated(cs, c, u, sz, alloc(cs, c, sz))
<1> DEFINE at == cs[c].current + Lead(cs, c)
           p == [ctx |-> c, at |-> at, size |-> sz]
           ds == WithCurrent(cs, c, at + sz)
           new == alloc(cs, c, sz)
<1>1. new = IF at + sz > ContextSize THEN [contexts |-> cs, p |-> NULL]
            ELSE [contexts |-> ds, p |-> p]
  BY DEF alloc, Lead, WithCurrent
<1> HIDE DEF new
<1>2. /\ cs[c].current \in Nat /\ cs[c].current >= 1 /\ Lead(cs, c) \in {0, 1}
      /\ (cs[c].kind = "bump" => Lead(cs, c) = 1)
  BY ContextIs
<1>3. at \in Nat /\ at >= 1
  BY <1>2
<1>4. CASE at + sz > ContextSize
  BY <1>1, <1>4, OnlyCurrentSelf DEF Allocated, new
<1>5. CASE ~ at + sz > ContextSize
  <2> HIDE DEF at
  <2>1. new.contexts = ds /\ new.p = p
    BY <1>1, <1>5
  <2>2. at + sz \in Start .. ContextSize /\ at \in Start .. ContextSize /\ sz \in 1 .. ContextSize
    BY <1>3, <1>5, MemorySizes
  <2>3. p \in Blocks /\ p # NULL
    BY <2>2, MemorySizes DEF Blocks
  <2>4. OnlyCurrent(cs, ds, c) /\ ds[c].current = at + sz
    BY <2>2, SetCurrent
  <2>5. p.ctx = c /\ p.at = at /\ p.size = sz
    OBVIOUS
  <2> HIDE DEF p, ds
  <2>6. \A q \in u : /\ q \in Blocks /\ q.at \in Nat /\ q.size \in Nat \ {0}
                     /\ q.ctx \in Contexts /\ Lies(cs, q)
    <3> TAKE q \in u
    <3>1. Lies(cs, q)
      BY DEF Fit
    <3>2. q \in Blocks
      BY <3>1 DEF Lies
    <3> QED BY <3>1, <3>2, BlockIs
  <2>7. \A d \in Contexts : ds[d].kind = cs[d].kind /\ Lead(ds, d) = Lead(cs, d)
                            /\ (d # c => ds[d].current = cs[d].current)
    BY <2>4 DEF OnlyCurrent, Lead
  <2>8. \A q \in u : Lies(ds, q)
    <3> TAKE q \in u
    <3>1. q.at + q.size <= cs[q.ctx].current
      BY <2>6 DEF Lies
    <3>2. q.at + q.size <= ds[q.ctx].current
      <4>1. CASE q.ctx = c
        <5>1. q.at + q.size \in Nat
          BY <2>6
        <5>2. cs[c].current <= at + sz
          BY <1>2 DEF at
        <5> QED BY <3>1, <4>1, <5>1, <5>2, <1>2, <1>3, <2>4
      <4>2. CASE q.ctx # c
        BY <3>1, <4>2, <2>6, <2>7
      <4> QED BY <4>1, <4>2
    <3> QED BY <3>2, <2>6, <2>7 DEF Lies
  <2>9. Lies(ds, p)
    <3>1. at >= Start + Header \/ cs[c].kind # "bump"
      BY <1>2, MemorySizes DEF at
    <3> QED BY <3>1, <1>3, <2>3, <2>4, <2>5, <2>7, MemorySizes DEF Lies
  <2>10. \A q \in u : q.ctx = c => q.at + q.size + Lead(cs, c) <= at
    <3> TAKE q \in u
    <3>1. q.ctx = c => q.at + q.size <= cs[c].current
      BY <2>6 DEF Lies
    <3>2. q.at + q.size \in Nat
      BY <2>6
    <3> QED BY <3>1, <3>2, <1>2 DEF at
  <2>11. \A q \in u : q.ctx = c => Beside(ds, p, q) /\ Beside(ds, q, p)
    BY <2>5, <2>7, <2>10 DEF Beside
  <2>12. \A q, r \in u : Beside(cs, q, r) => Beside(ds, q, r)
    BY <2>6, <2>7 DEF Beside
  <2>13. Fit(ds, u \cup {p})
    <3>1. \A q \in u \cup {p} : Lies(ds, q)
      BY <2>8, <2>9
    <3>2. \A q, r \in u : q # r /\ q.ctx = r.ctx => Beside(ds, q, r)
      BY <2>12 DEF Fit
    <3>3. \A q, r \in u \cup {p} : q # r /\ q.ctx = r.ctx => Beside(ds, q, r)
      BY <3>2, <2>5, <2>11
    <3> QED BY <3>1, <3>3 DEF Fit
  <2>14. p \notin u
    <3> SUFFICES ASSUME p \in u PROVE FALSE
      OBVIOUS
    <3>1. p.at + p.size + Lead(cs, c) <= p.at
      BY <2>5, <2>10
    <3> QED BY <3>1, <2>5, <1>2, <1>3
  <2> QED BY <2>1, <2>3, <2>4, <2>5, <2>13, <2>14 DEF Allocated, at, new
<1> QED BY <1>4, <1>5

LEMMA FreeFits ==
  ASSUME NEW cs \in ContextsType, NEW u, Fit(cs, u), NEW p \in u, cs[p.ctx].kind = "bump",
         NEW ds, ds = bump_context_free(cs, p)
  PROVE  /\ OnlyCurrent(cs, ds, p.ctx) /\ Fit(ds, u \ {p})
         /\ ds[p.ctx].current = IF p.at + p.size = cs[p.ctx].current THEN p.at - Header
                                ELSE cs[p.ctx].current
<1>1. \A q \in u : /\ q \in Blocks /\ q.at \in Nat /\ q.size \in Nat \ {0}
                   /\ q.ctx \in Contexts /\ Lies(cs, q)
  <2> TAKE q \in u
  <2>1. Lies(cs, q)
    BY DEF Fit
  <2>2. q \in Blocks
    BY <2>1 DEF Lies
  <2> QED BY <2>1, <2>2, BlockIs
<1>6. PICK c \in Contexts : c = p.ctx
  BY <1>1
<1>2. cs[c].current \in Nat /\ cs[c].current <= ContextSize /\ Lead(cs, c) = 1
  BY <1>6, ContextIs
<1>3. p.at >= 2 /\ p.at + p.size <= cs[c].current /\ p.at \in Nat /\ p.size \in Nat \ {0}
  BY <1>1, <1>6, MemorySizes DEF Lies
<1>4. CASE p.at + p.size = cs[c].current
  <2>2. PICK x \in Start .. ContextSize : x = p.at - Header
    BY <1>2, <1>3, MemorySizes
  <2>1. ds = WithCurrent(cs, c, x)
    BY <1>4, <1>6, <2>2 DEF bump_context_free, WithCurrent
  <2>3. OnlyCurrent(cs, ds, c) /\ ds[c].current = x
    BY <2>1, SetCurrent
  <2>4. \A d \in Contexts : ds[d].kind = cs[d].kind /\ Lead(ds, d) = Lead(cs, d)
                            /\ (d # c => ds[d].current = cs[d].current)
    BY <2>3 DEF OnlyCurrent, Lead
  <2>5. \A q \in u \ {p} : q.at + q.size <= ds[q.ctx].current
    <3> TAKE q \in u \ {p}
    <3>0. q.at + q.size <= cs[q.ctx].current
      BY <1>1 DEF Lies
    <3>1. CASE q.ctx = c
      <4>1. Beside(cs, p, q)
        BY <1>6, <3>1 DEF Fit
      <4>2. p.at + p.size + 1 <= q.at \/ q.at + q.size + 1 <= p.at
        BY <4>1, <1>2, <1>6 DEF Beside
      <4>3. ~ p.at + p.size + 1 <= q.at
        BY <3>0, <3>1, <1>1, <1>3, <1>4
      <4>4. q.at + q.size <= p.at - 1
        BY <4>2, <4>3, <1>1, <1>3
      <4> QED BY <4>4, <3>1, <2>2, <2>3, MemorySizes
    <3>2. CASE q.ctx # c
      BY <3>0, <3>2, <2>4, <1>1
    <3> QED BY <3>1, <3>2
  <2>6. \A q \in u \ {p} : Lies(ds, q)
    BY <1>1, <2>4, <2>5 DEF Lies
  <2>7. \A q, r \in u : Beside(cs, q, r) => Beside(ds, q, r)
    BY <1>1, <2>4 DEF Beside
  <2>8. Fit(ds, u \ {p})
    BY <2>6, <2>7 DEF Fit
  <2> QED BY <1>4, <1>6, <2>2, <2>3, <2>8
<1>5. CASE p.at + p.size # cs[c].current
  <2>1. ds = cs
    BY <1>5, <1>6 DEF bump_context_free
  <2>2. Fit(cs, u \ {p})
    BY FitFewer
  <2> QED BY <1>5, <1>6, <2>1, <2>2, OnlyCurrentSelf
<1> QED BY <1>4, <1>5

LEMMA OnlyCurrentTwice ==
  ASSUME NEW cs, NEW ds, NEW es, NEW c, OnlyCurrent(cs, ds, c), OnlyCurrent(ds, es, c)
  PROVE  OnlyCurrent(cs, es, c)
BY DEF OnlyCurrent

\* What bump_context_realloc gives for the block p of u.
Reallocated(cs, u, p, sz, new) ==
  /\ OnlyCurrent(cs, new.contexts, p.ctx)
  /\ Fit(new.contexts, (u \ {p}) \cup ({new.p} \ {NULL}))
  /\ new.p # NULL => /\ new.p \in Blocks /\ new.p.ctx = p.ctx /\ new.p.size >= sz
                     /\ new.p \notin u \ {p}

LEMMA ReallocFits ==
  ASSUME NEW cs \in ContextsType, NEW u, Fit(cs, u), NEW p \in u, cs[p.ctx].kind = "bump",
         NEW sz \in Nat \ {0}
  PROVE  Reallocated(cs, u, p, sz, bump_context_realloc(cs, p, sz))
<1> DEFINE new == bump_context_realloc(cs, p, sz)
<1>1. p \in Blocks /\ p.ctx \in Contexts /\ p.size \in Nat /\ p # NULL
  <2>1. p \in Blocks
    BY DEF Fit, Lies
  <2> QED BY <2>1, BlockIs, MemorySizes
<1>2. CASE sz > p.size
  <2>1. /\ OnlyCurrent(cs, bump_context_free(cs, p), p.ctx)
        /\ Fit(bump_context_free(cs, p), u \ {p})
    BY FreeFits
  <2>2. PICK c \in Contexts : c = p.ctx
    BY <1>1
  <2>3. PICK ds \in ContextsType : ds = bump_context_free(cs, p)
    BY <2>1 DEF OnlyCurrent
  <2>8. PICK v : v = u \ {p}
    OBVIOUS
  <2>9. new = alloc(ds, c, sz) /\ ds[c].kind # "none" /\ Fit(ds, v) /\ OnlyCurrent(cs, ds, c)
    BY <1>2, <2>1, <2>2, <2>3, <2>8 DEF bump_context_realloc, OnlyCurrent
  <2> HIDE DEF new
  <2>10. Allocated(ds, c, v, sz, alloc(ds, c, sz))
    BY <2>9, AllocFits
  <2>4. /\ OnlyCurrent(ds, new.contexts, c)
        /\ \/ new.p = NULL /\ new.contexts = ds
           \/ /\ new.p # NULL /\ new.p \in Blocks /\ new.p.ctx = c /\ new.p.size = sz
              /\ new.p \notin v /\ Fit(new.contexts, v \cup {new.p})
    BY <2>9, <2>10 DEF Allocated
  <2>5. OnlyCurrent(cs, new.contexts, c)
    BY <2>9, <2>4, OnlyCurrentTwice
  <2>6. CASE new.p = NULL /\ new.contexts = ds
    <3>1. (u \ {p}) \cup ({new.p} \ {NULL}) = u \ {p}
      BY <2>6
    <3> QED BY <2>2, <2>5, <2>6, <2>8, <2>9, <3>1 DEF Reallocated, new
  <2>7. CASE /\ new.p # NULL /\ new.p \in Blocks /\ new.p.ctx = c /\ new.p.size = sz
             /\ new.p \notin v /\ Fit(new.contexts, v \cup {new.p})
    <3>1. (u \ {p}) \cup ({new.p} \ {NULL}) = (u \ {p}) \cup {new.p}
      BY <2>7
    <3>2. new.p.size >= sz
      BY <2>7
    <3> QED BY <2>2, <2>5, <2>7, <2>8, <3>1, <3>2 DEF Reallocated, new
  <2> QED BY <2>4, <2>6, <2>7
<1>3. CASE ~ sz > p.size
  <2>1. new.contexts = cs /\ new.p = p
    BY <1>3 DEF bump_context_realloc
  <2> HIDE DEF new
  <2>2. (u \ {p}) \cup ({new.p} \ {NULL}) = u
    BY <2>1, <1>1
  <2> QED BY <1>1, <1>3, <2>1, <2>2, OnlyCurrentSelf DEF Reallocated, new
<1> QED BY <1>2, <1>3

-----------------------------------------------------------------------------
(* The tree.                                                               *)

LEMMA ChildrenAre ==
  ASSUME context \in ContextsType, NEW c \in Contexts
  PROVE  /\ Children(c) \subseteq Contexts
         /\ context[c].children \in [Slots -> Contexts \cup {NULL}]
         /\ \A d \in Contexts : d \in Children(c) <=> \E i \in Slots : context[c].children[i] = d
<1>1. context[c].children \in [Slots -> Contexts \cup {NULL}]
  BY DEF ContextsType, ContextType
<1> QED BY <1>1, MemorySizes DEF Children

LEMMA BelowIs ==
  ASSUME context \in ContextsType, NEW c \in Contexts
  PROVE  /\ c \in Below(c) /\ Below(c) \subseteq Contexts
         /\ \A e \in Below(c) : Children(e) \subseteq Below(c)
         /\ \A S \in SUBSET Contexts :
              (c \in S /\ \A e \in S : Children(e) \subseteq S) => Below(c) \subseteq S
<1>1. \A e \in Below(c) : Children(e) \subseteq Below(c)
  <2> SUFFICES ASSUME NEW e \in Below(c), NEW d \in Children(e), NEW S \in SUBSET Contexts,
                      c \in S, \A x \in S : Children(x) \subseteq S
               PROVE  d \in Contexts /\ d \in S
    BY ChildrenAre DEF Below
  <2>1. e \in Contexts /\ e \in S
    BY DEF Below
  <2>2. d \in S
    BY <2>1
  <2> QED BY <2>2
<1>2. c \in Below(c) /\ Below(c) \subseteq Contexts
  BY DEF Below
<1>3. \A S \in SUBSET Contexts :
        (c \in S /\ \A e \in S : Children(e) \subseteq S) => Below(c) \subseteq S
  BY DEF Below
<1> QED BY <1>1, <1>2, <1>3

\* All but c that is below c is the child of something below c.
LEMMA BelowParent ==
  ASSUME context \in ContextsType, NEW c \in Contexts, NEW d \in Below(c), d # c
  PROVE  \E e \in Below(c) : d \in Children(e)
<1> SUFFICES ASSUME \A e \in Below(c) : d \notin Children(e) PROVE FALSE
  OBVIOUS
<1>1. c \in Below(c) /\ Below(c) \subseteq Contexts /\ \A e \in Below(c) : Children(e) \subseteq Below(c)
  BY BelowIs
<1> DEFINE S == Below(c) \ {d}
<1>2. S \in SUBSET Contexts /\ c \in S /\ \A e \in S : Children(e) \subseteq S
  BY <1>1
<1>3. Below(c) \subseteq S
  BY <1>2, BelowIs
<1> QED BY <1>3

\* Children come later in some order of the contexts.
Later(r) == /\ r \in [Contexts -> Nat]
            /\ \A c, d \in Contexts : d \in Children(c) => r[c] < r[d]
Ranked == \E r : Later(r)

LEMMA RankedApart ==
  ASSUME context \in ContextsType, Ranked, NEW c \in Contexts, NEW d \in Contexts, d \in Children(c)
  PROVE  c \notin Below(d)
<1>1. PICK r : Later(r)
  BY DEF Ranked
<1>2. /\ r \in [Contexts -> Nat]
      /\ \A x, y \in Contexts : y \in Children(x) => r[x] < r[y]
  BY <1>1 DEF Later
<1> DEFINE S == {x \in Contexts : r[d] <= r[x]}
<1>3. \A e \in S : Children(e) \subseteq S
  <2> SUFFICES ASSUME NEW e \in S, NEW x \in Children(e) PROVE x \in S
    OBVIOUS
  <2>1. e \in Contexts /\ x \in Contexts
    BY ChildrenAre
  <2>2. r[d] <= r[e] /\ r[e] < r[x] /\ r[d] \in Nat /\ r[e] \in Nat /\ r[x] \in Nat
    BY <1>2, <2>1
  <2>3. r[d] <= r[x]
    BY <2>2
  <2> QED BY <2>1, <2>3
<1>4. d \in S
  BY <1>2
<1>5. Below(d) \subseteq S
  BY <1>3, <1>4, BelowIs
<1>6. r[c] < r[d] /\ r[c] \in Nat /\ r[d] \in Nat
  BY <1>2
<1>7. c \notin S
  BY <1>6
<1> QED BY <1>5, <1>7

\* One slot, and one parent.
SlotsOf(c, d) == {i \in Slots : context[c].children[i] = d}
Tells(c, d) == /\ SlotsOf(c, d) # {} => Mapped(c) /\ Mapped(d) /\ context[d].parent = c
               /\ context[d].parent = c => Cardinality(SlotsOf(c, d)) = 1
Tree == /\ \A c, d \in Contexts : Tells(c, d)
        /\ Ranked

LEMMA SlotsAre ==
  ASSUME context \in ContextsType, NEW c \in Contexts, NEW d \in Contexts
  PROVE  SlotsOf(c, d) # {} <=> d \in Children(c)
BY ChildrenAre DEF SlotsOf

LEMMA TreeIsOne == ASSUME context \in ContextsType, Tree PROVE OneTree
<1> SUFFICES ASSUME NEW c \in Contexts, NEW d \in Contexts
             PROVE  /\ SlotsOf(c, d) # {} =>
                         Mapped(c) /\ Mapped(d) /\ context[d].parent = c /\ c \notin Below(d)
                    /\ context[d].parent = c => Cardinality(SlotsOf(c, d)) = 1
  BY DEF OneTree, SlotsOf
<1>1. Tells(c, d)
  BY DEF Tree
<1>2. SlotsOf(c, d) # {} => c \notin Below(d)
  BY SlotsAre, RankedApart DEF Tree
<1> QED BY <1>1, <1>2 DEF Tells

LEMMA ParentHas ==
  ASSUME context \in ContextsType, Tree, NEW c \in Contexts, NEW d \in Contexts
  PROVE  context[d].parent = c <=> d \in Children(c)
<1>1. Tells(c, d)
  BY DEF Tree
<1>2. context[d].parent = c => SlotsOf(c, d) # {}
  <2>1. Cardinality({}) = 0
    BY FS_EmptySet
  <2> QED BY <1>1, <2>1 DEF Tells
<1> QED BY <1>1, <1>2, SlotsAre DEF Tells

\* Unmapped contexts are in no slot and have none taken.
LEMMA UnmappedAlone ==
  ASSUME context \in ContextsType, Tree, NEW c \in Contexts, ~Mapped(c)
  PROVE  Children(c) = {} /\ \A d \in Contexts : c \notin Children(d)
<1>1. \A d \in Contexts : Tells(c, d) /\ Tells(d, c)
  BY DEF Tree
<1>2. \A d \in Contexts : SlotsOf(c, d) = {} /\ SlotsOf(d, c) = {}
  BY <1>1 DEF Tells
<1> QED BY <1>2, SlotsAre, ChildrenAre

LEMMA TreeKept ==
  ASSUME context \in ContextsType, Tree, NEW c, OnlyCurrent(context, context', c)
  PROVE  Tree' /\ context' \in ContextsType /\ (\A d \in Contexts : Mapped(d)' = Mapped(d))
<1>1. /\ context' \in ContextsType
      /\ \A d \in Contexts : /\ context'[d].kind = context[d].kind
                             /\ context'[d].parent = context[d].parent
                             /\ context'[d].children = context[d].children
  BY DEF OnlyCurrent
<1>2. \A d \in Contexts : Mapped(d)' = Mapped(d)
  BY <1>1 DEF Mapped
<1>3. \A d \in Contexts : Children(d)' = Children(d)
  BY <1>1 DEF Children
<1>4. Ranked'
  BY <1>3 DEF Tree, Ranked, Later
<1>5. \A d, e \in Contexts : Tells(d, e)'
  <2> TAKE d, e \in Contexts
  <2>1. SlotsOf(d, e)' = SlotsOf(d, e)
    BY <1>1 DEF SlotsOf
  <2>2. Tells(d, e)
    BY DEF Tree
  <2> QED BY <1>1, <1>2, <2>1, <2>2 DEF Tells
<1> QED BY <1>1, <1>2, <1>4, <1>5 DEF Tree

\* The first free slot.
Orders(R) == \A x, y \in Nat : x < y => <<x, y>> \in R

LEMMA FirstSlot ==
  ASSUME NEW S, S \subseteq Slots, S # {}
  PROVE  \E x \in S : \A y \in S : x <= y
<1>1. PICK R : IsWellFoundedOn(R, Nat) /\ Orders(R)
  <2>1. Orders(OpToRel(<, Nat))
    BY DEF OpToRel, Orders
  <2> QED BY <2>1, NatLessThanWellFounded
<1>2. S \subseteq Nat
  BY MemorySizes DEF Slots
<1>3. PICK x \in S : \A y \in S : <<y, x>> \notin R
  BY <1>1, <1>2, WFMin
<1>4. ASSUME NEW y \in S PROVE x <= y
  <2>1. x \in Nat /\ y \in Nat
    BY <1>2
  <2>2. y < x => <<y, x>> \in R
    BY <1>1, <2>1, Zenon DEF Orders
  <2> QED BY <1>3, <2>1, <2>2
<1> QED BY <1>4

\* What a new context is, and where it is put: nowhere, or in a free slot i.
Fresh(kind) == [kind |-> kind, current |-> Start, parent |-> NULL, children |-> NoChildren]
Made(c, kind) == [context EXCEPT ![c] = Fresh(kind)]
Joined(cs, p, i, c) == [cs EXCEPT ![p].children[i] = c, ![c].parent = p]

LEMMA Adds ==
  ASSUME NEW c, NEW kind, NEW p, NEW cs, cs = add_child(Made(c, kind), p, c)
  PROVE  \/ cs = Made(c, kind)
         \/ \E i \in Slots : Made(c, kind)[p].children[i] = NULL /\ cs = Joined(Made(c, kind), p, i, c)
<1> DEFINE m == Made(c, kind)
           free == {i \in Slots : m[p].children[i] = NULL}
           first == CHOOSE i \in free : \A j \in free : i <= j
<1>1. cs = IF free = {} THEN m ELSE Joined(m, p, first, c)
  BY DEF add_child, Joined
<1>2. free # {} => first \in free
  <2> SUFFICES ASSUME free # {} PROVE first \in free
    OBVIOUS
  <2>1. \E i \in free : \A j \in free : i <= j
    BY FirstSlot
  <2> HIDE DEF free
  <2> QED BY <2>1
<1> HIDE DEF m, first
<1>3. CASE free = {}
  BY <1>1, <1>3 DEF m
<1>4. CASE free # {}
  <2>1. first \in Slots /\ m[p].children[first] = NULL /\ cs = Joined(m, p, first, c)
    BY <1>1, <1>2, <1>4
  <2> QED BY <2>1 DEF m
<1> QED BY <1>3, <1>4

LEMMA MadeIs ==
  ASSUME context \in ContextsType, NEW c \in Contexts, NEW kind \in {"bump", "linear"}
  PROVE  /\ Made(c, kind) \in ContextsType /\ Made(c, kind)[c] = Fresh(kind)
         /\ \A d \in Contexts \ {c} : Made(c, kind)[d] = context[d]
         /\ Fresh(kind).kind = kind /\ Fresh(kind).current = Start /\ Fresh(kind).parent = NULL
         /\ \A i \in Slots : Fresh(kind).children[i] = NULL
<1>1. NoChildren \in [Slots -> Contexts \cup {NULL}] /\ \A i \in Slots : NoChildren[i] = NULL
  BY DEF NoChildren
<1>2. Fresh(kind) \in ContextType
  BY <1>1, MemorySizes DEF Fresh, ContextType
<1>3. /\ Fresh(kind).kind = kind /\ Fresh(kind).current = Start /\ Fresh(kind).parent = NULL
      /\ \A i \in Slots : Fresh(kind).children[i] = NULL
  BY <1>1 DEF Fresh
<1> QED BY <1>2, <1>3 DEF Made, ContextsType

LEMMA JoinedIs ==
  ASSUME NEW cs \in ContextsType, NEW c \in Contexts, NEW p \in Contexts, c # p, NEW i \in Slots
  PROVE  LET ds == Joined(cs, p, i, c)
         IN  /\ ds \in ContextsType
             /\ \A d \in Contexts : ds[d].kind = cs[d].kind /\ ds[d].current = cs[d].current
             /\ \A d \in Contexts \ {p} : ds[d].children = cs[d].children
             /\ ds[p].children[i] = c
             /\ \A j \in Slots \ {i} : ds[p].children[j] = cs[p].children[j]
             /\ ds[c].parent = p /\ \A d \in Contexts \ {c} : ds[d].parent = cs[d].parent
<1> DEFINE ds == Joined(cs, p, i, c)
           k == [cs[p].children EXCEPT ![i] = c]
           rp == [kind |-> cs[p].kind, current |-> cs[p].current, parent |-> cs[p].parent, children |-> k]
           rc == [kind |-> cs[c].kind, current |-> cs[c].current, parent |-> p,
                  children |-> cs[c].children]
<1>1. \A d \in Contexts : cs[d] \in ContextType
  BY DEF ContextsType
<1>2. cs[p].children \in [Slots -> Contexts \cup {NULL}]
  BY <1>1 DEF ContextType
<1>3. k \in [Slots -> Contexts \cup {NULL}] /\ k[i] = c /\ \A j \in Slots \ {i} : k[j] = cs[p].children[j]
  BY <1>2
<1>4. rp \in ContextType /\ rc \in ContextType
  BY <1>1, <1>3 DEF ContextType
<1>5. [cs[p] EXCEPT !.children[i] = c] = rp /\ [cs[c] EXCEPT !.parent = p] = rc
  BY <1>1 DEF ContextType
<1>6. ds = [d \in Contexts |-> IF d = c THEN rc ELSE IF d = p THEN rp ELSE cs[d]]
  <2>1. ds = [[cs EXCEPT ![p] = rp] EXCEPT ![c] = rc]
    BY <1>1, <1>5 DEF Joined, ContextsType
  <2> HIDE DEF ds, rp, rc
  <2> QED BY <2>1 DEF ContextsType
<1>7. rp.children = k /\ rp.kind = cs[p].kind /\ rp.current = cs[p].current /\ rp.parent = cs[p].parent
      /\ rc.kind = cs[c].kind /\ rc.current = cs[c].current /\ rc.parent = p
      /\ rc.children = cs[c].children
  OBVIOUS
<1> HIDE DEF ds, rp, rc, k
<1>8. ds \in ContextsType
  BY <1>1, <1>4, <1>6 DEF ContextsType
<1>9. ds[p] = rp /\ ds[c] = rc /\ \A d \in Contexts : d # p /\ d # c => ds[d] = cs[d]
  BY <1>6
<1> QED BY <1>3, <1>7, <1>8, <1>9 DEF ds

LEMMA TreeCreate ==
  ASSUME context \in ContextsType, Tree, NEW c \in Contexts, NEW p \in Contexts,
         NEW kind \in {"bump", "linear"}, ~Mapped(c), Mapped(p),
         context' = add_child(Made(c, kind), p, c)
  PROVE  /\ Tree' /\ context' \in ContextsType
         /\ (\A d \in Contexts : Mapped(d) => Mapped(d)')
         /\ \A d \in Contexts \ {c} : /\ context'[d].kind = context[d].kind
                                      /\ context'[d].current = context[d].current
         /\ context'[c].current = Start /\ context'[c].kind = kind
<1> DEFINE m == Made(c, kind)
<1>1. /\ m \in ContextsType /\ m[c].kind = kind /\ m[c].current = Start /\ m[c].parent = NULL
      /\ (\A i \in Slots : m[c].children[i] = NULL)
      /\ \A d \in Contexts \ {c} : m[d] = context[d]
  BY MadeIs
<1>2. c # p
  OBVIOUS
<1>3. context' = m \/ \E i \in Slots : m[p].children[i] = NULL /\ context' = Joined(m, p, i, c)
  BY Adds
<1>4. /\ Children(c) = {} /\ (\A d \in Contexts : c \notin Children(d))
      /\ \A d \in Contexts : context[d].parent # c /\ SlotsOf(d, c) = {}
  BY UnmappedAlone, ParentHas, SlotsAre
<1>5. \A d, e \in Contexts : Tells(d, e)
  BY DEF Tree
<1>6. PICK r : Later(r)
  BY DEF Tree, Ranked
<1>7. c # NULL /\ p # NULL /\ NULL \notin Contexts
  BY MemorySizes
<1>13. \A d, e \in Contexts : e \in Children(d) <=> SlotsOf(d, e) # {}
  BY SlotsAre
<1> HIDE DEF m
<1>8. CASE context' = m
  <2>1. \A d, e \in Contexts : /\ d = c => SlotsOf(d, e)' = {}
                               /\ d # c => SlotsOf(d, e)' = SlotsOf(d, e)
    BY <1>1, <1>7, <1>8 DEF SlotsOf
  <2>2. \A d, e \in Contexts : Tells(d, e)'
    <3> TAKE d, e \in Contexts
    <3>1. CASE d = c
      <4>1. context'[e].parent # c
        BY <1>1, <1>4, <1>7, <1>8
      <4> QED BY <2>1, <3>1, <4>1 DEF Tells
    <3>2. CASE d # c /\ e = c
      <4>1. context'[e].parent # d
        BY <1>1, <1>7, <1>8, <3>2
      <4> QED BY <1>4, <2>1, <3>2, <4>1 DEF Tells
    <3>3. CASE d # c /\ e # c
      <4>1. context'[d] = context[d] /\ context'[e] = context[e]
        BY <1>1, <1>8, <3>3
      <4> QED BY <1>5, <2>1, <3>3, <4>1 DEF Tells, Mapped
    <3> QED BY <3>1, <3>2, <3>3
  <2>3. \A d, e \in Contexts : e \in Children(d)' => e \in Children(d)
    <3> TAKE d, e \in Contexts
    <3>1. e \in Children(d)' <=> SlotsOf(d, e)' # {}
      BY <1>7 DEF Children, SlotsOf
    <3> QED BY <1>13, <2>1, <3>1
  <2>4. Ranked'
    BY <1>6, <2>3 DEF Ranked, Later
  <2> QED BY <1>1, <1>8, <2>2, <2>4 DEF Tree, Mapped
<1>9. ASSUME NEW i \in Slots, m[p].children[i] = NULL, context' = Joined(m, p, i, c)
      PROVE  /\ Tree' /\ context' \in ContextsType
             /\ (\A d \in Contexts : Mapped(d) => Mapped(d)')
             /\ \A d \in Contexts \ {c} : /\ context'[d].kind = context[d].kind
                                          /\ context'[d].current = context[d].current
             /\ context'[c].current = Start /\ context'[c].kind = kind
  <2>1. /\ context' \in ContextsType
        /\ \A d \in Contexts : context'[d].kind = m[d].kind /\ context'[d].current = m[d].current
        /\ \A d \in Contexts \ {p} : context'[d].children = m[d].children
        /\ context'[p].children[i] = c
        /\ \A j \in Slots \ {i} : context'[p].children[j] = m[p].children[j]
        /\ context'[c].parent = p /\ \A d \in Contexts \ {c} : context'[d].parent = m[d].parent
    BY <1>1, <1>2, <1>9, JoinedIs
  <2>2. \A d \in Contexts : Mapped(d) => Mapped(d)'
    BY <1>1, <2>1 DEF Mapped
  <2>3. \A d \in Contexts \ {c} : /\ context'[d].kind = context[d].kind
                                  /\ context'[d].current = context[d].current
                                  /\ context'[d].parent = context[d].parent
    BY <1>1, <2>1
  <2>4. \A e \in Contexts : SlotsOf(c, e)' = {}
    BY <1>1, <1>2, <1>7, <2>1 DEF SlotsOf
  <2>5. \A d, e \in Contexts : d # c /\ d # p => SlotsOf(d, e)' = SlotsOf(d, e)
    BY <1>1, <2>1 DEF SlotsOf
  <2>6. SlotsOf(p, c)' = {i}
    <3>1. \A j \in Slots : context[p].children[j] # c
      BY <1>4 DEF SlotsOf
    <3>2. \A j \in Slots \ {i} : context'[p].children[j] # c
      BY <1>1, <1>2, <2>1, <3>1
    <3> QED BY <1>9, <2>1, <3>2 DEF SlotsOf
  <2>7. \A e \in Contexts : e # c => SlotsOf(p, e)' = SlotsOf(p, e)
    <3> TAKE e \in Contexts
    <3> HAVE e # c
    <3>1. \A j \in Slots : context'[p].children[j] = e <=> context[p].children[j] = e
      <4> TAKE j \in Slots
      <4>1. CASE j = i
        BY <1>1, <1>2, <1>7, <1>9, <2>1, <4>1
      <4>2. CASE j # i
        BY <1>1, <1>2, <2>1, <4>2
      <4> QED BY <4>1, <4>2
    <3> QED BY <3>1 DEF SlotsOf
  <2>8. \A d, e \in Contexts : Tells(d, e)'
    <3> TAKE d, e \in Contexts
    <3>1. CASE d = c
      <4>1. context'[e].parent # c
        BY <1>2, <1>4, <2>1, <2>3
      <4> QED BY <2>4, <3>1, <4>1 DEF Tells
    <3>2. CASE d = p /\ e = c
      <4>1. Cardinality({i}) = 1
        BY FS_Singleton
      <4>2. Mapped(p)' /\ Mapped(c)'
        BY <1>1, <2>1, <2>2 DEF Mapped
      <4> QED BY <2>1, <2>6, <3>2, <4>1, <4>2 DEF Tells
    <3>3. CASE d # p /\ d # c /\ e = c
      BY <1>4, <2>1, <2>5, <3>3 DEF Tells
    <3>4. CASE d # c /\ e # c
      <4>1. SlotsOf(d, e)' = SlotsOf(d, e)
        BY <2>5, <2>7, <3>4
      <4> QED BY <1>5, <2>2, <2>3, <3>4, <4>1 DEF Tells
    <3> QED BY <3>1, <3>2, <3>3, <3>4
  <2>9. \A d, e \in Contexts : e \in Children(d)' =>
          (e \in Children(d) /\ d # c /\ e # c) \/ (d = p /\ e = c)
    <3> TAKE d, e \in Contexts
    <3>1. e \in Children(d)' <=> SlotsOf(d, e)' # {}
      BY <1>7 DEF Children, SlotsOf
    <3>2. e \in Children(d) <=> SlotsOf(d, e) # {}
      BY <1>13
    <3> QED BY <1>4, <2>4, <2>5, <2>6, <2>7, <3>1, <3>2
  <2>10. Ranked'
    <3>1. PICK s \in [Contexts -> Nat] : s = r
      BY <1>6 DEF Later
    <3>2. \A d, e \in Contexts : e \in Children(d) => s[d] < s[e]
      BY <1>6, <3>1 DEF Later
    <3>3. PICK n \in Nat : n = s[p]
      OBVIOUS
    <3>4. PICK t \in [Contexts -> Nat] : t[c] = n + 1 /\ \A d \in Contexts \ {c} : t[d] = s[d]
      <4>1. [s EXCEPT ![c] = n + 1] \in [Contexts -> Nat]
        OBVIOUS
      <4> QED BY <4>1
    <3>5. \A d, e \in Contexts : e \in Children(d)' => t[d] < t[e]
      BY <1>2, <2>9, <3>2, <3>3, <3>4
    <3> QED BY <3>5 DEF Ranked, Later
  <2>11. context'[c].current = Start /\ context'[c].kind = kind
    BY <1>1, <2>1
  <2> QED BY <2>1, <2>2, <2>3, <2>8, <2>10, <2>11 DEF Tree
<1> QED BY <1>3, <1>8, <1>9

\* What goes with c: none of it is where c has its slot, or in a slot elsewhere.
LEMMA BelowApart ==
  ASSUME context \in ContextsType, Tree, NEW c \in Contexts
  PROVE  /\ \A d \in Below(c) : context[c].parent # d
         /\ \A d \in Contexts : \A e \in Contexts \ Below(c) : context[e].parent = d => d \notin Below(c)
         /\ \A d \in Contexts \ Below(c) : \A e \in Below(c) : e # c => SlotsOf(d, e) = {}
<1>1. /\ c \in Below(c) /\ Below(c) \subseteq Contexts
      /\ \A e \in Below(c) : Children(e) \subseteq Below(c)
  BY BelowIs
<1>2. \A d, e \in Contexts : /\ context[e].parent = d <=> e \in Children(d)
                             /\ e \in Children(d) <=> SlotsOf(d, e) # {}
  BY ParentHas, SlotsAre
<1>3. \A d \in Below(c) : context[c].parent # d
  <2> SUFFICES ASSUME NEW d \in Below(c), context[c].parent = d PROVE FALSE
    OBVIOUS
  <2>1. c \in Children(d) /\ d \in Contexts
    BY <1>1, <1>2
  <2>2. d \notin Below(c)
    BY <2>1, RankedApart DEF Tree
  <2> QED BY <2>2
<1>4. \A d \in Contexts : \A e \in Contexts \ Below(c) : context[e].parent = d => d \notin Below(c)
  BY <1>1, <1>2
<1>5. \A d \in Contexts \ Below(c) : \A e \in Below(c) : e # c => SlotsOf(d, e) = {}
  <2> TAKE d \in Contexts \ Below(c)
  <2> TAKE e \in Below(c)
  <2> HAVE e # c
  <2>1. PICK x \in Below(c) : e \in Children(x)
    BY BelowParent
  <2>2. x \in Contexts /\ e \in Contexts /\ d # x
    BY <1>1
  <2>3. context[e].parent = x
    BY <1>2, <2>1, <2>2
  <2>4. context[e].parent # d
    BY <2>2, <2>3
  <2> QED BY <1>2, <2>2, <2>4
<1> QED BY <1>3, <1>4, <1>5

LEMMA UnmappedIs ==
  /\ Unmapped \in ContextType /\ Unmapped.kind = "none" /\ Unmapped.current = Start
  /\ Unmapped.parent = NULL /\ Unmapped.children = NoChildren
  /\ NoChildren \in [Slots -> Contexts \cup {NULL}] /\ \A i \in Slots : NoChildren[i] = NULL
<1>1. NoChildren \in [Slots -> Contexts \cup {NULL}] /\ \A i \in Slots : NoChildren[i] = NULL
  BY DEF NoChildren
<1> QED BY <1>1, MemorySizes DEF Unmapped, ContextType

LEMMA TreeReset ==
  ASSUME context \in ContextsType, Tree, NEW c \in Contexts, Mapped(c),
         context' = [d \in Contexts |->
           IF d = c THEN [context[c] EXCEPT !.current = Start, !.children = NoChildren]
           ELSE IF d \in Below(c) THEN Unmapped ELSE context[d]]
  PROVE  /\ Tree' /\ context' \in ContextsType /\ Mapped(c)'
         /\ context'[c].current = Start /\ context'[c].kind = context[c].kind
         /\ \A d \in Below(c) \ {c} : context'[d] = Unmapped
         /\ \A d \in Contexts \ Below(c) : context'[d] = context[d]
<1>1. /\ c \in Below(c) /\ Below(c) \subseteq Contexts
      /\ \A e \in Below(c) : Children(e) \subseteq Below(c)
  BY BelowIs
<1>2. \A d \in Contexts : context[d] \in ContextType
  BY DEF ContextsType
<1> DEFINE rc == [kind |-> context[c].kind, current |-> Start, parent |-> context[c].parent,
                  children |-> NoChildren]
<1>3. [context[c] EXCEPT !.current = Start, !.children = NoChildren] = rc
  <2>1. PICK x \in ContextType : x = context[c]
    BY <1>2
  <2>2. [x EXCEPT !.current = Start, !.children = NoChildren] =
          [[x EXCEPT !.current = Start] EXCEPT !.children = NoChildren]
    BY DEF ContextType
  <2>3. [x EXCEPT !.current = Start] =
          [kind |-> x.kind, current |-> Start, parent |-> x.parent, children |-> x.children]
    BY DEF ContextType
  <2>4. PICK y \in ContextType :
          y = [kind |-> x.kind, current |-> Start, parent |-> x.parent, children |-> x.children]
    <3>1. Start \in Start .. ContextSize
      BY MemorySizes
    <3>2. x.kind \in {"none", "bump", "linear"} /\ x.parent \in Contexts \cup {NULL}
          /\ x.children \in [Slots -> Contexts \cup {NULL}]
      BY DEF ContextType
    <3> QED BY <3>1, <3>2 DEF ContextType
  <2>5. [y EXCEPT !.children = NoChildren] =
          [kind |-> y.kind, current |-> y.current, parent |-> y.parent, children |-> NoChildren]
    BY DEF ContextType
  <2>6. y.kind = x.kind /\ y.current = Start /\ y.parent = x.parent
    BY <2>4
  <2>7. [[x EXCEPT !.current = Start] EXCEPT !.children = NoChildren] = rc
    BY <2>1, <2>3, <2>4, <2>5, <2>6
  <2> QED BY <2>1, <2>2, <2>7
<1>4. rc \in ContextType /\ rc.kind = context[c].kind /\ rc.current = Start
      /\ rc.parent = context[c].parent /\ rc.children = NoChildren
  BY <1>2, UnmappedIs, MemorySizes DEF ContextType
<1>5. context' = [d \in Contexts |-> IF d = c THEN rc
                                     ELSE IF d \in Below(c) THEN Unmapped ELSE context[d]]
  BY <1>3
<1> HIDE DEF rc
<1>6. /\ context'[c] = rc
      /\ \A d \in Below(c) \ {c} : context'[d] = Unmapped
      /\ \A d \in Contexts \ Below(c) : context'[d] = context[d]
  BY <1>1, <1>5
<1>7. context' \in ContextsType
  BY <1>2, <1>4, <1>5, UnmappedIs DEF ContextsType
<1>8. NULL \notin Contexts
  BY MemorySizes
<1>9. \A d \in Below(c) : \A e \in Contexts : SlotsOf(d, e)' = {}
  BY <1>4, <1>6, <1>8, UnmappedIs DEF SlotsOf
<1>10. \A d \in Contexts \ Below(c) : \A e \in Contexts : SlotsOf(d, e)' = SlotsOf(d, e)
  BY <1>6 DEF SlotsOf
<1>11. /\ \A d \in Below(c) : context[c].parent # d
       /\ \A d \in Contexts : \A e \in Contexts \ Below(c) : context[e].parent = d => d \notin Below(c)
       /\ \A d \in Contexts \ Below(c) : \A e \in Below(c) : e # c => SlotsOf(d, e) = {}
  BY BelowApart
<1>12. \A d, e \in Contexts : Tells(d, e)'
  <2> TAKE d, e \in Contexts
  <2>1. Tells(d, e)
    BY DEF Tree
  <2>2. CASE d \in Below(c)
    <3>1. context'[e].parent # d
      <4>1. CASE e = c
        BY <1>4, <1>6, <1>11, <2>2, <4>1
      <4>2. CASE e \in Below(c) /\ e # c
        BY <1>6, <1>8, <4>2, UnmappedIs
      <4>3. CASE e \notin Below(c)
        BY <1>6, <1>11, <2>2, <4>3
      <4> QED BY <4>1, <4>2, <4>3
    <3> QED BY <1>9, <2>2, <3>1 DEF Tells
  <2>3. CASE d \notin Below(c) /\ e \in Below(c) /\ e # c
    <3>1. context'[e].parent = NULL
      BY <1>6, <2>3, UnmappedIs
    <3> QED BY <1>8, <1>10, <1>11, <2>3, <3>1 DEF Tells
  <2>4. CASE d \notin Below(c) /\ (e \notin Below(c) \/ e = c)
    <3>1. context'[e].parent = context[e].parent /\ context'[e].kind = context[e].kind
          /\ context'[d] = context[d]
      BY <1>4, <1>6, <2>4
    <3> QED BY <1>10, <2>1, <2>4, <3>1 DEF Tells, Mapped
  <2> QED BY <2>2, <2>3, <2>4
<1>13. \A d, e \in Contexts : e \in Children(d)' => e \in Children(d)
  <2> TAKE d, e \in Contexts
  <2>1. e \in Children(d)' <=> SlotsOf(d, e)' # {}
    BY <1>8 DEF Children, SlotsOf
  <2>2. e \in Children(d) <=> SlotsOf(d, e) # {}
    BY SlotsAre
  <2> QED BY <1>9, <1>10, <2>1, <2>2
<1>14. Ranked'
  BY <1>13 DEF Tree, Ranked, Later
<1> QED BY <1>4, <1>6, <1>7, <1>12, <1>14 DEF Tree, Mapped

LEMMA TreeDrop ==
  ASSUME context \in ContextsType, Tree, NEW c \in Contexts,
         context' = [d \in Contexts |->
           IF d \in Below(c) THEN Unmapped
           ELSE [context[d] EXCEPT !.children = [i \in Slots |-> IF @[i] = c THEN NULL ELSE @[i]]]]
  PROVE  /\ Tree' /\ context' \in ContextsType
         /\ \A d \in Below(c) : context'[d] = Unmapped
         /\ \A d \in Contexts \ Below(c) : /\ context'[d].kind = context[d].kind
                                           /\ context'[d].current = context[d].current
<1>1. /\ c \in Below(c) /\ Below(c) \subseteq Contexts
      /\ \A e \in Below(c) : Children(e) \subseteq Below(c)
  BY BelowIs
<1>2. \A d \in Contexts : context[d] \in ContextType
  BY DEF ContextsType
<1> DEFINE ch(d) == [i \in Slots |-> IF context[d].children[i] = c THEN NULL
                                     ELSE context[d].children[i]]
           rd(d) == [kind |-> context[d].kind, current |-> context[d].current,
                     parent |-> context[d].parent, children |-> ch(d)]
<1>3. ASSUME NEW d \in Contexts
      PROVE  /\ [context[d] EXCEPT !.children = ch(d)] = rd(d)
             /\ rd(d) \in ContextType
             /\ rd(d).kind = context[d].kind /\ rd(d).current = context[d].current
             /\ rd(d).parent = context[d].parent
             /\ \A i \in Slots : rd(d).children[i] = IF context[d].children[i] = c THEN NULL
                                                     ELSE context[d].children[i]
  <2>1. context[d].children \in [Slots -> Contexts \cup {NULL}]
    BY <1>2 DEF ContextType
  <2>2. ch(d) \in [Slots -> Contexts \cup {NULL}]
    BY <2>1
  <2>3. \A i \in Slots : ch(d)[i] = IF context[d].children[i] = c THEN NULL
                                    ELSE context[d].children[i]
    OBVIOUS
  <2>4. PICK k : k = ch(d)
    OBVIOUS
  <2> HIDE DEF ch
  <2>5. [context[d] EXCEPT !.children = k] = rd(d)
    BY <1>2, <2>4 DEF ContextType
  <2>6. rd(d) \in ContextType
    BY <1>2, <2>2 DEF ContextType
  <2> QED BY <2>3, <2>4, <2>5, <2>6
<1>5. context' = [d \in Contexts |-> IF d \in Below(c) THEN Unmapped ELSE rd(d)]
  BY <1>3
<1> HIDE DEF ch, rd
<1>6. /\ \A d \in Below(c) : context'[d] = Unmapped
      /\ \A d \in Contexts \ Below(c) : context'[d] = rd(d)
  BY <1>1, <1>5
<1>7. context' \in ContextsType
  BY <1>3, <1>5, UnmappedIs DEF ContextsType
<1>8. NULL \notin Contexts
  BY MemorySizes
<1>9. \A d, e \in Contexts : d \in Below(c) \/ e = c => SlotsOf(d, e)' = {}
  <2> TAKE d, e \in Contexts
  <2>1. CASE d \in Below(c)
    BY <1>6, <1>8, <2>1, UnmappedIs DEF SlotsOf
  <2>2. CASE d \notin Below(c) /\ e = c
    BY <1>3, <1>6, <1>8, <2>2 DEF SlotsOf
  <2> QED BY <2>1, <2>2
<1>10. \A d \in Contexts \ Below(c) : \A e \in Contexts \ {c} : SlotsOf(d, e)' = SlotsOf(d, e)
  <2> TAKE d \in Contexts \ Below(c)
  <2> TAKE e \in Contexts \ {c}
  <2>1. \A i \in Slots : context'[d].children[i] = e <=> context[d].children[i] = e
    BY <1>3, <1>6, <1>8
  <2> QED BY <2>1 DEF SlotsOf
<1>11. /\ \A d \in Contexts : \A e \in Contexts \ Below(c) : context[e].parent = d => d \notin Below(c)
       /\ \A d \in Contexts \ Below(c) : \A e \in Below(c) : e # c => SlotsOf(d, e) = {}
  BY BelowApart
<1>12. \A d, e \in Contexts : Tells(d, e)'
  <2> TAKE d, e \in Contexts
  <2>1. Tells(d, e)
    BY DEF Tree
  <2>2. CASE e \in Below(c)
    <3>1. context'[e].parent # d
      BY <1>6, <1>8, <2>2, UnmappedIs
    <3>2. SlotsOf(d, e)' = {}
      BY <1>9, <1>10, <1>11, <2>2
    <3> QED BY <3>1, <3>2 DEF Tells
  <2>3. CASE d \in Below(c) /\ e \notin Below(c)
    <3>1. context'[e].parent # d
      BY <1>3, <1>6, <1>11, <2>3
    <3> QED BY <1>9, <2>3, <3>1 DEF Tells
  <2>4. CASE d \notin Below(c) /\ e \notin Below(c)
    <3>1. /\ context'[e].parent = context[e].parent /\ context'[e].kind = context[e].kind
          /\ context'[d].kind = context[d].kind
      BY <1>3, <1>6, <2>4
    <3>2. SlotsOf(d, e)' = SlotsOf(d, e)
      BY <1>1, <1>10, <2>4
    <3> QED BY <2>1, <3>1, <3>2 DEF Tells, Mapped
  <2> QED BY <2>2, <2>3, <2>4
<1>13. \A d, e \in Contexts : e \in Children(d)' => e \in Children(d)
  <2> TAKE d, e \in Contexts
  <2>1. e \in Children(d)' <=> SlotsOf(d, e)' # {}
    BY <1>8 DEF Children, SlotsOf
  <2>2. e \in Children(d) <=> SlotsOf(d, e) # {}
    BY SlotsAre
  <2> QED BY <1>9, <1>10, <2>1, <2>2
<1>14. Ranked'
  BY <1>13 DEF Tree, Ranked, Later
<1>15. \A d \in Contexts \ Below(c) : /\ context'[d].kind = context[d].kind
                                      /\ context'[d].current = context[d].current
  BY <1>3, <1>6
<1> QED BY <1>6, <1>7, <1>12, <1>14, <1>15 DEF Tree

-----------------------------------------------------------------------------
(* The inductive invariant of Memory.                                      *)

ArrayType == [block : Blocks \cup {NULL}, size : Nat, capacity : Nat, torn : BOOLEAN,
              rewound : BOOLEAN]

MemTypes ==
  /\ context \in ContextsType /\ held \cup rewound \subseteq Blocks /\ private \in BOOLEAN
  /\ array \in ArrayType /\ array.size <= array.capacity
  /\ context_stack \in Seq(Contexts) /\ Len(context_stack) \in 1 .. StackMax + 1
  /\ \A i \in DOMAIN context_stack : Mapped(context_stack[i])

\* What Apart says to be apart.
InUse == held \cup (IF array.block = NULL \/ array.rewound THEN {} ELSE {array.block})

\* Where the array is.  A context with nothing else in it is in use as far as the
\* array goes, or as after a reset.
InHome ==
  /\ array.block = NULL => ~array.torn /\ ~array.rewound
  /\ array.block # NULL => /\ array.block.ctx = Home /\ context[Home].kind = "bump"
                           /\ array.block.at + array.block.size <= ContextSize
  /\ array.block # NULL /\ ~array.rewound => array.block \notin held
  /\ array.rewound => array.torn \/ private
  /\ private => \A p \in held : p.ctx # Home
  /\ private /\ array.block # NULL => array.block.at = Start + Header
  /\ private /\ context[Home].kind = "bump" =>
       IF array.block = NULL \/ array.rewound THEN context[Home].current = Start
       ELSE context[Home].current = array.block.at + array.block.size

\* Blocks taken back are in their contexts.
Behind == \A p \in rewound : Mapped(p.ctx) /\ p.at + p.size <= ContextSize

Places == Fit(context, InUse) /\ InHome /\ ArrayFits /\ Behind

MemInv == MemTypes /\ Places /\ Tree

LEMMA MemInit == ASSUME MemoryInit PROVE MemInv
<1>1. context_create("bump") \in ContextType /\ Unmapped \in ContextType
      /\ context_create("bump").children = NoChildren /\ Unmapped.children = NoChildren
      /\ context_create("bump").parent = NULL /\ Unmapped.parent = NULL
      /\ context_create("bump").kind = "bump" /\ context_create("bump").current = Start
  BY UnmappedIs, MemorySizes DEF context_create, Unmapped, ContextType
<1>2. /\ context \in ContextsType
      /\ \A c \in Contexts : context[c].children = NoChildren /\ context[c].parent = NULL
      /\ context[Root].kind = "bump"
      /\ context[Root].current = Start /\ \A c \in Contexts : context[c].current = Start
  BY <1>1, MemorySizes, UnmappedIs DEF MemoryInit, ContextsType
<1>3. NoArray \in ArrayType /\ NoArray.block = NULL /\ NoArray.size = 0 /\ NoArray.capacity = 0
      /\ NoArray.torn = FALSE /\ NoArray.rewound = FALSE
  BY DEF NoArray, ArrayType
<1>4. MemTypes
  <2>1. context_stack = <<Root>> /\ context_stack \in Seq(Contexts) /\ Len(context_stack) = 1
    BY MemorySizes DEF MemoryInit
  <2>2. \A i \in DOMAIN context_stack : context_stack[i] = Root
    BY <2>1
  <2>3. 1 \in 1 .. StackMax + 1
    BY MemorySizes
  <2> QED BY <1>2, <1>3, <2>1, <2>2, <2>3 DEF MemTypes, MemoryInit, Mapped
<1>5. Places
  <2>1. InUse = {}
    BY <1>3 DEF InUse, MemoryInit
  <2> QED BY <1>2, <1>3, <2>1, MemorySizes DEF Places, Fit, InHome, ArrayFits, Behind, MemoryInit
<1>6. Tree
  <2>1. NULL \notin Contexts
    BY MemorySizes
  <2>2. \A c, d \in Contexts : SlotsOf(c, d) = {} /\ Tells(c, d)
    BY <1>2, <2>1, UnmappedIs DEF SlotsOf, Tells
  <2>3. \A c, d \in Contexts : d \notin Children(c)
    BY <1>2, <2>2, SlotsAre
  <2>4. Ranked
    <3>1. Later([c \in Contexts |-> 0])
      BY <2>3 DEF Later
    <3> QED BY <3>1 DEF Ranked
  <2> QED BY <2>2, <2>4 DEF Tree
<1> QED BY <1>4, <1>5, <1>6 DEF MemInv

LEMMA MemIsApart == ASSUME MemInv PROVE BlocksApart
<1>1. MemoryTypeOK
  <2>1. context_stack \in Seq({c \in Contexts : Mapped(c)})
    <3>1. /\ context_stack \in Seq(Contexts)
          /\ \A i \in DOMAIN context_stack : Mapped(context_stack[i])
      BY DEF MemInv, MemTypes
    <3>2. /\ Len(context_stack) \in Nat /\ context_stack = [i \in 1 .. Len(context_stack) |-> context_stack[i]]
          /\ DOMAIN context_stack = 1 .. Len(context_stack)
          /\ \A i \in 1 .. Len(context_stack) : context_stack[i] \in Contexts
      BY <3>1
    <3>3. \A i \in 1 .. Len(context_stack) : context_stack[i] \in {c \in Contexts : Mapped(c)}
      BY <3>1, <3>2
    <3>4. context_stack \in [1 .. Len(context_stack) -> {c \in Contexts : Mapped(c)}]
      BY <3>2, <3>3
    <3> QED BY <3>2, <3>4, SeqDef
  <2>2. array.size \in 0 .. array.capacity /\ array.block \in Blocks \cup {NULL}
    BY DEF MemInv, MemTypes, ArrayType
  <2> QED BY <2>1, <2>2 DEF MemoryTypeOK, MemInv, MemTypes, ContextsType, ContextType
<1>2. Apart
  <2>1. /\ \A p \in InUse : Mapped(p.ctx) /\ p.at + p.size <= context[p.ctx].current
        /\ \A p, q \in InUse : p # q /\ p.ctx = q.ctx => Beside(context, p, q)
    BY DEF MemInv, Places, Fit, Lies, Mapped
  <2>2. Behind
    BY DEF MemInv, Places
  <2> QED BY <2>1, <2>2 DEF Apart, InUse, Beside, Lead, Behind
<1> QED BY <1>1, <1>2 DEF BlocksApart, MemInv, Places

LEMMA MemIsTree == ASSUME MemInv PROVE OneTree
BY TreeIsOne DEF MemInv, MemTypes

\* What the steps use of MemInv.
LEMMA MemFacts ==
  ASSUME MemInv
  PROVE  /\ context \in ContextsType /\ private \in BOOLEAN /\ array \in ArrayType
         /\ array.size \in Nat /\ array.capacity \in Nat
         /\ array.torn \in BOOLEAN /\ array.rewound \in BOOLEAN
         /\ array.block # NULL => array.block \in Blocks
         /\ \A p \in held : p \in Blocks /\ p.ctx \in Contexts /\ p # NULL /\ Mapped(p.ctx)
         /\ Home \in Contexts /\ NULL \notin Blocks
         /\ held \subseteq InUse /\ \A p \in InUse : p \in Blocks /\ p.ctx \in Contexts
<1>1. /\ context \in ContextsType /\ private \in BOOLEAN /\ array \in ArrayType /\ held \subseteq Blocks
      /\ Fit(context, InUse)
  BY DEF MemInv, MemTypes, Places
<1>2. array.size \in Nat /\ array.capacity \in Nat /\ array.torn \in BOOLEAN
      /\ array.rewound \in BOOLEAN /\ array.block \in Blocks \cup {NULL}
  BY <1>1 DEF ArrayType
<1>3. held \subseteq InUse
  BY DEF InUse
<1>4. \A p \in InUse : p \in Blocks /\ p.ctx \in Contexts /\ Mapped(p.ctx)
  BY <1>1, BlockIs DEF Fit, Lies, Mapped
<1> QED BY <1>1, <1>2, <1>3, <1>4, MemorySizes

LEMMA HeldInside ==
  ASSUME MemInv, NEW p \in held PROVE Mapped(p.ctx) /\ p.at + p.size <= ContextSize
<1>1. p \in InUse /\ Fit(context, InUse)
  BY MemFacts DEF MemInv, Places
<1>2. /\ context[p.ctx].kind # "none" /\ p.at + p.size <= context[p.ctx].current
      /\ p.ctx \in Contexts /\ p.at \in Nat /\ p.size \in Nat
  BY <1>1, BlockIs DEF Fit, Lies
<1>3. context[p.ctx].current \in Nat /\ context[p.ctx].current <= ContextSize
  BY <1>2, ContextIs, MemFacts
<1>4. ContextSize \in Nat /\ p.at + p.size \in Nat
  BY <1>2, MemorySizes
<1> QED BY <1>2, <1>3, <1>4 DEF Mapped

\* The array's counts change, and its place does not.
LEMMA CountsChange ==
  ASSUME MemInv, context' = context, held' = held, rewound' = rewound, private' = private,
         array' \in ArrayType, array'.block = array.block, array'.torn = array.torn,
         array'.rewound = array.rewound,
         array'.capacity <= array.capacity
  PROVE  Places'
<1>1. InUse' = InUse
  BY DEF InUse
<1>2. ArrayFits'
  <2>1. array.capacity \in Nat /\ array'.capacity \in Nat
    BY MemFacts DEF ArrayType
  <2>2. array.block # NULL => array.block.size \in Nat /\ array.block.at \in Nat
    BY MemFacts, BlockIs
  <2> QED BY <2>1, <2>2, MemorySizes DEF ArrayFits, MemInv, Places
<1> QED BY <1>1, <1>2 DEF MemInv, Places, InHome, Behind, Mapped

LEMMA TypesKept ==
  ASSUME MemInv, context' \in ContextsType, held' \cup rewound' \subseteq Blocks, array' \in ArrayType,
         array'.size <= array'.capacity, private' = private, context_stack' = context_stack,
         \A c \in OnStack : Mapped(c) => Mapped(c)'
  PROVE  MemTypes'
<1>1. \A i \in DOMAIN context_stack : Mapped(context_stack[i])'
  BY DEF MemInv, MemTypes, OnStack
<1> QED BY <1>1 DEF MemInv, MemTypes

LEMMA PushKeeps == ASSUME MemInv, NEW c \in Contexts, Mapped(c), context_push(c) PROVE MemInv'
<1>1. /\ context_stack' = Append(context_stack, c) /\ Len(context_stack) <= StackMax
      /\ context' = context /\ held' = held /\ rewound' = rewound
      /\ array' = array /\ private' = private
  BY DEF context_push
<1>2. Places' /\ OnlyCurrent(context, context', c)
  <2>1. array.capacity <= array.capacity
    BY MemFacts
  <2> QED BY <1>1, <2>1, CountsChange, MemFacts, OnlyCurrentSelf
<1>3. MemTypes'
  <2>1. /\ context_stack \in Seq(Contexts) /\ Len(context_stack) \in Nat
        /\ \A i \in DOMAIN context_stack : Mapped(context_stack[i])
    BY DEF MemInv, MemTypes
  <2>2. /\ context_stack' \in Seq(Contexts) /\ Len(context_stack') = Len(context_stack) + 1
        /\ \A i \in DOMAIN context_stack' :
             IF i = Len(context_stack) + 1 THEN context_stack'[i] = c
             ELSE i \in DOMAIN context_stack /\ context_stack'[i] = context_stack[i]
    BY <1>1, <2>1
  <2>3. \A i \in DOMAIN context_stack' : Mapped(context_stack'[i])
    BY <2>1, <2>2
  <2>4. \A i \in DOMAIN context_stack' : Mapped(context_stack[i])'
    BY <1>1, <2>3 DEF Mapped
  <2> QED BY <1>1, <2>1, <2>2, <2>4, MemorySizes DEF MemInv, MemTypes
<1> QED BY <1>2, <1>3, TreeKept, MemFacts DEF MemInv

LEMMA PopKeeps == ASSUME MemInv, context_pop PROVE MemInv'
<1>1. /\ Len(context_stack) > 1
      /\ context_stack' = SubSeq(context_stack, 1, Len(context_stack) - 1)
      /\ context' = context /\ held' = held /\ rewound' = rewound
      /\ array' = array /\ private' = private
  BY DEF context_pop
<1>2. Places' /\ OnlyCurrent(context, context', Root)
  <2>1. array.capacity <= array.capacity
    BY MemFacts
  <2> QED BY <1>1, <2>1, CountsChange, MemFacts, OnlyCurrentSelf
<1>3. MemTypes'
  <2>1. /\ context_stack \in Seq(Contexts) /\ Len(context_stack) \in Nat
        /\ Len(context_stack) <= StackMax + 1
        /\ \A i \in DOMAIN context_stack : Mapped(context_stack[i])
    BY DEF MemInv, MemTypes
  <2>2. /\ context_stack' \in Seq(Contexts) /\ Len(context_stack') = Len(context_stack) - 1
        /\ \A i \in DOMAIN context_stack' :
             i \in DOMAIN context_stack /\ context_stack'[i] = context_stack[i]
    BY <1>1, <2>1
  <2>3. \A i \in DOMAIN context_stack' : Mapped(context_stack[i])'
    BY <1>1, <2>1, <2>2 DEF Mapped
  <2> QED BY <1>1, <2>1, <2>2, <2>3, MemorySizes DEF MemInv, MemTypes
<1> QED BY <1>2, <1>3, TreeKept, MemFacts DEF MemInv

LEMMA CreateKeeps ==
  ASSUME MemInv, NEW c \in Contexts, NEW p \in Contexts, NEW kind \in {"bump", "linear"},
         Create(c, kind, p)
  PROVE  MemInv'
<1>1. /\ ~Mapped(c) /\ Mapped(p)
      /\ context' = add_child(Made(c, kind), p, c)
      /\ UNCHANGED <<held, rewound, context_stack, array, private>>
  <2>1. context_create(kind) = Fresh(kind)
    BY DEF context_create, Fresh, Unmapped
  <2> QED BY <2>1 DEF Create, Made
<1>2. /\ Tree' /\ context' \in ContextsType
      /\ (\A d \in Contexts : Mapped(d) => Mapped(d)')
      /\ \A d \in Contexts \ {c} : /\ context'[d].kind = context[d].kind
                                   /\ context'[d].current = context[d].current
      /\ context'[c].current = Start
  BY <1>1, TreeCreate, MemFacts DEF MemInv
<1>3. MemTypes'
  <2>1. OnStack \subseteq Contexts
    BY DEF MemInv, MemTypes, OnStack
  <2> QED BY <1>1, <1>2, <2>1, TypesKept DEF MemInv, MemTypes
<1>4. InUse' = InUse
  BY <1>1 DEF InUse
<1>5. Fit(context', InUse')
  <2>1. \A q \in InUse : q.ctx \in Contexts \ {c}
    BY <1>1, MemFacts DEF MemInv, Places, Fit, Lies, Mapped
  <2>2. Fit(context, InUse)
    BY DEF MemInv, Places
  <2> QED BY <1>2, <1>4, <2>1, <2>2, FitSame
<1>6. InHome'
  <2>1. CASE Home = c
    <3>1. array.block = NULL
      BY <1>1, <2>1 DEF MemInv, Places, InHome, Mapped
    <3> QED BY <1>1, <1>2, <2>1, <3>1 DEF MemInv, Places, InHome
  <2>2. CASE Home # c
    <3>1. context'[Home].kind = context[Home].kind /\ context'[Home].current = context[Home].current
      BY <1>2, <2>2, MemorySizes
    <3> QED BY <1>1, <3>1 DEF MemInv, Places, InHome
  <2> QED BY <2>1, <2>2
<1>7. ArrayFits' /\ Behind'
  <2>1. array.block # NULL => Home # c
    BY <1>1 DEF MemInv, Places, InHome, Mapped
  <2>2. Home # c => context'[Home].current = context[Home].current
    BY <1>2, MemorySizes
  <2>3. ArrayFits /\ Behind
    BY DEF MemInv, Places
  <2>4. \A q \in rewound : q.ctx \in Contexts
    BY BlockIs DEF MemInv, MemTypes
  <2> QED BY <1>1, <1>2, <2>1, <2>2, <2>3, <2>4 DEF ArrayFits, Behind
<1> QED BY <1>2, <1>3, <1>5, <1>6, <1>7 DEF MemInv, Places

\* The contexts of B go, but for one that is emptied, and the rest stay as they are.
LEMMA GonePlaces ==
  ASSUME MemInv, NEW B, Gone(B), private' = private,
         \A d \in Contexts \ B : /\ context'[d].kind = context[d].kind
                                 /\ context'[d].current = context[d].current,
         \A d \in B \cap Contexts : \/ context'[d].kind = "none"
                                    \/ /\ context'[d].kind = context[d].kind
                                       /\ context'[d].current = Start
  PROVE  /\ Places' /\ held' \cup rewound' \subseteq Blocks
         /\ array' \in ArrayType /\ array'.size <= array'.capacity
<1>1. /\ held' = {p \in held : p.ctx \notin B} /\ held' \subseteq held
      /\ rewound' = {p \in rewound : p.ctx \notin B} /\ rewound' \subseteq rewound
  BY DEF Gone
<1> DEFINE kept == [array EXCEPT !.size = 0, !.rewound = TRUE]
<1>2. /\ kept \in ArrayType /\ kept.block = array.block /\ kept.capacity = array.capacity
      /\ kept.torn = array.torn /\ kept.size = 0 /\ kept.rewound = TRUE
      /\ NoArray \in ArrayType /\ NoArray.block = NULL /\ NoArray.torn = FALSE /\ NoArray.size = 0
      /\ NoArray.capacity = 0 /\ NoArray.rewound = FALSE
  <2>1. array \in ArrayType
    BY MemFacts
  <2> QED BY <2>1 DEF ArrayType, NoArray
<1>3. \/ array' = array /\ (array.block = NULL \/ array.block.ctx \notin B)
      \/ array' = kept /\ array.block # NULL /\ array.block.ctx \in B /\ private /\ Mapped(Home)'
      \/ array' = NoArray
  BY DEF Gone
<1> HIDE DEF kept
<1>4. array' \in ArrayType /\ array'.size <= array'.capacity
  <2>1. array.size <= array.capacity /\ array.capacity \in Nat /\ array \in ArrayType
    BY MemFacts DEF MemInv, MemTypes
  <2> QED BY <1>2, <1>3, <2>1
<1>5. InHome /\ Fit(context, InUse) /\ ArrayFits /\ Behind
  BY DEF MemInv, Places
<1>6. (array.block # NULL => array.block.ctx = Home) /\ Home \in Contexts
  BY <1>5, MemorySizes DEF InHome
<1>7. Fit(context', InUse')
  <2>1. InUse' \subseteq {p \in InUse : p.ctx \notin B}
    BY <1>1, <1>2, <1>3 DEF InUse
  <2>2. Fit(context, InUse')
    BY <1>5, <2>1, FitFewer
  <2>3. \A p \in InUse' : p.ctx \in Contexts \ B
    BY <2>1, MemFacts
  <2> QED BY <2>2, <2>3, FitSame
<1>11. ASSUME array' = NoArray
       PROVE  InHome' /\ ArrayFits'
  <2>1. ArrayFits'
    BY <1>2, <1>11 DEF ArrayFits
  <2>2. private /\ context'[Home].kind = "bump" => context'[Home].current = Start
    <3>1. CASE Home \in B
      BY <1>6, <3>1
    <3>2. CASE Home \notin B
      <4>1. array.block = NULL
        BY <1>2, <1>6, <1>11, <3>2 DEF Gone
      <4> QED BY <1>5, <1>6, <3>2, <4>1 DEF InHome
    <3> QED BY <3>1, <3>2
  <2> QED BY <1>1, <1>2, <1>5, <1>11, <2>1, <2>2 DEF InHome
<1>12. ASSUME array' = array /\ (array.block = NULL \/ array.block.ctx \notin B)
       PROVE  InHome' /\ ArrayFits'
  <2>1. array.block # NULL => /\ context'[Home].kind = context[Home].kind
                              /\ context'[Home].current = context[Home].current
    BY <1>6, <1>12
  <2>2. ArrayFits'
    BY <1>5, <1>12, <2>1 DEF ArrayFits
  <2>3. array.block = NULL => (private /\ context'[Home].kind = "bump" => context'[Home].current = Start)
    <3>1. CASE Home \in B
      BY <1>6, <3>1
    <3>2. CASE Home \notin B
      BY <1>5, <1>6, <3>2 DEF InHome
    <3> QED BY <3>1, <3>2
  <2>4. InHome'
    <3>1. CASE array.block = NULL
      BY <1>1, <1>5, <1>12, <2>3, <3>1 DEF InHome
    <3>2. CASE array.block # NULL
      BY <1>1, <1>5, <1>12, <2>1, <3>2 DEF InHome
    <3> QED BY <3>1, <3>2
  <2> QED BY <2>2, <2>4
<1>13. ASSUME array' = kept /\ array.block # NULL /\ array.block.ctx \in B /\ private /\ Mapped(Home)'
       PROVE  InHome' /\ ArrayFits'
  <2>1. context'[Home].kind = context[Home].kind /\ context'[Home].current = Start
    BY <1>6, <1>13 DEF Mapped
  <2>2. ArrayFits'
    BY <1>2, <1>5, <1>13, <2>1 DEF ArrayFits, InHome
  <2>3. InHome'
    BY <1>1, <1>2, <1>5, <1>13, <2>1 DEF InHome
  <2> QED BY <2>2, <2>3
<1>14. Behind'
  <2>1. \A p \in rewound : p.ctx \in Contexts
    BY BlockIs DEF MemInv, MemTypes
  <2> QED BY <1>1, <1>5, <2>1 DEF Behind, Mapped
<1>15. held' \cup rewound' \subseteq Blocks
  BY <1>1 DEF MemInv, MemTypes
<1> QED BY <1>3, <1>4, <1>7, <1>11, <1>12, <1>13, <1>14, <1>15 DEF Places

LEMMA ResetKeeps ==
  ASSUME MemInv, NEW c \in Contexts, Mapped(c), bump_context_reset(c) PROVE MemInv'
<1>1. /\ (Below(c) \ {c}) \cap OnStack = {} /\ Gone(Below(c))
      /\ context' = [d \in Contexts |->
           IF d = c THEN [context[c] EXCEPT !.current = Start, !.children = NoChildren]
           ELSE IF d \in Below(c) THEN Unmapped ELSE context[d]]
      /\ UNCHANGED <<context_stack, private>>
  BY DEF bump_context_reset
<1>2. /\ Tree' /\ context' \in ContextsType /\ Mapped(c)'
      /\ context'[c].current = Start /\ context'[c].kind = context[c].kind
      /\ \A d \in Below(c) \ {c} : context'[d] = Unmapped
      /\ \A d \in Contexts \ Below(c) : context'[d] = context[d]
  BY <1>1, TreeReset, MemFacts DEF MemInv
<1>3. Unmapped.kind = "none"
  BY UnmappedIs
<1>4. Places' /\ held' \cup rewound' \subseteq Blocks /\ array' \in ArrayType /\ array'.size <= array'.capacity
  BY <1>1, <1>2, <1>3, GonePlaces
<1>5. \A d \in OnStack : Mapped(d) => Mapped(d)'
  <2>1. OnStack \subseteq Contexts
    BY DEF MemInv, MemTypes, OnStack
  <2> QED BY <1>1, <1>2, <2>1 DEF Mapped
<1> QED BY <1>1, <1>2, <1>4, <1>5, TypesKept DEF MemInv

LEMMA DropKeeps == ASSUME MemInv, NEW c \in Contexts, bump_context_drop(c) PROVE MemInv'
<1>1. /\ Below(c) \cap OnStack = {} /\ Gone(Below(c))
      /\ context' = [d \in Contexts |->
           IF d \in Below(c) THEN Unmapped
           ELSE [context[d] EXCEPT !.children = [i \in Slots |-> IF @[i] = c THEN NULL ELSE @[i]]]]
      /\ UNCHANGED <<context_stack, private>>
  BY DEF bump_context_drop
<1>2. /\ Tree' /\ context' \in ContextsType
      /\ \A d \in Below(c) : context'[d] = Unmapped
      /\ \A d \in Contexts \ Below(c) : /\ context'[d].kind = context[d].kind
                                        /\ context'[d].current = context[d].current
  BY <1>1, TreeDrop, MemFacts DEF MemInv
<1>3. Unmapped.kind = "none"
  BY UnmappedIs
<1>4. Places' /\ held' \cup rewound' \subseteq Blocks /\ array' \in ArrayType /\ array'.size <= array'.capacity
  BY <1>1, <1>2, <1>3, GonePlaces
<1>5. \A d \in OnStack : Mapped(d) => Mapped(d)'
  <2>1. OnStack \subseteq Contexts
    BY DEF MemInv, MemTypes, OnStack
  <2> QED BY <1>1, <1>2, <2>1 DEF Mapped
<1> QED BY <1>1, <1>2, <1>4, <1>5, TypesKept DEF MemInv

\* Callers take or give back blocks in c.
LEMMA BlocksChange ==
  ASSUME MemInv, NEW c \in Contexts, OnlyCurrent(context, context', c),
         UNCHANGED <<context_stack, array, private>>,
         Fit(context', held' \cup (InUse \ held)),
         held' \cap (InUse \ held) = {}, private => c # Home,
         \A p \in held' : p \in held \/ p.ctx = c,
         rewound' \subseteq rewound \cup held
  PROVE  MemInv'
<1>1. /\ Tree' /\ context' \in ContextsType
      /\ \A d \in Contexts : Mapped(d)' = Mapped(d) /\ context'[d].kind = context[d].kind
                             /\ (d # c => context'[d].current = context[d].current)
  BY TreeKept, MemFacts DEF MemInv, OnlyCurrent
<1>2. InHome /\ array.size <= array.capacity
  BY DEF MemInv, Places, MemTypes
<1>3. held' \cup rewound' \subseteq Blocks
  <2>1. held' \subseteq Blocks
    BY DEF Fit, Lies
  <2> QED BY <2>1 DEF MemInv, MemTypes
<1>4. MemTypes'
  <2>1. OnStack \subseteq Contexts
    BY DEF MemInv, MemTypes, OnStack
  <2> QED BY <1>1, <1>2, <1>3, <2>1, MemFacts, TypesKept
<1>5. InUse' = held' \cup (InUse \ held)
  BY <1>2 DEF InUse, InHome
<1>6. InHome'
  <2>1. array'.block # NULL /\ ~array'.rewound => array'.block \notin held'
    <3> SUFFICES ASSUME array.block # NULL, ~array.rewound, array.block \in held' PROVE FALSE
      OBVIOUS
    <3>1. array.block \notin held
      BY <1>2 DEF InHome
    <3> QED BY <3>1 DEF InUse
  <2>2. private' => \A p \in held' : p.ctx # Home
    BY <1>2 DEF InHome
  <2>3. private => context'[Home].current = context[Home].current
    BY <1>1, MemFacts
  <2>4. context'[Home].kind = context[Home].kind
    BY <1>1, MemFacts
  <2> QED BY <1>2, <2>1, <2>2, <2>3, <2>4 DEF InHome
<1>7. ArrayFits'
  <2>1. array.rewound /\ ~array.torn => private
    BY <1>2 DEF InHome
  <2>2. private => context'[Home].current = context[Home].current
    BY <1>1, MemFacts
  <2> QED BY <2>1, <2>2 DEF MemInv, Places, ArrayFits
<1>8. Behind'
  <2>1. \A p \in rewound : p.ctx \in Contexts /\ Mapped(p.ctx) /\ p.at + p.size <= ContextSize
    BY BlockIs DEF MemInv, MemTypes, Places, Behind
  <2>2. \A p \in held : p.ctx \in Contexts /\ Mapped(p.ctx) /\ p.at + p.size <= ContextSize
    BY HeldInside, MemFacts
  <2> QED BY <1>1, <2>1, <2>2 DEF Behind
<1> QED BY <1>1, <1>4, <1>5, <1>6, <1>7, <1>8 DEF MemInv, Places

LEMMA CurrentIs == ASSUME MemInv PROVE Current \in Contexts /\ Mapped(Current)
BY DEF MemInv, MemTypes, Current

LEMMA AllocKeeps == ASSUME MemInv, NEW sz \in Sizes, Alloc(sz) PROVE MemInv'
<1>1. PICK c \in Contexts : c = Current /\ Mapped(c)
  BY CurrentIs
<1>2. PICK new : new = alloc(context, c, sz)
  OBVIOUS
<1>3. /\ ForBlocks(c) /\ context' = new.contexts /\ held' = held \cup ({new.p} \ {NULL})
      /\ UNCHANGED <<rewound, context_stack, array, private>>
  BY <1>1, <1>2 DEF Alloc
<1>4. Allocated(context, c, InUse, sz, new)
  <2>1. sz \in Nat \ {0}
    BY MemorySizes
  <2>2. Fit(context, InUse) /\ context[c].kind # "none"
    BY <1>1 DEF MemInv, Places, Mapped
  <2> QED BY <1>2, <2>1, <2>2, AllocFits, MemFacts
<1>5. private => c # Home
  BY <1>3 DEF ForBlocks
<1>6. CASE new.p = NULL /\ new.contexts = context
  <2>1. held' = held /\ held' \cup (InUse \ held) = InUse
    BY <1>3, <1>6, MemFacts
  <2> QED BY <1>3, <1>4, <1>5, <1>6, <2>1, BlocksChange DEF Allocated, MemInv, Places
<1>7. CASE /\ new.p # NULL /\ new.p \in Blocks /\ new.p.ctx = c /\ new.p \notin InUse
           /\ Fit(new.contexts, InUse \cup {new.p})
  <2>1. held' = held \cup {new.p} /\ held' \cup (InUse \ held) = InUse \cup {new.p}
    BY <1>3, <1>7, MemFacts
  <2>2. held' \cap (InUse \ held) = {} /\ \A p \in held' : p \in held \/ p.ctx = c
    BY <1>7, <2>1
  <2> QED BY <1>3, <1>4, <1>5, <1>7, <2>1, <2>2, BlocksChange DEF Allocated
<1> QED BY <1>4, <1>6, <1>7 DEF Allocated

LEMMA FreeKeeps == ASSUME MemInv, NEW p \in held, Free(p) PROVE MemInv'
<1>1. PICK c \in Contexts : c = p.ctx
  BY MemFacts
<1>2. PICK ds : ds = bump_context_free(context, p)
  OBVIOUS
<1>3. /\ context[c].kind = "bump" /\ context' = ds /\ held' = held \ {p}
      /\ UNCHANGED <<rewound, context_stack, array, private>>
  BY <1>1, <1>2 DEF Free
<1>4. OnlyCurrent(context, ds, c) /\ Fit(ds, InUse \ {p})
  <2>1. Fit(context, InUse) /\ p \in InUse
    BY MemFacts DEF MemInv, Places
  <2> QED BY <1>1, <1>2, <1>3, <2>1, FreeFits, MemFacts
<1>5. private => c # Home
  BY <1>1 DEF MemInv, Places, InHome
<1>6. held' \cup (InUse \ held) = InUse \ {p} /\ held' \cap (InUse \ held) = {}
      /\ \A q \in held' : q \in held
  BY <1>3, MemFacts
<1> QED BY <1>3, <1>4, <1>5, <1>6, BlocksChange

LEMMA ReallocKeeps ==
  ASSUME MemInv, NEW p \in held, NEW sz \in Sizes, Realloc(p, sz) PROVE MemInv'
<1>1. PICK c \in Contexts : c = p.ctx
  BY MemFacts
<1>2. PICK new : new = bump_context_realloc(context, p, sz)
  OBVIOUS
<1>3. /\ context[c].kind = "bump" /\ context' = new.contexts
      /\ \/ new.p # NULL /\ held' = (held \ {p}) \cup {new.p} /\ rewound' = rewound
         \/ new.p = NULL /\ context' = context /\ held' = held /\ rewound' = rewound
         \/ new.p = NULL /\ held' = held \ {p} /\ rewound' = rewound \cup {p}
      /\ UNCHANGED <<context_stack, array, private>>
  BY <1>1, <1>2 DEF Realloc
<1>4. Reallocated(context, InUse, p, sz, new)
  <2>1. Fit(context, InUse) /\ p \in InUse
    BY MemFacts DEF MemInv, Places
  <2>2. sz \in Nat \ {0}
    BY MemorySizes
  <2> QED BY <1>1, <1>2, <1>3, <2>1, <2>2, ReallocFits, MemFacts
<1>5. private => c # Home
  BY <1>1 DEF MemInv, Places, InHome
<1>6. /\ OnlyCurrent(context, context', c)
      /\ Fit(context', (InUse \ {p}) \cup ({new.p} \ {NULL}))
      /\ new.p # NULL => new.p.ctx = c /\ new.p \notin InUse \ {p}
  BY <1>1, <1>3, <1>4 DEF Reallocated
<1>7. held \subseteq InUse
  BY MemFacts
<1>8. CASE new.p # NULL /\ held' = (held \ {p}) \cup {new.p} /\ rewound' = rewound
  <2>1. held' \cup (InUse \ held) = (InUse \ {p}) \cup ({new.p} \ {NULL})
    BY <1>7, <1>8
  <2>2. held' \cap (InUse \ held) = {} /\ \A q \in held' : q \in held \/ q.ctx = c
    BY <1>6, <1>8
  <2> QED BY <1>3, <1>5, <1>6, <1>8, <2>1, <2>2, BlocksChange
<1>9. CASE new.p = NULL /\ context' = context /\ held' = held /\ rewound' = rewound
  <2>1. held' \cup (InUse \ held) = InUse /\ Fit(context, InUse)
    BY <1>7, <1>9 DEF MemInv, Places
  <2> QED BY <1>3, <1>5, <1>6, <1>9, <2>1, BlocksChange
<1>10. CASE new.p = NULL /\ held' = held \ {p} /\ rewound' = rewound \cup {p}
  <2>1. held' \cup (InUse \ held) = (InUse \ {p}) \cup ({new.p} \ {NULL})
    BY <1>7, <1>10
  <2> QED BY <1>3, <1>5, <1>6, <1>10, <2>1, BlocksChange
<1> QED BY <1>3, <1>8, <1>9, <1>10

\* The records array_raise and array_pop make.
ArrayIs(a, block, size, capacity, torn, back) ==
  /\ a \in ArrayType
  /\ a.block = block /\ a.size = size /\ a.capacity = capacity /\ a.torn = torn
  /\ a.rewound = back

LEMMA ArraySet ==
  ASSUME NEW a \in ArrayType, NEW p \in Blocks \cup {NULL}, NEW k \in Nat, NEW n \in Nat,
         NEW b \in BOOLEAN
  PROVE  /\ ArrayIs([a EXCEPT !.size = n], a.block, n, a.capacity, a.torn, a.rewound)
         /\ ArrayIs([a EXCEPT !.size = n, !.capacity = k], a.block, n, k, a.torn, a.rewound)
         /\ ArrayIs([a EXCEPT !.capacity = k, !.torn = TRUE, !.rewound = b],
                    a.block, a.size, k, TRUE, b)
         /\ ArrayIs([a EXCEPT !.block = p, !.size = n, !.capacity = k, !.rewound = b],
                    p, n, k, a.torn, b)
         /\ ArrayIs([a EXCEPT !.block = p, !.capacity = k], p, a.size, k, a.torn, a.rewound)
<1>1. ArrayIs([a EXCEPT !.size = n], a.block, n, a.capacity, a.torn, a.rewound)
  BY DEF ArrayType, ArrayIs
<1>2. ArrayIs([a EXCEPT !.size = n, !.capacity = k], a.block, n, k, a.torn, a.rewound)
  BY DEF ArrayType, ArrayIs
<1>3. ArrayIs([a EXCEPT !.capacity = k, !.torn = TRUE, !.rewound = b],
              a.block, a.size, k, TRUE, b)
  BY DEF ArrayType, ArrayIs
<1>4. ArrayIs([a EXCEPT !.block = p, !.size = n, !.capacity = k, !.rewound = b],
              p, n, k, a.torn, b)
  BY DEF ArrayType, ArrayIs
<1>5. ArrayIs([a EXCEPT !.block = p, !.capacity = k], p, a.size, k, a.torn, a.rewound)
  BY DEF ArrayType, ArrayIs
<1> QED BY <1>1, <1>2, <1>3, <1>4, <1>5

LEMMA CountsKeep ==
  ASSUME MemInv, context' = context, UNCHANGED <<held, rewound, context_stack, private>>,
         NEW n \in Nat, NEW k \in Nat, n <= k, k <= array.capacity,
         ArrayIs(array', array.block, n, k, array.torn, array.rewound)
  PROVE  MemInv'
<1>1. Places'
  BY CountsChange DEF ArrayIs
<1>2. Tree' /\ context' \in ContextsType /\ \A d \in Contexts : Mapped(d)' = Mapped(d)
  <2>1. OnlyCurrent(context, context', Root)
    BY MemFacts, OnlyCurrentSelf
  <2> QED BY <2>1, TreeKept, MemFacts DEF MemInv
<1>3. MemTypes'
  <2>1. OnStack \subseteq Contexts /\ held \cup rewound \subseteq Blocks
    BY DEF MemInv, MemTypes, OnStack
  <2> QED BY <1>2, <2>1, TypesKept DEF ArrayIs
<1> QED BY <1>1, <1>2, <1>3 DEF MemInv

LEMMA PopArray == ASSUME MemInv, array_pop PROVE MemInv'
<1>1. PICK s \in Nat : s = array.size
  BY MemFacts
<1>2. PICK c \in Nat : c = array.capacity
  BY MemFacts
<1>3. s <= c /\ s > 0
  BY <1>1, <1>2 DEF MemInv, MemTypes, array_pop
<1>4. PICK n \in Nat : n = s - 1
  BY <1>3
<1>5. PICK k \in Nat : /\ k = IF n = c \div 2 /\ c > 4 THEN c \div 2 ELSE c
                       /\ n <= k /\ k <= c
  BY <1>3, <1>4
<1>6. array' = [array EXCEPT !.size = n, !.capacity = k]
      /\ context' = context /\ UNCHANGED <<held, rewound, context_stack, private>>
  BY <1>1, <1>2, <1>4, <1>5 DEF array_pop
<1>7. array \in ArrayType /\ array.block \in Blocks \cup {NULL}
  BY MemFacts
<1>8. ArrayIs(array', array.block, n, k, array.torn, array.rewound)
  BY <1>6, <1>7, ArraySet
<1> QED BY <1>2, <1>5, <1>6, <1>8, CountsKeep

LEMMA ClearArray == ASSUME MemInv, array_clear PROVE MemInv'
<1>1. array \in ArrayType /\ array.block \in Blocks \cup {NULL} /\ array.capacity \in Nat
      /\ 0 <= array.capacity /\ array.capacity <= array.capacity
  BY MemFacts
<1>2. ArrayIs(array', array.block, 0, array.capacity, array.torn, array.rewound)
  BY <1>1, ArraySet DEF array_clear
<1> QED BY <1>1, <1>2, CountsKeep DEF array_clear

\* A step changes Home and the array.
LEMMA ArrayChange ==
  ASSUME MemInv, OnlyCurrent(context, context', Home),
         UNCHANGED <<held, rewound, context_stack, private>>,
         array' \in ArrayType, array'.size <= array'.capacity,
         Fit(context', InUse'), InHome', ArrayFits'
  PROVE  MemInv'
<1>1. Tree' /\ context' \in ContextsType /\ \A d \in Contexts : Mapped(d)' = Mapped(d)
  BY TreeKept, MemFacts DEF MemInv
<1>2. MemTypes'
  <2>1. OnStack \subseteq Contexts /\ held \cup rewound \subseteq Blocks
    BY DEF MemInv, MemTypes, OnStack
  <2> QED BY <1>1, <2>1, TypesKept
<1>3. Behind'
  <2>1. \A p \in rewound : p.ctx \in Contexts /\ Mapped(p.ctx) /\ p.at + p.size <= ContextSize
    BY BlockIs DEF MemInv, MemTypes, Places, Behind
  <2> QED BY <1>1, <2>1 DEF Behind
<1> QED BY <1>1, <1>2, <1>3 DEF MemInv, Places

\* The array's block is given back; Home, if nothing else is in it, is then as after a
\* reset.
LEMMA ArrayFreed ==
  ASSUME MemInv, array.block # NULL,
         NEW ds, ds = bump_context_free(context, array.block),
         array.rewound => private
  PROVE  /\ OnlyCurrent(context, ds, Home) /\ Fit(ds, held)
         /\ private => ds[Home].current = Start
         /\ array.rewound => ds = context
         /\ ds = context /\ ~array.rewound => Fit(ds, InUse) /\ ~private
<1>1. InHome /\ Fit(context, InUse)
  BY DEF MemInv, Places
<1>2. PICK p \in Blocks : p = array.block
  BY MemFacts
<1>3. /\ p.ctx = Home /\ context[Home].kind = "bump" /\ Home \in Contexts
      /\ p.at \in Nat /\ p.size \in Nat \ {0} /\ Start = 1 /\ Header = 1
  BY <1>1, <1>2, BlockIs, MemorySizes DEF InHome
<1>4. CASE array.rewound
  <2>1. private /\ context[Home].current = Start /\ p.at = Start + Header
    BY <1>1, <1>2, <1>3, <1>4 DEF InHome
  <2>2. p.at + p.size # context[Home].current
    BY <1>3, <2>1
  <2>3. ds = context /\ InUse = held
    BY <1>2, <1>3, <1>4, <2>2 DEF bump_context_free, InUse
  <2> QED BY <1>1, <1>4, <2>1, <2>3, OnlyCurrentSelf, MemFacts
<1>5. CASE ~array.rewound
  <2>1. p \in InUse /\ InUse \ {p} = held
    BY <1>1, <1>2, <1>5 DEF InUse, InHome
  <2>2. /\ OnlyCurrent(context, ds, Home) /\ Fit(ds, held)
        /\ ds[Home].current = IF p.at + p.size = context[Home].current THEN p.at - Header
                              ELSE context[Home].current
    <3>1. /\ OnlyCurrent(context, ds, p.ctx) /\ Fit(ds, InUse \ {p})
          /\ ds[p.ctx].current = IF p.at + p.size = context[p.ctx].current THEN p.at - Header
                                 ELSE context[p.ctx].current
      BY <1>1, <1>2, <1>3, <2>1, FreeFits, MemFacts
    <3> QED BY <1>3, <2>1, <3>1
  <2>3. private => p.at = Start + Header /\ p.at + p.size = context[Home].current
    BY <1>1, <1>2, <1>3, <1>5 DEF InHome
  <2>4. private => ds[Home].current = Start
    BY <1>3, <2>2, <2>3
  <2>5. private => ds # context
    BY <1>3, <2>3, <2>4
  <2> QED BY <1>1, <1>5, <2>2, <2>4, <2>5
<1> QED BY <1>4, <1>5, MemFacts

LEMMA NoArrayIs == ArrayIs(NoArray, NULL, 0, 0, FALSE, FALSE)
BY DEF NoArray, ArrayType, ArrayIs

LEMMA FreeArray == ASSUME MemInv, array_free PROVE MemInv'
<1>1. /\ array.block # NULL /\ ~array.rewound /\ array' = NoArray
      /\ UNCHANGED <<held, rewound, context_stack, private>>
  BY DEF array_free
<1>2. PICK ds : ds = bump_context_free(context, array.block) /\ context' = ds
  BY DEF array_free
<1>3. /\ NoArray \in ArrayType /\ NoArray.block = NULL /\ NoArray.size = 0 /\ NoArray.capacity = 0
      /\ NoArray.torn = FALSE /\ NoArray.rewound = FALSE
  BY NoArrayIs DEF ArrayIs
<1>4. InHome
  BY DEF MemInv, Places
<1>5. InUse' = held
  BY <1>1, <1>3 DEF InUse
<1>6. /\ OnlyCurrent(context, ds, Home) /\ Fit(ds, held) /\ (private => ds[Home].current = Start)
  BY <1>1, <1>2, ArrayFreed
<1>7. InHome' /\ ArrayFits'
  BY <1>1, <1>2, <1>3, <1>4, <1>6 DEF InHome, ArrayFits
<1> QED BY <1>1, <1>2, <1>3, <1>5, <1>6, <1>7, ArrayChange

\* array_put into an array with room, and with none to make.
LEMMA PutRoom ==
  ASSUME MemInv, array_put, array.block # NULL, array.size < array.capacity PROVE MemInv'
<1>1. PICK n \in Nat : n = array.size + 1 /\ n <= array.capacity
  BY MemFacts
<1>2. array' = [array EXCEPT !.size = n] /\ context' = context
      /\ UNCHANGED <<held, rewound, context_stack, private>>
  BY <1>1 DEF array_put, array_raise
<1>3. array \in ArrayType /\ array.block \in Blocks \cup {NULL} /\ array.capacity \in Nat
      /\ array.capacity <= array.capacity
  BY MemFacts
<1>4. ArrayIs(array', array.block, n, array.capacity, array.torn, array.rewound)
  BY <1>2, <1>3, ArraySet
<1> QED BY <1>1, <1>2, <1>3, <1>4, CountsKeep

LEMMA PutNone ==
  ASSUME MemInv, array.block = NULL, array' = NoArray, context' = context,
         UNCHANGED <<held, rewound, context_stack, private>>
  PROVE  MemInv'
<1>1. array.torn = FALSE /\ array.rewound = FALSE /\ array.capacity \in Nat /\ 0 <= array.capacity
  BY MemFacts DEF MemInv, Places, InHome
<1>2. ArrayIs(array', array.block, 0, 0, array.torn, array.rewound)
  BY <1>1, NoArrayIs
<1> QED BY <1>1, <1>2, CountsKeep

\* The array is in a new block of Home.
LEMMA Placed ==
  ASSUME MemInv, NEW cs \in ContextsType, OnlyCurrent(context, cs, Home), Fit(cs, held),
         context[Home].kind = "bump", private => cs[Home].current = Start,
         NEW k \in Nat, NEW n \in Nat, n <= k,
         NEW sz \in Nat \ {0}, NEW new, Allocated(cs, Home, held, sz, new), new.p # NULL,
         context' = new.contexts, ArrayIs(array', new.p, n, k, FALSE, FALSE),
         UNCHANGED <<held, rewound, context_stack, private>>, sz = Bytes(k)
  PROVE  MemInv'
<1>1. /\ OnlyCurrent(cs, context', Home) /\ new.p \in Blocks /\ new.p.ctx = Home /\ new.p.size = sz
      /\ new.p \notin held /\ new.p.at = cs[Home].current + Lead(cs, Home)
      /\ context'[Home].current = new.p.at + sz /\ Fit(context', held \cup {new.p})
  BY DEF Allocated
<1>2. PICK p \in Blocks : p = new.p
  BY <1>1
<1>3. OnlyCurrent(context, context', Home) /\ context'[Home].kind = "bump" /\ cs[Home].kind = "bump"
      /\ context' \in ContextsType
  BY <1>1, OnlyCurrentTwice, MemFacts DEF OnlyCurrent
<1>4. array'.block = p /\ array'.size = n /\ array'.capacity = k /\ array'.torn = FALSE
      /\ array'.rewound = FALSE /\ array' \in ArrayType /\ p # NULL
  BY <1>2, MemorySizes DEF ArrayIs
<1>5. Fit(context', InUse')
  <2>1. InUse' \subseteq held \cup {new.p}
    BY <1>2, <1>4 DEF InUse
  <2> QED BY <1>1, <2>1, FitFewer
<1>6. context'[Home].current <= ContextSize
  BY <1>3, ContextIs, MemFacts
<1>7. private => p.at = Start + Header
  <2>1. Lead(cs, Home) = Header
    BY <1>3 DEF Lead
  <2> QED BY <1>1, <1>2, <2>1
<1>8. InHome'
  <2>1. private => \A q \in held : q.ctx # Home
    BY DEF MemInv, Places, InHome
  <2> QED BY <1>1, <1>2, <1>3, <1>4, <1>6, <1>7, <2>1 DEF InHome
<1>9. ArrayFits'
  <2>1. p.at \in Nat /\ p.size \in Nat /\ p.size = ArrayHeader + k
    BY <1>1, <1>2, BlockIs DEF Bytes
  <2>2. ArrayHeader + k <= p.size
    BY <2>1
  <2> QED BY <1>1, <1>2, <1>4, <1>6, <2>2 DEF ArrayFits
<1> QED BY <1>3, <1>4, <1>5, <1>8, <1>9, ArrayChange

LEMMA PutMakes == ASSUME MemInv, array_put, array.block = NULL PROVE MemInv'
<1>1. PICK sz \in Nat \ {0} : sz = Bytes(DefaultCapacity)
  <2>1. 1 + DefaultCapacity \in Nat \ {0}
    BY MemorySizes
  <2> QED BY <2>1, MemorySizes DEF Bytes
<1>2. PICK new : new = alloc(context, Home, sz)
  OBVIOUS
<1> DEFINE created == [NoArray EXCEPT !.block = new.p, !.capacity = DefaultCapacity]
<1>3. /\ context[Home].kind = "bump" /\ UNCHANGED <<held, rewound, context_stack, private>>
      /\ new.p = NULL => context' = context /\ array' = NoArray
      /\ new.p # NULL => /\ context' = array_raise(new.contexts, created).contexts
                         /\ array' = array_raise(new.contexts, created).a
  BY <1>1, <1>2 DEF array_put
<1>4. InHome /\ Fit(context, held) /\ InUse = held
  BY DEF MemInv, Places, InUse
<1>5. Allocated(context, Home, held, sz, new)
  BY <1>2, <1>3, <1>4, AllocFits, MemFacts
<1>6. CASE new.p = NULL
  BY <1>3, <1>6, PutNone
<1>7. CASE new.p # NULL
  <2>1. new.p \in Blocks \cup {NULL} /\ NoArray \in ArrayType /\ DefaultCapacity \in Nat \ {0}
    BY <1>5, <1>7, NoArrayIs, MemorySizes DEF Allocated, ArrayIs
  <2>2. ArrayIs(created, new.p, 0, DefaultCapacity, FALSE, FALSE)
    <3>1. PICK a \in ArrayType : a = NoArray /\ a.size = 0 /\ a.torn = FALSE /\ a.rewound = FALSE
      BY NoArrayIs DEF ArrayIs
    <3>2. PICK q \in Blocks \cup {NULL} : q = new.p
      BY <2>1
    <3>3. PICK k \in Nat : k = DefaultCapacity
      BY <2>1
    <3>4. ArrayIs([a EXCEPT !.block = q, !.capacity = k], q, a.size, k, a.torn, a.rewound)
      BY ArraySet
    <3> QED BY <3>1, <3>2, <3>3, <3>4
  <2> HIDE DEF created
  <2>3. created.size < created.capacity /\ created.size = 0
    BY <2>1, <2>2 DEF ArrayIs
  <2>4. context' = new.contexts /\ array' = [created EXCEPT !.size = 1]
    BY <1>3, <1>7, <2>3 DEF array_raise
  <2>5. ArrayIs(array', new.p, 1, DefaultCapacity, FALSE, FALSE)
    <3>1. PICK a \in ArrayType : a = created
      BY <2>2 DEF ArrayIs
    <3>2. ArrayIs([a EXCEPT !.size = 1], a.block, 1, a.capacity, a.torn, a.rewound)
      BY <2>1, ArraySet
    <3> QED BY <2>2, <2>4, <3>1, <3>2 DEF ArrayIs
  <2>6. private => context[Home].current = Start
    BY <1>3, <1>4 DEF InHome
  <2>7. OnlyCurrent(context, context, Home) /\ 1 <= DefaultCapacity
    BY <2>1, OnlyCurrentSelf, MemFacts
  <2> QED BY <1>1, <1>3, <1>4, <1>5, <1>7, <2>1, <2>4, <2>5, <2>6, <2>7, Placed, MemFacts
<1> QED BY <1>6, <1>7

LEMMA PutGrows ==
  ASSUME MemInv, array_put, array.block # NULL, ~ array.size < array.capacity PROVE MemInv'
<1>1. PICK k \in Nat \ {0} : k = IF array.capacity = 0 THEN 1 ELSE 2 * array.capacity
  BY MemFacts
<1>2. PICK sz \in Nat \ {0} : sz = Bytes(k)
  <2>1. 1 + k \in Nat \ {0}
    OBVIOUS
  <2> QED BY <2>1, MemorySizes DEF Bytes
<1>3. PICK p \in Blocks : p = array.block
  BY MemFacts
<1>4. PICK n \in Nat : n = array.size + 1 /\ n <= k
  <2>1. array.size = array.capacity /\ array.capacity \in Nat
    BY MemFacts DEF MemInv, MemTypes
  <2> QED BY <1>1, <2>1
<1>5. PICK new : new = bump_context_realloc(context, p, sz)
  OBVIOUS
<1>6. PICK b \in BOOLEAN : b = IF new.p = NULL THEN array.rewound \/ new.contexts # context
                               ELSE array.rewound /\ new.contexts = context
  BY MemFacts
<1>7. /\ context[Home].kind = "bump" /\ UNCHANGED <<held, rewound, context_stack, private>>
      /\ ~array.torn /\ context' = new.contexts
      /\ new.p = NULL => array' = [array EXCEPT !.capacity = k, !.torn = TRUE, !.rewound = b]
      /\ new.p # NULL => array' = [array EXCEPT !.block = new.p, !.size = n, !.capacity = k,
                                                !.rewound = b]
  BY <1>1, <1>2, <1>3, <1>4, <1>5, <1>6 DEF array_put, array_raise
<1>8. InHome /\ Fit(context, InUse) /\ ArrayFits
  BY DEF MemInv, Places
<1>9. PICK a \in ArrayType : a = array
  BY MemFacts
<1>10. array.torn = FALSE /\ array.size <= k /\ (array.rewound => private)
  BY <1>4, <1>7, <1>8, MemFacts DEF InHome
<1>11. p.ctx = Home /\ p.at \in Nat /\ p.size \in Nat /\ Start = 1 /\ Header = 1
  BY <1>3, <1>8, BlockIs, MemorySizes DEF InHome
<1>12. CASE sz > p.size
  <2>1. PICK ds : ds = bump_context_free(context, p)
    OBVIOUS
  <2>2. /\ OnlyCurrent(context, ds, Home) /\ Fit(ds, held) /\ (private => ds[Home].current = Start)
        /\ array.rewound => ds = context
        /\ ds = context /\ ~array.rewound => Fit(ds, InUse) /\ ~private
    BY <1>3, <1>10, <2>1, ArrayFreed
  <2>4. new = alloc(ds, Home, sz) /\ ds \in ContextsType /\ ds[Home].kind # "none"
    BY <1>5, <1>7, <1>11, <1>12, <2>1, <2>2, MemFacts DEF bump_context_realloc, OnlyCurrent
  <2>5. Allocated(ds, Home, held, sz, alloc(ds, Home, sz))
    BY <2>2, <2>4, AllocFits, MemFacts
  <2>6. CASE new.p # NULL
    <3>1. PICK q \in Blocks \cup {NULL} : q = new.p
      BY <2>4, <2>5, <2>6 DEF Allocated
    <3>2. b = FALSE
      <4>1. SUFFICES ASSUME array.rewound, new.contexts = context PROVE FALSE
        BY <1>6, <2>6
      <4>2. ds = context /\ ds[Home].current = Start
        BY <1>10, <2>2, <4>1
      <4>3. new.contexts[Home].current = new.p.at + sz /\ new.p.at = ds[Home].current + Lead(ds, Home)
        BY <2>4, <2>5, <2>6 DEF Allocated
      <4>4. Lead(ds, Home) \in {0, 1}
        BY <2>4, ContextIs, MemFacts
      <4> QED BY <1>11, <4>1, <4>2, <4>3, <4>4
    <3>3. ArrayIs([a EXCEPT !.block = q, !.size = n, !.capacity = k, !.rewound = b],
                  q, n, k, a.torn, b)
      BY ArraySet
    <3>4. ArrayIs(array', new.p, n, k, FALSE, FALSE)
      BY <1>7, <1>9, <1>10, <2>6, <3>1, <3>2, <3>3
    <3> QED BY <1>2, <1>4, <1>7, <2>2, <2>4, <2>5, <2>6, <3>4, Placed
  <2>7. CASE new.p = NULL
    <3>1. context' = ds
      BY <1>7, <2>4, <2>5, <2>7 DEF Allocated
    <3>2. b = (array.rewound \/ ds # context)
      BY <1>6, <1>7, <2>7, <3>1
    <3>3. ArrayIs(array', p, array.size, k, TRUE, b)
      <4>1. ArrayIs([a EXCEPT !.capacity = k, !.torn = TRUE, !.rewound = b],
                    a.block, a.size, k, TRUE, b)
        BY ArraySet
      <4> QED BY <1>3, <1>7, <1>9, <2>7, <4>1
    <3>4. array'.block = p /\ array'.torn = TRUE /\ array'.rewound = b /\ array' \in ArrayType
          /\ array'.size = array.size /\ array'.capacity = k
      BY <3>3 DEF ArrayIs
    <3>5. Fit(context', InUse')
      <4>1. CASE b
        <5>1. InUse' = held
          BY <1>7, <3>4, <4>1 DEF InUse
        <5> QED BY <2>2, <3>1, <5>1
      <4>2. CASE ~b
        <5>1. ds = context /\ ~array.rewound
          BY <3>2, <4>2
        <5>2. InUse' = InUse
          BY <1>3, <1>7, <3>4, <4>2, <5>1 DEF InUse
        <5> QED BY <2>2, <3>1, <5>1, <5>2
      <4> QED BY <4>1, <4>2
    <3>6. private => b
      BY <2>2, <3>2
    <3>7. context'[Home].kind = "bump" /\ (private => context'[Home].current = Start)
      BY <1>7, <2>2, <3>1, MemFacts DEF OnlyCurrent
    <3>8. InHome'
      <4>1. ~b => array.block \notin held
        BY <1>3, <1>8, <3>2, MemFacts DEF InHome
      <4> QED BY <1>3, <1>7, <1>8, <3>4, <3>6, <3>7, <4>1, MemFacts DEF InHome
    <3>9. ArrayFits'
      BY <1>3, <1>8, <3>4 DEF ArrayFits
    <3> QED BY <1>7, <1>10, <2>2, <3>1, <3>4, <3>5, <3>8, <3>9, ArrayChange
  <2> QED BY <2>6, <2>7
<1>13. CASE ~ sz > p.size
  <2>1. new.p = p /\ new.contexts = context /\ p # NULL
    BY <1>5, <1>13, MemFacts DEF bump_context_realloc
  <2>2. b = array.rewound
    BY <1>6, <2>1, MemFacts
  <2>3. ArrayIs(array', p, n, k, FALSE, b)
    <3>1. PICK q \in Blocks \cup {NULL} : q = p
      OBVIOUS
    <3>2. ArrayIs([a EXCEPT !.block = q, !.size = n, !.capacity = k, !.rewound = b],
                  q, n, k, a.torn, b)
      BY ArraySet
    <3> QED BY <1>7, <1>9, <1>10, <2>1, <3>1, <3>2
  <2>4. OnlyCurrent(context, context', Home)
    BY <1>7, <2>1, OnlyCurrentSelf, MemFacts
  <2>5. /\ array'.block = array.block /\ array'.torn = array.torn /\ context' = context
        /\ array'.rewound = array.rewound /\ array'.capacity = k /\ array'.size = n
        /\ array' \in ArrayType
    BY <1>3, <1>7, <1>10, <2>1, <2>2, <2>3 DEF ArrayIs
  <2>6. InUse' = InUse
    BY <1>7, <2>5 DEF InUse
  <2>7. InHome'
    BY <1>7, <1>8, <2>5 DEF InHome
  <2>8. ArrayFits'
    <3>1. ArrayHeader + k <= p.size
      BY <1>2, <1>13, BlockIs, MemorySizes DEF Bytes
    <3> QED BY <1>3, <1>7, <1>8, <2>5, <3>1 DEF ArrayFits
  <2> QED BY <1>4, <1>7, <1>8, <2>4, <2>5, <2>6, <2>7, <2>8, ArrayChange
<1> QED BY <1>12, <1>13

LEMMA PutKeeps == ASSUME MemInv, array_put PROVE MemInv'
BY PutMakes, PutRoom, PutGrows

LEMMA MemStep == ASSUME MemInv, [MemoryNext]_memoryvars PROVE MemInv'
<1>1. ASSUME NEW c \in Contexts, NEW parent \in Contexts, NEW kind \in {"bump", "linear"},
             Create(c, kind, parent)
      PROVE  MemInv'
  BY <1>1, CreateKeeps
<1>2. ASSUME NEW c \in {d \in Contexts : Mapped(d)},
             bump_context_reset(c) \/ bump_context_drop(c) \/ context_push(c)
      PROVE  MemInv'
  BY <1>2, ResetKeeps, DropKeeps, PushKeeps
<1>3. CASE context_pop
  BY <1>3, PopKeeps
<1>4. ASSUME NEW sz \in Sizes, Alloc(sz) PROVE MemInv'
  BY <1>4, AllocKeeps
<1>5. ASSUME NEW p \in held, Free(p) \/ \E sz \in Sizes : Realloc(p, sz) PROVE MemInv'
  BY <1>5, FreeKeeps, ReallocKeeps
<1>6. CASE array_put \/ array_pop \/ array_clear \/ array_free
  BY <1>6, PutKeeps, PopArray, ClearArray, FreeArray
<1>7. CASE UNCHANGED memoryvars
  <2>1. /\ context' = context /\ UNCHANGED <<held, rewound, context_stack, private>> /\ array' = array
        /\ array.size \in Nat /\ array.capacity \in Nat /\ array.size <= array.capacity
        /\ array.capacity <= array.capacity /\ array \in ArrayType
    BY <1>7, MemFacts DEF memoryvars, MemInv, MemTypes
  <2>2. ArrayIs(array', array.block, array.size, array.capacity, array.torn, array.rewound)
    BY <2>1 DEF ArrayIs
  <2> QED BY <2>1, <2>2, CountsKeep
<1> QED BY <1>1, <1>2, <1>3, <1>4, <1>5, <1>6, <1>7 DEF MemoryNext

\* memory.c, array.c, cmd.c: through every reset, drop, reallocation and refused growth
\* blocks lie apart in mapped contexts, where memory.c asserts them to be, but for the
\* rewound ones, which stay inside theirs; and an array fits its block until a growth
\* of it is refused.
THEOREM MemoryBlocksApart == MemorySpec => []BlocksApart
<1>1. MemoryInit => MemInv
  BY MemInit
<1>2. MemInv /\ [MemoryNext]_memoryvars => MemInv'
  BY MemStep
<1>3. MemInv => BlocksApart
  BY MemIsApart
<1> QED BY <1>1, <1>2, <1>3, PTL DEF MemorySpec

\* memory.c: slots and parents tell one tree of mapped contexts, whatever was created,
\* reset and dropped.
THEOREM MemoryOneTree == MemorySpec => []OneTree
<1>1. MemoryInit => MemInv
  BY MemInit
<1>2. MemInv /\ [MemoryNext]_memoryvars => MemInv'
  BY MemStep
<1>3. MemInv => OneTree
  BY MemIsTree
<1> QED BY <1>1, <1>2, <1>3, PTL DEF MemorySpec

================================================================================
