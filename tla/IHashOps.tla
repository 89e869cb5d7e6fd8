------------------------------- MODULE IHashOps -------------------------------
(***************************************************************************)
(* The index based hash table of lib/core/src/ihash.c, as operators on     *)
(* hash values.  A hash value is a record with the fields of the C header  *)
(* and one function per field of its entries:                              *)
(*                                                                         *)
(*   bucketsz, chainsz       numbers of primary slots and overflow nodes   *)
(*   hash_fn                 the hash function                             *)
(*   chain_head              first free overflow node, or UNDEF            *)
(*   key, next, val          key, link and user's value of every entry     *)
(*                                                                         *)
(* The entries are numbered as they lie in memory: the buckets from 0 on,  *)
(* then the overflow nodes.  The links and chain_head number the overflow  *)
(* nodes alone, from 0; Node(h, c) is the entry of overflow node c.        *)
(***************************************************************************)
EXTENDS Chains

\* UNDEF is no key and no link.  Keys must differ from it.
Entries(h) == 0 .. h.bucketsz + h.chainsz - 1
Buckets(h) == 0 .. h.bucketsz - 1
Node(h, c) == h.bucketsz + c

HashType(b, c, K, V, F) ==
  [bucketsz : {b}, chainsz : {c}, hash_fn : F, chain_head : UNDEF .. c - 1,
   key : [0 .. b + c - 1 -> K \cup {UNDEF}],
   next : [0 .. b + c - 1 -> UNDEF .. c - 1],
   val : [0 .. b + c - 1 -> V]]

-----------------------------------------------------------------------------

\* ihash_clear: no key anywhere, the overflow nodes linked into the free list.
ihash_clear(h, hash_fn) ==
  [h EXCEPT !.hash_fn = hash_fn,
            !.key = [e \in Entries(h) |-> UNDEF],
            !.next = [e \in Entries(h) |->
                        IF e \in Buckets(h) \/ e = h.bucketsz + h.chainsz - 1
                        THEN UNDEF ELSE e + 1 - h.bucketsz],
            !.chain_head = IF h.chainsz > 0 THEN 0 ELSE UNDEF]

\* ihash_init_fn, for b > 0; v is what the memory held as values.
ihash_init(b, c, hash_fn, v) ==
  LET undef == [e \in 0 .. b + c - 1 |-> UNDEF]
  IN  ihash_clear([bucketsz |-> b, chainsz |-> c, hash_fn |-> hash_fn,
                   chain_head |-> UNDEF, key |-> undef, next |-> undef,
                   val |-> v], hash_fn)

-----------------------------------------------------------------------------
(* Walks along the links.                                                  *)

\* The entries met from entry e (or UNDEF) on; UNDEF once the walk has ended.
Path(h, e) ==
  LET at[i \in 0 .. h.chainsz] ==
        IF i = 0 THEN e
        ELSE IF at[i - 1] = UNDEF \/ h.next[at[i - 1]] = UNDEF THEN UNDEF
        ELSE Node(h, h.next[at[i - 1]])
  IN  at

OnPath(h, e) == {Path(h, e)[i] : i \in 0 .. h.chainsz} \ {UNDEF}

Bucket(h, key) == h.hash_fn[key] % h.bucketsz

FreePath(h) ==
  IF h.chain_head = UNDEF THEN {} ELSE OnPath(h, Node(h, h.chain_head))

\* ihash_get_fn: the first entry with the key on the way from its bucket, or
\* UNDEF where the code returns NULL.
ihash_get(h, key) ==
  LET p == Path(h, Bucket(h, key))
      hit(i) == p[i] # UNDEF /\ h.key[p[i]] = key
  IN  IF h.key[p[0]] # UNDEF /\ \E i \in DOMAIN p : hit(i)
      THEN p[CHOOSE i \in DOMAIN p : hit(i) /\ \A j \in 0 .. i - 1 : ~hit(j)]
      ELSE UNDEF

\* The entry where the chain of a bucket ends.
LastOf(h, b) == CHOOSE e \in OnPath(h, b) : h.next[e] = UNDEF

-----------------------------------------------------------------------------
(* ihash_touch_fn: the entry it returns (UNDEF for NULL), and the table    *)
(* after it.  The value of a new entry is whatever the entry held.         *)

Touched(h, key) ==
  LET b == Bucket(h, key)
  IN  IF h.key[b] = UNDEF THEN b
      ELSE IF ihash_get(h, key) # UNDEF THEN ihash_get(h, key)
      ELSE IF h.chain_head = UNDEF THEN UNDEF
      ELSE Node(h, h.chain_head)

ihash_touch(h, key) ==
  LET b == Bucket(h, key)
      new == Node(h, h.chain_head)
  IN  IF h.key[b] = UNDEF
      THEN [h EXCEPT !.key[b] = key, !.next[b] = UNDEF]
      ELSE IF ihash_get(h, key) # UNDEF \/ h.chain_head = UNDEF THEN h
      ELSE [h EXCEPT !.next[LastOf(h, b)] = h.chain_head,
                     !.chain_head = h.next[new],
                     !.key[new] = key,
                     !.next[new] = UNDEF]

\* ihash_put and ihash_put_struct: touch, then store the value.
ihash_put(h, key, v) ==
  LET e == Touched(h, key)
  IN  IF e = UNDEF THEN ihash_touch(h, key)
      ELSE [ihash_touch(h, key) EXCEPT !.val[e] = v]

-----------------------------------------------------------------------------
(* ihash_erase_fn.                                                         *)

\* Mutant: an erased node is not given back.
Release_leak(h, c) == [h EXCEPT !.key[Node(h, c)] = UNDEF, !.next[Node(h, c)] = UNDEF]

\* Put overflow node c back on the free list.
Release(h, c) ==
  [h EXCEPT !.key[Node(h, c)] = UNDEF,
            !.next[Node(h, c)] = h.chain_head,
            !.chain_head = c]

\* Mutant: the key moves into the bucket, its value does not.
EraseBucket_keyonly(h, b) ==
  LET c == h.next[b]
  IN  IF c = UNDEF THEN [h EXCEPT !.key[b] = UNDEF, !.next[b] = UNDEF]
      ELSE Release([h EXCEPT !.key[b] = h.key[Node(h, c)],
                             !.next[b] = h.next[Node(h, c)]], c)

\* The key is in its bucket: the first node of the chain, if there is one,
\* moves into the bucket, value and all.
EraseBucket(h, b) ==
  LET c == h.next[b]
  IN  IF c = UNDEF THEN [h EXCEPT !.key[b] = UNDEF, !.next[b] = UNDEF]
      ELSE Release([h EXCEPT !.key[b] = h.key[Node(h, c)],
                             !.next[b] = h.next[Node(h, c)],
                             !.val[b] = h.val[Node(h, c)]], c)

\* The key is in an overflow node: unlink it from the entry before it.
EraseNode(h, e) ==
  LET c == e - h.bucketsz
      prev == CHOOSE p \in OnPath(h, Bucket(h, h.key[e])) : h.next[p] = c
  IN  Release([h EXCEPT !.next[prev] = h.next[e]], c)

\* Mutant: a chain loses its rest when one of its nodes is erased.
ihash_erase_cut(h, key) ==
  LET e == ihash_get(h, key)
  IN  IF e = UNDEF THEN h
      ELSE IF e \in Buckets(h) THEN EraseBucket(h, e)
      ELSE EraseNode([h EXCEPT !.next[e] = UNDEF], e)

ihash_erase(h, key) ==
  LET e == ihash_get(h, key)
  IN  IF e = UNDEF THEN h
      ELSE IF e \in Buckets(h) THEN EraseBucket(h, e)
      ELSE EraseNode(h, e)

-----------------------------------------------------------------------------
(* Iteration: ihash_begin, ihash_next and ihash_is_valid.                  *)

\* ihash_next_occupied_bucket.
NextOccupied(h, b) ==
  LET occupied == {i \in b .. h.bucketsz - 1 : h.key[i] # UNDEF}
  IN  IF occupied = {} THEN h.bucketsz
      ELSE CHOOSE i \in occupied : \A j \in occupied : i <= j

\* An iterator: the bucket, and the entry its datum pointer is at.
AtBucket(h, b) ==
  [bucket_idx |-> b, datum |-> IF b = h.bucketsz THEN UNDEF ELSE b]

ihash_begin(h) == AtBucket(h, NextOccupied(h, 0))
ihash_is_valid(h, i) == i.bucket_idx # h.bucketsz

\* Mutants: the chain of a bucket is never entered; the loop stays at a bucket.
ihash_next_skipping(h, i) ==
  AtBucket(h, NextOccupied(h, i.bucket_idx + 1))

ihash_next(h, i) ==
  IF h.next[i.datum] = UNDEF
  THEN AtBucket(h, NextOccupied(h, i.bucket_idx + 1))
  ELSE [i EXCEPT !.datum = Node(h, h.next[i.datum])]

-----------------------------------------------------------------------------
(* What keeps a table a table.                                             *)

\* The keys the table holds.
KeysOf(h) == {h.key[e] : e \in Entries(h)} \ {UNDEF}

\* Links: every chain and the free list end; no overflow node is on two of
\* them, and none is on no one.
LinksSound(h) ==
  LET free == FreePath(h)
      all == (UNION {OnPath(h, b) : b \in Buckets(h)}) \cup free
  IN  /\ all = Entries(h)
      /\ \A b \in Buckets(h) : /\ \E e \in OnPath(h, b) : h.next[e] = UNDEF
                               /\ OnPath(h, b) \cap free = {}
      /\ free # {} => \E e \in free : h.next[e] = UNDEF
      /\ \A a, b \in Buckets(h) : a # b => OnPath(h, a) \cap OnPath(h, b) = {}

\* Keys: an entry in use is on the chain of its key's bucket, no key is there
\* twice, and entries not in use have no key.
KeysSound(h) ==
  /\ \A b \in Buckets(h) :
       \/ h.key[b] = UNDEF /\ h.next[b] = UNDEF
       \/ \A e \in OnPath(h, b) : h.key[e] # UNDEF /\ Bucket(h, h.key[e]) = b
  /\ \A e \in FreePath(h) : h.key[e] = UNDEF
  /\ \A e, f \in Entries(h) : h.key[e] = h.key[f] /\ h.key[e] # UNDEF => e = f
=============================================================================
