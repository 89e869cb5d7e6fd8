----------------------------- MODULE IndexProofs -----------------------------
(***************************************************************************)
(* The list, with pools of every size: every operation keeps it well       *)
(* formed, and it implements a double ended queue.                         *)
(*                                                                         *)
(* The hash table of ihash.c, for every number of buckets and overflow     *)
(* nodes, every set of keys and every hash function: it stays a table, a   *)
(* loop over it visits its entries once, it refuses a key only when there  *)
(* is no room, and it implements a map.                                    *)
(***************************************************************************)
EXTENDS MCIList2, MCIHash, IndexLemmas

-----------------------------------------------------------------------------
(* The list.                                                               *)

\* TypeOK and WellFormed are inductive together.
IInv == TypeOK /\ WellFormed

LEMMA InitIInv == Init => IInv
  <1> SUFFICES ASSUME NEW u \in [Idx(ListSz) -> Data],
                      list = ilist2_init(ListSz, u), held = {}
               PROVE  IInv
    BY DEF Init
  <1> DEFINE raw == [listsz |-> ListSz, freelist_head |-> UNDEF,
                     front_idx |-> UNDEF, back_idx |-> UNDEF,
                     next |-> [i \in Idx(ListSz) |-> UNDEF],
                     prev |-> [i \in Idx(ListSz) |-> UNDEF], user |-> u]
  <1>1. UNDEF \in IdxOrUndef(ListSz)
    BY ListSzAssumption DEF UNDEF, IdxOrUndef
  <1>2. raw \in ListType(ListSz, Data) /\ list = ilist2_clear(raw)
    BY <1>1 DEF ListType, ilist2_init
  <1> HIDE DEF raw
  <1>3. Nodes([i \in 1 .. 0 |-> 0], 0) = {}
    BY DEF Nodes
  <1>4. /\ list \in ListType(ListSz, Data)
        /\ Rep(list, ListSz, [i \in 1 .. 0 |-> 0], 0, [i \in 1 .. ListSz |-> i - 1], ListSz)
    BY <1>2, ListSzAssumption, ClearRep
  <1>5. IsList(list, ListSz, held)
    <2>1. \E o, m, f, k : Rep(list, ListSz, o, m, f, k) /\ held = Nodes(o, m)
      BY <1>3, <1>4
    <2> QED  BY ONLY <2>1, ListSzAssumption, IsListRep
  <1> QED  BY <1>4, <1>5 DEF IInv, TypeOK, WellFormed

LEMMA NextIInv == IInv /\ [Next]_vars => IInv'
  <1> SUFFICES ASSUME IInv, [Next]_vars PROVE IInv'
    OBVIOUS
  <1>1. ListSz \in Nat /\ list \in ListType(ListSz, Data) /\ held \in SUBSET Idx(ListSz)
    BY ListSzAssumption DEF IInv, TypeOK
  <1>2. PICK o, m, f, k : Rep(list, ListSz, o, m, f, k) /\ held = Nodes(o, m)
    BY <1>1, IsListRep DEF IInv, WellFormed
  <1>3. RepFacts(list, ListSz, o, m, f, k)
    BY <1>1, <1>2, RepNodes
  <1>4. ASSUME NEW o1, NEW m1, NEW f1, NEW k1, list' \in ListType(ListSz, Data),
               Rep(list', ListSz, o1, m1, f1, k1), held' = Nodes(o1, m1)
        PROVE  IInv'
    <2>1. Nodes(o1, m1) \subseteq Idx(ListSz)
      BY <1>4 DEF Rep, Splits
    <2>2. WellFormed'
      BY <1>1, <1>4, IsListRep DEF WellFormed
    <2> QED  BY <1>4, <2>1, <2>2 DEF IInv, TypeOK
  <1>5. CASE Clear
    <2>1. Nodes([i \in 1 .. 0 |-> 0], 0) = {}
      BY DEF Nodes
    <2> QED  BY <1>1, <1>4, <1>5, <2>1, ClearRep DEF Clear
  <1>6. ASSUME NEW d \in Data, PutBack(d) PROVE IInv'
    <2>1. CASE list.freelist_head = UNDEF
      BY <1>1, <1>2, <1>4, <1>6, <2>1 DEF PutBack, Returned, ilist2_put_back
    <2>2. CASE list.freelist_head # UNDEF
      <3>1. /\ list' \in ListType(ListSz, Data) /\ k > 0 /\ list.freelist_head = f[1]
            /\ Rep(list', ListSz, Snoc(o, m, f[1]), m + 1, Rest(f, k), k - 1)
        BY <1>1, <1>2, <1>6, <2>2, PutBackRep DEF PutBack
      <3>2. Nodes(Snoc(o, m, f[1]), m + 1) = {f[1]} \cup Nodes(o, m)
        <4>1. Chain(o, m, Idx(ListSz))
          BY <1>2 DEF Rep
        <4> QED  BY ONLY <4>1, SnocNodes
      <3>3. held' = Nodes(Snoc(o, m, f[1]), m + 1)
        BY <1>2, <1>6, <2>2, <3>1, <3>2 DEF PutBack, Returned
      <3> QED  BY <1>4, <3>1, <3>3
    <2> QED  BY <2>1, <2>2
  <1>7. ASSUME NEW d \in Data, PutFront(d) PROVE IInv'
    <2>1. CASE list.freelist_head = UNDEF
      BY <1>1, <1>2, <1>4, <1>7, <2>1 DEF PutFront, Returned, ilist2_put_front
    <2>2. CASE list.freelist_head # UNDEF
      <3>1. /\ list' \in ListType(ListSz, Data) /\ k > 0 /\ list.freelist_head = f[1]
            /\ Rep(list', ListSz, Cons(f[1], o, m), m + 1, Rest(f, k), k - 1)
        BY <1>1, <1>2, <1>7, <2>2, PutFrontRep DEF PutFront
      <3>2. Nodes(Cons(f[1], o, m), m + 1) = {f[1]} \cup Nodes(o, m)
        <4>1. Chain(o, m, Idx(ListSz))
          BY <1>2 DEF Rep
        <4> QED  BY ONLY <4>1, ConsNodes
      <3>3. held' = Nodes(Cons(f[1], o, m), m + 1)
        BY <1>2, <1>7, <2>2, <3>1, <3>2 DEF PutFront, Returned
      <3> QED  BY <1>4, <3>1, <3>3
    <2> QED  BY <2>1, <2>2
  <1>8. CASE PopBack
    <2>1. /\ list' \in ListType(ListSz, Data) /\ m > 0 /\ list.back_idx = o[m]
          /\ Rep(list', ListSz, Most(o, m), m - 1, Cons(o[m], f, k), k + 1)
      BY <1>1, <1>2, <1>8, PopBackRep DEF PopBack
    <2>2. Nodes(Most(o, m), m - 1) = Nodes(o, m) \ {o[m]}
      BY <1>2, <2>1, MostChain DEF Rep
    <2> QED  BY <1>2, <1>4, <1>8, <2>1, <2>2 DEF PopBack
  <1>9. CASE PopFront
    <2>1. /\ list' \in ListType(ListSz, Data) /\ m > 0 /\ list.front_idx = o[1]
          /\ Rep(list', ListSz, Rest(o, m), m - 1, Cons(o[1], f, k), k + 1)
      BY <1>1, <1>2, <1>9, PopFrontRep DEF PopFront
    <2>2. Nodes(Rest(o, m), m - 1) = Nodes(o, m) \ {o[1]}
      BY <1>2, <2>1, RestChain DEF Rep
    <2> QED  BY <1>2, <1>4, <1>9, <2>1, <2>2 DEF PopFront
  <1>10. ASSUME NEW idx \in held, MoveBack(idx) PROVE IInv'
    <2>1. PICK q \in 1 .. m : idx = o[q]
      BY <1>2 DEF Nodes
    <2>2. /\ list' \in ListType(ListSz, Data)
          /\ Rep(list', ListSz, ToBack(o, m, q), m, f, k)
      BY <1>1, <1>2, <1>10, <2>1, MoveBackRep DEF MoveBack
    <2>3. Nodes(ToBack(o, m, q), m) = Nodes(o, m)
      BY <1>2, ToBackChain DEF Rep
    <2> QED  BY <1>2, <1>4, <1>10, <2>2, <2>3 DEF MoveBack
  <1>11. ASSUME NEW idx \in held, MoveFront(idx) PROVE IInv'
    <2>1. PICK q \in 1 .. m : idx = o[q]
      BY <1>2 DEF Nodes
    <2>2. /\ list' \in ListType(ListSz, Data)
          /\ Rep(list', ListSz, ToFront(o, m, q), m, f, k)
      BY <1>1, <1>2, <1>11, <2>1, MoveFrontRep DEF MoveFront
    <2>3. Nodes(ToFront(o, m, q), m) = Nodes(o, m)
      BY <1>2, ToFrontChain DEF Rep
    <2> QED  BY <1>2, <1>4, <1>11, <2>2, <2>3 DEF MoveFront
  <1>12. CASE UNCHANGED vars
    BY <1>12 DEF IInv, TypeOK, WellFormed, vars
  <1> QED
    BY <1>5, <1>6, <1>7, <1>8, <1>9, <1>10, <1>11, <1>12 DEF Next

\* Header and nodes keep their types under every sequence of list calls.
THEOREM ListTypes == Spec => []TypeOK
  <1>1. IInv => TypeOK
    BY DEF IInv
  <1> QED  BY InitIInv, NextIInv, <1>1, PTL DEF Spec

\* Under every sequence of list calls the links stay those of one proper list
\* and one proper free list that share the pool, and the list holds exactly
\* the nodes whose indices the callers hold.
THEOREM ListWellFormed == Spec => []WellFormed
  <1>1. IInv => WellFormed
    BY DEF IInv
  <1> QED  BY InitIInv, NextIInv, <1>1, PTL DEF Spec

-----------------------------------------------------------------------------
(* The list as a queue.                                                    *)

\* What the order o of m nodes with the data u is as a queue, its front first.
Shown(o, m, u) == [i \in 1 .. m |-> [handle |-> o[i], datum |-> u[o[i]]]]

Cells(n, D) == [handle : Idx(n), datum : D]

LEMMA EntriesShown ==
  ASSUME NEW n \in Nat, NEW D, NEW l \in ListType(n, D),
         NEW o, NEW m, NEW f, NEW k, Rep(l, n, o, m, f, k)
  PROVE  Shows(l) = Shown(o, m, l.user)
  BY WalkMeets DEF Shows, Shown

LEMMA ShownCells ==
  ASSUME NEW n \in Nat, NEW D, NEW u \in [Idx(n) -> D], NEW o, NEW m, Chain(o, m, Idx(n))
  PROVE  /\ Shown(o, m, u) \in [1 .. m -> Cells(n, D)]
         /\ m \in Nat
  <1>1. \A i \in 1 .. m : o[i] \in Idx(n) /\ u[o[i]] \in D
    BY DEF Chain
  <1> QED  BY <1>1 DEF Shown, Cells, Chain

\* The surgery of an order is that of what it shows.
LEMMA ShownShorter ==
  ASSUME NEW n \in Nat, NEW D, NEW u \in [Idx(n) -> D], NEW o, NEW m \in Nat, Chain(o, m, Idx(n)), m > 0
  PROVE  /\ Shown(Most(o, m), m - 1, u) = SubSeq(Shown(o, m, u), 1, m - 1)
         /\ Shown(Rest(o, m), m - 1, u) = Tail(Shown(o, m, u))
  <1>1. Shown(o, m, u) \in [1 .. m -> Cells(n, D)] /\ m \in Nat
    BY ShownCells
  <1>2. Shown(Most(o, m), m - 1, u) = Most(Shown(o, m, u), m)
    BY <1>1 DEF Shown, Most
  <1>3. Shown(Rest(o, m), m - 1, u) = Rest(Shown(o, m, u), m)
    <2>1. \A i \in 1 .. m - 1 : i + 1 \in 1 .. m
      BY <1>1
    <2> QED  BY <2>1 DEF Shown, Rest
  <1> QED  BY <1>1, <1>2, <1>3, MostCuts, RestIsTail

PutShows(o, m, u, x, d) ==
  LET e == [handle |-> x, datum |-> d]
  IN  /\ Shown(Snoc(o, m, x), m + 1, [u EXCEPT ![x] = d]) = Append(Shown(o, m, u), e)
      /\ Shown(Cons(x, o, m), m + 1, [u EXCEPT ![x] = d]) = <<e>> \o Shown(o, m, u)

LEMMA ShownLonger ==
  ASSUME NEW n \in Nat, NEW D, NEW u \in [Idx(n) -> D], NEW o, NEW m \in Nat, Chain(o, m, Idx(n)),
         NEW x \in Idx(n), x \notin Nodes(o, m), NEW d \in D
  PROVE  PutShows(o, m, u, x, d)
  <1> DEFINE e == [handle |-> x, datum |-> d]
             s == Shown(o, m, u)
             w == [u EXCEPT ![x] = d]
  <1>1. s \in [1 .. m -> Cells(n, D)] /\ m \in Nat
    BY ShownCells
  <1>2. e \in Cells(n, D)
    BY DEF Cells
  <1>3. w[x] = d /\ \A i \in 1 .. m : o[i] # x /\ w[o[i]] = u[o[i]]
    <2>1. \A i \in 1 .. m : o[i] # x /\ o[i] \in Idx(n)
      BY DEF Nodes, Chain
    <2> QED  BY <2>1
  <1>4. \A i \in 1 .. m : s[i] = [handle |-> o[i], datum |-> u[o[i]]]
    BY DEF Shown
  <1> HIDE DEF s, w
  <1>5. Shown(Snoc(o, m, x), m + 1, w) = Snoc(s, m, e)
    <2>1. ASSUME NEW i \in 1 .. m + 1
          PROVE  [handle |-> Snoc(o, m, x)[i], datum |-> w[Snoc(o, m, x)[i]]] = Snoc(s, m, e)[i]
      BY <1>1, <1>3, <1>4 DEF Snoc
    <2> HIDE DEF e
    <2> QED  BY <2>1 DEF Shown, Snoc
  <1>6. Shown(Cons(x, o, m), m + 1, w) = Cons(e, s, m)
    <2>1. ASSUME NEW i \in 1 .. m + 1
          PROVE  [handle |-> Cons(x, o, m)[i], datum |-> w[Cons(x, o, m)[i]]] = Cons(e, s, m)[i]
      <3>1. i # 1 => i - 1 \in 1 .. m
        BY <1>1
      <3> QED  BY <1>3, <1>4, <3>1 DEF Cons
    <2> HIDE DEF e
    <2> QED  BY <2>1 DEF Shown, Cons
  <1> HIDE DEF e
  <1>7. Snoc(s, m, e) = Append(s, e)
    BY ONLY <1>1, <1>2, SnocAppends
  <1>8. Cons(e, s, m) = <<e>> \o s
    BY ONLY <1>1, <1>2, ConsPrepends
  <1> QED  BY <1>5, <1>6, <1>7, <1>8 DEF e, s, w, PutShows

MoveShows(o, m, u, p) ==
  LET s == Shown(o, m, u)
      others == SubSeq(s, 1, p - 1) \o SubSeq(s, p + 1, m)
  IN  /\ Shown(ToFront(o, m, p), m, u) = <<s[p]>> \o others
      /\ Shown(ToBack(o, m, p), m, u) = Append(others, s[p])

LEMMA ShownMoved ==
  ASSUME NEW n \in Nat, NEW D, NEW u \in [Idx(n) -> D], NEW o, NEW m \in Nat, Chain(o, m, Idx(n)),
         NEW p \in 1 .. m
  PROVE  MoveShows(o, m, u, p)
  <1> DEFINE s == Shown(o, m, u)
  <1>1. s \in [1 .. m -> Cells(n, D)] /\ m \in Nat
    BY ShownCells
  <1>2. Shown(ToFront(o, m, p), m, u) = ToFront(s, m, p)
    <2>1. \A i \in 1 .. m : (i # 1 /\ i <= p => i - 1 \in 1 .. m) /\ i \in 1 .. m
      BY <1>1
    <2> QED  BY <2>1 DEF Shown, ToFront
  <1>3. Shown(ToBack(o, m, p), m, u) = ToBack(s, m, p)
    <2>1. \A i \in 1 .. m : (i # m /\ i >= p => i + 1 \in 1 .. m) /\ i \in 1 .. m
      BY <1>1
    <2> QED  BY <1>1, <2>1 DEF Shown, ToBack
  <1> HIDE DEF s
  <1>4. /\ ToFront(s, m, p) = <<s[p]>> \o (SubSeq(s, 1, p - 1) \o SubSeq(s, p + 1, m))
        /\ ToBack(s, m, p) = Append(SubSeq(s, 1, p - 1) \o SubSeq(s, p + 1, m), s[p])
    BY <1>1, MovesSkip
  <1> QED  BY <1>2, <1>3, <1>4 DEF s, MoveShows

-----------------------------------------------------------------------------
(* The calls as operations of the queue.                                   *)

\* What a step is about: the list before it.
Now(o, m, f, k) == /\ list \in ListType(ListSz, Data)
                   /\ Rep(list, ListSz, o, m, f, k) /\ held = Nodes(o, m)

LEMMA NowFacts ==
  ASSUME NEW o, NEW m, NEW f, NEW k, Now(o, m, f, k)
  PROVE  /\ ListSz \in Nat /\ Chain(o, m, Idx(ListSz)) /\ m \in Nat
         /\ list.user \in [Idx(ListSz) -> Data]
         /\ Shows(list) = Shown(o, m, list.user)
         /\ DOMAIN Shows(list) = 1 .. m /\ Len(Shows(list)) = m
         /\ \A i \in 1 .. m : Shows(list)[i].handle = o[i]
  <1>1. ListSz \in Nat /\ Chain(o, m, Idx(ListSz)) /\ m \in Nat
    BY ListSzAssumption DEF Now, Rep, Chain
  <1>2. list.user \in [Idx(ListSz) -> Data]
    BY DEF Now, ListType
  <1>3. Shows(list) = Shown(o, m, list.user)
    BY <1>1, EntriesShown DEF Now
  <1>4. Shown(o, m, list.user) \in [1 .. m -> Cells(ListSz, Data)]
    BY <1>1, <1>2, ShownCells
  <1>5. Len(Shown(o, m, list.user)) = m
    BY <1>1, <1>4, IsASeq, LenProperties
  <1>6. \A i \in 1 .. m : Shown(o, m, list.user)[i].handle = o[i]
    BY DEF Shown
  <1> QED  BY <1>1, <1>2, <1>3, <1>4, <1>5, <1>6

LEMMA EntriesNext ==
  ASSUME list' \in ListType(ListSz, Data),
         NEW o, NEW m, NEW f, NEW k, Rep(list', ListSz, o, m, f, k)
  PROVE  Shows(list)' = Shown(o, m, list'.user)
  <1>1. Shows(list') = Shown(o, m, list'.user)
    BY ListSzAssumption, EntriesShown
  <1> QED  BY <1>1 DEF Shows

LEMMA ClearIs ==
  ASSUME NEW o, NEW m, NEW f, NEW k, Now(o, m, f, k), Clear
  PROVE  Q!Clear
  <1>1. Shows(list)' = Shown([i \in 1 .. 0 |-> 0], 0, list'.user)
    BY ListSzAssumption, ClearRep, EntriesNext DEF Now, Clear
  <1>2. Shown([i \in 1 .. 0 |-> 0], 0, list'.user) = <<>>
    BY DEF Shown
  <1> QED  BY <1>1, <1>2 DEF Q!Clear

LEMMA PopsAre ==
  ASSUME NEW o, NEW m, NEW f, NEW k, Now(o, m, f, k)
  PROVE  (PopBack => Q!PopBack) /\ (PopFront => Q!PopFront)
  <1>0. ListSz \in Nat /\ m \in Nat /\ Chain(o, m, Idx(ListSz)) /\ list.user \in [Idx(ListSz) -> Data]
    BY NowFacts
  <1>1. ASSUME PopBack PROVE Q!PopBack
    <2>1. /\ list' \in ListType(ListSz, Data) /\ m > 0 /\ list'.user = list.user
          /\ Rep(list', ListSz, Most(o, m), m - 1, Cons(o[m], f, k), k + 1)
      BY <1>1, NowFacts, PopBackRep, UsersKept DEF Now, PopBack
    <2>2. Shows(list)' = Shown(Most(o, m), m - 1, list.user)
      BY <2>1, EntriesNext
    <2>3. Shown(Most(o, m), m - 1, list.user) = SubSeq(Shown(o, m, list.user), 1, m - 1)
      <3>1. m > 0
        BY <2>1
      <3> QED BY ONLY <1>0, <3>1, ShownShorter, ZenonT(40)
    <2>4. Shows(list) # <<>>
      BY <2>1, NowFacts
    <2> QED  BY <2>2, <2>3, <2>4, NowFacts DEF Q!PopBack
  <1>2. ASSUME PopFront PROVE Q!PopFront
    <2>1. /\ list' \in ListType(ListSz, Data) /\ m > 0 /\ list'.user = list.user
          /\ Rep(list', ListSz, Rest(o, m), m - 1, Cons(o[1], f, k), k + 1)
      BY <1>2, NowFacts, PopFrontRep, UsersKept DEF Now, PopFront
    <2>2. Shows(list)' = Shown(Rest(o, m), m - 1, list.user)
      BY <2>1, EntriesNext
    <2>3. Shown(Rest(o, m), m - 1, list.user) = Tail(Shown(o, m, list.user))
      <3>1. m > 0
        BY <2>1
      <3> QED BY ONLY <1>0, <3>1, ShownShorter, ZenonT(40)
    <2>4. Shows(list) # <<>>
      BY <2>1, NowFacts
    <2> QED  BY <2>2, <2>3, <2>4, NowFacts DEF Q!PopFront
  <1> QED  BY <1>1, <1>2

LEMMA PutsAre ==
  ASSUME NEW o, NEW m, NEW f, NEW k, Now(o, m, f, k), NEW d \in Data, ~Full
  PROVE  /\ list.freelist_head \in Q!Handles \ Q!Used
         /\ PutBack(d) => Q!Put(list.freelist_head, d, TRUE)
         /\ PutFront(d) => Q!Put(list.freelist_head, d, FALSE)
  <1> DEFINE x == f[1]
             u == list.user
             w == [u EXCEPT ![x] = d]
  <1>1. RepFacts(list, ListSz, o, m, f, k) /\ ListSz \in Nat
    BY ListSzAssumption, RepNodes DEF Now
  <1>2. k > 0 /\ list.freelist_head = x
    BY <1>1 DEF Full, Now, Rep, IsFree, RepFacts
  <1>3. x \in Idx(ListSz) /\ \A i \in 1 .. m : o[i] # x
    BY <1>1, <1>2 DEF RepFacts
  <1>4. x \notin Nodes(o, m)
    BY <1>3 DEF Nodes
  <1>5. x \in Q!Handles \ Q!Used
    <2>1. x \in Q!Handles
      BY <1>3 DEF Q!Handles, Idx
    <2>2. x \notin Q!Used
      BY <1>3, NowFacts DEF Q!Used
    <2> QED  BY <2>1, <2>2
  <1>6. /\ Shown(Snoc(o, m, x), m + 1, w) = Append(Shown(o, m, u), [handle |-> x, datum |-> d])
        /\ Shown(Cons(x, o, m), m + 1, w) = <<[handle |-> x, datum |-> d]>> \o Shown(o, m, u)
    <2>1. ListSz \in Nat /\ m \in Nat /\ Chain(o, m, Idx(ListSz)) /\ u \in [Idx(ListSz) -> Data]
      BY NowFacts
    <2>2. x \in Idx(ListSz)
      BY <1>3
    <2> HIDE DEF x, u
    <2>3. PutShows(o, m, u, x, d)
      BY ONLY <1>4, <2>1, <2>2, d \in Data, ShownLonger
    <2> QED  BY <2>3 DEF PutShows
  <1>7. ASSUME PutBack(d) PROVE Q!Put(x, d, TRUE)
    <2>1. /\ list' \in ListType(ListSz, Data) /\ list'.user = w
          /\ Rep(list', ListSz, Snoc(o, m, x), m + 1, Rest(f, k), k - 1)
      BY <1>1, <1>2, <1>7, PutBackRep, UsersPut DEF Now, PutBack, Full
    <2> HIDE DEF w, x
    <2>2. Shows(list)' = Shown(Snoc(o, m, x), m + 1, w)
      BY <2>1, EntriesNext
    <2> QED  BY <1>6, <2>2, NowFacts DEF Q!Put, u
  <1>8. ASSUME PutFront(d) PROVE Q!Put(x, d, FALSE)
    <2>1. /\ list' \in ListType(ListSz, Data) /\ list'.user = w
          /\ Rep(list', ListSz, Cons(x, o, m), m + 1, Rest(f, k), k - 1)
      BY <1>1, <1>2, <1>8, PutFrontRep, UsersPut DEF Now, PutFront, Full
    <2> HIDE DEF w, x
    <2>2. Shows(list)' = Shown(Cons(x, o, m), m + 1, w)
      BY <2>1, EntriesNext
    <2> QED  BY <1>6, <2>2, NowFacts DEF Q!Put, u
  <1> QED  BY <1>2, <1>5, <1>7, <1>8

LEMMA MovesAre ==
  ASSUME NEW o, NEW m, NEW f, NEW k, Now(o, m, f, k), NEW p \in 1 .. m
  PROVE  /\ MoveBack(o[p]) => Q!Move(p, TRUE)
         /\ MoveFront(o[p]) => Q!Move(p, FALSE)
  <1> DEFINE s == Shown(o, m, list.user)
             others == SubSeq(s, 1, p - 1) \o SubSeq(s, p + 1, m)
  <1>1. /\ Shown(ToFront(o, m, p), m, list.user) = <<s[p]>> \o others
        /\ Shown(ToBack(o, m, p), m, list.user) = Append(others, s[p])
    <2>1. ListSz \in Nat /\ m \in Nat /\ Chain(o, m, Idx(ListSz)) /\ list.user \in [Idx(ListSz) -> Data]
      BY NowFacts
    <2>2. MoveShows(o, m, list.user, p)
      BY ONLY <2>1, p \in 1 .. m, ShownMoved
    <2> QED  BY <2>2 DEF MoveShows
  <1>2. Q!Without(p) = others /\ Shows(list) = s
    BY NowFacts DEF Q!Without
  <1> HIDE DEF s, others
  <1>3. ASSUME MoveBack(o[p]) PROVE Q!Move(p, TRUE)
    <2>1. /\ list' \in ListType(ListSz, Data) /\ list'.user = list.user
          /\ Rep(list', ListSz, ToBack(o, m, p), m, f, k)
      BY <1>3, NowFacts, MoveBackRep, UsersKept DEF Now, MoveBack
    <2>2. Shows(list)' = Shown(ToBack(o, m, p), m, list.user)
      BY <2>1, EntriesNext
    <2> QED  BY <1>1, <1>2, <2>2 DEF Q!Move
  <1>4. ASSUME MoveFront(o[p]) PROVE Q!Move(p, FALSE)
    <2>1. /\ list' \in ListType(ListSz, Data) /\ list'.user = list.user
          /\ Rep(list', ListSz, ToFront(o, m, p), m, f, k)
      BY <1>4, NowFacts, MoveFrontRep, UsersKept DEF Now, MoveFront
    <2>2. Shows(list)' = Shown(ToFront(o, m, p), m, list.user)
      BY <2>1, EntriesNext
    <2> QED  BY <1>1, <1>2, <2>2 DEF Q!Move
  <1> QED  BY <1>3, <1>4

LEMMA IInvNow == IInv => \E o, m, f, k : Now(o, m, f, k)
  BY ListSzAssumption, IsListRep DEF IInv, TypeOK, WellFormed, Now

\* An empty list shows an empty queue.
LEMMA InitIs == Init => Q!Init
  <1> SUFFICES ASSUME NEW u \in [Idx(ListSz) -> Data],
                      list = ilist2_init(ListSz, u)
               PROVE  Q!Init
    BY DEF Init
  <1> DEFINE raw == [listsz |-> ListSz, freelist_head |-> UNDEF,
                     front_idx |-> UNDEF, back_idx |-> UNDEF,
                     next |-> [i \in Idx(ListSz) |-> UNDEF],
                     prev |-> [i \in Idx(ListSz) |-> UNDEF], user |-> u]
  <1>1. UNDEF \in IdxOrUndef(ListSz)
    BY ListSzAssumption DEF UNDEF, IdxOrUndef
  <1>2. raw \in ListType(ListSz, Data) /\ list = ilist2_clear(raw)
    BY <1>1 DEF ListType, ilist2_init
  <1> HIDE DEF raw
  <1>3. /\ list \in ListType(ListSz, Data)
        /\ Rep(list, ListSz, [i \in 1 .. 0 |-> 0], 0, [i \in 1 .. ListSz |-> i - 1], ListSz)
    BY <1>2, ListSzAssumption, ClearRep
  <1>4. Shows(list) = Shown([i \in 1 .. 0 |-> 0], 0, list.user)
    BY <1>3, ListSzAssumption, EntriesShown
  <1>5. Shown([i \in 1 .. 0 |-> 0], 0, list.user) = <<>>
    BY DEF Shown
  <1> QED  BY <1>4, <1>5 DEF Q!Init

\* A put on an exhausted pool changes nothing.
LEMMA FullPuts ==
  ASSUME Full, NEW d
  PROVE  PutBack(d) \/ PutFront(d) => Shows(list)' = Shows(list)
  <1>1. PutBack(d) \/ PutFront(d) => list' = list
    BY DEF Full, PutBack, PutFront, ilist2_put_back, ilist2_put_front
  <1> QED  BY <1>1 DEF Shows

LEMMA NextIs == IInv /\ [Next]_vars => [Q!Next]_(Shows(list))
  <1> SUFFICES ASSUME IInv, [Next]_vars PROVE [Q!Next]_(Shows(list))
    OBVIOUS
  <1>1. PICK o, m, f, k : Now(o, m, f, k)
    BY IInvNow
  <1>2. CASE Clear
    BY <1>1, <1>2, ClearIs DEF Q!Next
  <1>3. ASSUME NEW d \in Data, PutBack(d) \/ PutFront(d) PROVE [Q!Next]_(Shows(list))
    <2>1. CASE Full
      BY <1>3, <2>1, FullPuts
    <2>2. CASE ~Full
      <3>1. \E back \in BOOLEAN : Q!Put(list.freelist_head, d, back)
        BY <1>1, <1>3, <2>2, PutsAre
      <3>2. list.freelist_head \in Q!Handles \ Q!Used
        BY <1>1, <2>2, PutsAre
      <3> QED  BY <3>1, <3>2 DEF Q!Next
    <2> QED  BY <2>1, <2>2
  <1>4. CASE PopBack \/ PopFront
    BY <1>1, <1>4, PopsAre DEF Q!Next
  <1>5. ASSUME NEW idx \in held, MoveBack(idx) \/ MoveFront(idx)
        PROVE  [Q!Next]_(Shows(list))
    <2>1. PICK p \in 1 .. m : idx = o[p]
      BY <1>1 DEF Now, Nodes
    <2>2. \E back \in BOOLEAN : Q!Move(p, back)
      BY <1>1, <1>5, <2>1, MovesAre
    <2>3. p \in DOMAIN Shows(list)
      BY <1>1, <2>1, NowFacts
    <2> QED  BY <2>2, <2>3 DEF Q!Next
  <1>6. CASE UNCHANGED vars
    BY <1>6 DEF vars, Shows
  <1> QED  BY <1>2, <1>3, <1>4, <1>5, <1>6 DEF Next

LEMMA CallsAre == IInv => CallsMatch
  <1> SUFFICES ASSUME IInv PROVE CallsMatch
    OBVIOUS
  <1>1. PICK o, m, f, k : Now(o, m, f, k)
    BY IInvNow
  <1>2. \A d \in Data : ~Full => /\ PutBack(d) => Q!Put(list.freelist_head, d, TRUE)
                                 /\ PutFront(d) => Q!Put(list.freelist_head, d, FALSE)
    BY <1>1, PutsAre
  <1>3. OrderOf(list) = o /\ DOMAIN o = 1 .. m
    BY <1>1, ListSzAssumption, WalkMeets DEF Now, Rep, Chain
  <1>4. \A p \in 1 .. m : /\ MoveBack(o[p]) => Q!Move(p, TRUE)
                          /\ MoveFront(o[p]) => Q!Move(p, FALSE)
    BY <1>1, MovesAre
  <1>5. (Clear => Q!Clear) /\ (PopBack => Q!PopBack) /\ (PopFront => Q!PopFront)
    BY <1>1, ClearIs, PopsAre
  <1> QED  BY <1>2, <1>3, <1>4, <1>5 DEF CallsMatch

\* ilist2.h: whatever the size of the pool and the calls, the walk of the
\* links shows a double ended queue that every call changes as its name says.
THEOREM ListImplementsDeque == Spec => ImplementsDeque
  <1>1. IInv /\ [Next]_vars => [vars' # vars => CallsMatch]_vars
    BY CallsAre
  <1> QED
    BY InitIInv, NextIInv, InitIs, NextIs, <1>1, PTL DEF Spec, Q!Spec, ImplementsDeque

-----------------------------------------------------------------------------
(* The hash table.                                                         *)

\* Where a loop is at: it has seen the chains of the buckets before its own,
\* and of its own what comes before its datum.
Visiting(h, own, pos, i, s) ==
  /\ i \in [bucket_idx : 0 .. h.bucketsz, datum : Entries(h) \cup {UNDEF}]
  /\ IF i.bucket_idx = h.bucketsz
     THEN i.datum = UNDEF /\ s = Used(h)
     ELSE /\ i.bucket_idx \in Buckets(h) /\ i.datum \in Used(h) /\ own[i.datum] = i.bucket_idx
          /\ s = {e \in Used(h) : \/ own[e] < i.bucket_idx
                                  \/ own[e] = i.bucket_idx /\ pos[e] < pos[i.datum]}

HInv ==
  /\ IsTable(hash, BucketSz, ChainSz, Keys, Vals, HashFns)
  /\ \E own, pos : /\ Laid(hash, own, pos) /\ Keyed(hash, own, Keys)
                   /\ Visiting(hash, own, pos, iter, seen)

-----------------------------------------------------------------------------
(* Loops.                                                                  *)

\* An entry in use is on the chain of a bucket in use.
LEMMA BucketUsed ==
  ASSUME NEW h, NEW own, NEW pos, NEW K, Laid(h, own, pos), Keyed(h, own, K), NEW e \in Used(h)
  PROVE  own[e] \in Buckets(h) /\ own[e] \in Used(h)
  <1> DEFINE b == own[e]
  <1>1. e \in Entries(h) /\ h.key[e] # UNDEF
    BY DEF Used
  <1>2. h.key[e] \in K /\ b = Bucket(h, h.key[e])
    BY <1>1 DEF Keyed
  <1>3. b \in Buckets(h)
    BY <1>2 DEF Keyed
  <1>4. b \in Entries(h) /\ own[b] = b /\ pos[b] = 0 /\ b # UNDEF
    BY <1>3, NodeIsEntry DEF Laid, Heads
  <1>5. ASSUME h.key[b] = UNDEF PROVE FALSE
    <2>1. h.next[b] = UNDEF
      BY <1>4, <1>5 DEF Keyed
    <2>2. pos[e] <= pos[b] /\ pos[e] \in Nat
      BY <1>1, <1>4, <1>5, <2>1, LastOne DEF Laid, Placed
    <2>3. pos[e] = pos[b]
      BY <1>4, <2>2
    <2> QED  BY <1>1, <1>4, <1>5, <2>3 DEF Laid, Placed
  <1> QED  BY <1>3, <1>4, <1>5 DEF Used

\* From bucket n on, for a loop that is done with the buckets before it.
LEMMA LoopAt ==
  ASSUME NEW h, NEW own, NEW pos, NEW K, Laid(h, own, pos), Keyed(h, own, K),
         NEW n \in 0 .. h.bucketsz
  PROVE  Visiting(h, own, pos, AtBucket(h, NextOccupied(h, n)), {e \in Used(h) : own[e] < n})
  <1> DEFINE occupied == {i \in n .. h.bucketsz - 1 : h.key[i] # UNDEF}
             B == h.bucketsz
             m == NextOccupied(h, n)
             i == AtBucket(h, m)
  <1>1. B \in Nat /\ Buckets(h) = 0 .. B - 1 /\ Buckets(h) \subseteq Entries(h) /\ n \in 0 .. B
        /\ UNDEF \notin Entries(h)
    BY NodeIsEntry DEF Laid, Sized, Buckets
  <1>2. \A e \in Used(h) : own[e] \in 0 .. B - 1 /\ h.key[own[e]] # UNDEF
    BY <1>1, BucketUsed DEF Used
  <1>3. \A e \in Used(h) : own[e] < n \/ own[e] \in occupied
    BY <1>1, <1>2
  <1>4. CASE occupied = {}
    <2>1. m = B /\ i.bucket_idx = B /\ i.datum = UNDEF
          /\ i \in [bucket_idx : 0 .. B, datum : Entries(h) \cup {UNDEF}]
      BY <1>1, <1>4 DEF NextOccupied, AtBucket
    <2>2. {e \in Used(h) : own[e] < n} = Used(h)
      BY <1>3, <1>4
    <2> QED  BY <2>1, <2>2 DEF Visiting
  <1>5. CASE occupied # {}
    <2>1. occupied \subseteq Nat
      BY <1>1
    <2>2. m \in occupied /\ \A j \in occupied : m <= j
      <3>1. m = CHOOSE x \in occupied : \A j \in occupied : x <= j
        BY <1>5 DEF NextOccupied
      <3> HIDE DEF occupied, m
      <3>2. \E x \in occupied : \A j \in occupied : x <= j
        BY <1>5, <2>1, Least
      <3> QED  BY <3>1, <3>2
    <2>3. m \in 0 .. B - 1 /\ m # B /\ h.key[m] # UNDEF /\ n <= m
      BY <1>1, <2>2
    <2>4. i.bucket_idx = m /\ i.datum = m
          /\ i \in [bucket_idx : 0 .. B, datum : Entries(h) \cup {UNDEF}]
      BY <1>1, <2>3 DEF AtBucket
    <2>5. m \in Used(h) /\ own[m] = m /\ pos[m] = 0
      BY <1>1, <2>3 DEF Used, Laid, Heads
    <2>6. \A e \in Used(h) : own[e] < n <=> own[e] < m
      BY <1>1, <1>2, <1>3, <2>2, <2>3
    <2>7. \A e \in Used(h) : pos[e] \in Nat
      BY DEF Used, Laid, Placed
    <2>8. \A e \in Used(h) : own[e] < n <=> (own[e] < m \/ (own[e] = m /\ pos[e] < pos[m]))
      BY <2>5, <2>6, <2>7
    <2>9. {e \in Used(h) : own[e] < n}
             = {e \in Used(h) : own[e] < m \/ (own[e] = m /\ pos[e] < pos[m])}
      BY <2>8
    <2> QED  BY <1>1, <2>3, <2>4, <2>5, <2>9 DEF Visiting
  <1> QED  BY <1>4, <1>5

LEMMA LoopBegins ==
  ASSUME NEW h, NEW own, NEW pos, NEW K, Laid(h, own, pos), Keyed(h, own, K)
  PROVE  Visiting(h, own, pos, ihash_begin(h), {})
  <1>1. 0 \in 0 .. h.bucketsz
    BY DEF Laid, Sized
  <1>2. \A e \in Used(h) : ~ own[e] < 0
    BY BucketUsed DEF Buckets, Laid, Sized
  <1>3. {e \in Used(h) : own[e] < 0} = {}
    BY <1>2
  <1> QED  BY <1>1, <1>3, LoopAt DEF ihash_begin

LEMMA LoopNext ==
  ASSUME NEW h, NEW own, NEW pos, NEW K, Laid(h, own, pos), Keyed(h, own, K),
         NEW i, NEW s, Visiting(h, own, pos, i, s), ihash_is_valid(h, i)
  PROVE  Visiting(h, own, pos, ihash_next(h, i), s \cup {i.datum})
  <1> DEFINE b == i.bucket_idx
             d == i.datum
             n == Node(h, h.next[d])
  <1>1. /\ b \in Buckets(h) /\ d \in Used(h) /\ own[d] = b /\ b # h.bucketsz
        /\ s = {e \in Used(h) : own[e] < b \/ (own[e] = b /\ pos[e] < pos[d])}
    BY DEF ihash_is_valid, Visiting
  <1>2. /\ \A e \in Used(h) : own[e] \in Buckets(h) /\ e \in Entries(h) /\ pos[e] \in Nat
        /\ \A e \in Used(h) : own[e] = b /\ pos[e] = pos[d] => e = d
        /\ h.bucketsz \in Nat /\ Buckets(h) = 0 .. h.bucketsz - 1
    BY <1>1, BucketUsed DEF Used, Laid, Placed, Sized, Buckets
  <1>3. CASE h.next[d] = UNDEF
    <2>1. \A e \in Used(h) : own[e] = b => pos[e] <= pos[d]
      BY <1>1, <1>2, <1>3, LastOne, NodeIsEntry DEF Laid
    <2>2. \A e \in Used(h) : own[e] < b + 1 <=> (e = d \/ own[e] < b \/ (own[e] = b /\ pos[e] < pos[d]))
      BY <1>1, <1>2, <2>1
    <2>3. s \cup {d} = {e \in Used(h) : own[e] < b + 1}
      BY <1>1, <2>2
    <2>4. ihash_next(h, i) = AtBucket(h, NextOccupied(h, b + 1)) /\ b + 1 \in 0 .. h.bucketsz
      BY <1>1, <1>2, <1>3 DEF ihash_next
    <2> QED  BY <2>3, <2>4, LoopAt
  <1>4. CASE h.next[d] # UNDEF
    <2>1. own[n] = b /\ pos[n] = pos[d] + 1 /\ n \in Entries(h) \ Buckets(h)
      BY <1>1, <1>2, <1>4, NodeIsEntry DEF Laid, Linked, Sized
    <2>2. n \in Used(h)
      BY <1>1, <2>1, NodeIsEntry DEF Used, Keyed, Laid
    <2>3. \A e \in Used(h) : (own[e] < b \/ (own[e] = b /\ pos[e] < pos[n]))
                            <=> (e = d \/ own[e] < b \/ (own[e] = b /\ pos[e] < pos[d]))
      BY <1>1, <1>2, <2>1
    <2>4. s \cup {d} = {e \in Used(h) : own[e] < b \/ (own[e] = b /\ pos[e] < pos[n])}
      BY <1>1, <2>3
    <2>5. ihash_next(h, i) = [i EXCEPT !.datum = n]
      BY <1>4 DEF ihash_next
    <2>6. i \in [bucket_idx : 0 .. h.bucketsz, datum : Entries(h) \cup {UNDEF}]
      BY DEF Visiting
    <2> HIDE DEF n
    <2>7. [i EXCEPT !.datum = n].bucket_idx = b /\ [i EXCEPT !.datum = n].datum = n
          /\ [i EXCEPT !.datum = n] \in [bucket_idx : 0 .. h.bucketsz, datum : Entries(h) \cup {UNDEF}]
      BY <2>1, <2>6
    <2> QED  BY <1>1, <2>1, <2>2, <2>4, <2>5, <2>7 DEF Visiting
  <1> QED  BY <1>3, <1>4

-----------------------------------------------------------------------------
(* The invariant.                                                          *)

LEMMA BecomesKeeps ==
  ASSUME NEW h, IsTable(h, BucketSz, ChainSz, Keys, Vals, HashFns), Becomes(h)
  PROVE  HInv'
  <1>1. PICK own, pos : Laid(h, own, pos) /\ Keyed(h, own, Keys)
    BY DEF IsTable
  <1>2. Visiting(h, own, pos, ihash_begin(h), {})
    BY <1>1, LoopBegins
  <1>3. hash' = h /\ iter' = ihash_begin(h) /\ seen' = {}
    BY DEF Becomes
  <1> QED  BY <1>1, <1>2, <1>3 DEF HInv

LEMMA InitEmpty == HashInit => EmptyTable(hash, BucketSz, ChainSz, Keys, Vals, HashFns)
  <1>1. SUFFICES ASSUME HashInit PROVE EmptyTable(hash, BucketSz, ChainSz, Keys, Vals, HashFns)
    OBVIOUS
  <1>2. PICK f \in HashFns, v \in Vals :
          hash = ihash_init(BucketSz, ChainSz, f, [e \in Slots |-> v])
    BY <1>1 DEF HashInit
  <1>3. [e \in Slots |-> v] \in [0 .. BucketSz + ChainSz - 1 -> Vals]
    BY DEF Slots
  <1> QED  BY <1>2, <1>3, MadeIs, SizeAssumption, KeyAssumption

LEMMA HInvInit == HashInit => HInv
  <1>1. SUFFICES ASSUME HashInit PROVE HInv
    OBVIOUS
  <1>2. IsTable(hash, BucketSz, ChainSz, Keys, Vals, HashFns)
    BY <1>1, InitEmpty DEF EmptyTable
  <1>3. PICK own, pos : Laid(hash, own, pos) /\ Keyed(hash, own, Keys)
    BY <1>2 DEF IsTable
  <1>4. Visiting(hash, own, pos, ihash_begin(hash), {})
    BY <1>3, LoopBegins
  <1> QED  BY <1>1, <1>2, <1>3, <1>4 DEF HInv, HashInit

LEMMA HInvNext == HInv /\ [HashNext]_hashvars => HInv'
  <1>1. SUFFICES ASSUME HInv, [HashNext]_hashvars PROVE HInv'
    OBVIOUS
  <1>2. IsTable(hash, BucketSz, ChainSz, Keys, Vals, HashFns)
    BY <1>1 DEF HInv
  <1>3. ASSUME NEW f \in HashFns, ClearHash(f) PROVE HInv'
    BY <1>2, <1>3, BecomesKeeps, ClearedIs, KeyAssumption DEF ClearHash
  <1>4. ASSUME NEW k \in Keys, Erase(k) PROVE HInv'
    BY <1>2, <1>4, BecomesKeeps, EraseIs DEF Erase
  <1>5. ASSUME NEW k \in Keys, PutKey(k) PROVE HInv'
    BY <1>2, <1>5, BecomesKeeps, TouchIs DEF PutKey
  <1>6. ASSUME NEW k \in Keys, NEW v \in Vals, Put(k, v) PROVE HInv'
    BY <1>2, <1>6, BecomesKeeps, PutIs DEF Put
  <1>7. CASE Visit
    <2>1. PICK own, pos : /\ Laid(hash, own, pos) /\ Keyed(hash, own, Keys)
                          /\ Visiting(hash, own, pos, iter, seen)
      BY <1>1 DEF HInv
    <2>2. /\ ihash_is_valid(hash, iter) /\ hash' = hash
          /\ seen' = seen \cup {iter.datum} /\ iter' = ihash_next(hash, iter)
      BY <1>7 DEF Visit
    <2>3. Visiting(hash, own, pos, iter', seen')
      BY <2>1, <2>2, LoopNext
    <2> QED  BY <1>2, <2>1, <2>2, <2>3 DEF HInv
  <1>8. CASE UNCHANGED hashvars
    BY <1>1, <1>8 DEF HInv, hashvars
  <1> QED  BY <1>1, <1>3, <1>4, <1>5, <1>6, <1>7, <1>8 DEF HashNext

LEMMA HInvSound == HInv => HashSound /\ IterationComplete
  <1>1. SUFFICES ASSUME HInv PROVE HashSound /\ IterationComplete
    OBVIOUS
  <1>2. PICK own, pos : /\ Laid(hash, own, pos) /\ Keyed(hash, own, Keys)
                        /\ Visiting(hash, own, pos, iter, seen)
    BY <1>1 DEF HInv
  <1>3. HashWellFormed
    BY <1>2, LaidIsSound, KeyedIsSound DEF HashWellFormed
  <1>4. /\ hash \in HashType(BucketSz, ChainSz, Keys, Vals, HashFns)
        /\ Entries(hash) = Slots /\ hash.bucketsz = BucketSz
    BY <1>1, TableIs DEF HInv, IsTable, Slots
  <1>5. HashTypeOK
    BY <1>2, <1>4 DEF HashTypeOK, Visiting, Used
  <1>6. IterationComplete
    <2>1. Used(hash) = {e \in Slots : hash.key[e] # UNDEF}
      BY <1>4 DEF Used
    <2>2. CASE ihash_is_valid(hash, iter)
      <3>1. iter.datum \in Used(hash) /\ pos[iter.datum] \in Nat /\ own[iter.datum] = iter.bucket_idx
            /\ iter.bucket_idx \in Nat
            /\ seen = {e \in Used(hash) : \/ own[e] < iter.bucket_idx
                                          \/ own[e] = iter.bucket_idx /\ pos[e] < pos[iter.datum]}
        BY <1>2, <1>4, <2>2, SizeAssumption DEF Visiting, ihash_is_valid, Laid, Placed, Used, Buckets
      <3> QED  BY <2>2, <3>1 DEF IterationComplete
    <2>3. CASE ~ ihash_is_valid(hash, iter)
      BY <1>2, <2>1, <2>3 DEF IterationComplete, ihash_is_valid, Visiting
    <2> QED  BY <2>2, <2>3
  <1> QED  BY <1>3, <1>5, <1>6 DEF HashSound

LEMMA HInvAlways == HashSpec => []HInv
  BY HInvInit, HInvNext, PTL DEF HashSpec

\* Whatever is put, touched, erased and cleared: chains and free list share the
\* pool of ihash.c without losing a node, and every key is where it is looked for.
THEOREM HashKeepsSound == HashSpec => []HashSound
  BY HInvAlways, HInvSound, PTL

\* An ihash_foreach loop visits every entry in use once.
THEOREM HashLoopsComplete == HashSpec => []IterationComplete
  BY HInvAlways, HInvSound, PTL

-----------------------------------------------------------------------------
(* Room for a key.                                                         *)

\* What the keys of a table say of its entries: how many are in use, which
\* buckets are, and whether the free list has a node left.
Counts(h, S, b) ==
  /\ IsFiniteSet(Used(h)) /\ IsFiniteSet(S) /\ Cardinality(S) = Cardinality(Used(h))
  /\ {b[k] : k \in S} = Used(h) \cap Buckets(h)
  /\ Overflow(S, b) = Cardinality(Used(h) \ Buckets(h))
  /\ Overflow(S, b) \in 0 .. h.chainsz
  /\ h.chain_head = UNDEF <=> Overflow(S, b) = h.chainsz

LEMMA KeyCounts ==
  ASSUME NEW h, NEW own, NEW pos, NEW K, Laid(h, own, pos), Keyed(h, own, K)
  PROVE  Counts(h, KeysOf(h), [j \in K |-> Bucket(h, j)])
  <1> DEFINE S == KeysOf(h)
             U == Used(h)
             B == Buckets(h)
             b == [j \in K |-> Bucket(h, j)]
             g == [e \in U |-> h.key[e]]
  <1>1. /\ S = {h.key[e] : e \in U} /\ S \subseteq K
        /\ \A e \in U : e \in Entries(h) /\ h.key[e] \in K /\ own[e] = Bucket(h, h.key[e])
        /\ \A e, f \in U : h.key[e] = h.key[f] => e = f
    BY DEF KeysOf, Used, Keyed
  <1>2. IsFiniteSet(U) /\ IsFiniteSet(Entries(h) \ B) /\ U \ B \subseteq Entries(h) \ B
        /\ Cardinality(Entries(h) \ B) = h.chainsz
        /\ (h.chain_head = UNDEF <=> Entries(h) \ B \subseteq U)
    BY FreeNodes
  <1>3. IsFiniteSet(S) /\ Cardinality(S) = Cardinality(U)
    <2>1. g \in Bijection(U, S)
      <3> HIDE DEF U, S
      <3>1. g \in [U -> S]
        BY <1>1
      <3>2. g \in Injection(U, S)
        BY <1>1, <3>1 DEF Injection, IsInjective
      <3>3. g \in Surjection(U, S)
        BY <1>1, <3>1 DEF Surjection
      <3> QED  BY <3>2, <3>3 DEF Bijection
    <2>2. ExistsBijection(U, S)
      BY <2>1 DEF ExistsBijection
    <2> QED  BY <1>2, <2>2, FS_Bijection
  <1>4. {b[k] : k \in S} = U \cap B
    <2>1. \A e \in U : b[h.key[e]] = own[e] /\ own[e] \in U \cap B
      BY <1>1, BucketUsed
    <2>2. \A x \in U \cap B : own[x] = x
      BY DEF Laid, Heads
    <2> HIDE DEF b, U, B, S
    <2> QED  BY <1>1, <2>1, <2>2
  <1> HIDE DEF b, U, B, S
  <1>5. IsFiniteSet(U \cap B) /\ IsFiniteSet(U \ B) /\ Cardinality(U \cap B) \in Nat
        /\ Cardinality(U) \in Nat /\ Cardinality(U \ B) = Cardinality(U) - Cardinality(U \cap B)
        /\ Cardinality(U \ B) \in Nat
    <2>1. IsFiniteSet(U \ B) /\ Cardinality(U \ B) = Cardinality(U) - Cardinality(U \cap B)
      BY <1>2, FS_Difference
    <2>2. IsFiniteSet(U \cap B)
      BY <1>2, FS_Subset
    <2> QED  BY <1>2, <2>1, <2>2, FS_CardinalityType
  <1>6. Overflow(S, b) = Cardinality(U \ B)
    BY <1>3, <1>4, <1>5 DEF Overflow
  <1>7. Cardinality(U \ B) <= h.chainsz /\ (Cardinality(U \ B) = h.chainsz => Entries(h) \ B = U \ B)
    BY <1>2, FS_Subset
  <1>8. Entries(h) \ B \subseteq U <=> Entries(h) \ B = U \ B
    BY <1>2
  <1>9. h.chain_head = UNDEF <=> Cardinality(U \ B) = h.chainsz
    BY <1>2, <1>7, <1>8
  <1>10. h.chainsz \in Nat
    BY DEF Laid, Sized
  <1>11. Cardinality(U \ B) \in 0 .. h.chainsz
    BY <1>5, <1>7, <1>10
  <1> QED  BY <1>2, <1>3, <1>4, <1>6, <1>9, <1>11 DEF Counts, S, U, B, b

LEMMA HInvRefusal == HInv => RefusalCounted
  <1>1. SUFFICES ASSUME HInv, NEW k \in Keys, ihash_get(hash, k) = UNDEF
        PROVE  Touched(hash, k) = UNDEF
                 <=> ~ RoomFor(KeysOf(hash), k, [j \in Keys |-> Bucket(hash, j)], ChainSz)
    BY DEF RefusalCounted
  <1> DEFINE b == [j \in Keys |-> Bucket(hash, j)]
             S == KeysOf(hash)
             a == Bucket(hash, k)
  <1>2. PICK own, pos : Laid(hash, own, pos) /\ Keyed(hash, own, Keys)
    BY <1>1 DEF HInv
  <1>3. Counts(hash, S, b) /\ hash.chainsz = ChainSz
    BY <1>1, <1>2, KeyCounts, TableIs DEF HInv
  <1>4. a \in Buckets(hash) /\ a \in Entries(hash) /\ UNDEF \notin Entries(hash) /\ b[k] = a
    BY <1>2, NodeIsEntry DEF Keyed, Laid
  <1>5. hash.key[a] = UNDEF <=> b[k] \notin {b[j] : j \in S}
    BY <1>3, <1>4 DEF Counts, Used
  <1>6. hash.key[a] # UNDEF => (Touched(hash, k) = UNDEF <=> hash.chain_head = UNDEF)
    <2>1. hash.chain_head # UNDEF => Node(hash, hash.chain_head) # UNDEF
      BY <1>2, NodeIsEntry DEF Laid, Sized
    <2> QED  BY <1>1, <2>1 DEF Touched
  <1>7. hash.key[a] = UNDEF => Touched(hash, k) # UNDEF
    BY <1>4 DEF Touched
  <1>8. hash.chain_head = UNDEF <=> ~ (Overflow(S, b) < ChainSz)
    BY <1>3, SizeAssumption DEF Counts
  <1> HIDE DEF b, S, a
  <1>9. Touched(hash, k) = UNDEF <=> ~ RoomFor(S, k, b, ChainSz)
    BY <1>5, <1>6, <1>7, <1>8 DEF RoomFor
  <1> QED  BY <1>9 DEF b, S

\* ihash_touch returns NULL for a new key exactly when the keys of the table
\* leave neither its bucket nor an overflow node.
THEOREM HashRefusesCounted == HashSpec => []RefusalCounted
  BY HInvAlways, HInvRefusal, PTL

-----------------------------------------------------------------------------
(* The map.                                                                *)

Table(h) == IsTable(h, BucketSz, ChainSz, Keys, Vals, HashFns)

LEMMA MapIs ==
  ASSUME NEW h, Table(h)
  PROVE  /\ \A k \in Keys : k \in DOMAIN MapOf(h) <=> \E e \in Entries(h) : h.key[e] = k
         /\ DOMAIN MapOf(h) \subseteq Keys
         /\ \A k \in Keys, e \in Entries(h) : h.key[e] = k => MapOf(h)[k] = h.val[e]
         /\ MapOf(h) = [k \in DOMAIN MapOf(h) |-> MapOf(h)[k]]
         /\ UNDEF \notin Entries(h)
         /\ \A k \in Keys : k \in DOMAIN MapOf(h) <=> ihash_get(h, k) # UNDEF
  <1>1. PICK own, pos : Laid(h, own, pos) /\ Keyed(h, own, Keys)
    BY DEF Table, IsTable
  <1>2. UNDEF \notin Entries(h)
    BY <1>1, NodeIsEntry DEF Laid
  <1>3. \A k \in Keys : /\ ihash_get(h, k) \in Entries(h) \cup {UNDEF}
                        /\ ihash_get(h, k) # UNDEF => h.key[ihash_get(h, k)] = k
                        /\ \A e \in Entries(h) : h.key[e] = k => ihash_get(h, k) = e
    BY <1>1, GetIs
  <1> QED  BY <1>2, <1>3 DEF MapOf

LEMMA EmptyMap ==
  ASSUME NEW h, Table(h), \A e \in Entries(h) : h.key[e] = UNDEF
  PROVE  MapOf(h) = [k \in {} |-> k]
  <1>1. DOMAIN MapOf(h) = {}
    <2>1. /\ \A k \in Keys : k \in DOMAIN MapOf(h) <=> \E e \in Entries(h) : h.key[e] = k
          /\ DOMAIN MapOf(h) \subseteq Keys
      BY MapIs
    <2> QED  BY <2>1, KeyAssumption
  <1> QED  BY <1>1, MapIs

LEMMA PutMap ==
  ASSUME NEW h, NEW t, Table(h), Table(t), NEW e, NEW k \in Keys, NEW v, Puts(h, t, e, k, v),
         e # UNDEF
  PROVE  MapOf(t) = [j \in DOMAIN MapOf(h) \cup {k} |-> IF j = k THEN v ELSE MapOf(h)[j]]
  <1>1. /\ e \in Entries(h) /\ Entries(t) = Entries(h) /\ t.key[e] = k /\ t.val[e] = v
        /\ \A f \in Entries(h) : f # e => t.key[f] = h.key[f] /\ t.val[f] = h.val[f]
        /\ h.key[e] \in {k, UNDEF} /\ UNDEF \notin Keys
    BY SameSizes, TableIs, KeyAssumption DEF Puts, Table
  <1>2. \A j \in Keys : j # k => ( (\E f \in Entries(h) : t.key[f] = j)
                                    <=> (\E f \in Entries(h) : h.key[f] = j) )
    BY <1>1
  <1>3. DOMAIN MapOf(t) = DOMAIN MapOf(h) \cup {k}
    <2>1. /\ \A j \in Keys : j \in DOMAIN MapOf(h) <=> \E f \in Entries(h) : h.key[f] = j
          /\ DOMAIN MapOf(h) \subseteq Keys
      BY MapIs
    <2>2. /\ \A j \in Keys : j \in DOMAIN MapOf(t) <=> \E f \in Entries(h) : t.key[f] = j
          /\ DOMAIN MapOf(t) \subseteq Keys
      BY <1>1, MapIs
    <2> QED  BY <1>1, <1>2, <2>1, <2>2
  <1>4. MapOf(t)[k] = v
    BY <1>1, MapIs
  <1>5. ASSUME NEW j \in DOMAIN MapOf(h), j # k PROVE MapOf(t)[j] = MapOf(h)[j]
    <2>1. PICK f \in Entries(h) : h.key[f] = j /\ j \in Keys
      BY <1>5, MapIs
    <2>2. f # e
      BY <1>1, <1>5, <2>1
    <2>3. t.key[f] = j /\ t.val[f] = h.val[f]
      BY <1>1, <2>1, <2>2
    <2> QED  BY <1>1, <2>1, <2>3, MapIs
  <1>6. MapOf(t) = [j \in DOMAIN MapOf(t) |-> MapOf(t)[j]]
    BY MapIs
  <1> QED  BY <1>3, <1>4, <1>5, <1>6

Lacks(t, h, k) == MapOf(t) = [j \in DOMAIN MapOf(h) \ {k} |-> MapOf(h)[j]]

LEMMA EraseMap ==
  ASSUME NEW h, NEW t, Table(h), Table(t), NEW k \in Keys, Erases(h, t, k)
  PROVE  Lacks(t, h, k)
  <1> DEFINE e == ihash_get(h, k)
  <1>1. CASE e = UNDEF
    <2>1. t = h /\ k \notin DOMAIN MapOf(h)
      BY <1>1, MapIs DEF Erases
    <2>2. DOMAIN MapOf(h) \ {k} = DOMAIN MapOf(h)
      BY <2>1
    <2>3. MapOf(h) = [j \in DOMAIN MapOf(h) |-> MapOf(h)[j]]
      BY MapIs
    <2> QED  BY <2>1, <2>2, <2>3 DEF Lacks
  <1>2. CASE e # UNDEF
    <2>1. PICK x \in Entries(h) : Dropped(h, t, e, x)
      BY <1>2 DEF Erases
    <2>2. /\ e \in Entries(h) /\ h.key[e] = k /\ Entries(t) = Entries(h) /\ h.key[x] # UNDEF
          /\ t.key[x] = UNDEF /\ (e # x => t.key[e] = h.key[x] /\ t.val[e] = h.val[x])
          /\ \A f \in Entries(h) : f # e /\ f # x => t.key[f] = h.key[f] /\ t.val[f] = h.val[f]
      <3>1. PICK own, pos : Laid(h, own, pos) /\ Keyed(h, own, Keys)
        BY DEF Table, IsTable
      <3>2. h.key[e] = k
        BY <1>2, <3>1, GetIs
      <3> HIDE DEF e
      <3> QED  BY <2>1, <3>2, SameSizes DEF Dropped, Erases
    <2>3. \A f, g \in Entries(h) : h.key[f] = h.key[g] /\ h.key[f] # UNDEF => f = g
      <3>1. PICK own, pos : Laid(h, own, pos) /\ Keyed(h, own, Keys)
        BY DEF Table, IsTable
      <3> QED  BY <3>1 DEF Keyed
    <2> HIDE DEF e
    <2>4. \A f \in Entries(h) : t.key[f] # k
      BY <2>2, <2>3, KeyAssumption
    <2>5. ASSUME NEW j \in Keys, j # k, NEW f \in Entries(h), h.key[f] = j
          PROVE  \E g \in Entries(h) : t.key[g] = j /\ t.val[g] = h.val[f]
      <3>1. f # e
        BY <2>2, <2>5
      <3>2. CASE f = x
        BY <2>2, <2>5, <3>1, <3>2
      <3>3. CASE f # x
        BY <2>2, <2>5, <3>1, <3>3
      <3> QED  BY <3>2, <3>3
    <2>6. ASSUME NEW j \in Keys, j # k, NEW f \in Entries(h), t.key[f] = j
          PROVE  \E g \in Entries(h) : h.key[g] = j
      BY <2>2, <2>6, KeyAssumption
    <2>7. DOMAIN MapOf(t) = DOMAIN MapOf(h) \ {k}
      <3>1. /\ \A j \in Keys : j \in DOMAIN MapOf(h) <=> \E f \in Entries(h) : h.key[f] = j
            /\ DOMAIN MapOf(h) \subseteq Keys
        BY MapIs
      <3>2. /\ \A j \in Keys : j \in DOMAIN MapOf(t) <=> \E f \in Entries(h) : t.key[f] = j
            /\ DOMAIN MapOf(t) \subseteq Keys
        BY <2>2, MapIs
      <3>3. \A j \in Keys : j # k => ( (\E f \in Entries(h) : t.key[f] = j)
                                        <=> (\E f \in Entries(h) : h.key[f] = j) )
        BY ONLY <2>5, <2>6
      <3> QED  BY ONLY <2>4, <3>1, <3>2, <3>3
    <2>8. ASSUME NEW j \in DOMAIN MapOf(h), j # k PROVE MapOf(t)[j] = MapOf(h)[j]
      <3>1. PICK f \in Entries(h) : h.key[f] = j /\ j \in Keys
        BY <2>8, MapIs
      <3>2. PICK g \in Entries(h) : t.key[g] = j /\ t.val[g] = h.val[f]
        BY <2>5, <2>8, <3>1
      <3> QED  BY <2>2, <3>1, <3>2, MapIs
    <2>9. MapOf(t) = [j \in DOMAIN MapOf(t) |-> MapOf(t)[j]]
      BY MapIs
    <2> QED  BY <2>7, <2>8, <2>9 DEF Lacks
  <1> QED  BY <1>1, <1>2

\* A put that is refused finds every overflow node, and a bucket, in use.
LEMMA RefusedFull ==
  ASSUME NEW h, Table(h), NEW k \in Keys, h.chain_head = UNDEF, ihash_get(h, k) = UNDEF,
         h.key[Bucket(h, k)] # UNDEF
  PROVE  k \notin DOMAIN MapOf(h) /\ Cardinality(DOMAIN MapOf(h)) >= ChainSz + 1
  <1>1. PICK own, pos : Laid(h, own, pos) /\ Keyed(h, own, Keys)
    BY DEF Table, IsTable
  <1> DEFINE U == Used(h)
             B == Buckets(h)
             S == KeysOf(h)
             b == [j \in Keys |-> Bucket(h, j)]
  <1>2. Counts(h, S, b) /\ h.chainsz = ChainSz
    BY <1>1, KeyCounts, TableIs DEF Table
  <1>3. IsFiniteSet(U) /\ Cardinality(S) = Cardinality(U) /\ Cardinality(U \ B) = ChainSz
    BY <1>2 DEF Counts
  <1>4. Bucket(h, k) \in U \cap B
    BY <1>1, NodeIsEntry DEF Keyed, Laid, Used
  <1> HIDE DEF U, B, b
  <1>5. IsFiniteSet(U \cap B) /\ Cardinality(U \cap B) # 0 /\ Cardinality(U \cap B) \in Nat
    <2>1. IsFiniteSet(U \cap B)
      BY <1>3, FS_Subset
    <2> QED  BY <1>4, <2>1, FS_CardinalityType, FS_EmptySet
  <1>6. Cardinality(U \ B) = Cardinality(U) - Cardinality(U \cap B) /\ Cardinality(U) \in Nat
    BY <1>3, FS_Difference, FS_CardinalityType
  <1>7. Cardinality(S) >= ChainSz + 1
    BY <1>3, <1>5, <1>6, SizeAssumption
  <1>8. DOMAIN MapOf(h) = S
    <2>1. /\ \A j \in Keys : j \in DOMAIN MapOf(h) <=> \E f \in Entries(h) : h.key[f] = j
          /\ DOMAIN MapOf(h) \subseteq Keys
      BY MapIs
    <2>2. \A f \in Entries(h) : h.key[f] \in Keys \cup {UNDEF}
      BY <1>1 DEF Keyed
    <2> QED  BY <2>1, <2>2, KeyAssumption DEF KeysOf
  <1> QED  BY <1>7, <1>8, MapIs

-----------------------------------------------------------------------------
(* The refinement.                                                         *)

LEMMA MapPut ==
  ASSUME Table(hash), Table(hash'), NEW e, NEW k \in Keys, NEW v,
         Puts(hash, hash', e, k, v), e # UNDEF
  PROVE  M!Put(k, v)
  <1>1. MapOf(hash') = [j \in DOMAIN MapOf(hash) \cup {k} |-> IF j = k THEN v ELSE MapOf(hash)[j]]
    BY PutMap, SMTT(60)
  <1> QED  BY <1>1 DEF M!Put, MapOf

LEMMA MapErase ==
  ASSUME Table(hash), Table(hash'), NEW k \in Keys, Erases(hash, hash', k)
  PROVE  M!Erase(k)
  <1>1. Lacks(hash', hash, k)
    BY EraseMap
  <1> QED  BY <1>1 DEF M!Erase, MapOf, Lacks

\* The map counts as the table does.
LEMMA SameCounts == \A S : M!Cardinality(S) = Cardinality(S)
  BY DEF M!Cardinality, Cardinality

LEMMA MapRefused ==
  ASSUME Table(hash), NEW k \in Keys, hash' = hash, hash.chain_head = UNDEF,
         ihash_get(hash, k) = UNDEF, hash.key[Bucket(hash, k)] # UNDEF
  PROVE  M!Refused(k)
  <1>1. k \notin DOMAIN MapOf(hash) /\ Cardinality(DOMAIN MapOf(hash)) >= ChainSz + 1
    BY RefusedFull
  <1>2. MapOf(hash)' = MapOf(hash)
    BY DEF MapOf
  <1>3. M!Cardinality(DOMAIN MapOf(hash)) >= ChainSz + 1
    BY <1>1, SameCounts
  <1> QED  BY <1>1, <1>2, <1>3 DEF M!Refused

LEMMA MapClear ==
  ASSUME Table(hash'), \A e \in Entries(hash') : hash'.key[e] = UNDEF
  PROVE  M!Clear
  <1>1. MapOf(hash') = [k \in {} |-> k]
    BY EmptyMap
  <1> QED  BY <1>1 DEF M!Clear, MapOf

LEMMA ClearMaps == ASSUME Table(hash), NEW f \in HashFns, ClearHash(f) PROVE M!Clear
  <1>1. hash' = ihash_clear(hash, f)
    BY DEF ClearHash, Becomes
  <1>2. /\ IsTable(hash', BucketSz, ChainSz, Keys, Vals, HashFns)
        /\ \A e \in 0 .. BucketSz + ChainSz - 1 : hash'.key[e] = UNDEF
    BY <1>1, ClearedIs, KeyAssumption DEF Table
  <1>3. Entries(hash') = 0 .. BucketSz + ChainSz - 1
    BY <1>2, TableIs
  <1> QED  BY <1>2, <1>3, MapClear DEF Table

LEMMA EraseMaps == ASSUME Table(hash), NEW k \in Keys, Erase(k) PROVE M!Erase(k)
  <1>1. hash' = ihash_erase(hash, k)
    BY DEF Erase, Becomes
  <1>2. Erases(hash, hash', k) /\ Table(hash')
    BY <1>1, EraseIs DEF Table
  <1> QED  BY <1>2, MapErase

LEMMA PutMaps ==
  ASSUME Table(hash), NEW k \in Keys, NEW v \in Vals, Put(k, v)
  PROVE  IF Touched(hash, k) = UNDEF THEN M!Refused(k) ELSE M!Put(k, v)
  <1>1. hash' = ihash_put(hash, k, v)
    BY DEF Put, Becomes
  <1>2. Puts(hash, hash', Touched(hash, k), k, v) /\ Table(hash')
    BY <1>1, PutIs DEF Table
  <1>3. CASE Touched(hash, k) = UNDEF
    BY <1>2, <1>3, MapRefused DEF Puts
  <1>4. CASE Touched(hash, k) # UNDEF
    BY <1>2, <1>4, MapPut
  <1> QED  BY <1>3, <1>4

LEMMA PutKeyMaps ==
  ASSUME Table(hash), NEW k \in Keys, PutKey(k)
  PROVE  IF Touched(hash, k) = UNDEF THEN M!Refused(k) ELSE M!PutKey(k)
  <1> DEFINE e == Touched(hash, k)
  <1>1. hash' = ihash_touch(hash, k)
    BY DEF PutKey, Becomes
  <1>2. Touches(hash, hash', e, k) /\ Table(hash')
    BY <1>1, TouchIs DEF Table
  <1>3. CASE e = UNDEF
    BY <1>2, <1>3, MapRefused DEF Touches
  <1>4. CASE e # UNDEF /\ ihash_get(hash, k) # UNDEF
    <2>1. hash' = hash /\ k \in DOMAIN MapOf(hash)
      BY <1>2, <1>4, MapIs DEF Touches
    <2>2. MapOf(hash') = MapOf(hash)
      BY <2>1
    <2> QED  BY <1>4, <2>1, <2>2 DEF M!PutKey, MapOf
  <1>5. CASE e # UNDEF /\ ihash_get(hash, k) = UNDEF
    <2>1. e \in Entries(hash) /\ hash.val \in [Entries(hash) -> Vals]
      BY <1>2, <1>5, TableIs DEF Touches, Table
    <2>2. hash.val[e] \in Vals /\ [hash.val EXCEPT ![e] = hash.val[e]] = hash.val
      BY <2>1
    <2>3. Puts(hash, hash', e, k, hash.val[e])
      BY <1>2, <1>5, <2>1, <2>2 DEF Touches, Puts
    <2>4. M!Put(k, hash.val[e])
      BY <1>2, <1>5, <2>3, MapPut
    <2>5. k \notin DOMAIN MapOf(hash)
      BY <1>5, MapIs
    <2> QED  BY <1>5, <2>2, <2>4, <2>5 DEF M!PutKey
  <1> QED  BY <1>3, <1>4, <1>5

LEMMA HashCalls == HInv => HashCallsMatch
  <1>1. HInv => Table(hash)
    BY DEF HInv, Table
  <1> QED  BY <1>1, ClearMaps, EraseMaps, PutMaps, PutKeyMaps DEF HashCallsMatch

LEMMA MapInit == HashInit => M!Init
  <1>1. SUFFICES ASSUME HashInit PROVE M!Init
    OBVIOUS
  <1>2. EmptyTable(hash, BucketSz, ChainSz, Keys, Vals, HashFns)
    BY <1>1, InitEmpty
  <1>3. Entries(hash) = 0 .. BucketSz + ChainSz - 1
    BY <1>2, TableIs DEF EmptyTable
  <1> QED  BY <1>2, <1>3, EmptyMap DEF Table, EmptyTable, M!Init

LEMMA MapNext == HInv /\ [HashNext]_hashvars => [M!Next]_(MapOf(hash))
  <1>1. SUFFICES ASSUME HInv, [HashNext]_hashvars PROVE [M!Next]_(MapOf(hash))
    OBVIOUS
  <1>2. Table(hash)
    BY <1>1 DEF HInv, Table
  <1>3. ASSUME NEW f \in HashFns, ClearHash(f) PROVE M!Next
    BY <1>2, <1>3, ClearMaps DEF M!Next
  <1>4. ASSUME NEW k \in Keys, Erase(k) PROVE M!Next
    BY <1>2, <1>4, EraseMaps DEF M!Next
  <1>5. ASSUME NEW k \in Keys, PutKey(k) PROVE M!Next
    BY <1>2, <1>5, PutKeyMaps DEF M!Next
  <1>6. ASSUME NEW k \in Keys, NEW v \in Vals, Put(k, v) PROVE M!Next
    BY <1>2, <1>6, PutMaps DEF M!Next
  <1>7. CASE Visit \/ UNCHANGED hashvars
    BY <1>7 DEF Visit, hashvars, MapOf
  <1> QED  BY <1>1, <1>3, <1>4, <1>5, <1>6, <1>7 DEF HashNext

\* ihash.h: whatever the sizes, the hash function and the calls, lookups show a
\* map that every call changes as its name says.
THEOREM HashImplementsMap == HashSpec => ImplementsMap
  <1>1. HInv /\ [HashNext]_hashvars => [hash' # hash => HashCallsMatch]_hash
    BY HashCalls
  <1> QED
    BY HInvInit, HInvNext, MapInit, MapNext, <1>1, PTL DEF HashSpec, M!Spec, ImplementsMap
===============================================================================
