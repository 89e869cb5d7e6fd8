----------------------------- MODULE IndexLemmas -----------------------------
(***************************************************************************)
(* Lemmas about the operators of the index based structures: what the      *)
(* surgery of module Chains does to a chain, to its nodes, and to the      *)
(* sequence it is; induction, for walks along links; what the operations   *)
(* of ihash.c do to hash values, and those of ilist2.c to list values,     *)
(* where the order and the free list after an operation are named in terms *)
(* of the ones before it.                                                  *)
(***************************************************************************)
EXTENDS IHashOps, IList2Ops, SequenceTheorems, FiniteSetTheorems, WellFoundedInduction, TLAPS

\* Putting a new node in front of, or after, a chain.
LEMMA ConsNodes ==
  ASSUME NEW S, NEW s, NEW m, NEW x, Chain(s, m, S)
  PROVE  Nodes(Cons(x, s, m), m + 1) = {x} \cup Nodes(s, m)
  <1> USE DEF Chain
  <1>1. \A i \in 1 .. m : i + 1 \in 1 .. m + 1 /\ Cons(x, s, m)[i + 1] = s[i]
    BY DEF Cons
  <1>2. 1 \in 1 .. m + 1 /\ Cons(x, s, m)[1] = x
    BY DEF Cons
  <1>3. \A i \in 1 .. m + 1 : i = 1 \/ (i - 1 \in 1 .. m /\ Cons(x, s, m)[i] = s[i - 1])
    BY DEF Cons
  <1> QED  BY <1>1, <1>2, <1>3 DEF Nodes

LEMMA ConsChain ==
  ASSUME NEW S, NEW s, NEW m, NEW x,
         Chain(s, m, S), x \in S, x \notin Nodes(s, m)
  PROVE  Chain(Cons(x, s, m), m + 1, S)
  <1> USE DEF Chain
  <1>1. Cons(x, s, m)[1] = x
    BY DEF Cons
  <1>2. \A i \in 1 .. m + 1 : i = 1 \/ (i - 1 \in 1 .. m /\ Cons(x, s, m)[i] = s[i - 1])
    BY DEF Cons
  <1>3. \A i, j \in 1 .. m + 1 : Cons(x, s, m)[i] = Cons(x, s, m)[j] => i = j
    BY <1>1, <1>2 DEF Nodes
  <1> QED  BY <1>3 DEF Cons

LEMMA SnocNodes ==
  ASSUME NEW S, NEW s, NEW m, NEW x, Chain(s, m, S)
  PROVE  Nodes(Snoc(s, m, x), m + 1) = {x} \cup Nodes(s, m)
  <1> USE DEF Chain
  <1>1. \A i \in 1 .. m : i \in 1 .. m + 1 /\ Snoc(s, m, x)[i] = s[i]
    BY DEF Snoc
  <1>2. m + 1 \in 1 .. m + 1 /\ Snoc(s, m, x)[m + 1] = x
    BY DEF Snoc
  <1>3. \A i \in 1 .. m + 1 : i = m + 1 \/ (i \in 1 .. m /\ Snoc(s, m, x)[i] = s[i])
    BY DEF Snoc
  <1> QED  BY <1>1, <1>2, <1>3 DEF Nodes

LEMMA SnocChain ==
  ASSUME NEW S, NEW s, NEW m, NEW x,
         Chain(s, m, S), x \in S, x \notin Nodes(s, m)
  PROVE  Chain(Snoc(s, m, x), m + 1, S)
  <1> USE DEF Chain
  <1>1. Snoc(s, m, x)[m + 1] = x
    BY DEF Snoc
  <1>2. \A i \in 1 .. m + 1 : i = m + 1 \/ (i \in 1 .. m /\ Snoc(s, m, x)[i] = s[i])
    BY DEF Snoc
  <1>3. \A i, j \in 1 .. m + 1 : Snoc(s, m, x)[i] = Snoc(s, m, x)[j] => i = j
    BY <1>1, <1>2 DEF Nodes
  <1> QED  BY <1>3 DEF Snoc

\* Taking the first, or the last, node off a chain.
LEMMA RestChain ==
  ASSUME NEW S, NEW s, NEW m, Chain(s, m, S), m > 0
  PROVE  /\ Chain(Rest(s, m), m - 1, S)
         /\ Nodes(Rest(s, m), m - 1) = Nodes(s, m) \ {s[1]}
  <1> USE DEF Chain
  <1>1. \A i \in 1 .. m - 1 : i + 1 \in 1 .. m /\ Rest(s, m)[i] = s[i + 1]
    BY DEF Rest
  <1>2. \A i \in 1 .. m : i = 1 \/ (i - 1 \in 1 .. m - 1 /\ Rest(s, m)[i - 1] = s[i])
    BY DEF Rest
  <1>3. \A i \in 1 .. m - 1 : s[i + 1] # s[1]
    OBVIOUS
  <1>4. Nodes(Rest(s, m), m - 1) = Nodes(s, m) \ {s[1]}
    <2>1. \A x \in Nodes(Rest(s, m), m - 1) : x \in Nodes(s, m) /\ x # s[1]
      BY <1>1, <1>3 DEF Nodes
    <2>2. \A x \in Nodes(s, m) : x # s[1] => x \in Nodes(Rest(s, m), m - 1)
      BY <1>2 DEF Nodes
    <2> QED  BY <2>1, <2>2
  <1>5. \A i, j \in 1 .. m - 1 : Rest(s, m)[i] = Rest(s, m)[j] => i = j
    BY <1>1
  <1> QED  BY <1>4, <1>5 DEF Rest

LEMMA MostChain ==
  ASSUME NEW S, NEW s, NEW m, Chain(s, m, S), m > 0
  PROVE  /\ Chain(Most(s, m), m - 1, S)
         /\ Nodes(Most(s, m), m - 1) = Nodes(s, m) \ {s[m]}
  <1> USE DEF Chain
  <1>1. \A i \in 1 .. m - 1 : i \in 1 .. m /\ Most(s, m)[i] = s[i]
    BY DEF Most
  <1>2. \A i \in 1 .. m : i = m \/ (i \in 1 .. m - 1 /\ Most(s, m)[i] = s[i])
    BY DEF Most
  <1>3. \A i \in 1 .. m - 1 : s[i] # s[m]
    OBVIOUS
  <1>4. Nodes(Most(s, m), m - 1) = Nodes(s, m) \ {s[m]}
    BY <1>1, <1>2, <1>3 DEF Nodes
  <1>5. \A i, j \in 1 .. m - 1 : Most(s, m)[i] = Most(s, m)[j] => i = j
    BY <1>1
  <1> QED  BY <1>4, <1>5 DEF Most

\* Moving the node at position p of a chain to its front, or to its back.
LEMMA ToFrontChain ==
  ASSUME NEW S, NEW s, NEW m, Chain(s, m, S), NEW p \in 1 .. m
  PROVE  /\ Chain(ToFront(s, m, p), m, S)
         /\ Nodes(ToFront(s, m, p), m) = Nodes(s, m)
  <1> USE DEF Chain
  <1> DEFINE t == ToFront(s, m, p)
  <1>1. \A i \in 1 .. m : t[i] = IF i = 1 THEN s[p] ELSE IF i <= p THEN s[i - 1] ELSE s[i]
    BY DEF ToFront
  <1>2. t[1] = s[p] /\ (\A i \in 1 .. m : (i < p => t[i + 1] = s[i]) /\ (i > p => t[i] = s[i]))
    BY <1>1
  <1> HIDE DEF t
  <1>3. \A i \in 1 .. m : \E j \in 1 .. m : t[i] = s[j]
    BY <1>1
  <1>4. \A i \in 1 .. m : \E j \in 1 .. m : s[i] = t[j]
    <2> TAKE i \in 1 .. m
    <2>1. CASE i < p   BY <2>1, <1>2
    <2>2. CASE i = p   BY <2>2, <1>2
    <2>3. CASE i > p   BY <2>3, <1>2
    <2> QED  BY <2>1, <2>2, <2>3
  <1>5. \A i, j \in 1 .. m : t[i] = t[j] => i = j
    <2> DEFINE pos == [i \in 1 .. m |-> IF i = 1 THEN p ELSE IF i <= p THEN i - 1 ELSE i]
    <2>1. \A i \in 1 .. m : pos[i] \in 1 .. m /\ t[i] = s[pos[i]]
      BY <1>1
    <2>2. \A i, j \in 1 .. m : pos[i] = pos[j] => i = j
      OBVIOUS
    <2> HIDE DEF pos
    <2> QED  BY <2>1, <2>2
  <1>6. Nodes(t, m) = Nodes(s, m)
    <2>1. Nodes(t, m) \subseteq Nodes(s, m)
      BY <1>3 DEF Nodes
    <2>2. Nodes(s, m) \subseteq Nodes(t, m)
      BY <1>4 DEF Nodes
    <2> QED  BY <2>1, <2>2
  <1>7. t \in [1 .. m -> S]
    BY DEF t, ToFront
  <1> QED  BY <1>5, <1>6, <1>7 DEF t

LEMMA ToBackChain ==
  ASSUME NEW S, NEW s, NEW m, Chain(s, m, S), NEW p \in 1 .. m
  PROVE  /\ Chain(ToBack(s, m, p), m, S)
         /\ Nodes(ToBack(s, m, p), m) = Nodes(s, m)
  <1> USE DEF Chain
  <1> DEFINE t == ToBack(s, m, p)
  <1>1. \A i \in 1 .. m : t[i] = IF i = m THEN s[p] ELSE IF i < p THEN s[i] ELSE s[i + 1]
    BY DEF ToBack
  <1>2. t[m] = s[p] /\ (\A i \in 1 .. m : (i < p => t[i] = s[i]) /\ (i > p => t[i - 1] = s[i]))
    BY <1>1
  <1> HIDE DEF t
  <1>3. \A i \in 1 .. m : \E j \in 1 .. m : t[i] = s[j]
    BY <1>1
  <1>4. \A i \in 1 .. m : \E j \in 1 .. m : s[i] = t[j]
    <2> TAKE i \in 1 .. m
    <2>1. CASE i < p   BY <2>1, <1>2
    <2>2. CASE i = p   BY <2>2, <1>2
    <2>3. CASE i > p   BY <2>3, <1>2
    <2> QED  BY <2>1, <2>2, <2>3
  <1>5. \A i, j \in 1 .. m : t[i] = t[j] => i = j
    <2> DEFINE pos == [i \in 1 .. m |-> IF i = m THEN p ELSE IF i < p THEN i ELSE i + 1]
    <2>1. \A i \in 1 .. m : pos[i] \in 1 .. m /\ t[i] = s[pos[i]]
      BY <1>1
    <2>2. \A i, j \in 1 .. m : pos[i] = pos[j] => i = j
      OBVIOUS
    <2> HIDE DEF pos
    <2> QED  BY <2>1, <2>2
  <1>6. Nodes(t, m) = Nodes(s, m)
    <2>1. Nodes(t, m) \subseteq Nodes(s, m)
      BY <1>3, SMTT(30) DEF Nodes
    <2>2. Nodes(s, m) \subseteq Nodes(t, m)
      BY <1>4, SMTT(30) DEF Nodes
    <2> QED  BY <2>1, <2>2
  <1>7. t \in [1 .. m -> S]
    BY DEF t, ToBack
  <1> QED  BY <1>5, <1>6, <1>7 DEF t


-----------------------------------------------------------------------------
(* Induction over natural numbers, as a fact about sets.                   *)

\* The pairs of the relation R include those of <.
Orders(R) == \A a, b \in Nat : a < b => <<a, b>> \in R
\* Every set of natural numbers that is not empty has a least one.
LEMMA Least ==
  ASSUME NEW S, S \subseteq Nat, S # {}
  PROVE  \E x \in S : \A y \in S : x <= y
<1>1. PICK R : IsWellFoundedOn(R, Nat) /\ Orders(R)
  <2>1. Orders(OpToRel(<, Nat))
    BY DEF OpToRel, Orders
  <2> QED BY <2>1, NatLessThanWellFounded
<1>3. PICK x \in S : \A y \in S : <<y, x>> \notin R
  BY <1>1, WFMin
<1>4. ASSUME NEW y \in S PROVE x <= y
  <2>1. x \in Nat /\ y \in Nat
    OBVIOUS
  <2>2. y < x => <<y, x>> \in R
    BY <1>1, <2>1, Zenon DEF Orders
  <2> QED BY <1>3, <2>1, <2>2
<1> QED BY <1>4

\* A set that 0 is in, and every number after one of its own, has all numbers.
LEMMA Upwards ==
  ASSUME NEW n \in Nat, NEW S, 0 \in S, \A i \in 1 .. n : i - 1 \in S => i \in S
  PROVE  0 .. n \subseteq S
<1> DEFINE T == {i \in 0 .. n : i \notin S}
<1>1. SUFFICES ASSUME T # {} PROVE FALSE
  OBVIOUS
<1>2. PICK x \in T : \A y \in T : x <= y
  <2>1. T \subseteq Nat /\ T # {}
    BY <1>1
  <2> HIDE DEF T
  <2> QED BY ONLY <2>1, Least
<1>3. x \in 1 .. n /\ x - 1 \in 0 .. n
  BY <1>2
<1>4. x - 1 \notin T
  BY <1>2, <1>3
<1> QED BY <1>2, <1>3, <1>4

-----------------------------------------------------------------------------
(* Chains as sequences.                                                    *)

\* Putting a node after a chain, and in front of it.
LEMMA SnocAppends ==
  ASSUME NEW S, NEW m \in Nat, NEW s \in [1 .. m -> S], NEW x \in S
  PROVE  Snoc(s, m, x) = Append(s, x)
<1>1. s \in Seq(S) /\ Len(s) = m
  BY IsASeq, LenProperties
<1>2. /\ Append(s, x) \in Seq(S) /\ Len(Append(s, x)) = m + 1
      /\ \A i \in 1 .. m : Append(s, x)[i] = s[i]
      /\ Append(s, x)[m + 1] = x
  BY <1>1, AppendProperties
<1>3. Snoc(s, m, x) \in [1 .. m + 1 -> S]
  BY DEF Snoc
<1>4. Snoc(s, m, x) \in Seq(S) /\ Len(Snoc(s, m, x)) = m + 1
  BY <1>3, IsASeq, LenProperties
<1>5. \A i \in 1 .. m + 1 : Snoc(s, m, x)[i] = Append(s, x)[i]
  BY <1>2 DEF Snoc
<1> HIDE DEF Snoc
<1> QED BY <1>1, <1>2, <1>4, <1>5, SeqEqual

LEMMA ConsPrepends ==
  ASSUME NEW S, NEW m \in Nat, NEW s \in [1 .. m -> S], NEW x \in S
  PROVE  Cons(x, s, m) = <<x>> \o s
<1>1. s \in Seq(S) /\ Len(s) = m
  BY IsASeq, LenProperties
<1>0. <<x>> \in Seq(S) /\ Len(<<x>>) = 1 /\ <<x>>[1] = x
  OBVIOUS
<1> DEFINE h == <<x>>
<1> HIDE DEF h
<1>2. /\ h \o s \in Seq(S) /\ Len(h \o s) = m + 1
      /\ (h \o s)[1] = x
      /\ \A i \in 2 .. m + 1 : (h \o s)[i] = s[i - 1]
  BY <1>0, <1>1, ConcatProperties DEF h
<1>3. Cons(x, s, m) \in [1 .. m + 1 -> S]
  BY DEF Cons
<1>4. Cons(x, s, m) \in Seq(S) /\ Len(Cons(x, s, m)) = m + 1
  BY <1>3, IsASeq, LenProperties
<1>5. \A i \in 1 .. m + 1 : Cons(x, s, m)[i] = (h \o s)[i]
  BY <1>2 DEF Cons
<1>6. Cons(x, s, m) = h \o s
  BY <1>2, <1>4, <1>5, SeqEqual
<1> QED BY <1>6 DEF h

\* Taking the last node off, and the first.
LEMMA MostCuts ==
  ASSUME NEW S, NEW m \in Nat, NEW s \in [1 .. m -> S], m > 0
  PROVE  Most(s, m) = SubSeq(s, 1, m - 1)
<1>1. s \in Seq(S) /\ Len(s) = m
  BY IsASeq, LenProperties
<1>2. /\ SubSeq(s, 1, m - 1) \in Seq(S) /\ Len(SubSeq(s, 1, m - 1)) = m - 1
      /\ \A i \in 1 .. m - 1 : SubSeq(s, 1, m - 1)[i] = s[i]
  BY <1>1, SubSeqProperties
<1>3. Most(s, m) \in [1 .. m - 1 -> S]
  BY DEF Most
<1>4. Most(s, m) \in Seq(S) /\ Len(Most(s, m)) = m - 1
  BY <1>3, IsASeq, LenProperties
<1>5. \A i \in 1 .. m - 1 : Most(s, m)[i] = SubSeq(s, 1, m - 1)[i]
  BY <1>2 DEF Most
<1> QED BY <1>2, <1>4, <1>5, SeqEqual

LEMMA RestIsTail ==
  ASSUME NEW S, NEW m \in Nat, NEW s \in [1 .. m -> S], m > 0
  PROVE  Rest(s, m) = Tail(s)
<1>1. s \in Seq(S) /\ Len(s) = m /\ s # <<>>
  BY IsASeq, LenProperties
<1>2. /\ Tail(s) \in Seq(S) /\ Len(Tail(s)) = m - 1
      /\ \A i \in 1 .. m - 1 : Tail(s)[i] = s[i + 1]
  BY <1>1, HeadTailProperties
<1>3. Rest(s, m) \in [1 .. m - 1 -> S]
  BY DEF Rest
<1>4. Rest(s, m) \in Seq(S) /\ Len(Rest(s, m)) = m - 1
  BY <1>3, IsASeq, LenProperties
<1>5. \A i \in 1 .. m - 1 : Rest(s, m)[i] = Tail(s)[i]
  BY <1>2 DEF Rest
<1> QED BY <1>2, <1>4, <1>5, SeqEqual

\* A chain without the node at position p.
But(s, m, p) == [i \in 1 .. m - 1 |-> IF i < p THEN s[i] ELSE s[i + 1]]

LEMMA ButSkips ==
  ASSUME NEW S, NEW m \in Nat, NEW s \in [1 .. m -> S], NEW p \in 1 .. m
  PROVE  /\ But(s, m, p) \in [1 .. m - 1 -> S]
         /\ But(s, m, p) = SubSeq(s, 1, p - 1) \o SubSeq(s, p + 1, m)
<1>1. s \in Seq(S) /\ Len(s) = m /\ p \in 1 .. Len(s)
  BY IsASeq, LenProperties
<1> DEFINE a == SubSeq(s, 1, p - 1)
           b == SubSeq(s, p + 1, m)
<1>2. /\ a \in Seq(S) /\ Len(a) = p - 1
      /\ \A i \in 1 .. p - 1 : a[i] = s[i]
  BY <1>1, SubSeqProperties
<1>3. /\ b \in Seq(S) /\ Len(b) = m - p
      /\ \A i \in 1 .. m - p : b[i] = s[p + i]
  <2>1. CASE p < m
    <3>1. p + 1 \in 1 .. m + 1 /\ m \in p .. m
      BY <2>1
    <3>2. /\ b \in Seq(S) /\ Len(b) = m - (p + 1) + 1
          /\ \A i \in 1 .. m - (p + 1) + 1 : b[i] = s[p + 1 + i - 1]
      BY <1>1, <2>1, <3>1, SubSeqProperties
    <3> QED BY <3>2
  <2>2. CASE p = m
    BY <1>1, <2>2, SubSeqEmpty
  <2> QED BY <2>1, <2>2
<1> HIDE DEF a, b
<1>4. /\ a \o b \in Seq(S) /\ Len(a \o b) = m - 1
      /\ \A i \in 1 .. m - 1 : (a \o b)[i] = IF i < p THEN a[i] ELSE b[i - (p - 1)]
  <2>1. /\ a \o b \in Seq(S) /\ Len(a \o b) = Len(a) + Len(b)
        /\ \A i \in 1 .. Len(a) + Len(b) :
             (a \o b)[i] = IF i <= Len(a) THEN a[i] ELSE b[i - Len(a)]
    BY <1>2, <1>3, ConcatProperties
  <2>2. Len(a) + Len(b) = m - 1 /\ \A i \in 1 .. m - 1 : i <= Len(a) <=> i < p
    BY <1>2, <1>3
  <2> QED BY <1>2, <2>1, <2>2
<1>5. But(s, m, p) \in [1 .. m - 1 -> S]
  BY DEF But
<1>6. But(s, m, p) \in Seq(S) /\ Len(But(s, m, p)) = m - 1
  BY <1>5, IsASeq, LenProperties
<1>7. \A i \in 1 .. m - 1 : But(s, m, p)[i] = (a \o b)[i]
  <2> TAKE i \in 1 .. m - 1
  <2>1. CASE i < p
    BY <1>2, <1>4, <2>1 DEF But
  <2>2. CASE i >= p
    <3>1. i - (p - 1) \in 1 .. m - p /\ p + (i - (p - 1)) = i + 1
      BY <2>2
    <3> QED BY <1>3, <1>4, <2>2, <3>1 DEF But
  <2>3. i < p \/ i >= p
    OBVIOUS
  <2> QED BY <2>1, <2>2, <2>3
<1>8. But(s, m, p) = a \o b
  BY <1>4, <1>6, <1>7, SeqEqual
<1> QED BY <1>5, <1>8 DEF a, b

\* Moving a node to the front, and to the back.
LEMMA MovesSkip ==
  ASSUME NEW S, NEW m \in Nat, NEW s \in [1 .. m -> S], NEW p \in 1 .. m
  PROVE  /\ ToFront(s, m, p) = <<s[p]>> \o (SubSeq(s, 1, p - 1) \o SubSeq(s, p + 1, m))
         /\ ToBack(s, m, p) = Append(SubSeq(s, 1, p - 1) \o SubSeq(s, p + 1, m), s[p])
<1> DEFINE b == But(s, m, p)
<1>1. m - 1 \in Nat /\ s[p] \in S
  OBVIOUS
<1>4. /\ b \in [1 .. m - 1 -> S]
      /\ b = SubSeq(s, 1, p - 1) \o SubSeq(s, p + 1, m)
  BY ButSkips
<1>2. ToFront(s, m, p) = Cons(s[p], b, m - 1)
  BY DEF ToFront, Cons, But
<1>3. ToBack(s, m, p) = Snoc(b, m - 1, s[p])
  BY DEF ToBack, Snoc, But
<1> HIDE DEF b
<1>5. Cons(s[p], b, m - 1) = <<s[p]>> \o b
  <2>1. b \in [1 .. m - 1 -> S]
    BY <1>4
  <2> QED BY ONLY <1>1, <2>1, ConsPrepends
<1>6. Snoc(b, m - 1, s[p]) = Append(b, s[p])
  <2>1. b \in [1 .. m - 1 -> S]
    BY <1>4
  <2> QED BY ONLY <1>1, <2>1, SnocAppends
<1> QED BY <1>2, <1>3, <1>4, <1>5, <1>6

-----------------------------------------------------------------------------
(* The layout of a hash table.                                             *)

\* How the entries of a table are laid out: own says on whose chain an entry
\* is, a bucket's or the free list's (UNDEF), and pos how many entries come
\* before it there.
Sized(h) ==
  /\ h.bucketsz \in Nat \ {0} /\ h.chainsz \in Nat
  /\ h.chain_head \in UNDEF .. h.chainsz - 1
  /\ h.next \in [Entries(h) -> UNDEF .. h.chainsz - 1]

Placed(h, own, pos) ==
  /\ own \in [Entries(h) -> Buckets(h) \cup {UNDEF}]
  /\ pos \in [Entries(h) -> Nat]
  /\ \A e, f \in Entries(h) : own[e] = own[f] /\ pos[e] = pos[f] => e = f

\* A chain begins with its bucket, the free list with chain_head.
Heads(h, own, pos) ==
  /\ \A b \in Buckets(h) : own[b] = b /\ pos[b] = 0
  /\ h.chain_head # UNDEF =>
       own[Node(h, h.chain_head)] = UNDEF /\ pos[Node(h, h.chain_head)] = 0
  /\ \A e \in Entries(h) \ Buckets(h) :
       pos[e] = 0 => h.chain_head # UNDEF /\ e = Node(h, h.chain_head)

\* A link leads to the next place, and to every other place one does.
Linked(h, own, pos) ==
  /\ \A e \in Entries(h) : h.next[e] # UNDEF =>
       own[Node(h, h.next[e])] = own[e] /\ pos[Node(h, h.next[e])] = pos[e] + 1
  /\ \A e \in Entries(h) : pos[e] > 0 =>
       \E p \in Entries(h) : own[p] = own[e] /\ pos[p] = pos[e] - 1 /\ Node(h, h.next[p]) = e
                             /\ h.next[p] # UNDEF

Laid(h, own, pos) ==
  Sized(h) /\ Placed(h, own, pos) /\ Heads(h, own, pos) /\ Linked(h, own, pos)

-----------------------------------------------------------------------------
LEMMA NodeIsEntry ==
  ASSUME NEW h, Sized(h)
  PROVE  /\ \A c \in 0 .. h.chainsz - 1 : Node(h, c) \in Entries(h) \ Buckets(h)
         /\ \A e \in Entries(h) \ Buckets(h) :
              e - h.bucketsz \in 0 .. h.chainsz - 1 /\ Node(h, e - h.bucketsz) = e
         /\ \A c \in UNDEF .. h.chainsz - 1 : c # UNDEF => c \in 0 .. h.chainsz - 1
         /\ Buckets(h) \subseteq Entries(h)
         /\ UNDEF \notin Entries(h)
         /\ \A c, d \in 0 .. h.chainsz - 1 : Node(h, c) = Node(h, d) => c = d
  <1> DEFINE b == h.bucketsz
             c == h.chainsz
  <1>1. b \in Nat \ {0} /\ c \in Nat
    BY DEF Sized
  <1>2. Entries(h) = 0 .. b + c - 1 /\ Buckets(h) = 0 .. b - 1 /\ \A x : Node(h, x) = b + x
    BY DEF Entries, Buckets, Node
  <1> HIDE DEF b, c
  <1>3. \A x \in 0 .. c - 1 : Node(h, x) \in Entries(h) \ Buckets(h)
    BY <1>1, <1>2
  <1>4. \A e \in Entries(h) \ Buckets(h) : e - b \in 0 .. c - 1 /\ Node(h, e - b) = e
    BY <1>1, <1>2
  <1>5. \A x \in UNDEF .. c - 1 : x # UNDEF => x \in 0 .. c - 1
    BY <1>1 DEF UNDEF
  <1>6. Buckets(h) \subseteq Entries(h) /\ UNDEF \notin Entries(h)
    BY <1>1, <1>2 DEF UNDEF
  <1>7. \A x, y \in 0 .. c - 1 : Node(h, x) = Node(h, y) => x = y
    BY <1>1, <1>2
  <1> QED  BY <1>3, <1>4, <1>5, <1>6, <1>7 DEF b, c

\* Before every place there are all places nearer to the head.
LEMMA PlacesBefore ==
  ASSUME NEW h, NEW own, NEW pos, Laid(h, own, pos), NEW e \in Entries(h)
  PROVE  \A i \in 0 .. pos[e] : \E f \in Entries(h) : own[f] = own[e] /\ pos[f] = i
  <1> DEFINE S == {i \in 0 .. pos[e] : \E f \in Entries(h) : own[f] = own[e] /\ pos[f] = pos[e] - i}
  <1>1. pos[e] \in Nat
    BY DEF Laid, Placed
  <1>2. 0 \in S
    BY <1>1
  <1>3. ASSUME NEW i \in 1 .. pos[e], i - 1 \in S PROVE i \in S
    <2>1. PICK f \in Entries(h) : own[f] = own[e] /\ pos[f] = pos[e] - (i - 1)
      BY <1>3
    <2>2. pos[f] > 0
      BY <1>1, <2>1
    <2>3. PICK p \in Entries(h) : own[p] = own[f] /\ pos[p] = pos[f] - 1
      BY <2>2 DEF Laid, Linked
    <2>4. pos[p] = pos[e] - i /\ i \in 0 .. pos[e]
      BY <1>1, <2>1, <2>3
    <2> QED  BY <2>1, <2>3, <2>4
  <1> HIDE DEF S
  <1>4. 0 .. pos[e] \subseteq S
    BY ONLY <1>1, <1>2, <1>3, Upwards
  <1>5. ASSUME NEW i \in 0 .. pos[e]
        PROVE  \E f \in Entries(h) : own[f] = own[e] /\ pos[f] = i
    <2>1. pos[e] - i \in 0 .. pos[e] /\ pos[e] - (pos[e] - i) = i
      BY <1>1
    <2> QED  BY <1>4, <2>1 DEF S
  <1> QED  BY <1>5

\* Different things go to as many places at least.
LEMMA Pigeons ==
  ASSUME NEW lo \in Int, NEW hi \in Int, NEW a \in Int, NEW z \in Int,
         NEW f \in [lo .. hi -> a .. z], \A i, j \in lo .. hi : f[i] = f[j] => i = j,
         lo <= hi
  PROVE  hi - lo <= z - a
  <1>1. f \in Injection(lo .. hi, a .. z)
    BY DEF Injection, IsInjective
  <1>2. IsFiniteSet(a .. z) /\ Cardinality(a .. z) = IF a > z THEN 0 ELSE z - a + 1
    BY FS_Interval
  <1>3. Cardinality(lo .. hi) = hi - lo + 1
    BY FS_Interval
  <1>4. Cardinality(lo .. hi) <= Cardinality(a .. z)
    BY ONLY <1>1, <1>2, FS_Injection
  <1> QED  BY <1>2, <1>3, <1>4

LEMMA PlacesBounded ==
  ASSUME NEW h, NEW own, NEW pos, Laid(h, own, pos), NEW e \in Entries(h)
  PROVE  /\ pos[e] \in 0 .. h.chainsz
         /\ own[e] = UNDEF => pos[e] + 1 <= h.chainsz
  <1> DEFINE f == [i \in 0 .. pos[e] |-> CHOOSE x \in Entries(h) : own[x] = own[e] /\ pos[x] = i]
             last == h.bucketsz + h.chainsz - 1
  <1>1. pos[e] \in Nat /\ h.chainsz \in Nat /\ h.bucketsz \in Int /\ last \in Int
    BY DEF Laid, Placed, Sized
  <1>2. \A i \in 0 .. pos[e] : f[i] \in Entries(h) /\ own[f[i]] = own[e] /\ pos[f[i]] = i
    BY PlacesBefore
  <1>3. f = [i \in 0 .. pos[e] |-> f[i]]
    OBVIOUS
  <1> HIDE DEF f
  <1>4. Entries(h) \ Buckets(h) = h.bucketsz .. last
    BY DEF Laid, Sized, Entries, Buckets
  <1> HIDE DEF last
  <1>5. \A b \in Buckets(h) : own[b] = b /\ pos[b] = 0 /\ b # UNDEF
    BY NodeIsEntry DEF Laid, Heads
  <1>6. ASSUME NEW i0 \in {0, 1}, i0 = 1 \/ own[e] = UNDEF, i0 <= pos[e]
        PROVE  pos[e] - i0 <= last - h.bucketsz
    <2> DEFINE g == [i \in i0 .. pos[e] |-> f[i]]
    <2>1. \A i \in i0 .. pos[e] : i \in 0 .. pos[e] /\ (i > 0 \/ own[e] = UNDEF)
      BY <1>1, <1>6
    <2>2. \A i \in i0 .. pos[e] : f[i] \in h.bucketsz .. last
      BY <1>2, <1>4, <1>5, <2>1
    <2>3. g \in [i0 .. pos[e] -> h.bucketsz .. last]
      BY <2>2
    <2>4. \A i, j \in i0 .. pos[e] : g[i] = g[j] => i = j
      BY <1>2, <2>1
    <2>5. i0 \in Int /\ pos[e] \in Int
      BY <1>1
    <2> HIDE DEF g
    <2> QED  BY ONLY <1>1, <1>6, <2>3, <2>4, <2>5, Pigeons
  <1>7. pos[e] <= h.chainsz
    BY <1>1, <1>6 DEF last
  <1>8. own[e] = UNDEF => pos[e] + 1 <= h.chainsz
    BY <1>1, <1>6 DEF last
  <1> QED  BY <1>1, <1>7, <1>8

-----------------------------------------------------------------------------
(* Walks.                                                                  *)

\* A walk as the definition of Path has it.
IsPath(g, h, e) ==
  g = [i \in 0 .. h.chainsz |->
         IF i = 0 THEN e
         ELSE IF g[i - 1] = UNDEF \/ h.next[g[i - 1]] = UNDEF THEN UNDEF
         ELSE Node(h, h.next[g[i - 1]])]

LEMMA OnePath ==
  ASSUME NEW h, h.chainsz \in Nat, NEW e, NEW g, NEW k, IsPath(g, h, e), IsPath(k, h, e)
  PROVE  g = k
  <1> DEFINE S == {i \in 0 .. h.chainsz : g[i] = k[i]}
  <1>1. 0 \in S
    BY DEF IsPath
  <1>2. ASSUME NEW i \in 1 .. h.chainsz, i - 1 \in S PROVE i \in S
    <2>1. i \in 0 .. h.chainsz /\ i # 0 /\ g[i - 1] = k[i - 1]
      BY <1>2
    <2>2. /\ g[i] = IF g[i - 1] = UNDEF \/ h.next[g[i - 1]] = UNDEF THEN UNDEF
                    ELSE Node(h, h.next[g[i - 1]])
          /\ k[i] = IF k[i - 1] = UNDEF \/ h.next[k[i - 1]] = UNDEF THEN UNDEF
                    ELSE Node(h, h.next[k[i - 1]])
      BY <2>1 DEF IsPath
    <2> QED  BY <2>1, <2>2
  <1> HIDE DEF S
  <1>3. 0 .. h.chainsz \subseteq S
    BY <1>1, <1>2, Upwards
  <1>4. \A i \in 0 .. h.chainsz : g[i] = k[i]
    BY <1>3 DEF S
  <1>5. /\ g = [i \in 0 .. h.chainsz |-> g[i]]
        /\ k = [i \in 0 .. h.chainsz |-> k[i]]
    BY Zenon DEF IsPath
  <1> QED  BY <1>4, <1>5

LEMMA PathIs ==
  ASSUME NEW h, h.chainsz \in Nat, NEW e, NEW g, IsPath(g, h, e)
  PROVE  Path(h, e) = g
  <1>1. Path(h, e) = CHOOSE k : IsPath(k, h, e)
    BY DEF Path, IsPath
  <1>2. IsPath(CHOOSE k : IsPath(k, h, e), h, e)
    OBVIOUS
  <1> QED  BY <1>1, <1>2, OnePath

\* The walk from a head meets the entries of its owner, place by place.
Meets(h, own, pos, e) ==
  /\ DOMAIN Path(h, e) = 0 .. h.chainsz
  /\ \A f \in Entries(h) : own[f] = own[e] => pos[f] \in 0 .. h.chainsz /\ Path(h, e)[pos[f]] = f
  /\ \A i \in 0 .. h.chainsz : Path(h, e)[i] # UNDEF =>
       Path(h, e)[i] \in Entries(h) /\ own[Path(h, e)[i]] = own[e] /\ pos[Path(h, e)[i]] = i

LEMMA PathMeets ==
  ASSUME NEW h, NEW own, NEW pos, Laid(h, own, pos), NEW e \in Entries(h), pos[e] = 0
  PROVE  Meets(h, own, pos, e)
  <1> DEFINE At(i) == {f \in Entries(h) : own[f] = own[e] /\ pos[f] = i}
             g == [i \in 0 .. h.chainsz |-> IF At(i) = {} THEN UNDEF ELSE CHOOSE f \in At(i) : TRUE]
  <1>1. h.chainsz \in Nat
    BY DEF Laid, Sized
  <1>2. \A f \in Entries(h) : own[f] = own[e] => pos[f] \in 0 .. h.chainsz
    BY PlacesBounded
  <1>3. \A f \in Entries(h) : f # UNDEF
    BY NodeIsEntry DEF Laid
  <1>4. \A i \in 0 .. h.chainsz : \A f \in At(i) : g[i] = f
    <2>1. \A i \in 0 .. h.chainsz : \A f, k \in At(i) : f = k
      BY DEF Laid, Placed
    <2> QED  BY <2>1
  <1>5. \A i \in 0 .. h.chainsz : g[i] # UNDEF => g[i] \in At(i)
    OBVIOUS
  <1>6. IsPath(g, h, e)
    <2>1. ASSUME NEW i \in 0 .. h.chainsz
          PROVE  g[i] = IF i = 0 THEN e
                        ELSE IF g[i - 1] = UNDEF \/ h.next[g[i - 1]] = UNDEF THEN UNDEF
                        ELSE Node(h, h.next[g[i - 1]])
      <3>1. CASE i = 0
        <4>1. e \in At(0)
          OBVIOUS
        <4> QED  BY <1>4, <3>1, <4>1
      <3>2. CASE i # 0
        <4>1. i - 1 \in 0 .. h.chainsz /\ i > 0
          BY <1>1, <3>2
        <4>2. CASE At(i) = {}
          <5>1. g[i] = UNDEF
            BY <4>2
          <5>2. ASSUME g[i - 1] # UNDEF, h.next[g[i - 1]] # UNDEF PROVE FALSE
            <6>1. g[i - 1] \in Entries(h) /\ own[g[i - 1]] = own[e] /\ pos[g[i - 1]] = i - 1
              BY <1>5, <4>1, <5>2
            <6> HIDE DEF g
            <6>2. /\ own[Node(h, h.next[g[i - 1]])] = own[e]
                  /\ pos[Node(h, h.next[g[i - 1]])] = i
              BY <4>1, <5>2, <6>1 DEF Laid, Linked
            <6>3. Node(h, h.next[g[i - 1]]) \in Entries(h)
              BY <5>2, <6>1, NodeIsEntry DEF Laid, Sized
            <6> QED  BY <4>2, <6>2, <6>3
          <5> QED  BY <3>2, <5>1, <5>2
        <4>3. CASE At(i) # {}
          <5>1. PICK f : f \in At(i)
            BY <4>3
          <5>2. PICK p \in Entries(h) : /\ own[p] = own[f] /\ pos[p] = pos[f] - 1
                                        /\ Node(h, h.next[p]) = f /\ h.next[p] # UNDEF
            BY <4>1, <5>1 DEF Laid, Linked
          <5>3. p \in At(i - 1)
            BY <5>1, <5>2
          <5>4. g[i - 1] = p /\ g[i] = f
            BY <1>4, <4>1, <5>1, <5>3
          <5> HIDE DEF g
          <5> QED  BY <1>3, <3>2, <5>2, <5>4
        <4> QED  BY <4>2, <4>3
      <3> QED  BY <3>1, <3>2
    <2>2. g = [i \in 0 .. h.chainsz |-> g[i]]
      OBVIOUS
    <2> HIDE DEF g
    <2> QED  BY <2>1, <2>2 DEF IsPath
  <1>7. DOMAIN g = 0 .. h.chainsz
    OBVIOUS
  <1> HIDE DEF g
  <1>8. Path(h, e) = g
    BY <1>1, <1>6, PathIs
  <1> QED  BY <1>2, <1>4, <1>5, <1>7, <1>8 DEF Meets

LEMMA OnPathIs ==
  ASSUME NEW h, NEW own, NEW pos, Laid(h, own, pos)
  PROVE  /\ \A b \in Buckets(h) : Meets(h, own, pos, b)
         /\ \A b \in Buckets(h) : OnPath(h, b) = {e \in Entries(h) : own[e] = b}
         /\ FreePath(h) = {e \in Entries(h) : own[e] = UNDEF}
  <1>1. \A e \in Entries(h) : e # UNDEF
    BY NodeIsEntry DEF Laid
  <1>2. ASSUME NEW e \in Entries(h), pos[e] = 0
        PROVE  OnPath(h, e) = {f \in Entries(h) : own[f] = own[e]}
    <2>1. Meets(h, own, pos, e)
      BY <1>2, PathMeets
    <2> QED  BY <1>1, <2>1 DEF Meets, OnPath
  <1>3. \A b \in Buckets(h) : b \in Entries(h) /\ own[b] = b /\ pos[b] = 0
    BY NodeIsEntry DEF Laid, Heads
  <1>4. \A b \in Buckets(h) : Meets(h, own, pos, b)
    BY <1>3, PathMeets
  <1>5. FreePath(h) = {e \in Entries(h) : own[e] = UNDEF}
    <2>1. CASE h.chain_head = UNDEF
      <3>1. ASSUME NEW e \in Entries(h), own[e] = UNDEF PROVE FALSE
        <4>1. pos[e] \in 0 .. h.chainsz
          BY PlacesBounded
        <4>2. PICK f \in Entries(h) : own[f] = own[e] /\ pos[f] = 0
          <5>1. 0 \in 0 .. pos[e]
            BY <4>1
          <5> QED  BY <5>1, PlacesBefore
        <4>3. f \notin Buckets(h)
          BY <1>1, <1>3, <3>1, <4>2
        <4> QED  BY <2>1, <4>2, <4>3 DEF Laid, Heads
      <3> QED  BY <2>1, <3>1 DEF FreePath
    <2>2. CASE h.chain_head # UNDEF
      <3> DEFINE n == Node(h, h.chain_head)
      <3>1. n \in Entries(h) /\ own[n] = UNDEF /\ pos[n] = 0
        BY <2>2, NodeIsEntry DEF Laid, Heads, Sized
      <3> HIDE DEF n
      <3>2. FreePath(h) = OnPath(h, n)
        BY <2>2 DEF FreePath, n
      <3> QED  BY <1>2, <3>1, <3>2
    <2> QED  BY <2>1, <2>2
  <1> QED  BY <1>2, <1>3, <1>4, <1>5

\* Every chain has one last entry.
LEMMA LastOne ==
  ASSUME NEW h, NEW own, NEW pos, Laid(h, own, pos), NEW e \in Entries(h)
  PROVE  /\ \E f \in Entries(h) : own[f] = own[e] /\ h.next[f] = UNDEF
         /\ h.next[e] = UNDEF => \A f \in Entries(h) : own[f] = own[e] => pos[f] <= pos[e]
  <1>0. pos \in [Entries(h) -> Nat] /\ h.chainsz \in Nat
    BY DEF Laid, Placed, Sized
  <1>1. \E f \in Entries(h) : own[f] = own[e] /\ h.next[f] = UNDEF
    <2> DEFINE S == {h.chainsz - pos[f] : f \in {x \in Entries(h) : own[x] = own[e]}}
    <2>1. S \subseteq Nat /\ S # {}
      <3>1. \A f \in Entries(h) : pos[f] \in 0 .. h.chainsz
        BY PlacesBounded
      <3> QED  BY <1>0, <3>1
    <2>2. PICK s \in S : \A t \in S : s <= t
      <3> HIDE DEF S
      <3> QED  BY <2>1, Least
    <2>3. PICK f \in Entries(h) : own[f] = own[e] /\ s = h.chainsz - pos[f]
      BY <2>2
    <2>4. ASSUME h.next[f] # UNDEF PROVE FALSE
      <3> DEFINE n == Node(h, h.next[f])
      <3>1. n \in Entries(h) /\ own[n] = own[f] /\ pos[n] = pos[f] + 1
        BY <2>4, NodeIsEntry DEF Laid, Linked, Sized
      <3> HIDE DEF n
      <3>2. h.chainsz - pos[n] \in S
        BY <2>3, <3>1
      <3>3. pos[f] \in Nat /\ s = h.chainsz - pos[f] /\ pos[n] = pos[f] + 1
        BY <1>0, <2>3, <3>1
      <3>4. s <= h.chainsz - pos[n]
        BY <2>2, <3>2
      <3> QED  BY ONLY <1>0, <3>3, <3>4
    <2> QED  BY <2>3, <2>4
  <1>2. ASSUME h.next[e] = UNDEF, NEW f \in Entries(h), own[f] = own[e], pos[f] > pos[e]
        PROVE  FALSE
    <2>1. pos[e] + 1 \in 0 .. pos[f]
      BY <1>0, <1>2
    <2>2. PICK x \in Entries(h) : own[x] = own[f] /\ pos[x] = pos[e] + 1
      BY <2>1, PlacesBefore
    <2>3. pos[x] > 0
      BY <1>0, <2>2
    <2>4. PICK p \in Entries(h) : own[p] = own[x] /\ pos[p] = pos[x] - 1 /\ h.next[p] # UNDEF
      BY <2>3 DEF Laid, Linked
    <2>5. pos[p] = pos[e]
      BY <1>0, <2>2, <2>4
    <2>6. p = e
      BY <1>2, <2>2, <2>4, <2>5 DEF Laid, Placed
    <2> QED  BY <1>2, <2>4, <2>6
  <1>3. \A f \in Entries(h) : ~(pos[f] > pos[e]) => pos[f] <= pos[e]
    BY <1>0
  <1> QED  BY <1>1, <1>2, <1>3

LEMMA LaidIsSound ==
  ASSUME NEW h, NEW own, NEW pos, Laid(h, own, pos)
  PROVE  LinksSound(h)
  <1>1. /\ \A b \in Buckets(h) : OnPath(h, b) = {e \in Entries(h) : own[e] = b}
        /\ FreePath(h) = {e \in Entries(h) : own[e] = UNDEF}
    BY OnPathIs
  <1>2. \A b \in Buckets(h) : b \in Entries(h) /\ own[b] = b /\ b # UNDEF
    BY NodeIsEntry DEF Laid, Heads
  <1>3. (UNION {OnPath(h, b) : b \in Buckets(h)}) \cup FreePath(h) = Entries(h)
    <2>1. \A e \in Entries(h) : own[e] \in Buckets(h) \/ own[e] = UNDEF
      BY DEF Laid, Placed
    <2>2. \A e \in Entries(h) : (\E b \in Buckets(h) : e \in OnPath(h, b)) \/ e \in FreePath(h)
      BY <1>1, <2>1
    <2>3. \A b \in Buckets(h) : OnPath(h, b) \subseteq Entries(h)
      BY <1>1
    <2>4. FreePath(h) \subseteq Entries(h)
      BY <1>1
    <2> DEFINE all == UNION {OnPath(h, b) : b \in Buckets(h)}
    <2>5. \A e : e \in all <=> \E b \in Buckets(h) : e \in OnPath(h, b)
      OBVIOUS
    <2> HIDE DEF all
    <2>6. all \cup FreePath(h) = Entries(h)
      BY ONLY <2>2, <2>3, <2>4, <2>5
    <2> QED  BY <2>6 DEF all
  <1>4. \A e \in Entries(h) : \E f \in Entries(h) : own[f] = own[e] /\ h.next[f] = UNDEF
    BY LastOne
  <1>5. \A b \in Buckets(h) : /\ \E e \in OnPath(h, b) : h.next[e] = UNDEF
                              /\ OnPath(h, b) \cap FreePath(h) = {}
    BY <1>1, <1>2, <1>4
  <1>6. FreePath(h) # {} => \E e \in FreePath(h) : h.next[e] = UNDEF
    BY <1>1, <1>4
  <1>7. \A a, b \in Buckets(h) : a # b => OnPath(h, a) \cap OnPath(h, b) = {}
    BY <1>1
  <1> QED  BY <1>3, <1>5, <1>6, <1>7 DEF LinksSound

\* The entry an overflow node is linked from.
LEMMA PrevOne ==
  ASSUME NEW h, NEW own, NEW pos, Laid(h, own, pos), NEW p \in Entries(h), NEW q \in Entries(h),
         h.next[p] # UNDEF, h.next[p] = h.next[q]
  PROVE  p = q
  <1>1. own[p] = own[q] /\ pos[p] + 1 = pos[q] + 1 /\ pos[p] \in Nat /\ pos[q] \in Nat
    BY DEF Laid, Linked, Placed
  <1>2. pos[p] = pos[q]
    BY <1>1
  <1> QED  BY <1>1, <1>2 DEF Laid, Placed

-----------------------------------------------------------------------------
(* Keys.                                                                   *)

\* Every key is on the chain of its bucket and nowhere else.  Only the free
\* list, and buckets with no chain, have entries without a key.
Keyed(h, own, K) ==
  /\ UNDEF \notin K /\ h.key \in [Entries(h) -> K \cup {UNDEF}]
  /\ \A k \in K : Bucket(h, k) \in Buckets(h)
  /\ \A e \in Entries(h) : own[e] = UNDEF => h.key[e] = UNDEF
  /\ \A e \in Entries(h) : own[e] # UNDEF /\ h.key[e] = UNDEF =>
       e \in Buckets(h) /\ h.next[e] = UNDEF
  /\ \A e \in Entries(h) : h.key[e] # UNDEF => own[e] = Bucket(h, h.key[e])
  /\ \A e, f \in Entries(h) : h.key[e] = h.key[f] /\ h.key[e] # UNDEF => e = f

LEMMA KeyedIsSound ==
  ASSUME NEW h, NEW own, NEW pos, NEW K, Laid(h, own, pos), Keyed(h, own, K)
  PROVE  KeysSound(h)
  <1>1. /\ \A b \in Buckets(h) : OnPath(h, b) = {e \in Entries(h) : own[e] = b}
        /\ FreePath(h) = {e \in Entries(h) : own[e] = UNDEF}
    BY OnPathIs
  <1>2. \A b \in Buckets(h) : b \in Entries(h) /\ own[b] = b /\ b # UNDEF
    BY NodeIsEntry DEF Laid, Heads
  <1>3. ASSUME NEW b \in Buckets(h), ~(h.key[b] = UNDEF /\ h.next[b] = UNDEF),
               NEW e \in Entries(h), own[e] = b
        PROVE  h.key[e] # UNDEF /\ Bucket(h, h.key[e]) = b
    <2>1. h.key[b] # UNDEF
      BY <1>2, <1>3 DEF Keyed
    <2>2. h.key[e] # UNDEF
      <3>1. CASE e \in Buckets(h)
        BY <1>2, <1>3, <2>1, <3>1
      <3>2. CASE e \notin Buckets(h)
        BY <1>2, <1>3, <3>2 DEF Keyed
      <3> QED  BY <3>1, <3>2
    <2> QED  BY <1>3, <2>2 DEF Keyed
  <1>4. \A b \in Buckets(h) :
          \/ h.key[b] = UNDEF /\ h.next[b] = UNDEF
          \/ \A e \in OnPath(h, b) : h.key[e] # UNDEF /\ Bucket(h, h.key[e]) = b
    BY <1>1, <1>3
  <1>5. \A e \in FreePath(h) : h.key[e] = UNDEF
    BY <1>1 DEF Keyed
  <1>6. \A e, f \in Entries(h) : h.key[e] = h.key[f] /\ h.key[e] # UNDEF => e = f
    BY DEF Keyed
  <1> QED  BY <1>4, <1>5, <1>6 DEF KeysSound

\* ihash_get finds the one entry that has the key.
LEMMA GetIs ==
  ASSUME NEW h, NEW own, NEW pos, NEW K, Laid(h, own, pos), Keyed(h, own, K), NEW k \in K
  PROVE  /\ ihash_get(h, k) \in Entries(h) \cup {UNDEF}
         /\ ihash_get(h, k) # UNDEF => h.key[ihash_get(h, k)] = k
         /\ \A e \in Entries(h) : h.key[e] = k => ihash_get(h, k) = e
  <1> DEFINE b == Bucket(h, k)
             p == Path(h, b)
             hit(i) == p[i] # UNDEF /\ h.key[p[i]] = k
             Hit(i) == hit(i) /\ \A j \in 0 .. i - 1 : ~hit(j)
             g == ihash_get(h, k)
  <1>1. b \in Buckets(h) /\ k # UNDEF
    BY DEF Keyed
  <1>2. Meets(h, own, pos, b) /\ b \in Entries(h) /\ own[b] = b /\ pos[b] = 0
    BY <1>1, OnPathIs, NodeIsEntry DEF Laid, Heads
  <1>3. p[0] = b /\ UNDEF \notin Entries(h) /\ DOMAIN p = 0 .. h.chainsz /\ h.chainsz \in Nat
    BY <1>2, NodeIsEntry DEF Meets, Laid, Sized
  <1>4. g = IF h.key[p[0]] # UNDEF /\ \E i \in DOMAIN p : hit(i)
            THEN p[CHOOSE i \in DOMAIN p : Hit(i)] ELSE UNDEF
    BY DEF ihash_get
  <1>5. \A i \in DOMAIN p : p[i] # UNDEF => p[i] \in Entries(h) /\ pos[p[i]] = i
    BY <1>2, <1>3 DEF Meets
  <1>6. \A e \in Entries(h) : h.key[e] = k => pos[e] \in DOMAIN p /\ p[pos[e]] = e
    BY <1>1, <1>2, <1>3 DEF Meets, Keyed
  <1> HIDE DEF g, p, b
  <1>7. CASE \E e \in Entries(h) : h.key[e] = k
    <2>1. PICK e \in Entries(h) : h.key[e] = k
      BY <1>7
    <2>2. \A f \in Entries(h) : h.key[f] = k => f = e
      BY <1>1, <2>1 DEF Keyed
    <2>3. pos[e] \in DOMAIN p /\ p[pos[e]] = e /\ e # UNDEF
      BY <1>3, <1>6, <2>1
    <2>4. \A i \in DOMAIN p : hit(i) => i = pos[e]
      BY <1>5, <2>2
    <2>5. hit(pos[e])
      BY <2>1, <2>3
    <2>6. \A j \in 0 .. pos[e] - 1 : j \in DOMAIN p /\ j # pos[e]
      BY <1>3, <2>3
    <2>7. Hit(pos[e])
      BY <2>4, <2>5, <2>6
    <2>8. \A i \in DOMAIN p : Hit(i) => i = pos[e]
      BY <2>4
    <2>9. h.key[p[0]] # UNDEF
      <3>1. own[e] = b
        BY <1>1, <2>1 DEF Keyed, b
      <3>2. ASSUME h.key[b] = UNDEF PROVE FALSE
        <4>1. b \in Entries(h) /\ own[b] # UNDEF /\ h.next[b] = UNDEF
          BY <1>2, <1>3, <3>2 DEF Keyed
        <4>2. e \in Entries(h) /\ own[e] = own[b] /\ e # b
          BY <1>1, <1>2, <2>1, <3>1, <3>2
        <4>3. pos[e] <= pos[b] /\ pos[e] \in Nat
          BY <4>1, <4>2, LastOne DEF Laid, Placed
        <4>4. pos[e] = pos[b]
          BY <1>2, <4>3
        <4> QED  BY <4>1, <4>2, <4>4 DEF Laid, Placed
      <3> QED  BY <1>3, <3>2
    <2> HIDE DEF Hit
    <2>10. g = p[CHOOSE i \in DOMAIN p : Hit(i)]
      BY <1>4, <2>3, <2>5, <2>9
    <2>11. (CHOOSE i \in DOMAIN p : Hit(i)) = pos[e]
      BY <2>3, <2>7, <2>8
    <2>12. g = e
      BY <2>3, <2>10, <2>11
    <2> QED  BY <2>1, <2>2, <2>12 DEF g
  <1>8. CASE ~ \E e \in Entries(h) : h.key[e] = k
    <2>1. g = UNDEF
      BY <1>4, <1>5, <1>8
    <2> QED  BY <1>8, <2>1 DEF g
  <1> QED  BY <1>7, <1>8

-----------------------------------------------------------------------------
(* ihash_clear.                                                            *)

\* t is h emptied, with hash function fn.
Cleared(h, t, fn, b, c, K, V) ==
  /\ t \in HashType(b, c, K, V, {fn})
  /\ t.val = h.val
  /\ \A e \in Entries(h) : t.key[e] = UNDEF
  /\ \E own, pos : Laid(t, own, pos) /\ Keyed(t, own, K)

\* Memory for a table, whatever it holds.
Allotted(b, c, V, F, C, X, N) ==
  [bucketsz : {b}, chainsz : {c}, hash_fn : F, chain_head : C,
   key : X, next : N, val : [0 .. b + c - 1 -> V]]

LEMMA ClearLaid ==
  ASSUME NEW b \in Nat \ {0}, NEW c \in Nat, NEW K, UNDEF \notin K, NEW V, NEW fn \in [K -> Nat],
         NEW F, NEW C, NEW X, NEW N, NEW h, h \in Allotted(b, c, V, F, C, X, N)
  PROVE  Cleared(h, ihash_clear(h, fn), fn, b, c, K, V)
  <1> DEFINE t == ihash_clear(h, fn)
             own == [e \in Entries(h) |-> IF e \in Buckets(h) THEN e ELSE UNDEF]
             pos == [e \in Entries(h) |-> IF e \in Buckets(h) THEN 0 ELSE e - b]
  <1>0. h \in [bucketsz : {b}, chainsz : {c}, hash_fn : F, chain_head : C,
               key : X, next : N, val : [0 .. b + c - 1 -> V]]
    BY DEF Allotted
  <1>1. Entries(h) = 0 .. b + c - 1 /\ Buckets(h) = 0 .. b - 1
    BY <1>0 DEF Entries, Buckets
  <1>2. /\ t.bucketsz = b /\ t.chainsz = c /\ t.hash_fn = fn /\ t.val = h.val
        /\ t.chain_head = IF c > 0 THEN 0 ELSE UNDEF
        /\ t.key = [e \in Entries(h) |-> UNDEF]
        /\ t.next = [e \in Entries(h) |->
                       IF e \in Buckets(h) \/ e = b + c - 1 THEN UNDEF ELSE e + 1 - b]
    BY <1>0 DEF ihash_clear
  <1>3. \A e \in Entries(h) : (IF e \in Buckets(h) \/ e = b + c - 1 THEN UNDEF ELSE e + 1 - b)
                                \in UNDEF .. c - 1
    BY <1>1 DEF UNDEF
  <1>4. /\ t.next \in [Entries(h) -> UNDEF .. c - 1] /\ t.chain_head \in UNDEF .. c - 1
        /\ t.key \in [Entries(h) -> K \cup {UNDEF}]
    BY <1>2, <1>3 DEF UNDEF
  <1>17. h.bucketsz = b /\ h.chainsz = c
    BY <1>0
  <1>18. /\ \A e \in Entries(h) : (IF e \in Buckets(h) \/ e = b + c - 1 THEN UNDEF ELSE e + 1 - b) \in UNDEF .. c - 1
         /\ (IF c > 0 THEN 0 ELSE UNDEF) \in UNDEF .. c - 1
    BY <1>3 DEF UNDEF
  <1>5. t \in HashType(b, c, K, V, {fn})
    <2>1. /\ [e \in Entries(h) |-> UNDEF] \in [0 .. b + c - 1 -> K \cup {UNDEF}]
          /\ [e \in Entries(h) |-> IF e \in Buckets(h) \/ e = h.bucketsz + h.chainsz - 1
                                  THEN UNDEF ELSE e + 1 - h.bucketsz]
               \in [0 .. b + c - 1 -> UNDEF .. c - 1]
          /\ (IF h.chainsz > 0 THEN 0 ELSE UNDEF) \in UNDEF .. c - 1
      BY <1>0, <1>1, <1>17, <1>18
    <2> QED  BY <1>0, <2>1 DEF HashType, ihash_clear
  <1> HIDE DEF t
  <1>6. Entries(t) = Entries(h) /\ Buckets(t) = Buckets(h) /\ \A x : Node(t, x) = b + x
    BY <1>0, <1>2 DEF Entries, Buckets, Node
  <1>7. /\ \A e \in Entries(h) : own[e] = IF e \in Buckets(h) THEN e ELSE UNDEF
        /\ \A e \in Entries(h) : pos[e] = IF e \in Buckets(h) THEN 0 ELSE e - b
        /\ own \in [Entries(h) -> Buckets(h) \cup {UNDEF}]
    OBVIOUS
  <1>8. pos \in [Entries(h) -> Nat]
    BY <1>1
  <1> HIDE DEF own, pos
  <1>15. \A e \in Entries(h) :
           t.next[e] = IF e \in Buckets(h) \/ e = b + c - 1 THEN UNDEF ELSE e + 1 - b
    BY <1>2
  <1>9. Sized(t)
    BY <1>2, <1>4, <1>6 DEF Sized
  <1>16. \A e, f \in Entries(h) : own[e] = own[f] /\ pos[e] = pos[f] => e = f
    <2> SUFFICES ASSUME NEW e \in Entries(h), NEW f \in Entries(h), own[e] = own[f], pos[e] = pos[f]
                 PROVE  e = f
      OBVIOUS
    <2>1. UNDEF \notin Buckets(h)
      BY <1>1 DEF UNDEF
    <2>2. CASE e \in Buckets(h)
      BY <1>7, <2>1, <2>2
    <2>3. CASE e \notin Buckets(h)
      <3>1. f \notin Buckets(h)
        BY <1>7, <2>1, <2>3
      <3>2. e - b = f - b
        BY <1>7, <2>3, <3>1
      <3> QED  BY <1>1, <3>2
    <2> QED  BY <2>2, <2>3
  <1>10. Placed(t, own, pos)
    BY <1>6, <1>7, <1>8, <1>16 DEF Placed
  <1>11. Heads(t, own, pos)
    BY <1>1, <1>2, <1>6, <1>7 DEF Heads, UNDEF
  <1>12. Linked(t, own, pos)
    <2>1. ASSUME NEW e \in Entries(h), t.next[e] # UNDEF
          PROVE  /\ own[b + t.next[e]] = own[e]
                 /\ pos[b + t.next[e]] = pos[e] + 1
      <3>1. e \notin Buckets(h) /\ b + t.next[e] = e + 1 /\ e + 1 \in Entries(h) \ Buckets(h)
        BY <1>1, <1>15, <2>1
      <3> QED  BY <1>1, <1>7, <3>1
    <2>2. ASSUME NEW e \in Entries(h), pos[e] > 0
          PROVE  \E p \in Entries(h) : /\ own[p] = own[e] /\ pos[p] = pos[e] - 1
                                       /\ b + t.next[p] = e /\ t.next[p] # UNDEF
      <3>1. e \in 0 .. b + c - 1 /\ e \notin Buckets(h) /\ pos[e] = e - b /\ e - b > 0
        BY <1>1, <1>7, <2>2
      <3>2. e - 1 \in Entries(h) /\ e - 1 \notin Buckets(h) /\ e - 1 # b + c - 1
        BY <1>1, <3>1
      <3>3. t.next[e - 1] = e - b /\ e - b # UNDEF /\ pos[e - 1] = e - 1 - b
        BY <1>7, <1>15, <3>1, <3>2 DEF UNDEF
      <3>4. own[e - 1] = UNDEF /\ own[e] = UNDEF
        BY <1>7, <3>1, <3>2
      <3>5. pos[e - 1] = pos[e] - 1 /\ b + t.next[e - 1] = e
        BY <3>1, <3>3
      <3> QED  BY <3>2, <3>3, <3>4, <3>5
    <2> QED  BY <1>6, <2>1, <2>2 DEF Linked
  <1>13. Keyed(t, own, K)
    <2>1. \A k \in K : Bucket(t, k) \in Buckets(t)
      BY <1>1, <1>2, <1>6 DEF Bucket
    <2>2. \A e \in Buckets(t) : t.next[e] = UNDEF
      BY <1>1, <1>2, <1>6
    <2>3. \A e \in Entries(t) : t.key[e] = UNDEF
      BY <1>2, <1>6
    <2> QED  BY <1>4, <1>6, <1>7, <2>1, <2>2, <2>3 DEF Keyed
  <1>14. Laid(t, own, pos)
    BY <1>9, <1>10, <1>11, <1>12 DEF Laid
  <1> HIDE DEF own, pos, t
  <1> QED  BY <1>1, <1>2, <1>5, <1>13, <1>14 DEF Cleared, t

-----------------------------------------------------------------------------
(* The surgery of the links.                                               *)

\* The first free node goes to the end of a chain.
\* t is h, and own1 is own, after its first free node x was linked behind last.
Longer(h, own, last, x, t, own1) ==
  /\ last \in Entries(h) /\ own[last] # UNDEF /\ h.next[last] = UNDEF
  /\ h.chain_head # UNDEF /\ x = Node(h, h.chain_head)
  /\ t.bucketsz = h.bucketsz /\ t.chainsz = h.chainsz /\ t.chain_head = h.next[x]
  /\ t.next = [e \in Entries(h) |-> IF e = x THEN UNDEF
                                    ELSE IF e = last THEN h.chain_head ELSE h.next[e]]
  /\ own1 = [e \in Entries(h) |-> IF e = x THEN own[last] ELSE own[e]]

LEMMA LaidLonger ==
  ASSUME NEW h, NEW own, NEW pos, Laid(h, own, pos), NEW last, NEW x, NEW t, NEW own1,
         Longer(h, own, last, x, t, own1)
  PROVE  \E pos1 : Laid(t, own1, pos1)
  <1> DEFINE b == own[last]
             pos1 == [e \in Entries(h) |-> IF e = x THEN pos[last] + 1
                                           ELSE IF own[e] = UNDEF THEN pos[e] - 1 ELSE pos[e]]
             E == Entries(h)
             nd(c) == Node(h, c)
  <1>0. /\ b \in Buckets(h) /\ last \in E /\ h.next[last] = UNDEF /\ nd(h.chain_head) = x
        /\ h.chain_head # UNDEF /\ t.chain_head = h.next[x] /\ own[last] = b
    BY DEF Longer, Laid, Placed
  <1>1. x \in E /\ x \notin Buckets(h) /\ own[x] = UNDEF /\ pos[x] = 0 /\ x # last /\ b # UNDEF
    BY <1>0, NodeIsEntry DEF Laid, Heads, Sized, Longer
  <1>2. \A e \in E : pos[e] \in Nat /\ own[e] \in Buckets(h) \cup {UNDEF}
    BY DEF Laid, Placed
  <1>3. \A e \in E : own[e] = UNDEF /\ pos[e] = 0 => e = x
    BY <1>1 DEF Laid, Placed
  <1>4. /\ own1[x] = b /\ pos1[x] = pos[last] + 1
        /\ \A e \in E : e # x => own1[e] = own[e]
        /\ \A e \in E : e # x /\ own[e] = UNDEF => pos1[e] = pos[e] - 1
        /\ \A e \in E : e # x /\ own[e] # UNDEF => pos1[e] = pos[e]
    BY <1>1 DEF Longer
  <1>5. \A e \in E : own[e] = b => pos[e] <= pos[last]
    BY <1>0, LastOne
  <1>6. own1 \in [E -> Buckets(h) \cup {UNDEF}] /\ pos1 \in [E -> Nat]
    <2>1. \A e \in E : IF e = x THEN TRUE ELSE own[e] = UNDEF => pos[e] - 1 \in Nat
      BY <1>2, <1>3
    <2> QED  BY <1>0, <1>2, <2>1 DEF Longer
  <1>13. \A e \in E : pos1[e] \in Nat
    BY <1>6
  <1>7. /\ Entries(t) = E /\ Buckets(t) = Buckets(h) /\ \A c : Node(t, c) = nd(c)
        /\ \A e \in E : t.next[e] = IF e = x THEN UNDEF
                                    ELSE IF e = last THEN h.chain_head ELSE h.next[e]
    BY DEF Longer, Entries, Buckets, Node
  <1>8. /\ \A e \in E : h.next[e] # UNDEF => /\ nd(h.next[e]) \in E /\ own[nd(h.next[e])] = own[e]
                                             /\ pos[nd(h.next[e])] = pos[e] + 1
        /\ \A e \in E : pos[e] > 0 => \E p \in E : /\ own[p] = own[e] /\ pos[p] = pos[e] - 1
                                                   /\ nd(h.next[p]) = e /\ h.next[p] # UNDEF
        /\ \A e, f \in E : own[e] = own[f] /\ pos[e] = pos[f] => e = f
        /\ \A a \in Buckets(h) : a \in E /\ own[a] = a /\ pos[a] = 0 /\ a # UNDEF
        /\ \A e \in E \ Buckets(h) : pos[e] = 0 => e = x
    BY <1>0, NodeIsEntry DEF Laid, Linked, Placed, Heads, Sized, Longer
  <1> HIDE DEF E, nd, pos1, b
  <1>9. Sized(t)
    <2>1. h.next[x] \in UNDEF .. h.chainsz - 1 /\ h.chain_head \in UNDEF .. h.chainsz - 1
      BY <1>1 DEF Laid, Sized, E, Longer
    <2>2. t.next \in [E -> UNDEF .. h.chainsz - 1]
      <3>1. UNDEF \in UNDEF .. h.chainsz - 1
        BY DEF Laid, Sized, UNDEF
      <3> QED  BY <2>1, <3>1 DEF Laid, Sized, E, Longer
    <2> QED  BY <1>7, <2>1, <2>2 DEF Laid, Sized, Longer
  <1>10. Placed(t, own1, pos1)
    <2>1. ASSUME NEW e \in E, NEW f \in E, own1[e] = own1[f], pos1[e] = pos1[f] PROVE e = f
      <3>1. CASE e = x /\ f # x
        BY <1>0, <1>1, <1>2, <1>13, <1>4, <1>5, <2>1, <3>1
      <3>2. CASE e # x /\ f = x
        BY <1>0, <1>1, <1>2, <1>13, <1>4, <1>5, <2>1, <3>2
      <3>3. CASE e # x /\ f # x
        <4>1. own[e] = own[f]
          BY <1>4, <2>1, <3>3
        <4>2. pos[e] = pos[f]
          BY <1>0, <1>2, <1>13, <1>4, <2>1, <3>3, <4>1
        <4> QED  BY <1>8, <4>1, <4>2
      <3> QED  BY <3>1, <3>2, <3>3
    <2> QED  BY <1>6, <1>7, <2>1 DEF Placed
  <1>11. Heads(t, own1, pos1)
    <2>1. \A a \in Buckets(h) : own1[a] = a /\ pos1[a] = 0
      BY <1>0, <1>1, <1>4, <1>8
    <2>2. h.next[x] # UNDEF => own1[nd(h.next[x])] = UNDEF /\ pos1[nd(h.next[x])] = 0
      BY <1>0, <1>1, <1>4, <1>8
    <2>3. ASSUME NEW e \in E \ Buckets(h), pos1[e] = 0
          PROVE  h.next[x] # UNDEF /\ e = nd(h.next[x])
      <3>1. e # x
        BY <1>0, <1>2, <1>13, <1>4, <2>3
      <3>2. own[e] = UNDEF /\ pos[e] = 1
        BY <1>0, <1>2, <1>13, <1>4, <1>8, <2>3, <3>1
      <3>3. PICK p \in E : own[p] = own[e] /\ pos[p] = 0 /\ nd(h.next[p]) = e /\ h.next[p] # UNDEF
        BY <1>8, <3>2
      <3> QED  BY <1>3, <3>2, <3>3
    <2> QED  BY <1>0, <1>7, <2>1, <2>2, <2>3 DEF Heads
  <1>12. Linked(t, own1, pos1)
    <2>1. ASSUME NEW e \in E, t.next[e] # UNDEF
          PROVE  own1[nd(t.next[e])] = own1[e] /\ pos1[nd(t.next[e])] = pos1[e] + 1
      <3>1. CASE e = last
        <4>1. nd(t.next[e]) = x
          BY <1>0, <1>1, <1>7, <3>1
        <4> QED  BY <1>0, <1>1, <1>4, <3>1, <4>1
      <3>2. CASE e # last
        <4>1. e # x /\ t.next[e] = h.next[e]
          BY <1>7, <2>1, <3>2
        <4>2. /\ nd(h.next[e]) \in E /\ own[nd(h.next[e])] = own[e]
              /\ pos[nd(h.next[e])] = pos[e] + 1
          BY <1>8, <2>1, <4>1
        <4>3. nd(h.next[e]) # x
          BY <1>1, <1>2, <4>2
        <4> QED  BY <1>0, <1>2, <1>13, <1>4, <4>1, <4>2, <4>3
      <3> QED  BY <3>1, <3>2
    <2>2. ASSUME NEW e \in E, pos1[e] > 0
          PROVE  \E p \in E : /\ own1[p] = own1[e] /\ pos1[p] = pos1[e] - 1
                              /\ nd(t.next[p]) = e /\ t.next[p] # UNDEF
      <3>1. CASE e = x
        <4>1. nd(t.next[last]) = x /\ t.next[last] # UNDEF
          BY <1>0, <1>1, <1>7
        <4>2. own1[last] = own1[e] /\ pos1[last] = pos1[e] - 1
          BY <1>0, <1>1, <1>2, <1>13, <1>4, <3>1
        <4> QED  BY <1>0, <3>1, <4>1, <4>2
      <3>2. CASE e # x
        <4>1. pos[e] > 0
          BY <1>0, <1>2, <1>13, <1>4, <2>2, <3>2
        <4>2. PICK p \in E : /\ own[p] = own[e] /\ pos[p] = pos[e] - 1
                             /\ nd(h.next[p]) = e /\ h.next[p] # UNDEF
          BY <1>8, <4>1
        <4>3. p # last
          BY <1>0, <4>2
        <4>4. p # x
          <5>1. own[e] = UNDEF => pos[e] # 1
            BY <1>0, <1>2, <1>13, <1>4, <2>2, <3>2
          <5> QED  BY <1>1, <1>2, <4>2, <5>1
        <4>5. t.next[p] = h.next[p]
          BY <1>7, <4>3, <4>4
        <4>6. own1[p] = own1[e] /\ pos1[p] = pos1[e] - 1
          BY <1>0, <1>2, <1>13, <1>4, <3>2, <4>2, <4>4
        <4> QED  BY <4>2, <4>5, <4>6
      <3> QED  BY <3>1, <3>2
    <2> QED  BY <1>7, <2>1, <2>2 DEF Linked
  <1> QED  BY <1>9, <1>10, <1>11, <1>12 DEF Laid


\* t is h, and own1 is own, after the node x behind q went to the free list.
Shorter(h, own, q, x, t, own1) ==
  /\ q \in Entries(h) /\ own[q] # UNDEF /\ h.next[q] # UNDEF /\ x = Node(h, h.next[q])
  /\ t.bucketsz = h.bucketsz /\ t.chainsz = h.chainsz /\ t.chain_head = h.next[q]
  /\ t.next = [e \in Entries(h) |-> IF e = x THEN h.chain_head
                                    ELSE IF e = q THEN h.next[x] ELSE h.next[e]]
  /\ own1 = [e \in Entries(h) |-> IF e = x THEN UNDEF ELSE own[e]]

LEMMA LaidShorter ==
  ASSUME NEW h, NEW own, NEW pos, Laid(h, own, pos), NEW q, NEW x, NEW t, NEW own1,
         Shorter(h, own, q, x, t, own1)
  PROVE  \E pos1 : Laid(t, own1, pos1)
  <1> DEFINE pos1 == [e \in Entries(h) |->
                        IF e = x THEN 0
                        ELSE IF own[e] = UNDEF THEN pos[e] + 1
                        ELSE IF own[e] = own[q] /\ pos[e] > pos[x] THEN pos[e] - 1 ELSE pos[e]]
             E == Entries(h)
             nd(c) == Node(h, c)
  <1>0. /\ q \in E /\ own[q] # UNDEF /\ nd(h.next[q]) = x /\ h.next[q] # UNDEF
        /\ t.chain_head = h.next[q]
    BY DEF Shorter
  <1>1. /\ x \in E /\ x \notin Buckets(h) /\ own[x] = own[q] /\ pos[x] = pos[q] + 1 /\ x # q
        /\ pos[q] \in Nat /\ pos[x] \in Nat
    BY <1>0, NodeIsEntry DEF Laid, Linked, Placed, Sized, Shorter
  <1>2. \A e \in E : pos[e] \in Nat /\ own[e] \in Buckets(h) \cup {UNDEF}
    BY DEF Laid, Placed
  <1>4. /\ own1[x] = UNDEF /\ pos1[x] = 0
        /\ \A e \in E : e # x => own1[e] = own[e]
        /\ \A e \in E : e # x /\ own[e] = UNDEF => pos1[e] = pos[e] + 1
        /\ \A e \in E : e # x /\ own[e] # UNDEF /\ own[e] = own[q] /\ pos[e] > pos[x] =>
             pos1[e] = pos[e] - 1
        /\ \A e \in E : e # x /\ own[e] # UNDEF /\ ~(own[e] = own[q] /\ pos[e] > pos[x]) =>
             pos1[e] = pos[e]
    BY <1>1 DEF Shorter
  <1>6. own1 \in [E -> Buckets(h) \cup {UNDEF}] /\ pos1 \in [E -> Nat]
    <2>1. \A e \in E : /\ pos[e] + 1 \in Nat
                       /\ pos[e] > pos[x] => pos[e] - 1 \in Nat
      BY <1>1, <1>2
    <2> QED  BY <1>0, <1>2, <2>1 DEF Shorter
  <1>13. \A e \in E : pos1[e] \in Nat
    BY <1>6
  <1>7. /\ Entries(t) = E /\ Buckets(t) = Buckets(h) /\ \A c : Node(t, c) = nd(c)
        /\ \A e \in E : t.next[e] = IF e = x THEN h.chain_head
                                    ELSE IF e = q THEN h.next[x] ELSE h.next[e]
    BY DEF Shorter, Entries, Buckets, Node
  <1>8. /\ \A e \in E : h.next[e] # UNDEF => /\ nd(h.next[e]) \in E /\ own[nd(h.next[e])] = own[e]
                                             /\ pos[nd(h.next[e])] = pos[e] + 1
        /\ \A e \in E : pos[e] > 0 => \E p \in E : /\ own[p] = own[e] /\ pos[p] = pos[e] - 1
                                                   /\ nd(h.next[p]) = e /\ h.next[p] # UNDEF
        /\ \A e, f \in E : own[e] = own[f] /\ pos[e] = pos[f] => e = f
        /\ \A a \in Buckets(h) : a \in E /\ own[a] = a /\ pos[a] = 0 /\ a # UNDEF
        /\ \A e \in E \ Buckets(h) : pos[e] = 0 => h.chain_head # UNDEF /\ e = nd(h.chain_head)
        /\ h.chain_head # UNDEF => /\ nd(h.chain_head) \in E /\ own[nd(h.chain_head)] = UNDEF
                                   /\ pos[nd(h.chain_head)] = 0
    BY NodeIsEntry DEF Laid, Linked, Placed, Heads, Sized
  <1>14. \A e, f \in E : own[e] = own[f] /\ pos[e] = pos[f] => e = f
    BY <1>8
  <1> HIDE DEF E, nd, pos1
  <1>9. Sized(t)
    <2>1. /\ h.next[x] \in UNDEF .. h.chainsz - 1 /\ h.next[q] \in UNDEF .. h.chainsz - 1
          /\ h.chain_head \in UNDEF .. h.chainsz - 1
      BY <1>0, <1>1 DEF Laid, Sized, E, Shorter
    <2>2. t.next \in [E -> UNDEF .. h.chainsz - 1]
      BY <2>1 DEF Laid, Sized, E, Shorter
    <2> QED  BY <1>7, <2>1, <2>2 DEF Laid, Sized, Shorter
  <1>10. Placed(t, own1, pos1)
    <2>1. ASSUME NEW e \in E, NEW f \in E, own1[e] = own1[f], pos1[e] = pos1[f], e # f PROVE FALSE
      <3>1. CASE e = x
        <4>1. f # x /\ own[f] = UNDEF
          BY <1>4, <2>1, <3>1
        <4>2. pos1[f] = pos[f] + 1 /\ pos1[e] = 0
          BY <1>4, <3>1, <4>1
        <4>3. pos[f] \in Nat
          BY <1>2
        <4> QED  BY ONLY <2>1, <4>2, <4>3
      <3>2. CASE f = x
        <4>1. e # x /\ own[e] = UNDEF
          BY <1>4, <2>1, <3>2
        <4>2. pos1[e] = pos[e] + 1 /\ pos1[f] = 0
          BY <1>4, <3>2, <4>1
        <4>3. pos[e] \in Nat /\ pos[e] + 1 = 0
          BY <1>2, <2>1, <4>2
        <4> QED  BY ONLY <4>3
      <3>3. CASE e # x /\ f # x
        <4>1. own[e] = own[f]
          BY <1>4, <2>1, <3>3
        <4>2. pos[e] # pos[f]
          BY <1>8, <2>1, <4>1
        <4>3. own[e] = own[q] => pos[e] # pos[x] /\ pos[f] # pos[x]
          BY <1>1, <1>14, <3>3, <4>1
        <4> QED  BY <1>1, <1>2, <1>13, <1>4, <2>1, <3>3, <4>1, <4>2, <4>3
      <3> QED  BY <3>1, <3>2, <3>3
    <2> QED  BY <1>6, <1>7, <2>1 DEF Placed
  <1>11. Heads(t, own1, pos1)
    <2>1. \A a \in Buckets(h) : own1[a] = a /\ pos1[a] = 0
      BY <1>1, <1>2, <1>13, <1>4, <1>8
    <2>2. own1[nd(h.next[q])] = UNDEF /\ pos1[nd(h.next[q])] = 0
      BY <1>1, <1>2, <1>13, <1>0, <1>4
    <2>3. ASSUME NEW e \in E \ Buckets(h), pos1[e] = 0, e # x PROVE FALSE
      <3>1. own[e] # UNDEF
        BY <1>2, <1>13, <1>4, <2>3
      <3>2. pos[e] # 0
        BY <1>8, <2>3, <3>1
      <3>3. own[e] = own[q] /\ pos[e] > pos[x] /\ pos[e] - 1 = 0
        BY <1>4, <2>3, <3>1, <3>2
      <3> QED  BY <1>1, <1>2, <3>3
    <2> QED  BY <1>0, <1>7, <2>1, <2>2, <2>3 DEF Heads
  <1>12. Linked(t, own1, pos1)
    <2>1. ASSUME NEW e \in E, t.next[e] # UNDEF
          PROVE  own1[nd(t.next[e])] = own1[e] /\ pos1[nd(t.next[e])] = pos1[e] + 1
      <3>1. CASE e = x
        <4>1. t.next[e] = h.chain_head /\ nd(h.chain_head) # x
          BY <1>1, <1>7, <1>8, <2>1, <3>1
        <4> QED  BY <1>1, <1>2, <1>13, <1>4, <1>8, <2>1, <3>1, <4>1
      <3>2. CASE e = q
        <4>1. t.next[e] = h.next[x]
          BY <1>1, <1>7, <3>2
        <4>2. /\ nd(h.next[x]) \in E /\ own[nd(h.next[x])] = own[q]
              /\ pos[nd(h.next[x])] = pos[q] + 2
          BY <1>1, <1>8, <2>1, <4>1
        <4>3. nd(h.next[x]) # x
          BY <1>1, <4>2
        <4>4. pos1[nd(h.next[x])] = pos[q] + 1
          <5>1. own[nd(h.next[x])] # UNDEF /\ pos[nd(h.next[x])] > pos[x]
            BY <1>0, <1>1, <4>2
          <5>2. pos1[nd(h.next[x])] = pos[nd(h.next[x])] - 1
            BY <1>4, <4>2, <4>3, <5>1
          <5> QED  BY <1>1, <4>2, <5>2
        <4>5. pos1[q] = pos[q] /\ own1[q] = own[q]
          BY <1>1, <1>2, <1>13, <1>0, <1>4
        <4> QED  BY <1>4, <3>2, <4>1, <4>2, <4>3, <4>4, <4>5
      <3>3. CASE e # x /\ e # q
        <4>1. t.next[e] = h.next[e]
          BY <1>7, <3>3
        <4>2. /\ nd(h.next[e]) \in E /\ own[nd(h.next[e])] = own[e]
              /\ pos[nd(h.next[e])] = pos[e] + 1
          BY <1>8, <2>1, <4>1
        <4>3. nd(h.next[e]) # x
          <5>1. ASSUME nd(h.next[e]) = x PROVE FALSE
            <6>1. own[e] = own[q] /\ pos[e] = pos[q]
              BY <1>1, <1>2, <4>2, <5>1
            <6> QED  BY <1>0, <1>8, <3>3, <6>1
          <5> QED  BY <5>1
        <4>4. own1[nd(h.next[e])] = own1[e]
          BY <1>4, <3>3, <4>2, <4>3
        <4>5. own[e] = own[q] => pos[e] # pos[x]
          BY <1>1, <1>8, <3>3
        <4>6. pos1[nd(h.next[e])] = pos1[e] + 1
          <5>1. own[e] = own[q] => pos[e] # pos[q]
            BY <1>0, <1>8, <3>3
          <5> QED  BY <1>1, <1>2, <1>13, <1>4, <3>3, <4>2, <4>3, <4>5, <5>1
        <4> QED  BY <4>1, <4>4, <4>6
      <3> QED  BY <3>1, <3>2, <3>3
    <2>2. ASSUME NEW e \in E, pos1[e] > 0
          PROVE  \E p \in E : /\ own1[p] = own1[e] /\ pos1[p] = pos1[e] - 1
                              /\ nd(t.next[p]) = e /\ t.next[p] # UNDEF
      <3>0. e # x
        BY <1>1, <1>4, <2>2
      <3>1. CASE pos[e] = 0
        <4>1. own[e] = UNDEF
          BY <1>1, <1>2, <1>13, <1>4, <2>2, <3>0, <3>1
        <4>2. e \notin Buckets(h)
          BY <1>8, <4>1
        <4>3. h.chain_head # UNDEF /\ e = nd(h.chain_head)
          BY <1>8, <3>1, <4>2
        <4>4. t.next[x] = h.chain_head
          BY <1>1, <1>7
        <4>5. own1[x] = own1[e] /\ pos1[x] = pos1[e] - 1
          BY <1>1, <1>2, <1>13, <1>4, <3>0, <3>1, <4>1
        <4> QED  BY <1>1, <4>3, <4>4, <4>5
      <3>2. CASE pos[e] > 0
        <4>1. PICK p \in E : /\ own[p] = own[e] /\ pos[p] = pos[e] - 1
                             /\ nd(h.next[p]) = e /\ h.next[p] # UNDEF
          BY <1>8, <3>2
        <4>2. p # q
          BY <1>0, <3>0, <4>1
        <4>3. CASE p = x
          <5>1. t.next[q] = h.next[x]
            BY <1>1, <1>0, <1>7
          <5>2. own[e] = own[q] /\ pos[e] = pos[q] + 2 /\ own[q] # UNDEF
            <6>1. own[e] = own[q] /\ pos[q] + 1 = pos[e] - 1
              BY <1>1, <4>1, <4>3
            <6>2. pos[e] \in Nat /\ pos[q] \in Nat
              BY <1>1, <1>2
            <6> QED  BY ONLY <1>0, <6>1, <6>2
          <5>3. own1[q] = own1[e] /\ pos1[q] = pos[q] /\ pos1[e] = pos[q] + 1
            BY <1>1, <1>2, <1>13, <1>0, <1>4, <3>0, <5>2
          <5>4. pos1[q] = pos1[e] - 1
            BY <1>1, <5>3
          <5> QED  BY <1>0, <4>1, <4>3, <5>1, <5>3, <5>4
        <4>4. CASE p # x
          <5>1. t.next[p] = h.next[p]
            BY <1>7, <4>2, <4>4
          <5>2. own[e] = own[q] => pos[e] # pos[x] /\ pos[p] # pos[x]
            BY <1>1, <1>8, <3>0, <4>1, <4>4
          <5>3. own1[p] = own1[e] /\ pos1[p] = pos1[e] - 1
            BY <1>1, <1>2, <1>13, <1>4, <3>0, <4>1, <4>4, <5>2
          <5> QED  BY <4>1, <5>1, <5>3
        <4> QED  BY <4>3, <4>4
      <3>3. pos[e] \in Nat
        BY <1>2
      <3> QED  BY <3>1, <3>2, <3>3
    <2> QED  BY <1>7, <2>1, <2>2 DEF Linked
  <1> QED  BY <1>9, <1>10, <1>11, <1>12 DEF Laid

-----------------------------------------------------------------------------
(* Touching a key.                                                         *)

\* The entries in use.
Used(h) == {e \in Entries(h) : h.key[e] # UNDEF}

IsTable(h, b, c, K, V, F) ==
  /\ b \in Nat \ {0} /\ c \in Nat /\ h \in HashType(b, c, K, V, F)
  /\ \E own, pos : Laid(h, own, pos) /\ Keyed(h, own, K)

\* The same table but for links, keys and values.
Resized(h, t) == t.bucketsz = h.bucketsz /\ t.chainsz = h.chainsz /\ t.hash_fn = h.hash_fn

LEMMA SameSizes ==
  ASSUME NEW h, NEW t, Resized(h, t)
  PROVE  /\ Entries(t) = Entries(h) /\ Buckets(t) = Buckets(h)
         /\ \A k : Bucket(t, k) = Bucket(h, k)
         /\ \A x : Node(t, x) = Node(h, x)
  BY DEF Resized, Entries, Buckets, Bucket, Node

LEMMA SameLinks ==
  ASSUME NEW h, NEW own, NEW pos, Laid(h, own, pos),
         NEW t, Resized(h, t), t.next = h.next, t.chain_head = h.chain_head
  PROVE  Laid(t, own, pos)
  <1>1. Sized(t)
    BY SameSizes DEF Resized, Laid, Sized
  <1>2. Placed(t, own, pos)
    BY SameSizes DEF Laid, Placed
  <1>3. Heads(t, own, pos)
    BY SameSizes DEF Laid, Heads
  <1>4. Linked(t, own, pos)
    BY SameSizes DEF Laid, Linked
  <1> QED  BY <1>1, <1>2, <1>3, <1>4 DEF Laid

LEMMA BucketEmpty ==
  ASSUME NEW h, NEW own, NEW pos, NEW K, Laid(h, own, pos), Keyed(h, own, K), NEW k \in K,
         h.key[Bucket(h, k)] = UNDEF
  PROVE  ihash_get(h, k) = UNDEF /\ h.next[Bucket(h, k)] = UNDEF
  <1> DEFINE b == Bucket(h, k)
  <1>1. b \in Buckets(h)
    BY DEF Keyed
  <1>2. Meets(h, own, pos, b) /\ b \in Entries(h) /\ own[b] = b /\ pos[b] = 0 /\ b # UNDEF
    BY <1>1, OnPathIs, NodeIsEntry DEF Laid, Heads
  <1> HIDE DEF b
  <1>3. Path(h, b)[0] = b
    BY <1>2 DEF Meets
  <1>4. ihash_get(h, k) = UNDEF
    BY <1>3 DEF ihash_get, b
  <1>5. h.next[b] = UNDEF
    BY <1>2 DEF Keyed, b
  <1> QED  BY <1>4, <1>5 DEF b

\* A key more, in an entry that had none.
LEMMA KeyedMore ==
  ASSUME NEW h, NEW own, NEW K, Keyed(h, own, K), NEW k \in K,
         NEW t, Resized(h, t), NEW e \in Entries(h), t.key = [h.key EXCEPT ![e] = k],
         NEW own1, own1[e] = Bucket(h, k), \A f \in Entries(h) : f # e => own1[f] = own[f],
         UNDEF \notin Buckets(h),
         \A f \in Entries(h) : h.key[f] # k,
         \A f \in Entries(h) : h.key[f] = UNDEF /\ own[f] # UNDEF /\ f # e => t.next[f] = UNDEF
  PROVE  Keyed(t, own1, K)
  <1>1. /\ Entries(t) = Entries(h) /\ Buckets(t) = Buckets(h)
        /\ \A j : Bucket(t, j) = Bucket(h, j)
    BY SameSizes
  <1>2. h.key \in [Entries(h) -> K \cup {UNDEF}] /\ k # UNDEF /\ Bucket(h, k) \in Buckets(h)
    BY DEF Keyed
  <1>3. t.key[e] = k /\ \A f \in Entries(h) : f # e => t.key[f] = h.key[f]
    BY <1>2
  <1>4. t.key \in [Entries(h) -> K \cup {UNDEF}]
    BY <1>2
  <1>5. own1[e] # UNDEF
    BY <1>2
  <1>6. \A f \in Entries(h) : own1[f] = UNDEF => t.key[f] = UNDEF
    BY <1>3, <1>5 DEF Keyed
  <1>7. \A f \in Entries(h) : own1[f] # UNDEF /\ t.key[f] = UNDEF =>
          f \in Buckets(h) /\ t.next[f] = UNDEF
    BY <1>2, <1>3 DEF Keyed
  <1>8. \A f \in Entries(h) : t.key[f] # UNDEF => own1[f] = Bucket(h, t.key[f])
    BY <1>3 DEF Keyed
  <1>9. \A f, g \in Entries(h) : t.key[f] = t.key[g] /\ t.key[f] # UNDEF => f = g
    BY <1>3 DEF Keyed
  <1> QED  BY <1>1, <1>4, <1>6, <1>7, <1>8, <1>9 DEF Keyed

Touches(h, t, e, k) ==
  /\ Resized(h, t) /\ t.val = h.val
  /\ e = UNDEF => /\ t = h /\ h.chain_head = UNDEF /\ ihash_get(h, k) = UNDEF
                  /\ h.key[Bucket(h, k)] # UNDEF
  /\ e # UNDEF => e \in Entries(h) /\ t.key = [h.key EXCEPT ![e] = k]
  /\ ihash_get(h, k) # UNDEF => e = ihash_get(h, k) /\ t = h
  /\ ihash_get(h, k) = UNDEF /\ e # UNDEF => h.key[e] = UNDEF

LEMMA TouchIs ==
  ASSUME NEW b, NEW c, NEW K, NEW V, NEW F, NEW h, IsTable(h, b, c, K, V, F), NEW k \in K
  PROVE  /\ Touches(h, ihash_touch(h, k), Touched(h, k), k)
         /\ IsTable(ihash_touch(h, k), b, c, K, V, F)
  <1> DEFINE a == Bucket(h, k)
             t == ihash_touch(h, k)
             g == ihash_get(h, k)
  <1>1. PICK own, pos : Laid(h, own, pos) /\ Keyed(h, own, K)
    BY DEF IsTable
  <1>2. /\ h.bucketsz = b /\ h.chainsz = c /\ h.hash_fn \in F /\ h.chain_head \in UNDEF .. c - 1
        /\ h.key \in [Entries(h) -> K \cup {UNDEF}] /\ h.next \in [Entries(h) -> UNDEF .. c - 1]
        /\ h.val \in [Entries(h) -> V] /\ UNDEF \in UNDEF .. c - 1 /\ Entries(h) = 0 .. b + c - 1
    <2>1. h.bucketsz = b /\ h.chainsz = c /\ b \in Nat /\ c \in Nat /\ h \in HashType(b, c, K, V, F)
      BY DEF IsTable, HashType
    <2>2. Entries(h) = 0 .. b + c - 1
      BY <2>1 DEF Entries
    <2>3. UNDEF \in UNDEF .. c - 1
      BY <2>1 DEF UNDEF
    <2> QED  BY <2>1, <2>2, <2>3 DEF HashType
  <1>3. a \in Buckets(h) /\ k # UNDEF /\ UNDEF \notin Buckets(h) /\ a \in Entries(h) /\ own[a] = a
    BY <1>1, NodeIsEntry DEF Keyed, Laid, Heads
  <1>4. /\ g \in Entries(h) \cup {UNDEF} /\ (g # UNDEF => h.key[g] = k)
        /\ \A e \in Entries(h) : h.key[e] = k => g = e
        /\ UNDEF \notin Entries(h)
    BY <1>1, GetIs, NodeIsEntry DEF Laid
  <1>5. CASE h.key[a] = UNDEF
    <2>1. g = UNDEF /\ h.next[a] = UNDEF
      BY <1>1, <1>5, BucketEmpty
    <2>2. t = [h EXCEPT !.key[a] = k, !.next[a] = UNDEF] /\ Touched(h, k) = a
      BY <1>5 DEF ihash_touch, Touched
    <2>3. [h.next EXCEPT ![a] = UNDEF] = h.next
      BY <1>2, <1>3, <2>1
    <2>4. t \in HashType(b, c, K, V, F)
      <3>1. [h.key EXCEPT ![a] = k] \in [Entries(h) -> K \cup {UNDEF}]
        BY <1>2, <1>3
      <3> HIDE DEF a, t
      <3> QED  BY <1>2, <2>2, <2>3, <3>1 DEF IsTable, HashType
    <2>5. /\ Resized(h, t) /\ t.val = h.val /\ t.key = [h.key EXCEPT ![a] = k]
          /\ t.next = h.next /\ t.chain_head = h.chain_head
      <3> HIDE DEF a, t
      <3> QED  BY <2>2, <2>3 DEF Resized, IsTable, HashType
    <2> HIDE DEF a, t, g
    <2>6. Laid(t, own, pos)
      BY <1>1, <2>5, SameLinks
    <2>7. Keyed(t, own, K)
      <3>1. \A f \in Entries(h) : h.key[f] # k
        BY <1>4, <2>1
      <3>2. \A f \in Entries(h) : h.key[f] = UNDEF /\ own[f] # UNDEF => t.next[f] = UNDEF
        BY <1>1, <2>5 DEF Keyed
      <3>3. own[a] = Bucket(h, k)
        BY <1>3 DEF a
      <3> QED  BY <1>1, <1>3, <2>5, <3>1, <3>2, <3>3, KeyedMore
    <2>8. Touches(h, t, a, k)
      BY <1>3, <1>4, <1>5, <2>1, <2>5 DEF Touches, g
    <2> QED  BY <2>2, <2>4, <2>6, <2>7, <2>8 DEF IsTable, t
  <1>6. CASE h.key[a] # UNDEF /\ g # UNDEF
    <2>1. t = h /\ Touched(h, k) = g
      BY <1>6 DEF ihash_touch, Touched
    <2>2. [h.key EXCEPT ![g] = k] = h.key
      BY <1>2, <1>4, <1>6
    <2> HIDE DEF t, g
    <2>3. Touches(h, t, g, k)
      BY <1>4, <1>6, <2>1, <2>2 DEF Touches, Resized, g
    <2> QED  BY <2>1, <2>3 DEF t
  <1>7. CASE h.key[a] # UNDEF /\ g = UNDEF /\ h.chain_head = UNDEF
    <2>1. t = h /\ Touched(h, k) = UNDEF
      BY <1>7 DEF ihash_touch, Touched
    <2>2. Touches(h, h, UNDEF, k)
      BY <1>7 DEF Touches, Resized
    <2> QED  BY <2>1, <2>2
  <1>8. CASE h.key[a] # UNDEF /\ g = UNDEF /\ h.chain_head # UNDEF
    <2> DEFINE x == Node(h, h.chain_head)
               last == LastOf(h, a)
               own1 == [e \in Entries(h) |-> IF e = x THEN own[last] ELSE own[e]]
               next1 == [e \in Entries(h) |-> IF e = x THEN UNDEF
                                              ELSE IF e = last THEN h.chain_head ELSE h.next[e]]
    <2>1. Touched(h, k) = x
      BY <1>8 DEF Touched
    <2>2. t = [h EXCEPT !.next[last] = h.chain_head, !.chain_head = h.next[x], !.key[x] = k,
                        !.next[x] = UNDEF]
      BY <1>8 DEF ihash_touch
    <2>3. last \in Entries(h) /\ own[last] = a /\ h.next[last] = UNDEF
      <3>1. OnPath(h, a) = {e \in Entries(h) : own[e] = a}
        BY <1>1, <1>3, OnPathIs
      <3>2. \E e \in OnPath(h, a) : h.next[e] = UNDEF
        BY <1>1, <1>3, <3>1, LastOne
      <3> QED  BY <3>1, <3>2 DEF LastOf
    <2>4. x \in Entries(h) /\ own[x] = UNDEF /\ h.key[x] = UNDEF
      BY <1>1, <1>8, NodeIsEntry DEF Laid, Sized, Heads, Keyed
    <2> HIDE DEF a, t, g, x, last
    <2>5. next1 \in [Entries(h) -> UNDEF .. c - 1] /\ h.next[x] \in UNDEF .. c - 1
      BY <1>2, <2>4
    <2>6. [[h.next EXCEPT ![last] = h.chain_head] EXCEPT ![x] = UNDEF] = next1
      BY <1>2, <2>3, <2>4
    <2>7. [h.key EXCEPT ![x] = k] \in [Entries(h) -> K \cup {UNDEF}]
      BY <1>2, <2>4
    <2> HIDE DEF next1, own1
    <2>8. t = [h EXCEPT !.next = next1, !.chain_head = h.next[x], !.key = [h.key EXCEPT ![x] = k]]
      BY <2>2, <2>6 DEF IsTable, HashType
    <2>9. t \in HashType(b, c, K, V, F)
      BY <1>2, <2>5, <2>7, <2>8 DEF IsTable, HashType
    <2>10. /\ Resized(h, t) /\ t.val = h.val /\ t.key = [h.key EXCEPT ![x] = k]
           /\ t.next = next1 /\ t.chain_head = h.next[x]
      BY <2>8 DEF Resized, IsTable, HashType
    <2>11. Longer(h, own, last, x, t, own1)
      BY <1>3, <1>8, <2>3, <2>10 DEF Longer, x, next1, own1, Resized
    <2>12. PICK pos1 : Laid(t, own1, pos1)
      BY <1>1, <2>11, LaidLonger
    <2>13. Keyed(t, own1, K)
      <3>1. \A f \in Entries(h) : h.key[f] # k
        BY <1>4, <1>8
      <3>2. own1[x] = Bucket(h, k) /\ \A f \in Entries(h) : f # x => own1[f] = own[f]
        BY <2>3, <2>4 DEF own1, a
      <3>3. ASSUME NEW f \in Entries(h), h.key[f] = UNDEF, own[f] # UNDEF, f # x
            PROVE  t.next[f] = UNDEF
        <4>1. f \in Buckets(h) /\ h.next[f] = UNDEF
          BY <1>1, <3>3 DEF Keyed
        <4>2. f # a
          BY <1>8, <3>3
        <4>3. own[f] = f
          BY <1>1, <4>1 DEF Laid, Heads
        <4>4. f # last
          BY <2>3, <4>2, <4>3
        <4> QED  BY <2>10, <3>3, <4>1, <4>4 DEF next1
      <3> QED  BY <1>1, <1>3, <2>4, <2>10, <3>1, <3>2, <3>3, KeyedMore
    <2>14. Touches(h, t, x, k)
      BY <1>4, <1>8, <2>4, <2>10 DEF Touches, g
    <2> QED  BY <2>1, <2>9, <2>12, <2>13, <2>14 DEF IsTable, t
  <1> QED  BY <1>5, <1>6, <1>7, <1>8

-----------------------------------------------------------------------------
(* Erasing a key.                                                          *)

\* t is h after entry x lost what it held; unless it is e itself that held the
\* key, e has it now.
Dropped(h, t, e, x) ==
  /\ e \in Entries(h) /\ x \in Entries(h)
  /\ t.key = [f \in Entries(h) |-> IF f = x THEN UNDEF
                                   ELSE IF f = e THEN h.key[x] ELSE h.key[f]]
  /\ t.val = [f \in Entries(h) |-> IF f = e THEN h.val[x] ELSE h.val[f]]
  /\ h.key[x] # UNDEF

\* A key less.  The entry x is free now, or a bucket that had no chain.
LEMMA KeyedLess ==
  ASSUME NEW h, NEW own, NEW K, Keyed(h, own, K), NEW t, Resized(h, t),
         NEW e, NEW x, Dropped(h, t, e, x), own[e] = own[x],
         NEW own1, \A f \in Entries(h) : f # x => own1[f] = own[f],
         own1[x] = UNDEF \/ (x \in Buckets(h) /\ own1[x] = own[x] /\ t.next[x] = UNDEF),
         \A f \in Entries(h) : h.key[f] = UNDEF /\ own[f] # UNDEF => t.next[f] = UNDEF
  PROVE  Keyed(t, own1, K)
  <1>1. /\ Entries(t) = Entries(h) /\ Buckets(t) = Buckets(h)
        /\ \A j : Bucket(t, j) = Bucket(h, j)
    BY SameSizes
  <1>2. h.key \in [Entries(h) -> K \cup {UNDEF}] /\ e \in Entries(h) /\ x \in Entries(h)
        /\ h.key[x] # UNDEF
    BY DEF Keyed, Dropped
  <1>3. /\ t.key[x] = UNDEF /\ (e # x => t.key[e] = h.key[x])
        /\ \A f \in Entries(h) : f # e /\ f # x => t.key[f] = h.key[f]
    BY <1>2 DEF Dropped
  <1>4. t.key \in [Entries(h) -> K \cup {UNDEF}]
    BY <1>2 DEF Dropped
  <1>5. /\ \A f \in Entries(h) : own[f] = UNDEF => h.key[f] = UNDEF
        /\ \A f \in Entries(h) : own[f] # UNDEF /\ h.key[f] = UNDEF =>
             f \in Buckets(h) /\ h.next[f] = UNDEF
        /\ \A f \in Entries(h) : h.key[f] # UNDEF => own[f] = Bucket(h, h.key[f])
        /\ \A f, g \in Entries(h) : h.key[f] = h.key[g] /\ h.key[f] # UNDEF => f = g
    BY DEF Keyed
  <1>6. \A f \in Entries(h) : own1[f] = UNDEF => t.key[f] = UNDEF
    BY <1>2, <1>3, <1>5
  <1>7. \A f \in Entries(h) : own1[f] # UNDEF /\ t.key[f] = UNDEF =>
          f \in Buckets(h) /\ t.next[f] = UNDEF
    BY <1>2, <1>3, <1>5
  <1>8. \A f \in Entries(h) : t.key[f] # UNDEF => own1[f] = Bucket(h, t.key[f])
    BY <1>2, <1>3, <1>5
  <1>9. \A f, g \in Entries(h) : t.key[f] = t.key[g] /\ t.key[f] # UNDEF => f = g
    BY <1>2, <1>3, <1>5
  <1>10. UNDEF \notin K /\ \A k \in K : Bucket(h, k) \in Buckets(h)
    BY DEF Keyed
  <1> QED  BY ONLY <1>1, <1>4, <1>6, <1>7, <1>8, <1>9, <1>10 DEF Keyed

Erases(h, t, k) ==
  /\ Resized(h, t)
  /\ ihash_get(h, k) = UNDEF => t = h
  /\ ihash_get(h, k) # UNDEF => \E x \in Entries(h) : Dropped(h, t, ihash_get(h, k), x)

\* A table from its parts.
LEMMA TableIs ==
  ASSUME NEW b, NEW c, NEW K, NEW V, NEW F, NEW h, IsTable(h, b, c, K, V, F)
  PROVE  /\ b \in Nat \ {0} /\ c \in Nat /\ Entries(h) = 0 .. b + c - 1 /\ UNDEF \in UNDEF .. c - 1
         /\ h.bucketsz = b /\ h.chainsz = c /\ h.hash_fn \in F /\ h.chain_head \in UNDEF .. c - 1
         /\ h.key \in [Entries(h) -> K \cup {UNDEF}] /\ h.next \in [Entries(h) -> UNDEF .. c - 1]
         /\ h.val \in [Entries(h) -> V]
  <1>1. h.bucketsz = b /\ h.chainsz = c /\ b \in Nat \ {0} /\ c \in Nat /\ h \in HashType(b, c, K, V, F)
    BY DEF IsTable, HashType
  <1>2. Entries(h) = 0 .. b + c - 1
    BY <1>1 DEF Entries
  <1>3. UNDEF \in UNDEF .. c - 1
    BY <1>1 DEF UNDEF
  <1> QED  BY <1>1, <1>2, <1>3 DEF HashType

LEMMA EraseIs ==
  ASSUME NEW b, NEW c, NEW K, NEW V, NEW F, NEW h, IsTable(h, b, c, K, V, F), NEW k \in K
  PROVE  /\ Erases(h, ihash_erase(h, k), k)
         /\ IsTable(ihash_erase(h, k), b, c, K, V, F)
  <1> DEFINE t == ihash_erase(h, k)
             e == ihash_get(h, k)
             E == Entries(h)
  <1>1. PICK own, pos : Laid(h, own, pos) /\ Keyed(h, own, K)
    BY DEF IsTable
  <1>2. /\ E = 0 .. b + c - 1 /\ UNDEF \in UNDEF .. c - 1
        /\ h.bucketsz = b /\ h.chainsz = c /\ h.hash_fn \in F /\ h.chain_head \in UNDEF .. c - 1
        /\ h.key \in [E -> K \cup {UNDEF}] /\ h.next \in [E -> UNDEF .. c - 1]
        /\ h.val \in [E -> V]
    BY TableIs
  <1>3. h \in HashType(b, c, K, V, F) /\ b \in Nat \ {0} /\ c \in Nat
    BY DEF IsTable
  <1>4. CASE e = UNDEF
    <2>1. t = h
      BY <1>4 DEF ihash_erase
    <2>2. Erases(h, t, k)
      BY <1>4, <2>1 DEF Erases, Resized
    <2> QED  BY <2>1, <2>2
  <1>5. CASE e # UNDEF
    <2>1. e \in E /\ h.key[e] = k /\ k # UNDEF /\ own[e] = Bucket(h, k) /\ own[e] # UNDEF
          /\ own[e] \in Buckets(h)
      <3>1. e \in E /\ h.key[e] = k /\ k # UNDEF
        BY <1>1, <1>5, GetIs DEF Keyed
      <3>2. own[e] = Bucket(h, k) /\ Bucket(h, k) \in Buckets(h)
        BY <1>1, <3>1 DEF Keyed
      <3> QED  BY <1>1, <3>1, <3>2, NodeIsEntry DEF Laid
    <2>2. \A f \in E : h.key[f] = UNDEF /\ own[f] # UNDEF => f \in Buckets(h) /\ h.next[f] = UNDEF
      BY <1>1 DEF Keyed
    <2>3. ASSUME NEW q, NEW x, own[q] # UNDEF, q \in E, x \in E \ Buckets(h), h.next[q] # UNDEF,
                 own[e] = own[x], h.key[x] # UNDEF, x = Node(h, h.next[q]),
                 t = [h EXCEPT !.key = [f \in E |-> IF f = x THEN UNDEF
                                                    ELSE IF f = e THEN h.key[x] ELSE h.key[f]],
                               !.next = [f \in E |-> IF f = x THEN h.chain_head
                                                     ELSE IF f = q THEN h.next[x] ELSE h.next[f]],
                               !.val = [f \in E |-> IF f = e THEN h.val[x] ELSE h.val[f]],
                               !.chain_head = h.next[q]]
          PROVE  Erases(h, t, k) /\ IsTable(t, b, c, K, V, F)
      <3> DEFINE own1 == [f \in E |-> IF f = x THEN UNDEF ELSE own[f]]
                 key1 == [f \in E |-> IF f = x THEN UNDEF
                                      ELSE IF f = e THEN h.key[x] ELSE h.key[f]]
                 next1 == [f \in E |-> IF f = x THEN h.chain_head
                                       ELSE IF f = q THEN h.next[x] ELSE h.next[f]]
                 val1 == [f \in E |-> IF f = e THEN h.val[x] ELSE h.val[f]]
      <3>1. key1 \in [E -> K \cup {UNDEF}] /\ next1 \in [E -> UNDEF .. c - 1] /\ val1 \in [E -> V]
            /\ h.next[q] \in UNDEF .. c - 1
        BY <1>2, <2>1, <2>3
      <3>2. t = [h EXCEPT !.key = key1, !.next = next1, !.val = val1, !.chain_head = h.next[q]]
        BY <2>3
      <3> HIDE DEF key1, next1, val1, own1, t, e
      <3>3. /\ Resized(h, t) /\ t.val = val1 /\ t.key = key1
            /\ t.next = next1 /\ t.chain_head = h.next[q]
        BY ONLY <1>3, <3>2 DEF Resized, HashType
      <3>4. t \in HashType(b, c, K, V, F)
        BY ONLY <1>2, <1>3, <3>1, <3>2 DEF HashType
      <3>5. Shorter(h, own, q, x, t, own1)
        BY <2>3, <3>3 DEF Shorter, next1, own1, Resized
      <3>6. PICK pos1 : Laid(t, own1, pos1)
        BY <1>1, <3>5, LaidShorter
      <3>7. Dropped(h, t, e, x)
        BY <2>1, <2>3, <3>3 DEF Dropped, key1, val1
      <3>8. Keyed(t, own1, K)
        <4>1. own1[x] = UNDEF /\ \A f \in Entries(h) : f # x => own1[f] = own[f]
          BY <2>3 DEF own1
        <4>2. ASSUME NEW f \in Entries(h), h.key[f] = UNDEF, own[f] # UNDEF PROVE t.next[f] = UNDEF
          <5>1. h.next[f] = UNDEF /\ f # x /\ f # q
            BY <2>2, <2>3, <4>2
          <5> QED  BY <3>3, <5>1 DEF next1
        <4>3. own[e] = own[x]
          BY <2>3
        <4> QED  BY ONLY <1>1, <3>3, <3>7, <4>1, <4>2, <4>3, KeyedLess
      <3>9. Erases(h, t, k)
        BY <1>5, <2>3, <3>3, <3>7 DEF Erases, e
      <3> QED  BY <1>3, <3>4, <3>6, <3>8, <3>9 DEF IsTable
    <2>4. CASE e \in Buckets(h) /\ h.next[e] = UNDEF
      <3>1. t = [h EXCEPT !.key[e] = UNDEF, !.next[e] = UNDEF]
        BY <1>5, <2>4 DEF ihash_erase, EraseBucket
      <3> HIDE DEF e, t
      <3>2. [h.next EXCEPT ![e] = UNDEF] = h.next
        BY <1>2, <2>1, <2>4
      <3>3. [h.key EXCEPT ![e] = UNDEF] \in [E -> K \cup {UNDEF}]
        BY <1>2
      <3>4. t = [h EXCEPT !.key = [h.key EXCEPT ![e] = UNDEF]]
        BY ONLY <1>3, <3>1, <3>2 DEF HashType
      <3>5. t \in HashType(b, c, K, V, F)
        BY ONLY <1>2, <1>3, <3>3, <3>4 DEF HashType
      <3>6. /\ Resized(h, t) /\ t.val = h.val /\ t.next = h.next /\ t.chain_head = h.chain_head
            /\ t.key = [h.key EXCEPT ![e] = UNDEF]
        BY ONLY <1>3, <3>4 DEF HashType, Resized
      <3>7. Laid(t, own, pos)
        BY <1>1, <3>6, SameLinks
      <3>8. Dropped(h, t, e, e)
        <4>1. [f \in E |-> IF f = e THEN UNDEF ELSE IF f = e THEN h.key[e] ELSE h.key[f]]
                = [h.key EXCEPT ![e] = UNDEF]
          BY <1>2, <2>1
        <4>2. [f \in E |-> IF f = e THEN h.val[e] ELSE h.val[f]] = h.val
          BY <1>2, <2>1
        <4> QED  BY <2>1, <3>6, <4>1, <4>2 DEF Dropped
      <3>9. Keyed(t, own, K)
        <4>1. \A f \in Entries(h) : h.key[f] = UNDEF /\ own[f] # UNDEF => t.next[f] = UNDEF
          BY <2>2, <3>6
        <4> QED  BY <1>1, <2>1, <2>4, <3>6, <3>8, <4>1, KeyedLess
      <3>10. Erases(h, t, k)
        BY <1>5, <2>1, <3>6, <3>8 DEF Erases, e
      <3> QED  BY <1>3, <3>5, <3>7, <3>9, <3>10 DEF IsTable, t
    <2>5. CASE e \in Buckets(h) /\ h.next[e] # UNDEF
      <3> DEFINE x == Node(h, h.next[e])
                 h1 == [h EXCEPT !.key[e] = h.key[x], !.next[e] = h.next[x], !.val[e] = h.val[x]]
      <3>1. t = Release(h1, h.next[e])
        BY <1>5, <2>5 DEF ihash_erase, EraseBucket
      <3>2. x \in E \ Buckets(h) /\ own[x] = own[e] /\ x # e
        BY <1>1, <2>1, <2>5, NodeIsEntry DEF Laid, Linked, Sized
      <3>3. h.key[x] # UNDEF
        BY <2>1, <2>2, <3>2
      <3> HIDE DEF e, t, x
      <3>4. h1 \in [bucketsz : {b}, chainsz : {c}, hash_fn : F, chain_head : UNDEF .. c - 1,
                    key : [E -> K \cup {UNDEF}], next : [E -> UNDEF .. c - 1], val : [E -> V]]
            /\ h1.chain_head = h.chain_head
            /\ h1.key = [h.key EXCEPT ![e] = h.key[x]]
            /\ h1.next = [h.next EXCEPT ![e] = h.next[x]]
            /\ h1.val = [h.val EXCEPT ![e] = h.val[x]] /\ h1.bucketsz = b
            /\ h1 = [h EXCEPT !.key = [h.key EXCEPT ![e] = h.key[x]],
                              !.next = [h.next EXCEPT ![e] = h.next[x]],
                              !.val = [h.val EXCEPT ![e] = h.val[x]]]
        BY ONLY <1>2, <1>3, <2>1, <3>2 DEF HashType
      <3> HIDE DEF h1
      <3>5. Node(h1, h.next[e]) = x
        BY <1>2, <3>4 DEF Node, x
      <3>6. t = [h1 EXCEPT !.key[x] = UNDEF, !.next[x] = h1.chain_head, !.chain_head = h.next[e]]
        BY <3>1, <3>5 DEF Release
      <3>7. /\ [[h.key EXCEPT ![e] = h.key[x]] EXCEPT ![x] = UNDEF] =
                 [f \in E |-> IF f = x THEN UNDEF ELSE IF f = e THEN h.key[x] ELSE h.key[f]]
            /\ [[h.next EXCEPT ![e] = h.next[x]] EXCEPT ![x] = h.chain_head] =
                 [f \in E |-> IF f = x THEN h.chain_head ELSE IF f = e THEN h.next[x] ELSE h.next[f]]
            /\ [h.val EXCEPT ![e] = h.val[x]] =
                 [f \in E |-> IF f = e THEN h.val[x] ELSE h.val[f]]
        BY ONLY <1>2, <2>1, <3>2
      <3>8. t = [h EXCEPT !.key = [[h.key EXCEPT ![e] = h.key[x]] EXCEPT ![x] = UNDEF],
                          !.next = [[h.next EXCEPT ![e] = h.next[x]] EXCEPT ![x] = h.chain_head],
                          !.val = [h.val EXCEPT ![e] = h.val[x]],
                          !.chain_head = h.next[e]]
        BY ONLY <1>3, <3>4, <3>6 DEF HashType
      <3> QED  BY <2>1, <2>3, <2>5, <3>2, <3>3, <3>7, <3>8 DEF x, t
    <2>6. CASE e \notin Buckets(h)
      <3> DEFINE z == e - h.bucketsz
                 q == CHOOSE p \in OnPath(h, Bucket(h, h.key[e])) : h.next[p] = z
                 h1 == [h EXCEPT !.next[q] = h.next[e]]
      <3>1. t = Release(h1, z)
        BY <1>5, <2>6 DEF ihash_erase, EraseNode
      <3>2. z \in 0 .. c - 1 /\ Node(h, z) = e /\ z # UNDEF
        <4>1. Sized(h) /\ h.bucketsz \in Nat \ {0} /\ h.chainsz \in Nat
          BY <1>1 DEF Laid, Sized
        <4>2. e \in 0 .. b + c - 1 /\ e \notin 0 .. b - 1
          BY <1>2, <2>1, <2>6 DEF Buckets, Entries
        <4> HIDE DEF e
        <4>3. z \in 0 .. c - 1
          BY <1>2, <4>1, <4>2
        <4>4. Node(h, z) = e
          BY <1>2, <4>1, <4>2 DEF Node
        <4>5. z # UNDEF
          BY <4>1, <4>3, <1>2 DEF UNDEF
        <4> QED  BY <4>3, <4>4, <4>5
      <3>3. q \in E /\ own[q] = own[e] /\ h.next[q] = z
        <4>1. OnPath(h, Bucket(h, h.key[e])) = {p \in E : own[p] = own[e]}
          BY <1>1, <2>1, OnPathIs
        <4>2. pos[e] > 0
          <5>1. own[e] # UNDEF /\ pos[e] \in Nat
            BY <1>1, <2>1 DEF Laid, Placed
          <5>2. pos[e] # 0
            <6>1. pos[own[e]] = 0 /\ own[own[e]] = own[e] /\ own[e] \in E
              BY <1>1, <2>1, NodeIsEntry DEF Laid, Heads
            <6> QED  BY <1>1, <2>1, <2>6, <6>1 DEF Laid, Placed
          <5> QED  BY <5>1, <5>2
        <4>3. PICK p \in E : own[p] = own[e] /\ Node(h, h.next[p]) = e /\ h.next[p] # UNDEF
          BY <1>1, <2>1, <4>2 DEF Laid, Linked
        <4>4. h.next[p] = z
          <5>1. h.next[p] \in 0 .. c - 1
            BY <1>1, <1>2, <4>3, NodeIsEntry DEF Laid
          <5> HIDE DEF z, e
          <5> QED  BY <1>1, <1>2, <3>2, <4>3, <5>1, NodeIsEntry DEF Laid
        <4> QED  BY <4>1, <4>3, <4>4
      <3>4. q # e
        <4>1. own[Node(h, h.next[q])] = own[q] /\ pos[Node(h, h.next[q])] = pos[q] + 1 /\ pos[q] \in Nat
          BY <1>1, <3>2, <3>3 DEF Laid, Linked, Placed
        <4>2. pos[e] = pos[q] + 1
          BY ONLY <3>2, <3>3, <4>1
        <4>3. pos[q] \in Nat
          BY ONLY <4>1
        <4> HIDE DEF e, q
        <4> QED  BY ONLY <4>2, <4>3
      <3> HIDE DEF e, t, q, z
      <3>5. h1.chain_head = h.chain_head /\ h1.bucketsz = b
            /\ h1 = [h EXCEPT !.next = [h.next EXCEPT ![q] = h.next[e]]]
            /\ h1.next = [h.next EXCEPT ![q] = h.next[e]] /\ h1.key = h.key
        BY ONLY <1>2, <1>3 DEF HashType
      <3> HIDE DEF h1
      <3>6. Node(h1, z) = e
        BY <1>2, <3>2, <3>5 DEF Node
      <3>7. t = [h1 EXCEPT !.key[e] = UNDEF, !.next[e] = h1.chain_head, !.chain_head = z]
        BY <3>1, <3>6 DEF Release
      <3>8. /\ [h.key EXCEPT ![e] = UNDEF] =
                 [f \in E |-> IF f = e THEN UNDEF ELSE IF f = e THEN h.key[e] ELSE h.key[f]]
            /\ [[h.next EXCEPT ![q] = h.next[e]] EXCEPT ![e] = h.chain_head] =
                 [f \in E |-> IF f = e THEN h.chain_head ELSE IF f = q THEN h.next[e] ELSE h.next[f]]
            /\ h.val = [f \in E |-> IF f = e THEN h.val[e] ELSE h.val[f]]
        BY ONLY <1>2, <2>1, <3>3, <3>4
      <3>9. t = [h EXCEPT !.key = [h.key EXCEPT ![e] = UNDEF],
                          !.next = [[h.next EXCEPT ![q] = h.next[e]] EXCEPT ![e] = h.chain_head],
                          !.val = h.val,
                          !.chain_head = h.next[q]]
        BY ONLY <1>3, <3>3, <3>5, <3>7 DEF HashType
      <3> QED  BY <2>1, <2>3, <2>6, <3>2, <3>3, <3>8, <3>9 DEF t, e
    <2> QED  BY <2>4, <2>5, <2>6
  <1> QED  BY <1>4, <1>5

-----------------------------------------------------------------------------
(* The other operations keep a table a table.                              *)

LEMMA ClearedIs ==
  ASSUME NEW b, NEW c, NEW K, NEW V, NEW F, NEW h, IsTable(h, b, c, K, V, F), UNDEF \notin K,
         F \subseteq [K -> Nat], NEW fn \in F
  PROVE  /\ IsTable(ihash_clear(h, fn), b, c, K, V, F)
         /\ \A e \in 0 .. b + c - 1 : ihash_clear(h, fn).key[e] = UNDEF
  <1> DEFINE t == ihash_clear(h, fn)
  <1>1. b \in Nat \ {0} /\ c \in Nat /\ h \in HashType(b, c, K, V, F) /\ fn \in [K -> Nat]
        /\ Entries(h) = 0 .. b + c - 1
    BY TableIs DEF IsTable
  <1>2. Cleared(h, t, fn, b, c, K, V)
    <2>1. h \in Allotted(b, c, V, F, UNDEF .. c - 1, [0 .. b + c - 1 -> K \cup {UNDEF}],
                         [0 .. b + c - 1 -> UNDEF .. c - 1])
      BY <1>1 DEF HashType, Allotted
    <2> HIDE DEF t
    <2> QED  BY <1>1, <2>1, ClearLaid DEF t
  <1> HIDE DEF t
  <1>3. t \in HashType(b, c, K, V, F)
    BY <1>2 DEF HashType, Cleared
  <1> QED  BY <1>1, <1>2, <1>3 DEF IsTable, Cleared, t

EmptyTable(t, b, c, K, V, F) ==
  /\ IsTable(t, b, c, K, V, F)
  /\ \A e \in 0 .. b + c - 1 : t.key[e] = UNDEF

LEMMA MadeIs ==
  ASSUME NEW b \in Nat \ {0}, NEW c \in Nat, NEW K, NEW V, NEW F, UNDEF \notin K,
         F \subseteq [K -> Nat], NEW fn \in F, NEW v \in [0 .. b + c - 1 -> V]
  PROVE  EmptyTable(ihash_init(b, c, fn, v), b, c, K, V, F)
  <1> DEFINE U == [e \in 0 .. b + c - 1 |-> UNDEF]
             h == [bucketsz |-> b, chainsz |-> c, hash_fn |-> fn, chain_head |-> UNDEF,
                   key |-> U, next |-> U, val |-> v]
             t == ihash_clear(h, fn)
  <1>1. ihash_init(b, c, fn, v) = t
    BY DEF ihash_init
  <1>2. h \in Allotted(b, c, V, F, {UNDEF}, {U}, {U})
    BY DEF Allotted
  <1>3. Entries(h) = 0 .. b + c - 1 /\ fn \in [K -> Nat]
    BY DEF Entries
  <1> HIDE DEF h, U
  <1>4. Cleared(h, t, fn, b, c, K, V)
    BY <1>2, <1>3, ClearLaid
  <1> HIDE DEF t
  <1>5. t \in HashType(b, c, K, V, F)
    BY <1>4 DEF HashType, Cleared
  <1> QED  BY <1>1, <1>3, <1>4, <1>5 DEF IsTable, Cleared, EmptyTable

\* What ihash_touch does, but for the value stored.
Puts(h, t, e, k, v) ==
  /\ Resized(h, t)
  /\ e = UNDEF => /\ t = h /\ h.chain_head = UNDEF /\ ihash_get(h, k) = UNDEF
                  /\ h.key[Bucket(h, k)] # UNDEF
  /\ e # UNDEF => /\ e \in Entries(h) /\ t.key = [h.key EXCEPT ![e] = k]
                  /\ t.val = [h.val EXCEPT ![e] = v]
                  /\ h.key[e] \in {k, UNDEF}

\* An overflow node is in use unless it is on the free list, and the free list
\* is empty when it has no head.
LEMMA FreeNodes ==
  ASSUME NEW h, NEW own, NEW pos, NEW K, Laid(h, own, pos), Keyed(h, own, K)
  PROVE  /\ h.chain_head = UNDEF <=> Entries(h) \ Buckets(h) \subseteq Used(h)
         /\ Used(h) \ Buckets(h) \subseteq Entries(h) \ Buckets(h)
         /\ IsFiniteSet(Entries(h) \ Buckets(h))
         /\ Cardinality(Entries(h) \ Buckets(h)) = h.chainsz
         /\ IsFiniteSet(Used(h))
  <1>1. h.bucketsz \in Nat /\ h.chainsz \in Nat /\ IsFiniteSet(Entries(h))
        /\ Entries(h) = 0 .. h.bucketsz + h.chainsz - 1
    <2>1. h.bucketsz \in Nat /\ h.chainsz \in Nat
      BY DEF Laid, Sized
    <2>2. Entries(h) = 0 .. h.bucketsz + h.chainsz - 1
      BY DEF Entries
    <2>3. h.bucketsz + h.chainsz - 1 \in Int
      BY <2>1
    <2>4. IsFiniteSet(0 .. h.bucketsz + h.chainsz - 1)
      BY <2>3, FS_Interval
    <2> QED  BY <2>1, <2>2, <2>4
  <1>2. Used(h) \subseteq Entries(h)
    BY DEF Used
  <1>3. IsFiniteSet(Used(h))
    BY <1>1, <1>2, FS_Subset
  <1>4. /\ IsFiniteSet(Entries(h) \ Buckets(h))
        /\ Cardinality(Entries(h) \ Buckets(h)) = h.chainsz
    <2> DEFINE b == h.bucketsz
               c == h.chainsz
    <2>1. Entries(h) \ Buckets(h) = b .. b + c - 1
      BY <1>1 DEF Buckets
    <2>2. b \in Int /\ b + c - 1 \in Int /\ (IF b > b + c - 1 THEN 0 ELSE (b + c - 1) - b + 1) = c
      BY <1>1
    <2> HIDE DEF b, c
    <2>3. IsFiniteSet(b .. b + c - 1) /\ Cardinality(b .. b + c - 1) = c
      BY <2>2, FS_Interval
    <2> QED  BY <2>1, <2>3 DEF b, c
  <1>5. ASSUME h.chain_head # UNDEF PROVE ~ (Entries(h) \ Buckets(h) \subseteq Used(h))
    <2> DEFINE x == Node(h, h.chain_head)
    <2>1. x \in Entries(h) \ Buckets(h) /\ own[x] = UNDEF
      BY <1>5, NodeIsEntry DEF Laid, Sized, Heads
    <2>2. x \notin Used(h)
      BY <2>1 DEF Used, Keyed
    <2> QED  BY <2>1, <2>2
  <1>6. ASSUME NEW e \in Entries(h) \ Buckets(h), e \notin Used(h) PROVE h.chain_head # UNDEF
    <2>1. own[e] = UNDEF
      BY <1>6 DEF Used, Keyed
    <2>2. pos[e] \in Nat /\ UNDEF \notin Buckets(h)
      BY NodeIsEntry DEF Laid, Placed
    <2>3. PICK f \in Entries(h) : own[f] = UNDEF /\ pos[f] = 0
      <3>1. 0 \in 0 .. pos[e]
        BY <2>2
      <3> QED  BY <2>1, <3>1, PlacesBefore
    <2>4. f \notin Buckets(h)
      BY <2>2, <2>3 DEF Laid, Heads
    <2> QED  BY <2>3, <2>4 DEF Laid, Heads
  <1> QED  BY <1>2, <1>3, <1>4, <1>5, <1>6

LEMMA PutIs ==
  ASSUME NEW b, NEW c, NEW K, NEW V, NEW F, NEW h, IsTable(h, b, c, K, V, F), NEW k \in K,
         NEW v \in V
  PROVE  /\ Puts(h, ihash_put(h, k, v), Touched(h, k), k, v)
         /\ IsTable(ihash_put(h, k, v), b, c, K, V, F)
  <1> DEFINE e == Touched(h, k)
             t == ihash_touch(h, k)
             p == ihash_put(h, k, v)
  <1>1. Touches(h, t, e, k) /\ IsTable(t, b, c, K, V, F)
    BY TouchIs
  <1>2. ihash_get(h, k) # UNDEF => h.key[ihash_get(h, k)] = k
    <2>1. PICK own, pos : Laid(h, own, pos) /\ Keyed(h, own, K)
      BY DEF IsTable
    <2> QED  BY <2>1, GetIs
  <1>3. CASE e = UNDEF
    <2>1. p = h
      BY <1>1, <1>3 DEF ihash_put, Touches
    <2> QED  BY <1>1, <1>3, <2>1 DEF Puts, Touches, Resized
  <1>4. CASE e # UNDEF
    <2>1. p = [t EXCEPT !.val[e] = v]
      BY <1>4 DEF ihash_put
    <2>2. e \in Entries(h) /\ Entries(t) = Entries(h) /\ t.val \in [Entries(h) -> V]
          /\ t \in HashType(b, c, K, V, F) /\ Entries(h) = 0 .. b + c - 1 /\ t.val = h.val
          /\ t.key = [h.key EXCEPT ![e] = k] /\ Resized(h, t)
      BY <1>1, <1>4, TableIs, SameSizes DEF Touches, IsTable
    <2>3. h.key[e] \in {k, UNDEF}
      BY <1>1, <1>2, <1>4 DEF Touches
    <2> HIDE DEF e, t, p
    <2>4. [t.val EXCEPT ![e] = v] \in [Entries(h) -> V]
      BY <2>2
    <2>5. p = [t EXCEPT !.val = [t.val EXCEPT ![e] = v]]
      BY <2>1, <2>2 DEF HashType
    <2>6. p \in HashType(b, c, K, V, F)
      BY ONLY <2>2, <2>4, <2>5 DEF HashType
    <2>7. Resized(t, p) /\ p.key = t.key /\ p.next = t.next /\ p.chain_head = t.chain_head
          /\ p.val = [t.val EXCEPT ![e] = v]
      BY ONLY <2>2, <2>5 DEF Resized, HashType
    <2>8. Puts(h, p, e, k, v)
      BY <1>4, <2>2, <2>3, <2>7 DEF Puts, Resized
    <2>9. PICK own, pos : Laid(t, own, pos) /\ Keyed(t, own, K)
      BY <1>1 DEF IsTable
    <2>10. Laid(p, own, pos)
      BY <2>7, <2>9, SameLinks
    <2>11. Keyed(p, own, K)
      BY <2>7, <2>9, SameSizes DEF Keyed
    <2>12. b \in Nat \ {0} /\ c \in Nat
      BY DEF IsTable
    <2> QED  BY <2>6, <2>8, <2>10, <2>11, <2>12 DEF IsTable, p, e
  <1> QED  BY <1>3, <1>4
-----------------------------------------------------------------------------
(* Lists.                                                                  *)

\* The chains o and f, of m and k nodes, witness that l is a list over n nodes.
Rep(l, n, o, m, f, k) ==
  /\ Chain(o, m, Idx(n)) /\ Chain(f, k, Idx(n)) /\ Splits(n, o, m, f, k)
  /\ IsOrder(l, o, m) /\ IsFree(l, f, k)

\* What follows from Rep about single nodes.
RepFacts(l, n, o, m, f, k) ==
  /\ m \in Nat /\ k \in Nat
  /\ m \in 0 .. n /\ k \in 0 .. n /\ m + k = n
  /\ \A i \in 1 .. m : o[i] \in Idx(n) /\ o[i] # UNDEF /\ o[i] \in Nodes(o, m)
  /\ \A j \in 1 .. k : f[j] \in Idx(n) /\ f[j] # UNDEF /\ f[j] \in Nodes(f, k)
  /\ \A i, j \in 1 .. m : o[i] = o[j] => i = j
  /\ \A i, j \in 1 .. k : f[i] = f[j] => i = j
  /\ \A i \in 1 .. m, j \in 1 .. k : o[i] # f[j]
  /\ \A i \in 1 .. m : /\ l.next[o[i]] = IF i = m THEN UNDEF ELSE o[i + 1]
                       /\ l.prev[o[i]] = IF i = 1 THEN UNDEF ELSE o[i - 1]
  /\ \A j \in 1 .. k : l.next[f[j]] = IF j = k THEN UNDEF ELSE f[j + 1]

LEMMA RepNodes ==
  ASSUME NEW n, n \in Nat, NEW l, NEW o, NEW m, NEW f, NEW k, Rep(l, n, o, m, f, k)
  PROVE  RepFacts(l, n, o, m, f, k)
  <1>1. m \in 0 .. n /\ k \in 0 .. n /\ m + k = n
    BY DEF Rep, Splits, Chain
  <1>2. /\ \A i \in 1 .. m : o[i] \in Idx(n) /\ o[i] # UNDEF /\ o[i] \in Nodes(o, m)
        /\ \A j \in 1 .. k : f[j] \in Idx(n) /\ f[j] # UNDEF /\ f[j] \in Nodes(f, k)
    BY DEF Rep, Chain, Nodes, Idx, UNDEF
  <1>3. \A i \in 1 .. m, j \in 1 .. k : o[i] # f[j]
    BY <1>2 DEF Rep, Splits
  <1> QED  BY <1>1, <1>2, <1>3 DEF RepFacts, Rep, Chain, IsOrder, IsFree

-----------------------------------------------------------------------------
LEMMA ClearRep ==
  ASSUME NEW n \in Nat, NEW D, NEW l \in ListType(n, D)
  PROVE  /\ ilist2_clear(l) \in ListType(n, D)
         /\ Rep(ilist2_clear(l), n, [i \in 1 .. 0 |-> 0], 0, [i \in 1 .. n |-> i - 1], n)
  <1> DEFINE c == ilist2_clear(l)
             e == [i \in 1 .. 0 |-> 0]
             f == [i \in 1 .. n |-> i - 1]
  <1>1. /\ UNDEF \in IdxOrUndef(n)
        /\ [i \in Idx(l.listsz) |-> UNDEF] \in [Idx(n) -> IdxOrUndef(n)]
        /\ [i \in Idx(l.listsz) |-> IF i = l.listsz - 1 THEN UNDEF ELSE i + 1]
             \in [Idx(n) -> IdxOrUndef(n)]
        /\ (IF l.listsz > 0 THEN 0 ELSE UNDEF) \in IdxOrUndef(n)
    BY DEF ListType, Idx, IdxOrUndef, UNDEF
  <1>2. c \in ListType(n, D)
    BY <1>1 DEF ListType, ilist2_clear
  <1>3. Chain(f, n, Idx(n)) /\ Chain(e, 0, Idx(n))
    BY DEF Chain, Idx
  <1>4. IsOrder(c, e, 0)
    BY DEF ListType, ilist2_clear, IsOrder
  <1>5. IsFree(c, f, n)
    <2>1. /\ c.freelist_head = IF n > 0 THEN 0 ELSE UNDEF
          /\ c.next = [i \in Idx(n) |-> IF i = n - 1 THEN UNDEF ELSE i + 1]
      BY DEF ListType, ilist2_clear
    <2> HIDE DEF c
    <2>2. \A i \in 1 .. n : f[i] = i - 1 /\ i - 1 \in Idx(n)
      BY DEF Idx
    <2> HIDE DEF f
    <2>3. c.freelist_head = IF n = 0 THEN UNDEF ELSE f[1]
      BY <2>1, <2>2
    <2>4. ASSUME NEW i \in 1 .. n PROVE c.next[i - 1] = IF i = n THEN UNDEF ELSE i
      <3>1. c.next[i - 1] = IF i - 1 = n - 1 THEN UNDEF ELSE (i - 1) + 1
        BY <2>1, <2>2
      <3>2. (i - 1 = n - 1 <=> i = n) /\ (i - 1) + 1 = i
        OBVIOUS
      <3> QED  BY <3>1, <3>2
    <2>5. ASSUME NEW i \in 1 .. n, i # n PROVE f[i + 1] = i
      <3>1. i + 1 \in 1 .. n /\ (i + 1) - 1 = i
        BY <2>5
      <3> QED  BY <2>2, <3>1
    <2> QED  BY <2>2, <2>3, <2>4, <2>5 DEF IsFree
  <1>6. Splits(n, e, 0, f, n)
    <2>1. \A x \in Idx(n) : x + 1 \in 1 .. n /\ f[x + 1] = x
      BY DEF Idx
    <2>2. Nodes(f, n) = Idx(n)
      <3>1. Idx(n) \subseteq Nodes(f, n)
        BY <2>1 DEF Nodes
      <3>2. \A i \in 1 .. n : f[i] \in Idx(n)
        BY DEF Idx
      <3> QED  BY <3>1, <3>2 DEF Nodes
    <2>3. Nodes(e, 0) = {}
      BY DEF Nodes
    <2> QED  BY <2>2, <2>3 DEF Splits
  <1> QED  BY <1>2, <1>3, <1>4, <1>5, <1>6 DEF Rep

LEMMA PopBackRep ==
  ASSUME NEW n \in Nat, NEW D, NEW l \in ListType(n, D),
         NEW o, NEW m, NEW f, NEW k, Rep(l, n, o, m, f, k), ~ilist2_empty(l)
  PROVE  /\ ilist2_pop_back(l) \in ListType(n, D)
         /\ m > 0 /\ l.back_idx = o[m]
         /\ Rep(ilist2_pop_back(l), n, Most(o, m), m - 1, Cons(o[m], f, k), k + 1)
  <1> DEFINE p == ilist2_pop_back(l)
             o1 == Most(o, m)
             f1 == Cons(o[m], f, k)
  <1>1. m > 0 /\ m \in Nat /\ k \in Nat /\ l.back_idx = o[m] /\ o[m] \in Idx(n)
    BY RepNodes DEF RepFacts, Rep, Chain, IsOrder, ilist2_empty
  <1>2. /\ \A i, j \in 1 .. m : o[i] = o[j] => i = j
        /\ \A i \in 1 .. m : o[i] \in Idx(n) /\ o[i] # UNDEF
        /\ \A i \in 1 .. m, j \in 1 .. k : o[i] # f[j]
        /\ \A j \in 1 .. k : f[j] \in Idx(n)
        /\ o[m] \in Nodes(o, m)
    BY <1>1, RepNodes DEF RepFacts
  <1>3. /\ p \in ListType(n, D)
        /\ p.prev = l.prev /\ p.freelist_head = o[m]
        /\ p.front_idx = IF m = 1 THEN UNDEF ELSE l.front_idx
        /\ p.back_idx = IF m = 1 THEN UNDEF ELSE o[m - 1]
        /\ p.next[o[m]] = l.freelist_head
        /\ m # 1 => p.next[o[m - 1]] = UNDEF
        /\ \A x \in Idx(n) : x # o[m] /\ (m # 1 => x # o[m - 1]) => p.next[x] = l.next[x]
    <2>1. /\ UNDEF \in IdxOrUndef(n) /\ o[m] \in IdxOrUndef(n)
          /\ m # 1 => o[m - 1] \in IdxOrUndef(n) /\ o[m - 1] \in Idx(n)
                      /\ o[m - 1] # UNDEF /\ o[m - 1] # o[m]
      BY <1>1, <1>2 DEF Idx, IdxOrUndef, UNDEF
    <2>2. l.prev[o[m]] = IF m = 1 THEN UNDEF ELSE o[m - 1]
      BY <1>1, RepNodes DEF RepFacts
    <2>3. CASE m = 1
      BY <2>1, <2>2, <2>3, <1>1 DEF ilist2_pop_back, ListType
    <2>4. CASE m # 1
      BY <2>1, <2>2, <2>4, <1>1 DEF ilist2_pop_back, ListType
    <2> QED  BY <2>3, <2>4
  <1> HIDE DEF p
  <1>4. /\ Chain(o1, m - 1, Idx(n)) /\ Nodes(o1, m - 1) = Nodes(o, m) \ {o[m]}
    BY <1>1, MostChain DEF Rep
  <1>5. o[m] \notin Nodes(f, k)
    BY <1>1, <1>2 DEF Nodes
  <1>6. Chain(f1, k + 1, Idx(n)) /\ Nodes(f1, k + 1) = {o[m]} \cup Nodes(f, k)
    <2>1. Chain(f, k, Idx(n)) /\ o[m] \in Idx(n)
      BY <1>1 DEF Rep
    <2>2. Chain(Cons(o[m], f, k), k + 1, Idx(n))
      BY ONLY <2>1, <1>5, ConsChain
    <2>3. Nodes(Cons(o[m], f, k), k + 1) = {o[m]} \cup Nodes(f, k)
      BY ONLY <2>1, ConsNodes
    <2> QED  BY <2>2, <2>3
  <1>7. IsOrder(p, o1, m - 1)
    <2>1. \A i \in 1 .. m - 1 : o1[i] = o[i] /\ o[i] \in Idx(n) /\ o[i] # o[m]
                                /\ (i # m - 1 => o[i] # o[m - 1])
      BY <1>1, <1>2 DEF Most
    <2>2. ASSUME NEW i \in 1 .. m - 1
          PROVE  /\ p.next[o1[i]] = IF i = m - 1 THEN UNDEF ELSE o1[i + 1]
                 /\ p.prev[o1[i]] = IF i = 1 THEN UNDEF ELSE o1[i - 1]
      <3>1. /\ l.next[o[i]] = IF i = m THEN UNDEF ELSE o[i + 1]
            /\ l.prev[o[i]] = IF i = 1 THEN UNDEF ELSE o[i - 1]
        BY <1>1 DEF Rep, IsOrder
      <3> QED  BY <1>1, <1>3, <2>1, <3>1
    <2> QED  BY <1>1, <1>3, <2>1, <2>2 DEF Rep, IsOrder
  <1>8. IsFree(p, f1, k + 1)
    <2>1. \A j \in 1 .. k : p.next[f[j]] = IF j = k THEN UNDEF ELSE f[j + 1]
      BY <1>1, <1>2, <1>3 DEF Rep, IsFree
    <2>2. \A j \in 1 .. k + 1 : f1[j] = IF j = 1 THEN o[m] ELSE f[j - 1]
      BY DEF Cons
    <2>3. p.next[o[m]] = IF k = 0 THEN UNDEF ELSE f[1]
      BY <1>3 DEF Rep, IsFree
    <2> QED  BY <1>1, <1>3, <2>1, <2>2, <2>3 DEF IsFree
  <1>9. Splits(n, o1, m - 1, f1, k + 1)
    <2> HIDE DEF o1, f1
    <2>1. (m - 1) + (k + 1) = n
      BY <1>1, RepNodes DEF RepFacts
    <2> QED  BY <1>2, <1>4, <1>5, <1>6, <2>1 DEF Rep, Splits
  <1> QED  BY <1>1, <1>3, <1>4, <1>6, <1>7, <1>8, <1>9 DEF Rep, p

LEMMA PopFrontRep ==
  ASSUME NEW n \in Nat, NEW D, NEW l \in ListType(n, D),
         NEW o, NEW m, NEW f, NEW k, Rep(l, n, o, m, f, k), ~ilist2_empty(l)
  PROVE  /\ ilist2_pop_front(l) \in ListType(n, D)
         /\ m > 0 /\ l.front_idx = o[1]
         /\ Rep(ilist2_pop_front(l), n, Rest(o, m), m - 1, Cons(o[1], f, k), k + 1)
  <1> DEFINE p == ilist2_pop_front(l)
             o1 == Rest(o, m)
             f1 == Cons(o[1], f, k)
  <1>1. m > 0 /\ m \in Nat /\ k \in Nat /\ l.front_idx = o[1] /\ o[1] \in Idx(n)
    BY RepNodes DEF RepFacts, Rep, Chain, IsOrder, ilist2_empty
  <1>2. /\ \A i, j \in 1 .. m : o[i] = o[j] => i = j
        /\ \A i \in 1 .. m : o[i] \in Idx(n) /\ o[i] # UNDEF
        /\ \A i \in 1 .. m, j \in 1 .. k : o[i] # f[j]
        /\ \A j \in 1 .. k : f[j] \in Idx(n)
        /\ o[1] \in Nodes(o, m)
    BY <1>1, RepNodes DEF RepFacts
  <1>3. /\ p \in ListType(n, D)
        /\ p.freelist_head = o[1]
        /\ p.back_idx = IF m = 1 THEN UNDEF ELSE l.back_idx
        /\ p.front_idx = IF m = 1 THEN UNDEF ELSE o[2]
        /\ p.next[o[1]] = l.freelist_head
        /\ m # 1 => p.prev[o[2]] = UNDEF
        /\ \A x \in Idx(n) : /\ x # o[1] => p.next[x] = l.next[x]
                             /\ (m # 1 => x # o[2]) => p.prev[x] = l.prev[x]
    <2>1. /\ UNDEF \in IdxOrUndef(n) /\ o[1] \in IdxOrUndef(n)
          /\ m # 1 => o[2] \in IdxOrUndef(n) /\ o[2] \in Idx(n)
                      /\ o[2] # UNDEF /\ o[2] # o[1]
      BY <1>1, <1>2 DEF Idx, IdxOrUndef, UNDEF
    <2>2. l.next[o[1]] = IF m = 1 THEN UNDEF ELSE o[2]
      <3>1. RepFacts(l, n, o, m, f, k)
        BY RepNodes
      <3> QED BY <1>1, <3>1 DEF RepFacts
    <2>3. CASE m = 1
      BY <2>1, <2>2, <2>3, <1>1 DEF ilist2_pop_front, ListType
    <2>4. CASE m # 1
      BY <2>1, <2>2, <2>4, <1>1 DEF ilist2_pop_front, ListType
    <2> QED  BY <2>3, <2>4
  <1> HIDE DEF p
  <1>4. /\ Chain(o1, m - 1, Idx(n)) /\ Nodes(o1, m - 1) = Nodes(o, m) \ {o[1]}
    BY <1>1, RestChain DEF Rep
  <1>5. o[1] \notin Nodes(f, k)
    BY <1>1, <1>2 DEF Nodes
  <1>6. Chain(f1, k + 1, Idx(n)) /\ Nodes(f1, k + 1) = {o[1]} \cup Nodes(f, k)
    <2>1. Chain(f, k, Idx(n)) /\ o[1] \in Idx(n)
      BY <1>1 DEF Rep
    <2>2. Chain(Cons(o[1], f, k), k + 1, Idx(n))
      BY ONLY <2>1, <1>5, ConsChain
    <2>3. Nodes(Cons(o[1], f, k), k + 1) = {o[1]} \cup Nodes(f, k)
      BY ONLY <2>1, ConsNodes
    <2> QED  BY <2>2, <2>3
  <1>7. IsOrder(p, o1, m - 1)
    <2>1. \A i \in 1 .. m - 1 : o1[i] = o[i + 1] /\ o[i + 1] \in Idx(n) /\ o[i + 1] # o[1]
                                /\ (i # 1 => o[i + 1] # o[2])
      BY <1>1, <1>2 DEF Rest
    <2>2. ASSUME NEW i \in 1 .. m - 1
          PROVE  /\ p.next[o1[i]] = IF i = m - 1 THEN UNDEF ELSE o1[i + 1]
                 /\ p.prev[o1[i]] = IF i = 1 THEN UNDEF ELSE o1[i - 1]
      <3>1. /\ l.next[o[i + 1]] = IF i + 1 = m THEN UNDEF ELSE o[i + 2]
            /\ l.prev[o[i + 1]] = o[i]
        BY <1>1 DEF Rep, IsOrder
      <3> QED  BY <1>1, <1>3, <2>1, <3>1
    <2> QED  BY <1>1, <1>3, <2>1, <2>2 DEF Rep, IsOrder
  <1>8. IsFree(p, f1, k + 1)
    <2>1. \A j \in 1 .. k : p.next[f[j]] = IF j = k THEN UNDEF ELSE f[j + 1]
      BY <1>1, <1>2, <1>3 DEF Rep, IsFree
    <2>2. \A j \in 1 .. k + 1 : f1[j] = IF j = 1 THEN o[1] ELSE f[j - 1]
      BY DEF Cons
    <2>3. p.next[o[1]] = IF k = 0 THEN UNDEF ELSE f[1]
      BY <1>3 DEF Rep, IsFree
    <2> QED  BY <1>1, <1>3, <2>1, <2>2, <2>3 DEF IsFree
  <1>9. Splits(n, o1, m - 1, f1, k + 1)
    <2> HIDE DEF o1, f1
    <2>1. (m - 1) + (k + 1) = n
      BY <1>1, RepNodes DEF RepFacts
    <2> QED  BY <1>2, <1>4, <1>5, <1>6, <2>1 DEF Rep, Splits
  <1> QED  BY <1>1, <1>3, <1>4, <1>6, <1>7, <1>8, <1>9 DEF Rep, p

LEMMA PutBackRep ==
  ASSUME NEW n \in Nat, NEW D, NEW l \in ListType(n, D), NEW d \in D,
         NEW o, NEW m, NEW f, NEW k, Rep(l, n, o, m, f, k), l.freelist_head # UNDEF
  PROVE  /\ ilist2_put_back(l, d) \in ListType(n, D)
         /\ k > 0 /\ l.freelist_head = f[1]
         /\ Rep(ilist2_put_back(l, d), n, Snoc(o, m, f[1]), m + 1, Rest(f, k), k - 1)
  <1> DEFINE p == ilist2_put_back(l, d)
             o1 == Snoc(o, m, f[1])
             f1 == Rest(f, k)
  <1>1. k > 0 /\ m \in Nat /\ k \in Nat /\ l.freelist_head = f[1] /\ f[1] \in Idx(n)
    BY RepNodes DEF RepFacts, Rep, Chain, IsFree
  <1>2. /\ \A i, j \in 1 .. m : o[i] = o[j] => i = j
        /\ \A i, j \in 1 .. k : f[i] = f[j] => i = j
        /\ \A i \in 1 .. m : o[i] \in Idx(n) /\ o[i] # UNDEF
        /\ \A i \in 1 .. m, j \in 1 .. k : o[i] # f[j]
        /\ \A j \in 1 .. k : f[j] \in Idx(n)
        /\ f[1] \in Nodes(f, k)
    BY <1>1, RepNodes DEF RepFacts
  <1>3. /\ p \in ListType(n, D)
        /\ p.freelist_head = IF k = 1 THEN UNDEF ELSE f[2]
        /\ p.front_idx = IF m = 0 THEN f[1] ELSE l.front_idx
        /\ p.back_idx = f[1]
        /\ p.next[f[1]] = UNDEF
        /\ p.prev[f[1]] = IF m = 0 THEN UNDEF ELSE o[m]
        /\ m # 0 => p.next[o[m]] = f[1]
        /\ \A x \in Idx(n) : /\ x # f[1] => p.prev[x] = l.prev[x]
                             /\ x # f[1] /\ (m # 0 => x # o[m]) => p.next[x] = l.next[x]
    <2> DEFINE t == ilist2_touch_back(l)
    <2>1. /\ UNDEF \in IdxOrUndef(n) /\ f[1] \in IdxOrUndef(n)
          /\ m # 0 => o[m] \in IdxOrUndef(n) /\ o[m] \in Idx(n) /\ o[m] # f[1]
          /\ k # 1 => f[2] \in IdxOrUndef(n)
      BY <1>1, <1>2 DEF Idx, IdxOrUndef, UNDEF
    <2>2. l.next[f[1]] = IF k = 1 THEN UNDEF ELSE f[2]
      BY <1>1, RepNodes DEF RepFacts
    <2>3. p = [t EXCEPT !.user[f[1]] = d]
      BY <1>1 DEF ilist2_put_back
    <2>4. /\ t \in ListType(n, D)
          /\ t.freelist_head = l.next[f[1]] /\ t.back_idx = f[1]
          /\ t.front_idx = IF m = 0 THEN f[1] ELSE l.front_idx
          /\ t.next = IF m = 0 THEN [l.next EXCEPT ![f[1]] = UNDEF]
                      ELSE [l.next EXCEPT ![o[m]] = f[1], ![f[1]] = UNDEF]
          /\ t.prev = [l.prev EXCEPT ![f[1]] = IF m = 0 THEN UNDEF ELSE o[m]]
      <3>1. CASE m = 0
        <4>1. l.front_idx = UNDEF
          BY <3>1 DEF Rep, IsOrder
        <4> QED
          BY <1>1, <2>1, <2>2, <3>1, <4>1
          DEF ilist2_touch_back, ilist2_touch_new, ilist2_empty, ListType
      <3>2. CASE m # 0
        <4>1. l.front_idx # UNDEF /\ l.back_idx = o[m]
          BY <3>2, <1>1, <1>2 DEF Rep, IsOrder
        <4> QED
          BY <1>1, <2>1, <2>2, <3>2, <4>1 DEF ilist2_touch_back, ilist2_empty, ListType
      <3> QED  BY <3>1, <3>2
    <2> HIDE DEF p, t
    <2>5. /\ p \in ListType(n, D) /\ p.next = t.next /\ p.prev = t.prev
          /\ p.freelist_head = t.freelist_head
          /\ p.front_idx = t.front_idx /\ p.back_idx = t.back_idx
      BY <1>1, <2>3, <2>4 DEF ListType
    <2>6. l.next \in [Idx(n) -> IdxOrUndef(n)] /\ l.prev \in [Idx(n) -> IdxOrUndef(n)]
      BY DEF ListType
    <2> QED  BY <1>1, <2>1, <2>2, <2>4, <2>5, <2>6
  <1> HIDE DEF p
  <1>4. f[1] \notin Nodes(o, m)
    BY <1>1, <1>2 DEF Nodes
  <1>5. Chain(o1, m + 1, Idx(n)) /\ Nodes(o1, m + 1) = {f[1]} \cup Nodes(o, m)
    <2>1. Chain(o, m, Idx(n)) /\ f[1] \in Idx(n)
      BY <1>1 DEF Rep
    <2>2. Chain(Snoc(o, m, f[1]), m + 1, Idx(n))
      BY ONLY <2>1, <1>4, SnocChain
    <2>3. Nodes(Snoc(o, m, f[1]), m + 1) = {f[1]} \cup Nodes(o, m)
      BY ONLY <2>1, SnocNodes
    <2> QED  BY <2>2, <2>3
  <1>6. Chain(f1, k - 1, Idx(n)) /\ Nodes(f1, k - 1) = Nodes(f, k) \ {f[1]}
    BY <1>1, RestChain DEF Rep
  <1>7. IsOrder(p, o1, m + 1)
    <2>1. \A i \in 1 .. m + 1 : o1[i] = IF i = m + 1 THEN f[1] ELSE o[i]
      BY DEF Snoc
    <2>2. ASSUME NEW i \in 1 .. m
          PROVE  /\ p.next[o[i]] = IF i = m THEN f[1] ELSE o[i + 1]
                 /\ p.prev[o[i]] = IF i = 1 THEN UNDEF ELSE o[i - 1]
      <3>1. /\ l.next[o[i]] = IF i = m THEN UNDEF ELSE o[i + 1]
            /\ l.prev[o[i]] = IF i = 1 THEN UNDEF ELSE o[i - 1]
        BY <1>1 DEF Rep, IsOrder
      <3>2. o[i] \in Idx(n) /\ o[i] # f[1] /\ (i # m => o[i] # o[m])
        BY <1>1, <1>2
      <3> QED  BY <1>1, <1>3, <3>1, <3>2
    <2>3. l.front_idx = IF m = 0 THEN UNDEF ELSE o[1]
      BY DEF Rep, IsOrder
    <2> QED  BY <1>1, <1>3, <2>1, <2>2, <2>3 DEF IsOrder
  <1>8. IsFree(p, f1, k - 1)
    <2>1. \A j \in 1 .. k - 1 : f1[j] = f[j + 1] /\ f[j + 1] \in Idx(n) /\ f[j + 1] # f[1]
                                /\ (m # 0 => f[j + 1] # o[m])
      BY <1>1, <1>2 DEF Rest
    <2>2. \A j \in 1 .. k - 1 : l.next[f[j + 1]] = IF j = k - 1 THEN UNDEF ELSE f[j + 2]
      BY <1>1 DEF Rep, IsFree
    <2> QED  BY <1>1, <1>3, <2>1, <2>2 DEF IsFree
  <1>9. Splits(n, o1, m + 1, f1, k - 1)
    <2> HIDE DEF o1, f1
    <2>1. (m + 1) + (k - 1) = n
      BY <1>1, RepNodes DEF RepFacts
    <2> QED  BY <1>2, <1>4, <1>5, <1>6, <2>1 DEF Rep, Splits
  <1> QED  BY <1>1, <1>3, <1>5, <1>6, <1>7, <1>8, <1>9 DEF Rep, p

LEMMA PutFrontRep ==
  ASSUME NEW n \in Nat, NEW D, NEW l \in ListType(n, D), NEW d \in D,
         NEW o, NEW m, NEW f, NEW k, Rep(l, n, o, m, f, k), l.freelist_head # UNDEF
  PROVE  /\ ilist2_put_front(l, d) \in ListType(n, D)
         /\ k > 0 /\ l.freelist_head = f[1]
         /\ Rep(ilist2_put_front(l, d), n, Cons(f[1], o, m), m + 1, Rest(f, k), k - 1)
  <1> DEFINE p == ilist2_put_front(l, d)
             o1 == Cons(f[1], o, m)
             f1 == Rest(f, k)
  <1>1. k > 0 /\ m \in Nat /\ k \in Nat /\ l.freelist_head = f[1] /\ f[1] \in Idx(n)
    BY RepNodes DEF RepFacts, Rep, Chain, IsFree
  <1>2. /\ \A i, j \in 1 .. m : o[i] = o[j] => i = j
        /\ \A i, j \in 1 .. k : f[i] = f[j] => i = j
        /\ \A i \in 1 .. m : o[i] \in Idx(n) /\ o[i] # UNDEF
        /\ \A i \in 1 .. m, j \in 1 .. k : o[i] # f[j]
        /\ \A j \in 1 .. k : f[j] \in Idx(n)
        /\ f[1] \in Nodes(f, k)
    BY <1>1, RepNodes DEF RepFacts
  <1>3. /\ p \in ListType(n, D)
        /\ p.freelist_head = IF k = 1 THEN UNDEF ELSE f[2]
        /\ p.back_idx = IF m = 0 THEN f[1] ELSE l.back_idx
        /\ p.front_idx = f[1]
        /\ p.prev[f[1]] = UNDEF
        /\ p.next[f[1]] = IF m = 0 THEN UNDEF ELSE o[1]
        /\ m # 0 => p.prev[o[1]] = f[1]
        /\ \A x \in Idx(n) : /\ x # f[1] => p.next[x] = l.next[x]
                             /\ x # f[1] /\ (m # 0 => x # o[1]) => p.prev[x] = l.prev[x]
    <2> DEFINE t == ilist2_touch_front(l)
    <2>1. /\ UNDEF \in IdxOrUndef(n) /\ f[1] \in IdxOrUndef(n)
          /\ m # 0 => o[1] \in IdxOrUndef(n) /\ o[1] \in Idx(n) /\ o[1] # f[1]
          /\ k # 1 => f[2] \in IdxOrUndef(n)
      BY <1>1, <1>2 DEF Idx, IdxOrUndef, UNDEF
    <2>2. l.next[f[1]] = IF k = 1 THEN UNDEF ELSE f[2]
      BY <1>1, RepNodes DEF RepFacts
    <2>3. p = [t EXCEPT !.user[f[1]] = d]
      BY <1>1 DEF ilist2_put_front
    <2>4. /\ t \in ListType(n, D)
          /\ t.freelist_head = l.next[f[1]] /\ t.front_idx = f[1]
          /\ t.back_idx = IF m = 0 THEN f[1] ELSE l.back_idx
          /\ t.prev = IF m = 0 THEN [l.prev EXCEPT ![f[1]] = UNDEF]
                      ELSE [l.prev EXCEPT ![o[1]] = f[1], ![f[1]] = UNDEF]
          /\ t.next = [l.next EXCEPT ![f[1]] = IF m = 0 THEN UNDEF ELSE o[1]]
      <3>1. CASE m = 0
        <4>1. l.front_idx = UNDEF
          BY <3>1 DEF Rep, IsOrder
        <4> QED
          BY <1>1, <2>1, <2>2, <3>1, <4>1
          DEF ilist2_touch_front, ilist2_touch_new, ilist2_empty, ListType
      <3>2. CASE m # 0
        <4>1. l.front_idx # UNDEF /\ l.front_idx = o[1] /\ o[1] \in Idx(n)
          BY <3>2, <1>1, <1>2 DEF Rep, IsOrder
        <4> QED
          BY <1>1, <2>1, <2>2, <3>2, <4>1 DEF ilist2_touch_front, ilist2_empty, ListType
      <3> QED  BY <3>1, <3>2
    <2> HIDE DEF p, t
    <2>5. /\ p \in ListType(n, D) /\ p.next = t.next /\ p.prev = t.prev
          /\ p.freelist_head = t.freelist_head
          /\ p.front_idx = t.front_idx /\ p.back_idx = t.back_idx
      BY <1>1, <2>3, <2>4 DEF ListType
    <2>6. l.next \in [Idx(n) -> IdxOrUndef(n)] /\ l.prev \in [Idx(n) -> IdxOrUndef(n)]
      BY DEF ListType
    <2> QED  BY <1>1, <2>1, <2>2, <2>4, <2>5, <2>6
  <1> HIDE DEF p
  <1>4. f[1] \notin Nodes(o, m)
    BY <1>1, <1>2 DEF Nodes
  <1>5. Chain(o1, m + 1, Idx(n)) /\ Nodes(o1, m + 1) = {f[1]} \cup Nodes(o, m)
    <2>1. Chain(o, m, Idx(n)) /\ f[1] \in Idx(n)
      BY <1>1 DEF Rep
    <2>2. Chain(Cons(f[1], o, m), m + 1, Idx(n))
      BY ONLY <2>1, <1>4, ConsChain
    <2>3. Nodes(Cons(f[1], o, m), m + 1) = {f[1]} \cup Nodes(o, m)
      BY ONLY <2>1, ConsNodes
    <2> QED  BY <2>2, <2>3
  <1>6. Chain(f1, k - 1, Idx(n)) /\ Nodes(f1, k - 1) = Nodes(f, k) \ {f[1]}
    BY <1>1, RestChain DEF Rep
  <1>7. IsOrder(p, o1, m + 1)
    <2>1. \A i \in 1 .. m + 1 : o1[i] = IF i = 1 THEN f[1] ELSE o[i - 1]
      BY DEF Cons
    <2>2. ASSUME NEW i \in 1 .. m
          PROVE  /\ p.next[o[i]] = IF i = m THEN UNDEF ELSE o[i + 1]
                 /\ p.prev[o[i]] = IF i = 1 THEN f[1] ELSE o[i - 1]
      <3>1. /\ l.next[o[i]] = IF i = m THEN UNDEF ELSE o[i + 1]
            /\ l.prev[o[i]] = IF i = 1 THEN UNDEF ELSE o[i - 1]
        BY <1>1 DEF Rep, IsOrder
      <3>2. o[i] \in Idx(n) /\ o[i] # f[1] /\ (i # 1 => o[i] # o[1])
        BY <1>1, <1>2
      <3> QED  BY <1>1, <1>3, <3>1, <3>2
    <2>3. l.back_idx = IF m = 0 THEN UNDEF ELSE o[m]
      BY DEF Rep, IsOrder
    <2> QED  BY <1>1, <1>3, <2>1, <2>2, <2>3 DEF IsOrder
  <1>8. IsFree(p, f1, k - 1)
    <2>1. \A j \in 1 .. k - 1 : f1[j] = f[j + 1] /\ f[j + 1] \in Idx(n) /\ f[j + 1] # f[1]
                                /\ (m # 0 => f[j + 1] # o[m])
      BY <1>1, <1>2 DEF Rest
    <2>2. \A j \in 1 .. k - 1 : l.next[f[j + 1]] = IF j = k - 1 THEN UNDEF ELSE f[j + 2]
      BY <1>1 DEF Rep, IsFree
    <2> QED  BY <1>1, <1>3, <2>1, <2>2 DEF IsFree
  <1>9. Splits(n, o1, m + 1, f1, k - 1)
    <2> HIDE DEF o1, f1
    <2>1. (m + 1) + (k - 1) = n
      BY <1>1, RepNodes DEF RepFacts
    <2> QED  BY <1>2, <1>4, <1>5, <1>6, <2>1 DEF Rep, Splits
  <1> QED  BY <1>1, <1>3, <1>5, <1>6, <1>7, <1>8, <1>9 DEF Rep, p

LEMMA MoveBackRep ==
  ASSUME NEW n \in Nat, NEW D, NEW l \in ListType(n, D),
         NEW o, NEW m, NEW f, NEW k, Rep(l, n, o, m, f, k), NEW q \in 1 .. m
  PROVE  /\ ilist2_move_back_by_idx(l, o[q]) \in ListType(n, D)
         /\ Rep(ilist2_move_back_by_idx(l, o[q]), n, ToBack(o, m, q), m, f, k)
  <1> DEFINE p == ilist2_move_back_by_idx(l, o[q])
             t == ToBack(o, m, q)
  <1>1. /\ m \in Nat /\ k \in Nat /\ m > 0
        /\ \A i, j \in 1 .. m : o[i] = o[j] => i = j
        /\ \A i \in 1 .. m : o[i] \in Idx(n) /\ o[i] # UNDEF
        /\ \A i \in 1 .. m, j \in 1 .. k : o[i] # f[j]
        /\ \A j \in 1 .. k : f[j] \in Idx(n)
        /\ \A i \in 1 .. m : /\ l.next[o[i]] = IF i = m THEN UNDEF ELSE o[i + 1]
                             /\ l.prev[o[i]] = IF i = 1 THEN UNDEF ELSE o[i - 1]
    <2>1. RepFacts(l, n, o, m, f, k)
      BY RepNodes
    <2>2. m > 0
      BY <2>1 DEF RepFacts
    <2> QED  BY <2>1, <2>2 DEF RepFacts
  <1>2. l.front_idx = o[1] /\ l.back_idx = o[m]
    BY <1>1 DEF Rep, IsOrder
  <1>3. Chain(t, m, Idx(n)) /\ Nodes(t, m) = Nodes(o, m)
    BY ToBackChain DEF Rep
  <1>4. t \in [1 .. m -> Idx(n)]
        /\ \A i \in 1 .. m : t[i] = IF i = m THEN o[q] ELSE IF i < q THEN o[i] ELSE o[i + 1]
    BY <1>3 DEF ToBack, Chain
  <1> HIDE DEF t
  <1>5. CASE q = m
    <2>1. p = l
      BY <1>1, <1>5 DEF ilist2_move_back_by_idx
    <2>2. \A i \in 1 .. m : t[i] = o[i]
      BY <1>1, <1>4, <1>5
    <2>3. IsOrder(l, t, m)
      BY <1>1, <1>2, <2>2 DEF IsOrder
    <2> QED  BY <1>3, <2>1, <2>3 DEF Rep, Splits, t
  <1>6. CASE q < m
    <2>1. /\ UNDEF \in IdxOrUndef(n) /\ \A i \in 1 .. m : o[i] \in IdxOrUndef(n)
          /\ l.next \in [Idx(n) -> IdxOrUndef(n)] /\ l.prev \in [Idx(n) -> IdxOrUndef(n)]
      BY <1>1 DEF ListType, Idx, IdxOrUndef, UNDEF
    <2>2. /\ p \in ListType(n, D)
          /\ p.freelist_head = l.freelist_head /\ p.back_idx = o[q]
          /\ p.front_idx = IF q = 1 THEN o[2] ELSE o[1]
          /\ p.prev = [l.prev EXCEPT ![o[q + 1]] = IF q = 1 THEN UNDEF ELSE o[q - 1],
                                     ![o[q]] = o[m]]
          /\ p.next = IF q = 1
                      THEN [l.next EXCEPT ![o[m]] = o[q], ![o[q]] = UNDEF]
                      ELSE [l.next EXCEPT ![o[q - 1]] = o[q + 1], ![o[m]] = o[q], ![o[q]] = UNDEF]
      <3>1. q + 1 \in 1 .. m /\ l.next[o[q]] = o[q + 1] /\ o[q + 1] # UNDEF
        BY <1>1, <1>6
      <3>2. CASE q = 1
        <4>1. l.prev[o[q]] = UNDEF /\ q + 1 = 2 /\ o[q + 1] = o[2] /\ o[q] \in Idx(n) /\ o[q + 1] \in Idx(n) /\ o[m] \in Idx(n)
          BY <1>1, <3>1, <3>2
        <4> DEFINE nx == [l.next EXCEPT ![o[m]] = o[q], ![o[q]] = UNDEF]
                   pv == [l.prev EXCEPT ![o[q + 1]] = UNDEF, ![o[q]] = o[m]]
        <4>2. nx \in [Idx(n) -> IdxOrUndef(n)] /\ pv \in [Idx(n) -> IdxOrUndef(n)]
          <5>1. o[q] \in IdxOrUndef(n) /\ o[m] \in IdxOrUndef(n)
            BY <1>1, <2>1
          <5> QED  BY ONLY <2>1, <4>1, <5>1
        <4>3. p = [listsz |-> l.listsz, freelist_head |-> l.freelist_head, front_idx |-> o[2],
                   back_idx |-> o[q], next |-> nx, prev |-> pv, user |-> l.user]
          BY <1>2, <2>1, <3>1, <3>2, <4>1 DEF ilist2_move_back_by_idx, ListType
        <4>4. o[2] \in IdxOrUndef(n) /\ o[q] \in IdxOrUndef(n)
          BY <1>1, <2>1, <3>1, <3>2, <4>1
        <4>5. /\ l.listsz = n /\ l.freelist_head \in IdxOrUndef(n) /\ l.user \in [Idx(n) -> D]
          BY DEF ListType
        <4> HIDE DEF nx, pv, p
        <4>6. /\ p \in ListType(n, D) /\ p.freelist_head = l.freelist_head
              /\ p.front_idx = o[2] /\ p.back_idx = o[q] /\ p.next = nx /\ p.prev = pv
          BY <4>2, <4>3, <4>4, <4>5 DEF ListType
        <4> QED
          BY <3>1, <3>2, <4>1, <4>6 DEF nx, pv
      <3>3. CASE q # 1
        <4>1. q - 1 \in 1 .. m /\ l.prev[o[q]] = o[q - 1] /\ o[q - 1] # UNDEF
          BY <1>1, <3>3
        <4> DEFINE nx == [l.next EXCEPT ![o[q - 1]] = o[q + 1], ![o[m]] = o[q], ![o[q]] = UNDEF]
                   pv == [l.prev EXCEPT ![o[q + 1]] = o[q - 1], ![o[q]] = o[m]]
        <4>2. nx \in [Idx(n) -> IdxOrUndef(n)] /\ pv \in [Idx(n) -> IdxOrUndef(n)]
          BY <2>1, <1>1, <3>1, <3>3, <4>1
        <4>3. p = [listsz |-> l.listsz, freelist_head |-> l.freelist_head, front_idx |-> o[1],
                   back_idx |-> o[q], next |-> nx, prev |-> pv, user |-> l.user]
          BY <1>2, <2>1, <1>1, <3>1, <3>3, <4>1 DEF ilist2_move_back_by_idx, ListType
        <4>4. o[1] \in IdxOrUndef(n) /\ o[q] \in IdxOrUndef(n)
          BY <1>1, <2>1, <1>1, <3>1, <3>3, <4>1
        <4>5. /\ l.listsz = n /\ l.freelist_head \in IdxOrUndef(n) /\ l.user \in [Idx(n) -> D]
          BY DEF ListType
        <4> HIDE DEF nx, pv, p
        <4>6. /\ p \in ListType(n, D) /\ p.freelist_head = l.freelist_head
              /\ p.front_idx = o[1] /\ p.back_idx = o[q] /\ p.next = nx /\ p.prev = pv
          BY <4>2, <4>3, <4>4, <4>5 DEF ListType
        <4> QED
          BY <1>1, <3>1, <3>3, <4>1, <4>6 DEF nx, pv
      <3> QED  BY <3>2, <3>3
    <2> HIDE DEF p
    <2>3. /\ \A i \in 1 .. m : i # q /\ i # q + 1 => p.prev[o[i]] = l.prev[o[i]]
          /\ \A i \in 1 .. m : i # q /\ i # q - 1 /\ i # m => p.next[o[i]] = l.next[o[i]]
          /\ p.prev[o[q]] = o[m] /\ p.next[o[q]] = UNDEF
          /\ p.prev[o[q + 1]] = IF q = 1 THEN UNDEF ELSE o[q - 1]
          /\ p.next[o[m]] = o[q]
          /\ q # 1 /\ q - 1 # m => p.next[o[q - 1]] = o[q + 1]
      <3>1. m \in 1 .. m /\ q + 1 \in 1 .. m /\ (q # 1 => q - 1 \in 1 .. m)
        BY <1>1, <1>6
      <3> QED  BY <1>1, <1>6, <2>1, <2>2, <3>1
    <2>4. ASSUME NEW i \in 1 .. m
          PROVE  /\ p.next[t[i]] = IF i = m THEN UNDEF ELSE t[i + 1]
                 /\ p.prev[t[i]] = IF i = 1 THEN UNDEF ELSE t[i - 1]
      <3>1. CASE i = m
        <4>1. i # 1 /\ i - 1 \in 1 .. m /\ t[i] = o[q] /\ t[i - 1] = o[m]
          <5>1. m - 1 \in 1 .. m /\ (m - 1) + 1 = m /\ m - 1 # m /\ ~(m - 1 < q)
            BY <1>1, <1>6
          <5> QED  BY <1>1, <1>4, <3>1, <5>1
        <4> QED  BY <2>3, <3>1, <4>1
      <3>2. CASE i < q
        <4>1. /\ i # m /\ i + 1 \in 1 .. m /\ t[i] = o[i] /\ i # q + 1 /\ i # q
              /\ t[i + 1] = IF i = q - 1 THEN o[q + 1] ELSE o[i + 1]
              /\ i # 1 => i - 1 \in 1 .. m /\ t[i - 1] = o[i - 1]
          <5>1. m \in Nat /\ q \in 1 .. m
            BY <1>1
          <5>2. /\ i # m /\ i + 1 \in 1 .. m /\ i + 1 # m /\ i # q + 1 /\ i # q
                /\ (i + 1 < q <=> i # q - 1) /\ (i = q - 1 => (i + 1) + 1 = q + 1)
                /\ i # 1 => i - 1 \in 1 .. m /\ i - 1 # m /\ i - 1 < q
            BY ONLY <1>6, <3>2, <5>1, i \in 1 .. m
          <5> QED BY <1>4, <3>2, <5>2
        <4>2. p.prev[o[i]] = l.prev[o[i]] /\ l.prev[o[i]] = IF i = 1 THEN UNDEF ELSE o[i - 1]
          BY <1>1, <2>3, <4>1
        <4>3. p.next[o[i]] = IF i = q - 1 THEN o[q + 1] ELSE o[i + 1]
          BY <1>1, <1>6, <2>3, <4>1, <3>2
        <4> QED  BY <4>1, <4>2, <4>3
      <3>3. CASE i >= q /\ i < m
        <4>1. /\ i + 1 \in 1 .. m /\ t[i] = o[i + 1]
              /\ t[i + 1] = IF i + 1 = m THEN o[q] ELSE o[i + 2]
              /\ i # 1 => t[i - 1] = IF i = q THEN o[q - 1] ELSE o[i]
          BY <1>1, <1>4, <1>6, <3>3
        <4>2. p.next[o[i + 1]] = IF i + 1 = m THEN o[q] ELSE o[i + 2]
          BY <1>1, <1>6, <2>3, <4>1, <3>3
        <4>3. p.prev[o[i + 1]] = IF i = q THEN (IF q = 1 THEN UNDEF ELSE o[q - 1]) ELSE o[i]
          BY <1>1, <1>6, <2>3, <4>1, <3>3
        <4>4. (i = 1 => q = 1 /\ i = q) /\ (i = q /\ q = 1 => i = 1) /\ i # m
          BY <1>1, <3>3
        <4>5. CASE i = q /\ q = 1
          BY <4>1, <4>2, <4>3, <4>4, <4>5
        <4>6. CASE ~(i = q /\ q = 1)
          BY <4>1, <4>2, <4>3, <4>4, <4>6
        <4> QED  BY <4>5, <4>6
      <3>4. i = m \/ i < q \/ (i >= q /\ i < m)
        BY <1>1
      <3> QED  BY <3>1, <3>2, <3>3, <3>4
    <2>5. IsOrder(p, t, m)
      <3>1. m # 0 /\ t[m] = o[q] /\ t[1] = IF q = 1 THEN o[2] ELSE o[1]
        BY <1>1, <1>4, <1>6
      <3> QED  BY <2>2, <2>4, <3>1 DEF IsOrder
    <2>6. IsFree(p, f, k)
      <3>1. \A j \in 1 .. k : p.next[f[j]] = l.next[f[j]]
        BY <1>1, <1>6, <2>1, <2>2
      <3> QED  BY <2>2, <3>1 DEF Rep, IsFree
    <2>7. Rep(p, n, t, m, f, k)
      BY <1>3, <2>5, <2>6 DEF Rep, Splits
    <2> QED  BY <2>2, <2>7 DEF p, t
  <1>7. q = m \/ q < m
    BY <1>1
  <1> QED  BY <1>5, <1>6, <1>7

LEMMA MoveFrontRep ==
  ASSUME NEW n \in Nat, NEW D, NEW l \in ListType(n, D),
         NEW o, NEW m, NEW f, NEW k, Rep(l, n, o, m, f, k), NEW q \in 1 .. m
  PROVE  /\ ilist2_move_front_by_idx(l, o[q]) \in ListType(n, D)
         /\ Rep(ilist2_move_front_by_idx(l, o[q]), n, ToFront(o, m, q), m, f, k)
  <1> DEFINE p == ilist2_move_front_by_idx(l, o[q])
             t == ToFront(o, m, q)
  <1>1. /\ m \in Nat /\ k \in Nat /\ m > 0
        /\ \A i, j \in 1 .. m : o[i] = o[j] => i = j
        /\ \A i \in 1 .. m : o[i] \in Idx(n) /\ o[i] # UNDEF
        /\ \A i \in 1 .. m, j \in 1 .. k : o[i] # f[j]
        /\ \A j \in 1 .. k : f[j] \in Idx(n)
        /\ \A i \in 1 .. m : /\ l.next[o[i]] = IF i = m THEN UNDEF ELSE o[i + 1]
                             /\ l.prev[o[i]] = IF i = 1 THEN UNDEF ELSE o[i - 1]
    <2>1. RepFacts(l, n, o, m, f, k)
      BY RepNodes
    <2>2. m > 0
      BY <2>1 DEF RepFacts
    <2> QED  BY <2>1, <2>2 DEF RepFacts
  <1>2. l.front_idx = o[1] /\ l.back_idx = o[m]
    BY <1>1 DEF Rep, IsOrder
  <1>3. Chain(t, m, Idx(n)) /\ Nodes(t, m) = Nodes(o, m)
    BY ToFrontChain DEF Rep
  <1>4. t \in [1 .. m -> Idx(n)]
        /\ \A i \in 1 .. m : t[i] = IF i = 1 THEN o[q] ELSE IF i <= q THEN o[i - 1] ELSE o[i]
    BY <1>3 DEF ToFront, Chain
  <1> HIDE DEF t
  <1>5. CASE q = 1
    <2>1. p = l
      BY <1>1, <1>5 DEF ilist2_move_front_by_idx
    <2>2. \A i \in 1 .. m : t[i] = o[i]
      BY <1>1, <1>4, <1>5
    <2>3. IsOrder(l, t, m)
      BY <1>1, <1>2, <2>2 DEF IsOrder
    <2> QED  BY <1>3, <2>1, <2>3 DEF Rep, Splits, t
  <1>6. CASE q > 1
    <2>0. q - 1 \in 1 .. m /\ 1 \in 1 .. m /\ m \in 1 .. m /\ (q # m => q + 1 \in 1 .. m)
      BY <1>1, <1>6
    <2>1. /\ UNDEF \in IdxOrUndef(n) /\ \A i \in 1 .. m : o[i] \in IdxOrUndef(n)
          /\ l.next \in [Idx(n) -> IdxOrUndef(n)] /\ l.prev \in [Idx(n) -> IdxOrUndef(n)]
      BY <1>1 DEF ListType, Idx, IdxOrUndef, UNDEF
    <2>2. /\ p \in ListType(n, D)
          /\ p.freelist_head = l.freelist_head /\ p.front_idx = o[q]
          /\ p.back_idx = IF q = m THEN o[q - 1] ELSE o[m]
          /\ p.next = [l.next EXCEPT ![o[q - 1]] = IF q = m THEN UNDEF ELSE o[q + 1],
                                     ![o[q]] = o[1]]
          /\ p.prev = IF q = m
                      THEN [l.prev EXCEPT ![o[1]] = o[q], ![o[q]] = UNDEF]
                      ELSE [l.prev EXCEPT ![o[q + 1]] = o[q - 1], ![o[1]] = o[q], ![o[q]] = UNDEF]
      <3>1. l.prev[o[q]] = o[q - 1] /\ o[q - 1] # UNDEF
        BY <1>1, <1>6, <2>0
      <3>2. CASE q = m
        <4>1. l.next[o[q]] = UNDEF /\ o[q] \in Idx(n) /\ o[q - 1] \in Idx(n) /\ o[1] \in Idx(n)
          BY <1>1, <2>0, <3>2
        <4> DEFINE nx == [l.next EXCEPT ![o[q - 1]] = UNDEF, ![o[q]] = o[1]]
                   pv == [l.prev EXCEPT ![o[1]] = o[q], ![o[q]] = UNDEF]
        <4>2. nx \in [Idx(n) -> IdxOrUndef(n)] /\ pv \in [Idx(n) -> IdxOrUndef(n)]
          BY <2>1, <2>0, <3>1, <3>2, <4>1
        <4>3. p = [listsz |-> l.listsz, freelist_head |-> l.freelist_head, front_idx |-> o[q],
                   back_idx |-> o[q - 1], next |-> nx, prev |-> pv, user |-> l.user]
          BY <1>2, <2>1, <2>0, <3>1, <3>2, <4>1 DEF ilist2_move_front_by_idx, ListType
        <4>4. o[q] \in IdxOrUndef(n) /\ o[q - 1] \in IdxOrUndef(n)
          BY <1>1, <2>1, <2>0, <3>1, <3>2, <4>1
        <4>5. /\ l.listsz = n /\ l.freelist_head \in IdxOrUndef(n) /\ l.user \in [Idx(n) -> D]
          BY DEF ListType
        <4> HIDE DEF nx, pv, p
        <4>6. /\ p \in ListType(n, D) /\ p.freelist_head = l.freelist_head
              /\ p.front_idx = o[q] /\ p.back_idx = o[q - 1] /\ p.next = nx /\ p.prev = pv
          BY <4>2, <4>3, <4>4, <4>5 DEF ListType
        <4> QED
          BY <2>0, <3>1, <3>2, <4>1, <4>6 DEF nx, pv
      <3>3. CASE q # m
        <4>1. l.next[o[q]] = o[q + 1] /\ o[q + 1] # UNDEF
          BY <1>1, <2>0, <3>3
        <4> DEFINE nx == [l.next EXCEPT ![o[q - 1]] = o[q + 1], ![o[q]] = o[1]]
                   pv == [l.prev EXCEPT ![o[q + 1]] = o[q - 1], ![o[1]] = o[q], ![o[q]] = UNDEF]
        <4>2. nx \in [Idx(n) -> IdxOrUndef(n)] /\ pv \in [Idx(n) -> IdxOrUndef(n)]
          BY <2>1, <1>1, <2>0, <3>1, <3>3, <4>1
        <4>3. p = [listsz |-> l.listsz, freelist_head |-> l.freelist_head, front_idx |-> o[q],
                   back_idx |-> o[m], next |-> nx, prev |-> pv, user |-> l.user]
          BY <1>2, <2>1, <1>1, <2>0, <3>1, <3>3, <4>1 DEF ilist2_move_front_by_idx, ListType
        <4>4. o[q] \in IdxOrUndef(n) /\ o[m] \in IdxOrUndef(n)
          BY <1>1, <2>1, <1>1, <2>0, <3>1, <3>3, <4>1
        <4>5. /\ l.listsz = n /\ l.freelist_head \in IdxOrUndef(n) /\ l.user \in [Idx(n) -> D]
          BY DEF ListType
        <4> HIDE DEF nx, pv, p
        <4>6. /\ p \in ListType(n, D) /\ p.freelist_head = l.freelist_head
              /\ p.front_idx = o[q] /\ p.back_idx = o[m] /\ p.next = nx /\ p.prev = pv
          BY <4>2, <4>3, <4>4, <4>5 DEF ListType
        <4> QED
          BY <1>1, <2>0, <3>1, <3>3, <4>1, <4>6 DEF nx, pv
      <3> QED  BY <3>2, <3>3
    <2> HIDE DEF p
    <2>3. /\ \A i \in 1 .. m : i # q /\ i # q - 1 => p.next[o[i]] = l.next[o[i]]
          /\ \A i \in 1 .. m : i # q /\ i # q + 1 /\ i # 1 => p.prev[o[i]] = l.prev[o[i]]
          /\ p.next[o[q]] = o[1] /\ p.prev[o[q]] = UNDEF
          /\ p.next[o[q - 1]] = IF q = m THEN UNDEF ELSE o[q + 1]
          /\ p.prev[o[1]] = o[q]
          /\ q # m => p.prev[o[q + 1]] = o[q - 1]
      BY <1>1, <1>6, <2>0, <2>1, <2>2
    <2>4. ASSUME NEW i \in 1 .. m
          PROVE  /\ p.next[t[i]] = IF i = m THEN UNDEF ELSE t[i + 1]
                 /\ p.prev[t[i]] = IF i = 1 THEN UNDEF ELSE t[i - 1]
      <3>1. CASE i = 1
        <4>1. i # m /\ i + 1 \in 1 .. m /\ i + 1 # 1 /\ i + 1 <= q /\ (i + 1) - 1 = 1
          BY <1>1, <1>6, <3>1
        <4>2. t[i] = o[q] /\ t[i + 1] = o[1]
          BY <1>4, <3>1, <4>1
        <4> QED  BY <2>3, <3>1, <4>1, <4>2
      <3>2. CASE i > q
        <4>1. /\ i # 1 /\ i - 1 \in 1 .. m /\ t[i] = o[i] /\ i # q - 1 /\ i # q
              /\ t[i - 1] = IF i = q + 1 THEN o[q - 1] ELSE o[i - 1]
              /\ i # m => i + 1 \in 1 .. m /\ t[i + 1] = o[i + 1]
          <5>1. /\ i # 1 /\ i - 1 \in 1 .. m /\ i # q - 1 /\ i # q /\ ~(i <= q) /\ i - 1 # 1
                /\ (i - 1 <= q <=> i = q + 1) /\ (i = q + 1 => (i - 1) - 1 = q - 1)
                /\ (i # m => i + 1 \in 1 .. m /\ i + 1 # 1 /\ ~(i + 1 <= q))
            BY <1>1, <1>6, <3>2
          <5> QED  BY <1>4, <5>1
        <4>2. p.next[o[i]] = IF i = m THEN UNDEF ELSE o[i + 1]
          BY <1>1, <2>3, <4>1
        <4>3. p.prev[o[i]] = IF i = q + 1 THEN o[q - 1] ELSE o[i - 1]
          BY <1>1, <1>6, <2>3, <4>1, <3>2
        <4> QED  BY <4>1, <4>2, <4>3
      <3>3. CASE i <= q /\ i > 1
        <4>1. /\ i - 1 \in 1 .. m /\ t[i] = o[i - 1]
              /\ t[i - 1] = IF i - 1 = 1 THEN o[q] ELSE o[i - 2]
              /\ i # m => t[i + 1] = IF i = q THEN o[q + 1] ELSE o[i]
          <5>1. /\ i - 1 \in 1 .. m /\ i # 1 /\ i <= q /\ i - 1 <= q /\ (i - 1) - 1 = i - 2
                /\ (i # m => /\ i + 1 \in 1 .. m /\ i + 1 # 1 /\ (i + 1) - 1 = i
                             /\ (i + 1 <= q <=> i # q))
            BY <1>1, <1>6, <3>3
          <5> QED  BY <1>4, <5>1
        <4>2. p.prev[o[i - 1]] = IF i - 1 = 1 THEN o[q] ELSE o[i - 2]
          BY <1>1, <1>6, <2>3, <4>1, <3>3
        <4>3. p.next[o[i - 1]] = IF i = q THEN (IF q = m THEN UNDEF ELSE o[q + 1]) ELSE o[i]
          BY <1>1, <1>6, <2>3, <4>1, <3>3
        <4>4. (i = m => q = m /\ i = q) /\ (i = q /\ q = m => i = m) /\ i # 1
          BY <1>1, <3>3
        <4>5. CASE i = q /\ q = m
          BY <4>1, <4>2, <4>3, <4>4, <4>5
        <4>6. CASE ~(i = q /\ q = m)
          BY <4>1, <4>2, <4>3, <4>4, <4>6
        <4> QED  BY <4>5, <4>6
      <3>4. i = 1 \/ i > q \/ (i <= q /\ i > 1)
        BY <1>1
      <3> QED  BY <3>1, <3>2, <3>3, <3>4
    <2>5. IsOrder(p, t, m)
      <3>1. m # 0 /\ t[1] = o[q] /\ t[m] = IF q = m THEN o[q - 1] ELSE o[m]
        BY <1>1, <1>4, <1>6
      <3> QED  BY <2>2, <2>4, <3>1 DEF IsOrder
    <2>6. IsFree(p, f, k)
      <3>1. \A j \in 1 .. k : p.next[f[j]] = l.next[f[j]]
        BY <1>1, <2>0, <2>1, <2>2
      <3> QED  BY <2>2, <3>1 DEF Rep, IsFree
    <2>7. Rep(p, n, t, m, f, k)
      BY <1>3, <2>5, <2>6 DEF Rep, Splits
    <2> QED  BY <2>2, <2>7 DEF p, t
  <1>7. q = 1 \/ q > 1
    BY <1>1
  <1> QED  BY <1>5, <1>6, <1>7

-----------------------------------------------------------------------------
(* The component.                                                          *)

\* IsList is Rep with the witnesses bounded.
LEMMA IsListRep ==
  ASSUME NEW n \in Nat, NEW l, NEW S
  PROVE  IsList(l, n, S) <=> \E o, m, f, k : Rep(l, n, o, m, f, k) /\ S = Nodes(o, m)
  <1>1. ASSUME IsList(l, n, S)
        PROVE  \E o, m, f, k : Rep(l, n, o, m, f, k) /\ S = Nodes(o, m)
    <2>1. PICK m \in 0 .. n : \E o \in [1 .. m -> Idx(n)] :
               /\ Chain(o, m, Idx(n)) /\ IsOrder(l, o, m) /\ S = Nodes(o, m)
               /\ \E k \in 0 .. n : \E f \in [1 .. k -> Idx(n)] :
                    Chain(f, k, Idx(n)) /\ IsFree(l, f, k) /\ Splits(n, o, m, f, k)
      BY <1>1 DEF IsList
    <2>2. PICK o \in [1 .. m -> Idx(n)] :
               /\ Chain(o, m, Idx(n)) /\ IsOrder(l, o, m) /\ S = Nodes(o, m)
               /\ \E k \in 0 .. n : \E f \in [1 .. k -> Idx(n)] :
                    Chain(f, k, Idx(n)) /\ IsFree(l, f, k) /\ Splits(n, o, m, f, k)
      BY <2>1
    <2>3. PICK k \in 0 .. n : \E f \in [1 .. k -> Idx(n)] :
               Chain(f, k, Idx(n)) /\ IsFree(l, f, k) /\ Splits(n, o, m, f, k)
      BY <2>2
    <2>4. PICK f \in [1 .. k -> Idx(n)] :
               Chain(f, k, Idx(n)) /\ IsFree(l, f, k) /\ Splits(n, o, m, f, k)
      BY <2>3
    <2>5. Rep(l, n, o, m, f, k) /\ S = Nodes(o, m)
      BY <2>2, <2>4 DEF Rep
    <2> QED  BY <2>5
  <1>2. ASSUME NEW o, NEW m, NEW f, NEW k, Rep(l, n, o, m, f, k), S = Nodes(o, m)
        PROVE  IsList(l, n, S)
    <2>1. RepFacts(l, n, o, m, f, k)
      BY <1>2, RepNodes
    <2>2. m \in 0 .. n /\ k \in 0 .. n
      BY <2>1 DEF RepFacts
    <2>3. o \in [1 .. m -> Idx(n)] /\ f \in [1 .. k -> Idx(n)]
      BY <1>2 DEF Rep, Chain
    <2> QED  BY <1>2, <2>2, <2>3 DEF IsList, Rep
  <1> QED  BY <1>1, <1>2
\* Only the puts store data.
LEMMA UsersKept ==
  ASSUME NEW n \in Nat, NEW D, NEW l \in ListType(n, D)
  PROVE  /\ ilist2_clear(l).user = l.user
         /\ ilist2_pop_back(l).user = l.user
         /\ ilist2_pop_front(l).user = l.user
         /\ \A idx : /\ ilist2_move_back_by_idx(l, idx).user = l.user
                     /\ ilist2_move_front_by_idx(l, idx).user = l.user
  <1>1. ilist2_clear(l).user = l.user
    BY DEF ListType, ilist2_clear
  <1>2. ilist2_pop_back(l).user = l.user
    BY DEF ListType, ilist2_pop_back
  <1>3. ilist2_pop_front(l).user = l.user
    BY DEF ListType, ilist2_pop_front
  <1>4. \A idx : ilist2_move_back_by_idx(l, idx).user = l.user
    BY DEF ListType, ilist2_move_back_by_idx
  <1>5. \A idx : ilist2_move_front_by_idx(l, idx).user = l.user
    BY DEF ListType, ilist2_move_front_by_idx
  <1> QED  BY <1>1, <1>2, <1>3, <1>4, <1>5

LEMMA UsersPut ==
  ASSUME NEW n \in Nat, NEW D, NEW l \in ListType(n, D), NEW d \in D, l.freelist_head # UNDEF
  PROVE  /\ ilist2_put_back(l, d).user = [l.user EXCEPT ![l.freelist_head] = d]
         /\ ilist2_put_front(l, d).user = [l.user EXCEPT ![l.freelist_head] = d]
  <1>1. ilist2_touch_back(l).user = l.user /\ "user" \in DOMAIN ilist2_touch_back(l)
    BY DEF ListType, ilist2_touch_back, ilist2_touch_new
  <1>2. ilist2_touch_front(l).user = l.user /\ "user" \in DOMAIN ilist2_touch_front(l)
    BY DEF ListType, ilist2_touch_front, ilist2_touch_new
  <1>3. ilist2_put_back(l, d).user = [l.user EXCEPT ![l.freelist_head] = d]
    BY <1>1 DEF ilist2_put_back
  <1>4. ilist2_put_front(l, d).user = [l.user EXCEPT ![l.freelist_head] = d]
    BY <1>2 DEF ilist2_put_front
  <1> QED  BY <1>3, <1>4
-----------------------------------------------------------------------------
(* The walk of the links.                                                  *)

\* A walk as its definition has it.
IsWalk(g, l, start) ==
  g = [i \in 0 .. l.listsz |->
         IF i = 0 THEN start
         ELSE IF g[i - 1] = UNDEF THEN UNDEF ELSE l.next[g[i - 1]]]

LEMMA OneWalk ==
  ASSUME NEW l, l.listsz \in Nat, NEW start,
         NEW g, NEW h, IsWalk(g, l, start), IsWalk(h, l, start)
  PROVE  g = h
  <1> DEFINE S == {i \in 0 .. l.listsz : g[i] = h[i]}
  <1>1. 0 \in S
    BY DEF IsWalk
  <1>2. ASSUME NEW i \in 1 .. l.listsz, i - 1 \in S PROVE i \in S
    <2>1. i \in 0 .. l.listsz /\ i # 0 /\ g[i - 1] = h[i - 1]
      BY <1>2
    <2>2. /\ g[i] = IF g[i - 1] = UNDEF THEN UNDEF ELSE l.next[g[i - 1]]
          /\ h[i] = IF h[i - 1] = UNDEF THEN UNDEF ELSE l.next[h[i - 1]]
      BY <2>1 DEF IsWalk
    <2> QED  BY <2>1, <2>2
  <1> HIDE DEF S
  <1>3. 0 .. l.listsz \subseteq S
    BY <1>1, <1>2, Upwards
  <1>4. \A i \in 0 .. l.listsz : g[i] = h[i]
    BY <1>3 DEF S
  <1>5. /\ g = [i \in 0 .. l.listsz |-> g[i]]
        /\ h = [i \in 0 .. l.listsz |-> h[i]]
    BY Zenon DEF IsWalk
  <1> QED  BY <1>4, <1>5

LEMMA WalkIs ==
  ASSUME NEW l, l.listsz \in Nat, NEW start, NEW g, IsWalk(g, l, start)
  PROVE  WalkFrom(l, start) = g
  <1>1. WalkFrom(l, start) = CHOOSE h : IsWalk(h, l, start)
    BY DEF WalkFrom, IsWalk
  <1>2. IsWalk(CHOOSE h : IsWalk(h, l, start), l, start)
    OBVIOUS
  <1> QED  BY <1>1, <1>2, OneWalk

\* The walk from front_idx meets the nodes of the order, and ends.
LEMMA WalkMeets ==
  ASSUME NEW n \in Nat, NEW D, NEW l \in ListType(n, D),
         NEW o, NEW m, NEW f, NEW k, Rep(l, n, o, m, f, k)
  PROVE  WalkLen(l, l.front_idx) = m /\ OrderOf(l) = o
  <1> DEFINE g == [i \in 0 .. n |-> IF i < m THEN o[i + 1] ELSE UNDEF]
  <1>1. RepFacts(l, n, o, m, f, k) /\ l.listsz = n
    BY RepNodes DEF ListType
  <1>2. m \in 0 .. n /\ \A i \in 1 .. m : o[i] # UNDEF
    BY <1>1 DEF RepFacts
  <1>3. WalkFrom(l, l.front_idx) = g
    <2>1. ASSUME NEW i \in 0 .. n
          PROVE  g[i] = IF i = 0 THEN l.front_idx
                        ELSE IF g[i - 1] = UNDEF THEN UNDEF ELSE l.next[g[i - 1]]
      <3>1. CASE i = 0
        BY <1>2, <3>1 DEF Rep, IsOrder
      <3>2. CASE i # 0 /\ i <= m
        <4>1. i \in 1 .. m /\ g[i - 1] = o[i] /\ o[i] # UNDEF
          BY <1>2, <3>2
        <4>2. l.next[o[i]] = IF i = m THEN UNDEF ELSE o[i + 1]
          BY <1>1, <4>1 DEF RepFacts
        <4> QED  BY <1>2, <3>2, <4>1, <4>2
      <3>3. CASE i > m
        <4>1. i # 0 /\ g[i - 1] = UNDEF /\ g[i] = UNDEF
          BY <1>2, <3>3
        <4> QED  BY <4>1
      <3>4. i = 0 \/ (i # 0 /\ i <= m) \/ i > m
        BY <1>2
      <3> QED  BY <3>1, <3>2, <3>3, <3>4
    <2>2. IsWalk(g, l, l.front_idx)
      <3>1. g = [i \in 0 .. n |-> g[i]]
        OBVIOUS
      <3> HIDE DEF g
      <3> QED  BY <1>1, <2>1, <3>1 DEF IsWalk
    <2> HIDE DEF g
    <2> QED  BY <1>1, <2>2, WalkIs
  <1>4. WalkLen(l, l.front_idx) = m
    <2> DEFINE Ends(i) == /\ g[i] = UNDEF \/ i = n
                          /\ \A j \in 0 .. i - 1 : g[j] # UNDEF
    <2>1. Ends(m)
      <3>1. g[m] = UNDEF
        BY <1>2
      <3>2. ASSUME NEW j \in 0 .. m - 1 PROVE g[j] # UNDEF
        <4>1. j \in 0 .. n /\ j < m /\ j + 1 \in 1 .. m
          BY <1>2
        <4>2. g[j] = o[j + 1]
          BY <4>1
        <4> QED  BY <1>2, <4>1, <4>2
      <3> QED  BY <3>1, <3>2
    <2>2. ASSUME NEW i \in 0 .. n, Ends(i) PROVE i = m
      <3>1. g[m] = UNDEF \/ m = n
        BY <1>2
      <3>2. \A j \in 0 .. m - 1 : j \in 0 .. n /\ g[j] # UNDEF
        BY <1>2
      <3> HIDE DEF g
      <3>3. ~(i < m)
        BY <1>2, <2>2, <3>2
      <3>4. ~(m < i)
        BY <1>2, <2>2, <3>1
      <3> QED  BY <1>2, <3>3, <3>4
    <2>3. WalkLen(l, l.front_idx) = CHOOSE i \in 0 .. n : Ends(i)
      BY <1>1, <1>3 DEF WalkLen
    <2> HIDE DEF Ends
    <2> QED  BY <1>2, <2>1, <2>2, <2>3
  <1>5. o \in [1 .. m -> Idx(n)]
    BY DEF Rep, Chain
  <1>6. \A i \in 1 .. m : g[i - 1] = o[i]
    BY <1>2
  <1>7. OrderOf(l) = [i \in 1 .. m |-> g[i - 1]]
    <2> HIDE DEF g
    <2> QED  BY <1>3, <1>4 DEF OrderOf
  <1> HIDE DEF g
  <1> QED  BY <1>4, <1>5, <1>6, <1>7
=============================================================================
