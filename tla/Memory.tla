-------------------------------- MODULE Memory --------------------------------
(***************************************************************************)
(* Memory contexts (memory.c): regions that hand out blocks from one end   *)
(* to the other, form a tree, and are reset and dropped with everything    *)
(* below them; the stack of current contexts; and the growing array that   *)
(* lives in a block (array.c).                                             *)
(*                                                                         *)
(* Sizes are in units of the largest alignment.  What blocks hold is left  *)
(* out; mmap succeeds.  Callers use a context while it is mapped and a     *)
(* block until they free it, or its context is reset or dropped: they      *)
(* neither reset nor drop what is on the stack of current contexts.        *)
(*                                                                         *)
(* A block is rewound when its context has taken it back and it is in use  *)
(* all the same: one whose growth was refused after the context had been   *)
(* rewound to it, and the array of bc_cont from each cmd_reset on.  To     *)
(* free or grow such a block fails an assertion, "Invalid pointer in free", *)
(* in builds that have them; here, as in the others, it goes on.  No       *)
(* caller frees one, and only the array is grown.                          *)
(***************************************************************************)
EXTENDS Integers, Sequences, FiniteSets

CONSTANTS Contexts, Root,  \* Root is the one of memory_init
          Home,            \* the context arrays are put in, as bc_cont or current_cont
          ContextSize,     \* units of a context
          Sizes,           \* bound: the sizes callers ask for
          MaxChildren,     \* CONTEXT_MAX_CHILDREN
          StackMax,        \* CONTEXT_STACK_MAX
          DefaultCapacity, \* ARRAY_DEFAULT_CAPACITY
          MaxHeld,         \* bound: blocks held at a time, the array's not counted
          NULL

\* What is assumed of them: NULL is no context and no block.
ASSUME MemoryAssumption ==
  /\ Root \in Contexts /\ Home \in Contexts /\ NULL \notin Contexts
  /\ {ContextSize, MaxChildren, StackMax, DefaultCapacity, MaxHeld} \subseteq Nat \ {0}
  /\ Sizes \subseteq Nat \ {0}
  /\ NULL \notin [ctx : Contexts, at : Nat, size : Nat]

VARIABLES
  context,    \* the headers of the contexts
  held,       \* the blocks callers use, but for
  rewound,    \* those that their contexts have taken back
  context_stack,  \* and on top g_context
  array,      \* one array; torn: a growth has failed; rewound: its block is
  private     \* nothing but the array is put in Home, as in bc_cont

memoryvars == <<context, held, rewound, context_stack, array, private>>

Header == 1        \* sizeof(BumpContextHeader)
Start == 1         \* align_max(sizeof(BumpContext))
ArrayHeader == 1   \* sizeof(Array)

Slots == 1 .. MaxChildren
NoChildren == [i \in Slots |-> NULL]
Unmapped == [kind |-> "none", current |-> Start, parent |-> NULL, children |-> NoChildren]
NoArray == [block |-> NULL, size |-> 0, capacity |-> 0, torn |-> FALSE, rewound |-> FALSE]

Mapped(c) == context[c].kind # "none"
Current == context_stack[Len(context_stack)]

\* bump_context_create, linear_context_create.
context_create(kind) == [Unmapped EXCEPT !.kind = kind]

MemoryInit ==
  /\ context = [c \in Contexts |-> IF c = Root THEN context_create("bump") ELSE Unmapped]
  /\ held = {} /\ rewound = {} /\ context_stack = <<Root>>
  /\ array = NoArray /\ private \in BOOLEAN

-----------------------------------------------------------------------------
(* The tree.                                                               *)

\* bump_context_add_child: the first free slot, or none and no parent.
add_child(cs, c, child) ==
  LET free == {i \in Slots : cs[c].children[i] = NULL}
  IN  IF free = {} THEN cs
      ELSE [cs EXCEPT ![c].children[CHOOSE i \in free : \A j \in free : i <= j] = child,
                      ![child].parent = c]

Children(c) == {context[c].children[i] : i \in Slots} \ {NULL}

\* Every context that dropping c drops: the least set with c in it that has the
\* children of its members.
Below(c) == {d \in Contexts : \A S \in SUBSET Contexts :
                                (c \in S /\ \A e \in S : Children(e) \subseteq S) => d \in S}

OnStack == {context_stack[i] : i \in DOMAIN context_stack}

\* Blocks go with their contexts, and so does an array, but for that of bc_cont,
\* which cmd_reset only clears.
Gone(cs) ==
  /\ held' = {p \in held : p.ctx \notin cs}
  /\ rewound' = {p \in rewound : p.ctx \notin cs}
  /\ array' = IF array.block = NULL \/ array.block.ctx \notin cs THEN array
              ELSE IF private /\ (Mapped(Home))' THEN [array EXCEPT !.size = 0, !.rewound = TRUE]
              ELSE NoArray

\* As session_run and cmd_init do; they do not ask whether there was a slot.
Create(c, kind, parent) ==
  /\ ~Mapped(c) /\ Mapped(parent)
  /\ context' = add_child([context EXCEPT ![c] = context_create(kind)], parent, c)
  /\ UNCHANGED <<held, rewound, context_stack, array, private>>

bump_context_reset(c) ==
  /\ (Below(c) \ {c}) \cap OnStack = {}
  /\ context' = [d \in Contexts |->
                   IF d = c THEN [context[c] EXCEPT !.current = Start, !.children = NoChildren]
                   ELSE IF d \in Below(c) THEN Unmapped ELSE context[d]]
  /\ Gone(Below(c))
  /\ UNCHANGED <<context_stack, private>>

\* Mutant: the parent is not told.
bump_context_drop_quietly(c) ==
  /\ Below(c) \cap OnStack = {}
  /\ context' = [d \in Contexts |-> IF d \in Below(c) THEN Unmapped ELSE context[d]]
  /\ Gone(Below(c))
  /\ UNCHANGED <<context_stack, private>>

\* The children first, each erased from the slots of its parent.
bump_context_drop(c) ==
  /\ Below(c) \cap OnStack = {}
  /\ context' = [d \in Contexts |->
                   IF d \in Below(c) THEN Unmapped
                   ELSE [context[d] EXCEPT !.children =
                           [i \in Slots |-> IF @[i] = c THEN NULL ELSE @[i]]]]
  /\ Gone(Below(c))
  /\ UNCHANGED <<context_stack, private>>

context_push(c) == /\ Len(context_stack) <= StackMax
                   /\ context_stack' = Append(context_stack, c)
                   /\ UNCHANGED <<context, held, rewound, array, private>>
context_pop == /\ Len(context_stack) > 1
               /\ context_stack' = SubSeq(context_stack, 1, Len(context_stack) - 1)
               /\ UNCHANGED <<context, held, rewound, array, private>>

-----------------------------------------------------------------------------
(* Blocks: where the data begin, and the size that the header holds.       *)

\* bump_context_alloc, linear_context_alloc.
alloc(cs, c, sz) ==
  LET at == cs[c].current + (IF cs[c].kind = "bump" THEN Header ELSE 0)
  IN  IF at + sz > ContextSize THEN [contexts |-> cs, p |-> NULL]
      ELSE [contexts |-> [cs EXCEPT ![c].current = at + sz],
            p |-> [ctx |-> c, at |-> at, size |-> sz]]

\* Mutant: whatever the place of the block.
bump_context_free_any(cs, p) == [cs EXCEPT ![p.ctx].current = p.at - Header]

\* Only the last block is given back.
bump_context_free(cs, p) ==
  IF p.at + p.size = cs[p.ctx].current THEN [cs EXCEPT ![p.ctx].current = p.at - Header]
  ELSE cs

\* When there is no room the last block has been given back all the same.
bump_context_realloc(cs, p, sz) ==
  IF sz > p.size THEN alloc(bump_context_free(cs, p), p.ctx, sz)
  ELSE [contexts |-> cs, p |-> p]

ForBlocks(c) == ~(private /\ c = Home)

Alloc(sz) == LET new == alloc(context, Current, sz)
             IN  /\ ForBlocks(Current) /\ Cardinality(held) + Cardinality(rewound) < MaxHeld
                 /\ context' = new.contexts
                 /\ held' = held \cup ({new.p} \ {NULL})
                 /\ UNCHANGED <<rewound, context_stack, array, private>>

Free(p) == /\ context[p.ctx].kind = "bump"
           /\ context' = bump_context_free(context, p)
           /\ held' = held \ {p}
           /\ UNCHANGED <<rewound, context_stack, array, private>>

\* A caller that is returned NULL still has its block, rewound if it was the last.
Realloc(p, sz) ==
  LET new == bump_context_realloc(context, p, sz)
  IN  /\ context[p.ctx].kind = "bump"
      /\ context' = new.contexts
      /\ \/ new.p # NULL /\ held' = (held \ {p}) \cup {new.p} /\ UNCHANGED rewound
         \/ new.p = NULL /\ new.contexts = context /\ UNCHANGED <<held, rewound>>
         \/ /\ new.p = NULL /\ new.contexts # context
            /\ held' = held \ {p} /\ rewound' = rewound \cup {p}
      /\ UNCHANGED <<context_stack, array, private>>

-----------------------------------------------------------------------------
(* The array.                                                              *)

Bytes(capacity) == ArrayHeader + capacity

\* array_raise_fn.  A growth that fails leaves the doubled capacity behind, and the
\* block rewound if it was the last; one that is given memory has a block again.
array_raise(cs, a) ==
  LET capacity == IF a.capacity = 0 THEN 1 ELSE 2 * a.capacity
      new == bump_context_realloc(cs, a.block, Bytes(capacity))
  IN  IF a.size < a.capacity THEN [contexts |-> cs, a |-> [a EXCEPT !.size = @ + 1]]
      ELSE [contexts |-> new.contexts,
            a |-> IF new.p = NULL
                  THEN [a EXCEPT !.capacity = capacity, !.torn = TRUE,
                                 !.rewound = a.rewound \/ new.contexts # cs]
                  ELSE [a EXCEPT !.block = new.p, !.size = @ + 1, !.capacity = capacity,
                                 !.rewound = a.rewound /\ new.contexts = cs]]

\* array_put, in Home as bc_put and cmd_current_put do, which go on whatever it
\* returns.  What a torn array grows into is not followed.
array_put ==
  LET new == alloc(context, Home, Bytes(DefaultCapacity))
      created == [NoArray EXCEPT !.block = new.p, !.capacity = DefaultCapacity]
      raised == IF array.block # NULL THEN array_raise(context, array)
                ELSE IF new.p # NULL THEN array_raise(new.contexts, created)
                ELSE [contexts |-> context, a |-> NoArray]
  IN  /\ context[Home].kind = "bump"
      /\ Len(context_stack) <= StackMax
      /\ array.torn => array.size < array.capacity
      /\ context' = raised.contexts /\ array' = raised.a
      /\ UNCHANGED <<held, rewound, context_stack, private>>

\* array_reduce_fn, by array_pop.  The block keeps its size.
array_pop ==
  /\ array.size > 0
  /\ LET size == array.size - 1
     IN  array' = [array EXCEPT !.size = size,
                     !.capacity = IF size = @ \div 2 /\ @ > 4 THEN @ \div 2 ELSE @]
  /\ UNCHANGED <<context, held, rewound, context_stack, private>>

array_clear == /\ array.block # NULL /\ array' = [array EXCEPT !.size = 0]
               /\ UNCHANGED <<context, held, rewound, context_stack, private>>

array_free == /\ array.block # NULL /\ ~array.rewound
              /\ context' = bump_context_free(context, array.block)
              /\ array' = NoArray
              /\ UNCHANGED <<held, rewound, context_stack, private>>

-----------------------------------------------------------------------------

MemoryNext ==
  \/ \E c \in Contexts, parent \in Contexts, kind \in {"bump", "linear"} :
       Create(c, kind, parent)
  \/ \E c \in {d \in Contexts : Mapped(d)} :
       bump_context_reset(c) \/ bump_context_drop(c) \/ context_push(c)
  \/ context_pop
  \/ \E sz \in Sizes : Alloc(sz)
  \/ \E p \in held : Free(p) \/ \E sz \in Sizes : Realloc(p, sz)
  \/ array_put \/ array_pop \/ array_clear \/ array_free

MemorySpec == MemoryInit /\ [][MemoryNext]_memoryvars

-----------------------------------------------------------------------------

Blocks == [ctx : Contexts, at : Start .. ContextSize, size : 1 .. ContextSize]

MemoryTypeOK ==
  /\ context \in [Contexts -> [kind : {"none", "bump", "linear"}, current : Start .. ContextSize,
                               parent : Contexts \cup {NULL},
                               children : [Slots -> Contexts \cup {NULL}]]]
  /\ held \cup rewound \subseteq Blocks /\ array.block \in Blocks \cup {NULL}
  /\ array.size \in 0 .. array.capacity
  /\ context_stack \in Seq({c \in Contexts : Mapped(c)}) /\ Len(context_stack) \in 1 .. StackMax + 1

\* No two blocks share a unit, and each lies in the used part of a mapped context,
\* where memory.c asserts that it is when it is freed or grown; but for rewound blocks,
\* of which all that holds is that they are in their context.
Apart ==
  LET inUse == held \cup (IF array.block = NULL \/ array.rewound THEN {} ELSE {array.block})
  IN  /\ \A p \in inUse : Mapped(p.ctx) /\ p.at + p.size <= context[p.ctx].current
      /\ \A p, q \in inUse : p # q /\ p.ctx = q.ctx =>
           \/ p.at + p.size + (IF context[p.ctx].kind = "bump" THEN Header ELSE 0) <= q.at
           \/ q.at + q.size + (IF context[p.ctx].kind = "bump" THEN Header ELSE 0) <= p.at
      /\ \A p \in rewound : Mapped(p.ctx) /\ p.at + p.size <= ContextSize

\* The elements of an array fit its block until a growth fails, and the block its
\* context; the array that cmd_reset leaves in a context it has reset is still where
\* the first block of that context will be put, so that a build without assertions
\* grows it in its place.
ArrayFits ==
  array.block # NULL =>
    /\ array.block.at + array.block.size <= ContextSize
    /\ ~array.torn => ArrayHeader + array.capacity <= array.block.size
    /\ array.rewound /\ ~array.torn =>
         array.block.at = Start + Header /\ context[Home].current = Start

\* memory.c, array.c, cmd.c: whatever was freed, grown, refused, reset and dropped
\* before, blocks do not overlap and arrays fit theirs, but for those named: blocks
\* rewound by a refused growth or by cmd_reset, arrays torn by a refused growth.
BlocksApart == MemoryTypeOK /\ Apart /\ ArrayFits

\* memory.c: parents and slots tell the same tree, with nothing unmapped in it, no
\* context in two slots and none below itself: a drop reaches every context below
\* once.
OneTree ==
  \A c, d \in Contexts :
    LET slots == {i \in Slots : context[c].children[i] = d}
    IN  /\ slots # {} => Mapped(c) /\ Mapped(d) /\ context[d].parent = c /\ c \notin Below(d)
        /\ context[d].parent = c => Cardinality(slots) = 1
=============================================================================
