--------------------------------- MODULE Buddy ---------------------------------
(***************************************************************************)
(* The buddy memory manager (Kernel/memory/buddy_mm.c): a binary tree of   *)
(* nodes numbered from 1, the children of n being 2n and 2n + 1, kept at   *)
(* the beginning of the heap.  Addresses are offsets from heap_base.       *)
(***************************************************************************)
EXTENDS Integers, FiniteSetsExt

CONSTANTS
  MIN_BLOCK,
  Pointers,     \* the variables callers keep pointers in
  HeapSizes,    \* sizes mm_init may be called with
  Sizes         \* sizes mm_alloc may be called with

VARIABLES
  heap_size,    \* the argument of mm_init
  total_size,   \* the bytes it hands out, and the levels of the tree,
  levels,       \* both set by mm_init
  tree,         \* FREE, USED, SPLIT or FULL for each node
  used_mem,
  held          \* the block each pointer refers to, Nothing after mm_free

layout    == <<heap_size, total_size, levels>>
buddyvars == <<layout, tree, used_mem, held>>

NodeStates == {"FREE", "USED", "SPLIT", "FULL"}
Nothing    == [at |-> 0, len |-> 0]      \* NULL

-----------------------------------------------------------------------------
(* mm_init.                                                                *)

\* my_log2 and node_level
Log2(n) == CHOOSE r \in 0..n : 2^r <= n /\ n < 2^(r + 1)
FloorPow2(n) == 2^Log2(n)

\* Mutant: the levels are counted from 0.
PreLevelsFromZero == Log2(heap_size \div MIN_BLOCK)
PreLevels == Log2(heap_size \div MIN_BLOCK) + 1
TreeSize  == 2^PreLevels

Manageable ==
  IF /\ heap_size >= 4 * MIN_BLOCK
     /\ TreeSize < heap_size
     /\ FloorPow2(heap_size - TreeSize) >= MIN_BLOCK
    THEN FloorPow2(heap_size - TreeSize) ELSE 0
Nodes  == 1..(2^levels - 1)

-----------------------------------------------------------------------------
(* The tree.                                                               *)

Level(n)     == Log2(n)
Parent(n)    == n \div 2
Sibling(n)   == IF n % 2 = 0 THEN n + 1 ELSE n - 1
Ancestors(n) == {n \div 2^k : k \in 1..Level(n)}
BlockSize(n) == total_size \div 2^Level(n)
Address(n)   == (n - 2^Level(n)) * BlockSize(n)

\* Mutant: one child in use makes a FULL parent.
JoinedFullTooSoon(l, r) ==
  IF l = "FREE" /\ r = "FREE" THEN "FREE"
  ELSE IF {l, r} \cap {"USED", "FULL"} # {} THEN "FULL"
  ELSE "SPLIT"
Joined(l, r) ==
  IF l = "FREE" /\ r = "FREE" THEN "FREE"
  ELSE IF {l, r} \subseteq {"USED", "FULL"} THEN "FULL"
  ELSE "SPLIT"

\* update_parent: up to the first ancestor that does not change.
UpdateParent(t, n) ==
  LET up[k \in 0..Level(n)] ==
        IF k = 0 THEN [tree |-> t, stop |-> FALSE]
        ELSE LET now == up[k - 1].tree
                 a   == n \div 2^k
                 new == Joined(now[2 * a], now[2 * a + 1])
             IN  IF up[k - 1].stop \/ now[a] = new
                   THEN [tree |-> now, stop |-> TRUE]
                   ELSE [tree |-> [now EXCEPT ![a] = new], stop |-> FALSE]
  IN  up[Level(n)].tree

\* The state in which alloc_recursive finds a node: what is below a FREE one
\* becomes FREE as the search splits it.
Found(n) == IF \E a \in Ancestors(n) : tree[a] = "FREE" THEN "FREE" ELSE tree[n]

Candidates(level) ==
  {n \in Nodes : /\ Level(n) = level
                 /\ Found(n) = "FREE"
                 /\ \A a \in Ancestors(n) : Found(a) \in {"FREE", "SPLIT"}}

\* The tree once the search has split its way down to n.
SplitTo(n) ==
  [m \in Nodes |->
     IF m \in Ancestors(n) /\ Found(m) = "FREE" THEN "SPLIT"
     ELSE IF Parent(m) \in Ancestors(n) /\ Found(Parent(m)) = "FREE" THEN "FREE"
     ELSE tree[m]]

\* mm_free merges with FREE siblings upwards.  Mutant: with any.
MergeEndsAtRoot(t, n) == Level(n)
MergeEnds(t, n) ==
  Max({k \in 0..Level(n) :
         \A j \in 0..(k - 1) : t[Sibling(n \div 2^j)] = "FREE"})

-----------------------------------------------------------------------------
BuddyInit ==
  /\ heap_size \in HeapSizes
  /\ total_size = Manageable
  /\ levels = IF total_size = 0 THEN 0 ELSE Log2(total_size \div MIN_BLOCK) + 1
  /\ tree = [n \in Nodes |-> "FREE"]
  /\ used_mem = 0
  /\ held = [p \in Pointers |-> Nothing]

\* The smallest block of the tree that has room for size bytes.
TargetLevel(size) ==
  Max({l \in 0..(levels - 1) : total_size \div 2^l >= size})

Fitting(size) ==
  IF size \in 1..total_size THEN Candidates(TargetLevel(size)) ELSE {}

MmAlloc(p, size) ==
  /\ Fitting(size) # {}
  /\ LET n == Min(Fitting(size)) IN
       /\ tree' = UpdateParent([SplitTo(n) EXCEPT ![n] = "USED"], n)
       /\ used_mem' = used_mem + BlockSize(n)
       /\ held' = [held EXCEPT ![p] = [at |-> Address(n), len |-> BlockSize(n)]]
  /\ UNCHANGED layout

MmAllocNull(size) == Fitting(size) = {} /\ UNCHANGED buddyvars

\* Where blocks begin and halfway: bound of the model.
Addresses == {k * (MIN_BLOCK \div 2) : k \in 0..(2 * (total_size \div MIN_BLOCK))}

UsedAt(at) == {n \in Nodes : tree[n] = "USED" /\ Address(n) = at}

\* mm_free of an address of the heap, from the leaves up.  The caller that
\* held the block forgets it.
MmFree(at) ==
  /\ UsedAt(at) # {}
  /\ LET n   == Max(UsedAt(at))
         top == MergeEnds(tree, n)
         free == [m \in Nodes |-> IF \E k \in 0..top : m = n \div 2^k
                                    THEN "FREE" ELSE tree[m]]
     IN
       /\ tree' = UpdateParent(free, n \div 2^top)
       /\ used_mem' = used_mem - BlockSize(n)
  /\ held' = [p \in Pointers |-> IF held[p].at = at THEN Nothing ELSE held[p]]
  /\ UNCHANGED layout

\* NULL, an address outside the heap, or one where no block in use begins: one
\* already freed, for instance.
MmFreeNothing(at) == UsedAt(at) = {} /\ UNCHANGED buddyvars

AllocCall(p, size) == MmAlloc(p, size) \/ MmAllocNull(size)
FreeCall(at) == MmFree(at) \/ MmFreeNothing(at)

BuddyNext ==
  \/ \E p \in Pointers, size \in Sizes : held[p] = Nothing /\ AllocCall(p, size)
  \/ \E at \in Addresses : FreeCall(at)

BuddySpec == BuddyInit /\ [][BuddyNext]_buddyvars

-----------------------------------------------------------------------------
Held == {p \in Pointers : held[p] # Nothing}

\* The nodes in use are the blocks held, and used_mem adds them up.
BuddyTypeOK ==
  /\ tree \in [Nodes -> NodeStates]
  /\ used_mem \in 0..total_size

\* The tree and the heap behind it fit in the memory given to mm_init.
LayoutFits ==
  total_size # 0 =>
    /\ 2^levels <= TreeSize
    /\ TreeSize + total_size <= heap_size

\* used_mem, which mm_state reports, counts the bytes of the blocks held, and these
\* are the USED nodes: after any history nothing leaks.
BytesHeld ==
  {b \in 0..(total_size - 1) : \E p \in Held : held[p].at <= b /\ b < held[p].at + held[p].len}
UsedExact ==
  /\ used_mem = Cardinality(BytesHeld)
  /\ {<<Address(n), BlockSize(n)>> : n \in {m \in Nodes : tree[m] = "USED"}}
       = {<<held[p].at, held[p].len>> : p \in Held}

\* A search finds a block exactly when one of its size is free: what is split
\* is merged again as soon as it can be, and no FULL mark is stale.
SearchExact ==
  \A l \in 0..(levels - 1) :
    Candidates(l) # {} <=>
      \E n \in Nodes :
        /\ Level(n) = l
        /\ \A p \in Held : \/ Address(n) + BlockSize(n) <= held[p].at
                           \/ held[p].at + held[p].len <= Address(n)

Blocks == INSTANCE Allocator WITH Alignment <- MIN_BLOCK, total <- total_size
BuddyIsAllocator == Blocks!AllocatorSpec
=============================================================================
