------------------------------- MODULE Managers --------------------------------
(***************************************************************************)
(* The two memory managers are interchangeable: the kernel is linked with  *)
(* one or the other.  Here the same calls go to both, on heaps of the same *)
(* size.  A pointer is NULL in one of them when only that one failed.      *)
(***************************************************************************)
EXTENDS Integers

CONSTANTS BLOCK, Pointers, HeapSizes, Sizes

\* A block has some bytes, a power of two of them (16 in the code), without which
\* the blocks of the buddy manager would not begin at multiples; the sizes are
\* unsigned.
ASSUME ManagersAssumption ==
  /\ BLOCK \in Nat \ {0} /\ BLOCK \in {2^k : k \in 0..BLOCK}
  /\ HeapSizes \subseteq Nat /\ Sizes \subseteq Nat

VARIABLES
  heap_size,
  total_size, levels, tree, used_mem, buddy_held,
  total_blocks, bitmap, words, used_blocks, bitmap_held

managersvars == <<heap_size, total_size, levels, tree, used_mem, buddy_held,
                  total_blocks, bitmap, words, used_blocks, bitmap_held>>

B == INSTANCE Buddy WITH MIN_BLOCK <- BLOCK, held <- buddy_held
M == INSTANCE Bitmap WITH BLOCK_SIZE <- BLOCK, held <- bitmap_held

NULL == -1
PointerIn(held, p) == IF held[p] = B!Nothing THEN NULL ELSE held[p].at

ManagersInit == B!BuddyInit /\ M!BitmapInit

Alloc(p, size) ==
  /\ PointerIn(buddy_held, p) = NULL /\ PointerIn(bitmap_held, p) = NULL
  /\ B!AllocCall(p, size)
  /\ M!AllocCall(p, size)

Free(p) ==
  /\ B!FreeCall(PointerIn(buddy_held, p))
  /\ M!FreeCall(PointerIn(bitmap_held, p))

\* An address that nobody holds: freed twice, not aligned, or out of the heap.
FreeStray(at) ==
  /\ \A p \in Pointers : buddy_held[p] # B!Nothing => buddy_held[p].at # at
  /\ at \in M!FreedByCallers
  /\ \A p \in Pointers : bitmap_held[p].at # at
  /\ B!FreeCall(at)
  /\ M!FreeCall(at)

ManagersNext ==
  \/ \E p \in Pointers, size \in Sizes : Alloc(p, size)
  \/ \E p \in Pointers : Free(p)
  \/ \E at \in M!Addresses : FreeStray(at)

ManagersSpec == ManagersInit /\ [][ManagersNext]_managersvars

-----------------------------------------------------------------------------
\* The type invariants of both, and that what they keep for themselves and what
\* they hand out fit in the memory given to mm_init.
ManagersTypeOK == B!BuddyTypeOK /\ M!BitmapTypeOK /\ B!LayoutFits

\* After any history mm_state of the buddy manager adds up the blocks held, and
\* these are its USED nodes.
BuddyUsedExact == B!UsedExact

\* The bits of the bitmap manager are the blocks held and their headers, which
\* still say how long each is.
BitmapExact == M!BitmapExact

\* What either manager records is what its callers hold, after any history.
AccountsExact == BuddyUsedExact /\ BitmapExact

\* The buddy manager finds a block of a size exactly when one is free: it merges
\* whatever can be merged.
BuddySearchExact == B!SearchExact

\* Either manager implements the promises of mm_alloc and mm_free, so that the kernel
\* may be linked with one or the other.
BuddyIsAllocator  == B!BuddyIsAllocator
BitmapIsAllocator == M!BitmapIsAllocator
BothAreAllocators == BuddyIsAllocator /\ BitmapIsAllocator
=============================================================================
