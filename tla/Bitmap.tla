-------------------------------- MODULE Bitmap ---------------------------------
(***************************************************************************)
(* The bitmap memory manager (Kernel/memory/bitmap_mm.c): first fit over   *)
(* blocks of one size, with a header block before each pointer returned.   *)
(* The words of the bitmap are abstracted to the set of bits that are 1.   *)
(* Addresses are offsets from g_blocks_base.                               *)
(***************************************************************************)
EXTENDS Integers, FiniteSetsExt

CONSTANTS
  BLOCK_SIZE,
  Pointers,     \* the variables callers keep pointers in
  HeapSizes,    \* sizes mm_init may be called with
  Sizes         \* sizes mm_alloc may be called with: none wraps 64 bits

VARIABLES
  heap_size,    \* the argument of mm_init
  total_blocks, \* the blocks it hands out, set by mm_init
  bitmap,       \* the blocks marked in g_bitmap
  words,        \* the first word of each block: nblocks in a header
  used_blocks,
  held          \* the block each pointer refers to, Nothing after mm_free

bitmapvars == <<heap_size, total_blocks, bitmap, words, used_blocks, held>>

Nothing == [at |-> 0, len |-> 0]      \* NULL

-----------------------------------------------------------------------------
(* mm_init.                                                                *)

BITS_PER_WORD == 32
CeilDiv(n, d) == (n + d - 1) \div d

\* The words of the bitmap, rounded up so that the blocks are aligned.
BitmapBytes ==
  CeilDiv(CeilDiv(heap_size \div BLOCK_SIZE, BITS_PER_WORD) * 4, BLOCK_SIZE) * BLOCK_SIZE

Available ==
  IF heap_size >= 2 * BLOCK_SIZE /\ BitmapBytes < heap_size
    THEN (heap_size - BitmapBytes) \div BLOCK_SIZE ELSE 0

-----------------------------------------------------------------------------
BitmapInit ==
  /\ heap_size \in HeapSizes
  /\ total_blocks = Available
  /\ bitmap = {}
  /\ words = [b \in 0..(total_blocks - 1) |-> 0]
  /\ used_blocks = 0
  /\ held = [p \in Pointers |-> Nothing]

Needed(size) == CeilDiv(size, BLOCK_SIZE) + 1

Span(start, n) == start..(start + n - 1)
Fits(n) == {i \in 0..(total_blocks - n) : Span(i, n) \cap bitmap = {}}

\* The caller writes over the whole of its block at once: junk in each word.
Junk == total_blocks + 1

MmAlloc(p, size) ==
  /\ size # 0 /\ Fits(Needed(size)) # {}
  /\ LET start == Min(Fits(Needed(size)))
         n     == Needed(size)
         user  == CeilDiv(size, BLOCK_SIZE)
     IN
       /\ bitmap' = bitmap \cup Span(start, n)
       /\ used_blocks' = used_blocks + n
       /\ words' = [b \in DOMAIN words |->
            IF b = start THEN user
            ELSE IF b \in Span(start + 1, user) THEN Junk ELSE words[b]]
       /\ held' = [held EXCEPT ![p] =
            [at |-> (start + 1) * BLOCK_SIZE, len |-> user * BLOCK_SIZE]]
  /\ UNCHANGED <<heap_size, total_blocks>>

MmAllocNull(size) ==
  /\ size = 0 \/ Fits(Needed(size)) = {}
  /\ UNCHANGED bitmapvars

\* The guards of mm_free, but for those on NULL and on the range of at.
Header(at) == at \div BLOCK_SIZE - 1

Freeable(at) ==
  /\ at % BLOCK_SIZE = 0 /\ at # 0
  /\ Header(at) + words[Header(at)] + 1 <= total_blocks
  /\ Header(at) \in bitmap

\* Mutant: the header is not given back.
FreedNoHeader(at) == Span(Header(at) + 1, words[Header(at)])
Freed(at) == Span(Header(at), words[Header(at)] + 1)

MmFree(at) ==
  /\ Freeable(at)
  /\ bitmap' = bitmap \ Freed(at)
  /\ used_blocks' = used_blocks - (words[Header(at)] + 1)
  /\ held' = [p \in Pointers |-> IF held[p].at = at THEN Nothing ELSE held[p]]
  /\ UNCHANGED <<heap_size, total_blocks, words>>

MmFreeNothing(at) == ~Freeable(at) /\ UNCHANGED bitmapvars

\* What callers free: what they hold, or an address that is not in use (freed
\* twice).  An address inside a block in use is not checked: its header would
\* be what the holder wrote there.
Held == {p \in Pointers : held[p] # Nothing}
Addresses == {k * (BLOCK_SIZE \div 2) : k \in 0..(2 * total_blocks - 1)}
FreedByCallers ==
  {held[p].at : p \in Held}
    \cup {at \in Addresses : Header(at) \notin bitmap \/ at % BLOCK_SIZE # 0}

AllocCall(p, size) == MmAlloc(p, size) \/ MmAllocNull(size)
FreeCall(at) == MmFree(at) \/ MmFreeNothing(at)

BitmapNext ==
  \/ \E p \in Pointers, size \in Sizes : held[p] = Nothing /\ AllocCall(p, size)
  \/ \E at \in FreedByCallers : FreeCall(at)

BitmapSpec == BitmapInit /\ [][BitmapNext]_bitmapvars

-----------------------------------------------------------------------------
BitmapTypeOK ==
  /\ bitmap \subseteq 0..(total_blocks - 1)
  /\ words \in [0..(total_blocks - 1) -> 0..(total_blocks + 1)]
  /\ used_blocks \in 0..total_blocks
  /\ BitmapBytes + total_blocks * BLOCK_SIZE <= heap_size \/ total_blocks = 0

\* After any history the bits that are 1 are the blocks held and their headers,
\* each header still has the length of its block, whatever the holders wrote,
\* and used_blocks counts the bits.
SpanOf(b) == Span(Header(b.at), b.len \div BLOCK_SIZE + 1)
BitmapExact ==
  /\ bitmap = UNION {SpanOf(held[p]) : p \in Held}
  /\ \A p \in Held : words[Header(held[p].at)] = held[p].len \div BLOCK_SIZE
  /\ used_blocks = Cardinality(bitmap)

Blocks == INSTANCE Allocator WITH Alignment <- BLOCK_SIZE,
            total <- total_blocks * BLOCK_SIZE
BitmapIsAllocator == Blocks!AllocatorSpec
=============================================================================
