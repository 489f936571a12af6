------------------------------- MODULE Allocator -------------------------------
(***************************************************************************)
(* What mm_alloc and mm_free promise to the kernel and to programs: a      *)
(* pointer returned is aligned, has room for what was asked, lies in the   *)
(* heap, and shares no byte with a block that somebody holds.              *)
(***************************************************************************)
EXTENDS Naturals

CONSTANTS
  Pointers,    \* the variables callers keep pointers in
  Sizes,       \* what they ask for
  Alignment

VARIABLES
  total,       \* size of the heap handed out
  held         \* the block each pointer refers to, Nothing after mm_free

Nothing == [at |-> 0, len |-> 0]      \* NULL

Disjoint(a, b) == a.at + a.len <= b.at \/ b.at + b.len <= a.at

Alloc(p, size) ==
  /\ held[p] = Nothing
  /\ held'[p] # Nothing
  /\ LET b == held'[p] IN
       /\ b.at % Alignment = 0 /\ b.len >= size /\ b.at + b.len <= total
       /\ \A q \in Pointers : held[q] # Nothing => Disjoint(b, held[q])
  /\ held' = [held EXCEPT ![p] = held'[p]]

Free(p) == held' = [held EXCEPT ![p] = Nothing]

AllocatorInit == held = [p \in Pointers |-> Nothing]
AllocatorNext ==
  /\ UNCHANGED total
  /\ \E p \in Pointers : Free(p) \/ \E size \in Sizes : Alloc(p, size)
AllocatorSpec == AllocatorInit /\ [][AllocatorNext]_<<total, held>>
=============================================================================
